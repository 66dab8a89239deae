------------------------------ MODULE MCDownload ------------------------------
(* Instances of Download for TLC. *)
EXTENDS Download, TLC

CONSTANTS j1, j2, t1

MCJobs   == {j1, j2}
MCTracks == {t1}
MCAlbum  == [j \in MCJobs |-> <<t1>>]

(* The lossless quality is FLAC, the other an MP4 container. *)
MCFormats   == {"LOSSLESS", "LOW"}
MCExtOf     == [q \in MCFormats |-> IF q = "LOSSLESS" THEN "flac" ELSE "m4a"]
MCRequested == <<"LOSSLESS", "", "HIGH", "LOSSLESS">>

(* The jobs download the same tracks, so they can be exchanged. *)
MCSymmetry == Permutations(MCJobs)

(* Which number an inode has does not matter, and no two names share one     *)
(* (OneName of DownloadProofs): two states are the same when the names show  *)
(* the same content and the jobs' open files have the same content, names    *)
(* and holders.  Nothing is said any more of the files of a track that is    *)
(* overlapped and misled, for good: of them only the first piece matters,    *)
(* which Detect reads.                                                       *)
Seen(t, i) == IF t \in overlapped \cap misled THEN data[i][1] ELSE data[i]

MCView ==
  <<[t \in Tracks |-> [n \in Names |->
      IF dir[t][n] = NoFile THEN "none" ELSE Seen(t, dir[t][n])]],
    [j \in Jobs |->
      IF fd[j] = NoFile THEN "none"
      ELSE <<Seen(Current(j), fd[j]),
             {tn \in Tracks \X Names : dir[tn[1]][tn[2]] = fd[j]},
             {k \in Jobs : fd[k] = fd[j]}>>],
    at, todo, attempt, tried, format, ext, part, pos, history>>
===============================================================================

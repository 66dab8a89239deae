--------------------------- MODULE DownloadProofs ---------------------------
(***************************************************************************)
(* Proofs about module Download, for any number of jobs, tracks, formats,  *)
(* pieces, attempts and crashes.                                           *)
(*                                                                         *)
(*   JobInv    types, and what a job knows at each of its steps (Sound,    *)
(*             Tagging): DownloadTypeCorrect and EveryStepAdvances follow  *)
(*             from it                                                     *)
(*   FilesInv  no file has two names, and a job has only a file of its own *)
(*             track open: what one job writes, no other track shows       *)
(*   Tidy      every temporary file has a job that will take it away:      *)
(*             NothingIsLeftBehind                                         *)
(*   SoloInv   how far the only job of a track has got with its files:     *)
(*             SoloDownloadsFinish, from FilesInv                          *)
(*   AskedInv  the streams and files of a track that was served as it was  *)
(*             asked for: QualitiesAreHonoured, from FilesInv              *)
(***************************************************************************)
EXTENDS Download, OrderLemmas

-------------------------------------------------------------------------------
(* Lists of qualities.                                                     *)

(* What stands at some places of a sequence, in order, is a sequence of as *)
(* many of its elements.                                                   *)
LEMMA AtPlacesIs ==
  ASSUME NEW S, NEW s \in Seq(S), NEW places \in SUBSET DOMAIN s
  PROVE  /\ Cardinality(places) \in Nat /\ IsFiniteSet(places)
         /\ AtPlaces(s, places) \in Seq(S)
         /\ Len(AtPlaces(s, places)) = Cardinality(places)
         /\ \A n \in 1..Cardinality(places) : \E i \in places : AtPlaces(s, places)[n] = s[i]
<1> DEFINE c == Cardinality(places)
           R == {p \in places \X places : p[1] < p[2]}
<1>1. Len(s) \in Nat /\ DOMAIN s = 1..Len(s)
  OBVIOUS
<1>2. IsFiniteSet(places) /\ c \in Nat
  <2>1. IsFiniteSet(1..Len(s)) /\ places \subseteq 1..Len(s)
    BY <1>1, InitialSegment
  <2>2. IsFiniteSet(places)
    BY <2>1, FS_Subset
  <2>3. QED
    BY <2>2, FS_CardinalityType
<1>3. \A i, k \in places : <<i, k>> \in R <=> i < k
  OBVIOUS
<1>4. StrictTotalOrder(R, places)
  <2> HIDE DEF R
  <2>1. \A i \in places : i \in Int
    BY <1>1
  <2>2. QED
    BY <1>3, <2>1 DEF StrictTotalOrder
<1>5. \A i \in places : Rank(R, places)[i] = Cardinality(places \cap (1..i))
  <2> SUFFICES ASSUME NEW i \in places
               PROVE  UpTo(R, places, i) = places \cap (1..i)
    BY DEF Rank
  <2>1. \A k \in places : k \in Nat /\ k >= 1
    BY <1>1
  <2> HIDE DEF R
  <2>2. \A k \in places : k \in UpTo(R, places, i) <=> k \in 1..i
    BY <1>3, <2>1 DEF UpTo
  <2>3. QED
    BY <2>2 DEF UpTo
<1>6. \A n \in 1..c : \E i \in places : Cardinality(places \cap (1..i)) = n
  BY <1>2, <1>4, <1>5, RankIsBijection DEF Bijection, Surjection
<1>7. \A n \in 1..c : \E i \in places : AtPlaces(s, places)[n] = s[i]
  BY <1>6 DEF AtPlaces
<1>8. AtPlaces(s, places) \in [1..c -> S]
  <2>1. \A i \in places : s[i] \in S
    BY <1>1
  <2>2. \A n \in 1..c : AtPlaces(s, places)[n] \in S
    BY <1>7, <2>1
  <2>3. AtPlaces(s, places) = [n \in 1..c |-> AtPlaces(s, places)[n]]
    BY DEF AtPlaces
  <2>4. QED
    BY <2>2, <2>3
<1>9. AtPlaces(s, places) \in Seq(S) /\ Len(AtPlaces(s, places)) = c
  BY <1>2, <1>8
<1>10. QED
  BY <1>2, <1>7, <1>9

LEMMA DistinctIs ==
  ASSUME NEW S, NEW s \in Seq(S)
  PROVE  /\ Distinct(s) \in Seq(S)
         /\ s # <<>> => Distinct(s) # <<>>
<1>1. FirstSeen(s) \in SUBSET DOMAIN s
  BY DEF FirstSeen
<1>2. Distinct(s) \in Seq(S) /\ Len(Distinct(s)) = Cardinality(FirstSeen(s))
  BY <1>1, AtPlacesIs DEF Distinct
<1>3. ASSUME s # <<>>
      PROVE  Distinct(s) # <<>>
  <2>1. 1 \in FirstSeen(s)
    BY <1>3 DEF FirstSeen
  <2>2. Cardinality(FirstSeen(s)) # 0
    BY <1>1, <2>1, AtPlacesIs, FS_EmptySet
  <2>3. QED
    BY <1>2, <2>2
<1>4. QED
  BY <1>2, <1>3

(* A list asked for a stream is never empty.                               *)
LEMMA FiveAreList ==
  ASSUME NEW S, NEW a \in S, NEW b \in S, NEW c \in S, NEW d \in S, NEW e \in S
  PROVE  <<a, b, c, d, e>> \in Seq(S) /\ <<a, b, c, d, e>> # <<>>
OBVIOUS

LEMMA QualitiesIs ==
  ASSUME NEW preferred, NEW strict \in BOOLEAN
  PROVE  \E S : /\ Qualities(preferred, strict) \in Seq(S)
                /\ Qualities(preferred, strict) # <<>>
<1> DEFINE S == {preferred, StreamQuality, NoQuality, "HIGH", "LOSSLESS", "LOW"}
<1>1. \A q \in S : CandidateQualities(q) \in Seq(S) /\ CandidateQualities(q) # <<>>
  <2> SUFFICES ASSUME NEW q \in S
               PROVE  CandidateQualities(q) \in Seq(S) /\ CandidateQualities(q) # <<>>
    OBVIOUS
  <2>1. <<q, NoQuality, "HIGH", "LOSSLESS", "LOW">> \in Seq(S)
    BY FiveAreList
  <2>2. <<q, NoQuality, "HIGH", "LOSSLESS", "LOW">> # <<>>
    BY FiveAreList
  <2>3. QED
    BY <2>1, <2>2, DistinctIs DEF CandidateQualities
<1>2. CASE strict /\ preferred # NoQuality
  <2>1. preferred \in S /\ <<preferred>> \in Seq(S) /\ <<preferred>> # <<>>
    OBVIOUS
  <2>2. QED
    BY <1>2, <2>1 DEF Qualities
<1>3. CASE ~(strict /\ preferred # NoQuality)
  <2>1. (IF preferred = NoQuality THEN StreamQuality ELSE preferred) \in S
    OBVIOUS
  <2>2. QED
    BY <1>1, <1>3, <2>1 DEF Qualities
<1>4. QED
  BY <1>2, <1>3

(* The loop over them ends somewhere, so what is resolved is of a quality  *)
(* that was asked for.                                                     *)
LEMMA EndingIs ==
  ASSUME NEW S, NEW s \in Seq(S), s # <<>>, NEW world
  PROVE  Ending(s, world) \in 1..Len(s)
<1> DEFINE T == {i \in 1..Len(s) : i = Len(s) \/ ~TriesNext(world[s[i]])}
<1>1. Len(s) \in Nat /\ Len(s) \in T
  OBVIOUS
<1>2. PICK m \in T : \A i \in T : m <= i
  <2>1. T \in SUBSET Nat /\ T # {}
    BY <1>1
  <2> HIDE DEF T
  <2>2. QED
    BY <2>1, LeastNumber
<1>3. \A k \in 1..(m - 1) : TriesNext(world[s[k]])
  BY <1>1, <1>2
<1>4. QED
  BY <1>1, <1>2, <1>3 DEF Ending

LEMMA ResolutionsAre ==
  ASSUME NEW S, NEW s \in Seq(S), s # <<>>, NEW r \in Resolutions(s), r.error = "none"
  PROVE  r.asked \in ToSet(s) /\ r.format \in Formats
<1>1. PICK world \in [ToSet(s) -> Answers] : r = Resolve(s, world)
  BY DEF Resolutions
<1> DEFINE q == s[Ending(s, world)]
<1>2. q \in ToSet(s)
  <2>1. Ending(s, world) \in 1..Len(s)
    BY EndingIs
  <2>2. QED
    BY <2>1 DEF ToSet
<1>3. \A answer \in Refusals : Failure(answer) # "none"
  <2>1. /\ Failure("preview") = "nofull" /\ Failure("missing") = "notfound"
        /\ Failure("network") = "network"
    BY DEF Failure
  <2>2. Failure("unusable") = "failed" /\ Failure("refused") = "failed" /\ Failure("failed") = "failed"
    BY DEF Failure
  <2>3. QED
    BY <2>1, <2>2 DEF Refusals
<1>4. world[q] \in Formats
  <2>1. CASE world[q] \notin Formats
    <3>1. world[q] \in Refusals
      BY <1>2, <2>1 DEF Answers
    <3>2. r.error = Failure(world[q])
      BY <1>1, <2>1 DEF Resolve
    <3>3. QED
      BY <1>3, <3>1, <3>2
  <2>2. QED
    BY <2>1
<1>5. r.asked = q /\ r.format = world[q]
  BY <1>1, <1>4 DEF Resolve
<1>6. QED
  BY <1>2, <1>4, <1>5

LEMMA DownloadQualitiesAre ==
  /\ DownloadQualities \in Seq(ToSet(Requested))
  /\ \A i \in 1..Len(DownloadQualities) : DownloadQualities[i] # NoQuality
<1> DEFINE places == {i \in FirstSeen(Requested) : Requested[i] # NoQuality}
<1>1. Requested \in Seq(ToSet(Requested)) /\ places \in SUBSET DOMAIN Requested
  BY DownloadAssumption DEF FirstSeen
<1>2. DownloadQualities = AtPlaces(Requested, places)
  BY DEF DownloadQualities
<1>3. /\ DownloadQualities \in Seq(ToSet(Requested))
      /\ \A n \in 1..Len(DownloadQualities) : \E i \in places : DownloadQualities[n] = Requested[i]
  <2> HIDE DEF places
  <2>1. QED
    BY <1>1, <1>2, AtPlacesIs
<1>4. QED
  BY <1>3

(* What a download asks for, and gets.                                     *)
LEMMA AskedIs ==
  ASSUME NEW j \in Jobs, tried[j] \in Nat,
         DownloadQualities # <<>> => tried[j] < Len(DownloadQualities),
         NEW r \in Resolutions(Asked(j)), r.error = "none"
  PROVE  /\ r.format \in Formats
         /\ DownloadQualities # <<>> => r.asked \in ToSet(DownloadQualities)
<1>1. CASE DownloadQualities = <<>>
  <2>1. Asked(j) = Qualities(NoQuality, FALSE)
    BY <1>1 DEF Asked
  <2>2. r.format \in Formats
    BY <2>1, QualitiesIs, ResolutionsAre
  <2>3. QED
    BY <1>1, <2>2
<1>2. CASE DownloadQualities # <<>>
  <2> DEFINE q == DownloadQualities[tried[j] + 1]
  <2>1. tried[j] + 1 \in 1..Len(DownloadQualities)
    <3>1. Len(DownloadQualities) \in Nat
      BY DownloadQualitiesAre
    <3>2. QED
      BY <1>2, <3>1
  <2>2. q # NoQuality /\ q \in ToSet(DownloadQualities)
    BY <2>1, DownloadQualitiesAre DEF ToSet
  <2>3. Asked(j) = <<q>>
    BY <1>2, <2>2 DEF Asked, Qualities
  <2>4. r.asked \in ToSet(<<q>>) /\ r.format \in Formats
    <3>1. <<q>> \in Seq({q}) /\ <<q>> # <<>>
      OBVIOUS
    <3>2. QED
      BY <2>3, <3>1, ResolutionsAre
  <2>5. ToSet(<<q>>) = {q}
    BY DEF ToSet
  <2>6. QED
    BY <2>2, <2>4, <2>5
<1>3. QED
  BY <1>1, <1>2

-------------------------------------------------------------------------------
(* Files.                                                                  *)

LEMMA ExtsAreFinite == IsFiniteSet(Exts) /\ IsFiniteSet(Names) /\ "flac" \in Exts
<1>2. IsFiniteSet(Formats)
  BY FormatsAreAnswers
<1>3. IsFiniteSet({ExtOf[q] : q \in Formats})
  <2> DEFINE f == [q \in Formats |-> ExtOf[q]]
  <2>1. f \in Surjection(Formats, {ExtOf[q] : q \in Formats})
    BY DEF Surjection
  <2>2. QED
    BY <1>2, <2>1, FS_Surjection
<1>4. IsFiniteSet(Exts) /\ "flac" \in Exts
  BY <1>3, FS_AddElement DEF Exts
<1>5. IsFiniteSet({"audio", "part", "tag"})
  <2>1. IsFiniteSet({"audio"}) /\ IsFiniteSet({"audio"} \cup {"part"})
    BY FS_EmptySet, FS_AddElement
  <2>2. {"audio", "part", "tag"} = ({"audio"} \cup {"part"}) \cup {"tag"}
    OBVIOUS
  <2>3. QED
    BY <2>1, <2>2, FS_AddElement
<1>6. QED
  BY <1>4, <1>5, FS_Product DEF Names

(* There are more inodes than names and open files.                        *)
LEMMA FreshInodeIsFree ==
  ASSUME TypeOK
  PROVE  FreshInode \in Inodes /\ FreshInode \notin InUse
<1> DEFINE N == Tracks \X Names
           Named == {dir[t][n] : t \in Tracks, n \in Names}
           Opened == {fd[j] : j \in Jobs}
<1>1. /\ IsFiniteSet(Tracks) /\ IsFiniteSet(Names) /\ IsFiniteSet(Jobs) /\ IsFiniteSet(Inodes)
      /\ Cardinality(Inodes) > Cardinality(Tracks) * Cardinality(Names) + Cardinality(Jobs)
  BY DownloadAssumption, ExtsAreFinite
<1>2. IsFiniteSet(N) /\ Cardinality(N) = Cardinality(Tracks) * Cardinality(Names)
  BY <1>1, FS_Product
<1>3. IsFiniteSet(Named) /\ Cardinality(Named) <= Cardinality(N)
  <2> DEFINE f == [k \in N |-> dir[k[1]][k[2]]]
  <2>1. \A k \in N : f[k] \in Named
    OBVIOUS
  <2>2. ASSUME NEW i \in Named
        PROVE  \E k \in N : f[k] = i
    <3>1. PICK t \in Tracks, n \in Names : i = dir[t][n]
      OBVIOUS
    <3>2. <<t, n>> \in N /\ f[<<t, n>>] = i
      BY <3>1
    <3>3. QED
      BY <3>2
  <2>3. f \in [N -> Named]
    <3>1. f = [k \in N |-> f[k]]
      OBVIOUS
    <3> HIDE DEF f, Named
    <3>2. QED
      BY <2>1, <3>1
  <2> HIDE DEF f, Named, N
  <2>4. f \in Surjection(N, Named)
    BY <2>2, <2>3 DEF Surjection
  <2>5. QED
    BY <1>2, <2>4, FS_Surjection
<1>4. IsFiniteSet(Opened) /\ Cardinality(Opened) <= Cardinality(Jobs)
  <2> DEFINE f == [j \in Jobs |-> fd[j]]
  <2>1. f \in Surjection(Jobs, Opened)
    BY DEF Surjection
  <2>2. QED
    BY <1>1, <2>1, FS_Surjection
<1>5. IsFiniteSet(InUse) /\ Cardinality(InUse) <= Cardinality(Named) + Cardinality(Opened)
  <2> SUFFICES /\ IsFiniteSet(Named \cup Opened)
               /\ Cardinality(Named \cup Opened) <= Cardinality(Named) + Cardinality(Opened)
    BY DEF InUse
  <2> HIDE DEF Named, Opened
  <2>0. IsFiniteSet(Named \cap Opened)
    BY <1>3, FS_Subset
  <2>1. /\ IsFiniteSet(Named \cup Opened) /\ IsFiniteSet(Named \cap Opened)
        /\ Cardinality(Named \cup Opened)
             = Cardinality(Named) + Cardinality(Opened) - Cardinality(Named \cap Opened)
    BY <1>3, <1>4, <2>0, FS_Union
  <2>2. Cardinality(Named \cap Opened) \in Nat /\ Cardinality(Named) \in Nat /\ Cardinality(Opened) \in Nat
    BY <1>3, <1>4, <2>1, FS_CardinalityType
  <2>3. QED
    BY <2>1, <2>2
<1>6. \E i \in Inodes : i \notin InUse
  <2> SUFFICES ASSUME Inodes \subseteq InUse
               PROVE  FALSE
    OBVIOUS
  <2>1. Cardinality(Inodes) <= Cardinality(InUse)
    BY <1>5, FS_Subset
  <2>2. /\ Cardinality(Named) \in Nat /\ Cardinality(Opened) \in Nat /\ Cardinality(N) \in Nat
        /\ Cardinality(Jobs) \in Nat /\ Cardinality(InUse) \in Nat /\ Cardinality(Inodes) \in Nat
    BY <1>1, <1>2, <1>3, <1>4, <1>5, FS_CardinalityType
  <2> HIDE DEF N, Named, Opened
  <2>3. QED
    BY <1>1, <1>2, <1>3, <1>4, <1>5, <2>1, <2>2
<1>7. QED
  BY <1>6 DEF FreshInode

LEMMA LinkIs ==
  ASSUME dir \in [Tracks -> [Names -> Inodes \cup {NoFile}]],
         NEW j, Current(j) \in Tracks, NEW name \in Names, NEW i \in Inodes \cup {NoFile}
  PROVE  /\ Link(j, name, i) \in [Tracks -> [Names -> Inodes \cup {NoFile}]]
         /\ \A t \in Tracks, n \in Names : Link(j, name, i)[t][n] =
              IF t = Current(j) /\ n = name THEN i ELSE dir[t][n]
BY DEF Link

LEMMA MovedIs ==
  ASSUME dir \in [Tracks -> [Names -> Inodes \cup {NoFile}]],
         NEW j, Current(j) \in Tracks, NEW from \in Names, NEW to \in Names, from # to
  PROVE  /\ Moved(j, from, to) \in [Tracks -> [Names -> Inodes \cup {NoFile}]]
         /\ \A t \in Tracks, n \in Names : Moved(j, from, to)[t][n] =
              IF t # Current(j) THEN dir[t][n]
              ELSE IF n = from THEN NoFile
              ELSE IF n = to THEN dir[t][from] ELSE dir[t][n]
BY DEF Moved, Look

LEMMA KeptIs ==
  ASSUME data \in [Inodes -> File], NEW d, NEW open
  PROVE  /\ Kept(d, open) \in [Inodes -> File]
         /\ \A i \in Inodes : Kept(d, open)[i] \in {data[i], Empty}
         /\ \A t \in Tracks, n \in Names : d[t][n] \in Inodes => Kept(d, open)[d[t][n]] = data[d[t][n]]
         /\ \A j \in Jobs : open[j] \in Inodes => Kept(d, open)[open[j]] = data[open[j]]
<1>1. Empty \in File
  BY DEF Empty, File
<1>2. QED
  BY <1>1 DEF Kept

-------------------------------------------------------------------------------
(* What the jobs keep for themselves.                                      *)

FilesTyped ==
  /\ dir \in [Tracks -> [Names -> Inodes \cup {NoFile}]]
  /\ data \in [Inodes -> File]

JobsTyped ==
  /\ at \in [Jobs -> PCs]
  /\ todo \in [Jobs -> Seq(Tracks)]
  /\ attempt \in [Jobs -> 1..Attempts]
  /\ tried \in [Jobs -> 0..Len(DownloadQualities)]
  /\ format \in [Jobs -> Formats \cup {"none"}]
  /\ ext \in [Jobs -> Exts \cup {"none"}]
  /\ part \in [Jobs -> Exts \cup {"none"}]
  /\ fd \in [Jobs -> Inodes \cup {NoFile}]
  /\ pos \in [Jobs -> 0..Pieces]

HistoryTyped ==
  /\ crashes \in 0..MaxCrashes
  /\ completed \subseteq Tracks
  /\ overlapped \subseteq Tracks
  /\ misled \subseteq Tracks

(* Where a job knows which track, which format and which names it is       *)
(* busy with, and that it has a file open just while it writes.            *)
Sound(j) ==
  /\ at[j] \notin {"idle", "done"} => todo[j] # <<>>
  /\ at[j] \in {"stat", "create", "write", "detect", "rename", "tag", "retag"} => ext[j] \in Exts
  /\ at[j] \in {"create", "write", "detect", "rename", "tag", "retag"} => part[j] \in Exts
  /\ at[j] \in {"stat", "create", "write"} => format[j] \in Formats
  /\ at[j] = "write" <=> fd[j] # NoFile
  /\ at[j] # "write" => pos[j] = 0
  /\ DownloadQualities # <<>> => tried[j] < Len(DownloadQualities)

(* The file a job tags is under its final name: a final name, once given,  *)
(* always stands for some file.                                            *)
Tagging(j) == at[j] \in {"tag", "retag"} => Look(j, AudioOf(j)) # NoFile

JobInv == TypeOK /\ \A j \in Jobs : Sound(j) /\ Tagging(j)

(* A step of one job leaves the others where they are. *)
OthersStay(j) ==
  \A k \in Jobs \ {j} :
    /\ at'[k] = at[k] /\ todo'[k] = todo[k] /\ attempt'[k] = attempt[k] /\ tried'[k] = tried[k]
    /\ format'[k] = format[k] /\ ext'[k] = ext[k] /\ part'[k] = part[k]
    /\ fd'[k] = fd[k] /\ pos'[k] = pos[k]

LEMMA CurrentIs ==
  ASSUME TypeOK, NEW j \in Jobs, todo[j] # <<>>
  PROVE  /\ Current(j) \in Tracks
         /\ Tail(todo[j]) \in Seq(Tracks) /\ Len(Tail(todo[j])) < Len(todo[j])
BY DEF TypeOK, Current

(* The end of downloadStarredTrack. *)
LEMMA FailIs ==
  ASSUME TypeOK, NEW j \in Jobs, todo[j] # <<>>, NEW error, Fail(j, error)
  PROVE  /\ JobsTyped' /\ OthersStay(j) /\ Sound(j)'
         /\ at'[j] \in {"idle", "wait"} /\ fd'[j] = NoFile
         /\ \/ Len(todo'[j]) < Len(todo[j])
            \/ todo'[j] = todo[j] /\ attempt'[j] > attempt[j]
<1> USE DEF NoFile
<1>1. /\ Tail(todo[j]) \in Seq(Tracks) /\ Len(Tail(todo[j])) < Len(todo[j])
      /\ Attempts \in Nat \ {0} /\ Pieces \in Nat \ {0} /\ Len(DownloadQualities) \in Nat
      /\ (DownloadQualities # <<>> => Len(DownloadQualities) > 0)
  BY CurrentIs, DownloadAssumption, DownloadQualitiesAre
<1>2. /\ tried' \in [Jobs -> 0..Len(DownloadQualities)] /\ format' \in [Jobs -> Formats \cup {"none"}]
      /\ ext' \in [Jobs -> Exts \cup {"none"}] /\ part' \in [Jobs -> Exts \cup {"none"}]
      /\ fd' \in [Jobs -> Inodes \cup {NoFile}] /\ pos' \in [Jobs -> 0..Pieces]
      /\ tried'[j] = 0 /\ format'[j] = "none" /\ ext'[j] = "none" /\ part'[j] = "none"
      /\ fd'[j] = NoFile /\ pos'[j] = 0
  BY <1>1 DEF TypeOK, Fail, ResetLocals
<1>3. \A k \in Jobs \ {j} :
        /\ tried'[k] = tried[k] /\ format'[k] = format[k] /\ ext'[k] = ext[k]
        /\ part'[k] = part[k] /\ fd'[k] = fd[k] /\ pos'[k] = pos[k]
  BY DEF TypeOK, Fail, ResetLocals
<1>4. CASE MayRetry(j, error)
  <2>1. /\ at' = [at EXCEPT ![j] = "wait"] /\ todo' = todo
        /\ attempt' = [attempt EXCEPT ![j] = @ + 1] /\ attempt[j] < Attempts
    BY <1>4 DEF Fail, Move, CountAttempt, MayRetry
  <2>2. /\ at' \in [Jobs -> PCs] /\ attempt' \in [Jobs -> 1..Attempts] /\ todo' \in [Jobs -> Seq(Tracks)]
        /\ at'[j] = "wait" /\ todo'[j] = todo[j] /\ attempt'[j] > attempt[j]
        /\ \A k \in Jobs \ {j} : at'[k] = at[k] /\ attempt'[k] = attempt[k]
    BY <1>1, <2>1 DEF TypeOK, PCs
  <2>3. QED
    BY <1>1, <1>2, <1>3, <2>1, <2>2 DEF JobsTyped, OthersStay, Sound
<1>5. CASE ~MayRetry(j, error)
  <2>1. /\ at' = [at EXCEPT ![j] = "idle"] /\ todo' = [todo EXCEPT ![j] = Tail(@)]
        /\ attempt' = [attempt EXCEPT ![j] = 1]
    BY <1>5 DEF Fail, Move
  <2>2. /\ at' \in [Jobs -> PCs] /\ attempt' \in [Jobs -> 1..Attempts] /\ todo' \in [Jobs -> Seq(Tracks)]
        /\ at'[j] = "idle" /\ todo'[j] = Tail(todo[j])
        /\ \A k \in Jobs \ {j} : at'[k] = at[k] /\ attempt'[k] = attempt[k] /\ todo'[k] = todo[k]
    BY <1>1, <2>1 DEF TypeOK, PCs
  <2>3. QED
    BY <1>1, <1>2, <1>3, <2>2 DEF JobsTyped, OthersStay, Sound
<1>6. QED
  BY <1>4, <1>5

LEMMA SucceedIs ==
  ASSUME TypeOK, NEW j \in Jobs, todo[j] # <<>>, Succeed(j)
  PROVE  /\ JobsTyped' /\ OthersStay(j) /\ Sound(j)'
         /\ at'[j] = "idle" /\ fd'[j] = NoFile
         /\ Len(todo'[j]) < Len(todo[j])
<1> USE DEF NoFile
<1>1. /\ Tail(todo[j]) \in Seq(Tracks) /\ Len(Tail(todo[j])) < Len(todo[j])
      /\ Attempts \in Nat \ {0} /\ Pieces \in Nat \ {0} /\ Len(DownloadQualities) \in Nat
      /\ (DownloadQualities # <<>> => Len(DownloadQualities) > 0)
  BY CurrentIs, DownloadAssumption, DownloadQualitiesAre
<1>2. /\ tried' \in [Jobs -> 0..Len(DownloadQualities)] /\ format' \in [Jobs -> Formats \cup {"none"}]
      /\ ext' \in [Jobs -> Exts \cup {"none"}] /\ part' \in [Jobs -> Exts \cup {"none"}]
      /\ fd' \in [Jobs -> Inodes \cup {NoFile}] /\ pos' \in [Jobs -> 0..Pieces]
      /\ tried'[j] = 0 /\ format'[j] = "none" /\ ext'[j] = "none" /\ part'[j] = "none"
      /\ fd'[j] = NoFile /\ pos'[j] = 0
  BY <1>1 DEF TypeOK, Succeed, ResetLocals
<1>3. \A k \in Jobs \ {j} :
        /\ tried'[k] = tried[k] /\ format'[k] = format[k] /\ ext'[k] = ext[k]
        /\ part'[k] = part[k] /\ fd'[k] = fd[k] /\ pos'[k] = pos[k]
  BY DEF TypeOK, Succeed, ResetLocals
<1>4. /\ at' = [at EXCEPT ![j] = "idle"] /\ todo' = [todo EXCEPT ![j] = Tail(@)]
      /\ attempt' = [attempt EXCEPT ![j] = 1]
  BY DEF Succeed, Move
<1>5. /\ at' \in [Jobs -> PCs] /\ attempt' \in [Jobs -> 1..Attempts] /\ todo' \in [Jobs -> Seq(Tracks)]
      /\ at'[j] = "idle" /\ todo'[j] = Tail(todo[j])
      /\ \A k \in Jobs \ {j} : at'[k] = at[k] /\ attempt'[k] = attempt[k] /\ todo'[k] = todo[k]
  BY <1>1, <1>4 DEF TypeOK, PCs
<1>6. QED
  BY <1>1, <1>2, <1>3, <1>5 DEF JobsTyped, OthersStay, Sound

LEMMA MappedIs ==
  \A q \in Formats : Mapped(q) \subseteq Formats /\ Served(q) \subseteq Formats \cup {"cut"}
BY DownloadAssumption DEF Mapped, Served

(* Every step of a job, as far as it goes for the job alone. *)
LEMMA StepOfJob ==
  ASSUME JobInv, NEW j \in Jobs, Step(j)
  PROVE  JobsTyped' /\ OthersStay(j) /\ Sound(j)'
<1> USE DEF NoFile
<1>1. TypeOK /\ Sound(j)
  BY DEF JobInv
<1>2. /\ Attempts \in Nat \ {0} /\ Pieces \in Nat \ {0} /\ Len(DownloadQualities) \in Nat
      /\ (DownloadQualities # <<>> => Len(DownloadQualities) > 0)
  BY DownloadAssumption, DownloadQualitiesAre
<1>3. CASE NextTrack(j)
  BY <1>1, <1>2, <1>3 DEF NextTrack, Move, TypeOK, Sound, JobsTyped, OthersStay, PCs, locals
<1>4. CASE JobEnds(j)
  BY <1>1, <1>2, <1>4 DEF JobEnds, Move, TypeOK, Sound, JobsTyped, OthersStay, PCs, locals
<1>5. CASE Retry(j)
  BY <1>1, <1>2, <1>5 DEF Retry, Move, TypeOK, Sound, JobsTyped, OthersStay, PCs, locals
<1>6. CASE GiveUp(j)
  <2>1. todo[j] # <<>> /\ Tail(todo[j]) \in Seq(Tracks)
    BY <1>1, <1>6, CurrentIs DEF GiveUp, Sound
  <2>2. QED
    BY <1>1, <1>2, <1>6, <2>1 DEF GiveUp, Move, TypeOK, Sound, JobsTyped, OthersStay, PCs, locals
<1>7. CASE ResolveWorks(j)
  <2>1. PICK r \in Resolutions(Asked(j)), track \in GotTracks :
          /\ r.error = "none"
          /\ format' = [format EXCEPT ![j] = r.format]
          /\ \E e \in DownloadExts(track, r.format) : ext' = [ext EXCEPT ![j] = e]
    BY <1>7 DEF ResolveWorks
  <2>2. r.format \in Formats
    BY <1>1, <1>2, <2>1, AskedIs DEF TypeOK, Sound
  <2>3. PICK e \in Exts : ext' = [ext EXCEPT ![j] = e]
    BY <2>1, <2>2 DEF DownloadExts, Exts
  <2>4. QED
    BY <1>1, <1>2, <1>7, <2>1, <2>2, <2>3
       DEF ResolveWorks, Move, TypeOK, Sound, JobsTyped, OthersStay, PCs
<1>8. CASE AskNext(j)
  BY <1>1, <1>2, <1>8 DEF AskNext, TypeOK, Sound, JobsTyped, OthersStay, PCs
<1>9. CASE ResolveFails(j)
  BY <1>1, <1>9, FailIs DEF ResolveFails, Sound
<1>10. CASE Stat(j)
  <2>1. todo[j] # <<>>
    BY <1>1, <1>10 DEF Stat, Sound
  <2>2. CASE Succeed(j)
    BY <1>1, <2>1, <2>2, SucceedIs
  <2>3. CASE /\ Move(j, "create") /\ part' = [part EXCEPT ![j] = ext[j]]
             /\ UNCHANGED <<todo, attempt, tried, format, ext, fd, pos, completed>>
    BY <1>1, <1>2, <1>10, <2>1, <2>3 DEF Stat, Move, TypeOK, Sound, JobsTyped, OthersStay, PCs
  <2>4. QED
    BY <1>10, <2>2, <2>3 DEF Stat
<1>11. CASE Create(j)
  <2>1. PICK i \in Inodes : fd' = [fd EXCEPT ![j] = i]
    <3>1. PartOf(j) \in Names /\ Current(j) \in Tracks
      BY <1>1, <1>11, CurrentIs DEF Create, Sound, PartOf, Names
    <3>2. Look(j, PartOf(j)) \in Inodes \cup {NoFile}
      BY <1>1, <3>1 DEF Look, TypeOK
    <3>3. FreshInode \in Inodes
      BY <1>1, FreshInodeIsFree
    <3>4. QED
      BY <1>11, <3>2, <3>3 DEF Create
  <2>2. 0 \notin Inodes
    BY DownloadAssumption
  <2>3. PICK q \in Formats : format' = [format EXCEPT ![j] = q]
    BY <1>1, <1>11, MappedIs DEF Create, Sound
  <2>4. QED
    BY <1>1, <1>2, <1>11, <2>1, <2>2, <2>3 DEF Create, Move, TypeOK, Sound, JobsTyped, OthersStay, PCs
<1>12. CASE CreateFails(j)
  BY <1>1, <1>12, FailIs DEF CreateFails, Sound
<1>13. CASE Write(j)
  BY <1>1, <1>2, <1>13 DEF Write, TypeOK, Sound, JobsTyped, OthersStay, PCs
<1>14. CASE WriteFails(j)
  BY <1>1, <1>14, FailIs DEF WriteFails, Sound
<1>15. CASE Close(j)
  BY <1>1, <1>2, <1>15 DEF Close, Written, Move, TypeOK, Sound, JobsTyped, OthersStay, PCs
<1>16. CASE Detect(j)
  <2>1. DetectedExts(j) \subseteq Exts
    <3>1. PartOf(j) \in Names /\ Current(j) \in Tracks
      BY <1>1, <1>16, CurrentIs DEF Detect, Sound, PartOf, Names
    <3>2. data[Look(j, PartOf(j))] \in File
      BY <1>1, <1>16, <3>1 DEF Look, TypeOK, Detect
    <3>3. data[Look(j, PartOf(j))][1] \in Formats \cup {"cut", "hole"}
      BY <1>2, <3>2 DEF File
    <3>4. ext[j] \in Exts /\ \A q \in Formats : ExtOf[q] \in Exts
      BY <1>1, <1>16 DEF Exts, Sound, Detect
    <3>5. Segmented \subseteq Formats /\ "cut" \notin Formats /\ "hole" \notin Formats
      BY DownloadAssumption
    <3>6. QED
      BY <3>3, <3>4, <3>5 DEF DetectedExts
  <2>2. PICK e \in Exts : ext' = [ext EXCEPT ![j] = e]
    BY <1>16, <2>1 DEF Detect
  <2>3. QED
    BY <1>1, <1>2, <1>16, <2>2 DEF Detect, Move, TypeOK, Sound, JobsTyped, OthersStay, PCs
<1>17. CASE Rename(j)
  BY <1>1, <1>2, <1>17 DEF Rename, Move, TypeOK, Sound, JobsTyped, OthersStay, PCs, locals
<1>18. CASE RenameFails(j)
  BY <1>1, <1>18, FailIs DEF RenameFails, Sound
<1>19. CASE Tag(j)
  BY <1>1, <1>2, <1>19 DEF Tag, Move, TypeOK, Sound, JobsTyped, OthersStay, PCs, locals
<1>20. CASE TagFails(j)
  BY <1>1, <1>20, SucceedIs DEF TagFails, Sound
<1>21. CASE Retag(j)
  BY <1>1, <1>21, SucceedIs DEF Retag, Sound
<1>22. QED
  BY <1>3, <1>4, <1>5, <1>6, <1>7, <1>8, <1>9, <1>10, <1>11, <1>12, <1>13, <1>14, <1>15, <1>16,
     <1>17, <1>18, <1>19, <1>20, <1>21 DEF Step

(* The names of the files of a job. *)
LEMMA PathsAre ==
  ASSUME TypeOK, NEW j \in Jobs, Sound(j)
  PROVE  /\ at[j] \in {"create", "write", "detect", "rename"} =>
              Current(j) \in Tracks /\ PartOf(j) \in Names /\ Look(j, PartOf(j)) \in Inodes \cup {NoFile}
         /\ at[j] \in {"rename", "tag", "retag"} =>
              /\ Current(j) \in Tracks /\ AudioOf(j) \in Names /\ TagOf(j) \in Names
              /\ Look(j, AudioOf(j)) \in Inodes \cup {NoFile} /\ Look(j, TagOf(j)) \in Inodes \cup {NoFile}
<1>1. at[j] \in {"create", "write", "detect", "rename"} => Current(j) \in Tracks /\ PartOf(j) \in Names
  BY CurrentIs DEF Sound, PartOf, Names
<1>2. at[j] \in {"rename", "tag", "retag"} =>
        Current(j) \in Tracks /\ AudioOf(j) \in Names /\ TagOf(j) \in Names
  BY CurrentIs DEF Sound, AudioOf, TagOf, Names
<1>3. QED
  BY <1>1, <1>2 DEF TypeOK, Look

(* What every step of a job leaves of the directory. *)
FilesStep(j) ==
  /\ FilesTyped'
  /\ \A t \in Tracks, n \in Names : t # Current(j) => dir'[t][n] = dir[t][n]
  /\ \A t \in Tracks, e \in Exts : dir[t][<<"audio", e>>] # NoFile => dir'[t][<<"audio", e>>] # NoFile

LEMMA FilesStand ==
  ASSUME TypeOK, NEW j \in Jobs, UNCHANGED files
  PROVE  FilesStep(j)
BY DEF TypeOK, files, FilesStep, FilesTyped

LEMMA UnlinkIs ==
  ASSUME TypeOK, NEW j \in Jobs, Current(j) \in Tracks, NEW name \in Names, name[1] # "audio",
         dir' \in {dir, Unlink(j, name)}, NEW open, data' = Kept(dir', open)
  PROVE  FilesStep(j)
<1>1. dir \in [Tracks -> [Names -> Inodes \cup {NoFile}]] /\ data \in [Inodes -> File]
  BY DEF TypeOK
<1>2. data' \in [Inodes -> File]
  BY <1>1, KeptIs
<1>3. \A e \in Exts : <<"audio", e>> \in Names /\ <<"audio", e>> # name
  BY DEF Names
<1>4. CASE dir' = dir
  BY <1>1, <1>2, <1>4 DEF FilesStep, FilesTyped
<1>5. CASE dir' = Unlink(j, name)
  <2>1. /\ dir' \in [Tracks -> [Names -> Inodes \cup {NoFile}]]
        /\ \A t \in Tracks, n \in Names : dir'[t][n] =
             IF t = Current(j) /\ n = name THEN NoFile ELSE dir[t][n]
    BY <1>1, <1>5, LinkIs DEF Unlink
  <2>2. QED
    BY <1>2, <1>3, <2>1 DEF FilesStep, FilesTyped
<1>6. QED
  BY <1>4, <1>5

LEMMA RenameIs ==
  ASSUME TypeOK, NEW j \in Jobs, Current(j) \in Tracks, NEW from \in Names, from[1] # "audio",
         NEW to \in Names, from # to, Look(j, from) # NoFile,
         dir' = Moved(j, from, to), NEW open, data' = Kept(dir', open)
  PROVE  FilesStep(j)
<1>1. dir \in [Tracks -> [Names -> Inodes \cup {NoFile}]] /\ data \in [Inodes -> File]
  BY DEF TypeOK
<1>2. data' \in [Inodes -> File]
  BY <1>1, KeptIs
<1>3. \A e \in Exts : <<"audio", e>> \in Names /\ <<"audio", e>> # from
  BY DEF Names
<1>4. /\ dir' \in [Tracks -> [Names -> Inodes \cup {NoFile}]]
      /\ \A t \in Tracks, n \in Names : dir'[t][n] =
           IF t # Current(j) THEN dir[t][n]
           ELSE IF n = from THEN NoFile
           ELSE IF n = to THEN dir[t][from] ELSE dir[t][n]
  BY <1>1, MovedIs
<1>5. QED
  BY <1>2, <1>3, <1>4 DEF FilesStep, FilesTyped, Look

(* Every step of a job, as far as it goes for the files and the history. *)
LEMMA StepOnFiles ==
  ASSUME JobInv, NEW j \in Jobs, Step(j)
  PROVE  FilesStep(j) /\ HistoryTyped'
<1>1. TypeOK /\ Sound(j) /\ Tagging(j)
  BY DEF JobInv
<1>2. HistoryTyped'
  <2>1. at[j] \notin {"idle", "done"} => Current(j) \in Tracks
    BY <1>1, CurrentIs DEF Sound
  <2>2. crashes' = crashes
    BY DEF Step, NextTrack, JobEnds, Retry, GiveUp, ResolveWorks, AskNext, ResolveFails, Stat, Create,
           CreateFails, Write, WriteFails, Close, Detect, Rename, RenameFails, Tag, TagFails, Retag,
           history
  <2>3. completed' \subseteq completed \cup {Current(j)} /\ (at[j] \in {"idle", "done"} => completed' = completed)
    BY DEF Step, NextTrack, JobEnds, Retry, GiveUp, ResolveWorks, AskNext, ResolveFails, Stat, Create,
           CreateFails, Write, WriteFails, Close, Detect, Rename, RenameFails, Tag, TagFails, Retag,
           history, Succeed
  <2>4. overlapped' \subseteq overlapped \cup {Current(j)} /\ (at[j] \in {"idle", "done"} => overlapped' = overlapped)
    BY DEF Step, NextTrack, JobEnds, Retry, GiveUp, ResolveWorks, AskNext, ResolveFails, Stat, Create,
           CreateFails, Write, WriteFails, Close, Detect, Rename, RenameFails, Tag, TagFails, Retag,
           history
  <2>5. misled' \subseteq misled \cup {Current(j)} /\ (at[j] \in {"idle", "done"} => misled' = misled)
    BY DEF Step, NextTrack, JobEnds, Retry, GiveUp, ResolveWorks, AskNext, ResolveFails, Stat, Create,
           CreateFails, Write, WriteFails, Close, Written, Detect, Rename, RenameFails, Tag, TagFails,
           Retag, history, NoteMisled
  <2>6. QED
    BY <1>1, <2>1, <2>2, <2>3, <2>4, <2>5 DEF TypeOK, HistoryTyped
<1>3. CASE UNCHANGED files
  BY <1>1, <1>2, <1>3, FilesStand
<1>4. ASSUME at[j] \in {"create", "write", "detect", "rename"}
      PROVE  Current(j) \in Tracks /\ PartOf(j) \in Names /\ PartOf(j)[1] = "part"
  BY <1>1, <1>4, PathsAre DEF PartOf
<1>5. ASSUME at[j] \in {"rename", "tag", "retag"}
      PROVE  /\ Current(j) \in Tracks /\ TagOf(j) \in Names /\ TagOf(j)[1] = "tag"
             /\ AudioOf(j) \in Names /\ AudioOf(j)[1] = "audio"
  BY <1>1, <1>5, PathsAre DEF TagOf, AudioOf
<1>6. /\ dir \in [Tracks -> [Names -> Inodes \cup {NoFile}]] /\ data \in [Inodes -> File]
      /\ FreshInode \in Inodes /\ Empty \in File
      /\ \A e \in Exts : <<"audio", e>> \in Names /\ <<"audio", e>>[1] = "audio"
  BY <1>1, FreshInodeIsFree DEF TypeOK, Empty, File, Names
<1>7. NoFile \notin Inodes
  BY DownloadAssumption
<1>8. CASE Create(j)
  <2>1. Current(j) \in Tracks /\ PartOf(j) \in Names /\ PartOf(j)[1] = "part"
    BY <1>4, <1>8 DEF Create
  <2>2. PICK i \in Inodes : dir' = Link(j, PartOf(j), i) /\ data' = [data EXCEPT ![i] = Empty]
    <3>1. Look(j, PartOf(j)) \in Inodes \cup {NoFile}
      BY <1>6, <2>1 DEF Look
    <3>2. QED
      BY <1>6, <1>8, <3>1 DEF Create
  <2>3. /\ dir' \in [Tracks -> [Names -> Inodes \cup {NoFile}]]
        /\ \A t \in Tracks, n \in Names : dir'[t][n] =
             IF t = Current(j) /\ n = PartOf(j) THEN i ELSE dir[t][n]
    BY <1>6, <2>1, <2>2, LinkIs
  <2>4. data' \in [Inodes -> File]
    BY <1>6, <2>2
  <2>5. QED
    BY <1>2, <1>6, <1>7, <2>1, <2>3, <2>4 DEF FilesStep, FilesTyped
<1>9. CASE Write(j)
  <2>1. /\ pos[j] + 1 \in 1..Pieces /\ format[j] \in Formats
        /\ fd[j] \in Inodes
    <3>1. pos[j] \in 0..Pieces /\ pos[j] < Pieces /\ Pieces \in Nat /\ fd[j] \in Inodes \cup {NoFile}
      BY <1>1, <1>9, DownloadAssumption DEF Write, TypeOK
    <3>2. QED
      BY <1>1, <1>9, <3>1 DEF Write, Sound
  <2>2. data[fd[j]] \in [1..Pieces -> Formats \cup {"cut", "hole"}]
    BY <1>6, <2>1 DEF File
  <2>3. \A x \in Served(format[j]) : [data[fd[j]] EXCEPT ![pos[j] + 1] = x] \in File
    BY <2>1, <2>2, MappedIs DEF File
  <2>4. dir' = dir /\ data' \in [Inodes -> File]
    BY <1>6, <1>9, <2>1, <2>3 DEF Write
  <2>5. QED
    BY <1>2, <1>6, <2>4 DEF FilesStep, FilesTyped
<1>10. CASE WriteFails(j) \/ RenameFails(j)
  <2>1. /\ at[j] \in {"create", "write", "detect", "rename"}
        /\ dir' = Unlink(j, PartOf(j)) /\ data' = Kept(dir', fd')
    BY <1>10 DEF WriteFails, RenameFails, RemovePart
  <2>2. QED
    BY <1>1, <1>2, <1>4, <2>1, UnlinkIs
<1>11. CASE Close(j)
  <2>1. dir' = dir /\ data' = Kept(dir, fd')
    BY <1>11 DEF Close
  <2>2. data' \in [Inodes -> File]
    BY <1>6, <2>1, KeptIs
  <2>3. QED
    BY <1>2, <1>6, <2>1, <2>2 DEF FilesStep, FilesTyped
<1>12. CASE Rename(j)
  <2>1. /\ at[j] = "rename" /\ Look(j, PartOf(j)) # NoFile
        /\ dir' = Moved(j, PartOf(j), AudioOf(j)) /\ data' = Kept(dir', fd)
    BY <1>12 DEF Rename
  <2>2. /\ Current(j) \in Tracks /\ PartOf(j) \in Names /\ AudioOf(j) \in Names
        /\ PartOf(j)[1] = "part" /\ AudioOf(j)[1] = "audio"
    BY <1>4, <1>5, <2>1
  <2>3. QED
    BY <1>1, <1>2, <2>1, <2>2, RenameIs
<1>13. CASE Tag(j)
  <2>1. at[j] = "tag"
    BY <1>13 DEF Tag
  <2>2. Current(j) \in Tracks /\ TagOf(j) \in Names /\ TagOf(j)[1] = "tag" /\ AudioOf(j) \in Names
    BY <1>5, <2>1
  <2>3. Look(j, AudioOf(j)) \in Inodes
    BY <1>1, <2>1, PathsAre DEF Tagging
  <2>4. Kept(dir', fd) \in [Inodes -> File]
    BY <1>6, KeptIs
  <2>5. data' \in [Inodes -> File]
    BY <1>6, <1>13, <2>3, <2>4 DEF Tag
  <2>6. dir' = Link(j, TagOf(j), FreshInode)
    BY <1>13 DEF Tag
  <2>7. /\ dir' \in [Tracks -> [Names -> Inodes \cup {NoFile}]]
        /\ \A t \in Tracks, n \in Names : dir'[t][n] =
             IF t = Current(j) /\ n = TagOf(j) THEN FreshInode ELSE dir[t][n]
    BY <1>6, <2>2, <2>6, LinkIs
  <2>8. QED
    BY <1>2, <1>6, <1>7, <2>2, <2>5, <2>7 DEF FilesStep, FilesTyped
<1>14. CASE TagFails(j)
  <2>1. at[j] = "tag" /\ dir' \in {dir, Unlink(j, TagOf(j))} /\ data' = Kept(dir', fd)
    BY <1>14 DEF TagFails
  <2>2. QED
    BY <1>1, <1>2, <1>5, <2>1, UnlinkIs
<1>15. CASE Retag(j)
  <2>1. /\ at[j] = "retag" /\ data' = Kept(dir', fd)
        /\ dir' = IF Look(j, TagOf(j)) = NoFile THEN dir ELSE Moved(j, TagOf(j), AudioOf(j))
    BY <1>15 DEF Retag
  <2>2. /\ Current(j) \in Tracks /\ TagOf(j) \in Names /\ AudioOf(j) \in Names
        /\ TagOf(j)[1] = "tag" /\ AudioOf(j)[1] = "audio"
    BY <1>5, <2>1
  <2>3. CASE Look(j, TagOf(j)) = NoFile
    BY <1>1, <1>2, <2>1, <2>2, <2>3, UnlinkIs
  <2>4. CASE Look(j, TagOf(j)) # NoFile
    BY <1>1, <1>2, <2>1, <2>2, <2>4, RenameIs
  <2>5. QED
    BY <2>3, <2>4
<1>16. QED
  <2>1. \/ UNCHANGED files \/ Create(j) \/ Write(j) \/ WriteFails(j) \/ Close(j) \/ Rename(j)
        \/ RenameFails(j) \/ Tag(j) \/ TagFails(j) \/ Retag(j)
    BY DEF Step, NextTrack, JobEnds, Retry, GiveUp, ResolveWorks, AskNext, ResolveFails, Stat,
           CreateFails, Detect
  <2>2. QED
    BY <2>1, <1>3, <1>8, <1>9, <1>10, <1>11, <1>12, <1>13, <1>14, <1>15

LEMMA StepToTagging ==
  ASSUME JobInv, NEW j \in Jobs, Step(j)
  PROVE  Tagging(j)'
<1>1. TypeOK /\ Sound(j) /\ Tagging(j) /\ at \in [Jobs -> PCs]
  BY DEF JobInv, TypeOK
<1>2. \/ at'[j] \notin {"tag", "retag"} \/ Rename(j) \/ Tag(j)
  <2>1. ASSUME \/ NextTrack(j) \/ JobEnds(j) \/ Retry(j) \/ GiveUp(j) \/ ResolveWorks(j)
               \/ AskNext(j) \/ Create(j) \/ Write(j) \/ Close(j) \/ Detect(j)
        PROVE  at'[j] \notin {"tag", "retag"}
    BY <1>1, <2>1 DEF NextTrack, JobEnds, Retry, GiveUp, ResolveWorks, AskNext, Create, Write, Close,
                      Detect, Move
  <2>2. ASSUME Stat(j)
        PROVE  at'[j] \notin {"tag", "retag"}
    BY <1>1, <2>2, SucceedIs DEF Stat, Sound, Move
  <2>3. ASSUME ResolveFails(j) \/ CreateFails(j) \/ WriteFails(j) \/ RenameFails(j)
        PROVE  at'[j] \notin {"tag", "retag"}
    BY <1>1, <2>3, FailIs DEF ResolveFails, CreateFails, WriteFails, RenameFails, Sound
  <2>4. ASSUME TagFails(j) \/ Retag(j)
        PROVE  at'[j] \notin {"tag", "retag"}
    BY <1>1, <2>4, SucceedIs DEF TagFails, Retag, Sound
  <2>5. QED
    BY <2>1, <2>2, <2>3, <2>4 DEF Step
<1>3. CASE Rename(j)
  <2>1. /\ at[j] = "rename" /\ Look(j, PartOf(j)) # NoFile /\ todo' = todo /\ ext' = ext
        /\ dir' = Moved(j, PartOf(j), AudioOf(j))
    BY <1>3 DEF Rename, locals
  <2>2. /\ Current(j) \in Tracks /\ PartOf(j) \in Names /\ AudioOf(j) \in Names
        /\ PartOf(j) # AudioOf(j)
    BY <1>1, <2>1, PathsAre DEF PartOf, AudioOf
  <2>3. dir'[Current(j)][AudioOf(j)] = dir[Current(j)][PartOf(j)]
    BY <1>1, <2>1, <2>2, MovedIs DEF TypeOK
  <2>4. QED
    BY <2>1, <2>3 DEF Tagging, Look, AudioOf, Current
<1>4. CASE Tag(j)
  <2>1. at[j] = "tag" /\ todo' = todo /\ ext' = ext
    BY <1>4 DEF Tag, locals
  <2>2. /\ Current(j) \in Tracks /\ ext[j] \in Exts /\ dir[Current(j)][<<"audio", ext[j]>>] # NoFile
    BY <1>1, <2>1, PathsAre DEF Tagging, Look, AudioOf, Sound
  <2>3. dir'[Current(j)][<<"audio", ext[j]>>] # NoFile
    BY <2>2, StepOnFiles DEF FilesStep
  <2>4. QED
    BY <2>1, <2>3 DEF Tagging, Look, AudioOf, Current
<1>5. QED
  BY <1>2, <1>3, <1>4 DEF Tagging

LEMMA JobInvStarts ==
  ASSUME Init
  PROVE  JobInv
<1>1. /\ Attempts \in Nat \ {0} /\ Pieces \in Nat \ {0} /\ Len(DownloadQualities) \in Nat
      /\ (DownloadQualities # <<>> => Len(DownloadQualities) > 0) /\ MaxCrashes \in Nat
      /\ Album \in [Jobs -> Seq(Tracks)]
  BY DownloadAssumption, DownloadQualitiesAre
<1>2. Empty \in File
  BY DEF Empty, File
<1>3. TypeOK
  BY <1>1, <1>2 DEF Init, TypeOK, PCs
<1>4. \A j \in Jobs : Sound(j) /\ Tagging(j)
  BY <1>1 DEF Init, Sound, Tagging
<1>5. QED
  BY <1>3, <1>4 DEF JobInv

LEMMA JobInvariant == Spec => []JobInv
<1>1. Init => JobInv
  BY JobInvStarts
<1>2. JobInv /\ [Next]_vars => JobInv'
  <2> SUFFICES ASSUME JobInv, [Next]_vars
               PROVE  JobInv'
    OBVIOUS
  <2>1. TypeOK /\ \A j \in Jobs : Sound(j) /\ Tagging(j)
    BY DEF JobInv
  <2>2. CASE Crash
    <3>1. /\ Attempts \in Nat \ {0} /\ Pieces \in Nat \ {0} /\ Len(DownloadQualities) \in Nat
          /\ (DownloadQualities # <<>> => Len(DownloadQualities) > 0) /\ MaxCrashes \in Nat
          /\ Album \in [Jobs -> Seq(Tracks)]
      BY DownloadAssumption, DownloadQualitiesAre
    <3>2. data' \in [Inodes -> File] /\ dir' = dir
      BY <2>1, <2>2, KeptIs DEF Crash, TypeOK
    <3>3. TypeOK'
      <4>1. JobsTyped'
        BY <2>2, <3>1 DEF Crash, JobsTyped, PCs
      <4>2. /\ crashes' \in 0..MaxCrashes /\ completed' = completed
            /\ overlapped' = overlapped /\ misled' = misled
        BY <2>1, <2>2, <3>1 DEF Crash, TypeOK
      <4>3. QED
        BY <2>1, <3>2, <4>1, <4>2 DEF JobsTyped, TypeOK
    <3>4. \A j \in Jobs : Sound(j)' /\ Tagging(j)'
      BY <2>2, <3>1 DEF Crash, Sound, Tagging
    <3>5. QED
      BY <3>3, <3>4 DEF JobInv
  <2>3. CASE UNCHANGED vars
    BY <2>1, <2>3 DEF JobInv, TypeOK, Sound, Tagging, Look, AudioOf, Current, vars, files, locals, history
  <2>4. ASSUME NEW j \in Jobs, Step(j)
        PROVE  JobInv'
    <3>1. JobsTyped' /\ OthersStay(j) /\ Sound(j)' /\ FilesStep(j) /\ HistoryTyped' /\ Tagging(j)'
      BY <2>4, StepOfJob, StepOnFiles, StepToTagging
    <3>2. TypeOK'
      BY <3>1 DEF JobsTyped, FilesStep, FilesTyped, HistoryTyped, TypeOK
    <3>3. ASSUME NEW k \in Jobs \ {j}
          PROVE  Sound(k)' /\ Tagging(k)'
      <4>1. Sound(k)'
        BY <2>1, <3>1 DEF OthersStay, Sound
      <4>2. ASSUME at'[k] \in {"tag", "retag"}
            PROVE  dir'[Current(k)'][AudioOf(k)'] # NoFile
        <5>1. at[k] \in {"tag", "retag"} /\ Current(k)' = Current(k) /\ AudioOf(k)' = <<"audio", ext[k]>>
          BY <3>1, <4>2 DEF OthersStay, Current, AudioOf
        <5>2. Current(k) \in Tracks /\ ext[k] \in Exts /\ dir[Current(k)][<<"audio", ext[k]>>] # NoFile
          BY <2>1, <5>1, PathsAre DEF Tagging, Look, AudioOf, Sound
        <5>3. QED
          BY <3>1, <5>1, <5>2 DEF FilesStep
      <4>3. Tagging(k)'
        BY <4>2 DEF Tagging, Look
      <4>4. QED
        BY <4>1, <4>3
    <3>4. QED
      BY <3>1, <3>2, <3>3 DEF JobInv
  <2>5. QED
    BY <2>2, <2>3, <2>4 DEF Next, Rest
<1>3. QED
  BY <1>1, <1>2, PTL DEF Spec

(* Downloads keep to their types: whatever upstream answers and however    *)
(* the jobs interleave, every name stands for a file or for none, and a    *)
(* file holds pieces of the formats upstream has, segments that were cut   *)
(* short, or holes.                                                        *)
THEOREM DownloadTypeCorrect == Spec => []TypeOK
<1>1. JobInv => TypeOK
  BY DEF JobInv
<1>2. QED
  BY <1>1, JobInvariant, PTL

-------------------------------------------------------------------------------
(* What the steps do to the files, name by name.                           *)

Linked(j, name, i) ==
  \A t \in Tracks, n \in Names :
    dir'[t][n] = IF t = Current(j) /\ n = name THEN i ELSE dir[t][n]

Renamed(j, from, to) ==
  \A t \in Tracks, n \in Names :
    dir'[t][n] = IF t # Current(j) THEN dir[t][n]
                 ELSE IF n = from THEN NoFile
                 ELSE IF n = to THEN dir[t][from] ELSE dir[t][n]

(* The file system loses nothing that has a name or is open. *)
KeepsData ==
  /\ \A t \in Tracks, n \in Names : dir'[t][n] # NoFile => data'[dir'[t][n]] = data[dir'[t][n]]
  /\ \A k \in Jobs : fd'[k] # NoFile => data'[fd'[k]] = data[fd'[k]]

LEMMA KeptKeeps ==
  ASSUME JobInv, FilesTyped', fd' \in [Jobs -> Inodes \cup {NoFile}], data' = Kept(dir', fd')
  PROVE  KeepsData
<1>1. data \in [Inodes -> File] /\ dir' \in [Tracks -> [Names -> Inodes \cup {NoFile}]]
  BY DEF JobInv, TypeOK, FilesTyped
<1>2. \A t \in Tracks, n \in Names : dir'[t][n] \in Inodes \cup {NoFile}
  BY <1>1
<1>3. QED
  BY <1>1, <1>2, KeptIs DEF KeepsData

(* os.Create opens the file that has the name, or else one that neither    *)
(* has a name nor is open.                                                 *)
LEMMA CreateEffect ==
  ASSUME JobInv, NEW j \in Jobs, Create(j)
  PROVE  /\ at[j] = "create" /\ Current(j) \in Tracks /\ PartOf(j) \in Names /\ part[j] \in Exts
         /\ \E i \in Inodes :
              /\ i = dir[Current(j)][PartOf(j)] \/ i \notin InUse
              /\ Linked(j, PartOf(j), i)
              /\ \A x \in Inodes : data'[x] = IF x = i THEN Empty ELSE data[x]
              /\ \A k \in Jobs : fd'[k] = IF k = j THEN i ELSE fd[k]
<1>1. TypeOK /\ Sound(j) /\ at[j] = "create"
  BY DEF JobInv, Create
<1>2. /\ Current(j) \in Tracks /\ PartOf(j) \in Names /\ part[j] \in Exts
      /\ Look(j, PartOf(j)) \in Inodes \cup {NoFile}
  BY <1>1, PathsAre DEF Sound
<1>3. FreshInode \in Inodes /\ FreshInode \notin InUse
  BY <1>1, FreshInodeIsFree
<1>4. PICK i \in Inodes : /\ i = dir[Current(j)][PartOf(j)] \/ i \notin InUse
                          /\ dir' = Link(j, PartOf(j), i) /\ data' = [data EXCEPT ![i] = Empty]
                          /\ fd' = [fd EXCEPT ![j] = i]
  BY <1>2, <1>3 DEF Create, Look
<1>5. Linked(j, PartOf(j), i)
  BY <1>1, <1>2, <1>4, LinkIs DEF TypeOK, Linked
<1>6. QED
  BY <1>1, <1>2, <1>4, <1>5 DEF TypeOK

LEMMA WriteEffect ==
  ASSUME JobInv, NEW j \in Jobs, Write(j)
  PROVE  /\ at[j] = "write" /\ fd[j] \in Inodes /\ fd' = fd /\ dir' = dir /\ pos[j] + 1 \in 1..Pieces
         /\ \A x \in Inodes \ {fd[j]} : data'[x] = data[x]
         /\ format[j] \in Formats
         /\ \A p \in 1..Pieces :
              IF p = pos[j] + 1 THEN data'[fd[j]][p] \in Served(format[j])
              ELSE data'[fd[j]][p] = data[fd[j]][p]
<1>1. TypeOK /\ Sound(j)
  BY DEF JobInv
<1>2. /\ at[j] = "write" /\ fd[j] \in Inodes /\ pos[j] + 1 \in 1..Pieces
  <2>1. pos[j] \in 0..Pieces /\ pos[j] < Pieces /\ Pieces \in Nat /\ fd[j] \in Inodes \cup {NoFile}
    BY <1>1, DownloadAssumption DEF Write, TypeOK
  <2>2. QED
    BY <1>1, <2>1 DEF Write, Sound
<1>3. data[fd[j]] \in [1..Pieces -> Formats \cup {"cut", "hole"}]
  BY <1>1, <1>2 DEF TypeOK, File
<1>4. PICK x \in Served(format[j]) :
        data' = [data EXCEPT ![fd[j]] = [@ EXCEPT ![pos[j] + 1] = x]]
  BY DEF Write
<1>5. fd' = fd /\ dir' = dir /\ format[j] \in Formats
  BY <1>1, <1>2 DEF Write, Sound
<1>6. QED
  BY <1>1, <1>2, <1>3, <1>4, <1>5 DEF TypeOK

LEMMA CloseEffect ==
  ASSUME JobInv, NEW j \in Jobs, Close(j)
  PROVE  dir' = dir /\ KeepsData /\ \A k \in Jobs : fd'[k] = IF k = j THEN NoFile ELSE fd[k]
<1>1. FilesTyped' /\ fd' \in [Jobs -> Inodes \cup {NoFile}]
  BY StepOnFiles, StepOfJob DEF Step, FilesStep, JobsTyped
<1>2. dir' = dir /\ data' = Kept(dir', fd') /\ fd' = [fd EXCEPT ![j] = NoFile]
  BY DEF Close
<1>3. QED
  BY <1>1, <1>2, KeptKeeps DEF JobInv, TypeOK

(* A .part file is removed.                                                *)
LEMMA RemovePartEffect ==
  ASSUME JobInv, NEW j \in Jobs, WriteFails(j) \/ RenameFails(j)
  PROVE  /\ at[j] \in {"write", "detect", "rename"} /\ Current(j) \in Tracks /\ PartOf(j) \in Names
         /\ Linked(j, PartOf(j), NoFile) /\ KeepsData
         /\ at'[j] \in {"idle", "wait"}
         /\ \A k \in Jobs : fd'[k] = IF k = j THEN NoFile ELSE fd[k]
<1>1. FilesTyped' /\ fd' \in [Jobs -> Inodes \cup {NoFile}] /\ OthersStay(j)
  BY StepOnFiles, StepOfJob DEF Step, FilesStep, JobsTyped
<1>2. TypeOK /\ Sound(j) /\ at[j] \in {"write", "detect", "rename"}
  BY DEF JobInv, WriteFails, RenameFails
<1>3. PICK error : Fail(j, error)
  BY DEF WriteFails, RenameFails
<1>4. dir' = Link(j, PartOf(j), NoFile) /\ data' = Kept(dir', fd')
  BY DEF WriteFails, RenameFails, RemovePart, Unlink
<1>5. Current(j) \in Tracks /\ PartOf(j) \in Names
  BY <1>2, PathsAre
<1>6. Linked(j, PartOf(j), NoFile)
  BY <1>2, <1>4, <1>5, LinkIs DEF TypeOK, Linked
<1>7. at'[j] \in {"idle", "wait"} /\ fd'[j] = NoFile
  BY <1>2, <1>3, FailIs DEF Sound
<1>8. QED
  BY <1>1, <1>2, <1>4, <1>5, <1>6, <1>7, KeptKeeps DEF OthersStay

LEMMA RenameEffect ==
  ASSUME JobInv, NEW j \in Jobs, Rename(j)
  PROVE  /\ at[j] = "rename" /\ Current(j) \in Tracks /\ PartOf(j) \in Names /\ AudioOf(j) \in Names
         /\ ext[j] \in Exts /\ dir[Current(j)][PartOf(j)] # NoFile
         /\ Renamed(j, PartOf(j), AudioOf(j)) /\ KeepsData /\ fd' = fd
<1>1. FilesTyped'
  BY StepOnFiles DEF Step, FilesStep
<1>2. TypeOK /\ Sound(j) /\ at[j] = "rename"
  BY DEF JobInv, Rename
<1>3. /\ dir' = Moved(j, PartOf(j), AudioOf(j)) /\ data' = Kept(dir', fd') /\ fd' = fd
      /\ dir[Current(j)][PartOf(j)] # NoFile
  BY DEF Rename, locals, Look
<1>4. /\ Current(j) \in Tracks /\ PartOf(j) \in Names /\ AudioOf(j) \in Names /\ ext[j] \in Exts
      /\ PartOf(j) # AudioOf(j)
  BY <1>2, PathsAre DEF Sound, PartOf, AudioOf
<1>5. Renamed(j, PartOf(j), AudioOf(j))
  BY <1>2, <1>3, <1>4, MovedIs DEF TypeOK, Renamed
<1>6. QED
  BY <1>1, <1>2, <1>3, <1>4, <1>5, KeptKeeps DEF TypeOK

(* ffmpeg writes a copy of the file it finds under the final name.         *)
LEMMA TagEffect ==
  ASSUME JobInv, NEW j \in Jobs, Tag(j)
  PROVE  /\ at[j] = "tag" /\ Current(j) \in Tracks /\ TagOf(j) \in Names /\ AudioOf(j) \in Names
         /\ ext[j] \in Exts /\ dir[Current(j)][AudioOf(j)] # NoFile
         /\ FreshInode \in Inodes /\ FreshInode \notin InUse
         /\ Linked(j, TagOf(j), FreshInode) /\ fd' = fd
         /\ data'[FreshInode] = data[dir[Current(j)][AudioOf(j)]]
         /\ \A t \in Tracks, n \in Names :
              dir'[t][n] # NoFile /\ dir'[t][n] # FreshInode => data'[dir'[t][n]] = data[dir'[t][n]]
         /\ \A k \in Jobs : fd'[k] # NoFile => data'[fd'[k]] = data[fd'[k]]
<1>1. FilesTyped' /\ NoFile \notin Inodes
  BY StepOnFiles, DownloadAssumption DEF Step, FilesStep
<1>2. TypeOK /\ Sound(j) /\ at[j] = "tag" /\ fd' = fd
  BY DEF JobInv, Tag, locals
<1>3. FreshInode \in Inodes /\ FreshInode \notin InUse
  BY <1>2, FreshInodeIsFree
<1>4. /\ dir' = Link(j, TagOf(j), FreshInode)
      /\ data' = [Kept(dir', fd) EXCEPT ![FreshInode] = data[dir[Current(j)][AudioOf(j)]]]
  BY DEF Tag, Look
<1>5. /\ Current(j) \in Tracks /\ TagOf(j) \in Names /\ AudioOf(j) \in Names /\ ext[j] \in Exts
      /\ dir[Current(j)][AudioOf(j)] # NoFile
  BY <1>2, PathsAre DEF Sound, JobInv, Tagging, Look
<1>6. Linked(j, TagOf(j), FreshInode)
  BY <1>2, <1>3, <1>4, <1>5, LinkIs DEF TypeOK, Linked
<1>7. /\ Kept(dir', fd) \in [Inodes -> File]
      /\ \A t \in Tracks, n \in Names : dir'[t][n] \in Inodes => Kept(dir', fd)[dir'[t][n]] = data[dir'[t][n]]
      /\ \A k \in Jobs : fd[k] \in Inodes => Kept(dir', fd)[fd[k]] = data[fd[k]]
  BY <1>2, KeptIs DEF TypeOK
<1>8. \A k \in Jobs : fd[k] \in Inodes \cup {NoFile} /\ fd[k] # FreshInode
  BY <1>2, <1>3 DEF TypeOK, InUse
<1>9. \A t \in Tracks, n \in Names : dir'[t][n] \in Inodes \cup {NoFile}
  BY <1>1 DEF FilesTyped
<1>10. data'[FreshInode] = data[dir[Current(j)][AudioOf(j)]]
  BY <1>3, <1>4, <1>7
<1>11. \A x \in Inodes \ {FreshInode} : data'[x] = Kept(dir', fd)[x]
  BY <1>4, <1>7
<1>12. \A t \in Tracks, n \in Names :
         dir'[t][n] # NoFile /\ dir'[t][n] # FreshInode => data'[dir'[t][n]] = data[dir'[t][n]]
  BY <1>7, <1>9, <1>11
<1>13. \A k \in Jobs : fd'[k] # NoFile => data'[fd'[k]] = data[fd'[k]]
  BY <1>2, <1>7, <1>8, <1>11
<1>14. QED
  BY <1>2, <1>3, <1>5, <1>6, <1>10, <1>12, <1>13

LEMMA TaggedEffect ==
  ASSUME JobInv, NEW j \in Jobs, TagFails(j) \/ Retag(j)
  PROVE  /\ at[j] \in {"tag", "retag"} /\ Current(j) \in Tracks
         /\ TagOf(j) \in Names /\ AudioOf(j) \in Names /\ ext[j] \in Exts
         /\ \/ dir' = dir /\ (at[j] = "retag" => dir[Current(j)][TagOf(j)] = NoFile)
            \/ at[j] = "tag" /\ Linked(j, TagOf(j), NoFile)
            \/ at[j] = "retag" /\ dir[Current(j)][TagOf(j)] # NoFile /\ Renamed(j, TagOf(j), AudioOf(j))
         /\ KeepsData /\ fd'[j] = NoFile /\ at'[j] = "idle"
<1>1. FilesTyped' /\ fd' \in [Jobs -> Inodes \cup {NoFile}] /\ OthersStay(j)
  BY StepOnFiles, StepOfJob DEF Step, FilesStep, JobsTyped
<1>2. TypeOK /\ Sound(j) /\ at[j] \in {"tag", "retag"}
  BY DEF JobInv, TagFails, Retag
<1>3. /\ Current(j) \in Tracks /\ TagOf(j) \in Names /\ AudioOf(j) \in Names /\ ext[j] \in Exts
      /\ TagOf(j) # AudioOf(j)
  BY <1>2, PathsAre DEF Sound, TagOf, AudioOf
<1>4. Succeed(j) /\ data' = Kept(dir', fd)
  BY DEF TagFails, Retag
<1>5. at'[j] = "idle" /\ fd'[j] = NoFile
  BY <1>2, <1>4, SucceedIs DEF Sound
<1>6. fd' = fd
  <2>1. fd[j] = NoFile
    BY <1>2 DEF Sound
  <2>2. QED
    BY <1>2, <1>4, <2>1 DEF Succeed, ResetLocals, TypeOK
<1>7. KeepsData
  BY <1>1, <1>4, <1>6, KeptKeeps
<1>8. CASE TagFails(j)
  <2>1. at[j] = "tag" /\ dir' \in {dir, Link(j, TagOf(j), NoFile)}
    BY <1>8 DEF TagFails, Unlink
  <2>2. QED
    BY <1>2, <1>3, <1>5, <1>7, <2>1, LinkIs DEF TypeOK, Linked
<1>9. CASE Retag(j)
  <2>1. /\ at[j] = "retag"
        /\ dir' = IF dir[Current(j)][TagOf(j)] = NoFile THEN dir ELSE Moved(j, TagOf(j), AudioOf(j))
    BY <1>9 DEF Retag, Look
  <2>2. QED
    BY <1>2, <1>3, <1>5, <1>7, <2>1, MovedIs DEF TypeOK, Renamed
<1>10. QED
  BY <1>8, <1>9

-------------------------------------------------------------------------------
(* Whose files are whose.                                                  *)

(* No file has two names, and the file a job writes has no name but one of *)
(* the job's track: a job can only write into the files of its own track.  *)
OneName ==
  \A t, u \in Tracks, n, m \in Names :
    dir[t][n] # NoFile /\ dir[t][n] = dir[u][m] => t = u /\ n = m

WritesItsOwn ==
  \A j \in Jobs, t \in Tracks, n \in Names :
    fd[j] # NoFile /\ fd[j] = dir[t][n] => t = Current(j)

FilesInv == JobInv /\ OneName /\ WritesItsOwn

(* The other steps leave the files alone. *)
OnFiles(j) ==
  \/ Create(j) \/ Write(j) \/ Close(j) \/ WriteFails(j) \/ RenameFails(j) \/ Rename(j)
  \/ Tag(j) \/ TagFails(j) \/ Retag(j)

LEMMA OffFiles ==
  ASSUME JobInv, NEW j \in Jobs, Step(j), ~OnFiles(j)
  PROVE  dir' = dir /\ data' = data
BY DEF Step, OnFiles, NextTrack, JobEnds, Retry, GiveUp, ResolveWorks, AskNext, ResolveFails, Stat,
       CreateFails, Detect, files

(* A file that is open after a step was open before, by the same job for   *)
(* the same track, or is the one the step created.                         *)
LEMMA OpenFiles ==
  ASSUME JobInv, NEW j \in Jobs, Step(j), NEW k \in Jobs, fd'[k] # NoFile
  PROVE  /\ Current(k)' = Current(k)
         /\ fd'[k] = fd[k] \/ (k = j /\ Create(j))
<1>1. CASE k # j
  BY <1>1, StepOfJob DEF OthersStay, Current
<1>2. CASE k = j
  <2>1. Sound(j) /\ TypeOK /\ Sound(j)'
    BY StepOfJob DEF JobInv
  <2>2. at'[j] = "write"
    BY <1>2, <2>1 DEF Sound
  <2>3. Create(j) \/ Write(j)
    <3>1. ASSUME \/ NextTrack(j) \/ JobEnds(j) \/ Retry(j) \/ GiveUp(j) \/ ResolveWorks(j)
                 \/ Close(j) \/ Detect(j) \/ Rename(j) \/ Tag(j)
          PROVE  at'[j] # "write"
      BY <2>1, <3>1 DEF NextTrack, JobEnds, Retry, GiveUp, ResolveWorks, Close, Detect, Move, Rename,
                        Tag, TypeOK
    <3>2. ASSUME AskNext(j)
          PROVE  at'[j] # "write"
      BY <2>1, <3>2 DEF AskNext
    <3>3. ASSUME Stat(j)
          PROVE  at'[j] # "write"
      BY <2>1, <3>3, SucceedIs DEF Stat, Sound, Move, TypeOK
    <3>4. ASSUME ResolveFails(j) \/ CreateFails(j) \/ WriteFails(j) \/ RenameFails(j)
          PROVE  at'[j] # "write"
      BY <2>1, <3>4, FailIs DEF ResolveFails, CreateFails, WriteFails, RenameFails, Sound
    <3>5. ASSUME TagFails(j) \/ Retag(j)
          PROVE  at'[j] # "write"
      BY <2>1, <3>5, SucceedIs DEF TagFails, Retag, Sound
    <3>6. QED
      BY <2>2, <3>1, <3>2, <3>3, <3>4, <3>5 DEF Step
  <2>4. QED
    BY <1>2, <2>3 DEF Create, Write, Current
<1>3. QED
  BY <1>1, <1>2

LEMMA FilesInvariant == Spec => []FilesInv
<1>1. Init => FilesInv
  <2>1. Init => OneName /\ WritesItsOwn
    BY DEF Init, OneName, WritesItsOwn
  <2>2. Init => JobInv
    BY JobInvStarts
  <2>3. QED
    BY <2>1, <2>2 DEF FilesInv
<1>2. JobInv' /\ FilesInv /\ [Next]_vars => FilesInv'
  <2> SUFFICES ASSUME JobInv', FilesInv, [Next]_vars
               PROVE  OneName' /\ WritesItsOwn'
    BY DEF FilesInv
  <2> USE DEF FilesInv
  <2>1. CASE UNCHANGED vars
    BY <2>1 DEF OneName, WritesItsOwn, Current, vars, files, locals
  <2>2. CASE Crash
    BY <2>2 DEF Crash, OneName, WritesItsOwn
  <2>3. ASSUME NEW j \in Jobs, Step(j)
        PROVE  OneName' /\ WritesItsOwn'
    <3> DEFINE c == Current(j)
    <3>1. \A k \in Jobs : fd'[k] # NoFile =>
            Current(k)' = Current(k) /\ (fd'[k] = fd[k] \/ (k = j /\ Create(j)))
      BY <2>3, OpenFiles
    <3>2. NoFile \notin Inodes
      BY DownloadAssumption
    <3>3. CASE dir' = dir /\ ~Create(j)
      BY <3>1, <3>3 DEF OneName, WritesItsOwn
    <3>4. CASE \E name \in Names : ~Create(j) /\ Linked(j, name, NoFile)
      <4>1. \A t \in Tracks, n \in Names : dir'[t][n] # NoFile => dir'[t][n] = dir[t][n]
        BY <3>4 DEF Linked
      <4>2. QED
        BY <3>1, <3>4, <4>1 DEF OneName, WritesItsOwn
    <3>5. CASE \E from, to \in Names : c \in Tracks /\ ~Create(j) /\ Renamed(j, from, to)
      <4>1. PICK from \in Names, to \in Names : c \in Tracks /\ ~Create(j) /\ Renamed(j, from, to)
        BY <3>5
      <4>2. OneName'
        <5> SUFFICES ASSUME NEW t \in Tracks, NEW u \in Tracks, NEW n \in Names, NEW m \in Names,
                            dir'[t][n] # NoFile, dir'[t][n] = dir'[u][m]
                     PROVE  t = u /\ n = m
          BY DEF OneName
        <5>1. QED
          BY <4>1 DEF Renamed, OneName
      <4>3. WritesItsOwn'
        <5> SUFFICES ASSUME NEW k \in Jobs, NEW t \in Tracks, NEW n \in Names,
                            fd'[k] # NoFile, fd'[k] = dir'[t][n]
                     PROVE  t = Current(k)'
          BY DEF WritesItsOwn
        <5>1. fd'[k] = fd[k] /\ Current(k)' = Current(k)
          BY <3>1, <4>1
        <5>2. \E m \in Names : fd[k] = dir[t][m]
          BY <4>1, <5>1 DEF Renamed
        <5>3. QED
          BY <5>1, <5>2 DEF WritesItsOwn
      <4>4. QED
        BY <4>2, <4>3
    <3>6. CASE Tag(j)
      <4>1. /\ c \in Tracks /\ TagOf(j) \in Names /\ FreshInode \in Inodes /\ FreshInode \notin InUse
            /\ Linked(j, TagOf(j), FreshInode) /\ fd' = fd
        BY <3>6, TagEffect
      <4>2. /\ \A t \in Tracks, n \in Names : dir[t][n] # FreshInode
            /\ \A k \in Jobs : fd[k] # FreshInode
        BY <4>1 DEF InUse
      <4>3. OneName'
        <5> SUFFICES ASSUME NEW t \in Tracks, NEW u \in Tracks, NEW n \in Names, NEW m \in Names,
                            dir'[t][n] # NoFile, dir'[t][n] = dir'[u][m]
                     PROVE  t = u /\ n = m
          BY DEF OneName
        <5>1. QED
          BY <4>1, <4>2 DEF Linked, OneName
      <4>4. WritesItsOwn'
        <5> SUFFICES ASSUME NEW k \in Jobs, NEW t \in Tracks, NEW n \in Names,
                            fd'[k] # NoFile, fd'[k] = dir'[t][n]
                     PROVE  t = Current(k)'
          BY DEF WritesItsOwn
        <5>1. QED
          BY <3>1, <4>1, <4>2 DEF Linked, WritesItsOwn
      <4>5. QED
        BY <4>3, <4>4
    <3>7. CASE Create(j)
      <4>1. PICK i \in Inodes :
              /\ i = dir[c][PartOf(j)] \/ i \notin InUse
              /\ Linked(j, PartOf(j), i)
              /\ \A k \in Jobs : fd'[k] = IF k = j THEN i ELSE fd[k]
        BY <3>7, CreateEffect
      <4>2. c \in Tracks /\ PartOf(j) \in Names
        BY <3>7, CreateEffect
      <4>3. i \notin InUse =>
              /\ \A t \in Tracks, n \in Names : dir[t][n] # i
              /\ \A k \in Jobs : fd[k] # i
        BY DEF InUse
      <4>4. /\ \A t \in Tracks, n \in Names : dir[t][n] = i => t = c /\ n = PartOf(j)
            /\ \A k \in Jobs : fd[k] = i => Current(k) = c
        BY <3>2, <4>1, <4>2, <4>3 DEF OneName, WritesItsOwn
      <4>5. OneName'
        <5> SUFFICES ASSUME NEW t \in Tracks, NEW u \in Tracks, NEW n \in Names, NEW m \in Names,
                            dir'[t][n] # NoFile, dir'[t][n] = dir'[u][m]
                     PROVE  t = u /\ n = m
          BY DEF OneName
        <5>1. QED
          BY <4>1, <4>4 DEF Linked, OneName
      <4>6. WritesItsOwn'
        <5> SUFFICES ASSUME NEW k \in Jobs, NEW t \in Tracks, NEW n \in Names,
                            fd'[k] # NoFile, fd'[k] = dir'[t][n]
                     PROVE  t = Current(k)'
          BY DEF WritesItsOwn
        <5>1. Current(k)' = Current(k)
          BY <3>1
        <5>2. CASE k = j
          BY <4>1, <4>4, <5>1, <5>2 DEF Linked
        <5>3. CASE k # j
          BY <4>1, <4>4, <5>1, <5>3 DEF Linked, WritesItsOwn
        <5>4. QED
          BY <5>2, <5>3
      <4>7. QED
        BY <4>5, <4>6
    <3>8. CASE OnFiles(j) /\ ~Tag(j) /\ ~Create(j)
      <4>1. CASE Write(j) \/ Close(j)
        BY <3>3, <3>8, <4>1 DEF Write, Close
      <4>2. CASE WriteFails(j) \/ RenameFails(j)
        BY <3>4, <3>8, <4>2, RemovePartEffect
      <4>3. CASE Rename(j)
        BY <3>5, <3>8, <4>3, RenameEffect
      <4>4. CASE TagFails(j) \/ Retag(j)
        <5>1. /\ c \in Tracks /\ TagOf(j) \in Names /\ AudioOf(j) \in Names
              /\ dir' = dir \/ Linked(j, TagOf(j), NoFile) \/ Renamed(j, TagOf(j), AudioOf(j))
          BY <4>4, TaggedEffect
        <5>2. QED
          BY <3>3, <3>4, <3>5, <3>8, <5>1
      <4>5. QED
        BY <3>8, <4>1, <4>2, <4>3, <4>4 DEF OnFiles
    <3>9. CASE ~OnFiles(j)
      BY <2>3, <3>3, <3>9, OffFiles DEF OnFiles
    <3>10. QED
      BY <3>6, <3>7, <3>8, <3>9
  <2>4. QED
    BY <2>1, <2>2, <2>3 DEF Next, Rest
<1>3. FilesInv => JobInv
  BY DEF FilesInv
<1>4. QED
  BY <1>1, <1>2, <1>3, JobInvariant, PTL DEF Spec

-------------------------------------------------------------------------------
(* Temporary files.                                                        *)

(* As long as the process has not died, every temporary file belongs to a  *)
(* job that is going to remove it or to rename it.                         *)
WritesPart(j, t, e) ==
  at[j] \in {"write", "detect", "rename"} /\ Current(j) = t /\ part[j] = e

WritesTags(j, t, e) == at[j] = "retag" /\ Current(j) = t /\ ext[j] = e

Tidy ==
  crashes = 0 => \A t \in Tracks, e \in Exts :
    /\ dir[t][<<"part", e>>] # NoFile => \E j \in Jobs : WritesPart(j, t, e)
    /\ dir[t][<<"tag", e>>] # NoFile => \E j \in Jobs : WritesTags(j, t, e)

LEMMA StepKeepsTidy ==
  ASSUME JobInv, NEW j \in Jobs, Step(j), crashes = 0, Tidy,
         NEW t \in Tracks, NEW e \in Exts
  PROVE  /\ dir'[t][<<"part", e>>] # NoFile => \E k \in Jobs : WritesPart(k, t, e)'
         /\ dir'[t][<<"tag", e>>] # NoFile => \E k \in Jobs : WritesTags(k, t, e)'
<1> DEFINE P == <<"part", e>>
           G == <<"tag", e>>
<1>1. P \in Names /\ G \in Names /\ P # G
  BY DEF Names
<1>2. TypeOK /\ Sound(j)
  BY DEF JobInv
<1>3. /\ dir[t][P] # NoFile => \E k \in Jobs : WritesPart(k, t, e)
      /\ dir[t][G] # NoFile => \E k \in Jobs : WritesTags(k, t, e)
  BY DEF Tidy
<1>4. \A k \in Jobs \ {j} : /\ WritesPart(k, t, e) => WritesPart(k, t, e)'
                            /\ WritesTags(k, t, e) => WritesTags(k, t, e)'
  BY StepOfJob DEF OthersStay, WritesPart, WritesTags, Current
<1>5. ASSUME dir'[t][P] # NoFile => dir[t][P] # NoFile,
             dir'[t][P] # NoFile /\ WritesPart(j, t, e) => WritesPart(j, t, e)',
             dir'[t][G] # NoFile => dir[t][G] # NoFile,
             dir'[t][G] # NoFile /\ WritesTags(j, t, e) => WritesTags(j, t, e)'
      PROVE  /\ dir'[t][P] # NoFile => \E k \in Jobs : WritesPart(k, t, e)'
             /\ dir'[t][G] # NoFile => \E k \in Jobs : WritesTags(k, t, e)'
  BY <1>3, <1>4, <1>5
<1>6. CASE Create(j)
  <2>1. PICK i \in Inodes : Linked(j, PartOf(j), i)
    BY <1>6, CreateEffect
  <2>2. at[j] = "create" /\ at'[j] = "write" /\ part' = part /\ todo' = todo
    BY <1>2, <1>6 DEF Create, Move, TypeOK
  <2>3. ~WritesPart(j, t, e) /\ ~WritesTags(j, t, e)
    BY <2>2 DEF WritesPart, WritesTags
  <2>4. dir'[t][G] = dir[t][G]
    BY <1>1, <2>1 DEF Linked, PartOf
  <2>5. CASE t = Current(j) /\ P = PartOf(j)
    <3>1. WritesPart(j, t, e)'
      BY <2>2, <2>5 DEF WritesPart, PartOf, Current
    <3>2. QED
      BY <1>3, <1>4, <2>3, <2>4, <3>1
  <2>6. CASE ~(t = Current(j) /\ P = PartOf(j))
    <3>1. dir'[t][P] = dir[t][P]
      BY <1>1, <2>1, <2>6 DEF Linked
    <3>2. QED
      BY <1>5, <2>3, <2>4, <3>1
  <2>7. QED
    BY <2>5, <2>6
<1>7. CASE Tag(j)
  <2>1. Linked(j, TagOf(j), FreshInode)
    BY <1>7, TagEffect
  <2>2. at[j] = "tag" /\ at'[j] = "retag" /\ ext' = ext /\ todo' = todo
    BY <1>2, <1>7 DEF Tag, Move, TypeOK, locals
  <2>3. ~WritesPart(j, t, e) /\ ~WritesTags(j, t, e)
    BY <2>2 DEF WritesPart, WritesTags
  <2>4. dir'[t][P] = dir[t][P]
    BY <1>1, <2>1 DEF Linked, TagOf
  <2>5. CASE t = Current(j) /\ G = TagOf(j)
    <3>1. WritesTags(j, t, e)'
      BY <2>2, <2>5 DEF WritesTags, TagOf, Current
    <3>2. QED
      BY <1>3, <1>4, <2>3, <2>4, <3>1
  <2>6. CASE ~(t = Current(j) /\ G = TagOf(j))
    <3>1. dir'[t][G] = dir[t][G]
      BY <1>1, <2>1, <2>6 DEF Linked
    <3>2. QED
      BY <1>5, <2>3, <2>4, <3>1
  <2>7. QED
    BY <2>5, <2>6
<1>8. CASE Write(j) \/ Close(j)
  <2>1. dir' = dir /\ todo' = todo /\ part' = part /\ at[j] = "write" /\ at'[j] \in {"write", "detect"}
    BY <1>2, <1>8 DEF Write, Close, Written, Move, TypeOK
  <2>2. QED
    BY <1>5, <2>1 DEF WritesPart, WritesTags, Current
<1>9. CASE WriteFails(j) \/ RenameFails(j)
  <2>1. at[j] \in {"write", "detect", "rename"} /\ Linked(j, PartOf(j), NoFile)
    BY <1>9, RemovePartEffect
  <2>2. WritesPart(j, t, e) => dir'[t][P] = NoFile
    BY <1>1, <2>1 DEF Linked, WritesPart, PartOf
  <2>3. ~WritesTags(j, t, e)
    BY <2>1 DEF WritesTags
  <2>4. \A n \in Names : dir'[t][n] # NoFile => dir[t][n] # NoFile
    BY <2>1 DEF Linked
  <2>5. QED
    BY <1>1, <1>5, <2>2, <2>3, <2>4
<1>10. CASE Rename(j)
  <2>1. at[j] = "rename" /\ Renamed(j, PartOf(j), AudioOf(j))
    BY <1>10, RenameEffect
  <2>2. WritesPart(j, t, e) => dir'[t][P] = NoFile
    BY <1>1, <2>1 DEF Renamed, WritesPart, PartOf
  <2>3. ~WritesTags(j, t, e)
    BY <2>1 DEF WritesTags
  <2>4. P # AudioOf(j) /\ G # AudioOf(j)
    BY DEF AudioOf
  <2>5. \A n \in Names \ {AudioOf(j)} : dir'[t][n] # NoFile => dir[t][n] # NoFile
    BY <2>1 DEF Renamed
  <2>6. QED
    BY <1>1, <1>5, <2>2, <2>3, <2>4, <2>5
<1>11. CASE TagFails(j) \/ Retag(j)
  <2>1. /\ at[j] \in {"tag", "retag"} /\ Current(j) \in Tracks
        /\ \/ dir' = dir /\ (at[j] = "retag" => dir[Current(j)][TagOf(j)] = NoFile)
           \/ at[j] = "tag" /\ Linked(j, TagOf(j), NoFile)
           \/ at[j] = "retag" /\ Renamed(j, TagOf(j), AudioOf(j))
    BY <1>11, TaggedEffect
  <2>2. ~WritesPart(j, t, e)
    BY <2>1 DEF WritesPart
  <2>3. WritesTags(j, t, e) => dir'[t][G] = NoFile
    BY <1>1, <2>1 DEF Renamed, WritesTags, TagOf
  <2>4. P # AudioOf(j) /\ G # AudioOf(j)
    BY DEF AudioOf
  <2>5. \A n \in Names \ {AudioOf(j)} : dir'[t][n] # NoFile => dir[t][n] # NoFile
    BY <2>1 DEF Renamed, Linked
  <2>6. QED
    BY <1>1, <1>5, <2>2, <2>3, <2>4, <2>5
<1>12. CASE ~OnFiles(j)
  <2>1. dir' = dir
    BY <1>12, OffFiles
  <2>2. CASE at[j] = "detect"
    <3>1. Detect(j)
      BY <1>12, <2>2 DEF Step, OnFiles, NextTrack, JobEnds, Retry, GiveUp, ResolveWorks, AskNext,
                         ResolveFails, Stat, CreateFails
    <3>2. part' = part /\ todo' = todo /\ at'[j] = "rename"
      BY <1>2, <3>1 DEF Detect, Move, TypeOK
    <3>3. QED
      BY <1>5, <2>1, <2>2, <3>2 DEF WritesPart, WritesTags, Current
  <2>3. CASE at[j] # "detect"
    <3>1. at[j] \notin {"write", "rename", "retag"}
      BY <1>12 DEF Step, OnFiles, NextTrack, JobEnds, Retry, GiveUp, ResolveWorks, AskNext,
                   ResolveFails, Stat, CreateFails, Detect
    <3>2. QED
      BY <1>5, <2>1, <2>3, <3>1 DEF WritesPart, WritesTags
  <2>4. QED
    BY <2>2, <2>3
<1>13. QED
  BY <1>6, <1>7, <1>8, <1>9, <1>10, <1>11, <1>12 DEF OnFiles

(* No failure, retry or race of downloads leaves a .part file or a         *)
(* temporary file of ffmpeg behind when the jobs are done; only a crash    *)
(* does.                                                                   *)
THEOREM NothingIsLeftBehind == Spec => []NoLitter
<1>1. Init => Tidy
  BY DEF Init, Tidy, Names
<1>2. JobInv /\ Tidy /\ [Next]_vars => Tidy'
  <2> SUFFICES ASSUME JobInv, Tidy, [Next]_vars
               PROVE  Tidy'
    OBVIOUS
  <2>1. CASE UNCHANGED vars
    <3>1. /\ dir' = dir /\ at' = at /\ todo' = todo /\ part' = part /\ ext' = ext /\ crashes' = crashes
      BY <2>1 DEF vars, files, locals, history
    <3>2. ASSUME crashes = 0, NEW t \in Tracks, NEW e \in Exts
          PROVE  /\ dir'[t][<<"part", e>>] # NoFile => \E k \in Jobs : WritesPart(k, t, e)'
                 /\ dir'[t][<<"tag", e>>] # NoFile => \E k \in Jobs : WritesTags(k, t, e)'
      BY <3>1, <3>2 DEF Tidy, WritesPart, WritesTags, Current
    <3>3. QED
      BY <3>1, <3>2 DEF Tidy, WritesPart, WritesTags, Current
  <2>2. CASE Crash
    <3>1. crashes' # 0
      BY <2>2, DownloadAssumption DEF Crash, JobInv, TypeOK
    <3>2. QED
      BY <3>1 DEF Tidy
  <2>3. ASSUME NEW j \in Jobs, Step(j)
        PROVE  Tidy'
    <3>1. crashes' = crashes
      BY <2>3 DEF Step, NextTrack, JobEnds, Retry, GiveUp, ResolveWorks, AskNext, ResolveFails, Stat,
                  Create, CreateFails, Write, WriteFails, Close, Detect, Rename, RenameFails, Tag,
                  TagFails, Retag, history
    <3>2. SUFFICES ASSUME crashes = 0, NEW t \in Tracks, NEW e \in Exts
                   PROVE  /\ dir'[t][<<"part", e>>] # NoFile => \E k \in Jobs : WritesPart(k, t, e)'
                          /\ dir'[t][<<"tag", e>>] # NoFile => \E k \in Jobs : WritesTags(k, t, e)'
      BY <3>1, Zenon DEF Tidy
    <3>3. QED
      BY <2>3, <3>2, StepKeepsTidy DEF WritesPart, WritesTags, Current
  <2>4. QED
    BY <2>1, <2>2, <2>3 DEF Next, Rest
<1>3. Tidy => NoLitter
  BY DEF Tidy, NoLitter, WritesPart, WritesTags
<1>4. QED
  BY <1>1, <1>2, <1>3, JobInvariant, PTL DEF Spec

-------------------------------------------------------------------------------
(* Files as they were served.                                              *)

Busy == {"create", "write", "detect", "rename", "tag", "retag"}

Sole(t) == \A j, k \in Jobs : Downloading(j, t) /\ Downloading(k, t) => j = k

FinalAsServed(t) ==
  \A e \in Exts : dir[t][<<"audio", e>>] # NoFile => AsServed(data[dir[t][<<"audio", e>>]])

(* What a job has written so far stands in the .part file, and nothing     *)
(* else; what it is going to rename is as upstream served it.              *)
HalfWritten(j, t) ==
  /\ fd[j] = dir[t][PartOf(j)]
  /\ \A p \in 1..Pieces : data[fd[j]][p] \in IF p <= pos[j] THEN Served(format[j]) ELSE {"hole"}

AsServedIfThere(t, n) == dir[t][n] # NoFile => AsServed(data[dir[t][n]])

OnTheWay(j, t) ==
  Current(j) = t =>
    /\ at[j] = "write" => HalfWritten(j, t)
    /\ at[j] \in {"detect", "rename"} => AsServedIfThere(t, PartOf(j))
    /\ at[j] = "retag" => AsServedIfThere(t, TagOf(j))

SoloInv ==
  \A t \in Tracks \ overlapped : Sole(t) /\ FinalAsServed(t) /\ \A j \in Jobs : OnTheWay(j, t)

(* A job leaves a track only by going back to the start of its loop. *)
LEMMA TrackChange ==
  ASSUME JobInv, NEW j \in Jobs, Step(j)
  PROVE  todo'[j] = todo[j] \/ at'[j] = "idle"
<1>1. TypeOK /\ Sound(j)
  BY DEF JobInv
<1>2. ASSUME GiveUp(j)
      PROVE  at'[j] = "idle"
  BY <1>1, <1>2 DEF GiveUp, Move, TypeOK
<1>3. ASSUME Stat(j)
      PROVE  todo'[j] = todo[j] \/ at'[j] = "idle"
  BY <1>1, <1>3, SucceedIs DEF Stat, Sound
<1>4. ASSUME ResolveFails(j) \/ CreateFails(j) \/ WriteFails(j) \/ RenameFails(j)
      PROVE  todo'[j] = todo[j] \/ at'[j] = "idle"
  BY <1>1, <1>4 DEF ResolveFails, CreateFails, WriteFails, RenameFails, Fail, Move, TypeOK
<1>5. ASSUME TagFails(j) \/ Retag(j)
      PROVE  at'[j] = "idle"
  BY <1>1, <1>5, SucceedIs DEF TagFails, Retag, Sound
<1>6. QED
  BY <1>2, <1>3, <1>4, <1>5 DEF Step, NextTrack, JobEnds, Retry, ResolveWorks, AskNext, Create, Write,
                                Close, Detect, Rename, Tag

(* A step of a job leaves what other tracks' names stand for as it was. *)
LEMMA ForeignFiles ==
  ASSUME FilesInv, NEW j \in Jobs, Step(j), NEW t \in Tracks, t # Current(j), NEW n \in Names
  PROVE  /\ dir'[t][n] = dir[t][n]
         /\ dir[t][n] # NoFile => data'[dir[t][n]] = data[dir[t][n]]
<1>1. JobInv /\ TypeOK /\ dir[t][n] \in Inodes \cup {NoFile}
  BY DEF FilesInv, JobInv, TypeOK
<1>2. dir'[t][n] = dir[t][n]
  BY <1>1, StepOnFiles DEF FilesStep
<1>3. CASE KeepsData
  BY <1>2, <1>3 DEF KeepsData
<1>4. CASE Create(j)
  <2>1. PICK i \in Inodes :
          /\ i = dir[Current(j)][PartOf(j)] \/ i \notin InUse
          /\ \A x \in Inodes : data'[x] = IF x = i THEN Empty ELSE data[x]
    BY <1>1, <1>4, CreateEffect
  <2>2. Current(j) \in Tracks /\ PartOf(j) \in Names /\ NoFile \notin Inodes
    BY <1>1, <1>4, CreateEffect, DownloadAssumption
  <2>3. dir[t][n] # i
    BY <2>1, <2>2 DEF FilesInv, OneName, InUse
  <2>4. QED
    BY <1>1, <1>2, <2>1, <2>3
<1>5. CASE Write(j)
  <2>1. fd[j] \in Inodes /\ \A x \in Inodes \ {fd[j]} : data'[x] = data[x]
    BY <1>1, <1>5, WriteEffect
  <2>2. NoFile \notin Inodes
    BY DownloadAssumption
  <2>3. dir[t][n] # fd[j]
    BY <2>1, <2>2 DEF FilesInv, WritesItsOwn
  <2>4. QED
    BY <1>1, <1>2, <2>1, <2>3
<1>6. CASE Tag(j)
  <2>1. /\ FreshInode \notin InUse
        /\ \A u \in Tracks, m \in Names :
             dir'[u][m] # NoFile /\ dir'[u][m] # FreshInode => data'[dir'[u][m]] = data[dir'[u][m]]
    BY <1>1, <1>6, TagEffect
  <2>2. dir[t][n] # FreshInode
    BY <2>1 DEF InUse
  <2>3. QED
    BY <1>2, <2>1, <2>2
<1>7. CASE Close(j) \/ WriteFails(j) \/ RenameFails(j) \/ Rename(j) \/ TagFails(j) \/ Retag(j)
  BY <1>1, <1>3, <1>7, CloseEffect, RemovePartEffect, RenameEffect, TaggedEffect
<1>8. CASE ~OnFiles(j)
  BY <1>1, <1>2, <1>8, OffFiles
<1>9. QED
  BY <1>4, <1>5, <1>6, <1>7, <1>8 DEF OnFiles

LEMMA DownloadingIs ==
  \A j, t : Downloading(j, t) <=> at[j] \in Busy /\ Current(j) = t
BY DEF Downloading, Busy

(* A second job that comes to a track finds it overlapped. *)
LEMMA StepKeepsSole ==
  ASSUME JobInv, NEW j \in Jobs, Step(j), NEW t \in Tracks, t \notin overlapped', Sole(t)
  PROVE  Sole(t)'
<1>1. TypeOK /\ Sound(j) /\ OthersStay(j)
  BY StepOfJob DEF JobInv
<1>2. \A k \in Jobs \ {j} : at'[k] = at[k] /\ Current(k)' = Current(k)
  BY <1>1 DEF OthersStay, Current
<1>3. ASSUME at'[j] \in Busy, Current(j)' = t
      PROVE  \/ at[j] \in Busy /\ Current(j) = t
             \/ \A k \in Jobs \ {j} : ~(at[k] \in Busy /\ Current(k) = t)
  <2>1. Current(j)' = Current(j)
    BY <1>3, TrackChange DEF Busy, Current
  <2>2. ASSUME NextTrack(j) \/ JobEnds(j) \/ Retry(j) \/ GiveUp(j) \/ ResolveWorks(j)
        PROVE  at'[j] \notin Busy
    BY <1>1, <2>2 DEF NextTrack, JobEnds, Retry, GiveUp, ResolveWorks, Move, TypeOK, Busy
  <2>3. ASSUME AskNext(j)
        PROVE  at'[j] \notin Busy
    BY <1>1, <2>3 DEF AskNext, Busy
  <2>4. ASSUME ResolveFails(j)
        PROVE  at'[j] \notin Busy
    BY <1>1, <2>4, FailIs DEF ResolveFails, Sound, Busy
  <2>5. ASSUME Stat(j)
        PROVE  \A k \in Jobs \ {j} : ~(at[k] \in Busy /\ Current(k) = t)
    <3>1. ~Succeed(j)
      BY <1>1, <1>3, <2>5, SucceedIs DEF Stat, Sound, Busy
    <3>2. overlapped' = IF \E k \in Jobs \ {j} : Downloading(k, Current(j))
                        THEN overlapped \cup {Current(j)} ELSE overlapped
      BY <2>5, <3>1 DEF Stat
    <3>3. Current(j) = t /\ t \notin overlapped'
      BY <1>3, <2>1
    <3>4. ~\E k \in Jobs \ {j} : Downloading(k, t)
      BY <3>2, <3>3
    <3>5. QED
      BY <3>4, DownloadingIs
  <2>6. ASSUME ~(NextTrack(j) \/ JobEnds(j) \/ Retry(j) \/ GiveUp(j) \/ ResolveWorks(j)
                 \/ AskNext(j) \/ ResolveFails(j) \/ Stat(j))
        PROVE  at[j] \in Busy
    BY <2>6 DEF Step, Create, CreateFails, Write, WriteFails, Close, Written, Detect, Rename,
                RenameFails, Tag, TagFails, Retag, Busy
  <2>7. QED
    BY <1>3, <2>1, <2>2, <2>3, <2>4, <2>5, <2>6
<1>4. \A k, l \in Jobs :
        at[k] \in Busy /\ Current(k) = t /\ at[l] \in Busy /\ Current(l) = t => k = l
  BY DownloadingIs DEF Sole
<1>5. ASSUME NEW k \in Jobs, NEW l \in Jobs, at'[k] \in Busy, Current(k)' = t,
             at'[l] \in Busy, Current(l)' = t
      PROVE  k = l
  <2>1. CASE k # j /\ l # j
    BY <1>2, <1>4, <1>5, <2>1
  <2>2. CASE k = j /\ l # j
    BY <1>2, <1>3, <1>4, <1>5, <2>2
  <2>3. CASE k # j /\ l = j
    BY <1>2, <1>3, <1>4, <1>5, <2>3
  <2>4. QED
    BY <2>1, <2>2, <2>3
<1>6. QED
  BY <1>5 DEF Sole, Downloading, Busy, Current

(* A step that keeps what the names of a track stand for, and does not     *)
(* take the job that has the track further.                                *)
LEMMA QuietStepKeepsServed ==
  ASSUME FilesInv, NEW j \in Jobs, Step(j), NEW t \in Tracks,
         FinalAsServed(t), \A k \in Jobs : OnTheWay(k, t),
         \A n \in Names : /\ dir'[t][n] = dir[t][n]
                          /\ dir[t][n] # NoFile => data'[dir[t][n]] = data[dir[t][n]],
         Current(j)' = t => at'[j] \notin {"write", "detect", "rename", "retag"}
  PROVE  FinalAsServed(t)' /\ \A k \in Jobs : OnTheWay(k, t)'
<1>1. JobInv /\ TypeOK /\ OthersStay(j) /\ \A k \in Jobs : Sound(k)
  BY StepOfJob DEF FilesInv, JobInv
<1>2. \A e \in Exts : <<"audio", e>> \in Names
  BY DEF Names
<1>3. FinalAsServed(t)'
  BY <1>2 DEF FinalAsServed
<1>4. OnTheWay(j, t)'
  BY DEF OnTheWay
<1>5. ASSUME NEW k \in Jobs \ {j}
      PROVE  OnTheWay(k, t)'
  <2>1. /\ at'[k] = at[k] /\ Current(k)' = Current(k) /\ part'[k] = part[k] /\ ext'[k] = ext[k]
        /\ fd'[k] = fd[k] /\ pos'[k] = pos[k] /\ format'[k] = format[k]
    BY <1>1 DEF OthersStay, Current
  <2>2. /\ at[k] \in {"write", "detect", "rename"} => <<"part", part[k]>> \in Names
        /\ at[k] = "retag" => <<"tag", ext[k]>> \in Names
        /\ at[k] = "write" => fd[k] # NoFile
    BY <1>1 DEF Sound, Names
  <2>3. SUFFICES ASSUME Current(k) = t
                 PROVE  OnTheWay(k, t)'
    BY <2>1 DEF OnTheWay
  <2>4. OnTheWay(k, t) /\ PartOf(k)' = PartOf(k) /\ TagOf(k)' = TagOf(k)
    BY <2>1 DEF PartOf, TagOf
  <2>5. ASSUME at[k] = "write"
        PROVE  HalfWritten(k, t)'
    <3>1. /\ fd[k] = dir[t][PartOf(k)] /\ PartOf(k) \in Names /\ fd[k] # NoFile
          /\ \A p \in 1..Pieces : data[fd[k]][p] \in IF p <= pos[k] THEN Served(format[k]) ELSE {"hole"}
      BY <2>2, <2>3, <2>4, <2>5 DEF OnTheWay, HalfWritten, PartOf
    <3>2. data'[fd[k]] = data[fd[k]] /\ dir'[t][PartOf(k)] = fd[k]
      BY <3>1
    <3>3. QED
      BY <2>1, <2>4, <3>1, <3>2 DEF HalfWritten
  <2>6. ASSUME at[k] \in {"detect", "rename"}
        PROVE  dir'[t][PartOf(k)] # NoFile => AsServed(data'[dir'[t][PartOf(k)]])
    <3>1. PartOf(k) \in Names /\ (dir[t][PartOf(k)] # NoFile => AsServed(data[dir[t][PartOf(k)]]))
      BY <2>2, <2>3, <2>4, <2>6 DEF OnTheWay, AsServedIfThere, PartOf
    <3>2. QED
      BY <3>1
  <2>7. ASSUME at[k] = "retag"
        PROVE  dir'[t][TagOf(k)] # NoFile => AsServed(data'[dir'[t][TagOf(k)]])
    <3>1. TagOf(k) \in Names /\ (dir[t][TagOf(k)] # NoFile => AsServed(data[dir[t][TagOf(k)]]))
      BY <2>2, <2>3, <2>4, <2>7 DEF OnTheWay, AsServedIfThere, TagOf
    <3>2. QED
      BY <3>1
  <2>8. QED
    BY <2>1, <2>4, <2>5, <2>6, <2>7 DEF OnTheWay, AsServedIfThere
<1>6. QED
  BY <1>3, <1>4, <1>5

(* The steps of the only job that has a track.                             *)
LEMMA OwnStepKeepsServed ==
  ASSUME FilesInv, NEW j \in Jobs, Step(j), at[j] \in Busy,
         NEW t \in Tracks, t = Current(j), FinalAsServed(t), OnTheWay(j, t)
  PROVE  FinalAsServed(t)' /\ OnTheWay(j, t)'
<1>1. /\ JobInv /\ TypeOK /\ Sound(j) /\ NoFile \notin Inodes
      /\ todo'[j] = todo[j] \/ at'[j] = "idle"
  BY TrackChange, DownloadAssumption DEF FilesInv, JobInv
<1>2. \A e \in Exts : <<"audio", e>> \in Names /\ <<"audio", e>> # PartOf(j) /\ <<"audio", e>> # TagOf(j)
  BY DEF Names, PartOf, TagOf
<1>3. ASSUME at'[j] \notin {"write", "detect", "rename", "retag"}
      PROVE  OnTheWay(j, t)'
  BY <1>3 DEF OnTheWay
<1>4. ASSUME KeepsData, \A e \in Exts : dir'[t][<<"audio", e>>] \in {dir[t][<<"audio", e>>], NoFile}
      PROVE  FinalAsServed(t)'
  BY <1>2, <1>4 DEF FinalAsServed, KeepsData
<1>5. ASSUME NEW from \in Names, from[1] # "audio", AsServedIfThere(t, from),
             Renamed(j, from, AudioOf(j)), AudioOf(j) \in Names, KeepsData
      PROVE  FinalAsServed(t)'
  <2>1. SUFFICES ASSUME NEW e \in Exts, dir'[t][<<"audio", e>>] # NoFile
                 PROVE  AsServed(data'[dir'[t][<<"audio", e>>]])
    BY DEF FinalAsServed
  <2>2. data'[dir'[t][<<"audio", e>>]] = data[dir'[t][<<"audio", e>>]]
    BY <1>2, <1>5, <2>1 DEF KeepsData
  <2>3. CASE <<"audio", e>> = AudioOf(j)
    <3>1. dir'[t][<<"audio", e>>] = dir[t][from]
      BY <1>1, <1>2, <1>5, <2>3 DEF Renamed
    <3>2. QED
      BY <1>5, <2>1, <2>2, <3>1 DEF AsServedIfThere
  <2>4. CASE <<"audio", e>> # AudioOf(j)
    <3>1. dir'[t][<<"audio", e>>] = dir[t][<<"audio", e>>]
      BY <1>2, <1>5, <2>4 DEF Renamed
    <3>2. QED
      BY <2>1, <2>2, <3>1 DEF FinalAsServed
  <2>5. QED
    BY <2>3, <2>4
<1>6. CASE Create(j)
  <2>1. PICK i \in Inodes :
          /\ i = dir[t][PartOf(j)] \/ i \notin InUse
          /\ Linked(j, PartOf(j), i)
          /\ \A x \in Inodes : data'[x] = IF x = i THEN Empty ELSE data[x]
          /\ \A k \in Jobs : fd'[k] = IF k = j THEN i ELSE fd[k]
    BY <1>1, <1>6, CreateEffect
  <2>2. /\ PartOf(j) \in Names /\ at[j] = "create" /\ at'[j] = "write" /\ pos'[j] = 0 /\ PartOf(j)' = PartOf(j)
    <3>1. at[j] = "create" /\ at' = [at EXCEPT ![j] = "write"] /\ pos' = pos /\ part' = part
      BY <1>6 DEF Create, Move
    <3>2. QED
      BY <1>1, <1>6, <3>1, CreateEffect DEF Sound, TypeOK, PartOf
  <2>3. ASSUME NEW e \in Exts
        PROVE  /\ dir'[t][<<"audio", e>>] = dir[t][<<"audio", e>>]
               /\ dir[t][<<"audio", e>>] # i
    <3>1. dir'[t][<<"audio", e>>] = dir[t][<<"audio", e>>]
      BY <1>2, <2>1 DEF Linked
    <3>2. i \notin InUse => dir[t][<<"audio", e>>] # i
      BY <1>2 DEF InUse
    <3>3. QED
      BY <1>1, <1>2, <2>1, <2>2, <3>1, <3>2 DEF FilesInv, OneName
  <2>4. FinalAsServed(t)'
    <3>1. \A n \in Names : dir[t][n] \in Inodes \cup {NoFile}
      BY <1>1 DEF TypeOK
    <3>2. QED
      BY <1>2, <2>1, <2>3, <3>1 DEF FinalAsServed
  <2>5. HalfWritten(j, t)'
    <3>1. dir'[t][PartOf(j)] = i /\ fd'[j] = i /\ data'[i] = Empty
      BY <1>1, <2>1, <2>2 DEF Linked
    <3>2. \A p \in 1..Pieces : data'[fd'[j]][p] = "hole" /\ ~(p <= pos'[j])
      BY <2>2, <3>1 DEF Empty
    <3>3. QED
      BY <2>2, <3>1, <3>2 DEF HalfWritten
  <2>6. OnTheWay(j, t)'
    BY <2>2, <2>5 DEF OnTheWay
  <2>7. QED
    BY <2>4, <2>6
<1>7. CASE Write(j)
  <2>1. /\ at[j] = "write" /\ fd[j] \in Inodes /\ fd' = fd /\ dir' = dir /\ pos[j] + 1 \in 1..Pieces
        /\ \A x \in Inodes \ {fd[j]} : data'[x] = data[x]
        /\ \A p \in 1..Pieces : IF p = pos[j] + 1 THEN data'[fd[j]][p] \in Served(format[j])
                                ELSE data'[fd[j]][p] = data[fd[j]][p]
    BY <1>1, <1>7, WriteEffect
  <2>2. HalfWritten(j, t) /\ PartOf(j) \in Names
    BY <1>1, <2>1, PathsAre DEF OnTheWay
  <2>3. \A e \in Exts : /\ dir[t][<<"audio", e>>] \in Inodes \cup {NoFile}
                        /\ dir[t][<<"audio", e>>] # fd[j]
    <3>1. \A n \in Names : /\ dir[t][n] \in Inodes \cup {NoFile}
                           /\ n # PartOf(j) => dir[t][n] # fd[j]
      <4>1. \A n \in Names : dir[t][n] \in Inodes \cup {NoFile}
        BY <1>1 DEF TypeOK
      <4>2. fd[j] = dir[t][PartOf(j)] /\ fd[j] # NoFile
        BY <1>1, <2>1, <2>2 DEF HalfWritten
      <4>3. \A n \in Names : n # PartOf(j) => dir[t][n] # fd[j]
        BY <2>2, <4>2 DEF FilesInv, OneName
      <4>4. QED
        BY <4>1, <4>3
    <3>2. QED
      BY <1>2, <3>1
  <2>4. FinalAsServed(t)'
    BY <2>1, <2>3 DEF FinalAsServed
  <2>5. /\ at' = at /\ part' = part /\ format' = format /\ pos'[j] = pos[j] + 1
    BY <1>1, <1>7 DEF Write, TypeOK
  <2>6. HalfWritten(j, t)'
    <3>1. pos[j] \in Int /\ Pieces \in Int
      BY <1>1, DownloadAssumption DEF TypeOK
    <3>2. \A p \in 1..Pieces :
            data'[fd[j]][p] \in IF p <= pos[j] + 1 THEN Served(format[j]) ELSE {"hole"}
      BY <2>1, <2>2, <3>1 DEF HalfWritten
    <3>3. QED
      BY <2>1, <2>2, <2>5, <3>2 DEF HalfWritten, PartOf
  <2>7. OnTheWay(j, t)'
    BY <2>1, <2>5, <2>6 DEF OnTheWay
  <2>8. QED
    BY <2>4, <2>7
<1>8. CASE Close(j)
  <2>1. /\ at[j] = "write" /\ at'[j] = "detect" /\ pos[j] = Pieces /\ part' = part /\ dir' = dir
    BY <1>1, <1>8 DEF Close, Written, Move, TypeOK
  <2>2. KeepsData /\ FinalAsServed(t)'
    BY <1>1, <1>4, <1>8, <2>1, CloseEffect
  <2>3. HalfWritten(j, t) /\ PartOf(j) \in Names /\ dir[t][PartOf(j)] \in Inodes
    <3>1. fd[j] \in Inodes
      BY <1>1, <2>1 DEF Sound, TypeOK
    <3>2. QED
      BY <1>1, <2>1, <3>1, PathsAre DEF OnTheWay, HalfWritten
  <2>4. AsServed(data[dir[t][PartOf(j)]])
    <3>1. format[j] \in Formats /\ fd[j] = dir[t][PartOf(j)]
      BY <1>1, <2>1, <2>3 DEF Sound, HalfWritten
    <3>2. \A p \in 1..Pieces : data[fd[j]][p] \in Served(format[j])
      BY <2>1, <2>3 DEF HalfWritten
    <3>3. QED
      BY <3>1, <3>2 DEF AsServed
  <2>5. data'[dir[t][PartOf(j)]] = data[dir[t][PartOf(j)]]
    BY <1>1, <2>1, <2>2, <2>3 DEF KeepsData
  <2>6. AsServedIfThere(t, PartOf(j))'
    BY <2>1, <2>4, <2>5 DEF AsServedIfThere, PartOf
  <2>7. OnTheWay(j, t)'
    BY <2>1, <2>6 DEF OnTheWay
  <2>8. QED
    BY <2>2, <2>7
<1>9. CASE Detect(j)
  <2>1. /\ at[j] = "detect" /\ at'[j] = "rename" /\ dir' = dir /\ data' = data /\ part' = part
    BY <1>1, <1>9 DEF Detect, Move, TypeOK, files
  <2>2. AsServedIfThere(t, PartOf(j))
    BY <1>1, <2>1 DEF OnTheWay
  <2>3. OnTheWay(j, t)'
    BY <2>1, <2>2 DEF OnTheWay, AsServedIfThere, PartOf
  <2>4. FinalAsServed(t)'
    BY <2>1 DEF FinalAsServed
  <2>5. QED
    BY <2>3, <2>4
<1>10. CASE Rename(j)
  <2>1. /\ at[j] = "rename" /\ PartOf(j) \in Names /\ AudioOf(j) \in Names /\ at'[j] = "tag"
        /\ Renamed(j, PartOf(j), AudioOf(j)) /\ KeepsData
    BY <1>1, <1>10, RenameEffect DEF Rename, Move, TypeOK
  <2>2. AsServedIfThere(t, PartOf(j)) /\ PartOf(j)[1] # "audio"
    BY <1>1, <2>1 DEF OnTheWay, PartOf
  <2>3. QED
    BY <1>3, <1>5, <2>1, <2>2
<1>11. CASE Tag(j)
  <2>1. /\ at[j] = "tag" /\ TagOf(j) \in Names /\ AudioOf(j) \in Names /\ ext[j] \in Exts
        /\ dir[t][AudioOf(j)] # NoFile /\ FreshInode \in Inodes /\ FreshInode \notin InUse
        /\ Linked(j, TagOf(j), FreshInode)
        /\ data'[FreshInode] = data[dir[t][AudioOf(j)]]
        /\ \A u \in Tracks, n \in Names :
             dir'[u][n] # NoFile /\ dir'[u][n] # FreshInode => data'[dir'[u][n]] = data[dir'[u][n]]
    BY <1>1, <1>11, TagEffect
  <2>2. at'[j] = "retag" /\ TagOf(j)' = TagOf(j)
    BY <1>1, <1>11 DEF Tag, Move, TypeOK, TagOf, locals
  <2>3. \A e \in Exts : /\ dir'[t][<<"audio", e>>] = dir[t][<<"audio", e>>]
                        /\ dir[t][<<"audio", e>>] # FreshInode
    <3>1. \A n \in Names : /\ dir[t][n] # FreshInode
                           /\ n # TagOf(j) => dir'[t][n] = dir[t][n]
      BY <2>1 DEF Linked, InUse
    <3>2. QED
      BY <1>2, <3>1
  <2>4. FinalAsServed(t)'
    BY <1>2, <2>1, <2>3 DEF FinalAsServed
  <2>5. AsServed(data'[FreshInode])
    BY <2>1 DEF FinalAsServed, AudioOf
  <2>6. AsServedIfThere(t, TagOf(j))'
    BY <1>1, <2>1, <2>2, <2>5 DEF AsServedIfThere, Linked
  <2>7. OnTheWay(j, t)'
    BY <2>2, <2>6 DEF OnTheWay
  <2>8. QED
    BY <2>4, <2>7
<1>12. CASE CreateFails(j)
  <2>1. dir' = dir /\ data' = data
    BY <1>12 DEF CreateFails, files
  <2>2. at'[j] \in {"idle", "wait"}
    BY <1>1, <1>12, FailIs DEF CreateFails, Sound
  <2>3. QED
    BY <1>3, <2>1, <2>2 DEF FinalAsServed
<1>13. CASE WriteFails(j) \/ RenameFails(j)
  <2>1. /\ PartOf(j) \in Names /\ Linked(j, PartOf(j), NoFile) /\ KeepsData
        /\ at'[j] \in {"idle", "wait"}
    BY <1>1, <1>13, RemovePartEffect
  <2>2. \A e \in Exts : dir'[t][<<"audio", e>>] = dir[t][<<"audio", e>>]
    BY <1>2, <2>1 DEF Linked
  <2>3. QED
    BY <1>3, <1>4, <2>1, <2>2
<1>14. CASE TagFails(j) \/ Retag(j)
  <2>1. /\ at[j] \in {"tag", "retag"} /\ TagOf(j) \in Names /\ AudioOf(j) \in Names
        /\ \/ dir' = dir
           \/ Linked(j, TagOf(j), NoFile)
           \/ at[j] = "retag" /\ Renamed(j, TagOf(j), AudioOf(j))
        /\ KeepsData /\ at'[j] = "idle"
    BY <1>1, <1>14, TaggedEffect
  <2>2. ASSUME dir' = dir \/ Linked(j, TagOf(j), NoFile)
        PROVE  FinalAsServed(t)'
    <3>1. \A e \in Exts : dir'[t][<<"audio", e>>] = dir[t][<<"audio", e>>]
      BY <1>2, <2>2 DEF Linked
    <3>2. QED
      BY <1>4, <2>1, <3>1
  <2>3. ASSUME at[j] = "retag", Renamed(j, TagOf(j), AudioOf(j))
        PROVE  FinalAsServed(t)'
    <3>1. AsServedIfThere(t, TagOf(j)) /\ TagOf(j)[1] # "audio"
      BY <1>1, <2>3 DEF OnTheWay, TagOf
    <3>2. QED
      BY <1>5, <2>1, <2>3, <3>1
  <2>4. QED
    BY <1>3, <2>1, <2>2, <2>3
<1>15. QED
  <2>1. \/ Create(j) \/ CreateFails(j) \/ Write(j) \/ WriteFails(j) \/ Close(j) \/ Detect(j)
        \/ Rename(j) \/ RenameFails(j) \/ Tag(j) \/ TagFails(j) \/ Retag(j)
    BY DEF Step, Busy, NextTrack, JobEnds, Retry, GiveUp, ResolveWorks, AskNext, ResolveFails, Stat
  <2>2. QED
    BY <2>1, <1>6, <1>7, <1>8, <1>9, <1>10, <1>11, <1>12, <1>13, <1>14

(* A file under a final name has every piece that upstream served of one   *)
(* stream, whatever failed and whenever the process died, unless two jobs  *)
(* downloaded its track at the same time.  A piece may be a segment cut    *)
(* short, for copyChunkRange takes that for a success.                     *)
THEOREM SoloDownloadsFinish == Spec => []SoloDownloadsAreAsServed
<1>1. Init => SoloInv
  <2> SUFFICES ASSUME Init, NEW t \in Tracks
               PROVE  Sole(t) /\ FinalAsServed(t) /\ \A j \in Jobs : OnTheWay(j, t)
    BY DEF SoloInv
  <2>1. Sole(t)
    BY DEF Init, Sole, Downloading
  <2>2. FinalAsServed(t)
    BY DEF Init, FinalAsServed, Names
  <2>3. \A j \in Jobs : OnTheWay(j, t)
    BY DEF Init, OnTheWay
  <2>4. QED
    BY <2>1, <2>2, <2>3
<1>2. FilesInv /\ SoloInv /\ [Next]_vars => SoloInv'
  <2> SUFFICES ASSUME FilesInv, SoloInv, [Next]_vars, NEW t \in Tracks, t \notin overlapped'
               PROVE  Sole(t)' /\ FinalAsServed(t)' /\ \A j \in Jobs : OnTheWay(j, t)'
    BY DEF SoloInv
  <2>1. overlapped \subseteq overlapped'
    BY DEF Next, Rest, Crash, Step, NextTrack, JobEnds, Retry, GiveUp, ResolveWorks, AskNext,
           ResolveFails, Stat, Create, CreateFails, Write, WriteFails, Close, Detect, Rename,
           RenameFails, Tag, TagFails, Retag, history, vars
  <2>2. Sole(t) /\ FinalAsServed(t) /\ \A j \in Jobs : OnTheWay(j, t)
    BY <2>1 DEF SoloInv
  <2>3. JobInv /\ TypeOK /\ NoFile \notin Inodes
    BY DownloadAssumption DEF FilesInv, JobInv
  <2>4. CASE UNCHANGED vars
    <3>1. /\ dir' = dir /\ data' = data /\ at' = at /\ todo' = todo /\ part' = part /\ ext' = ext
          /\ fd' = fd /\ pos' = pos /\ format' = format
      BY <2>4 DEF vars, files, locals
    <3>2. QED
      BY <2>2, <3>1 DEF Sole, Downloading, Current, FinalAsServed, OnTheWay, HalfWritten, AsServedIfThere,
                        PartOf, TagOf
  <2>5. CASE Crash
    <3>1. (\A j \in Jobs : at'[j] = "idle") /\ dir' = dir
      BY <2>5 DEF Crash
    <3>2. \A n \in Names : dir[t][n] # NoFile => data'[dir[t][n]] = data[dir[t][n]]
      <4>1. dir[t] \in [Names -> Inodes \cup {NoFile}] /\ data \in [Inodes -> File]
        BY <2>3 DEF TypeOK
      <4>2. data' = Kept(dir, fd')
        BY <2>5 DEF Crash
      <4>3. QED
        BY <4>1, <4>2, KeptIs
    <3>3. \A e \in Exts : <<"audio", e>> \in Names
      BY DEF Names
    <3>4. FinalAsServed(t)'
      BY <2>2, <3>1, <3>2, <3>3 DEF FinalAsServed
    <3>5. QED
      BY <3>1, <3>4 DEF Sole, Downloading, OnTheWay
  <2>6. ASSUME NEW j \in Jobs, Step(j)
        PROVE  Sole(t)' /\ FinalAsServed(t)' /\ \A k \in Jobs : OnTheWay(k, t)'
    <3>1. Sole(t)'
      BY <2>2, <2>3, <2>6, StepKeepsSole
    <3>2. (todo'[j] = todo[j] \/ at'[j] = "idle") /\ OthersStay(j)
      BY <2>3, <2>6, TrackChange, StepOfJob
    <3>3. CASE t # Current(j)
      <4>1. \A n \in Names : /\ dir'[t][n] = dir[t][n]
                             /\ dir[t][n] # NoFile => data'[dir[t][n]] = data[dir[t][n]]
        BY <2>6, <3>3, ForeignFiles
      <4>2. Current(j)' = t => at'[j] \notin {"write", "detect", "rename", "retag"}
        BY <3>2, <3>3 DEF Current
      <4>3. QED
        BY <2>2, <2>6, <3>1, <4>1, <4>2, QuietStepKeepsServed
    <3>4. CASE t = Current(j) /\ at[j] \notin Busy
      <4>1. \/ NextTrack(j) \/ JobEnds(j) \/ Retry(j) \/ GiveUp(j) \/ ResolveWorks(j) \/ AskNext(j)
            \/ ResolveFails(j) \/ Stat(j)
        BY <2>6, <3>4 DEF Step, Busy, Create, CreateFails, Write, WriteFails, Close, Written, Detect,
                          Rename, RenameFails, Tag, TagFails, Retag
      <4>2. dir' = dir /\ data' = data
        BY <4>1 DEF NextTrack, JobEnds, Retry, GiveUp, ResolveWorks, AskNext, ResolveFails, Stat, files
      <4>3. at'[j] \notin {"write", "detect", "rename", "retag"}
        <5>1. ASSUME NextTrack(j) \/ JobEnds(j) \/ Retry(j) \/ GiveUp(j) \/ ResolveWorks(j) \/ AskNext(j)
              PROVE  at'[j] \notin {"write", "detect", "rename", "retag"}
          BY <2>3, <5>1 DEF NextTrack, JobEnds, Retry, GiveUp, ResolveWorks, AskNext, Move, TypeOK
        <5>2. ASSUME ResolveFails(j)
              PROVE  at'[j] \notin {"write", "detect", "rename", "retag"}
          BY <2>3, <5>2, FailIs DEF ResolveFails, JobInv, Sound
        <5>3. ASSUME Stat(j)
              PROVE  at'[j] \notin {"write", "detect", "rename", "retag"}
          BY <2>3, <5>3, SucceedIs DEF Stat, JobInv, Sound, Move, TypeOK
        <5>4. QED
          BY <4>1, <5>1, <5>2, <5>3
      <4>4. QED
        BY <2>2, <2>6, <3>1, <4>2, <4>3, QuietStepKeepsServed
    <3>5. CASE t = Current(j) /\ at[j] \in Busy
      <4>1. FinalAsServed(t)' /\ OnTheWay(j, t)'
        BY <2>2, <2>6, <3>5, OwnStepKeepsServed
      <4>2. ASSUME NEW k \in Jobs \ {j}
            PROVE  OnTheWay(k, t)'
        <5>1. ~(at[k] \in Busy /\ Current(k) = t)
          BY <2>2, <3>5, DownloadingIs DEF Sole
        <5>2. at'[k] = at[k] /\ Current(k)' = Current(k)
          BY <3>2 DEF OthersStay, Current
        <5>3. QED
          BY <5>1, <5>2 DEF OnTheWay, Busy
      <4>3. QED
        BY <3>1, <4>1, <4>2
    <3>6. QED
      BY <3>3, <3>4, <3>5
  <2>7. QED
    BY <2>4, <2>5, <2>6 DEF Next, Rest
<1>3. SoloInv => SoloDownloadsAreAsServed
  BY DEF SoloInv, FinalAsServed, SoloDownloadsAreAsServed
<1>4. QED
  BY <1>1, <1>2, <1>3, FilesInvariant, PTL DEF Spec

-------------------------------------------------------------------------------
(* Requested qualities.                                                    *)

Allowed == ToSet(DownloadQualities) \cup {"cut", "hole"}

OnlyAllowed(f) == \A p \in 1..Pieces : f[p] \in Allowed

(* A track that was never served in another quality than asked for has     *)
(* files of the requested ones only, and so has the stream a job is going  *)
(* to write for it.                                                        *)
NamedAllowed(t) == \A n \in Names : dir[t][n] # NoFile => OnlyAllowed(data[dir[t][n]])

StreamAllowed(j, t) ==
  at[j] \in {"stat", "create", "write"} /\ Current(j) = t => format[j] \in ToSet(DownloadQualities)

AskedInv ==
  DownloadQualities # <<>> =>
    \A t \in Tracks \ misled : NamedAllowed(t) /\ \A j \in Jobs : StreamAllowed(j, t)

(* What a job has resolved, or the byte map it uses, is of the quality it  *)
(* asked for, or else its track is misled.                                 *)
LEMMA StepKeepsStream ==
  ASSUME JobInv, NEW j \in Jobs, Step(j), DownloadQualities # <<>>,
         NEW t \in Tracks, t \notin misled', StreamAllowed(j, t)
  PROVE  StreamAllowed(j, t)'
<1> SUFFICES ASSUME at'[j] \in {"stat", "create", "write"}, Current(j)' = t
             PROVE  format'[j] \in ToSet(DownloadQualities)
  BY DEF StreamAllowed
<1>1. TypeOK /\ Sound(j)
  BY DEF JobInv
<1>2. Current(j) = t
  BY TrackChange DEF Current
<1>3. CASE ResolveWorks(j)
  <2>1. PICK r \in Resolutions(Asked(j)) :
          /\ r.error = "none" /\ format' = [format EXCEPT ![j] = r.format]
          /\ NoteMisled(j, r.asked \notin {NoQuality, r.format})
    BY <1>3 DEF ResolveWorks
  <2>2. r.asked \in ToSet(DownloadQualities)
    BY <1>1, <2>1, AskedIs DEF TypeOK, Sound
  <2>3. r.asked # NoQuality
    BY <2>2, DownloadQualitiesAre DEF ToSet
  <2>4. r.asked = r.format
    BY <1>2, <2>1, <2>3 DEF NoteMisled
  <2>5. QED
    BY <1>1, <2>1, <2>2, <2>4 DEF TypeOK
<1>4. CASE Create(j)
  <2>1. PICK q \in Mapped(format[j]) :
          format' = [format EXCEPT ![j] = q] /\ NoteMisled(j, q # format[j])
    BY <1>4 DEF Create
  <2>2. q = format[j]
    BY <1>2, <2>1 DEF NoteMisled
  <2>3. format[j] \in ToSet(DownloadQualities)
    BY <1>2, <1>4 DEF Create, StreamAllowed
  <2>4. QED
    BY <1>1, <2>1, <2>2, <2>3 DEF TypeOK
<1>5. CASE Stat(j)
  <2>1. ~Succeed(j)
    BY <1>1, <1>5, SucceedIs DEF Stat, Sound
  <2>2. format' = format /\ at[j] = "stat"
    BY <1>5, <2>1 DEF Stat
  <2>3. QED
    BY <1>2, <2>2 DEF StreamAllowed
<1>6. CASE Write(j)
  BY <1>2, <1>6 DEF Write, StreamAllowed
<1>7. ASSUME NextTrack(j) \/ JobEnds(j) \/ Retry(j) \/ GiveUp(j) \/ Close(j) \/ Detect(j) \/ Rename(j) \/ Tag(j)
      PROVE  FALSE
  BY <1>1, <1>7 DEF NextTrack, JobEnds, Retry, GiveUp, Close, Detect, Rename, Tag, Move, TypeOK
<1>8. ASSUME AskNext(j)
      PROVE  FALSE
  BY <1>8 DEF AskNext
<1>9. ASSUME ResolveFails(j) \/ CreateFails(j) \/ WriteFails(j) \/ RenameFails(j)
      PROVE  FALSE
  BY <1>1, <1>9, FailIs DEF ResolveFails, CreateFails, WriteFails, RenameFails, Sound
<1>10. ASSUME TagFails(j) \/ Retag(j)
       PROVE  FALSE
  BY <1>1, <1>10, SucceedIs DEF TagFails, Retag, Sound
<1>11. QED
  BY <1>3, <1>4, <1>5, <1>6, <1>7, <1>8, <1>9, <1>10 DEF Step

(* A job writes nothing but its stream into the files of its track.        *)
LEMMA StepKeepsNamed ==
  ASSUME FilesInv, NEW j \in Jobs, Step(j), DownloadQualities # <<>>,
         NEW t \in Tracks, t = Current(j), NamedAllowed(t), StreamAllowed(j, t)
  PROVE  NamedAllowed(t)'
<1>0. JobInv /\ TypeOK
  BY DEF FilesInv, JobInv
<1>d. dir \in [Tracks -> [Names -> Inodes \cup {NoFile}]]
  BY <1>0 DEF TypeOK
<1>1. /\ JobInv /\ TypeOK /\ NoFile \notin Inodes
      /\ \A n \in Names : dir[t][n] \in Inodes \cup {NoFile}
  BY <1>0, <1>d, DownloadAssumption
<1>2. ASSUME KeepsData,
             \A n \in Names : dir'[t][n] # NoFile => \E m \in Names : dir'[t][n] = dir[t][m]
      PROVE  NamedAllowed(t)'
  BY <1>2 DEF NamedAllowed, KeepsData, OnlyAllowed
<1>3. CASE Create(j)
  <2>1. PICK i \in Inodes :
          /\ Linked(j, PartOf(j), i)
          /\ \A x \in Inodes : data'[x] = IF x = i THEN Empty ELSE data[x]
    BY <1>1, <1>3, CreateEffect
  <2>2. OnlyAllowed(Empty)
    BY DEF OnlyAllowed, Empty, Allowed
  <2>3. SUFFICES ASSUME NEW n \in Names, dir'[t][n] # NoFile
                 PROVE  OnlyAllowed(data'[dir'[t][n]])
    BY DEF NamedAllowed, OnlyAllowed
  <2>4. dir'[t][n] \in Inodes /\ (dir'[t][n] = i \/ dir'[t][n] = dir[t][n])
    BY <1>1, <2>1, <2>3 DEF Linked
  <2>5. dir'[t][n] = i => data'[dir'[t][n]] = Empty
    BY <2>1
  <2>6. dir'[t][n] # i => data'[dir'[t][n]] = data[dir[t][n]] /\ dir[t][n] # NoFile
    BY <2>1, <2>3, <2>4
  <2>7. QED
    BY <2>2, <2>5, <2>6 DEF NamedAllowed
<1>4. CASE Write(j)
  <2>1. /\ at[j] = "write" /\ dir' = dir
        /\ \A x \in Inodes \ {fd[j]} : data'[x] = data[x]
        /\ \A p \in 1..Pieces : IF p = pos[j] + 1 THEN data'[fd[j]][p] \in Served(format[j])
                                ELSE data'[fd[j]][p] = data[fd[j]][p]
    BY <1>1, <1>4, WriteEffect
  <2>2. Served(format[j]) \subseteq Allowed
    BY <2>1 DEF StreamAllowed, Served, Allowed
  <2>3. SUFFICES ASSUME NEW n \in Names, dir'[t][n] # NoFile
                 PROVE  OnlyAllowed(data'[dir'[t][n]])
    BY DEF NamedAllowed, OnlyAllowed
  <2>4. dir'[t][n] = dir[t][n] /\ dir[t][n] \in Inodes /\ OnlyAllowed(data[dir[t][n]])
    BY <1>1, <2>1, <2>3 DEF NamedAllowed
  <2>5. CASE dir[t][n] = fd[j]
    BY <2>1, <2>2, <2>4, <2>5 DEF OnlyAllowed
  <2>6. CASE dir[t][n] # fd[j]
    BY <2>1, <2>4, <2>6
  <2>7. QED
    BY <2>5, <2>6
<1>5. CASE Tag(j)
  <2>1. /\ AudioOf(j) \in Names /\ dir[t][AudioOf(j)] # NoFile
        /\ Linked(j, TagOf(j), FreshInode)
        /\ data'[FreshInode] = data[dir[t][AudioOf(j)]]
        /\ \A u \in Tracks, n \in Names :
             dir'[u][n] # NoFile /\ dir'[u][n] # FreshInode => data'[dir'[u][n]] = data[dir'[u][n]]
    BY <1>1, <1>5, TagEffect
  <2>2. SUFFICES ASSUME NEW n \in Names, dir'[t][n] # NoFile
                 PROVE  OnlyAllowed(data'[dir'[t][n]])
    BY DEF NamedAllowed, OnlyAllowed
  <2>3. CASE dir'[t][n] = FreshInode
    BY <2>1, <2>3 DEF NamedAllowed
  <2>4. CASE dir'[t][n] # FreshInode
    <3>1. dir'[t][n] = dir[t][n] /\ data'[dir'[t][n]] = data[dir'[t][n]]
      BY <2>1, <2>2, <2>4 DEF Linked
    <3>2. QED
      BY <2>2, <3>1 DEF NamedAllowed
  <2>5. QED
    BY <2>3, <2>4
<1>6. CASE Close(j)
  BY <1>1, <1>2, <1>6, CloseEffect
<1>7. CASE WriteFails(j) \/ RenameFails(j)
  <2>1. Linked(j, PartOf(j), NoFile) /\ KeepsData
    BY <1>1, <1>7, RemovePartEffect
  <2>2. QED
    BY <1>2, <2>1 DEF Linked
<1>8. CASE Rename(j)
  <2>1. PartOf(j) \in Names /\ Renamed(j, PartOf(j), AudioOf(j)) /\ KeepsData
    BY <1>1, <1>8, RenameEffect
  <2>2. QED
    BY <1>2, <2>1 DEF Renamed
<1>9. CASE TagFails(j) \/ Retag(j)
  <2>1. /\ TagOf(j) \in Names /\ KeepsData
        /\ dir' = dir \/ Linked(j, TagOf(j), NoFile) \/ Renamed(j, TagOf(j), AudioOf(j))
    BY <1>1, <1>9, TaggedEffect
  <2>2. \A n \in Names : dir'[t][n] # NoFile => \E m \in Names : dir'[t][n] = dir[t][m]
    BY <2>1 DEF Linked, Renamed
  <2>3. QED
    BY <1>2, <2>1, <2>2
<1>10. CASE ~OnFiles(j)
  BY <1>1, <1>10, OffFiles DEF NamedAllowed, OnlyAllowed
<1>11. QED
  BY <1>3, <1>4, <1>5, <1>6, <1>7, <1>8, <1>9, <1>10 DEF OnFiles

(* With DHWANI_DOWNLOAD_QUALITY set, a file holds a piece of another       *)
(* quality only if its track was once served in another quality than asked *)
(* for: what the loop of downloadStarredTrack resolves was asked for as    *)
(* one of those set, because a strict context leaves fetchTrackPayload no  *)
(* other, and no job writes into the files of another track.               *)
THEOREM QualitiesAreHonoured == Spec => []OnlyRequestedQualities
<1>1. Init => AskedInv
  BY DEF Init, AskedInv, NamedAllowed, StreamAllowed
<1>2. FilesInv /\ AskedInv /\ [Next]_vars => AskedInv'
  <2> SUFFICES ASSUME FilesInv, AskedInv, [Next]_vars, DownloadQualities # <<>>,
                      NEW t \in Tracks, t \notin misled'
               PROVE  NamedAllowed(t)' /\ \A j \in Jobs : StreamAllowed(j, t)'
    BY DEF AskedInv
  <2>1. misled \subseteq misled'
    BY DEF Next, Rest, Crash, Step, NextTrack, JobEnds, Retry, GiveUp, ResolveWorks, AskNext,
           ResolveFails, Stat, Create, CreateFails, Write, WriteFails, Close, Detect, Rename,
           RenameFails, Tag, TagFails, Retag, NoteMisled, history, vars
  <2>2. NamedAllowed(t) /\ \A j \in Jobs : StreamAllowed(j, t)
    BY <2>1 DEF AskedInv
  <2>3. JobInv /\ TypeOK
    BY DEF FilesInv, JobInv
  <2>4. CASE UNCHANGED vars
    BY <2>2, <2>4 DEF NamedAllowed, StreamAllowed, OnlyAllowed, Current, vars, files, locals
  <2>5. CASE Crash
    <3>1. (\A j \in Jobs : at'[j] = "idle") /\ dir' = dir /\ data' = Kept(dir, fd')
      BY <2>5 DEF Crash
    <3>2. dir[t] \in [Names -> Inodes \cup {NoFile}] /\ data \in [Inodes -> File]
      BY <2>3 DEF TypeOK
    <3>3. \A n \in Names : dir[t][n] # NoFile => data'[dir[t][n]] = data[dir[t][n]]
      BY <3>1, <3>2, KeptIs
    <3>4. QED
      BY <2>2, <3>1, <3>3 DEF NamedAllowed, StreamAllowed, OnlyAllowed
  <2>6. ASSUME NEW j \in Jobs, Step(j)
        PROVE  NamedAllowed(t)' /\ \A k \in Jobs : StreamAllowed(k, t)'
    <3>1. StreamAllowed(j, t)'
      BY <2>2, <2>3, <2>6, StepKeepsStream
    <3>2. ASSUME NEW k \in Jobs \ {j}
          PROVE  StreamAllowed(k, t)'
      BY <2>2, <2>3, <2>6, StepOfJob DEF OthersStay, StreamAllowed, Current
    <3>3. CASE t = Current(j)
      BY <2>2, <2>6, <3>1, <3>2, <3>3, StepKeepsNamed
    <3>4. CASE t # Current(j)
      <4>1. \A n \in Names : /\ dir'[t][n] = dir[t][n]
                             /\ dir[t][n] # NoFile => data'[dir[t][n]] = data[dir[t][n]]
        BY <2>6, <3>4, ForeignFiles
      <4>2. NamedAllowed(t)'
        BY <2>2, <4>1 DEF NamedAllowed, OnlyAllowed
      <4>3. QED
        BY <3>1, <3>2, <4>2
    <3>5. QED
      BY <3>3, <3>4
  <2>7. QED
    BY <2>4, <2>5, <2>6 DEF Next, Rest
<1>3. FilesInv /\ AskedInv => OnlyRequestedQualities
  <2> SUFFICES ASSUME FilesInv, AskedInv, DownloadQualities # <<>>,
                      NEW t \in Tracks \ misled, NEW n \in Names, dir[t][n] # NoFile
               PROVE  ToSet(data[dir[t][n]]) \subseteq Allowed
    BY DEF OnlyRequestedQualities, Allowed
  <2>1. data[dir[t][n]] \in [1..Pieces -> Formats \cup {"cut", "hole"}]
    BY DEF FilesInv, JobInv, TypeOK, File
  <2>2. \A p \in 1..Pieces : data[dir[t][n]][p] \in Allowed
    BY DEF AskedInv, NamedAllowed, OnlyAllowed
  <2>3. QED
    BY <2>1, <2>2 DEF ToSet
<1>4. QED
  BY <1>1, <1>2, <1>3, FilesInvariant, PTL DEF Spec

-------------------------------------------------------------------------------
(* Progress.                                                               *)

(* A step that leaves a job at the same attempt of the same track gets it  *)
(* further: by where it is, by the qualities asked for or by what is       *)
(* written.                                                                *)
StageOf(pc, asked, written) ==
  LET all == Len(DownloadQualities) + 4 + Pieces IN
  CASE pc \in {"idle", "wait"} -> 0
    [] pc = "done"    -> 1
    [] pc = "resolve" -> 1 + asked
    [] pc = "stat"    -> Len(DownloadQualities) + 2
    [] pc = "create"  -> Len(DownloadQualities) + 3
    [] pc = "write"   -> Len(DownloadQualities) + 4 + written
    [] pc = "detect"  -> all + 1
    [] pc = "rename"  -> all + 2
    [] pc = "tag"     -> all + 3
    [] pc = "retag"   -> all + 4

LEMMA StageIsStageOf ==
  ASSUME NEW j
  PROVE  /\ Stage(j) = StageOf(at[j], tried[j], pos[j])
         /\ Stage(j)' = StageOf(at'[j], tried'[j], pos'[j])
BY Zenon DEF Stage, StageOf

LEMMA StageOfIs ==
  ASSUME NEW asked, NEW written
  PROVE  /\ StageOf("idle", asked, written) = 0 /\ StageOf("wait", asked, written) = 0
         /\ StageOf("done", asked, written) = 1
         /\ StageOf("resolve", asked, written) = 1 + asked
         /\ StageOf("stat", asked, written) = Len(DownloadQualities) + 2
         /\ StageOf("create", asked, written) = Len(DownloadQualities) + 3
         /\ StageOf("write", asked, written) = Len(DownloadQualities) + 4 + written
         /\ StageOf("detect", asked, written) = Len(DownloadQualities) + 4 + Pieces + 1
         /\ StageOf("rename", asked, written) = Len(DownloadQualities) + 4 + Pieces + 2
         /\ StageOf("tag", asked, written) = Len(DownloadQualities) + 4 + Pieces + 3
         /\ StageOf("retag", asked, written) = Len(DownloadQualities) + 4 + Pieces + 4
BY DEF StageOf

LEMMA StepIsNearer ==
  ASSUME JobInv, NEW j \in Jobs, Step(j)
  PROVE  Nearer(j)
<1>1. TypeOK /\ Sound(j)
  BY DEF JobInv
<1>2. /\ Len(DownloadQualities) \in Nat /\ Pieces \in Nat /\ pos[j] \in 0..Pieces
      /\ tried[j] \in 0..Len(DownloadQualities)
  BY <1>1, DownloadQualitiesAre, DownloadAssumption DEF TypeOK
<1>3. ASSUME todo'[j] = todo[j], attempt'[j] = attempt[j],
             StageOf(at'[j], tried'[j], pos'[j]) > StageOf(at[j], tried[j], pos[j])
      PROVE  Nearer(j)
  BY <1>3, StageIsStageOf DEF Nearer
<1>4. CASE NextTrack(j) \/ JobEnds(j) \/ Retry(j)
  <2>1. /\ at[j] \in {"idle", "wait"} /\ at'[j] \in {"resolve", "done"}
        /\ todo' = todo /\ attempt' = attempt /\ tried' = tried /\ pos' = pos
    BY <1>1, <1>4 DEF NextTrack, JobEnds, Retry, Move, TypeOK, locals
  <2>2. QED
    BY <1>2, <1>3, <2>1, StageOfIs
<1>5. CASE GiveUp(j)
  <2>1. Len(todo'[j]) < Len(todo[j])
    <3>1. Len(Tail(todo[j])) < Len(todo[j])
      BY <1>1, <1>5, CurrentIs DEF GiveUp, Sound
    <3>2. todo'[j] = Tail(todo[j])
      BY <1>1, <1>5 DEF GiveUp, TypeOK
    <3>3. QED
      BY <3>1, <3>2
  <2>2. QED
    BY <2>1 DEF Nearer
<1>6. CASE ResolveWorks(j)
  <2>1. /\ at[j] = "resolve" /\ at'[j] = "stat"
        /\ todo' = todo /\ attempt' = attempt
    BY <1>1, <1>6 DEF ResolveWorks, Move, TypeOK
  <2>2. QED
    BY <1>2, <1>3, <2>1, StageOfIs
<1>7. CASE AskNext(j)
  <2>1. /\ at[j] = "resolve" /\ at'[j] = "resolve" /\ tried'[j] = tried[j] + 1
        /\ todo' = todo /\ attempt' = attempt
    BY <1>1, <1>7 DEF AskNext, TypeOK
  <2>2. QED
    BY <1>2, <1>3, <2>1, StageOfIs
<1>8. ASSUME ResolveFails(j) \/ CreateFails(j) \/ WriteFails(j) \/ RenameFails(j)
      PROVE  Nearer(j)
  <2>1. todo[j] # <<>> /\ \E error : Fail(j, error)
    BY <1>1, <1>8 DEF ResolveFails, CreateFails, WriteFails, RenameFails, Sound
  <2>2. QED
    BY <1>1, <2>1, FailIs DEF Nearer
<1>9. ASSUME Stat(j), ~Succeed(j)
      PROVE  Nearer(j)
  <2>1. /\ at[j] = "stat" /\ at'[j] = "create" /\ todo' = todo /\ attempt' = attempt
    BY <1>1, <1>9 DEF Stat, Move, TypeOK
  <2>2. QED
    BY <1>2, <1>3, <2>1, StageOfIs
<1>10. ASSUME at[j] \notin {"idle", "done"}, Succeed(j)
       PROVE  Nearer(j)
  BY <1>1, <1>10, SucceedIs DEF Nearer, Sound
<1>11. CASE Create(j) \/ Write(j) \/ Close(j) \/ Detect(j)
  <2>1. todo' = todo /\ attempt' = attempt
    BY <1>11 DEF Create, Write, Close, Detect
  <2>2. \/ at[j] = "create" /\ at'[j] = "write" /\ pos' = pos
        \/ at[j] = "write" /\ at'[j] = "write" /\ pos'[j] = pos[j] + 1
        \/ at[j] = "write" /\ at'[j] = "detect"
        \/ at[j] = "detect" /\ at'[j] = "rename"
    BY <1>1, <1>11 DEF Create, Write, Close, Written, Detect, Move, TypeOK
  <2>3. CASE at[j] = "create" /\ at'[j] = "write" /\ pos' = pos
    BY <1>2, <1>3, <2>1, <2>3, StageOfIs
  <2>4. CASE at[j] = "write" /\ at'[j] = "write" /\ pos'[j] = pos[j] + 1
    BY <1>2, <1>3, <2>1, <2>4, StageOfIs
  <2>5. CASE at[j] = "write" /\ at'[j] = "detect"
    BY <1>2, <1>3, <2>1, <2>5, StageOfIs
  <2>6. CASE at[j] = "detect" /\ at'[j] = "rename"
    BY <1>2, <1>3, <2>1, <2>6, StageOfIs
  <2>7. QED
    BY <2>2, <2>3, <2>4, <2>5, <2>6
<1>12. CASE Rename(j) \/ Tag(j)
  <2>1. todo' = todo /\ attempt' = attempt
    BY <1>12 DEF Rename, Tag
  <2>2. \/ at[j] = "rename" /\ at'[j] = "tag"
        \/ at[j] = "tag" /\ at'[j] = "retag"
    BY <1>1, <1>12 DEF Rename, Tag, Move, TypeOK
  <2>3. QED
    BY <1>2, <1>3, <2>1, <2>2, StageOfIs
<1>13. CASE TagFails(j) \/ Retag(j)
  <2>1. at[j] \in {"tag", "retag"} /\ Succeed(j)
    BY <1>13 DEF TagFails, Retag
  <2>2. QED
    BY <1>10, <2>1
<1>14. QED
  <2>1. ASSUME Stat(j)
        PROVE  Nearer(j)
    BY <1>9, <1>10, <2>1 DEF Stat
  <2>2. QED
    BY <1>4, <1>5, <1>6, <1>7, <1>8, <1>11, <1>12, <1>13, <2>1 DEF Step

(* No failure is retried for ever and no download goes in circles: every   *)
(* step of a job gives up a track, uses up an attempt or gets further, and *)
(* the steps of the other jobs take nothing back.                          *)
THEOREM EveryStepAdvances == Spec => JobsAdvance
<1>1. ASSUME JobInv, [Next]_vars, crashes' = crashes, NEW k \in Jobs
      PROVE  \/ UNCHANGED <<at[k], todo[k], attempt[k], tried[k], pos[k]>>
             \/ Nearer(k)
  <2>1. CASE UNCHANGED vars
    BY <2>1 DEF vars, locals
  <2>2. CASE Crash
    <3>1. crashes \in Int
      BY <1>1, DownloadAssumption DEF JobInv, TypeOK
    <3>2. QED
      BY <1>1, <2>2, <3>1 DEF Crash
  <2>3. ASSUME NEW j \in Jobs, Step(j)
        PROVE  \/ UNCHANGED <<at[k], todo[k], attempt[k], tried[k], pos[k]>>
               \/ Nearer(k)
    <3>1. CASE k = j
      BY <1>1, <2>3, <3>1, StepIsNearer
    <3>2. CASE k # j
      BY <1>1, <2>3, <3>2, StepOfJob DEF OthersStay
    <3>3. QED
      BY <3>1, <3>2
  <2>4. QED
    BY <1>1, <2>1, <2>2, <2>3 DEF Next, Rest
<1>2. JobInv /\ [Next]_vars =>
        [crashes' = crashes =>
           \A j \in Jobs : \/ UNCHANGED <<at[j], todo[j], attempt[j], tried[j], pos[j]>>
                           \/ Nearer(j)]_vars
  BY <1>1
<1>3. QED
  BY <1>2, JobInvariant, PTL DEF Spec, JobsAdvance
===============================================================================

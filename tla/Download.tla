------------------------------- MODULE Download -------------------------------
(***************************************************************************)
(* Download on star (internal/httpapi/handlers.go): downloadStarredAlbum,  *)
(* downloadStarredTrackWithRetry, downloadStarredTrack and                 *)
(* tagDownloadedAudio, on a file system that outlives the process.         *)
(*                                                                         *)
(* A job is the goroutine a star request leaves behind; it downloads its   *)
(* tracks one after the other.  A track is written to "<path>.part",       *)
(* renamed to <path> and then rewritten by ffmpeg through a temporary file *)
(* beside it.  Files are inodes: a rename moves the name, not the file a   *)
(* job has open, and os.Create truncates the file that has the name.       *)
(*                                                                         *)
(* The path of a track is abstracted to its extension, the part that       *)
(* changes during a download.                                              *)
(***************************************************************************)
EXTENDS Integers, Sequences, FiniteSets, SquidStream

CONSTANTS
  Jobs,       \* the goroutines of star requests
  Tracks,     \* the tracks they download
  Album,      \* the tracks of each job's request, in order
  Attempts,   \* downloadRetryAttempts
  Requested,  \* downloadQuality, split at its commas, in upper case
  ExtOf,      \* the extension detectAudioExtFromFile finds for each format
  Segmented,  \* the formats that are served as DASH segments
  Hashed,     \* the formats whose payloads have a manifestHash
  Pieces,     \* a file is written in this many pieces (io.Copy, copyDashBytes)
  Inodes,     \* enough for every name and every open file
  MaxCrashes  \* bound: how often the process dies

NoFile == 0

(* parseDownloadQualities passes over the empty ones. *)
DownloadQualities == AtPlaces(Requested, {i \in FirstSeen(Requested) : Requested[i] # NoQuality})

(* A piece of a file holds data of a format, a segment that was cut short, *)
(* or nothing.                                                             *)
Exts  == {"flac"} \cup {ExtOf[q] : q \in Formats}
Names == {"audio", "part", "tag"} \X Exts
File  == [1..Pieces -> Formats \cup {"cut", "hole"}]
Empty == [i \in 1..Pieces |-> "hole"]

ASSUME DownloadAssumption ==
  /\ IsFiniteSet(Jobs) /\ IsFiniteSet(Tracks) /\ IsFiniteSet(Inodes)
  /\ Album \in [Jobs -> Seq(Tracks)]
  /\ Attempts \in Nat \ {0} /\ Pieces \in Nat \ {0} /\ MaxCrashes \in Nat
  /\ Requested \in Seq(ToSet(Requested))
  /\ "cut" \notin Formats /\ "hole" \notin Formats
  /\ Segmented \subseteq Formats
  /\ NoFile \notin Inodes
  /\ Cardinality(Inodes) > Cardinality(Tracks) * Cardinality(Names) + Cardinality(Jobs)

VARIABLES
  dir,        \* the directory: the inode each name of a track has
  data,       \* what each inode holds
  at, todo,   \* where each job is, and the tracks it has still to download
  attempt,    \* the attempt of downloadStarredTrackWithRetry
  tried,      \* how many qualities this attempt has asked for
  format,     \* the format of the stream resolved, or of its byte map
  ext, part,  \* the extension of targetPath, and the one tmp was given
  fd,         \* the open .part file, and how much of it is written
  pos,
  crashes,    \* how often the process died
  completed,  \* history: tracks some job has reported as downloaded
  overlapped, \* history: tracks two jobs were downloading at the same time
  misled      \* history: tracks served in another quality than was asked for

files   == <<dir, data>>
locals  == <<tried, format, ext, part, fd, pos>>
history == <<crashes, completed, overlapped, misled>>
vars    == <<files, at, todo, attempt, locals, history>>

PCs == {"idle", "resolve", "stat", "create", "write", "detect", "rename", "tag",
        "retag", "wait", "done"}

TypeOK ==
  /\ dir \in [Tracks -> [Names -> Inodes \cup {NoFile}]]
  /\ data \in [Inodes -> File]
  /\ at \in [Jobs -> PCs]
  /\ todo \in [Jobs -> Seq(Tracks)]
  /\ attempt \in [Jobs -> 1..Attempts]
  /\ tried \in [Jobs -> 0..Len(DownloadQualities)]
  /\ format \in [Jobs -> Formats \cup {"none"}]
  /\ ext \in [Jobs -> Exts \cup {"none"}]
  /\ part \in [Jobs -> Exts \cup {"none"}]
  /\ fd \in [Jobs -> Inodes \cup {NoFile}]
  /\ pos \in [Jobs -> 0..Pieces]
  /\ crashes \in 0..MaxCrashes
  /\ completed \subseteq Tracks
  /\ overlapped \subseteq Tracks
  /\ misled \subseteq Tracks

Init ==
  /\ dir = [t \in Tracks |-> [n \in Names |-> NoFile]]
  /\ data = [i \in Inodes |-> Empty]
  /\ at = [j \in Jobs |-> "idle"]
  /\ todo = Album
  /\ attempt = [j \in Jobs |-> 1]
  /\ tried = [j \in Jobs |-> 0]
  /\ format = [j \in Jobs |-> "none"]
  /\ ext = [j \in Jobs |-> "none"]
  /\ part = [j \in Jobs |-> "none"]
  /\ fd = [j \in Jobs |-> NoFile]
  /\ pos = [j \in Jobs |-> 0]
  /\ crashes = 0
  /\ completed = {}
  /\ overlapped = {}
  /\ misled = {}

-------------------------------------------------------------------------------
(* Files.  A definition named Mut... below is a slip the code could have   *)
(* made in the definition that follows it; the runs show that it breaks a  *)
(* property.                                                               *)

Current(j) == Head(todo[j])
Look(j, name) == dir[Current(j)][name]
Link(j, name, i) == [dir EXCEPT ![Current(j)] = [@ EXCEPT ![name] = i]]
Unlink(j, name)  == Link(j, name, NoFile)
Moved(j, from, to) ==
  [dir EXCEPT ![Current(j)] = [@ EXCEPT ![to] = Look(j, from), ![from] = NoFile]]

PartOf(j)  == <<"part", part[j]>>
AudioOf(j) == <<"audio", ext[j]>>
TagOf(j)   == <<"tag", ext[j]>>

InUse   == {dir[t][n] : t \in Tracks, n \in Names} \cup {fd[j] : j \in Jobs}
FreshInode == CHOOSE i \in Inodes : i \notin InUse

(* The file system frees a file that has no name and that nobody has open. *)
Kept(d, open) ==
  LET used == {d[t][n] : t \in Tracks, n \in Names} \cup {open[j] : j \in Jobs}
  IN  [i \in Inodes |-> IF i \in used THEN data[i] ELSE Empty]

(* Every piece is of one format. *)
Whole(f) == \E q \in Formats : f = [i \in 1..Pieces |-> q]

(* What a piece of a body may turn out to be.  copyChunkRange takes a      *)
(* segment that ends early for a success, and a probe that is answered     *)
(* "bytes 0-0/*" makes a segment one byte long.                            *)
Served(q) == IF q \in Segmented THEN {q, "cut"} ELSE {q}
AsServed(f) == \E q \in Formats : \A i \in 1..Pieces : f[i] \in Served(q)

(* The format of the byte map getOrBuildDashMap returns for a stream: a    *)
(* manifest without a hash may have the key of another one of the track,   *)
(* whose map a stream or a download has left in the cache.                 *)
Mapped(q) == IF q \in Segmented \ Hashed THEN Segmented \ Hashed ELSE {q}

(* The current track is served in another quality than was asked for. *)
NoteMisled(j, mistaken) ==
  misled' = IF mistaken THEN misled \cup {Current(j)} ELSE misled

(* os.Remove(tmp). *)
MutNoRemove(j) == UNCHANGED dir
RemovePart(j) == dir' = Unlink(j, PartOf(j))

Downloading(j, t) ==
  at[j] \in {"create", "write", "detect", "rename", "tag", "retag"} /\ Current(j) = t

-------------------------------------------------------------------------------
(* Steps of a job.                                                         *)

Move(j, pc) == at' = [at EXCEPT ![j] = pc]

(* The locals of one call of downloadStarredTrack. *)
ResetLocals(j) ==
  /\ tried' = [tried EXCEPT ![j] = 0]
  /\ format' = [format EXCEPT ![j] = "none"]
  /\ ext' = [ext EXCEPT ![j] = "none"]
  /\ part' = [part EXCEPT ![j] = "none"]
  /\ fd' = [fd EXCEPT ![j] = NoFile]
  /\ pos' = [pos EXCEPT ![j] = 0]

(* The errors of downloadStarredTrack: those of ResolveStream, the status  *)
(* of the media server, an error of the network, of the file system        *)
(* (syscall.Errno is a net.Error) or of the context, another one, and      *)
(* "none of requested download qualities satisfied".  The 90 s of the      *)
(* context may be over at any step, so every call may fail with "network". *)
MediaErrors == {"finalStatus", "retryStatus", "network", "other"}

(* isRetryableDownloadError. *)
Retryable(error) == error \in {"network", "retryStatus"}

MutOneMore(j, error) == attempt[j] <= Attempts /\ Retryable(error)
MayRetry(j, error)   == attempt[j] < Attempts /\ Retryable(error)

(* downloadStarredTrack returns an error: retry, or go on without the      *)
(* track.                                                                  *)
MutUncounted(j) == attempt' = attempt
CountAttempt(j) == attempt' = [attempt EXCEPT ![j] = @ + 1]

Fail(j, error) ==
  /\ ResetLocals(j)
  /\ IF MayRetry(j, error)
     THEN /\ CountAttempt(j)
          /\ Move(j, "wait")
          /\ UNCHANGED todo
     ELSE /\ attempt' = [attempt EXCEPT ![j] = 1]
          /\ todo' = [todo EXCEPT ![j] = Tail(@)]
          /\ Move(j, "idle")

Succeed(j) ==
  /\ ResetLocals(j)
  /\ attempt' = [attempt EXCEPT ![j] = 1]
  /\ todo' = [todo EXCEPT ![j] = Tail(@)]
  /\ Move(j, "idle")
  /\ completed' = completed \cup {Current(j)}

(* The loop over the tracks of a star request. *)
NextTrack(j) ==
  /\ at[j] = "idle" /\ todo[j] # <<>>
  /\ Move(j, "resolve")
  /\ UNCHANGED <<files, todo, attempt, locals, history>>

JobEnds(j) ==
  /\ at[j] = "idle" /\ todo[j] = <<>>
  /\ Move(j, "done")
  /\ UNCHANGED <<files, todo, attempt, locals, history>>

(* The wait before a retry ends with the track tried again. *)
Retry(j) ==
  /\ at[j] = "wait"
  /\ Move(j, "resolve")
  /\ UNCHANGED <<files, todo, attempt, locals, history>>

(* Or it is cut short by the context. *)
GiveUp(j) ==
  /\ at[j] = "wait"
  /\ todo' = [todo EXCEPT ![j] = Tail(@)]
  /\ attempt' = [attempt EXCEPT ![j] = 1]
  /\ Move(j, "idle")
  /\ UNCHANGED <<files, locals, history>>

(* ResolveStream, for the next of the requested qualities or for the       *)
(* provider's own choice.                                                  *)
Asked(j) ==
  IF DownloadQualities = <<>> THEN Qualities(NoQuality, FALSE)
  ELSE Qualities(DownloadQualities[tried[j] + 1], TRUE)

(* downloadExt: by the content type of GetTrack, or else by the media URL, *)
(* if it has an extension; a DASH stream has no URL.                       *)
DownloadExts(track, q) == IF track.content = "flac" THEN {"flac"} ELSE {ExtOf[q], "flac"}

ResolveWorks(j) ==
  /\ at[j] = "resolve"
  /\ \E r \in Resolutions(Asked(j)), track \in GotTracks :
       /\ r.error = "none"
       /\ format' = [format EXCEPT ![j] = r.format]
       /\ \E e \in DownloadExts(track, r.format) : ext' = [ext EXCEPT ![j] = e]
       /\ NoteMisled(j, r.asked \notin {NoQuality, r.format})
  /\ tried' = [tried EXCEPT ![j] = 0]
  /\ Move(j, "stat")
  /\ UNCHANGED <<files, todo, attempt, part, fd, pos, crashes, completed, overlapped>>

(* On an error the next requested quality is asked for; the last error, if *)
(* there are any, is wrapped in one that is never retried.                 *)
AskNext(j) ==
  /\ at[j] = "resolve"
  /\ tried[j] + 1 < Len(DownloadQualities)
  /\ tried' = [tried EXCEPT ![j] = @ + 1]
  /\ UNCHANGED <<files, at, todo, attempt, format, ext, part, fd, pos, history>>

ResolveErrors(j) ==
  IF DownloadQualities = <<>> THEN {r.error : r \in Resolutions(Asked(j))} \ {"none"}
  ELSE {"unsatisfied"}

ResolveFails(j) ==
  /\ at[j] = "resolve"
  /\ tried[j] + 1 >= Len(DownloadQualities)
  /\ \E e \in ResolveErrors(j) : Fail(j, e)
  /\ UNCHANGED <<files, history>>

(* The file is there already. *)
Stat(j) ==
  /\ at[j] = "stat"
  /\ IF Look(j, AudioOf(j)) # NoFile
     THEN Succeed(j) /\ UNCHANGED overlapped
     ELSE /\ Move(j, "create")
          /\ overlapped' = IF \E k \in Jobs \ {j} : Downloading(k, Current(j))
                           THEN overlapped \cup {Current(j)} ELSE overlapped
          /\ UNCHANGED <<todo, attempt, tried, format, ext, fd, pos, completed>>
          /\ part' = [part EXCEPT ![j] = ext[j]]
  /\ UNCHANGED <<files, crashes, misled>>

(* os.Create, a new file or the one that has the name, emptied; and the    *)
(* byte map of a DASH stream.                                              *)
Create(j) ==
  /\ at[j] = "create"
  /\ LET i == IF Look(j, PartOf(j)) # NoFile THEN Look(j, PartOf(j)) ELSE FreshInode IN
       /\ dir' = Link(j, PartOf(j), i)
       /\ data' = [data EXCEPT ![i] = Empty]
       /\ fd' = [fd EXCEPT ![j] = i]
  /\ \E q \in Mapped(format[j]) :
       /\ format' = [format EXCEPT ![j] = q]
       /\ NoteMisled(j, q # format[j])
  /\ Move(j, "write")
  /\ UNCHANGED <<todo, attempt, tried, ext, part, pos, crashes, completed, overlapped>>

(* MkdirAll or os.Create fails. *)
CreateFails(j) ==
  /\ at[j] = "create"
  /\ Fail(j, "network")
  /\ UNCHANGED <<files, history>>

(* io.Copy of a body, or copyDashBytes of its segments. *)
Write(j) ==
  /\ at[j] = "write"
  /\ pos[j] < Pieces
  /\ \E x \in Served(format[j]) :
       data' = [data EXCEPT ![fd[j]] = [@ EXCEPT ![pos[j] + 1] = x]]
  /\ pos' = [pos EXCEPT ![j] = @ + 1]
  /\ UNCHANGED <<dir, at, todo, attempt, tried, format, ext, part, fd, history>>

(* The media server, the disk or the context fails, or the byte map cannot *)
(* be built.                                                               *)
WriteFails(j) ==
  /\ at[j] = "write"
  /\ RemovePart(j)
  /\ \E e \in MediaErrors : Fail(j, e)
  /\ data' = Kept(dir', fd')
  /\ UNCHANGED <<history>>

MutUnfinished(j) == at[j] = "write"
Written(j) == at[j] = "write" /\ pos[j] = Pieces

Close(j) ==
  /\ Written(j)
  /\ fd' = [fd EXCEPT ![j] = NoFile]
  /\ pos' = [pos EXCEPT ![j] = 0]
  /\ format' = [format EXCEPT ![j] = "none"]
  /\ data' = Kept(dir, fd')
  /\ Move(j, "detect")
  /\ UNCHANGED <<dir, todo, attempt, tried, ext, part, history>>

(* detectAudioExtFromFile opens the .part file by its name and looks at    *)
(* its first bytes.                                                        *)
DetectedExts(j) ==
  LET head == data[Look(j, PartOf(j))][1] IN
    CASE head \in Formats -> {ExtOf[head]}
      [] head = "cut"      -> {ext[j]} \cup {ExtOf[q] : q \in Segmented}
      [] head = "hole"     -> {ext[j]}

Detect(j) ==
  /\ at[j] = "detect"
  /\ Look(j, PartOf(j)) # NoFile
  /\ \E e \in DetectedExts(j) : ext' = [ext EXCEPT ![j] = e]
  /\ Move(j, "rename")
  /\ UNCHANGED <<files, todo, attempt, tried, format, part, fd, pos, history>>

(* os.Rename(tmp, targetPath). *)
Rename(j) ==
  /\ at[j] = "rename"
  /\ Look(j, PartOf(j)) # NoFile
  /\ dir' = Moved(j, PartOf(j), AudioOf(j))
  /\ Move(j, "tag")
  /\ data' = Kept(dir', fd)
  /\ UNCHANGED <<todo, attempt, locals, history>>

(* The .part file is gone, or cannot be read or renamed. *)
RenameFails(j) ==
  /\ at[j] \in {"detect", "rename"}
  /\ RemovePart(j)
  /\ Fail(j, "network")
  /\ data' = Kept(dir', fd')
  /\ UNCHANGED <<history>>

(* ffmpeg copies the file to a temporary one, with the tags. *)
Tag(j) ==
  /\ at[j] = "tag"
  /\ LET i == FreshInode IN
       /\ dir' = Link(j, TagOf(j), i)
       /\ data' = [Kept(dir', fd) EXCEPT ![i] = data[Look(j, AudioOf(j))]]
  /\ Move(j, "retag")
  /\ UNCHANGED <<todo, attempt, locals, history>>

(* ffmpeg is missing, there is no cover art, or ffmpeg fails or is killed  *)
(* by the context, and the temporary file is removed.                      *)
TagFails(j) ==
  /\ at[j] = "tag"
  /\ dir' \in {dir, Unlink(j, TagOf(j))}
  /\ data' = Kept(dir', fd)
  /\ Succeed(j)
  /\ UNCHANGED <<crashes, overlapped, misled>>

(* The tagged file replaces the other; the rename fails when another job's *)
(* tagging has removed or used up the temporary file.                      *)
Retag(j) ==
  /\ at[j] = "retag"
  /\ dir' = IF Look(j, TagOf(j)) = NoFile THEN dir
            ELSE Moved(j, TagOf(j), AudioOf(j))
  /\ data' = Kept(dir', fd)
  /\ Succeed(j)
  /\ UNCHANGED <<crashes, overlapped, misled>>

(* The process dies, or ends without waiting for the jobs; the files stay. *)
(* The items are starred again.                                            *)
Crash ==
  /\ crashes < MaxCrashes
  /\ \E j \in Jobs : at[j] \notin {"idle", "done"}
  /\ crashes' = crashes + 1
  /\ at' = [j \in Jobs |-> "idle"]
  /\ todo' = Album
  /\ attempt' = [j \in Jobs |-> 1]
  /\ tried' = [j \in Jobs |-> 0]
  /\ format' = [j \in Jobs |-> "none"]
  /\ ext' = [j \in Jobs |-> "none"]
  /\ part' = [j \in Jobs |-> "none"]
  /\ fd' = [j \in Jobs |-> NoFile]
  /\ pos' = [j \in Jobs |-> 0]
  /\ data' = Kept(dir, fd')
  /\ UNCHANGED <<dir, completed, overlapped, misled>>

Step(j) ==
  \/ NextTrack(j) \/ JobEnds(j) \/ Retry(j) \/ GiveUp(j) \/ ResolveWorks(j) \/ AskNext(j) \/ ResolveFails(j)
  \/ Stat(j) \/ Create(j) \/ CreateFails(j) \/ Write(j) \/ WriteFails(j) \/ Close(j)
  \/ Detect(j) \/ Rename(j) \/ RenameFails(j) \/ Tag(j) \/ TagFails(j) \/ Retag(j)

(* Nothing is left to do, and the server waits for requests. *)
Rest == (\A j \in Jobs : at[j] = "done") /\ UNCHANGED vars

Next == Crash \/ Rest \/ \E j \in Jobs : Step(j)

Spec == Init /\ [][Next]_vars

-------------------------------------------------------------------------------
(* Properties.                                                             *)

(* What a player sees under a final name is all that upstream served of    *)
(* one stream, whatever failed and whenever the process died, as long as   *)
(* no two jobs downloaded the track at the same time: the .part file is    *)
(* renamed only when the copy has ended without an error, and a leftover   *)
(* of a crash is written anew.  It need not be a whole file: segments that *)
(* are cut short pass for a success.                                       *)
SoloDownloadsAreAsServed ==
  \A t \in Tracks \ overlapped, e \in Exts :
    LET i == dir[t][<<"audio", e>>] IN i # NoFile => AsServed(data[i])

(* No failure, retry or race leaves a temporary file behind; only a crash  *)
(* does.                                                                   *)
NoLitter ==
  crashes = 0 /\ (\A j \in Jobs : at[j] = "done") =>
    \A t \in Tracks, e \in Exts : dir[t][<<"part", e>>] = NoFile /\ dir[t][<<"tag", e>>] = NoFile

(* With DHWANI_DOWNLOAD_QUALITY set a file of a track holds another        *)
(* quality only if the instance once served the track in another quality   *)
(* than it was asked for, or a stream of another quality had left the byte *)
(* map: no list of qualities, retry, crash or other job brings one about,  *)
(* although fetchTrackPayload falls back to others for a stream.           *)
OnlyRequestedQualities ==
  DownloadQualities # <<>> =>
    \A t \in Tracks \ misled, n \in Names :
      dir[t][n] # NoFile =>
        ToSet(data[dir[t][n]]) \subseteq ToSet(DownloadQualities) \cup {"cut", "hole"}

(* Every step of a job brings it nearer to its end, whatever upstream does *)
(* to it and whatever the other jobs do: a track is given up, an attempt   *)
(* is used, or the attempt gets further.  Attempts are counted over all    *)
(* the errors of a track, so no failure is retried for ever; that no job   *)
(* is stuck half way is the absence of deadlock.                           *)
Stage(j) ==
  LET written == Len(DownloadQualities) + 4 + Pieces IN
  CASE at[j] \in {"idle", "wait"} -> 0
    [] at[j] = "done"    -> 1
    [] at[j] = "resolve" -> 1 + tried[j]
    [] at[j] = "stat"    -> Len(DownloadQualities) + 2
    [] at[j] = "create"  -> Len(DownloadQualities) + 3
    [] at[j] = "write"   -> Len(DownloadQualities) + 4 + pos[j]
    [] at[j] = "detect"  -> written + 1
    [] at[j] = "rename"  -> written + 2
    [] at[j] = "tag"     -> written + 3
    [] at[j] = "retag"   -> written + 4

Nearer(j) ==
  \/ Len(todo'[j]) < Len(todo[j])
  \/ todo'[j] = todo[j] /\ attempt'[j] > attempt[j]
  \/ todo'[j] = todo[j] /\ attempt'[j] = attempt[j] /\ Stage(j)' > Stage(j)

JobsAdvance ==
  [][crashes' = crashes =>
       \A j \in Jobs :
         \/ UNCHANGED <<at[j], todo[j], attempt[j], tried[j], pos[j]>>
         \/ Nearer(j)]_vars

(* When all is over, a track that was reported as downloaded is there as a *)
(* whole file.  It need not be: the .part file two jobs write is renamed   *)
(* by the first, and what the second has not rewritten stays empty if it   *)
(* fails.                                                                  *)
DownloadedIsWhole ==
  (\A j \in Jobs : at[j] = "done") =>
    \A t \in completed :
      /\ \E e \in Exts : dir[t][<<"audio", e>>] # NoFile
      /\ \A e \in Exts : LET i == dir[t][<<"audio", e>>] IN i # NoFile => Whole(data[i])
===============================================================================

----------------------------- MODULE SquidStream -----------------------------
(***************************************************************************)
(* What the squid provider makes of its instance's answers about one track *)
(* (internal/provider/squid/provider.go): fetchTrackPayload tries a list   *)
(* of qualities, ResolveStream makes a stream of the first that is         *)
(* answered, and GetTrack puts a track together from several endpoints.    *)
(* Pure definitions, for the modules that ask a provider.                  *)
(***************************************************************************)
EXTENDS Integers, Sequences, FiniteSets, SequencesExt

CONSTANTS
  StreamQuality,  \* the configured quality
  Formats         \* the qualities of the payloads an instance may serve

(* The empty string: the instance chooses the quality.  As a preference it *)
(* stands for a context without one.                                       *)
NoQuality == ""

(* What the instance says when asked for one quality: a payload of a part  *)
(* of the track, a payload without a manifest of use, 404, a refusal (400, *)
(* 401, 403), another status, no answer, or a payload of the whole track   *)
(* in some quality, which nothing compares with the one asked for.         *)
Refusals == {"preview", "unusable", "missing", "refused", "failed", "network"}
Answers  == Refusals \cup Formats

ASSUME FormatsAreAnswers == Formats \cap Refusals = {} /\ IsFiniteSet(Formats)

(* What ResolveStream makes of it. *)
Errors == {"nofull", "notfound", "failed", "network"}

(* The list without repetitions, in the order of first appearance: what    *)
(* stands at the places where something is seen for the first time.        *)
FirstSeen(s) == {i \in DOMAIN s : \A k \in 1..(i - 1) : s[k] # s[i]}
AtPlaces(s, places) ==
  [n \in 1..Cardinality(places) |->
     s[CHOOSE i \in places : Cardinality(places \cap (1..i)) = n]]
Distinct(s) == AtPlaces(s, FirstSeen(s))

CandidateQualities(preferred) == Distinct(<<preferred, NoQuality, "HIGH", "LOSSLESS", "LOW">>)

(* The qualities tried, in order.  A strict context without a preference   *)
(* is not strict.                                                          *)
MutLenient(preferred, strict) ==
  CandidateQualities(IF preferred = NoQuality THEN StreamQuality ELSE preferred)
Qualities(preferred, strict) ==
  IF strict /\ preferred # NoQuality THEN <<preferred>>
  ELSE CandidateQualities(IF preferred = NoQuality THEN StreamQuality ELSE preferred)

(* isRetryableProviderStatus: the next quality is tried. *)
TriesNext(answer) == answer \in {"missing", "refused"}

(* The index of the quality the loop ends with: the first that is not      *)
(* refused, or else the last.                                              *)
Ending(s, world) ==
  CHOOSE i \in 1..Len(s) :
    /\ \A j \in 1..(i - 1) : TriesNext(world[s[j]])
    /\ i = Len(s) \/ ~TriesNext(world[s[i]])

(* ResolveStream: the quality asked for and the one served, or the error.  *)
Failure(answer) ==
  CASE answer = "preview"                 -> "nofull"
    [] answer = "missing"                 -> "notfound"
    [] answer = "network"                 -> "network"
    [] answer \in {"unusable", "refused", "failed"} -> "failed"

Resolve(s, world) ==
  LET q == s[Ending(s, world)] IN
    IF world[q] \in Formats
    THEN [error |-> "none", asked |-> q, format |-> world[q]]
    ELSE [error |-> Failure(world[q]), asked |-> NoQuality, format |-> NoQuality]

(* Everything it may return for a list of qualities, whatever the instance *)
(* says.                                                                   *)
Resolutions(s) == {Resolve(s, world) : world \in [ToSet(s) -> Answers]}

-------------------------------------------------------------------------------
(* GetTrack.  Of a track only its content type is kept: FLAC, which is     *)
(* also the default, one that names no audio format (the type of a         *)
(* manifest), or none yet.  A payload without an id makes an empty track.  *)
EmptyTrack   == [id |-> FALSE, content |-> ""]
ContentTypes == {"flac", "opaque"}

(* What an endpoint says: an error, a payload without an id, or one with. *)
Payloads == [answered : {FALSE}, id : {FALSE}, content : {""}]
            \cup [answered : {TRUE}, id : BOOLEAN, content : ContentTypes]

normalizeTrackMap(p) == IF p.id THEN [id |-> TRUE, content |-> p.content] ELSE EmptyTrack

(* The first track wins, field by field. *)
mergeTrackFields(base, fallback) ==
  [id |-> base.id \/ fallback.id,
   content |-> IF base.content # "" THEN base.content ELSE fallback.content]

(* The info endpoint, then the payload of a stream, then a track without   *)
(* metadata; the search that follows knows no content type.  There is no   *)
(* error whatever the instance says.                                       *)
GetTrack(info, stream) ==
  LET described == IF info.answered THEN normalizeTrackMap(info) ELSE EmptyTrack
      streamed  == IF ~stream.answered THEN described
                   ELSE mergeTrackFields(described,
                          [id |-> stream.id, content |-> stream.content])
  IN  IF streamed.id THEN streamed ELSE [id |-> TRUE, content |-> "flac"]

GotTracks == {GetTrack(info, stream) : info, stream \in Payloads}
===============================================================================

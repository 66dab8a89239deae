------------------------------ MODULE DashStream ------------------------------
(***************************************************************************)
(* Serving a stream (internal/httpapi: handlers.go stream, dash_stream.go).*)
(*                                                                         *)
(* A DASH manifest lists segments of a file.  The server asks upstream for *)
(* the length of each, keeps the resulting byte map in dashCache, and      *)
(* answers a Range request on the whole file with pieces of the segments.  *)
(* Bytes are <<stream, segment, offset>>, so that a byte served at the     *)
(* wrong place is seen; a URL is <<manifest, segment>>.                    *)
(***************************************************************************)
EXTENDS Integers, Sequences, FiniteSets

CONSTANTS
  Requests,      \* requests to /stream, one for each member
  Manifests,     \* what ResolveStream may return with a DASH manifest
  Timeline,      \* the S elements of each manifest, <<d, r>>
  StartNumber,   \* its startNumber attribute
  StreamOf,      \* the file whose segments its URLs serve
  Hash,          \* its manifestHash, with the provider and the track, or NoHash
  NoHash,        \* the provider gave no manifestHash
  Prefix,        \* the first 64 characters of the manifest, with the same
  Size,          \* the bytes of each segment of each file; 0 is the initialization
  Headers,       \* the Range headers each request may carry: [kind, a, b]
  ProbeAnswers,  \* how upstream answers probeContentLength
  MaxSegments,   \* maxDashSegments
  NoMap          \* no entry in the cache

Streams == {StreamOf[m] : m \in Manifests}

(* dashCacheKey. *)
KeyOf(m) == IF Hash[m] # NoHash THEN <<"hash", Hash[m]>> ELSE <<"start", Prefix[m]>>
Keys     == {KeyOf(m) : m \in Manifests}

(* A Range header is none, a suffix of a bytes, from a on, from a to b, or *)
(* unsupported: of another unit, of several ranges, malformed or with a    *)
(* number beyond 64 bits.  A start has no sign, the other numbers may.     *)
RangeHeader == [kind : {"none", "unsupported", "suffix", "from", "span"}, a : Int, b : Int]

ASSUME DashAssumption ==
  /\ MaxSegments \in Nat
  /\ \A m \in Manifests : StartNumber[m] \in Int /\ Timeline[m] \in Seq(Int \X Int)
  /\ \A s \in Streams : DOMAIN Size[s] \subseteq Nat /\ \A n \in DOMAIN Size[s] : Size[s][n] \in Nat \ {0}
  /\ \A j \in Requests : Headers[j] \subseteq RangeHeader
  /\ \A j \in Requests : \A h \in Headers[j] : h.kind \in {"from", "span"} => h.a >= 0
  /\ ProbeAnswers \subseteq {"head", "total", "length", "unknown", "silent", "fails"}

-------------------------------------------------------------------------------
(* parseDashPlan: the segments of a manifest, the initialization first.    *)
(* A definition named Mut... below is a slip the code could have made in   *)
(* the definition that follows it; the runs show that it breaks a property.*)

MutCount(m) ==
  LET upTo[i \in 0..Len(Timeline[m])] == IF i = 0 THEN 0 ELSE upTo[i - 1] + Timeline[m][i][2]
  IN  upTo[Len(Timeline[m])]
Count(m) ==
  LET upTo[i \in 0..Len(Timeline[m])] == IF i = 0 THEN 0 ELSE upTo[i - 1] + Timeline[m][i][2] + 1
  IN  upTo[Len(Timeline[m])]

GoodPlan(m) ==
  /\ \A i \in DOMAIN Timeline[m] : Timeline[m][i][1] > 0 /\ Timeline[m][i][2] >= 0
  /\ Count(m) \in 1..MaxSegments

(* An absent startNumber is read as 0 and stands for 1, the default of the *)
(* standard; a manifest that says 0 is taken for one that says nothing.    *)
FirstNumber(m) == IF StartNumber[m] <= 0 THEN 1 ELSE StartNumber[m]
Plan(m) == <<0>> \o [i \in 1..Count(m) |-> FirstNumber(m) + i - 1]

(* The segments the manifest means, by the DASH standard: one for each S   *)
(* element and one more for each of its repetitions, counted from where    *)
(* the code starts to count.                                               *)
Repeats(m)   == UNION {{i} \X (0..Timeline[m][i][2]) : i \in DOMAIN Timeline[m]}
Announced(m) == {0} \cup FirstNumber(m)..(FirstNumber(m) - 1 + Cardinality(Repeats(m)))

(* Upstream has the segments its manifests list. *)
ASSUME SegmentsExist ==
  \A m \in Manifests : GoodPlan(m) => Announced(m) \subseteq DOMAIN Size[StreamOf[m]]

(* Manifests with one manifestHash are of one file.  Of those without one  *)
(* nothing is assumed: the first 64 characters, which stand in for it, need*)
(* not tell files apart.                                                   *)
ASSUME HashesTellFilesApart ==
  \A m, n \in Manifests :
    Hash[m] # NoHash /\ Hash[m] = Hash[n] /\ GoodPlan(m) /\ GoodPlan(n)
    => StreamOf[m] = StreamOf[n] /\ Announced(m) = Announced(n)

-------------------------------------------------------------------------------
(* parseStreamRange.                                                       *)

NoRange   == [ok |-> TRUE, partial |-> FALSE, start |-> 0, end |-> 0]
BadRange  == [ok |-> FALSE, partial |-> FALSE, start |-> 0, end |-> 0]
Span(a, b) == [ok |-> TRUE, partial |-> TRUE, start |-> a, end |-> b]

Least(a, b) == IF a < b THEN a ELSE b

MutUnclamped(n, total) == total - n
SuffixStart(n, total)  == total - Least(n, total)

MutUpToTotal(a, total) == a <= total
InFile(a, total) == a < total

ParseRange(h, total) ==
  CASE h.kind = "none" -> NoRange
    [] h.kind = "unsupported" -> BadRange
    [] h.kind = "suffix" ->
         IF h.a > 0 /\ InFile(SuffixStart(h.a, total), total)
         THEN Span(SuffixStart(h.a, total), total - 1) ELSE BadRange
    [] h.kind = "from" -> IF InFile(h.a, total) THEN Span(h.a, total - 1) ELSE BadRange
    [] h.kind = "span" -> IF h.a <= h.b /\ InFile(h.a, total)
                          THEN Span(h.a, Least(h.b, total - 1)) ELSE BadRange

(* What a supported header asks for, by RFC 9110: the offsets of the file. *)
Supported(h) == h.kind # "unsupported"
Wanted(h, total) ==
  {i \in 0..(total - 1) :
    CASE h.kind = "none"   -> TRUE
      [] h.kind = "suffix" -> i >= total - h.a
      [] h.kind = "from"   -> i >= h.a
      [] h.kind = "span"   -> i >= h.a /\ i <= h.b}

-------------------------------------------------------------------------------
(* Bytes.                                                                  *)

SegmentBytes(s, n) == [k \in 1..Size[s][n] |-> <<s, n, k - 1>>]
Body(url) == SegmentBytes(StreamOf[url[1]], url[2])

(* The bytes of the file, the order they are in, and where each one is.    *)
Bytes(m) ==
  UNION {{<<StreamOf[m], n, k>> : k \in 0..(Size[StreamOf[m]][n] - 1)} : n \in Announced(m)}
Before(b, c) == b[2] < c[2] \/ (b[2] = c[2] /\ b[3] < c[3])
Offset(m, b) == Cardinality({c \in Bytes(m) : Before(c, b)})

(* A byte map: its chunks, and the length of the file. *)
Total(map) == IF map = <<>> THEN 0 ELSE map[Len(map)].end + 1
WithChunk(map, url, n) ==
  Append(map, [url |-> url, start |-> Total(map), end |-> Total(map) + n - 1, length |-> n])

(* The part of a chunk that lies in from..to, counted from its start.      *)
Touches(c, from, to) == ~(to < c.start \/ from > c.end)
LocalStart(c, from) == IF from > c.start THEN from - c.start ELSE 0
LocalEnd(c, to) == IF to < c.end THEN to - c.start ELSE c.length - 1

-------------------------------------------------------------------------------
VARIABLES
  cache, fresh,  \* dashCache, and whether each entry is before its ExpiresAt
  at,            \* where each request is
  manifest,      \* the manifest it resolved
  header,        \* its Range header
  map,           \* the byte map it builds or uses
  next,          \* the next segment to probe, or chunk to copy
  status,        \* the status it answered with; 0 before
  span,          \* from and to of copyDashBytes
  out            \* the bytes it wrote

vars == <<cache, fresh, at, manifest, header, map, next, status, span, out>>
caching == <<cache, fresh>>
asked   == <<manifest, header>>

ByteMaps == Seq([url : Manifests \X Nat, start : Nat, end : Nat, length : Nat])
Spans    == [ok : BOOLEAN, partial : BOOLEAN, start : Nat, end : Nat]

PCs      == {"resolve", "lookup", "probe", "store", "range", "copy", "proxy", "done"}
Statuses == {0, 200, 206, 416, 502}

TypeOK ==
  /\ cache \in [Keys -> {NoMap} \cup (ByteMaps \ {<<>>})]
  /\ fresh \in [Keys -> BOOLEAN]
  /\ at \in [Requests -> PCs]
  /\ manifest \in [Requests -> Manifests]
  /\ header \in [Requests -> RangeHeader]
  /\ map \in [Requests -> ByteMaps]
  /\ next \in [Requests -> Nat \ {0}]
  /\ status \in [Requests -> Statuses]
  /\ span \in [Requests -> Spans]
  /\ out \in [Requests -> Seq(Streams \X Nat \X Nat)]

Init ==
  /\ cache = [k \in Keys |-> NoMap]
  /\ fresh = [k \in Keys |-> FALSE]
  /\ at = [j \in Requests |-> "resolve"]
  /\ manifest \in [Requests -> Manifests]
  /\ header \in {h \in [Requests -> UNION {Headers[j] : j \in Requests}] :
                  \A j \in Requests : h[j] \in Headers[j]}
  /\ map = [j \in Requests |-> <<>>]
  /\ next = [j \in Requests |-> 1]
  /\ status = [j \in Requests |-> 0]
  /\ span = [j \in Requests |-> NoRange]
  /\ out = [j \in Requests |-> <<>>]

Key(j) == KeyOf(manifest[j])
Move(j, pc) == at' = [at EXCEPT ![j] = pc]
Answer(j, code) == status' = [status EXCEPT ![j] = code] /\ Move(j, "done")

(* ResolveStream. *)
Resolve(j) ==
  /\ at[j] = "resolve"
  /\ \/ Move(j, "lookup") /\ UNCHANGED status
     \/ Move(j, "proxy") /\ UNCHANGED status
     \/ Answer(j, 502)
  /\ UNCHANGED <<caching, asked, map, next, span, out>>

(* A stream that is no DASH manifest is asked for with the client's Range  *)
(* header and passed through: status, length and bytes are upstream's.     *)
Proxy(j) ==
  /\ at[j] = "proxy"
  /\ \E code \in {200, 206, 502} : Answer(j, code)
  /\ UNCHANGED <<caching, asked, map, next, span, out>>

(* parseDashPlan, and the lookup of getOrBuildDashMap. *)
Lookup(j) ==
  /\ at[j] = "lookup"
  /\ IF ~GoodPlan(manifest[j])
     THEN Answer(j, 502) /\ UNCHANGED map
     ELSE /\ UNCHANGED status
          /\ IF fresh[Key(j)]
             THEN Move(j, "range") /\ map' = [map EXCEPT ![j] = cache[Key(j)]]
             ELSE Move(j, "probe") /\ UNCHANGED map
  /\ UNCHANGED <<caching, asked, next, span, out>>

(* probeContentLength: the length HEAD tells, or else the total of the     *)
(* Content-Range of a GET for one byte, or else its Content-Length, which  *)
(* is 1 when the total is unknown.  0 stands for an error.                 *)
Probed(answer, url) ==
  CASE answer \in {"head", "total", "length"} -> Len(Body(url))
    [] answer = "unknown"                     -> 1
    [] answer \in {"silent", "fails"}         -> 0

Probe(j) ==
  /\ at[j] = "probe"
  /\ LET url == <<manifest[j], Plan(manifest[j])[next[j]]>> IN
     \E answer \in ProbeAnswers :
       IF Probed(answer, url) = 0
       THEN Answer(j, 502) /\ UNCHANGED <<map, next>>
       ELSE /\ map' = [map EXCEPT ![j] = WithChunk(@, url, Probed(answer, url))]
            /\ next' = [next EXCEPT ![j] = @ + 1]
            /\ Move(j, IF next[j] = Len(Plan(manifest[j])) THEN "store" ELSE "probe")
            /\ UNCHANGED status
  /\ UNCHANGED <<caching, asked, span, out>>

Store(j) ==
  /\ at[j] = "store"
  /\ cache' = [cache EXCEPT ![Key(j)] = map[j]]
  /\ fresh' = [fresh EXCEPT ![Key(j)] = TRUE]
  /\ Move(j, "range")
  /\ UNCHANGED <<asked, map, next, status, span, out>>

(* The header of the reply. *)
Reply(j) ==
  /\ at[j] = "range"
  /\ LET total == Total(map[j])
         r == ParseRange(header[j], total) IN
       IF ~r.ok THEN Answer(j, 416) /\ UNCHANGED <<span, next>>
       ELSE /\ span' = [span EXCEPT ![j] = IF r.partial THEN r ELSE Span(0, total - 1)]
            /\ status' = [status EXCEPT ![j] = IF r.partial THEN 206 ELSE 200]
            /\ next' = [next EXCEPT ![j] = 1]
            /\ Move(j, "copy")
  /\ UNCHANGED <<caching, asked, map, out>>

(* The loop of copyDashBytes. *)
Chunk(j) == map[j][next[j]]
MutStuck(j) == UNCHANGED <<next, at>>
Continue(j) ==
  /\ next' = [next EXCEPT ![j] = @ + 1]
  /\ Move(j, IF next[j] = Len(map[j]) THEN "done" ELSE "copy")

Skip(j) ==
  /\ at[j] = "copy"
  /\ ~Touches(Chunk(j), span[j].start, span[j].end)
  /\ Continue(j)
  /\ UNCHANGED <<caching, asked, map, status, span, out>>

(* copyChunkRange.  Upstream answers 206 with the range, or 200 with the   *)
(* whole segment, of which the beginning is thrown away; a body that ends  *)
(* early but in good order is taken for success.                           *)
MutFromTheStart(body, start) == body
Discarded(body, start) == SubSeq(body, start + 1, Len(body))

Fetch(j) ==
  /\ at[j] = "copy"
  /\ Touches(Chunk(j), span[j].start, span[j].end)
  /\ LET start == LocalStart(Chunk(j), span[j].start)
         end   == LocalEnd(Chunk(j), span[j].end)
         body  == Body(Chunk(j).url) IN
       \E got \in {SubSeq(body, start + 1, end + 1), Discarded(body, start)} :
         \E n \in 0..Least(end - start + 1, Len(got)) :
           out' = [out EXCEPT ![j] = @ \o SubSeq(got, 1, n)]

CopyChunk(j) ==
  /\ Fetch(j)
  /\ Continue(j)
  /\ UNCHANGED <<caching, asked, map, status, span>>

(* Upstream fails before or within the body, or the client is gone: the    *)
(* reply is cut.                                                           *)
CopyFails(j) ==
  /\ Fetch(j)
  /\ Move(j, "done")
  /\ UNCHANGED <<caching, asked, map, next, status, span>>

(* dashCacheTTL is over.  Nothing removes the entry. *)
Expire(k) ==
  /\ fresh[k]
  /\ fresh' = [fresh EXCEPT ![k] = FALSE]
  /\ UNCHANGED <<cache, at, asked, map, next, status, span, out>>

Step(j) ==
  \/ Resolve(j) \/ Proxy(j) \/ Lookup(j) \/ Probe(j) \/ Store(j) \/ Reply(j)
  \/ Skip(j) \/ CopyChunk(j) \/ CopyFails(j)

Answered == (\A j \in Requests : at[j] = "done") /\ UNCHANGED vars

Next == Answered \/ (\E j \in Requests : Step(j)) \/ (\E k \in Keys : Expire(k))

(* Upstream answers, or the client hangs up, which ends the calls made     *)
(* with its context; the stream client itself has no timeout.              *)
Spec == Init /\ [][Next]_vars /\ \A j \in Requests : WF_vars(Step(j))
-------------------------------------------------------------------------------
(* Properties.                                                             *)

(* Upstream told the true length of every segment of the map. *)
Told(j) == map[j] # <<>> /\ \A i \in DOMAIN map[j] : map[j][i].length = Len(Body(map[j][i].url))

Served(j)   == Told(j) /\ status[j] \in {200, 206}
Declared(j) == span[j].end - span[j].start + 1

(* The manifest the map was made from, by this request or another one.     *)
Source(j)     == map[j][1].url[1]
FileLength(j) == Cardinality(Bytes(Source(j)))
Slice(j) ==
  {b \in Bytes(Source(j)) : Offset(Source(j), b) \in Wanted(header[j], FileLength(j))}

InOrder(s) == \A x, y \in DOMAIN s : x < y => Before(s[x], s[y])

(* A reply is a part of one file: the Content-Length declared is the       *)
(* number of bytes the client wants of it, never more is written, and only *)
(* bytes it wants, each once and in the order of the file; a reply that is *)
(* not cut short has them all: whichever request built the map and from    *)
(* whichever manifest, and whether upstream answers a chunk request with   *)
(* 206 or 200.  A chunk that is too short, which copyChunkRange takes for  *)
(* success, leaves the reply cut short, so the client's HTTP library can   *)
(* tell.  The file is the one resolved if its manifest has a manifestHash; *)
(* without one it may be that of a manifest that begins alike.             *)
RepliesAreSlices ==
  \A j \in Requests : Served(j) =>
    /\ Declared(j) = Cardinality(Wanted(header[j], FileLength(j)))
    /\ Len(out[j]) <= Declared(j)
    /\ LET written == {out[j][x] : x \in DOMAIN out[j]} IN
         /\ InOrder(out[j]) /\ written \subseteq Slice(j)
         /\ Len(out[j]) = Declared(j) => written = Slice(j)
    /\ Hash[manifest[j]] # NoHash => Bytes(Source(j)) = Bytes(manifest[j])

(* Of the headers the code supports, 416 is the answer to exactly those    *)
(* that ask for nothing of the file, and 206 to those that ask for a part: *)
(* a suffix may be longer than the file, and a range may end beyond it.    *)
(* The others are refused with 416 too, and never taken for a part.        *)
RangesAreAnswered ==
  \A j \in Requests :
    /\ Told(j) /\ status[j] = 416 /\ Supported(header[j]) => Wanted(header[j], FileLength(j)) = {}
    /\ Served(j) => /\ Supported(header[j])
                    /\ Wanted(header[j], FileLength(j)) # {}
                    /\ status[j] = 206 <=> header[j].kind # "none"

(* A cached byte map lists the segments its manifest announces, end to     *)
(* end, with their true lengths, whoever of several builders stored it     *)
(* and even if some of their probes failed.  The exception is a segment    *)
(* whose total length upstream does not tell ("bytes 0-0/*"): it gets the  *)
(* length 1 of the reply to the probe.                                     *)
CachedMapsFit ==
  \A k \in Keys : cache[k] # NoMap =>
    \E m \in Manifests :
      /\ KeyOf(m) = k
      /\ {cache[k][i].url[2] : i \in DOMAIN cache[k]} = Announced(m)
      /\ \A i \in DOMAIN cache[k] :
           LET c == cache[k][i] IN
             /\ c.url[1] = m
             /\ c.length = Len(Body(c.url)) \/ c.length = Probed("unknown", c.url)
             /\ c.end = c.start + c.length - 1
             /\ c.start = IF i = 1 THEN 0 ELSE cache[k][i - 1].end + 1

(* Every request is answered, and its answer ends. *)
RequestsEnd == \A j \in Requests : <>(at[j] = "done")
===============================================================================

-------------------------- MODULE TrackLibraryProofs --------------------------
(***************************************************************************)
(* What TLAPS proves of TrackLibrary, for any number of providers, tracks, *)
(* albums, artists and goroutines: its types, its three invariants and two *)
(* of its action properties.                                               *)
(*                                                                         *)
(* AlbumTable is about album_metadata alone, which only an upsert and a    *)
(* delete change.  JobsSound says what a goroutine may be doing where and  *)
(* with which metadata, and TablesTyped what the rows and entries it reads *)
(* and writes may be; neither is inductive without the other.  QuietInv    *)
(* rests on all three.                                                     *)
(***************************************************************************)
EXTENDS TrackLibrary, FiniteSetTheorems, TLAPS

RowQualities == {"absent", "partial", "complete"}

AlbumTable ==
  /\ albumRow \in [Mirrors \X AlbumIds -> RowQualities]
  /\ \A a \in AlbumIds : \A m, n \in AlbumRows(a) : m = n

(* An album write puts "partial" or "complete" in one row, which it takes  *)
(* from the rows the album has if there are any.                           *)
LEMMA UpsertKeepsTable ==
  ASSUME AlbumTable, NEW j, UpsertAlbum(j)
  PROVE  AlbumTable'
<1> DEFINE a == HomeAlbum(j)
<1>1. PICK m, target, new :
        /\ target \in Targets(a, m)
        /\ new \in {"partial", "complete"}
        /\ albumRow' = [albumRow EXCEPT ![<<target, a>>] = Merged(@, new)]
  BY DEF UpsertAlbum
<1>2. Merged(albumRow[<<target, a>>], new) \in RowQualities
  BY <1>1 DEF Merged, RowQualities
<1>3. albumRow' \in [Mirrors \X AlbumIds -> RowQualities]
  BY <1>1, <1>2 DEF AlbumTable
<1>4. ASSUME NEW b \in AlbumIds, NEW p \in AlbumRows(b)', NEW q \in AlbumRows(b)'
      PROVE  p = q
  <2>1. CASE b # a
    <3>1. \A n \in Mirrors : albumRow'[<<n, b>>] = albumRow[<<n, b>>]
      BY <1>1, <2>1 DEF AlbumTable
    <3>2. QED
      BY <3>1 DEF AlbumRows, AlbumTable
  <2>2. CASE b = a
    <3>1. \A n \in Mirrors : n # target => albumRow'[<<n, b>>] = albumRow[<<n, b>>]
      BY <1>1 DEF AlbumTable
    <3>2. \A n \in AlbumRows(b)' : n = target \/ n \in AlbumRows(b)
      BY <3>1 DEF AlbumRows
    <3>3. CASE AlbumRows(a) = {}
      BY <2>2, <3>2, <3>3
    <3>4. CASE AlbumRows(a) # {}
      BY <1>1, <2>2, <3>2, <3>4 DEF Targets, AlbumTable
    <3>5. QED
      BY <3>3, <3>4
  <2>3. QED
    BY <2>1, <2>2
<1>5. QED
  BY <1>3, <1>4 DEF AlbumTable

(* Unstarring removes rows and adds none. *)
LEMMA DeleteKeepsTable ==
  ASSUME AlbumTable, NEW j, Delete(j)
  PROVE  AlbumTable'
<1>1. albumRow' = [k \in Mirrors \X AlbumIds |->
                     IF DeletesAlbum(job[j].item, k[2]) THEN "absent" ELSE albumRow[k]]
  BY DEF Delete
<1>2. albumRow' \in [Mirrors \X AlbumIds -> RowQualities]
  BY <1>1 DEF AlbumTable, RowQualities
<1>3. \A b \in AlbumIds : AlbumRows(b)' \subseteq AlbumRows(b)
  <2>1. \A n \in Mirrors, b \in AlbumIds :
          albumRow'[<<n, b>>] =
            IF DeletesAlbum(job[j].item, b) THEN "absent" ELSE albumRow[<<n, b>>]
    BY <1>1
  <2>2. QED
    BY <2>1 DEF AlbumRows
<1>4. QED
  BY <1>2, <1>3 DEF AlbumTable

(* Every other step leaves the table alone. *)
LEMMA OthersKeepRows ==
  ASSUME [Next]_vars, ~(\E j \in Jobs : UpsertAlbum(j) \/ Delete(j))
  PROVE  albumRow' = albumRow
<1>1. CASE UNCHANGED vars
  BY <1>1 DEF vars
<1>2. CASE \E j \in Jobs, r \in Requests : Begin(j, r[1], r[2])
  BY <1>2 DEF Begin
<1>3. CASE \E t \in Tracks : Expire(t)
  BY <1>3 DEF Expire
<1>4. ASSUME NEW j \in Jobs, Step(j)
      PROVE  albumRow' = albumRow
  BY <1>4 DEF Step, Lookup, EvictStale, Remember, ReadRows, FetchRich, FetchPoor, PlayPoor,
              ListLive, ListFails, EnsureAlbum, AlbumWriteFails, UpsertTrack,
              TrackWriteFails, Star, StarFails, Unstar, UnstarFails, DeleteFails, Forget
<1>5. QED
  BY <1>1, <1>2, <1>3, <1>4 DEF Next

LEMMA TableIsInvariant == Spec => []AlbumTable
<1>1. Init => AlbumTable
  BY DEF Init, AlbumTable, AlbumRows, RowQualities
<1>2. AlbumTable /\ [Next]_vars => AlbumTable'
  <2> SUFFICES ASSUME AlbumTable, [Next]_vars
               PROVE  AlbumTable'
    OBVIOUS
  <2>1. CASE \E j \in Jobs : UpsertAlbum(j)
    BY <2>1, UpsertKeepsTable
  <2>2. CASE \E j \in Jobs : Delete(j)
    BY <2>2, DeleteKeepsTable
  <2>3. CASE ~(\E j \in Jobs : UpsertAlbum(j) \/ Delete(j))
    <3>1. albumRow' = albumRow
      BY <2>3, OthersKeepRows
    <3>2. QED
      BY <3>1 DEF AlbumTable, AlbumRows
  <2>4. QED
    BY <2>1, <2>2, <2>3
<1>3. QED
  BY <1>1, <1>2, PTL DEF Spec

(* album_metadata never has two rows for one album id, whichever provider  *)
(* each write names.                                                       *)
THEOREM AlbumRowsAreUnique == Spec => []OneAlbumRow
<1>1. AlbumTable => OneAlbumRow
  <2> SUFFICES ASSUME AlbumTable, NEW a \in AlbumIds
               PROVE  Cardinality(AlbumRows(a)) <= 1
    BY DEF OneAlbumRow
  <2>1. CASE AlbumRows(a) = {}
    BY <2>1, FS_EmptySet
  <2>2. CASE AlbumRows(a) # {}
    <3>1. PICK m : m \in AlbumRows(a)
      BY <2>2
    <3>2. AlbumRows(a) = {m}
      BY <3>1 DEF AlbumTable
    <3>3. QED
      BY <3>2, FS_Singleton
  <2>3. QED
    BY <2>1, <2>2
<1>2. QED
  BY <1>1, TableIsInvariant, PTL

-------------------------------------------------------------------------------
(* The jobs: what a goroutine may be doing where, with what.               *)

LookupPCs == {"exact", "evict", "raw", "any", "anyEvict", "anyRaw", "rows", "fetch"}
WritePCs  == {"remember", "album", "albumRow", "trackRow"}
AddingOps == {"star", "getSong", "play", "getAlbum", "search"}
UnstarPCs == {"unstarRow", "delete", "forget"}

Fits(op, item, pc) ==
  \/ op = "star" /\ pc = "starRow" /\ item \in Items
  \/ op \in {"star", "getSong", "play"} /\ pc \in LookupPCs /\ item \in Tracks
  \/ op \in {"star", "getAlbum", "search"} /\ pc = "list" /\ item \in Albums \cup {NoItem}
  \/ op \in AddingOps /\ pc \in WritePCs /\ item \in Items \cup {NoItem}
  \/ op = "unstar" /\ pc \in {"unstarRow", "delete"} /\ item \in Items
  \/ op = "unstar" /\ pc = "forget" /\ item \in Tracks

(* A job has found metadata of what its request is about only, it writes   *)
(* only when it has found some, and a play writes no placeholder.          *)
SoundFinds(op, item, pc, found) ==
  /\ found \in [Tracks -> Meta \cup {NoMeta}]
  /\ \A t \in Tracks : found[t] # NoMeta => Related(item, t)
  /\ pc \in WritePCs => \E t \in Tracks : found[t] # NoMeta
  /\ op = "play" =>
       \A t \in Tracks : found[t].data = "synthetic" => t = item /\ pc \notin WritePCs

Sound(r) ==
  /\ r = [op |-> r.op, item |-> r.item, at |-> r.at, found |-> r.found]
  /\ Fits(r.op, r.item, r.at)
  /\ SoundFinds(r.op, r.item, r.at, r.found)

JobsSound ==
  /\ job = [j \in Jobs |-> job[j]]
  /\ \A j \in Jobs : job[j] = Idle \/ Sound(job[j])

LEMMA AboveIs ==
  /\ \A t \in Tracks : Above(t) = {AlbumOf[t], ArtistOf[AlbumOf[t]]}
  /\ \A a \in Albums : Above(a) = {ArtistOf[a]}
  /\ \A x : x \notin Tracks \cup Albums => Above(x) = {}
<1>1. Tracks \cap Albums = {}
  BY LibraryAssumption
<1>2. QED
  BY <1>1, Zenon DEF Above

(* A job that moves on.                                                    *)
LEMMA HoldingIsSound ==
  ASSUME JobsSound, NEW j \in Jobs, NEW found, NEW pc, Holding(j, found, pc),
         Fits(job[j].op, job[j].item, pc), SoundFinds(job[j].op, job[j].item, pc, found)
  PROVE  JobsSound'
<1> DEFINE r == [op |-> job[j].op, item |-> job[j].item, at |-> pc, found |-> found]
<1>1. job' = [job EXCEPT ![j] = r]
  BY DEF Holding
<1>2. Sound(r)
  BY DEF Sound
<1> HIDE DEF r
<1>3. job' = [i \in Jobs |-> job'[i]] /\ job'[j] = r /\ \A i \in Jobs : i # j => job'[i] = job[i]
  BY <1>1 DEF JobsSound
<1>4. ASSUME NEW i \in Jobs
      PROVE  job'[i] = Idle \/ Sound(job'[i])
  BY <1>2, <1>3 DEF JobsSound
<1>5. QED
  BY <1>3, <1>4 DEF JobsSound, Sound, Idle, Nothing

LEMMA EndIsSound ==
  ASSUME JobsSound, NEW j \in Jobs, End(j)
  PROVE  JobsSound'
<1>1. job' = [i \in Jobs |-> job'[i]] /\ job'[j] = Idle /\ \A i \in Jobs : i # j => job'[i] = job[i]
  BY DEF End, JobsSound
<1>2. QED
  BY <1>1 DEF JobsSound, Sound, Idle, Nothing

LEMMA AtIsSound ==
  ASSUME JobsSound, NEW j \in Jobs, job[j].at # "idle"
  PROVE  Sound(job[j])
BY DEF JobsSound, Idle

LEMMA GotoIsSound ==
  ASSUME JobsSound, NEW j \in Jobs, NEW pc, Goto(j, pc), job[j].at # "idle",
         Fits(job[j].op, job[j].item, pc), pc \in WritePCs => job[j].at \in WritePCs
  PROVE  JobsSound'
<1>1. Sound(job[j])
  BY AtIsSound
<1>2. SoundFinds(job[j].op, job[j].item, pc, job[j].found)
  BY <1>1 DEF Sound, SoundFinds
<1>3. QED
  BY <1>2, HoldingIsSound DEF Goto

(* A lookup or a provider finds metadata of the track asked for.           *)
LEMMA FoundIsSound ==
  ASSUME JobsSound, NEW j \in Jobs, NEW pc \in WritePCs \cup {"fetch"}, NEW meta \in Meta,
         job[j].at \in LookupPCs, Found(j, meta, pc),
         job[j].op = "play" /\ meta.data = "synthetic" => pc = "fetch"
  PROVE  JobsSound'
<1> DEFINE t == job[j].item
           found == [job[j].found EXCEPT ![t] = meta]
<1>1. Sound(job[j])
  BY AtIsSound DEF LookupPCs
<1>2. t \in Tracks /\ job[j].op \in {"star", "getSong", "play"}
  BY <1>1 DEF Sound, Fits, LookupPCs, WritePCs
<1>3. job[j].found \in [Tracks -> Meta \cup {NoMeta}]
  BY <1>1 DEF Sound, SoundFinds
<1>4. /\ found \in [Tracks -> Meta \cup {NoMeta}] /\ found[t] = meta
      /\ \A u \in Tracks : u # t => found[u] = job[j].found[u]
  BY <1>2, <1>3
<1>5. meta # NoMeta
  BY DEF Meta, NoMeta, Known
<1>6. Fits(job[j].op, t, pc)
  BY <1>2 DEF Fits, AddingOps, LookupPCs, Items
<1>7. SoundFinds(job[j].op, t, pc, found)
  <2> HIDE DEF found
  <2>1. \A u \in Tracks : found[u] # NoMeta => Related(t, u)
    BY <1>1, <1>4 DEF Sound, SoundFinds, Related
  <2>2. job[j].op = "play" =>
          \A u \in Tracks : found[u].data = "synthetic" => u = t /\ pc \notin WritePCs
    BY <1>1, <1>4 DEF Sound, SoundFinds, WritePCs
  <2>3. QED
    BY <1>2, <1>4, <1>5, <2>1, <2>2 DEF SoundFinds
<1>8. QED
  BY <1>6, <1>7, HoldingIsSound DEF Found

LEMMA HitIsSound ==
  ASSUME JobsSound, NEW j \in Jobs, NEW meta \in Meta, job[j].at \in LookupPCs, Hit(j, meta)
  PROVE  JobsSound'
<1>1. CASE Runs(j, {"star"}) /\ Found(j, meta, "album")
  BY <1>1, FoundIsSound DEF Runs, WritePCs
<1>2. CASE Runs(j, {"play"}) /\ Found(j, meta, "fetch")
  BY <1>2, FoundIsSound
<1>3. CASE Runs(j, {"getSong"}) /\ \E m \in Mirrors : Found(j, [meta EXCEPT !.from = m], "remember")
  <2>1. PICK m \in Mirrors : Found(j, [meta EXCEPT !.from = m], "remember")
    BY <1>3
  <2>2. [meta EXCEPT !.from = m] \in Meta
    BY DEF Meta
  <2>3. QED
    BY <1>3, <2>1, <2>2, FoundIsSound DEF Runs, WritePCs
<1>4. QED
  BY <1>1, <1>2, <1>3 DEF Hit

LEMMA MissLooksElsewhere ==
  ASSUME NEW j, job[j].at \in {"exact", "evict", "raw", "any", "anyEvict", "anyRaw"}
  PROVE  OnMiss(j) \in LookupPCs
<1>1. CASE job[j].at \in {"exact", "evict"}
  BY <1>1 DEF OnMiss, At, LookupPCs
<1>2. CASE job[j].at = "raw"
  BY <1>2 DEF OnMiss, At, LookupPCs
<1>3. CASE job[j].at \in {"any", "anyEvict"}
  BY <1>3 DEF OnMiss, At, LookupPCs
<1>4. CASE job[j].at = "anyRaw"
  BY <1>4 DEF OnMiss, At, LookupPCs
<1>5. QED
  BY <1>1, <1>2, <1>3, <1>4

LEMMA LookingOnIsSound ==
  ASSUME JobsSound, NEW j \in Jobs, NEW pc \in LookupPCs, job[j].at \in LookupPCs, Goto(j, pc)
  PROVE  JobsSound'
<1>1. Sound(job[j])
  BY AtIsSound DEF LookupPCs
<1>2. Fits(job[j].op, job[j].item, pc)
  BY <1>1 DEF Sound, Fits, LookupPCs, WritePCs
<1>3. QED
  BY <1>2, GotoIsSound DEF LookupPCs, WritePCs

(* The tables and the map `recent`.                                        *)
TablesTyped ==
  /\ starred \subseteq Mirrors \X Items
  /\ trackRow \in [Mirrors \X Tracks -> Known \cup {"absent"}]
  /\ recent \in [Tracks -> [meta : Meta, fresh : BOOLEAN] \cup {NoEntry}]
  /\ unstarred \in [Items -> {"no", "busy", "quiet"}]

LEMMA FreshIsFound ==
  ASSUME TablesTyped, NEW t \in Tracks, recent[t].fresh
  PROVE  recent[t].meta \in Meta
BY DEF TablesTyped, NoEntry

LEMMA RowIsMeta ==
  ASSUME TablesTyped, NEW t \in Tracks, NEW m \in TrackRows(t)
  PROVE  RowMeta(m, t) \in Meta
<1>1. trackRow[<<m, t>>] \in Known
  BY DEF TablesTyped, TrackRows
<1>2. QED
  BY <1>1 DEF RowMeta, Meta, TrackRows

LEMMA BeginIsSound ==
  ASSUME JobsSound, NEW j \in Jobs, NEW r \in Requests, Begin(j, r[1], r[2])
  PROVE  JobsSound'
<1> DEFINE op == r[1]
           item == r[2]
           new == [op |-> op, item |-> item, at |-> First(op, item), found |-> Nothing]
<1>1. job' = [job EXCEPT ![j] = new]
  BY DEF Begin
<1>2. \/ op \in TrackOps /\ item \in Tracks
      \/ op \in AlbumOps /\ item \in Albums
      \/ op \in ArtistOps /\ item \in Artists
      \/ op = "search" /\ item = NoItem
  BY LibraryAssumption
<1>3. Fits(op, item, First(op, item)) /\ First(op, item) \notin WritePCs
  <2>1. CASE op = "star"
    BY <1>2, <2>1 DEF First, Fits, WritePCs, Items, ArtistOps, AlbumOps, TrackOps
  <2>2. CASE op = "unstar"
    BY <1>2, <2>2 DEF First, Fits, WritePCs, Items, ArtistOps, AlbumOps, TrackOps
  <2>3. CASE op = "getSong"
    BY <1>2, <2>3 DEF First, Fits, WritePCs, LookupPCs, ArtistOps, AlbumOps, TrackOps
  <2>4. CASE op = "play"
    BY <1>2, <2>4 DEF First, Fits, WritePCs, LookupPCs, ArtistOps, AlbumOps, TrackOps
  <2>5. CASE op \in {"getAlbum", "search"}
    <3>1. First(op, item) = "list"
      BY <2>5, Zenon DEF First
    <3>2. QED
      BY <1>2, <2>5, <3>1 DEF Fits, WritePCs, ArtistOps, AlbumOps, TrackOps
  <2>6. QED
    BY <1>2, <2>1, <2>2, <2>3, <2>4, <2>5 DEF ArtistOps, AlbumOps, TrackOps
<1>4. SoundFinds(op, item, First(op, item), Nothing)
  BY <1>3 DEF SoundFinds, Nothing, NoMeta
<1>5. Sound(new)
  BY <1>3, <1>4 DEF Sound
<1> HIDE DEF new
<1>6. job' = [i \in Jobs |-> job'[i]] /\ job'[j] = new /\ \A i \in Jobs : i # j => job'[i] = job[i]
  BY <1>1 DEF JobsSound
<1>7. ASSUME NEW i \in Jobs
      PROVE  job'[i] = Idle \/ Sound(job'[i])
  BY <1>5, <1>6 DEF JobsSound
<1>8. QED
  BY <1>6, <1>7 DEF JobsSound, Sound, Idle, Nothing

LEMMA ListIsSound ==
  ASSUME JobsSound, NEW j \in Jobs, job[j].at = "list", NEW found,
         Holding(j, found, "remember"), found \in [Tracks -> Meta \cup {NoMeta}],
         \A t \in Tracks : found[t] # NoMeta => Related(job[j].item, t),
         \E t \in Tracks : found[t] # NoMeta
  PROVE  JobsSound'
<1>1. Sound(job[j])
  BY AtIsSound
<1>2. job[j].op \in {"star", "getAlbum", "search"} /\ job[j].item \in Albums \cup {NoItem}
  BY <1>1 DEF Sound, Fits, LookupPCs, WritePCs
<1>3. Fits(job[j].op, job[j].item, "remember")
  BY <1>2 DEF Fits, AddingOps, WritePCs, Items
<1>4. SoundFinds(job[j].op, job[j].item, "remember", found)
  BY <1>2 DEF SoundFinds
<1>5. QED
  BY <1>3, <1>4, HoldingIsSound

LEMMA WritingOnIsSound ==
  ASSUME JobsSound, NEW j \in Jobs, NEW pc \in WritePCs, job[j].at \in WritePCs, Goto(j, pc)
  PROVE  JobsSound'
<1>1. Sound(job[j])
  BY AtIsSound DEF WritePCs
<1>2. Fits(job[j].op, job[j].item, pc)
  BY <1>1 DEF Sound, Fits, LookupPCs, WritePCs
<1>3. QED
  BY <1>2, GotoIsSound DEF WritePCs

LEMMA NextTrackIsSound ==
  ASSUME JobsSound, NEW j \in Jobs, job[j].at = "trackRow", NEW t \in Have(j), NextTrack(j, t)
  PROVE  JobsSound'
<1>1. CASE Have(j) = {t}
  BY <1>1, EndIsSound DEF NextTrack
<1>2. CASE Have(j) # {t}
  <2> DEFINE found == [job[j].found EXCEPT ![t] = NoMeta]
  <2>1. Sound(job[j])
    BY AtIsSound
  <2>2. Holding(j, found, "trackRow")
    BY <1>2 DEF NextTrack
  <2>3. /\ found \in [Tracks -> Meta \cup {NoMeta}]
        /\ \A u \in Tracks : found[u] = IF u = t THEN NoMeta ELSE job[j].found[u]
    BY <2>1 DEF Sound, SoundFinds, Have
  <2>4. PICK u \in Have(j) : u # t
    BY <1>2
  <2>5. \E v \in Tracks : found[v] # NoMeta
    BY <2>3, <2>4 DEF Have
  <2>6. SoundFinds(job[j].op, job[j].item, "trackRow", found)
    <3> HIDE DEF found
    <3>1. QED
      BY <2>1, <2>3, <2>5 DEF Sound, SoundFinds, NoMeta, WritePCs
  <2>7. QED
    BY <2>1, <2>2, <2>6, HoldingIsSound DEF Sound
<1>3. QED
  BY <1>1, <1>2

LEMMA StepIsSound ==
  ASSUME JobsSound, TablesTyped, NEW j \in Jobs, Step(j)
  PROVE  JobsSound'
<1> DEFINE t == job[j].item
<1>1. job[j].at \in LookupPCs => t \in Tracks /\ Runs(j, {"star", "getSong", "play"})
  BY AtIsSound DEF Sound, Fits, LookupPCs, WritePCs, Runs
<1>2. CASE Lookup(j)
  <2>1. job[j].at \in LookupPCs
    BY <1>2 DEF Lookup, LookupPCs
  <2>2. CASE recent[t].fresh /\ Hit(j, recent[t].meta)
    BY <1>1, <2>1, <2>2, FreshIsFound, HitIsSound
  <2>3. CASE Goto(j, OnMiss(j))
    BY <1>2, <2>1, <2>3, MissLooksElsewhere, LookingOnIsSound DEF Lookup
  <2>4. CASE Goto(j, "evict") \/ Goto(j, "anyEvict")
    BY <2>1, <2>4, LookingOnIsSound DEF LookupPCs
  <2>5. QED
    BY <1>2, <2>2, <2>3, <2>4 DEF Lookup
<1>3. CASE EvictStale(j)
  BY <1>3, MissLooksElsewhere, LookingOnIsSound DEF EvictStale, At, LookupPCs
<1>4. CASE Remember(j)
  BY <1>4, WritingOnIsSound, EndIsSound DEF Remember, At, WritePCs
<1>5. CASE ReadRows(j)
  <2>1. job[j].at \in LookupPCs
    BY <1>5 DEF ReadRows, At, LookupPCs
  <2>2. CASE \E m \in TrackRows(t) : Hit(j, RowMeta(m, t))
    BY <1>1, <2>1, <2>2, RowIsMeta, HitIsSound
  <2>3. CASE Goto(j, "fetch")
    BY <2>1, <2>3, LookingOnIsSound DEF LookupPCs
  <2>4. CASE Runs(j, {"getSong"}) /\ \E m \in Mirrors :
               Found(j, [data |-> "synthetic", from |-> m], "remember")
    BY <2>1, <2>4, FoundIsSound DEF Meta, Known, Runs, WritePCs
  <2>5. QED
    BY <1>5, <2>2, <2>3, <2>4 DEF ReadRows
<1>6. CASE FetchRich(j)
  <2>1. job[j].at \in LookupPCs
    BY <1>6 DEF FetchRich, At, LookupPCs
  <2>2. PICK m \in Mirrors, pc \in {"albumRow", "remember"} :
          Found(j, [data |-> "rich", from |-> m], pc)
    BY <1>6 DEF FetchRich
  <2>3. QED
    BY <2>1, <2>2, FoundIsSound DEF Meta, Known, WritePCs
<1>7. CASE FetchPoor(j)
  <2>1. job[j].at \in LookupPCs /\ job[j].op # "play"
    BY <1>7 DEF FetchPoor, At, LookupPCs, Runs
  <2>2. CASE \E m \in TrackRows(t) : Found(j, RowMeta(m, t), "remember")
    BY <1>1, <2>1, <2>2, RowIsMeta, FoundIsSound DEF WritePCs
  <2>3. CASE Goto(j, "any")
    BY <2>1, <2>3, LookingOnIsSound DEF LookupPCs
  <2>4. QED
    BY <1>7, <2>2, <2>3, EndIsSound DEF FetchPoor
<1>8. CASE PlayPoor(j)
  <2>1. job[j].at \in LookupPCs
    BY <1>8 DEF PlayPoor, At, LookupPCs
  <2>2. ASSUME NEW m \in Mirrors, Persistable(job[j].found[t]),
               Found(j, [job[j].found[t] EXCEPT !.from = m], "albumRow")
        PROVE  JobsSound'
    <3>1. job[j].found[t] \in Meta
      <4>1. Sound(job[j]) /\ t \in Tracks
        BY <1>1, <2>1, AtIsSound DEF LookupPCs
      <4>2. job[j].found[t] \in Meta \cup {NoMeta}
        BY <4>1 DEF Sound, SoundFinds
      <4>3. NoMeta.data # "rich" /\ job[j].found[t].data = "rich"
        BY <2>2 DEF NoMeta, Persistable
      <4>4. QED
        BY <4>2, <4>3
    <3>2. /\ [job[j].found[t] EXCEPT !.from = m] \in Meta
          /\ [job[j].found[t] EXCEPT !.from = m].data = "rich"
      BY <2>2, <3>1 DEF Meta, Persistable
    <3>3. QED
      BY <2>1, <2>2, <3>2, FoundIsSound DEF WritePCs
  <2>3. QED
    BY <1>8, <2>2, EndIsSound DEF PlayPoor
<1>9. CASE ListLive(j)
  <2>1. PICK S \in (SUBSET {u \in Tracks : Related(t, u)}) \ {{}}, m \in Mirrors :
          Holding(j, [u \in Tracks |-> IF u \in S THEN [data |-> "rich", from |-> m] ELSE NoMeta],
                  "remember")
    BY <1>9 DEF ListLive
  <2> DEFINE found == [u \in Tracks |-> IF u \in S THEN [data |-> "rich", from |-> m] ELSE NoMeta]
  <2>2. [data |-> "rich", from |-> m] \in Meta /\ [data |-> "rich", from |-> m] # NoMeta
    BY DEF Meta, Known, NoMeta
  <2>3. found \in [Tracks -> Meta \cup {NoMeta}]
    BY <2>2
  <2>4. /\ \A u \in Tracks : found[u] # NoMeta => Related(t, u)
        /\ \E u \in Tracks : found[u] # NoMeta
    <3>1. \A u \in Tracks : found[u] # NoMeta <=> u \in S
      BY <2>2
    <3>2. PICK u \in S : u \in Tracks
      OBVIOUS
    <3> HIDE DEF found
    <3>3. QED
      BY <3>1, <3>2
  <2> HIDE DEF found
  <2>5. Holding(j, found, "remember")
    BY <2>1 DEF found
  <2>6. QED
    BY <1>9, <2>3, <2>4, <2>5, ListIsSound DEF ListLive, At
<1>10. CASE ListFails(j)
  <2> DEFINE Rows == {k \in Mirrors \X Tracks : trackRow[k] = "rich" /\ AlbumOf[k[2]] = t}
  <2>1. CASE End(j)
    BY <2>1, EndIsSound
  <2>2. ASSUME Rows # {}, NEW found \in [Tracks -> Meta \cup {NoMeta}],
               \A u \in Tracks : IF \E k \in Rows : k[2] = u
                                 THEN \E k \in Rows : k[2] = u /\ found[u] = RowMeta(k[1], u)
                                 ELSE found[u] = NoMeta,
               Holding(j, found, "remember")
        PROVE  JobsSound'
    <3>1. \A u \in Tracks : found[u] # NoMeta => \E k \in Rows : k[2] = u
      BY <2>2
    <3>2. \A u \in Tracks : found[u] # NoMeta => Related(t, u)
      <4>1. \A u \in Tracks : AlbumOf[u] \in Albums
        BY LibraryAssumption
      <4>2. QED
        BY <3>1, <4>1, AboveIs DEF Related
    <3>3. \E u \in Tracks : found[u] # NoMeta
      <4>1. PICK k \in Rows : TRUE
        BY <2>2
      <4>2. k[2] \in Tracks /\ \E i \in Rows : i[2] = k[2] /\ found[k[2]] = RowMeta(i[1], k[2])
        BY <2>2, <4>1
      <4>3. found[k[2]] # NoMeta
        BY <4>2 DEF RowMeta, NoMeta
      <4>4. QED
        BY <4>2, <4>3
    <3>4. QED
      BY <1>10, <2>2, <3>2, <3>3, ListIsSound DEF ListFails, At
  <2>3. QED
    BY <1>10, <2>1, <2>2 DEF ListFails
<1>11. CASE EnsureAlbum(j) \/ UpsertAlbum(j) \/ AlbumWriteFails(j)
  <2>1. job[j].at \in WritePCs /\ (Goto(j, "trackRow") \/ Goto(j, "albumRow"))
    BY <1>11 DEF EnsureAlbum, UpsertAlbum, AlbumWriteFails, At, WritePCs
  <2>2. QED
    BY <2>1, WritingOnIsSound DEF WritePCs
<1>12. CASE UpsertTrack(j) \/ TrackWriteFails(j)
  BY <1>12, NextTrackIsSound DEF UpsertTrack, TrackWriteFails, At
<1>13. CASE Star(j) \/ StarFails(j)
  <2>1. job[j].at = "starRow" /\ Ingest(j)
    BY <1>13 DEF Star, StarFails, At
  <2>2. Sound(job[j])
    BY <2>1, AtIsSound
  <2>3. job[j].op = "star" /\ t \in Items
    BY <2>1, <2>2 DEF Sound, Fits, LookupPCs, WritePCs
  <2>4. CASE Goto(j, "exact") /\ t \in Tracks
    <3>1. Fits(job[j].op, t, "exact")
      BY <2>3, <2>4 DEF Fits, LookupPCs
    <3>2. QED
      BY <2>1, <2>4, <3>1, GotoIsSound DEF WritePCs
  <2>5. CASE Goto(j, "list") /\ t \in Albums
    <3>1. Fits(job[j].op, t, "list")
      BY <2>3, <2>5 DEF Fits
    <3>2. QED
      BY <2>1, <2>5, <3>1, GotoIsSound DEF WritePCs
  <2>6. QED
    BY <2>1, <2>3, <2>4, <2>5, EndIsSound DEF Ingest, Items
<1>14. CASE Unstar(j) \/ UnstarFails(j)
  <2>1. job[j].at = "unstarRow" /\ Goto(j, "delete")
    BY <1>14 DEF Unstar, UnstarFails, At
  <2>2. Fits(job[j].op, t, "delete")
    BY <2>1, AtIsSound DEF Sound, Fits, LookupPCs, WritePCs
  <2>3. QED
    BY <2>1, <2>2, GotoIsSound DEF WritePCs
<1>15. CASE Delete(j)
  <2>1. CASE Goto(j, "forget") /\ t \in Tracks
    <3>1. Fits(job[j].op, t, "forget") /\ job[j].at # "idle"
      BY <1>15, <2>1, AtIsSound DEF Delete, At, Sound, Fits, LookupPCs, WritePCs
    <3>2. QED
      BY <2>1, <3>1, GotoIsSound DEF WritePCs
  <2>2. QED
    BY <1>15, <2>1, EndIsSound DEF Delete
<1>16. CASE DeleteFails(j) \/ Forget(j)
  BY <1>16, EndIsSound DEF DeleteFails, Forget
<1>17. QED
  BY <1>2, <1>3, <1>4, <1>5, <1>6, <1>7, <1>8, <1>9, <1>10, <1>11, <1>12, <1>13, <1>14, <1>15, <1>16
     DEF Step

LEMMA HaveIsMeta ==
  ASSUME JobsSound, NEW j \in Jobs, job[j].at # "idle", NEW t \in Have(j)
  PROVE  /\ t \in Tracks /\ job[j].found[t] \in Meta /\ Related(job[j].item, t)
         /\ job[j].op = "play" /\ job[j].at \in WritePCs => job[j].found[t].data = "rich"
<1>1. Sound(job[j])
  BY AtIsSound
<1>2. t \in Tracks /\ job[j].found[t] # NoMeta
  BY DEF Have
<1>3. job[j].found[t] \in Meta
  BY <1>1, <1>2 DEF Sound, SoundFinds
<1>4. job[j].found[t].data \in Known
  BY <1>3 DEF Meta
<1>5. QED
  BY <1>1, <1>2, <1>3, <1>4 DEF Sound, SoundFinds, Known

LEMMA StepKeepsTables ==
  ASSUME JobsSound, TablesTyped, NEW j \in Jobs, Step(j)
  PROVE  TablesTyped'
<1> DEFINE x == job[j].item
<1>1. CASE Star(j)
  <2>1. x \in Items
    BY <1>1, AtIsSound DEF Star, At, Sound, Fits, LookupPCs, WritePCs
  <2>2. QED
    BY <1>1, <2>1 DEF Star, TablesTyped
<1>2. CASE UpsertTrack(j)
  <2>1. PICK t \in Have(j) :
          trackRow' = [trackRow EXCEPT ![<<job[j].found[t].from, t>>] = job[j].found[t].data]
    BY <1>2 DEF UpsertTrack
  <2>2. job[j].found[t] \in Meta
    BY <1>2, HaveIsMeta DEF UpsertTrack, At
  <2>3. job[j].found[t].data \in Known
    BY <2>2 DEF Meta
  <2>4. QED
    BY <1>2, <2>1, <2>3 DEF UpsertTrack, TablesTyped
<1>3. CASE Delete(j)
  <2>1. trackRow' \in [Mirrors \X Tracks -> Known \cup {"absent"}]
    BY <1>3 DEF Delete, TablesTyped
  <2>2. QED
    BY <1>3, <2>1 DEF Delete, TablesTyped
<1>4. CASE Remember(j)
  <2>1. \A t \in Have(j) : [meta |-> job[j].found[t], fresh |-> TRUE] \in [meta : Meta, fresh : BOOLEAN]
    BY <1>4, HaveIsMeta DEF Remember, At
  <2>2. recent' \in [Tracks -> [meta : Meta, fresh : BOOLEAN] \cup {NoEntry}]
    BY <1>4, <2>1 DEF Remember, TablesTyped
  <2>3. QED
    BY <1>4, <2>2 DEF Remember, TablesTyped
<1>5. CASE EvictStale(j) \/ Forget(j)
  BY <1>5 DEF EvictStale, Forget, TablesTyped
<1>6. CASE Unstar(j)
  BY <1>6 DEF Unstar, TablesTyped
<1>7. CASE UnstarFails(j) \/ DeleteFails(j)
  BY <1>7 DEF UnstarFails, DeleteFails, Failed, TablesTyped
<1>8. CASE UNCHANGED <<starred, trackRow, recent, unstarred>>
  BY <1>8 DEF TablesTyped
<1>9. QED
  BY <1>1, <1>2, <1>3, <1>4, <1>5, <1>6, <1>7, <1>8
     DEF Step, Lookup, ReadRows, FetchRich, FetchPoor, PlayPoor, ListLive, ListFails, EnsureAlbum,
         UpsertAlbum, AlbumWriteFails, TrackWriteFails, StarFails

(* A request about x that may add metadata forgets that x was unstarred.   *)
LEMMA BeginUnstarred ==
  ASSUME NEW j, NEW op, NEW item, Begin(j, op, item), NEW x \in Items
  PROVE  /\ op # "unstar" /\ Related(item, x) => unstarred'[x] = "no"
         /\ ~(op # "unstar" /\ Related(item, x)) /\ ~(op = "unstar" /\ item = x)
              => unstarred'[x] = unstarred[x]
         /\ op = "unstar" /\ item = x => unstarred'[x] =
              IF \E k \in Jobs : Adding(k, x) THEN "busy" ELSE "quiet"
<1>1. unstarred' = [y \in Items |->
        CASE op = "unstar" /\ item = y ->
               IF \E k \in Jobs : Adding(k, y) THEN "busy" ELSE "quiet"
          [] op # "unstar" /\ Related(item, y) -> "no"
          [] OTHER -> unstarred[y]]
  BY DEF Begin
<1>2. unstarred'[x] =
        CASE op = "unstar" /\ item = x ->
               IF \E k \in Jobs : Adding(k, x) THEN "busy" ELSE "quiet"
          [] op # "unstar" /\ Related(item, x) -> "no"
          [] OTHER -> unstarred[x]
  BY <1>1, Zenon
<1>3. QED
  BY <1>2, Zenon

LEMMA BeginKeepsTables ==
  ASSUME TablesTyped, NEW j \in Jobs, NEW op, NEW item, Begin(j, op, item)
  PROVE  TablesTyped'
<1>1. \A x \in Items : unstarred'[x] \in {"no", "busy", "quiet"}
  <2> SUFFICES ASSUME NEW x \in Items
               PROVE  unstarred'[x] \in {"no", "busy", "quiet"}
    OBVIOUS
  <2>1. unstarred[x] \in {"no", "busy", "quiet"}
    BY DEF TablesTyped
  <2>2. QED
    BY <2>1, BeginUnstarred
<1>2. unstarred' = [x \in Items |-> unstarred'[x]]
  BY DEF Begin
<1>3. unstarred' \in [Items -> {"no", "busy", "quiet"}]
  BY <1>1, <1>2
<1>4. QED
  BY <1>3 DEF Begin, TablesTyped

LEMMA ExpireKeepsTables ==
  ASSUME TablesTyped, NEW t \in Tracks, Expire(t)
  PROVE  TablesTyped'
<1>1. recent[t] \in [meta : Meta, fresh : BOOLEAN]
  BY DEF Expire, TablesTyped, NoEntry
<1>2. [recent[t] EXCEPT !.fresh = FALSE] \in [meta : Meta, fresh : BOOLEAN]
  BY <1>1
<1>3. recent' = [recent EXCEPT ![t] = [recent[t] EXCEPT !.fresh = FALSE]]
  BY DEF Expire, TablesTyped
<1>4. recent' \in [Tracks -> [meta : Meta, fresh : BOOLEAN] \cup {NoEntry}]
  BY <1>2, <1>3 DEF TablesTyped
<1>5. QED
  BY <1>4 DEF Expire, TablesTyped

LEMMA NextKeepsJobsAndTables ==
  ASSUME JobsSound, TablesTyped, [Next]_vars
  PROVE  JobsSound' /\ TablesTyped'
<1>1. CASE UNCHANGED vars
  BY <1>1 DEF vars, JobsSound, TablesTyped
<1>2. CASE \E j \in Jobs, r \in Requests : Begin(j, r[1], r[2])
  BY <1>2, BeginIsSound, BeginKeepsTables
<1>3. CASE \E j \in Jobs : Step(j)
  BY <1>3, StepIsSound, StepKeepsTables
<1>4. CASE \E t \in Tracks : Expire(t)
  <2>1. UNCHANGED job
    BY <1>4 DEF Expire
  <2>2. QED
    BY <1>4, <2>1, ExpireKeepsTables DEF JobsSound
<1>5. QED
  BY <1>1, <1>2, <1>3, <1>4 DEF Next

LEMMA LibraryIsSound == Spec => []JobsSound /\ []TablesTyped
<1>1. Init => JobsSound /\ TablesTyped
  BY DEF Init, JobsSound, TablesTyped
<1>2. JobsSound /\ TablesTyped /\ [Next]_vars => (JobsSound /\ TablesTyped)'
  BY NextKeepsJobsAndTables
<1>3. QED
  BY <1>1, <1>2, PTL DEF Spec

(* Every job works on an item its operation may have, with metadata of     *)
(* tracks it has found, and every row and entry it leaves is of its table. *)
THEOREM LibraryTypeCorrect == Spec => []TypeOK
<1>1. JobsSound /\ TablesTyped /\ AlbumTable => TypeOK
  <2> SUFFICES ASSUME JobsSound, TablesTyped, AlbumTable
               PROVE  TypeOK
    OBVIOUS
  <2> DEFINE Working == [op : TrackOps \cup AlbumOps \cup {"search"}, item : Items \cup {NoItem},
                         at : PCs, found : [Tracks -> Meta \cup {NoMeta}]]
  <2>1. ASSUME NEW j \in Jobs, Sound(job[j])
        PROVE  job[j] \in Working
    <3>1. job[j].op \in TrackOps \cup AlbumOps \cup {"search"}
      BY <2>1 DEF Sound, Fits, TrackOps, AlbumOps, AddingOps
    <3>2. job[j].item \in Items \cup {NoItem} /\ job[j].at \in PCs
      BY <2>1 DEF Sound, Fits, Items, PCs, LookupPCs, WritePCs
    <3>3. job[j].found \in [Tracks -> Meta \cup {NoMeta}]
      BY <2>1 DEF Sound, SoundFinds
    <3>4. QED
      BY <2>1, <3>1, <3>2, <3>3 DEF Sound
  <2> HIDE DEF Working
  <2>2. job \in [Jobs -> Working \cup {Idle}]
    BY <2>1 DEF JobsSound
  <2>3. QED
    BY <2>2 DEF TypeOK, TablesTyped, AlbumTable, RowQualities, Working
<1>2. QED
  BY <1>1, LibraryIsSound, TableIsInvariant, PTL

-------------------------------------------------------------------------------
(* What single jobs may do to the rows.                                    *)

(* A step of one job moves no other.                                       *)
LEMMA StepMovesOne ==
  ASSUME NEW j \in Jobs, Step(j), NEW i \in Jobs, i # j
  PROVE  job'[i] = job[i]
<1>1. ASSUME NEW found, NEW pc, Holding(j, found, pc) PROVE job'[i] = job[i]
  BY <1>1 DEF Holding
<1>2. ASSUME End(j) PROVE job'[i] = job[i]
  BY <1>2 DEF End
<1>3. ASSUME NEW meta, NEW pc, Found(j, meta, pc) PROVE job'[i] = job[i]
  BY <1>1, <1>3 DEF Found
<1>4. ASSUME NEW pc, Goto(j, pc) PROVE job'[i] = job[i]
  BY <1>1, <1>4 DEF Goto
<1>5. ASSUME NEW meta, Hit(j, meta) PROVE job'[i] = job[i]
  BY <1>3, <1>5 DEF Hit
<1>6. ASSUME NEW t, NextTrack(j, t) PROVE job'[i] = job[i]
  BY <1>1, <1>2, <1>6 DEF NextTrack
<1>7. CASE Lookup(j) \/ EvictStale(j) \/ Remember(j) \/ ReadRows(j)
  BY <1>2, <1>3, <1>4, <1>5, <1>7 DEF Lookup, EvictStale, Remember, ReadRows
<1>8. CASE FetchRich(j) \/ FetchPoor(j) \/ PlayPoor(j) \/ ListLive(j) \/ ListFails(j)
  BY <1>1, <1>2, <1>3, <1>4, <1>8 DEF FetchRich, FetchPoor, PlayPoor, ListLive, ListFails
<1>9. CASE EnsureAlbum(j) \/ UpsertAlbum(j) \/ AlbumWriteFails(j) \/ UpsertTrack(j) \/ TrackWriteFails(j)
  BY <1>4, <1>6, <1>9 DEF EnsureAlbum, UpsertAlbum, AlbumWriteFails, UpsertTrack, TrackWriteFails
<1>10. CASE \/ Star(j) \/ StarFails(j) \/ Unstar(j) \/ UnstarFails(j)
            \/ Delete(j) \/ DeleteFails(j) \/ Forget(j)
  BY <1>2, <1>4, <1>10
     DEF Star, StarFails, Ingest, Unstar, UnstarFails, Delete, DeleteFails, Forget
<1>11. QED
  BY <1>7, <1>8, <1>9, <1>10 DEF Step

(* Of the tracks' rows, a play's goroutine writes the one of the track it  *)
(* played, and only with what a provider said of it.                       *)
THEOREM PlaysWriteNoPlaceholder == Spec => PlayNeverPollutes
<1>1. ASSUME JobsSound, TablesTyped, [Next]_vars, NEW j \in Jobs, NEW k \in Mirrors \X Tracks,
             job[j].op = "play", job'[j] # job[j], trackRow'[k] = "synthetic"
      PROVE  trackRow[k] = "synthetic"
  <2>1. CASE Step(j)
    <3>1. CASE UpsertTrack(j)
      <4>1. PICK t \in Have(j) :
              trackRow' = [trackRow EXCEPT ![<<job[j].found[t].from, t>>] = job[j].found[t].data]
        BY <3>1 DEF UpsertTrack
      <4>2. job[j].found[t].data = "rich"
        BY <1>1, <3>1, HaveIsMeta DEF UpsertTrack, At, WritePCs
      <4>3. QED
        BY <1>1, <4>1, <4>2 DEF TablesTyped
    <3>2. CASE Delete(j)
      BY <1>1, <3>2 DEF Delete
    <3>3. CASE ~UpsertTrack(j) /\ ~Delete(j)
      BY <1>1, <2>1, <3>3
         DEF Step, Lookup, EvictStale, Remember, ReadRows, FetchRich, FetchPoor, PlayPoor, ListLive,
             ListFails, EnsureAlbum, UpsertAlbum, AlbumWriteFails, TrackWriteFails, Star, StarFails,
             Unstar, UnstarFails, DeleteFails, Forget
    <3>4. QED
      BY <3>1, <3>2, <3>3
  <2>2. CASE ~Step(j)
    <3>1. CASE \E i \in Jobs : Step(i)
      <4>1. PICK i \in Jobs : Step(i)
        BY <3>1
      <4>2. i # j
        BY <2>2, <4>1
      <4>3. job'[j] = job[j]
        BY <4>1, <4>2, StepMovesOne
      <4>4. QED
        BY <1>1, <4>3
    <3>2. CASE \E i \in Jobs, r \in Requests : Begin(i, r[1], r[2])
      BY <1>1, <3>2 DEF Begin
    <3>3. CASE UNCHANGED vars \/ \E t \in Tracks : Expire(t)
      BY <1>1, <3>3 DEF vars, Expire
    <3>4. QED
      BY <1>1, <3>1, <3>2, <3>3 DEF Next
  <2>3. QED
    BY <2>1, <2>2
<1>2. JobsSound /\ TablesTyped /\ [Next]_vars =>
        [\A j \in Jobs, k \in Mirrors \X Tracks :
           job[j].op = "play" /\ job'[j] # job[j] /\ trackRow'[k] = "synthetic" =>
             trackRow[k] = "synthetic"]_vars
  BY <1>1
<1>3. QED
  BY <1>2, LibraryIsSound, PTL DEF Spec, PlayNeverPollutes

(* A complete album row is downgraded or removed by an unstar of that      *)
(* album or of its artist only.                                            *)
THEOREM CompleteAlbumsAreKept == Spec => CompleteAlbumsStay
<1>1. ASSUME AlbumTable, JobsSound, [Next]_vars, NEW m \in Mirrors, NEW a \in Albums,
             albumRow[<<m, a>>] = "complete", albumRow'[<<m, a>>] # "complete"
      PROVE  \E j \in Jobs : job[j].op = "unstar" /\ job[j].item \in {a, ArtistOf[a]}
  <2>0. <<m, a>> \in Mirrors \X AlbumIds
    BY DEF AlbumIds
  <2>1. CASE \E j \in Jobs : Delete(j)
    <3>1. PICK j \in Jobs : Delete(j)
      BY <2>1
    <3>2. job[j].op = "unstar"
      BY <1>1, <3>1, AtIsSound DEF Delete, At, Sound, Fits, LookupPCs, WritePCs
    <3>3. job[j].item \in {a, ArtistOf[a]}
      <4>1. albumRow' = [k \in Mirrors \X AlbumIds |->
                           IF DeletesAlbum(job[j].item, k[2]) THEN "absent" ELSE albumRow[k]]
        BY <3>1 DEF Delete
      <4>2. DeletesAlbum(job[j].item, a)
        BY <1>1, <2>0, <4>1
      <4>3. Above(a) = {ArtistOf[a]}
        BY AboveIs
      <4>4. QED
        BY <4>2, <4>3 DEF DeletesAlbum
    <3>4. QED
      BY <3>2, <3>3
  <2>2. CASE \E j \in Jobs : UpsertAlbum(j)
    <3>1. PICK j \in Jobs : UpsertAlbum(j)
      BY <2>2
    <3>2. PICK b, target, new :
            albumRow' = [albumRow EXCEPT ![<<target, b>>] = Merged(@, new)]
      BY <3>1 DEF UpsertAlbum
    <3>3. albumRow'[<<m, a>>] = "complete"
      BY <1>1, <2>0, <3>2 DEF AlbumTable, Merged
    <3>4. QED
      BY <1>1, <3>3
  <2>3. CASE ~(\E j \in Jobs : UpsertAlbum(j) \/ Delete(j))
    BY <1>1, <2>3, OthersKeepRows
  <2>4. QED
    BY <2>1, <2>2, <2>3
<1>2. AlbumTable /\ JobsSound /\ [Next]_vars =>
        [\A m \in Mirrors, a \in Albums :
           albumRow[<<m, a>>] = "complete" /\ albumRow'[<<m, a>>] # "complete" =>
             \E j \in Jobs : job[j].op = "unstar" /\ job[j].item \in {a, ArtistOf[a]}]_vars
  BY <1>1
<1>3. QED
  BY <1>2, TableIsInvariant, LibraryIsSound, PTL DEF Spec, CompleteAlbumsStay

-------------------------------------------------------------------------------
(* getStarred.                                                             *)

(* A star joined with one row at most is one entry.                        *)
LEMMA JoinedIsOne ==
  ASSUME NEW s, NEW rows, \A m, n \in rows : m = n
  PROVE  \E r : Joined(s, rows) = {[star |-> s, row |-> r]}
<1>1. CASE rows = {}
  BY <1>1 DEF Joined
<1>2. CASE rows # {}
  <2>1. PICK m : m \in rows
    BY <1>2
  <2>2. rows = {m}
    BY <2>1
  <2>3. QED
    BY <2>2 DEF Joined
<1>3. QED
  BY <1>1, <1>2

LEMMA JoinedNamesStar ==
  ASSUME NEW s, NEW rows, NEW e \in Joined(s, rows)
  PROVE  e.star = s /\ (e.row = NoItem \/ e.row \in rows) /\ (rows # {} => e.row \in rows)
BY DEF Joined

(* The metadata rows a star is joined with.                                *)
MatchingRows(s) ==
  IF s[2] \in Tracks THEN TrackRows(s[2]) \cap {s[1]}
  ELSE IF s[2] \in Albums THEN AlbumRows(s[2]) ELSE {}

LEMMA StarsAreJoined ==
  ASSUME TablesTyped
  PROVE  \A e : e \in getStarred <=> \E s \in starred : e \in Joined(s, MatchingRows(s))
<1>1. \A s \in starred : \/ s[2] \in Tracks /\ s[2] \notin Albums /\ s[2] \notin Artists
                         \/ s[2] \in Albums /\ s[2] \notin Tracks /\ s[2] \notin Artists
                         \/ s[2] \in Artists /\ s[2] \notin Tracks /\ s[2] \notin Albums
  <2>1. \A s \in starred : s[2] \in Items
    BY DEF TablesTyped
  <2>2. QED
    BY <2>1, LibraryAssumption DEF Items
<1>2. \A e : e \in ListStarredTracks <=>
         \E s \in starred : s[2] \in Tracks /\ e \in Joined(s, TrackRows(s[2]) \cap {s[1]})
  BY DEF ListStarredTracks
<1>3. \A e : e \in ListStarredAlbums <=>
         \E s \in starred : s[2] \in Albums /\ e \in Joined(s, AlbumRows(s[2]))
  BY DEF ListStarredAlbums, AlbumMatches
<1>4. \A e : e \in ListStarredArtists <=>
         \E s \in starred : s[2] \in Artists /\ e \in Joined(s, {})
  BY DEF ListStarredArtists
<1>5. QED
  BY <1>1, <1>2, <1>3, <1>4 DEF getStarred, MatchingRows

LEMMA StarIsListedOnce ==
  ASSUME TablesTyped, AlbumTable, NEW s \in starred
  PROVE  \E x : {e \in getStarred : e.star = s} = {x}
<1>1. {e \in getStarred : e.star = s} = Joined(s, MatchingRows(s))
  <2>1. ASSUME NEW e \in getStarred, e.star = s
        PROVE  e \in Joined(s, MatchingRows(s))
    <3>1. PICK r \in starred : e \in Joined(r, MatchingRows(r))
      BY StarsAreJoined
    <3>2. e.star = r
      BY <3>1, JoinedNamesStar
    <3>3. QED
      BY <2>1, <3>1, <3>2
  <2>2. ASSUME NEW e \in Joined(s, MatchingRows(s))
        PROVE  e \in getStarred /\ e.star = s
    BY StarsAreJoined, JoinedNamesStar
  <2>3. QED
    BY <2>1, <2>2
<1>2. \A m, n \in MatchingRows(s) : m = n
  <2>1. s[2] \in Albums => \A m, n \in AlbumRows(s[2]) : m = n
    BY DEF AlbumTable, AlbumIds
  <2>2. QED
    BY <2>1 DEF MatchingRows
<1>3. QED
  BY <1>1, <1>2, JoinedIsOne

(* A client's getStarred shows every star once, however often it was       *)
(* written and whichever mirrors its rows name, and an album's metadata    *)
(* whenever there is any.                                                  *)
THEOREM StarsListedOnce == Spec => []StarsAreListed
<1>1. ASSUME TablesTyped, AlbumTable
      PROVE  StarsAreListed
  <2>1. ASSUME NEW s \in starred
        PROVE  Cardinality({e \in getStarred : e.star = s}) = 1
    <3>1. PICK x : {e \in getStarred : e.star = s} = {x}
      BY <1>1, StarIsListedOnce
    <3>2. QED
      BY <3>1, FS_Singleton
  <2>2. ASSUME NEW e \in ListStarredAlbums, e.row = NoItem
        PROVE  AlbumRows(e.star[2]) = {}
    <3>1. PICK s \in starred : s[2] \in Albums /\ e \in Joined(s, AlbumRows(s[2]))
      BY DEF ListStarredAlbums, AlbumMatches
    <3>2. e.star = s /\ (AlbumRows(s[2]) # {} => e.row \in AlbumRows(s[2]))
      BY <3>1, JoinedNamesStar
    <3>3. NoItem \notin AlbumRows(s[2])
      BY LibraryAssumption DEF AlbumRows
    <3>4. QED
      BY <2>2, <3>2, <3>3
  <2>3. QED
    BY <2>1, <2>2 DEF StarsAreListed
<1>2. QED
  BY <1>1, LibraryIsSound, TableIsInvariant, PTL

-------------------------------------------------------------------------------
(* Unstarring.                                                             *)

StarGone(x)   == \A m \in Mirrors : <<m, x>> \notin starred
RowsGone(x)   == /\ x \in Tracks => TrackRows(x) = {}
                 /\ \A a \in Albums : x \in {a, ArtistOf[a]} => NoAlbumLeft(a)
RecentGone(x) == x \in Tracks => recent[x] = NoEntry

UnstarringAt(x, pcs) == \E j \in Jobs : Unstarring(j, x) /\ job[j].at \in pcs

(* The inductive invariant behind QuietUnstarClears: nothing that could    *)
(* add metadata of x runs, and each part of it is gone or an unstar that   *)
(* is going to delete it is still under way.                               *)
QuietInv ==
  \A x \in Items : unstarred[x] = "quiet" =>
    /\ \A j \in Jobs : ~Adding(j, x)
    /\ StarGone(x)   \/ UnstarringAt(x, {"unstarRow"})
    /\ RowsGone(x)   \/ UnstarringAt(x, {"unstarRow", "delete"})
    /\ RecentGone(x) \/ UnstarringAt(x, {"unstarRow", "delete", "forget"})

(* What a request about i adds of a track, it adds of what is above it.    *)
LEMMA RelatedAbove ==
  ASSUME NEW i \in Items \cup {NoItem}, NEW t \in Tracks, Related(i, t), NEW x \in Above(t)
  PROVE  Related(i, x)
<1>1. /\ AlbumOf[t] \in Albums /\ ArtistOf[AlbumOf[t]] \in Artists
      /\ \A a \in Albums : ArtistOf[a] \in Artists
  BY LibraryAssumption
<1>2. x \in {AlbumOf[t], ArtistOf[AlbumOf[t]]}
  BY AboveIs
<1>3. CASE i = t \/ i = NoItem
  BY <1>3 DEF Related
<1>4. CASE i \in Albums /\ i \in Above(t)
  <2>1. i = AlbumOf[t]
    BY <1>1, <1>4, AboveIs, LibraryAssumption
  <2>2. x = i \/ x \in Above(i)
    BY <1>2, <1>4, <2>1, AboveIs
  <2>3. QED
    BY <2>2 DEF Related
<1>5. t \notin Above(i)
  <2>1. CASE i \in Tracks
    BY <1>1, <2>1, AboveIs, LibraryAssumption
  <2>2. CASE i \in Albums
    BY <1>1, <2>2, AboveIs, LibraryAssumption
  <2>3. CASE i \notin Tracks \cup Albums
    BY <2>3, AboveIs
  <2>4. QED
    BY <2>1, <2>2, <2>3
<1>6. QED
  BY <1>3, <1>4, <1>5 DEF Related

(* A step ends its job's request or goes on with it.                       *)
LEMMA StepKeepsRequest ==
  ASSUME NEW j \in Jobs, job = [i \in Jobs |-> job[i]], Step(j)
  PROVE  job'[j] = Idle \/ (job'[j].op = job[j].op /\ job'[j].item = job[j].item)
<1> DEFINE Q == job'[j] = Idle \/ (job'[j].op = job[j].op /\ job'[j].item = job[j].item)
<1> SUFFICES Q
  OBVIOUS
<1>1. ASSUME NEW found, NEW pc, Holding(j, found, pc) PROVE Q
  BY <1>1 DEF Holding
<1>2. ASSUME End(j) PROVE Q
  BY <1>2 DEF End
<1> HIDE DEF Q
<1>3. ASSUME NEW meta, NEW pc, Found(j, meta, pc) PROVE Q
  BY <1>1, <1>3 DEF Found
<1>4. ASSUME NEW pc, Goto(j, pc) PROVE Q
  BY <1>1, <1>4 DEF Goto
<1>5. ASSUME NEW meta, Hit(j, meta) PROVE Q
  BY <1>3, <1>5 DEF Hit
<1>6. ASSUME NEW t, NextTrack(j, t) PROVE Q
  BY <1>1, <1>2, <1>6 DEF NextTrack
<1>7. CASE Lookup(j) \/ EvictStale(j) \/ Remember(j) \/ ReadRows(j)
  BY <1>2, <1>3, <1>4, <1>5, <1>7 DEF Lookup, EvictStale, Remember, ReadRows
<1>8. CASE FetchRich(j) \/ FetchPoor(j) \/ PlayPoor(j) \/ ListLive(j) \/ ListFails(j)
  BY <1>1, <1>2, <1>3, <1>4, <1>8 DEF FetchRich, FetchPoor, PlayPoor, ListLive, ListFails
<1>9. CASE EnsureAlbum(j) \/ UpsertAlbum(j) \/ AlbumWriteFails(j) \/ UpsertTrack(j) \/ TrackWriteFails(j)
  BY <1>4, <1>6, <1>9 DEF EnsureAlbum, UpsertAlbum, AlbumWriteFails, UpsertTrack, TrackWriteFails
<1>10. CASE \/ Star(j) \/ StarFails(j) \/ Unstar(j) \/ UnstarFails(j)
            \/ Delete(j) \/ DeleteFails(j) \/ Forget(j)
  BY <1>2, <1>4, <1>10
     DEF Star, StarFails, Ingest, Unstar, UnstarFails, Delete, DeleteFails, Forget
<1>11. QED
  BY <1>7, <1>8, <1>9, <1>10 DEF Step

(* A job that writes is adding metadata of the tracks it has found.        *)
LEMMA WriterAdds ==
  ASSUME JobsSound, NEW j \in Jobs, job[j].at \in WritePCs, NEW t \in Have(j)
  PROVE  Adding(j, t) /\ \A x \in Above(t) : Adding(j, x)
<1>1. Sound(job[j])
  BY AtIsSound DEF WritePCs
<1>2. job[j].op \in AddingOps /\ job[j].item \in Items \cup {NoItem}
  BY <1>1 DEF Sound, Fits, LookupPCs, WritePCs
<1>3. t \in Tracks /\ Related(job[j].item, t)
  BY HaveIsMeta DEF WritePCs
<1>4. QED
  BY <1>2, <1>3, RelatedAbove DEF Adding, AddingOps

(* A job that adds no metadata of x leaves what is gone of it alone.       *)
LEMMA StarStaysGone ==
  ASSUME JobsSound, NEW j \in Jobs, Step(j), NEW x \in Items, ~Adding(j, x), StarGone(x)
  PROVE  StarGone(x)'
<1>1. CASE Star(j)
  <2>1. job[j].op = "star"
    BY <1>1, AtIsSound DEF Star, At, Sound, Fits, LookupPCs, WritePCs
  <2>2. job[j].item # x
    BY <2>1 DEF Adding, Related
  <2>3. QED
    BY <1>1, <2>2 DEF Star, StarGone
<1>2. CASE Unstar(j)
  BY <1>2 DEF Unstar, StarGone
<1>3. CASE UNCHANGED starred
  BY <1>3 DEF StarGone
<1>4. QED
  BY <1>1, <1>2, <1>3
     DEF Step, Lookup, EvictStale, Remember, ReadRows, FetchRich, FetchPoor, PlayPoor, ListLive,
         ListFails, EnsureAlbum, UpsertAlbum, AlbumWriteFails, UpsertTrack, TrackWriteFails,
         StarFails, UnstarFails, Delete, DeleteFails, Forget

LEMMA RowsStayGone ==
  ASSUME JobsSound, TablesTyped, AlbumTable,
         NEW j \in Jobs, Step(j), NEW x \in Items, ~Adding(j, x), RowsGone(x)
  PROVE  RowsGone(x)'
<1>1. CASE UpsertTrack(j)
  <2>1. PICK t \in Have(j) :
          trackRow' = [trackRow EXCEPT ![<<job[j].found[t].from, t>>] = job[j].found[t].data]
    BY <1>1 DEF UpsertTrack
  <2>2. t # x /\ x \notin Above(t) /\ t \in Tracks
    BY <1>1, WriterAdds DEF UpsertTrack, At, WritePCs, Have
  <2>3. \A m \in Mirrors, u \in Tracks \ {t} : trackRow'[<<m, u>>] = trackRow[<<m, u>>]
    BY <2>1 DEF TablesTyped
  <2>4. \A a \in Albums : x \in {a, ArtistOf[a]} => AlbumOf[t] # a
    BY <2>2, AboveIs
  <2>5. albumRow' = albumRow
    BY <1>1 DEF UpsertTrack
  <2>6. QED
    BY <2>2, <2>3, <2>4, <2>5 DEF RowsGone, NoAlbumLeft, TrackRows, AlbumRows
<1>2. CASE UpsertAlbum(j)
  <2>1. PICK m, target, new :
          albumRow' = [albumRow EXCEPT ![<<target, HomeAlbum(j)>>] = Merged(@, new)]
    BY <1>2 DEF UpsertAlbum
  <2>2. \E t \in Have(j) : HomeAlbum(j) \in {UnknownAlbum, AlbumOf[t]}
    <3>1. \E t \in Have(j) : TRUE
      BY <1>2, AtIsSound DEF UpsertAlbum, At, Sound, SoundFinds, WritePCs, Have
    <3>2. QED
      BY <3>1 DEF HomeAlbum, HomeOf
  <2>3. ASSUME NEW a \in Albums, x \in {a, ArtistOf[a]}
        PROVE  HomeAlbum(j) # a
    <3>1. UnknownAlbum # a
      BY LibraryAssumption
    <3>2. \A t \in Have(j) : t \in Tracks /\ x \notin Above(t)
      BY <1>2, WriterAdds DEF UpsertAlbum, At, WritePCs, Have
    <3>3. QED
      BY <2>2, <2>3, <3>1, <3>2, AboveIs
  <2>4. \A a \in Albums : HomeAlbum(j) # a => AlbumRows(a)' = AlbumRows(a)
    BY <2>1 DEF AlbumTable, AlbumRows, AlbumIds
  <2>5. trackRow' = trackRow
    BY <1>2 DEF UpsertAlbum
  <2>6. QED
    BY <2>3, <2>4, <2>5 DEF RowsGone, NoAlbumLeft, TrackRows
<1>3. CASE Delete(j)
  <2>1. /\ \A m \in Mirrors, t \in Tracks :
             trackRow'[<<m, t>>] = "absent" \/ trackRow'[<<m, t>>] = trackRow[<<m, t>>]
        /\ \A m \in Mirrors, a \in Albums :
             albumRow'[<<m, a>>] = "absent" \/ albumRow'[<<m, a>>] = albumRow[<<m, a>>]
    BY <1>3 DEF Delete, AlbumIds
  <2>2. QED
    BY <2>1 DEF RowsGone, NoAlbumLeft, TrackRows, AlbumRows
<1>4. CASE UNCHANGED <<trackRow, albumRow>>
  BY <1>4 DEF RowsGone, NoAlbumLeft, TrackRows, AlbumRows
<1>5. QED
  BY <1>1, <1>2, <1>3, <1>4
     DEF Step, Lookup, EvictStale, Remember, ReadRows, FetchRich, FetchPoor, PlayPoor, ListLive,
         ListFails, EnsureAlbum, AlbumWriteFails, TrackWriteFails, Star,
         StarFails, Unstar, UnstarFails, DeleteFails, Forget

LEMMA RecentStaysGone ==
  ASSUME JobsSound, TablesTyped,
         NEW j \in Jobs, Step(j), NEW x \in Items, ~Adding(j, x), RecentGone(x)
  PROVE  RecentGone(x)'
<1>1. CASE Remember(j)
  <2>1. x \notin Have(j)
    BY <1>1, WriterAdds DEF Remember, At, WritePCs
  <2>2. QED
    BY <1>1, <2>1 DEF Remember, RecentGone
<1>2. CASE EvictStale(j) \/ Forget(j)
  BY <1>2 DEF EvictStale, Forget, RecentGone, TablesTyped
<1>3. CASE UNCHANGED recent
  BY <1>3 DEF RecentGone
<1>4. QED
  BY <1>1, <1>2, <1>3
     DEF Step, Lookup, ReadRows, FetchRich, FetchPoor, PlayPoor, ListLive,
         ListFails, EnsureAlbum, UpsertAlbum, AlbumWriteFails, UpsertTrack, TrackWriteFails, Star,
         StarFails, Unstar, UnstarFails, Delete, DeleteFails

(* An unstar of x removes its part of what there is of x.                  *)
LEMMA DeleteClears ==
  ASSUME TablesTyped, AlbumTable, NEW j \in Jobs, Delete(j), NEW x \in Items, job[j].item = x
  PROVE  RowsGone(x)'
<1>1. /\ \A m \in Mirrors, t \in Tracks : trackRow'[<<m, t>>] =
             IF Deletes(x, <<m, t>>) THEN "absent" ELSE trackRow[<<m, t>>]
      /\ \A m \in Mirrors, a \in AlbumIds : albumRow'[<<m, a>>] =
             IF DeletesAlbum(x, a) THEN "absent" ELSE albumRow[<<m, a>>]
  BY DEF Delete
<1>2. x \in Tracks => TrackRows(x)' = {}
  BY <1>1 DEF Deletes, TrackRows
<1>3. ASSUME NEW a \in Albums, x \in {a, ArtistOf[a]}
      PROVE  NoAlbumLeft(a)'
  <2>1. DeletesAlbum(x, a)
    BY <1>3, AboveIs DEF DeletesAlbum
  <2>2. AlbumRows(a)' = {}
    BY <1>1, <2>1 DEF AlbumRows, AlbumIds
  <2>3. ASSUME NEW t \in Tracks, NEW m \in Mirrors, AlbumOf[t] = a
        PROVE  trackRow'[<<m, t>>] # "rich"
    <3>1. x \in Above(t)
      BY <1>3, <2>3, AboveIs
    <3>2. QED
      BY <1>1, <3>1 DEF Deletes
  <2>4. QED
    BY <2>2, <2>3 DEF NoAlbumLeft
<1>4. QED
  BY <1>2, <1>3 DEF RowsGone

LEMMA UnstarringIsAt ==
  ASSUME JobsSound, NEW j \in Jobs, NEW x, Unstarring(j, x)
  PROVE  job[j].at \in UnstarPCs /\ job[j].at # "idle"
<1>1. Sound(job[j])
  BY DEF JobsSound, Idle, Unstarring
<1>2. QED
  BY <1>1 DEF Sound, Fits, Unstarring, UnstarPCs, AddingOps

LEMMA BeginKeepsQuiet ==
  ASSUME JobsSound, QuietInv, NEW j \in Jobs, NEW r \in Requests, Begin(j, r[1], r[2])
  PROVE  QuietInv'
<1> DEFINE op == r[1]
           item == r[2]
<1>1. /\ job'[j] = [op |-> op, item |-> item, at |-> First(op, item), found |-> Nothing]
      /\ job[j] = Idle /\ \A k \in Jobs \ {j} : job'[k] = job[k]
  BY DEF Begin, JobsSound
<1> SUFFICES ASSUME NEW x \in Items, unstarred'[x] = "quiet"
             PROVE  /\ \A k \in Jobs : ~Adding(k, x)'
                    /\ StarGone(x)'   \/ UnstarringAt(x, {"unstarRow"})'
                    /\ RowsGone(x)'   \/ UnstarringAt(x, {"unstarRow", "delete"})'
                    /\ RecentGone(x)' \/ UnstarringAt(x, {"unstarRow", "delete", "forget"})'
  BY DEF QuietInv
<1>2. CASE op = "unstar" /\ item = x
  <2>1. \A k \in Jobs : ~Adding(k, x)
    BY <1>2, BeginUnstarred
  <2>2. \A k \in Jobs : ~Adding(k, x)'
    BY <1>1, <1>2, <2>1 DEF Adding
  <2>3. Unstarring(j, x)' /\ job'[j].at = "unstarRow"
    BY <1>1, <1>2 DEF Unstarring, First
  <2>4. QED
    BY <2>2, <2>3 DEF UnstarringAt
<1>3. CASE ~(op = "unstar" /\ item = x)
  <2>1. unstarred[x] = "quiet" /\ ~(op # "unstar" /\ Related(item, x))
    BY <1>3, BeginUnstarred
  <2>2. \A k \in Jobs : ~Adding(k, x)'
    BY <1>1, <2>1 DEF Adding, QuietInv
  <2>3. \A pcs : UnstarringAt(x, pcs) => UnstarringAt(x, pcs)'
    <3>1. ~Unstarring(j, x)
      BY <1>1 DEF Unstarring, Idle
    <3>2. QED
      BY <1>1, <3>1 DEF UnstarringAt, Unstarring
  <2>4. /\ StarGone(x)' <=> StarGone(x)
        /\ RowsGone(x)' <=> RowsGone(x)
        /\ RecentGone(x)' <=> RecentGone(x)
    BY DEF Begin, StarGone, RowsGone, RecentGone, NoAlbumLeft, TrackRows, AlbumRows
  <2>5. QED
    BY <2>1, <2>2, <2>3, <2>4 DEF QuietInv
<1>4. QED
  BY <1>2, <1>3

LEMMA StepKeepsQuiet ==
  ASSUME JobsSound, TablesTyped, AlbumTable, QuietInv, NEW j \in Jobs, Step(j)
  PROVE  QuietInv'
<1> SUFFICES ASSUME NEW x \in Items, unstarred'[x] = "quiet"
             PROVE  /\ \A k \in Jobs : ~Adding(k, x)'
                    /\ StarGone(x)'   \/ UnstarringAt(x, {"unstarRow"})'
                    /\ RowsGone(x)'   \/ UnstarringAt(x, {"unstarRow", "delete"})'
                    /\ RecentGone(x)' \/ UnstarringAt(x, {"unstarRow", "delete", "forget"})'
  BY DEF QuietInv
<1>1. /\ unstarred[x] = "quiet"
      /\ ~((UnstarFails(j) \/ DeleteFails(j)) /\ job[j].item = x)
  <2>1. CASE UnstarFails(j) \/ DeleteFails(j)
    BY <2>1 DEF UnstarFails, DeleteFails, Failed, TablesTyped
  <2>2. CASE UNCHANGED unstarred
    BY <2>2 DEF UnstarFails, DeleteFails, Failed, TablesTyped
  <2>3. QED
    BY <2>1, <2>2
       DEF Step, Lookup, EvictStale, Remember, ReadRows, FetchRich, FetchPoor, PlayPoor, ListLive,
           ListFails, EnsureAlbum, UpsertAlbum, AlbumWriteFails, UpsertTrack, TrackWriteFails, Star,
           StarFails, Unstar, Delete, Forget
<1>2. /\ \A k \in Jobs : ~Adding(k, x)
      /\ StarGone(x)   \/ UnstarringAt(x, {"unstarRow"})
      /\ RowsGone(x)   \/ UnstarringAt(x, {"unstarRow", "delete"})
      /\ RecentGone(x) \/ UnstarringAt(x, {"unstarRow", "delete", "forget"})
  BY <1>1 DEF QuietInv
<1>3. \A k \in Jobs \ {j} : job'[k] = job[k]
  BY StepMovesOne
<1>4. \A k \in Jobs : ~Adding(k, x)'
  <2>1. job'[j] = Idle \/ (job'[j].op = job[j].op /\ job'[j].item = job[j].item)
    BY StepKeepsRequest DEF JobsSound
  <2>2. QED
    BY <1>2, <1>3, <2>1 DEF Adding, Idle
<1>5. /\ StarGone(x) => StarGone(x)'
      /\ RowsGone(x) => RowsGone(x)'
      /\ RecentGone(x) => RecentGone(x)'
  BY <1>2, StarStaysGone, RowsStayGone, RecentStaysGone
<1>6. ASSUME NEW pcs, Unstarring(j, x) => job[j].at \notin pcs
      PROVE  UnstarringAt(x, pcs) => UnstarringAt(x, pcs)'
  BY <1>3, <1>6 DEF UnstarringAt, Unstarring
<1>7. CASE ~Unstarring(j, x)
  BY <1>2, <1>4, <1>5, <1>6, <1>7
<1>8. CASE Unstarring(j, x)
  <2>1. job[j].item = x /\ job[j].at \in UnstarPCs
    BY <1>8, UnstarringIsAt DEF Unstarring
  <2>2. Unstar(j) \/ Delete(j) \/ Forget(j)
    BY <1>1, <2>1
       DEF Step, Lookup, EvictStale, Remember, ReadRows, FetchRich, FetchPoor, PlayPoor, ListLive,
           ListFails, EnsureAlbum, UpsertAlbum, AlbumWriteFails, UpsertTrack, TrackWriteFails, Star,
           StarFails, At, UnstarPCs
  <2>3. CASE Unstar(j)
    <3>1. StarGone(x)'
      BY <2>1, <2>3 DEF Unstar, UnstarredRows, StarGone
    <3>2. job'[j].at = "delete" /\ Unstarring(j, x)'
      BY <1>8, <2>3 DEF Unstar, Goto, Holding, Unstarring, JobsSound
    <3>3. QED
      BY <1>4, <3>1, <3>2 DEF UnstarringAt
  <2>4. CASE Delete(j)
    <3>1. RowsGone(x)'
      BY <2>1, <2>4, DeleteClears
    <3>2. job[j].at = "delete"
      BY <2>4 DEF Delete, At
    <3>3. StarGone(x)' \/ UnstarringAt(x, {"unstarRow"})'
      BY <1>2, <1>5, <1>6, <3>2
    <3>4. RecentGone(x)' \/ UnstarringAt(x, {"unstarRow", "delete", "forget"})'
      <4>1. CASE x \in Tracks
        <5>1. job'[j].at = "forget" /\ Unstarring(j, x)'
          BY <1>8, <2>1, <2>4, <4>1 DEF Delete, Goto, Holding, Unstarring, JobsSound
        <5>2. QED
          BY <5>1 DEF UnstarringAt
      <4>2. CASE x \notin Tracks
        BY <4>2 DEF RecentGone
      <4>3. QED
        BY <4>1, <4>2
    <3>5. QED
      BY <1>4, <3>1, <3>3, <3>4
  <2>5. CASE Forget(j)
    <3>1. job[j].at = "forget"
      BY <2>5 DEF Forget, At
    <3>2. RecentGone(x)'
      BY <2>1, <2>5 DEF Forget, RecentGone, TablesTyped
    <3>3. /\ StarGone(x)' \/ UnstarringAt(x, {"unstarRow"})'
          /\ RowsGone(x)' \/ UnstarringAt(x, {"unstarRow", "delete"})'
      BY <1>2, <1>5, <1>6, <3>1
    <3>4. QED
      BY <1>4, <3>2, <3>3
  <2>6. QED
    BY <2>2, <2>3, <2>4, <2>5
<1>9. QED
  BY <1>7, <1>8

LEMMA ExpireKeepsQuiet ==
  ASSUME TablesTyped, QuietInv, NEW t \in Tracks, Expire(t)
  PROVE  QuietInv'
<1>1. \A x \in Items : RecentGone(x) => RecentGone(x)'
  <2> SUFFICES ASSUME NEW x \in Items, x \in Tracks, recent[x] = NoEntry
               PROVE  recent'[x] = NoEntry
    BY DEF RecentGone
  <2>1. x # t
    BY DEF Expire, NoEntry
  <2>2. recent'[x] = recent[x]
    BY <2>1 DEF Expire, TablesTyped
  <2>3. QED
    BY <2>2
<1>2. UNCHANGED <<starred, trackRow, albumRow, job, unstarred>>
  BY DEF Expire
<1>3. QED
  BY <1>1, <1>2
     DEF QuietInv, StarGone, RowsGone, NoAlbumLeft, TrackRows, AlbumRows, UnstarringAt, Unstarring,
         Adding

(* An unstar that overlaps nothing that adds metadata of its item leaves   *)
(* nothing of it, in the tables and in memory, whatever else the server    *)
(* does at the same time, until a request asks for the item again.         *)
THEOREM QuietUnstarsClear == Spec => []QuietUnstarClears
<1>1. Init => QuietInv
  BY DEF Init, QuietInv
<1>2. JobsSound /\ TablesTyped /\ AlbumTable /\ QuietInv /\ [Next]_vars => QuietInv'
  <2> SUFFICES ASSUME JobsSound, TablesTyped, AlbumTable, QuietInv, [Next]_vars
               PROVE  QuietInv'
    OBVIOUS
  <2>1. CASE UNCHANGED vars
    BY <2>1 DEF vars, QuietInv, StarGone, RowsGone, RecentGone, NoAlbumLeft, TrackRows, AlbumRows,
                UnstarringAt, Unstarring, Adding
  <2>2. CASE \E j \in Jobs, r \in Requests : Begin(j, r[1], r[2])
    BY <2>2, BeginKeepsQuiet
  <2>3. CASE \E j \in Jobs : Step(j)
    BY <2>3, StepKeepsQuiet
  <2>4. CASE \E t \in Tracks : Expire(t)
    BY <2>4, ExpireKeepsQuiet
  <2>5. QED
    BY <2>1, <2>2, <2>3, <2>4 DEF Next
<1>3. QuietInv => QuietUnstarClears
  BY DEF QuietInv, QuietUnstarClears, StarGone, RowsGone, RecentGone, NoTrackLeft, UnstarringAt
<1>4. QED
  BY <1>1, <1>2, <1>3, LibraryIsSound, TableIsInvariant, PTL DEF Spec
===============================================================================

----------------------------- MODULE TrackLibrary -----------------------------
(***************************************************************************)
(* What Dhwani knows of tracks and albums, and who changes it while whom:  *)
(* the SQLite tables starred_items, track_metadata and album_metadata      *)
(* (internal/db/sqlite.go), the in-memory map CatalogService.recent        *)
(* (internal/service/catalog.go) and the handlers and background           *)
(* goroutines that read and write them (internal/httpapi/handlers.go).     *)
(*                                                                         *)
(* A job is one goroutine: the handler of star and the ingestion it leaves *)
(* running, the handler of unstar, getSong, getAlbum or search, or the     *)
(* ingestion of a played track.  One step of a job is one SQL transaction, *)
(* one critical section of recentMu, or one upstream request; between two  *)
(* steps any other job may run.                                            *)
(***************************************************************************)
EXTENDS Integers, FiniteSets

CONSTANTS
  Mirrors,       \* the providers; they serve the same catalogue under the same ids
  Tracks,        \* track ids
  Albums,        \* album ids
  AlbumOf,       \* the album of each track
  Artists,       \* artist ids
  ArtistOf,      \* the artist of each album and of its tracks
  UnknownAlbum,  \* the id "unknown-album" of a placeholder track
  Jobs,          \* goroutines that may run at the same time
  Requests,      \* the requests that arrive: pairs of operation and item
  NoItem         \* what an idle job and a search work on

TrackOps == {"star", "unstar", "getSong", "play"}
AlbumOps == {"star", "unstar", "getAlbum"}
ArtistOps == {"star", "unstar"}

ASSUME LibraryAssumption ==
  /\ Mirrors # {}
  /\ AlbumOf \in [Tracks -> Albums]
  /\ ArtistOf \in [Albums -> Artists]
  /\ Tracks \cap Albums = {} /\ Artists \cap (Tracks \cup Albums) = {}
  /\ {NoItem, UnknownAlbum} \cap (Tracks \cup Albums \cup Artists) = {}
  /\ NoItem \notin Mirrors
  /\ Requests \subseteq (TrackOps \X Tracks) \cup (AlbumOps \X Albums)
                       \cup (ArtistOps \X Artists) \cup {<<"search", NoItem>>}

Items    == Tracks \cup Albums \cup Artists
AlbumIds == Albums \cup {UnknownAlbum}

(* Metadata of a track and the provider it names.  "rich" metadata came    *)
(* from a provider; "synthetic" is the "Track <id>" by "Unknown Artist" on *)
(* "Unknown Album" of a handler that found none.  Both pass                *)
(* trackHasEssentialMetadata.                                              *)
Known  == {"synthetic", "rich"}
Meta   == [data : Known, from : Mirrors]
NoMeta == [data |-> "none", from |-> NoItem]

VARIABLES
  starred,    \* starred_items: pairs of provider and item
  trackRow,   \* track_metadata: the row of each provider and track
  albumRow,   \* album_metadata: "complete" rows have year, song_count and duration
  recent,     \* the map `recent`: the metadata it holds and whether within its TTL
  job,        \* the goroutines
  unstarred   \* history: the item was unstarred and nothing has asked for it since;
              \* "quiet" if nothing was adding metadata of it when the unstar began

vars == <<starred, trackRow, albumRow, recent, job, unstarred>>

NoEntry == [meta |-> NoMeta, fresh |-> FALSE]
Nothing == [t \in Tracks |-> NoMeta]
Idle    == [op |-> "idle", item |-> NoItem, at |-> "idle", found |-> Nothing]

PCs == {"starRow", "exact", "evict", "raw", "any", "anyEvict", "anyRaw", "rows", "fetch",
        "list", "remember", "album", "albumRow", "trackRow", "unstarRow", "delete", "forget"}

TypeOK ==
  /\ starred \subseteq Mirrors \X Items
  /\ trackRow \in [Mirrors \X Tracks -> Known \cup {"absent"}]
  /\ albumRow \in [Mirrors \X AlbumIds -> {"absent", "partial", "complete"}]
  /\ recent \in [Tracks -> [meta : Meta, fresh : BOOLEAN] \cup {NoEntry}]
  /\ job \in [Jobs -> [op : TrackOps \cup AlbumOps \cup {"search"}, item : Items \cup {NoItem},
                       at : PCs, found : [Tracks -> Meta \cup {NoMeta}]] \cup {Idle}]
  /\ unstarred \in [Items -> {"no", "busy", "quiet"}]

Init ==
  /\ starred = {}
  /\ trackRow = [k \in Mirrors \X Tracks |-> "absent"]
  /\ albumRow = [k \in Mirrors \X AlbumIds |-> "absent"]
  /\ recent = [t \in Tracks |-> NoEntry]
  /\ job = [j \in Jobs |-> Idle]
  /\ unstarred = [x \in Items |-> "no"]

-------------------------------------------------------------------------------
(* Jobs.  A definition named Mut... below is a slip the code could have    *)
(* made in the definition that follows it; the runs show that it breaks a  *)
(* property.                                                               *)

(* What the metadata rows of a track or an album name: its album and its   *)
(* artist.                                                                 *)
Above(x) ==
  CASE x \in Tracks -> {AlbumOf[x], ArtistOf[AlbumOf[x]]}
    [] x \in Albums -> {ArtistOf[x]}
    [] OTHER        -> {}

(* A request for item x may add metadata of y: of a track, its album and   *)
(* artist, of an album, its tracks, and a search of anything.  Starring an *)
(* artist adds none.                                                       *)
Related(x, y) ==
  \/ x \in {y, NoItem}
  \/ y \in Above(x)
  \/ x \in Albums /\ x \in Above(y)

Adding(j, x)     == job[j].op \notin {"idle", "unstar"} /\ Related(job[j].item, x)
Unstarring(j, x) == job[j].op = "unstar" /\ job[j].item = x

At(j, pc)        == job[j].at = pc
Runs(j, ops)     == job[j].op \in ops
Holding(j, found, pc) ==
  job' = [job EXCEPT ![j] = [op |-> @.op, item |-> @.item, at |-> pc, found |-> found]]
Goto(j, pc)      == Holding(j, job[j].found, pc)
End(j)           == job' = [job EXCEPT ![j] = Idle]
Have(j)          == {t \in Tracks : job[j].found[t] # NoMeta}

First(op, item) ==
  CASE op = "star"     -> "starRow"
    [] op = "unstar"   -> "unstarRow"
    [] op = "getSong"  -> "fetch"
    [] op = "play"     -> "exact"
    [] OTHER           -> "list"

(* A request arrives. *)
Begin(j, op, item) ==
  /\ job[j] = Idle
  /\ job' = [job EXCEPT ![j] = [op |-> op, item |-> item, at |-> First(op, item),
                              found |-> Nothing]]
  /\ unstarred' = [x \in Items |->
       CASE op = "unstar" /\ item = x ->
              IF \E k \in Jobs : Adding(k, x) THEN "busy" ELSE "quiet"
         [] op # "unstar" /\ Related(item, x) -> "no"
         [] OTHER -> unstarred[x]]
  /\ UNCHANGED <<starred, trackRow, albumRow, recent>>

-------------------------------------------------------------------------------
(* The map `recent`.                                                       *)

(* Two hours pass for an entry. *)
Expire(t) ==
  /\ recent[t].fresh
  /\ recent' = [recent EXCEPT ![t].fresh = FALSE]
  /\ UNCHANGED <<starred, trackRow, albumRow, job, unstarred>>

(* Where a job goes when a lookup finds nothing.  GetCachedTrackAny looks  *)
(* in `recent` again before it reads the rows.                             *)
OnMiss(j) ==
  CASE At(j, "exact") \/ At(j, "evict")  -> IF Runs(j, {"play"}) THEN "fetch" ELSE "raw"
    [] At(j, "raw")                      -> "any"
    [] At(j, "any") \/ At(j, "anyEvict") -> "anyRaw"
    [] At(j, "anyRaw")                   -> "rows"

Found(j, meta, pc) == Holding(j, [job[j].found EXCEPT ![job[j].item] = meta], pc)

(* A lookup finds metadata.  Star ingestion persists it, a play merges it  *)
(* with what a provider says, and getSong fills its track with it, which   *)
(* keeps the provider that answered.                                       *)
Hit(j, meta) ==
  \/ Runs(j, {"star"}) /\ Found(j, meta, "album")
  \/ Runs(j, {"play"}) /\ Found(j, meta, "fetch")
  \/ /\ Runs(j, {"getSong"})
     /\ \E m \in Mirrors : Found(j, [meta EXCEPT !.from = m], "remember")

(* recentTrack under the read lock: an entry past its TTL is evicted under *)
(* the write lock, later.  recentTrackByRawID skips such an entry.         *)
Lookup(j) ==
  /\ job[j].at \in {"exact", "raw", "any", "anyRaw"}
  /\ LET entry == recent[job[j].item] IN
       \/ entry.fresh /\ Hit(j, entry.meta)
       \/ entry = NoEntry /\ Goto(j, OnMiss(j))
       \/ entry # NoEntry /\ ~entry.fresh /\ Goto(j, CASE At(j, "exact") -> "evict"
                                                       [] At(j, "any")   -> "anyEvict"
                                                       [] OTHER          -> OnMiss(j))
  /\ UNCHANGED <<starred, trackRow, albumRow, recent, unstarred>>

(* recentTrack under the write lock. *)
EvictStale(j) ==
  /\ At(j, "evict") \/ At(j, "anyEvict")
  /\ recent' = [recent EXCEPT ![job[j].item] = NoEntry]
  /\ Goto(j, OnMiss(j))
  /\ UNCHANGED <<starred, trackRow, albumRow, unstarred>>

(* RememberTracks: the found tracks get fresh entries and every entry that *)
(* has outlived its TTL is dropped, in one critical section.               *)
Remember(j) ==
  /\ At(j, "remember")
  /\ recent' = [t \in Tracks |->
       IF t \in Have(j) THEN [meta |-> job[j].found[t], fresh |-> TRUE]
       ELSE IF recent[t].fresh THEN recent[t] ELSE NoEntry]
  /\ IF Runs(j, {"star"}) THEN Goto(j, "album") ELSE End(j)
  /\ UNCHANGED <<starred, trackRow, albumRow, unstarred>>

-------------------------------------------------------------------------------
(* Upstream requests and reads of the tables.                              *)

(* Metadata in the row of mirror m for track t. *)
RowMeta(m, t) == [data |-> trackRow[<<m, t>>], from |-> m]
TrackRows(t)  == {m \in Mirrors : trackRow[<<m, t>>] # "absent"}

(* The album a track with this metadata names. *)
HomeOf(t, meta) == IF meta.data = "synthetic" THEN UnknownAlbum ELSE AlbumOf[t]

(* GetCachedTrackAny reads the tables, any row of the track.  With none,   *)
(* or when the read fails, star ingestion asks upstream and getSong makes  *)
(* up a placeholder.                                                       *)
ReadRows(j) ==
  /\ At(j, "rows")
  /\ LET t == job[j].item IN
       \/ \E m \in TrackRows(t) : Hit(j, RowMeta(m, t))
       \/ Runs(j, {"star"}) /\ Goto(j, "fetch")
       \/ /\ Runs(j, {"getSong"})
          /\ \E m \in Mirrors : Found(j, [data |-> "synthetic", from |-> m], "remember")
  /\ UNCHANGED <<starred, trackRow, albumRow, recent, unstarred>>

(* A provider is asked for the track (GetTrack; a search before it for     *)
(* star ingestion) and has metadata of it.                                 *)
FetchRich(j) ==
  /\ At(j, "fetch")
  /\ \E m \in Mirrors : Found(j, [data |-> "rich", from |-> m],
                              IF Runs(j, {"play"}) THEN "albumRow" ELSE "remember")
  /\ UNCHANGED <<starred, trackRow, albumRow, recent, unstarred>>

(* The providers answer without metadata (the squid provider's GetTrack    *)
(* returns no error).  GetTrack fills in the row of the provider that      *)
(* answered; without one, getSong looks elsewhere and star ingestion gives *)
(* up.                                                                     *)
FetchPoor(j) ==
  /\ At(j, "fetch")
  /\ Runs(j, {"star", "getSong"})
  /\ LET t == job[j].item IN
       \/ \E m \in TrackRows(t) : Found(j, RowMeta(m, t), "remember")
       \/ Runs(j, {"getSong"}) /\ Goto(j, "any")
       \/ Runs(j, {"star"}) /\ End(j)
  /\ UNCHANGED <<starred, trackRow, albumRow, recent, unstarred>>

(* RecordPlayedTrack is left with what the first lookup found and the      *)
(* provider that answered, if any; a placeholder is not persisted.         *)
MutUnguarded(meta) == TRUE
MutAnyMetadata(meta) == meta # NoMeta
Persistable(meta) == meta.data = "rich"

PlayPoor(j) ==
  /\ At(j, "fetch")
  /\ Runs(j, {"play"})
  /\ LET meta == job[j].found[job[j].item] IN
       \/ ~Persistable(meta) /\ End(j)
       \/ /\ Persistable(meta)
          /\ \E m \in Mirrors : Found(j, [meta EXCEPT !.from = m], "albumRow")
  /\ UNCHANGED <<starred, trackRow, albumRow, recent, unstarred>>

(* The tracks of an album, or of a search result. *)
ListLive(j) ==
  /\ At(j, "list")
  /\ \E S \in (SUBSET {t \in Tracks : Related(job[j].item, t)}) \ {{}}, m \in Mirrors :
       Holding(j, [t \in Tracks |-> IF t \in S THEN [data |-> "rich", from |-> m] ELSE NoMeta],
               "remember")
  /\ UNCHANGED <<starred, trackRow, albumRow, recent, unstarred>>

(* Upstream has no such list.  getAlbum falls back to the rows that name   *)
(* the album.                                                              *)
ListFails(j) ==
  /\ At(j, "list")
  /\ LET Rows == {k \in Mirrors \X Tracks : trackRow[k] = "rich" /\ AlbumOf[k[2]] = job[j].item}
     IN \/ /\ Runs(j, {"getAlbum"})
           /\ Rows # {}
           /\ \E found \in [Tracks -> Meta \cup {NoMeta}] :
               /\ \A t \in Tracks : IF \E k \in Rows : k[2] = t
                                    THEN \E k \in Rows : k[2] = t /\ found[t] = RowMeta(k[1], t)
                                    ELSE found[t] = NoMeta
               /\ Holding(j, found, "remember")
        \/ End(j)
  /\ UNCHANGED <<starred, trackRow, albumRow, recent, unstarred>>

-------------------------------------------------------------------------------
(* Writes.  A write may fail: SQLite is busy or the context is done.       *)

AlbumRows(a) == {m \in Mirrors : albumRow[<<m, a>>] # "absent"}
HomeAlbum(j) == LET t == CHOOSE t \in Have(j) : TRUE IN HomeOf(t, job[j].found[t])

(* ensureAlbumMetadataForTrack looks for a complete row of the album; the  *)
(* read may fail.                                                          *)
EnsureAlbum(j) ==
  /\ At(j, "album")
  /\ \/ /\ \E m \in Mirrors : albumRow[<<m, HomeAlbum(j)>>] = "complete"
        /\ Goto(j, "trackRow")
     \/ Goto(j, "albumRow")
  /\ UNCHANGED <<starred, trackRow, albumRow, recent, unstarred>>

(* UpsertAlbumMetadata: the provider of the row, and what it holds then.   *)
(* Zero values do not replace what the row has.  When the row cannot be    *)
(* looked up the write fails (MutDespiteError would go on without it).     *)
MutDespiteError(a, m) == AlbumRows(a) \cup {m}
Targets(a, m) == IF AlbumRows(a) = {} THEN {m} ELSE AlbumRows(a)

MutOverwrites(old, new) == new
Merged(old, new) == IF old = "complete" THEN old ELSE new

(* A play knows the name of the album only; star ingestion has asked       *)
(* upstream, which does not know the placeholder's album.                  *)
UpsertAlbum(j) ==
  /\ At(j, "albumRow")
  /\ LET a == HomeAlbum(j) IN
       \E m \in Mirrors, new \in IF Runs(j, {"star"}) /\ a # UnknownAlbum
                                  THEN {"partial", "complete"} ELSE {"partial"} :
         \E target \in Targets(a, m) :
           albumRow' = [albumRow EXCEPT ![<<target, a>>] = Merged(@, new)]
  /\ Goto(j, "trackRow")
  /\ UNCHANGED <<starred, trackRow, recent, unstarred>>

AlbumWriteFails(j) ==
  /\ At(j, "albumRow")
  /\ Goto(j, "trackRow")
  /\ UNCHANGED <<starred, trackRow, albumRow, recent, unstarred>>

(* The tracks are written one by one. *)
NextTrack(j, t) ==
  IF Have(j) = {t} THEN End(j) ELSE Holding(j, [job[j].found EXCEPT ![t] = NoMeta], "trackRow")

UpsertTrack(j) ==
  /\ At(j, "trackRow")
  /\ \E t \in Have(j) :
       /\ trackRow' = [trackRow EXCEPT ![<<job[j].found[t].from, t>>] = job[j].found[t].data]
       /\ NextTrack(j, t)
  /\ UNCHANGED <<starred, albumRow, recent, unstarred>>

TrackWriteFails(j) ==
  /\ At(j, "trackRow")
  /\ \E t \in Have(j) : NextTrack(j, t)
  /\ UNCHANGED <<starred, trackRow, albumRow, recent, unstarred>>

(* StarTrack, StarAlbum and StarArtist name the provider that ranks first; *)
(* star goes on without the row.  Nothing is ingested of an artist.        *)
Ingest(j) ==
  IF job[j].item \in Artists THEN End(j)
  ELSE Goto(j, IF job[j].item \in Tracks THEN "exact" ELSE "list")

Star(j) ==
  /\ At(j, "starRow")
  /\ \E m \in Mirrors : starred' = starred \cup {<<m, job[j].item>>}
  /\ Ingest(j)
  /\ UNCHANGED <<trackRow, albumRow, recent, unstarred>>

StarFails(j) ==
  /\ At(j, "starRow")
  /\ Ingest(j)
  /\ UNCHANGED <<starred, trackRow, albumRow, recent, unstarred>>

-------------------------------------------------------------------------------
(* UnstarTrack, UnstarAlbum and UnstarArtist.                              *)

(* UnstarItemByAnyID: the rows of every provider. *)
UnstarredRows(item) == {k \in starred : k[2] = item}

Unstar(j) ==
  /\ At(j, "unstarRow")
  /\ starred' = starred \ UnstarredRows(job[j].item)
  /\ Goto(j, "delete")
  /\ UNCHANGED <<trackRow, albumRow, recent, unstarred>>

(* A failed unstar promises nothing. *)
Failed(j) == unstarred' = [unstarred EXCEPT ![job[j].item] = "no"]

(* The error of UnstarItemByAnyID is dropped. *)
UnstarFails(j) ==
  /\ At(j, "unstarRow")
  /\ Goto(j, "delete")
  /\ Failed(j)
  /\ UNCHANGED <<starred, trackRow, albumRow, recent>>

(* DeleteTrackByAnyID, DeleteAlbumByAnyID and DeleteArtistByAnyID: the     *)
(* tracks whose row names the item go with it, and the albums.             *)
MutDeletesOneRow(item, k) == k = <<CHOOSE m \in Mirrors : TRUE, item>>
Deletes(item, k) == k[2] = item \/ (trackRow[k] = "rich" /\ item \in Above(k[2]))
DeletesAlbum(item, a) == a = item \/ item \in Above(a)

Delete(j) ==
  /\ At(j, "delete")
  /\ trackRow' = [k \in Mirrors \X Tracks |->
                    IF Deletes(job[j].item, k) THEN "absent" ELSE trackRow[k]]
  /\ albumRow' = [k \in Mirrors \X AlbumIds |->
                    IF DeletesAlbum(job[j].item, k[2]) THEN "absent" ELSE albumRow[k]]
  /\ IF job[j].item \in Tracks THEN Goto(j, "forget") ELSE End(j)
  /\ UNCHANGED <<starred, recent, unstarred>>

DeleteFails(j) ==
  /\ At(j, "delete")
  /\ End(j)
  /\ Failed(j)
  /\ UNCHANGED <<starred, trackRow, albumRow, recent>>

(* UnstarTrack evicts the track from `recent`. *)
Forget(j) ==
  /\ At(j, "forget")
  /\ recent' = [recent EXCEPT ![job[j].item] = NoEntry]
  /\ End(j)
  /\ UNCHANGED <<starred, trackRow, albumRow, unstarred>>

-------------------------------------------------------------------------------
(* What getStarred lists: an entry for each row of starred_items joined    *)
(* with the metadata rows that match it, or with none.  A track matches    *)
(* the row of the provider the star names, an album the row of any.        *)

Joined(s, rows) == {[star |-> s, row |-> r] : r \in IF rows = {} THEN {NoItem} ELSE rows}

ListStarredTracks ==
  UNION {Joined(s, TrackRows(s[2]) \cap {s[1]}) : s \in {k \in starred : k[2] \in Tracks}}

MutSameProvider(s) == AlbumRows(s[2]) \cap {s[1]}
AlbumMatches(s) == AlbumRows(s[2])

ListStarredAlbums ==
  UNION {Joined(s, AlbumMatches(s)) : s \in {k \in starred : k[2] \in Albums}}

(* The names of artists are not modelled, so their rows match nothing. *)
ListStarredArtists == UNION {Joined(s, {}) : s \in {k \in starred : k[2] \in Artists}}

getStarred == ListStarredTracks \cup ListStarredAlbums \cup ListStarredArtists

-------------------------------------------------------------------------------
Step(j) ==
  \/ Lookup(j) \/ EvictStale(j) \/ Remember(j) \/ ReadRows(j)
  \/ FetchRich(j) \/ FetchPoor(j) \/ PlayPoor(j) \/ ListLive(j) \/ ListFails(j)
  \/ EnsureAlbum(j) \/ UpsertAlbum(j) \/ AlbumWriteFails(j) \/ UpsertTrack(j) \/ TrackWriteFails(j)
  \/ Star(j) \/ StarFails(j) \/ Unstar(j) \/ UnstarFails(j) \/ Delete(j) \/ DeleteFails(j) \/ Forget(j)

Next ==
  \/ \E j \in Jobs, r \in Requests : Begin(j, r[1], r[2])
  \/ \E j \in Jobs : Step(j)
  \/ \E t \in Tracks : Expire(t)

Spec == Init /\ [][Next]_vars

-------------------------------------------------------------------------------
(* Properties.                                                             *)

(* However ingestions and plays interleave and fail, album_metadata has at *)
(* most one row per album id ("Mirror providers can return identical raw   *)
(* album IDs. Reuse the existing row"): ListStarredAlbums joins on the     *)
(* album id alone and would list a starred album once per row.             *)
OneAlbumRow == \A a \in AlbumIds : Cardinality(AlbumRows(a)) <= 1

(* getStarred lists every star once, and an album with its metadata if     *)
(* album_metadata has any, whichever mirrors the star and the row name.    *)
(* (A track's metadata is shown only if the star names the same mirror,    *)
(* and an item starred again under another ranking has a second star.)     *)
StarsAreListed ==
  /\ \A s \in starred : Cardinality({e \in getStarred : e.star = s}) = 1
  /\ \A e \in ListStarredAlbums : e.row = NoItem => AlbumRows(e.star[2]) = {}

(* What was unstarred while nothing was adding metadata of it, and nothing *)
(* has asked for since, is gone, whichever providers it came from: its     *)
(* star rows and its metadata rows, those of an album's tracks and of an   *)
(* artist's albums too, and for a track what `recent` holds.               *)
NoTrackLeft(t) == TrackRows(t) = {} /\ recent[t] = NoEntry
NoAlbumLeft(a) ==
  AlbumRows(a) = {} /\ \A t \in Tracks, m \in Mirrors : AlbumOf[t] = a => trackRow[<<m, t>>] # "rich"

QuietUnstarClears ==
  \A x \in Items :
    unstarred[x] = "quiet" /\ (\A j \in Jobs : ~Unstarring(j, x)) =>
      /\ \A m \in Mirrors : <<m, x>> \notin starred
      /\ x \in Tracks => NoTrackLeft(x)
      /\ \A a \in Albums : x \in {a, ArtistOf[a]} => NoAlbumLeft(a)

(* The year, song count and duration of an album are not lost to a later   *)
(* write that does not know them; only unstarring the album or its artist  *)
(* removes them.                                                           *)
CompleteAlbumsStay ==
  [][\A m \in Mirrors, a \in Albums :
       albumRow[<<m, a>>] = "complete" /\ albumRow'[<<m, a>>] # "complete" =>
         \E j \in Jobs : job[j].op = "unstar" /\ job[j].item \in {a, ArtistOf[a]}]_vars

(* RecordPlayedTrack writes no placeholder, wherever it got its metadata   *)
(* ("Avoid polluting DB with synthetic placeholders when no real metadata  *)
(* could be resolved").                                                    *)
PlayNeverPollutes ==
  [][\A j \in Jobs, k \in Mirrors \X Tracks :
       job[j].op = "play" /\ job'[j] # job[j] /\ trackRow'[k] = "synthetic" =>
         trackRow[k] = "synthetic"]_vars

(* No placeholder reaches track_metadata by any path.  It does: getSong    *)
(* leaves its placeholder in `recent`, where a later star finds it and     *)
(* persists it.                                                            *)
PlaceholdersStayOut == \A k \in Mirrors \X Tracks : trackRow[k] # "synthetic"

(* Once an unstar has finished and nothing has asked for the track since,  *)
(* it is gone even if an ingestion was under way ("expected track to be    *)
(* deleted by unstar").  It is not: the ingestion writes the row after the *)
(* unstar has deleted it.                                                  *)
UnstarSticks ==
  \A t \in Tracks : unstarred[t] # "no" /\ (\A j \in Jobs : ~Adding(j, t) /\ ~Unstarring(j, t))
                      => TrackRows(t) = {}

(* A fresh entry of `recent` leaves it by its TTL or by an unstar only     *)
(* ("Keep recently viewed album tracks hot").  It does not: a lookup that  *)
(* saw the entry expired deletes the one that has since replaced it.       *)
HotStaysHot ==
  [][\A t \in Tracks :
       recent[t].fresh /\ recent'[t] = NoEntry => \E j \in Jobs : Unstarring(j, t)]_vars

(* The metadata of a starred track that nobody unstars stays ("Stores      *)
(* starred metadata in SQLite").  It does not: unstarring its album or its *)
(* artist deletes the rows of all tracks of these, and getStarred lists    *)
(* the track without its title.                                            *)
StarredMetadataStays ==
  [][\A k \in starred \cap (Mirrors \X Tracks) :
       trackRow[k] # "absent" /\ (\A j \in Jobs : ~Unstarring(j, k[2])) =>
         trackRow'[k] # "absent"]_vars
===============================================================================

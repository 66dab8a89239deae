# A verification project for Dhwani

Dhwani is a Subsonic/OpenSubsonic server that owns no music.  It asks a set of
equivalent upstream mirrors ("instances", each one a provider), keeps what it
learns in SQLite, and streams or downloads what they serve.  The TLA+ modules of
this directory model the parts of it where concurrency, ordering and failure
make the code hard to test.  TLC checks them on small instances, and TLAPS
proves the main results for every value of the constants.

Paths below are relative to the repository's `src/` directory; "catalog.go" is
`internal/service/catalog.go`, "handlers.go" is `internal/httpapi/handlers.go`,
"sqlite.go" is `internal/db/sqlite.go`.

## 1. Inventory

| Component | State | Operations | Hard behaviour | What makes it correct |
| --- | --- | --- | --- | --- |
| **Stream race** (`CatalogService.ResolveStream`, catalog.go) | per call: one worker goroutine per enabled provider, a closer, a `WaitGroup`, a buffered channel, `raceCtx`, the locals of the receiving loop | start workers, provider call, record the outcome, send or give up, receive, cancel the losers, close | every interleaving of answers, the winner's cancel, the client's disconnect and two kinds of deadline | no send on a closed channel; no stream lost between worker and loop; no goroutine left behind; truthful statistics; the caller is answered |
| **Track library** (catalog.go, sqlite.go and the handlers that use them) | tables `starred_items`, `track_metadata`, `album_metadata`, `artist_metadata`; the map `recent` with a TTL of two hours | star, unstar, ingestion after star, recording of a play, getSong, getAlbum, search, listings | star and play leave goroutines running after the reply; any write may fail alone; look up, then write | one row per album; what is unstarred goes away; complete data is not lost to incomplete data; no placeholder in the tables |
| **Provider ranking and failover** (`recordProviderResult`, `rankProviders`, `topCandidates`, the loops of `Search`, `GetTrack`, `GetAlbum`..., the prober) | `stats`: successes, failures, smoothed latency by provider | one entry per call; stable sort by score | a penalty that has to outgrow the constant 10000 of an untried provider; cancelled calls that count as failures; an attempt limit that shuts out what ranks low | a failing provider falls behind, a working one is not starved; an answer is not lost to a later error |
| **Download on star** (handlers.go) | files and `.part` files in the download directory | resolve in strict quality, fetch, detect the format, rename, tag, retry | two downloads of one track, crash between any two steps, one deadline for a batch, failure at every step | a file with a final name is all that upstream served, in a quality asked for; nothing is left behind; every job ends |
| **DASH streaming** (`internal/httpapi/dash_stream.go`) | `dashCache`: byte map per stream, 10 minutes | parse manifest, probe segments, answer ranges | maps shared by requests, short chunks, range boundaries, an upstream that ignores Range | the bytes sent are the bytes asked for, or the reply is detectably cut |
| **Subsonic handlers** (`internal/httpapi/server.go`, handlers.go) | none of their own | decode, call the service, format | deadlines of stream and star | see the components they call |
| **Squid provider** (`internal/provider/squid`, `internal/provider/quality.go`) | none | HTTP calls, quality fallback, JSON normalisation | order of qualities, strict quality | asks for the best quality allowed |
| **Provider registry** (`internal/provider/provider.go`) | list of providers, filled at startup | register, list enabled | none after startup | - |
| **Startup, prober, shutdown** (`cmd/dhwani/main.go`) | HTTP server, prober goroutine | load instances, serve, shut down | background work is not awaited at shutdown | a leftover of a dead process is not taken for a download |
| **Configuration, authentication, reply encoding, data types** | none | pure functions of one request or of the environment | none | - |

How they interact.  A handler calls the catalogue service; the service ranks the
enabled providers and either asks them one after another (failover) or all at
once (the race).  Race and failover both write `stats`, which the ranking reads.
Handlers put what they show into `recent`; star ingestion, which runs in a
goroutine after the reply, reads `recent` before it asks upstream, and writes
the tables.  Streaming starts the ingestion of the played track.  Star starts the
downloads after the ingestion; a download runs the race.

## 2. Modules

| Module | What it is |
| --- | --- |
| `StreamOutcome` | abstract: what `ResolveStream` promises its caller |
| `StreamRace` | the goroutines, channel, context and counters of `ResolveStream`; implements `StreamOutcome` |
| `MCStreamRace` | its instances for TLC |
| `StreamRaceProofs` | its invariants and the refinement, proved |
| `TrackLibrary` | tables, `recent`, and the goroutines that read and write them |
| `MCTrackLibrary` | its instances for TLC |
| `TrackLibraryProofs` | its types and all properties its passing runs check, proved |
| `Failover` | statistics, ranking, the sequential loops, the prober |
| `MCFailover` | its instance for TLC |
| `FailoverProofs` | its types and properties, proved |
| `SquidStream` | pure: which qualities the squid provider asks for, what becomes of the answers, and GetTrack |
| `Download` | the goroutines that download, and the directory they write; asks `SquidStream` for its streams and tracks |
| `MCDownload` | its instances for TLC |
| `DownloadProofs` | its types, safety properties and progress, proved |
| `DashStream` | requests to /stream: byte maps, probes, ranges, the copy of chunks |
| `MCDashStream` | its instance for TLC |
| `DashStreamProofs` | its types and safety properties, proved |
| `OrderLemmas` | pure: initial segments, least and greatest numbers, the rank of an element in a finite order, induction up to a bound, which the proofs of `Failover`, `Download` and `DashStream` need |

Definitions whose name starts with `Mut` are not part of the specifications: each
is a slip the code could have made in the definition that follows it, and each
property is broken by one of them (`PROJECT.json`, "mutants").

### 2.1 StreamRace

| Code (catalog.go, `ResolveStream`) | Model |
| --- | --- |
| the goroutine of the caller: loop over candidates, `range results`, returns | `main`, `Spawn`, `StartReceiving`, `TakeSuccess`, `TakeError`, `ReturnDefeat` |
| a worker | `pc[p]`, `CallEnds`, `Record`, `Send`, `Drop`, `Exit` |
| `go func() { wg.Wait(); close(results) }()` | `closer`, `CloseResults` |
| `wg`, `results`, `raceCtx.Err()` | `wg`, `results`, `raceErr` |
| `lastErr`, `fullMissingCount`, `resultCount` | the same names |
| the entry written by `recordProviderResult` | `recorded` |
| the client disconnects, or its deadline passes | `CallerLeaves` |

A provider call is its outcome: a stream, `ErrNoFullStream`, another error, or an
error that wraps `DeadlineExceeded` or `Canceled`.  The last is possible only
after `raceCtx` was cancelled, since the attempt's own timer yields
`DeadlineExceeded`.  The channel holds names of candidates, a result being the
candidate's outcome.  `heard` is a history variable.  Which order the ranking
gives the candidates is left open.

`TakeSuccess` is one step although the code calls `cancel` and returns after
receiving: between these the goroutine touches nothing shared but `raceCtx`, and
a worker that runs in between cannot tell the difference from one that runs
before the receive.

`StreamOutcome` has four variables: outcomes, whether the caller still waits, the
verdict and the winner.  `StreamRace` implements it with `caller` mapped to
"gone" when `raceCtx` ended by disconnect or deadline.

### 2.2 TrackLibrary

A job is a goroutine.  Its steps are the points at which another goroutine can
run in between: one SQL transaction, one critical section of `recentMu`, one
upstream request.

| Code | Model |
| --- | --- |
| handler `star`, then the goroutine of handlers.go:1275 | `Star`/`StarFails`, `Lookup` (up to twice), `EvictStale`, `ReadRows`, `FetchRich`/`FetchPoor` or `ListLive`/`ListFails`, `Remember`, `EnsureAlbum`, `UpsertAlbum`, `UpsertTrack` |
| handler `unstar`: `UnstarTrack`, `UnstarAlbum`, `UnstarArtist` | `Unstar`, `Delete`, `Forget` and the failures |
| `RecordPlayedTrack` | `Lookup`, `FetchRich`/`PlayPoor`, `UpsertAlbum`, `UpsertTrack` |
| handlers getSong, getAlbum, search | `FetchRich`/`FetchPoor`, `Lookup`, `ReadRows`, `ListLive`/`ListFails`, `Remember` |
| the TTL of an entry of `recent` | `Expire` |
| `recentTrack` (read lock, later write lock) | `Lookup`, then `EvictStale` |

What the data is reduced to.  Metadata of a track is "rich" (a provider said it)
or "synthetic" (the handler's placeholder), with the provider it names.  An album
row is "complete" when it has year, song count and duration, else "partial".
Mirrors serve the same catalogue under the same ids; an album and its tracks are of
one artist, and `Above` gives the album and the artist that rows of an item name.
Any write, and any read
whose failure the code tolerates, may fail (SQLite is busy, or the context is
done); a request's failure and an empty answer are one outcome where the code
treats them alike.  `Squid.GetTrack` returns no error, so the model has no
failing GetTrack, only one without metadata.

`unstarred` is a history variable: for each item whether it was unstarred and
nothing has asked for it since, and whether something was adding metadata of it
when the unstar began ("busy" or "quiet").

`getStarred` is the set of entries the listing shows: the joins of `starred_items`
with the metadata tables.

Left out: `artist_metadata`, the names of artists, which is written and deleted beside
the other tables, so `getStarred` lists an artist by its star alone; the other
read-only listings; `EnsureWarmIndex`, which has no
caller.  The options that ingest on star and on play are on.

### 2.3 Failover

| Code (catalog.go) | Model |
| --- | --- |
| `recordProviderResult` | `RecordSuccess`, `RecordFailure` |
| `providerRankScore`, `rankProviders`, `topCandidates` | `Score`, `Before`, `Ranked`, `TopCandidates` |
| `Search`, `GetAlbum`, `GetArtist`, `GetArtistAlbumsLive`, `GetAlbumTracksLive` | a caller with op "first" |
| `GetTrack`, `hydrateTrackFromProviderSearch`, `GetLyrics`, `probeProviders` | ops "track", "hydrate", "lyrics", "probe" |
| the client leaves, the deadline passes | `Leave`; a call made then fails, and counts as a failure |

Each call is one step, with its latency in whole milliseconds; the code smooths
durations and compares floating point milliseconds, which agree with this at the
constants in use.  A provider is sick (never answers), reliable (answers while the
client waits) or flaky.  The limits `MaxSuccesses` and `MaxFailures` bound the
counters of one provider.

### 2.4 SquidStream and Download

`SquidStream` is a set of pure operators: `Qualities` is the list that
`fetchTrackPayload` tries, `Resolve` what `ResolveStream` makes of the answers, and
`GetTrack` how a track is put together from two endpoints, reduced to its content
type.  An instance asked for one quality may answer with the payload of another,
which is its `format`: nothing in `ResolveStream` compares the two.  `Download` takes
everything these can return, whatever the instance says.

| Code (handlers.go) | Model |
| --- | --- |
| the goroutine of star, `downloadStarredAlbum` | a job: `NextTrack`, `JobEnds` |
| `downloadStarredTrackWithRetry` | `attempt`, `Fail`, `Retry`, `GiveUp` |
| `GetTrack`, `ResolveStream` for each quality | `ResolveWorks`, `AskNext`, `ResolveFails` |
| `os.Stat`, `os.Create`, `getOrBuildDashMap`, the copy, `Close` | `Stat`, `Create`/`CreateFails` with `Mapped`, `Write`/`WriteFails` with `Served`, `Close` |
| `detectAudioExtFromFile`, `os.Rename` | `Detect`, `Rename`, `RenameFails` |
| `tagDownloadedAudio` | `Tag`, `TagFails`, `Retag` |
| the process ends (main.go:133) or dies | `Crash`; the files stay, and the items are starred again |

Files are inodes: a rename moves a name, an open file outlives its name, and
`os.Create` truncates the file that has the name.  A file is a few pieces, each of
one format, cut short ("cut") or not written ("hole").  The path of a track is
reduced to its extension, which the code guesses before the download and corrects
after it.  The 90 seconds of the context may be over at any step: every call may fail
with a network error.

A DASH stream (`Segmented`) may lose part of any segment without an error:
`copyChunkRange` takes the end of a short body for success (dash_stream.go:377), and
a probe answered "bytes 0-0/*" makes a segment one byte long (dash_stream.go:249).
`Served` has what a piece may turn out to be.  A body that is no DASH stream ends
where upstream says, or the copy fails.  A download takes its byte map from the cache
it shares with the streams (handlers.go:1559).  A manifest without a hash (outside
`Hashed`) has a key made from its first 64 characters, so the map may be that of
another quality of the track (`Mapped`); which maps the cache holds at that moment is
left open.  `misled` is a history variable: the tracks for which an instance, or such
a map, gave another format than the quality asked for.

Left out: the .lrc sidecar and the temporary cover art file, which no other step
reads.

### 2.5 DashStream

| Code (dash_stream.go) | Model |
| --- | --- |
| `stream`, `proxyBinary` (handlers.go) | `Resolve`, `Proxy` |
| `parseDashPlan` | `Count`, `GoodPlan`, `Plan` |
| `getOrBuildDashMap`, `probeContentLength` | `Lookup`, `Probe`, `Store`, `Probed`, `WithChunk` |
| `parseStreamRange` | `ParseRange` |
| `copyDashBytes`, `copyChunkRange` | `Skip`, `CopyChunk`, `CopyFails`, `Discarded` |
| the TTL of an entry | `Expire` |

A byte is the file, the segment and the offset it comes from, so a reply shows
whether the right bytes came in the right order.  The key of a manifest is its hash,
or else its first 64 characters (`KeyOf`), as in `dashCacheKey`.  The references are
set-valued: `Announced` has the segments a timeline means, by the DASH standard,
counted from where the code starts to count; `Bytes` those of
the file, `Offset` the number of bytes before one of them, and `Wanted` the offsets
that a header of a kind the code supports asks for, by RFC 9110.  Of the other
headers (`Supported` is false) `Wanted` says nothing.  The code's sums, of repeats (`Count`) and of
lengths (`WithChunk`), are compared with them.  Upstream answers a chunk request with
206 or with 200, a short body, or not at all, and may not tell a length.

## 3. Runs

| Run | Expect | What it shows |
| --- | --- | --- |
| `stream_race` | pass | three mirrors: `NoSendAfterClose`, `SendNeverBlocks`, `NoFalseDefeat`, `StatsAreFair`, the refinement `KeepsPromise`, and under fairness `Answered` and `NoGoroutineLeaks` |
| `stream_nofull` | violation | two mirrors: `NoFullIsUnanimous` fails |
| `library_tracks` | pass | two goroutines, one track and its album, every operation but search: `OneAlbumRow`, `QuietUnstarClears`, `CompleteAlbumsStay`, `PlayNeverPollutes` |
| `library_albums` | pass | two goroutines, an album of two tracks, star and unstar of the album, unstar of its artist, and searches that return either or both tracks: `OneAlbumRow`, `StarsAreListed`, `QuietUnstarClears`, `CompleteAlbumsStay` |
| `library_unstar` | violation | star and unstar of a track only: `UnstarSticks` fails |
| `library_placeholder` | violation | `PlaceholdersStayOut` fails |
| `library_hot` | violation | `HotStaysHot` fails |
| `library_starred` | violation | one goroutine suffices: `StarredMetadataStays` fails |
| `failover` | pass | a client and the prober, three mirrors of which a loop asks two: `FailingFallsBehind`, `LearntRankingServes`, `NoAnswerIsLost` |
| `download` | pass | two jobs, one track, two attempts, one crash: `SoloDownloadsAreAsServed`, `NoLitter`, `OnlyRequestedQualities`, `JobsAdvance` |
| `download_race` | violation | `DownloadedIsWhole` fails |
| `dash` | pass | two requests, three files, four good manifests and a broken one: `RepliesAreSlices`, `RangesAreAnswered`, `CachedMapsFit`, and under fairness `RequestsEnd` |

The bounds.  Three mirrors make a winner, a loser whose result is received or
lies in the channel, and a loser still in its call, all at once; with two the
channel never holds results that are left unread beside a running worker.  The
race is over after finitely many steps, so no counter needs a bound.  For the
library, two jobs are the least that interleave, and an idle job starts another
request, so a run holds histories of any length; two mirrors are the least for
which rows of different providers can disagree.  One track suffices for
`library_tracks`, as the requests about different tracks meet only in the
album's rows, and those are covered by two jobs about one track.
`library_albums` has two tracks so that a job can fail between them.  Requests
for an album and for single tracks of it meet only as getAlbum and search in
`library_tracks`; a run with both kinds of star and two tracks exceeds what
can be enumerated in minutes, as does one where artists are starred in
`library_albums` (a star of an artist writes one row and ingests nothing;
`library_starred` has it), and the theorems of section 5 cover it for two properties.

`failover` has three mirrors and an attempt limit of two, so that one can be shut
out; four failures take a mirror past the 10000 of an untried one (5000, then
1500 and 400 or more for each further failure), so failures are counted to five.
One success is enough to tell an answering mirror.  The four kinds of company are
those in which the order matters: two sick mirrors before the good one, a sick and
a flaky one, a sick one last, and two good ones.

`download` has two jobs for one track, the least that share a `.part` file; two
pieces, so that a file can be half written; two attempts, so that one is retried;
two formats an instance may serve, both in segments and without a hash, of which one
ends up under another extension than the one guessed; a setting that repeats a quality,
has an empty entry and one the instances never serve; and one crash, after which
everything starts again.  Nine inodes are one more than two open files and the six
names made from two extensions and three kinds, so one is always free.

`dash` has one request that carries any kind of Range header, with offsets at,
within and across segment boundaries and beyond the end, and another that shares
the cache with it; two manifests of one file with the same hash and different
URLs, so that a map built from one serves the other; and two that begin alike and have
no hash, of files with different segments, so that the map of one serves the other
wrongly.

Symmetry is used only in runs without liveness: mirrors, jobs and tracks appear
in the specifications only as members of their sets, in `Download` jobs do.  In
`TrackLibrary` `CHOOSE` is applied to
them in `HomeAlbum`, where every choice gives the same album because the tracks
a job holds together are either all rich and of one album or a single one.

The run `download` looks at states through `MCView`, which forgets the numbers of
the inodes: what matters is what stands under each name, and for an open file its
content, the names it stands under and which jobs hold it.  Nothing is lost, as no
two names share an inode (`OneName`, an invariant that `DownloadProofs` proves).  Of
a file of a track that is both `overlapped` and `misled` it keeps only the first piece
(`Seen`): both histories stay as they are for good, no property of the run then speaks
of the file, and its first piece is all a step reads (`Detect`).

The passing runs and their distinct states: `stream_race` 250,352, `library_tracks`
2,524,727, `library_albums` 1,539,431, `failover` 1,530,061, `download` 1,181,489 (under
the view and symmetry), `dash` 159,506; each takes at most two minutes on two workers.

Deadlock is checked for the race, whose `Finished` step marks the proper end.
The library's configurations say `CHECK_DEADLOCK FALSE`: an idle server is not
an error, and jobs always can start, so the check would say nothing; that of
`failover` says so because its counters are bounded.  `Download` and `DashStream`
are checked for deadlock; their `Rest` and `Answered` mark the proper end.

### What disagrees with the code's own words

- `NoFullIsUnanimous`: `ResolveStream` counts the providers without a FULL stream
  so as to return `ErrNoFullStream` when all of them have none, but otherwise it
  returns the error received last, which can be `ErrNoFullStream` too.  One
  provider that times out and one without FULL give either error, by the order
  of their results.  The download's retry rule then gives up on the one and
  retries the other.
- `UnstarSticks`: the ingestion a star has left running (handlers.go:1275) writes the
  track after an unstar has deleted it.  `QuietUnstarClears` is what does hold: an unstar that
  began while nothing added metadata of the item leaves nothing of it.
- `PlaceholdersStayOut`: getSong stores its placeholder in `recent`, a later star
  takes it from there and writes it to the tables, over a rich row of the same
  provider if there is one.  `PlayNeverPollutes` is what does hold: a play does
  not write placeholders.
- `HotStaysHot`: `recentTrack` sees an expired entry under the read lock and
  deletes the entry under the write lock without a second look; an entry
  refreshed in between is lost.
- `StarredMetadataStays`: unstarring an album or an artist deletes the metadata of
  all its tracks, also of those that are starred; getStarred then lists them
  without title.
- `DownloadedIsWhole`: two jobs that download one track share its `.part` file.
  The second empties it just before the first renames it, then fails: a file of
  holes stays under the final name and was reported as downloaded.
  `SoloDownloadsAreAsServed` is what does hold: without such an overlap, what stands
  under a final name is every piece upstream served of one stream, whichever step
  failed and whenever the process died.  That is not the same as a whole file, see
  the first observation.

Observations the properties are stated around.
- A DASH download without any other job can be truncated and keep its final name: a
  segment whose body ends early is copied without an error (dash_stream.go:377), and
  the rename follows (handlers.go:1570-1615).  A stream to a player has a
  Content-Length that is then not met, so `RepliesAreSlices` holds; a file has none.
- A probe answered "bytes 0-0/*" makes the segment one byte long (dash_stream.go:249).
  The properties of replies speak of maps whose lengths upstream told; `CachedMapsFit`
  names the exception.
- Without a manifestHash, manifests that agree in 64 characters share a cache key
  (dash_stream.go:206-211), so a reply may be of another file than the one resolved and
  a download of another quality.  `RepliesAreSlices` says that a reply is a slice of
  one file, and of the file resolved if its manifest has a hash.
- Nothing compares the quality of a payload with the one asked for, so a strict
  quality is what was asked, not what was got.  `OnlyRequestedQualities` leaves out
  the tracks to which an instance, or a shared map, did that.
- Ranges of an unknown unit, several ranges and numbers beyond 64 bits are answered
  with 416 (dash_stream.go:274-280); by RFC 9110 the first would be ignored and the
  second served, ignored or rejected.  `RangesAreAnswered` says for
  them only that they are never taken for a part; for the headers the code supports it
  compares its answer with what the RFC makes of the header.
- A startNumber of 0 in a manifest is read like none, that is as 1
  (dash_stream.go:80-83); the DASH standard has it begin at 0.  `Announced` begins
  where the code does, so no property is about this.
- A track's metadata is listed only if its star names the mirror that wrote it.

## 4. Fairness

`StreamRace` assumes weak fairness of the caller's goroutine, of each worker and
of the closer: the Go scheduler runs every ready goroutine.  That `CallEnds`
happens is justified by `providerCallCtx`, which puts a timeout on every attempt
(6 s when none is configured).  Nothing makes a caller leave, so `CallerLeaves`
has no fairness; neither `Answered` nor `NoGoroutineLeaks` needs it.  A weakly
fair worker may choose either branch of its select for ever; it need not, as each
branch leads to its exit.

`DashStream` assumes weak fairness of each request.  The stream client has no
timeout, so what justifies it is that upstream answers or breaks the connection, or
that the client goes, which cancels the calls made for it.  `Expire` needs none.

`TrackLibrary` and `Failover` assume none; their properties are about safety.
`Download` assumes none either: that its jobs end is stated as `JobsAdvance`, each
step of a job brings it nearer to its end by a measure that only a crash resets,
together with the absence of deadlock.  Stated as liveness it would have to be
checked without symmetry and view, over several times as many states.

## 5. Proofs

All theorems hold for any values of the constants that satisfy the assumptions of
the modules:
- `CandidatesAssumption`: a finite, non-empty set of candidates; without candidates
  the code returns before the race;
- `LibraryAssumption`: at least one mirror; ids of tracks, albums and artists are
  distinct, and none is the sentinel `NoItem`; every track has an album, every
  album an artist;
- `FailoverAssumption`: finitely many providers, with distinct names, which
  `Register` enforces; an attempt limit between one and five, as
  `SetMaxProviderAttempts` clamps it; latencies of at most the
  30 s to which `SetProviderAttemptTimeout` clamps the limit of an attempt;
- `FormatsAreAnswers`: a format is the payload of a track, not one of the other things
  an instance may say, and there are finitely many;
- `DownloadAssumption`: finitely many jobs and tracks, at least one attempt and one
  piece, and a file system that has room for one more file;
- `DashAssumption`: a timeline is a list of pairs of integers and a segment has at
  least one byte; a Range header is of one of the kinds the parser distinguishes, and
  its start, which ends at the first "-", has no sign;
- `SegmentsExist`: upstream has the segments its manifests list;
- `HashesTellFilesApart`: good manifests with one manifestHash (of one provider and
  track) are of one file and announce the same segments.  Of manifests without a hash
  nothing is assumed: two of them may share a key and be of different files.

Every property that a passing run checks as an invariant or an action property is
a theorem.  Few of them are inductive; what each
proof adds is this.

**`StreamRaceProofs`**: `TypeCorrect`, `SendsBeforeClose`, `RoomForEveryResult`,
`DefeatIsTrue`, `StatsTellTheTruth`, `PromiseKept`.  The strengthening `IInv` adds
- `WgCounts`, the wait group counts the workers that run, so that zero means that
  all of them have exited (`Closed`) once all were started (`Started`);
- `Channel`, each result is in the channel or heard, once, and its worker is past
  its select; so the results are no more than the candidates and the buffer has
  room;
- `NothingLost`, while `raceCtx` is live a worker past its select has delivered:
  the argument why a defeat is true;
- `Loop` and `Decided`, what the locals of the loop say about what was heard, and
  how the verdict, the winner and the context go together.

There is one lemma for each action that shows what it preserves.  `PromiseKept`
maps the initial states and every step: a receipt of a success is `Succeed`, the
return after the channel is closed is `Defeat` or, once the caller left,
`Abandon`; the rest are `Conclude`, `Leave` or stutter.

**`TrackLibraryProofs`**, in three layers.
- `AlbumTable` (the type of the table, and that two rows of one album are the same
  row) is kept by the album's upsert because it takes the row that exists, whatever
  provider the caller names: `AlbumRowsAreUnique`.  From it, and because a track's
  star names one provider, each star joins with one row at most: `StarsListedOnce`.
- `JobsSound` and `TablesTyped` say what a goroutine holds at each of its steps
  (which item, which tracks found, which album on the way to be written) and what
  a row may be: `LibraryTypeCorrect`.  That only a play's goroutine is at a play's
  step, and holds what a provider said, gives `PlaysWriteNoPlaceholder`; that only
  an "unstar" is at a step that deletes gives `CompleteAlbumsAreKept`.
- `QuietInv` relates the history variable `unstarred` to the goroutines: while an
  unstar of an item is under way and quiet, nothing adds metadata of the item, and
  each table the unstar has passed is empty of it; afterwards all are, and nobody
  is about to add any: `QuietUnstarsClear`.

**`FailoverProofs`**.  The ranking is a `CHOOSE` of a sorted list; that there is one
for every finite strict order, and only one, is `OrderLemmas` (an element's rank is
the number of elements up to it, and ranks are a bijection with 1..n).
- `TypeCorrect` needs it, since otherwise a plan might be no list of providers.
- `FailingProvidersFallBehind` rests on `Charged`: the score of a provider carries
  1500 and more for each failure since its last answer, on top of a smoothed
  latency that a failure cannot make small.
- `NoAnswerGetsLost` rests on `AnswersAreKept`: what a loop holds as its best is
  an answer if any provider it asked gave one.
- `LearntRankingAnswers` rests on `SickRanksLast` (in a state in which the ranking
  has learnt, a reliable provider is before every sick one, hence within the first
  `MaxProviderAttempts`) and on `HopeIsKept`, that the plan of a loop made in such
  a state still has such a provider ahead, or its answer.

**`DownloadProofs`**.  Five invariants.
- `JobInv`: types, and what a job knows at each step (`Sound`), and that a final
  name once given always stands for some file (`Tagging`).  With it goes
  `EveryStepAdvances`, by the stage of a job within an attempt.
- `FilesInv`, on top of it: no file has two names, and the file a job has open has no
  name of another track.  It needs `FreshInodeIsFree`, a count of names and open files.
- `Tidy`: while the process has not died every temporary file has a job that is at
  a step between making it and taking it away: `NothingIsLeftBehind`.
- `SoloInv`: for a track outside `overlapped`, at most one job is busy with it; the
  `.part` file has the pieces written so far and holes after them, and from `Close` on
  all that upstream served of one stream; the steps of other jobs do not touch it
  (`ForeignFiles`, from `FilesInv`): `SoloDownloadsFinish`.
- `AskedInv`: for a track outside `misled`, the stream a job is about to write is of a
  requested quality, and so is every piece of the files that have its names, whoever
  wrote them.  It takes `FilesInv` again, since a write is seen under every name of the
  file that is open, and that a strict list has just the quality asked for:
  `QualitiesAreHonoured`.

**`DashStreamProofs`**.  First what the code computes, for any manifest and any sizes.
- `CountIsRight` and `PlanIsAnnounced`: the loop over the timeline lists the segments
  announced, in order.  `Count` is a recursive function over a timeline of bounded
  length, so the induction is one over a set of numbers (`BoundedInduction`).
- `EarlierSegments` and `OffsetsNumberTheBytes`: how many bytes come before a
  segment, and that `Offset` numbers the bytes of the file without a gap, from
  `RankIsBijection`.  `BytesAtOffsets`: as many bytes as offsets.
- `ChunksAreWhereTheBytesAre`: a map of true lengths starts each chunk at the offset
  of its first byte and is as long as the file.
- `RangesMeanWhatTheySay`: of the supported headers `ParseRange` accepts those that
  want a byte, and gives the offsets they want.

`IInv` then says what a request has at each step: the map it builds lists the first
segments of its manifest (`Chunks`), what it stores or takes from the cache is the
whole map of some manifest with its key (`Whole`), and its reply is what `ParseRange`
gives for that map (`Replied`).  From it come `DashTypeCorrect`, `CacheFits` and,
since a range is answered by the length of the map's own file, `RangesAnswered`.
That a hash names the file resolved is `HashedSourceIsTheFile`.
`RepliesCorrect` needs one more invariant, `Written`: what is written lies in the
slice asked for, in order, and before the chunk copied next.  It is kept because a
piece lies within its chunk and the span (`FetchWritesAPiece`, `PieceFits`) and chunks
are in the order of the file.  Bytes in order are written once each, so a reply of
the declared length has all of the slice, by counting.

Only model-checked:
- liveness (`Answered`, `NoGoroutineLeaks`, `RequestsEnd`), which is out of the
  prover's reach, as is everything about ENABLED;
- the pure operators of `SquidStream` (what `Qualities` and `GetTrack` return), beyond
  what `QualitiesAreHonoured` uses of them;
- the disagreements of section 3, which are violations that TLC shows.

Definitions had to suit the prover in four places, without a change to what they
describe: `Distinct` takes a list's elements at the places where they are seen first,
instead of recursion; `NoQuality` names the empty string; and `Download` has inodes
enough for every name and open file by an assumption instead of by the choice of an
instance.  In `DashStream` the sum of repeats is a recursive function, and the
reference is a set of bytes with their offsets where it was the concatenation of the
segments' bodies: a reply is a slice if what it has written is that set, in order.

## 6. Plan

Done: all modules of section 2, and the theorems of section 5.  What is left, in
order of importance:

1. Theorems about `SquidStream`: the qualities asked for hold each quality once and
   only allowed ones, whatever the instance answers.
2. `artist_metadata`, if the names of artists should get properties.

## 7. Not modelled

Configuration, authentication, reply encoding and the record types have no
behaviour over time.  The registry is constant after startup.  The squid
provider's normalisation of searches, albums, artists and lyrics and its HTTP
details are data conversion: the models take its results as inputs.  Startup reads
instance lists and wires the parts together, in order and once.  Read-only handlers,
lyrics and cover art change no shared state.

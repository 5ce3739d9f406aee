# A TLA+ model of foto

foto takes photographs of teams (patruljer) from a camera app, stores them, announces
them on an event stream and serves them. It is a small Go service (`go/`) whose difficulty
is not in its size: a photograph of a child must neither be lost, nor be attributed to the
wrong team, nor be announced and not be there, whatever fails or restarts in between.
This directory holds TLA+ modules of its core, the TLC configurations that check
them, and proofs that TLAPS checks. Paths below are relative to `src/go/`.

## The system

| Component | State | Operations | Hard behaviour |
|---|---|---|---|
| Ingest (`cmd/api/callback.go`, `ingest.go`) | none of its own; a goroutine per call | `POST /callback/kamera`: ready, resolve, fetch, prepare, store, publish, answer | interleaved calls, replays, a failure at any step, hang-ups, restarts |
| Readiness, lazy publisher (`main.go`, `eventing.go`) | the publisher held, the mux, the dead-letter writer | connect in the background, register, run, arm, reset | started before the broker; callback order at boot |
| Team number resolver (`internal/teamnumber`) | reads the `patrulje` table | `TeamIDByNumber` | numbers change, are doubled, are empty |
| Fetcher (`internal/fetcher`) | none | `Fetch`, redirect checks | servers that redirect, lie, dribble |
| Blob store (`internal/blob`) | files named by content hash | `Put`, `Get`, `Exists`, `Delete` | concurrent calls, a write cut short, power loss |
| Photo entity (`nathejk/table/photo`) | the `photo` table; events on NATHEJK | `Publish`, `Purge`, two handlers, queries | replay, redelivery, older events, purges, dead-letters |
| Imaging (`internal/imaging`) | none | `Prepare`, EXIF orientation, scaling | limits, overflow, malformed input |
| Serving (`cmd/api/photos.go`, `query.go`) | reads table and store | bytes of a ref, a team's list | row and bytes that disagree |
| Server, configuration, healthcheck | the HTTP server | serve, shut down | timeouts against a slow ingest |

How they interact: a call to the callback passes `ready` (is a publisher held?), queries
the `patrulje` table, which a library's projection writes, fetches the bytes from the URL
in the payload, decodes them, does one `Put` for each of original, display image and thumbnails,
and publishes `NATHEJK.<year>.patrulje.<teamId>.photographed`. The photo projection consumes
that subject and `photopurged`, and writes the `photo` table. The camera app writes
a line into `webhook-failed.jsonl` for every answer but 200, and an operator replays the lines.

What makes each part correct:

- *Ingest*: bytes before event; 200 only for what is on the log; nothing stored for a photograph
  that is refused; an original before its renditions; no shot dropped; the attribution is of this very call.
- *Resolver*: an event's team held its number alone at some time, never one of two and never
  a team without a number.
- *Photo projection*: the table is the fold of the log, whatever it held at boot; an event touches
  its own rows only; no event holds up another.
- *Blob store*: each call is atomic; a name holds all of its object or nothing.
- *Fetcher*: the allowlist holds at every hop; bounds on hops, bytes and time; a body is whole;
  a refusal says whose fault it was.
- *Imaging*: the photograph is upright for the orientation the camera declared; renditions agree in shape and
  order; each is made of every source pixel once; nothing overflows; every file is come to an end with.
- *Serving*: a row names what has been stored; no original is served; what a row shows during the whole
  request is found; what is announced is listed in the end.

## Modules

| Module | What it is |
|---|---|
| `PhotoContract` | what foto promises: store, announce, acknowledge, in this order |
| `Ingest` | the callback pipeline, the readiness gate, the resolver, the camera app; implements `PhotoContract` |
| `Projection` | the photo events, the stream, the two handlers, a boot from connect to arm, restarts |
| `ObjectStore` | what `blob.Store` promises: calls with one atomic effect (and what `MemoryStore` does) |
| `FileStore` | the file store, one file system call at a time; implements `ObjectStore` |
| `PowerLoss` | `FileStore` on a disk that is written back later |
| `Fetcher` | one `Fetch` against arbitrary servers, and `fetchRejection` |
| `System` | photographs from ingest over the stream and the table to the reader; extends `Projection` |
| `Imaging` | `Prepare`: bounds, the scan for the EXIF orientation, the turn, the renditions |
| `MC*` | the small instances TLC checks |
| `*Proofs` | the theorems about the module, with their proofs; `FileStoreProofs` is about `PowerLoss` as well |
| `Loops` | facts about bounded loops that proofs use: least elements, induction up to a bound, the states a loop runs through |
| `RenditionProofs` | what the two loops over a body's renditions compute, and so what the thumbnail column of a row is |

Each module also holds some *mutants*: an operator such as `StorePartShort` placed before
`StorePart` is that operator with a plausible bug. `PROJECT.json` names, for every property
of every passing run, a mutant under which TLC finds the property violated.

### Ingest

`pc[r]` is the step request goroutine `r` is about to take; `shot`, `team`, `stored` and `code`
are its locals, `gone` its cancelled context. One action is one call that reads or writes
shared state: `Resolve` is the query, `StorePart` one `Put`, `Publish` the publish. Every way a step can fail is
an action of its own (`ResolveUnknown`, `ResolveAmbiguous`, `ResolveFails`, `FetchFails`, ...), so that all
rejections of the taxonomy occur. `PublishUnconfirmed` is a message the broker took although the
caller sees an error. Publishing takes no context in the code, so `Publish` has no guard on `gone`; the
query, the fetch and `Put` have one. `Restart` drops the goroutines and the publisher at any point: it
is coarser than the graceful shutdown of `app/server.go`, which waits up to 30 seconds.
`Assign` is a patrulje renumbered. `sole` and `held` are history variables: the pairs of team
and number with the team the only holder, at some time (`sole`) or at some time since the call of request `r` came in
(`held[r]`); without them the attribution could not be stated, since
the number may be gone from the team by the time the event is on the log. `AttributionWasUnique` is about the first,
`AttributionIsOfThisCall` about the second: a replay attributes by its own lookup, and the only change it can miss is
one between its lookup and its publish, which the code does not look for.

Left out: white space in payload fields, the year (a season is one instance; the query filters by
year), log lines, headers and wording. Team ids are non-empty. The object store is an atomic set here, which is what `FileStore`
is shown to be.

### Projection

`log` is the photo entity's part of the stream, `cursor` and `handled` what this boot was given, `rows` the table by primary key
(team and year, type, ref). Of the other columns `value` has those that decisions are made of: the original, the
refs of the renditions and the thumbnail's, which `Recorded` makes of an event's body as the handler does: a malformed ref costs the
rendition or the original and not the photograph, and the thumbnail is the smallest rendition of known size. The thumbnail's
choice is a recursive function over the list (`smallestRendition`), as is the selection of renditions with a usable ref (`validRenditions`). Each row carries the `version` of the
handler that wrote it, so that "a replay must be able to correct a row written by an older version" can be
stated. `Deliver` gives the next event to `HandleMessage`; the statement is executed, or refused by
the database and dead-lettered; a photograph under a malformed ref is an
error of the handler before any statement, and the cursor goes on. The comment in `table.go` calls that dead-lettering; whether
the library counts it is left open, so it may be among the dead-letters or not. `OlderEvents`
are events this version would not publish: no team in the body, a malformed ref, an empty purge.
`Restart` keeps the table or finds it dropped, and may bring newer code. A body with only one of team and year
is left out.

The mux and SQL writer are libraries. The model takes them as the code does: one cursor over the stream for
both subjects, in stream order, at least once, on past a handler's error.

### System

`System` extends `Projection`, so that its steps are the same ones: `Announce` is `Publish` behind the guard that ingest
has stored the photograph's objects, which is what `PhotoContract` promises of it and `Ingest` is shown to keep; `Proceed` and `Project` are the
projection's actions; `Stop` is its `Restart`, with the requests cut off and a store that is the same directory or, for the
memory store, begins empty. `Remove` is an object lost or deleted.

A request for a ref is four actions: `Ask`, the two queries of `Servable`, and the `Get`. Nothing holds them together in
the code, so anything may happen in between. `reader.seen` and `reader.steady` are history: whether the ref has been named since the
request came, and by which rows and in which role all the time. `removed` is history too. There is one reader, since readers write
nothing. Answers: 200, 404, and 500 for a failed query or `Get`. A candidate row of the second query is one with the ref in its
thumbnail column or its renditions; `LIKE` could also match inside another field, and the limit of 20 could then hide a row, which
is left out. Content types, headers and `HEAD` are left out; so are the 503 of a service without database.

The instance has one object in three roles: the second photograph is the first one's larger thumbnail sent again, so its original
and its display image are one object with a rendition of the first. That is what makes "no original is served" subtle: the ref may be
served for its other role, and only while a row shows it in that role.

### Imaging

The state machine is `Prepare`. `at` is the index of `findExifSegment` in the bytes, one action per segment, per standalone
marker and per reason to stop; `tiff` is the block it found. `ReadOrientation` is an operator over the block's bytes: both
byte orders, directory anywhere, the tag among other entries. What the decoders of the standard library make of a file belongs to the file:
`header`, `decodes`, and the decoded `frame`, which in a GIF may be less than the header's extents, even empty. `declared` is the
orientation the camera wrote, 1 for a file whose structure the scan gives up on (a fill byte between segments, the segment behind
the start of the image data): the code says "assume upright" there. What it means that a camera declared an orientation is said of
the bytes, not of the scan: `AsDeclared` has one Exif segment that well-formed segments and standalone markers lead up to, and a
tag in its first directory; or nothing of the kind. Every file of the instance is of this form (`FilesAreAsDeclared`, an assumption that TLC evaluates).

An image is its extents, and its pixels are where they come from: `Source` is the coordinate mapping of
`applyOrientation`, `BoxStart` and `BoxEnd` are the rows or columns `Fit` averages. The reference for the turn is not another
table of the same kind but the wording of the EXIF standard, which side of the upright image the file's first row and first column are on
(`RowSide`, `ColumnSide`, `Shown`). Sums of colours and the JPEG encoder are left out; the extents of an accepted image are below the
encoder's limit.

### ObjectStore, FileStore, PowerLoss

`step[w]` is the file system call goroutine `w` makes next; `temp[w]` its temp file, `file[o]` what is under the name
of object `o`'s ref. Any call may fail; a failed write may leave a part of the data, and takes the deferred
remove. `os.CreateTemp` insists on a new name, so each `Put` has a temp file of its own. Bucket directories are created on
demand and never removed, and are left out. `PowerLoss` adds the disk: a name's contents reach it at some later time, and
until then a loss of power may leave the old contents, the new, or the new name with a part of the data.

### Fetcher

`via` is the list of addresses requests were sent to, as `http.Client` gives it to `CheckRedirect`; `length` is what the last server
sends, `body` how much was read. `Interrupt` is the deadline, the caller's context or the connection,
at any point where the code waits for the network. An address that parsed also parses again from its
string form, so the error of `NewRequestWithContext` is left out.

## Runs

| Run | What it asks | Bounds, and why they are enough |
|---|---|---|
| `ingest_deep` | safety of the pipeline, its inductive invariant, that a call attributes by its own lookup, the refinement of `PhotoContract` | two requests, so every pair of steps interleaves; two shots of one number, one so small that display image and thumbnail share a ref; two teams, so numbers are doubled; 3 calls: a post, another, and a replay; 3 assignments: give, double, take away |
| `ingest_mixed` | what may be stored, for every class of payload, URL and image | 7 shots, one per class, of which one may be stored; 2 calls at once; one team of the two cannot be a subject token |
| `ingest_unknown_team` | *violated*: an `unknown_team_number` is final | 2 calls and 1 assignment are the counterexample |
| `projection_deep` | table against log during and after replays; the thumbnail column | 3 events: photograph, correct or purge, photograph again; 2 restarts: the second replay runs over rows of the first; one erasure |
| `projection_wide` | whose rows an event touches; progress | 2 teams and 2 types: every row but an event's own is at stake; 3 events; older purges with no refs and no team; a photograph under a malformed ref, which the handler refuses |
| `projection_erased` | *violated*: purge the subject and restart removes the rows | 2 events, 1 erasure, 1 restart |
| `projection_armed` | *violated*: armed only after the replay | 2 events |
| `file_store` | no partial object, no temp file of a goroutine outside the middle of `Put`, every call atomic | 3 goroutines: two Puts of the same object and a Delete; 5 calls; one stop of the process |
| `file_store_power` | *violated*: no reader sees a partial object | 1 goroutine, 1 power loss |
| `system` | what rows name, what readers are served, what is listed | 2 photographs that share objects; 2 events: both, one twice, one and a purge or one of another producer; one restart that may lose the store; one lost object; a request at any time |
| `imaging` | upright, consistent, complete, without overflow, and it ends | 8 orders of segments before the EXIF one, 2 byte orders, 8 orientations, 12 faults of the block; all extents from 0 to 13 with `MaxEdge` 12 and `MaxPixels` 96, so that each bound is met, missed by one and passed; edges 7, 5, 2, 1, so that ratios do not divide; `IntMax` is the least the bounds allow |
| `fetcher` | allowlist, bounds, whole bodies, classification, termination | addresses of each kind; 2 redirects; limit 2 with bodies of 0 to 4 bytes |

`MaxCalls`, `MaxAssignments`, `MaxEvents`, `MaxErasures`, `MaxRestarts`, `MaxRemoved`, `MaxCrashes` and `MaxPowerLosses` bound counters in the
guards; nothing else refers to them. Symmetry is used in `ingest_deep` and `file_store`, whose
properties are invariants and step-wise refinements. `CHECK_DEADLOCK FALSE` stands where a bound or an idle system is a proper
end; `Ingest` never stops, since the process can always restart.

The four violated runs are disagreements between a comment or the README and the code; the finding of each
in `PROJECT.json` quotes the line:

1. `unknown_team_number` is declared not retryable, and a replay of it may succeed.
2. The README says that purging a subject and restarting removes the rows. The table is never truncated.
3. The dead-letter writer is armed when the subscriptions are established, not after the replay.
4. The rename that keeps readers from partial objects is not preceded by a `Sync`.

### Fairness

- `Ingest!FairSpec`: weak fairness of each request's handler, except at the publish. The query is bounded by `queryTimeout`, the
  fetch by `FETCH_TIMEOUT`, the response by `WriteTimeout`, and decoding and file writes do not wait for
  anybody. The publish takes no context and waits for the broker, of which nothing is assumed, nor of the camera app or the patrulje
  projection. Only `ingest_unknown_team` uses it; no property says that a call ends, since the code cannot promise it.
- `Projection!FairSpec`: the connection is tried until it succeeds; registering, `run` (or its failure) and `arm`
  follow on the same goroutine; the mux delivers. Restarts, publishing and erasing are not fair.
- `System!FairSystemSpec`: the same of the projection (`Proceed` is its connecting, subscribing and delivering, of which
  one at most is possible at a time). Ingest, readers, purges, losses and restarts are not fair. `AnnouncedIsListed` says
  what holds from some time on: the bounds on events and restarts stand for "nothing more happens".
- `Imaging!FairSpec`: a function that runs; it waits for nobody.
- `Fetcher!FairSpec`: the function's own steps, and the deadline where it waits. Servers owe nothing.
- `PowerSpec`: calls of the store go on. The disk and the power are not fair.

## Proofs

All theorems hold for every value of the constants that satisfies the module's named assumption
(`ConstantsAssumption`, `PartsAssumption`, `RowAssumption`, `SystemAssumption`, `ImagingAssumption`), which TLC evaluates on each run. The bounds are
among the constants, so nothing depends on their size. Every proof has the same frame: `IInv` is inductive
(`InitInv`, `NextInv`, with one step for each action), and it implies the property. Every invariant and every action property of
the passing runs is a theorem, and so are both refinements.

A liveness property is out of the prover's reach, but most of what can go wrong with one is not. For the properties that say
that something ends there is a *measure*: a natural number, bounded in the constants, that each step of the actor makes smaller and no other
actor's step makes greater (`FetchTakesFewSteps`, `PrepareTakesFewSteps`). `CallsTakeFewSteps` says the same of a call of the camera app, for which there is
no liveness property: whether it ends is up to the broker. What is left to the model checker is that the actor
does get to step: that one of its actions is possible at each point, and fair. For `AnnouncedIsListed` it is the state the projection is to
come to: if it has caught up, the photograph is listed (`AnnouncedIsInTheList`).

- **IngestProofs**. None of the properties of the log or the store is inductive: that an event's refs are stored when it is
  published depends on what the request has done before. `RequestInv` says it, step by step: past the lookup the team was
  the sole holder; what is stored so far is a prefix of the shot's parts and is in the store; a code
  about to be answered is true. It is an invariant of `ingest_deep` as well. The store only grows, `sole` and the log
  too, which is why another request's step cannot break it. `RequestInv` says as well that the team was found in this call (`held`), from which
  `AttributionIsFresh` follows for the step that publishes. `ImplementsContract` maps each step to one of the contract or to a stutter.
  `StepsLeft(r)` is the measure of a call; it needs that the parts stored never outnumber the shot's (`PartsAreCounted`). `OneEventPerCall` counts:
  the events on the log and the calls that may still publish are together no more than the calls made, so that only the camera app's
  own replay can announce a shot twice.
- **ProjectionProofs**. `RowsFollowLog` needs that positions are handled in order (`handled \subseteq 1 .. cursor`)
  and that what is behind the cursor and not erased has been handled; then the last event about a key among those
  handled is the one whose effect is in the row, and when the projection has caught up it is the last on the stream
  (`ReadModelIsDerived`). The rows of keys nothing is about need that without erasures every row has an
  event behind it. `AnnouncedIsOnTheList` does without that condition on erasures: `ListInv` says of each photograph the replay has come to and no
  later event has purged that its row is there, whatever has been dead-lettered, erased or redelivered in between.
- **Loops, RenditionProofs**. The library's induction takes the predicate as an operator, which no installed prover instantiates.
  `BoundedInduction` takes it as a set, and rests on the least element of a set of numbers. `LoopExists` builds the states of a loop of n rounds, so
  that a recursive function over a list is known to be the function its definition says. `validRenditions` then keeps the renditions with
  a usable ref and no others, and `smallestRendition` is one of known size if there is one, and the least of these. With
  `NoRowFromNowhere`, which says that a row is what `Recorded` makes of an event, that gives `ThumbnailIsCheapest` for every row.
- **FileStoreProofs**. The invariant ties `step` to `temp`: what is renamed is whole, since `rename` is reached through a
  write that did not fail. `ImplementsStore` maps the effect of `Put` to the rename, or to the stat that finds the object.
  The invariant is in two parts, since the loss of power keeps the one about calls (`CallsInv`) and breaks the other. `PowerInv` adds that what is cut
  is cut on the disk as well and that no `Put` is past the stat of a cut object. Three theorems say how far the fourth finding reaches:
  it takes a loss of power (`WholeUntilPowerIsLost`), of an object not yet on the disk (`OnlyUnwrittenIsCut`), and then nothing the service
  does mends it (`OnlyDeleteMendsACut`).
- **FetcherProofs**. `Progress` says that the address about to be sent to was accepted by `checkURL`, and that there are hops
  left; `AllowlistHolds` and `FetchIsBounded` follow for all of `via`. `StepsLeft` counts hops and bytes together.
- **SystemProofs**. `ImplementsProjection` comes first: every step of the system is a step of `Projection` or leaves its variables
  alone, so the invariant of `ProjectionProofs` holds here unproved anew. From it a row's columns are those of an event on the log, and every event's
  objects have been stored (`LogBacked`); that gives `RowsNameStored`. The action properties need `ReaderInv`, which says of each step of
  the reader what its earlier queries found out: past the first query no row has shown the ref as its display image all the time, so
  what is steady is a rendition, and the second query cannot miss it. `ListIsWhatTheStreamSays` is the converse of `AnnouncedIsInTheList` too, where nothing was
  erased or refused: the list is what the last events say, no more and no less.
- **ImagingProofs**. The arithmetic is for all extents, by two facts on quotients (`QuotientAtMost`, `QuotientAtLeast`). A box ends
  where the next one starts because an image is never scaled up (`BoxesAdjoin`), so the guard against an empty box never acts; a pixel p
  is in box ((p + 1) m - 1) div n (`BoxesPartition`). `FollowingSide` has the ratio and `FollowsMonotone` the order of renditions. The invariant says
  that each rendition is the `Fit` of the image in hand and that this is within the header's bounds. That the scan stays inside
  the file is `TypeCorrect`. `PhotographsAreUpright` has two parts. The scan is at a place it may be at if all before it is passable, and what it
  finds is the block that `AsDeclared` speaks of; in the block the entry the code takes is the first with the tag, in either byte order. `DeclaredIsUpright` does the
  rest from the orientation as read. `TurnsAreExact` compares the coordinate mapping with the standard's wording.

Only model-checked, and why:

- The liveness properties themselves (`EveryEventHandled`, `FetchReturns`, `AnnouncedIsListed`, `PrepareReturns`): fairness and
  ENABLED are beyond the prover. Their measures are proved as said above; `EveryEventHandled` has none, since an event is handled when the
  projection comes to it and restarts begin a replay anew.
- The violated runs.
- That `System` as a whole implements `PhotoContract` is neither stated nor checked: an event of another producer may equal an announcement,
  and the contract has no such producer. `System!Announce` keeps the contract's guard, and `Ingest` is shown to implement it.

## Not modelled

- The quoting and JSON of `sql.go`, and the lengths of columns: a statement may be refused for any reason in `Projection`.
- A service without database or broker: it answers `not_ready` to the camera app and 503 to readers for ever.
- The in-memory fallback of the store is in `System` (a store that begins empty); the ingest modules
  are about the file store. That an operator mounts the old directory again after such a restart is not modelled.
- The graceful shutdown and `watchDeadletters`, which logs a count every five minutes and changes nothing.
- In `imaging.go`: the colours, the JPEG encoder and its errors, and, on a build whose int has 32 bits, a directory offset of
  2^31 - 1 or 2^31 - 2, whose sum with 2 is out of range before it is compared.
- Routing, the healthcheck report, configuration, logging, the version string.
- The retention job: `Delete`, `Purge` and `OriginalRefs` have no caller yet. The first two are modelled as operations (`FileStore!Delete`,
  `Projection!Purge`; `System!Remove` is their effect on readers), and ingest is modelled without deletions. `OriginalRefs` is a
  read without effect; nothing clears the column it reads, so a job that deletes what it lists would see the same refs again.
- Readers during a replay: photographs that were purged are shown again until the replay comes to the purge. `OnlyShownIsServed`
  allows it, since a row shows them; the code has nothing that would prevent it.

## Plan

Done, in this order: `PhotoContract` and `Ingest`; `Projection`; `ObjectStore`, `FileStore` and `PowerLoss`;
`Fetcher`; their proofs; originals, renditions and thumbnails in `Projection`; `System`, with serving; `Imaging`; their proofs;
the loops over renditions, the scan, the measures, the list and the loss of power, proved.

What could follow, when the code has it:

1. `Retention`: a job that deletes originals, purges, and the re-ingest of the same bytes, where write-once `Put` and `Delete` meet.
   It needs the caller that does not exist.
2. `Ingest` itself in the place of `System!StoreObject` and `Announce`, under the refinement already proved: a replay that announces one
   photograph for two teams as the list shows it.
3. A bound on what crashes leave behind in a bucket, once there is a collector.

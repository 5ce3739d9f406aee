------------------------------- MODULE System -------------------------------
(***************************************************************************)
(* The service as its readers meet it: photographs are stored and          *)
(* announced in the order PhotoContract promises of ingest, Projection     *)
(* folds the announcements into the photo table, and showPhotoHandler      *)
(* (cmd/api/photos.go, nathejk/table/photo/query.go) serves an object by   *)
(* its ref, in three reads that nothing holds together: two queries of     *)
(* the table, then a Get of the store.  In between events are handled,     *)
(* photographs purged, objects removed and the process restarted.          *)
(*                                                                         *)
(* One reader stands for all: readers change nothing another could see.    *)
(***************************************************************************)
EXTENDS Projection, FiniteSets

CONSTANTS
  Shots,        \* photographs the camera app sends
  Photo,        \* Photo[s]: the type, ref and value announced for it
  MaxRemoved    \* bound: objects removed one at a time

RenditionRefs(v) == {v.renditions[i].ref : i \in DOMAIN v.renditions}

\* The objects of a shot: original, display image, thumbnails.
Parts(s) ==
  <<Photo[s].value.original, Photo[s].ref>>
    \o [i \in DOMAIN Photo[s].value.renditions |->
          Photo[s].value.renditions[i].ref]
Objects(s) == {Parts(s)[i] : i \in DOMAIN Parts(s)}

\* The objects that rows of other producers' events may name, who have stores of their
\* own.
Foreign ==
  UNION {{e.value.original, e.ref} \cup RenditionRefs(e.value) :
           e \in {f \in OlderEvents \cap Photographed : f.ref # BadRef}}

ASSUME SystemAssumption ==
  /\ Photo \in [Shots -> [type : Types, ref : Refs, value : Values]]
  /\ \A s \in Shots : Objects(s) \subseteq Refs
  /\ MaxRemoved \in Nat

VARIABLES
  blobs,        \* refs of the objects in the store
  removed,      \* refs of objects that were in it once and were lost (history)
  reader        \* the request in progress, or the answer to the last one

store == <<blobs, removed>>
systemVars == <<vars, store, reader>>

Steps == {"idle", "display", "renditions", "get"}

\* Who names a ref in a table: the row of a display image, the row of a rendition.
Named(table, ref) ==
  {<<k, "display">> : k \in {j \in Keys : table[j] # NoRow /\ j[3] = ref}}
    \cup
  {<<k, "rendition">> :
     k \in {j \in Keys : table[j] # NoRow /\ ref \in table[j].value.renditions}}

\* seen and steady are history: whether the ref has been named since the request
\* came, and by whom it has been named all the time.
Done(status) ==
  [step |-> "idle", ref |-> NoRef, status |-> status, seen |-> FALSE, steady |-> {}]

Busy == reader.step # "idle"

SystemInit ==
  /\ Init
  /\ blobs = {}
  /\ removed = {}
  /\ reader = Done(0)

-----------------------------------------------------------------------------
(***************************************************************************)
(* The store.                                                              *)
(***************************************************************************)

\* Everything that has been stored, whatever became of it.
Ever == blobs \cup removed

\* A Put of ingest, part by part; requests are refused until a publisher is held.
StoreObject(s, i) ==
  /\ phase # "down"
  /\ \A j \in DOMAIN Parts(s) : j < i => Parts(s)[j] \in Ever
  /\ blobs' = blobs \cup {Parts(s)[i]}
  /\ UNCHANGED <<vars, removed, reader>>

\* An object is deleted: the retention of originals, an operator, a lost disk.
Remove(o) ==
  /\ o \in blobs
  /\ Cardinality(removed) < MaxRemoved
  /\ blobs' = blobs \ {o}
  /\ removed' = removed \cup {o}
  /\ UNCHANGED <<vars, reader>>

-----------------------------------------------------------------------------
(***************************************************************************)
(* Ingest, the stream and the projection, watched by the request that is   *)
(* in progress.                                                            *)
(***************************************************************************)
Watch ==
  reader' = IF Busy
            THEN [step |-> reader.step, ref |-> reader.ref, status |-> reader.status,
                  seen |-> reader.seen \/ Named(rows', reader.ref) # {},
                  steady |-> reader.steady \cap Named(rows', reader.ref)]
            ELSE reader

\* Mutant of Announce: event before bytes.
AnnounceEarly(s, t) ==
  /\ Publish(t, Photo[s].type, Photo[s].ref, Photo[s].value)
  /\ Watch
  /\ UNCHANGED store

\* Bytes before event.
Announce(s, t) ==
  /\ Objects(s) \subseteq Ever
  /\ Publish(t, Photo[s].type, Photo[s].ref, Photo[s].value)
  /\ Watch
  /\ UNCHANGED store

\* The boot, and then the replay, go on.
Proceed ==
  /\ Connect \/ Run \/ RunFails \/ Deliver
  /\ Watch
  /\ UNCHANGED store

\* Everything else that happens to the stream and the projection.
Project ==
  /\ \/ \E t \in Teams, refs \in PurgeLists : Purge(t, refs)
     \/ \E e \in OlderEvents : PublishOlder(e)
     \/ \E t \in Teams : Erase(t)
     \/ Arm
     \/ Redeliver
  /\ Watch
  /\ UNCHANGED store

\* The process stops and boots again.  Requests are cut off; the store is the same
\* directory, or a memory store that begins empty.
Stop ==
  /\ Restart
  /\ reader' = Done(0)
  /\ blobs' \in {blobs, {}}
  /\ removed' = removed \cup (blobs \ blobs')

-----------------------------------------------------------------------------
(***************************************************************************)
(* The reader.                                                             *)
(***************************************************************************)
Turn(step) ==
  /\ reader' = [reader EXCEPT !.step = step]
  /\ UNCHANGED <<vars, store>>

Answer(status) ==
  /\ reader' = Done(status)
  /\ UNCHANGED <<vars, store>>

\* Mutant of Ask: the ref is not looked at before it goes to the queries.
AskUnchecked(ref) ==
  /\ reader.step = "idle"
  /\ reader' = [step |-> "display", ref |-> ref, status |-> 0,
                seen |-> Named(rows, ref) # {}, steady |-> Named(rows, ref)]
  /\ UNCHANGED <<vars, store>>

\* A request for a ref; one that is no content hash is answered at once.
Ask(ref) ==
  /\ reader.step = "idle"
  /\ reader' = IF ref \in Refs
               THEN [step |-> "display", ref |-> ref, status |-> 0,
                     seen |-> Named(rows, ref) # {}, steady |-> Named(rows, ref)]
               ELSE Done(404)
  /\ UNCHANGED <<vars, store>>

\* SELECT contentType FROM photo WHERE ref = ?
DisplayQuery ==
  /\ reader.step = "display"
  /\ Turn(IF \E k \in Keys : rows[k] # NoRow /\ k[3] = reader.ref
          THEN "get" ELSE "renditions")

\* WHERE thumbRef = ? OR renditions LIKE ?: the rows to look into.  The limit of 20 is
\* left out: it hides a row only behind 20 that have the hash in some other field.
Candidates(ref) ==
  {k \in Keys : /\ rows[k] # NoRow
                /\ \/ rows[k].value.thumb = ref
                   \/ ref \in rows[k].value.renditions}

\* Mutant of RenditionQuery: the thumbnail column alone.
RenditionQueryThumb ==
  /\ reader.step = "renditions"
  /\ IF \E k \in Keys : rows[k] # NoRow /\ rows[k].value.thumb = reader.ref
     THEN Turn("get") ELSE Answer(404)

\* A candidate's renditions decide.
RenditionQuery ==
  /\ reader.step = "renditions"
  /\ IF \E k \in Candidates(reader.ref) : reader.ref \in rows[k].value.renditions
     THEN Turn("get") ELSE Answer(404)

\* A query times out, or the database is gone.
QueryFails ==
  /\ reader.step \in {"display", "renditions"}
  /\ Answer(500)

\* The bytes, or 404 when a row names what is not there.
Get ==
  /\ reader.step = "get"
  /\ Answer(IF reader.ref \in blobs THEN 200 ELSE 404)

GetFails ==
  /\ reader.step = "get"
  /\ Answer(500)

\* The keys of the rows that a team's list shows.
ByTeam(t) == {k \in Keys : k[1] = t /\ rows[k] # NoRow}

-----------------------------------------------------------------------------
SystemNext ==
  \/ \E s \in Shots : \E i \in DOMAIN Parts(s) : StoreObject(s, i)
  \/ \E s \in Shots, t \in Teams : Announce(s, t)
  \/ \E o \in Refs : Remove(o)
  \/ Proceed
  \/ Project
  \/ Stop
  \/ \E ref \in Refs \cup {BadRef} : Ask(ref)
  \/ DisplayQuery \/ RenditionQuery \/ QueryFails
  \/ Get \/ GetFails

SystemSpec == SystemInit /\ [][SystemNext]_systemVars

\* As in Projection!FairSpec: the goroutine that connects and subscribes goes on, and
\* then the mux delivers.  One of these steps at most is possible at a time.
FairSystemSpec ==
  SystemSpec /\ WF_systemVars(Proceed)

-----------------------------------------------------------------------------
(***************************************************************************)
(* Properties.                                                             *)
(***************************************************************************)

\* Every variable has its type: what reaches the queries, of which one is a LIKE, and
\* the store is a content hash (validPhotoRef); and what has named the ref all the
\* time names it now.
SystemTypeOK ==
  /\ TypeOK
  /\ blobs \subseteq Refs
  /\ removed \subseteq Refs
  /\ reader \in [step : Steps, ref : Refs \cup {NoRef},
                 status : {0, 200, 404, 500}, seen : BOOLEAN,
                 steady : SUBSET (Keys \X {"display", "rendition"})]
  /\ Busy => reader.status = 0 /\ reader.ref \in Refs
  /\ Busy => reader.steady \subseteq Named(rows, reader.ref)

\* What a row names, original included, is in the store or was and is lost, through
\* restarts, replays and corrections ("Bytes before event, always"): a row never
\* names what has not been stored yet.
NamedIsStored ==
  \A k \in Keys : rows[k] # NoRow =>
    ({k[3], rows[k].value.original} \cup rows[k].value.renditions) \ {NoRef}
      \subseteq Ever \cup Foreign

\* "A ref is servable if it is some photograph's display image or one of its
\* renditions, and specifically NOT if it is only an original": a 200 is of a ref
\* that a row showed at some time during the request, and that some photograph was
\* announced with as one of these.  What is purged before the request is not shown.
OnlyShownIsServed ==
  [][Busy /\ reader'.status = 200 =>
       /\ reader.seen
       /\ \E i \in DOMAIN log :
            /\ log[i].kind = "photographed"
            /\ reader.ref \in {log[i].ref} \cup RenditionRefs(log[i].value)
    ]_systemVars

\* A ref that one and the same row shows from the request to the answer is not
\* answered 404 unless its object is lost: not by the two queries seeing two
\* tables, nor by the table being rewritten by a replay, nor because only another
\* size is in the thumbnail column.
SteadyIsServed ==
  [][Busy /\ reader'.status = 404 /\ reader.steady # {} =>
       reader.ref \in (removed \cup Foreign) \ blobs]_systemVars

\* What is announced is listed in the end, after any restarts: unless the
\* projection failed to start, or the statement was dead-lettered, or a later
\* event is about the same photograph.
AnnouncedIsListed ==
  <>[](phase = "failed" \/
       \A k \in Keys : \A i \in Live \ dead :
         LastAbout(i, k, Live) /\ log[i].kind = "photographed" => k \in ByTeam(k[1]))
=============================================================================

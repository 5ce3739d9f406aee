----------------------------- MODULE Projection -----------------------------
(***************************************************************************)
(* The photo read model: the events of nathejk/table/photo on the NATHEJK  *)
(* stream, the projection that folds them into the photo table, and its    *)
(* life over restarts (cmd/api/main.go, eventing.go): the broker is        *)
(* connected in the background, the projection is subscribed, the stream   *)
(* is replayed from the start, the dead-letter writer is armed.            *)
(*                                                                         *)
(* The mux and the SQL writer are libraries.  As the code here takes them: *)
(* the mux delivers in stream order, at least once, and goes on after a    *)
(* handler's error; the writer dead-letters a statement the database       *)
(* refuses.  The table outlives the process.                               *)
(***************************************************************************)
EXTENDS Naturals, Sequences

CONSTANTS
  Teams,        \* (year, team id) pairs
  NoTeam,       \* a body without a team id
  Types,        \* "start", "finish", ...
  Refs,         \* content hashes
  BadRef,       \* a ref that is no content hash
  NoRef,        \* no ref: an empty column, a body without an original
  Values,       \* what a body says besides: its original and its renditions
  NoRow,        \* the key is not in the table
  PurgeLists,   \* the ref lists a purge may be asked for
  OlderEvents,  \* events this version of the code would not publish
  MaxEvents,    \* bound: events on the stream
  MaxErasures,  \* bound: `nats stream purge` commands
  MaxRestarts   \* bound: restarts

Photographed ==
  [kind : {"photographed"}, subject : Teams, body : Teams \cup {NoTeam},
   type : Types, ref : Refs \cup {BadRef}, value : Values]
Photopurged ==
  [kind : {"photopurged"}, subject : Teams, body : Teams \cup {NoTeam},
   refs : SUBSET (Refs \cup {BadRef})]
Event == Photographed \cup Photopurged

\* The size of a rendition is its longest edge, 0 when the event has none.
Rendition == [ref : Refs \cup {BadRef}, edge : Nat]

ASSUME ConstantsAssumption ==
  /\ NoTeam \notin Teams
  /\ BadRef \notin Refs
  /\ NoRef \notin Refs
  /\ Values \subseteq [original : Refs \cup {BadRef, NoRef},
                       renditions : Seq(Rendition)]
  /\ PurgeLists \subseteq SUBSET (Refs \cup {BadRef})
  /\ OlderEvents \subseteq Event
  /\ MaxEvents \in Nat
  /\ MaxErasures \in Nat
  /\ MaxRestarts \in Nat

Keys == Teams \X Types \X Refs

-----------------------------------------------------------------------------
(***************************************************************************)
(* The columns the handler makes of a body.                                *)
(***************************************************************************)
validRenditions(v) ==
  LET valid[i \in 0 .. Len(v.renditions)] ==
        IF i = 0 THEN <<>>
        ELSE IF v.renditions[i].ref = BadRef THEN valid[i - 1]
        ELSE Append(valid[i - 1], v.renditions[i])
  IN  valid[Len(v.renditions)]

\* Mutant of smallestRendition: an unknown size is compared as 0.
SmallestRenditionZero(rs) ==
  LET best[i \in DOMAIN rs] ==
        IF i = 1 THEN rs[1]
        ELSE IF rs[i].edge < best[i - 1].edge THEN rs[i] ELSE best[i - 1]
  IN  best[Len(rs)]

\* An unknown size never beats a known one.
smallestRendition(rs) ==
  LET best[i \in DOMAIN rs] ==
        IF i = 1 THEN rs[1]
        ELSE IF \/ best[i - 1].edge = 0
                \/ rs[i].edge > 0 /\ rs[i].edge < best[i - 1].edge
             THEN rs[i] ELSE best[i - 1]
  IN  best[Len(rs)]

\* Mutant of Recorded: the original is listed among the renditions.
RecordedWithOriginal(v) ==
  [original   |-> IF v.original \in Refs THEN v.original ELSE NoRef,
   renditions |-> ({v.renditions[i].ref : i \in DOMAIN v.renditions}
                    \cup {v.original}) \ {BadRef, NoRef},
   thumb      |-> IF validRenditions(v) = <<>> THEN NoRef
                  ELSE smallestRendition(validRenditions(v)).ref]

\* A malformed ref costs the rendition or the original, not the photograph.
Recorded(v) ==
  [original   |-> IF v.original \in Refs THEN v.original ELSE NoRef,
   renditions |-> {v.renditions[i].ref : i \in DOMAIN v.renditions} \ {BadRef},
   thumb      |-> IF validRenditions(v) = <<>> THEN NoRef
                  ELSE smallestRendition(validRenditions(v)).ref]

Columns == {Recorded(v) : v \in Values}

\* The columns besides the key, and the version of the handler that wrote them.
Row == [value : Columns, version : Nat]

ASSUME RowAssumption == NoRow \notin Row

VARIABLES
  log,       \* the events of the photo entity on the stream
  erased,    \* positions of the stream removed by an operator
  erasures,  \* such commands so far
  phase,     \* how far this boot has come
  cursor,    \* position delivered last in this boot
  handled,   \* positions delivered in this boot
  dead,      \* positions whose statement is in the dead-letter table
  rows,      \* the photo table
  version,   \* version of the handler's code
  restarts   \* restarts so far

vars == <<log, erased, erasures, phase, cursor, handled, dead, rows, version,
          restarts>>

Phases == {"down", "connected", "subscribed", "armed", "failed"}

Consuming == phase \in {"subscribed", "armed"}

EmptyTable == [k \in Keys |-> NoRow]

Init ==
  /\ log = <<>>
  /\ erased = {}
  /\ erasures = 0
  /\ phase = "down"
  /\ cursor = 0
  /\ handled = {}
  /\ dead = {}
  /\ rows = EmptyTable
  /\ version = 0
  /\ restarts = 0

-----------------------------------------------------------------------------
(***************************************************************************)
(* The handlers: what an event does to the table.                          *)
(***************************************************************************)

\* The team of the body, and the subject's where the body has none.
TeamOf(e) == IF e.body # NoTeam THEN e.body ELSE e.subject

\* Mutant of handlePhotographed: INSERT IGNORE.
HandlePhotographedIgnore(e, table) ==
  IF e.ref = BadRef \/ table[<<TeamOf(e), e.type, e.ref>>] # NoRow THEN table
  ELSE [table EXCEPT ![<<TeamOf(e), e.type, e.ref>>] =
                       [value |-> Recorded(e.value), version |-> version]]

\* Mutant of handlePhotographed: the type is not in the key.
HandlePhotographedUntyped(e, table) ==
  IF e.ref = BadRef THEN table
  ELSE [k \in Keys |-> IF k[1] = TeamOf(e) /\ k[3] = e.ref
                       THEN [value |-> Recorded(e.value), version |-> version]
                       ELSE table[k]]

\* The upsert; an error, and no statement, for a malformed ref.
handlePhotographed(e, table) ==
  IF e.ref = BadRef THEN table
  ELSE [table EXCEPT ![<<TeamOf(e), e.type, e.ref>>] =
                       [value |-> Recorded(e.value), version |-> version]]

\* Mutant of handlePurged: without a valid ref the team's rows go.
HandlePurgedWidened(e, table) ==
  [k \in Keys |-> IF k[1] = TeamOf(e) /\ (k[3] \in e.refs \/ e.refs \cap Refs = {})
                  THEN NoRow ELSE table[k]]

\* Every row of the team with one of the well-formed refs, whatever its type.
handlePurged(e, table) ==
  [k \in Keys |-> IF k[1] = TeamOf(e) /\ k[3] \in e.refs THEN NoRow ELSE table[k]]

HandleMessage(e, table) ==
  IF e.kind = "photographed" THEN handlePhotographed(e, table)
  ELSE handlePurged(e, table)

\* Handling e may fail: its ref may be malformed, which is an error that "dead-
\* lettering keeps visible", or its statement refused.  A purge without a well-formed
\* ref is neither.
Fallible(e) == e.kind = "photopurged" => e.refs \cap Refs # {}

-----------------------------------------------------------------------------
(***************************************************************************)
(* The stream.                                                             *)
(***************************************************************************)
AppendToLog(e) ==
  /\ Len(log) < MaxEvents
  /\ log' = Append(log, e)
  /\ UNCHANGED <<erased, erasures, phase, cursor, handled, dead, rows, version,
                 restarts>>

\* Publish refuses a malformed ref, and every publish fails before the broker is
\* connected.
Publish(t, ty, ref, v) ==
  /\ phase # "down"
  /\ AppendToLog([kind |-> "photographed", subject |-> t, body |-> t,
                  type |-> ty, ref |-> ref, value |-> v])

\* Purge refuses an empty list, but does not look at its refs.
Purge(t, refs) ==
  /\ phase # "down"
  /\ refs # {}
  /\ AppendToLog([kind |-> "photopurged", subject |-> t, body |-> t,
                  refs |-> refs])

\* Another producer, or an earlier version of this one.
PublishOlder(e) == AppendToLog(e)

\* nats stream purge --subject 'NATHEJK.<year>.patrulje.<teamId>.photographed'
Erase(t) ==
  /\ erasures < MaxErasures
  /\ erasures' = erasures + 1
  /\ erased' = erased \cup
       {i \in DOMAIN log : log[i].kind = "photographed" /\ log[i].subject = t}
  /\ erased' # erased
  /\ UNCHANGED <<log, phase, cursor, handled, dead, rows, version, restarts>>

-----------------------------------------------------------------------------
(***************************************************************************)
(* The consumer.                                                           *)
(***************************************************************************)
EnterPhase(from, to) ==
  /\ phase = from
  /\ phase' = to
  /\ UNCHANGED <<log, erased, erasures, cursor, handled, dead, rows, version,
                 restarts>>

Connect == EnterPhase("down", "connected")

\* The mux registers the projection and subscribes, which does not wait for the
\* replay; an error is logged, and not tried again.
Run == EnterPhase("connected", "subscribed")
RunFails == EnterPhase("connected", "failed")

Arm == EnterPhase("subscribed", "armed")

Live == DOMAIN log \ erased
Pending == {i \in Live : i > cursor}

\* The handler does its work, or fails and is dead-lettered.  Whether the library
\* counts an error without a statement among the dead-letters is left open.
Handle(i) ==
  \/ /\ rows' = HandleMessage(log[i], rows)
     /\ UNCHANGED dead
  \/ /\ Fallible(log[i])
     /\ dead' = dead \cup {i}
     /\ UNCHANGED rows

\* Mutant of Deliver: the cursor runs one ahead.
DeliverAhead ==
  \E i \in Pending :
    /\ Consuming
    /\ \A j \in Pending : i <= j
    /\ Handle(i)
    /\ cursor' = i + 1
    /\ handled' = handled \cup {i}
    /\ UNCHANGED <<log, erased, erasures, phase, version, restarts>>

\* Mutant of Deliver: a handler's error, here over a malformed ref, stops the
\* subscription.
DeliverStrict ==
  \E i \in Pending :
    /\ Consuming
    /\ \A j \in Pending : i <= j
    /\ log[i].kind = "photographed" => log[i].ref # BadRef
    /\ Handle(i)
    /\ cursor' = i
    /\ handled' = handled \cup {i}
    /\ UNCHANGED <<log, erased, erasures, phase, version, restarts>>

\* The next event still on the stream.
Deliver ==
  \E i \in Pending :
    /\ Consuming
    /\ \A j \in Pending : i <= j
    /\ Handle(i)
    /\ cursor' = i
    /\ handled' = handled \cup {i}
    /\ UNCHANGED <<log, erased, erasures, phase, version, restarts>>

\* The last event once more: its acknowledgement was lost.
Redeliver ==
  /\ Consuming
  /\ cursor \in handled
  /\ Handle(cursor)
  /\ UNCHANGED <<log, erased, erasures, phase, cursor, handled, version,
                 restarts>>

\* Mutant of Restart: the dead-letter table is not reset.
RestartUnreset ==
  /\ restarts < MaxRestarts
  /\ restarts' = restarts + 1
  /\ phase' = "down"
  /\ cursor' = 0
  /\ handled' = {}
  /\ version' \in {version, version + 1}
  /\ rows' \in {rows, EmptyTable}
  /\ UNCHANGED <<log, erased, erasures, dead>>

\* Mutant of Restart: the subscription is durable and resumes where it was.
RestartDurable ==
  /\ restarts < MaxRestarts
  /\ restarts' = restarts + 1
  /\ phase' = "down"
  /\ dead' = {}
  /\ version' \in {version, version + 1}
  /\ rows' \in {rows, EmptyTable}
  /\ UNCHANGED <<log, erased, erasures, cursor, handled>>

\* The process stops and boots again, perhaps with newer code, and perhaps after
\* somebody dropped the table: it is created if it does not exist, and its rows
\* are kept if it does.  The dead-letters of the last replay are removed, and the
\* stream is consumed from its start.
Restart ==
  /\ restarts < MaxRestarts
  /\ restarts' = restarts + 1
  /\ phase' = "down"
  /\ cursor' = 0
  /\ handled' = {}
  /\ dead' = {}
  /\ version' \in {version, version + 1}
  /\ rows' \in {rows, EmptyTable}
  /\ UNCHANGED <<log, erased, erasures>>

Next ==
  \/ \E t \in Teams, ty \in Types, ref \in Refs, v \in Values :
       Publish(t, ty, ref, v)
  \/ \E t \in Teams, refs \in PurgeLists : Purge(t, refs)
  \/ \E e \in OlderEvents : PublishOlder(e)
  \/ \E t \in Teams : Erase(t)
  \/ Connect \/ Run \/ RunFails \/ Arm
  \/ Deliver \/ Redeliver
  \/ Restart

Spec == Init /\ [][Next]_vars

\* The subscription is a goroutine of the mux that nothing blocks, and the
\* connection is tried until it succeeds.
FairSpec ==
  Spec /\ WF_vars(Connect) /\ WF_vars(Run \/ RunFails) /\ WF_vars(Arm)
       /\ WF_vars(Deliver)

-----------------------------------------------------------------------------
(***************************************************************************)
(* Properties.  Touches and Effect say what an event means for a key with  *)
(* no regard to how the handlers go about it.                              *)
(***************************************************************************)
Touches(e, k) ==
  /\ k[1] = TeamOf(e)
  /\ IF e.kind = "photographed" THEN k[2] = e.type /\ k[3] = e.ref
     ELSE k[3] \in e.refs

Effect(e) ==
  IF e.kind = "photographed" THEN [value |-> Recorded(e.value), version |-> version]
  ELSE NoRow

\* i is the last of the positions S whose event is about the key k.
LastAbout(i, k, S) ==
  /\ i \in S
  /\ Touches(log[i], k)
  /\ \A j \in S : j > i => ~Touches(log[j], k)

CaughtUp == Consuming /\ Pending = {}

\* Every variable has its type: events, positions, rows.
TypeOK ==
  /\ log \in Seq(Event)
  /\ erased \subseteq DOMAIN log
  /\ erasures \in Nat
  /\ phase \in Phases
  /\ cursor \in 0 .. Len(log)
  /\ handled \subseteq 1 .. cursor
  /\ dead \subseteq DOMAIN log
  /\ rows \in [Keys -> Row \cup {NoRow}]
  /\ version \in Nat
  /\ restarts \in Nat

\* While a replay is under way a key the replay has come to holds what the last
\* event about it says, as this version of the code reads it: rows of an earlier
\* boot, of older code or of an earlier delivery are corrected (the upsert), and
\* a photograph taken after a purge is back.
RowsFollowLog ==
  \A k \in Keys : \A i \in handled \ dead :
    LastAbout(i, k, handled) => rows[k] = Effect(log[i])

\* A row always holds what one photograph says that was announced under its team,
\* its type and its ref: no event adds rows beside its own, and no row mixes the
\* columns of two events.
NoRowFromNowhere ==
  \A k \in Keys : rows[k] # NoRow =>
    \E i \in DOMAIN log :
      /\ log[i].kind = "photographed"
      /\ Touches(log[i], k)
      /\ rows[k].value = Recorded(log[i].value)

\* The renditions of a body that have a usable ref.
Usable(v) == {r \in {v.renditions[j] : j \in DOMAIN v.renditions} : r.ref # BadRef}

\* "The cheapest one is the right default": a row lists the usable renditions of one
\* announcement of its photograph; none of them of known size is smaller than the
\* row's thumbnail, an unknown size being no size, and only without any is there no
\* thumbnail.
ThumbIsCheapest ==
  \A k \in Keys : rows[k] # NoRow =>
    \E i \in DOMAIN log :
      LET row == rows[k].value
          usable == Usable(log[i].value)
      IN  /\ log[i].kind = "photographed"
          /\ Touches(log[i], k)
          /\ row.renditions = {r.ref : r \in usable}
          /\ row.thumb = NoRef <=> usable = {}
          /\ \A r \in usable : r.edge > 0 =>
               \E q \in usable : q.ref = row.thumb /\ q.edge \in 1 .. r.edge

\* "The read model is derived from the log, so it can be dropped and rebuilt": a
\* projection that has caught up, with no dead-letter and nothing erased behind
\* it in this boot, holds what the last event about each key says, whatever the
\* table held at boot; and without erasures it holds nothing else.
CaughtUpIsView ==
  CaughtUp /\ dead = {} /\ handled \cap erased = {} =>
    \A k \in Keys :
      /\ \A i \in Live : LastAbout(i, k, Live) => rows[k] = Effect(log[i])
      /\ erased = {} /\ (\A i \in Live : ~Touches(log[i], k)) => rows[k] = NoRow

\* "Dead-letters captured during the previous run's replay are stale": the count
\* logged after the boot is of statements refused in this boot.
DeadlettersAreCurrent == dead \subseteq handled

\* Every event on the stream is handled once the projection is subscribed: one
\* whose ref is malformed, for which the handler returns an error, holds up nothing
\* behind it.
EveryEventHandled ==
  \A i \in 1 .. MaxEvents :
    (Consuming /\ i \in Live) ~> (i \in handled \cup erased \/ ~Consuming)

\* "Purging the subject and restarting is enough to remove the rows": after a boot
\* that caught up, each row has an event still on the stream.
RestartRemovesErased ==
  CaughtUp /\ handled \cap erased = {} =>
    \A k \in Keys : rows[k] # NoRow => \E i \in Live : Touches(log[i], k)

\* "Armed only after the replay": what was on the stream when the dead-letter
\* writer is armed has been handled.
ArmedAfterReplay == [][phase # "armed" /\ phase' = "armed" => Pending = {}]_vars
=============================================================================

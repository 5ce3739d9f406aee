-------------------------- MODULE ProjectionProofs --------------------------
(***************************************************************************)
(* Proofs about Projection, for every set of teams, types, refs, values    *)
(* and older events, and for logs of any length.  The inductive invariant  *)
(* IInv adds to the properties only that every position up to the cursor   *)
(* was handled or had been erased: with it, a projection that has caught   *)
(* up has handled all there is, and CaughtUpIsView follows from            *)
(* RowsFollowLog.                                                          *)
(***************************************************************************)
EXTENDS Projection, TLAPS

NothingSkipped == 1 .. cursor \subseteq handled \cup erased

IInv ==
  /\ TypeOK
  /\ RowsFollowLog
  /\ NoRowFromNowhere
  /\ DeadlettersAreCurrent
  /\ NothingSkipped

-----------------------------------------------------------------------------
(***************************************************************************)
(* The handlers against what an event means: HandleMessage changes the     *)
(* keys an event is about to what it says, and no others.                  *)
(***************************************************************************)

\* The team an event is filed under is a team.
LEMMA TeamOfType ==
  ASSUME NEW e \in Event
  PROVE  TeamOf(e) \in Teams
BY ConstantsAssumption DEF Event, Photographed, Photopurged, TeamOf

\* The upsert writes the row of the event's own key and no other.
LEMMA PhotographedMeans ==
  ASSUME NEW e \in Photographed, NEW table \in [Keys -> Row \cup {NoRow}],
         version \in Nat, NEW k \in Keys
  PROVE  /\ handlePhotographed(e, table) \in [Keys -> Row \cup {NoRow}]
         /\ handlePhotographed(e, table)[k] =
              IF Touches(e, k) THEN Effect(e) ELSE table[k]
<1> DEFINE key == <<TeamOf(e), e.type, e.ref>>
           row == [value |-> Recorded(e.value), version |-> version]
<1>1. e.kind = "photographed" /\ e.type \in Types /\ TeamOf(e) \in Teams
  BY TeamOfType DEF Photographed, Event
<1>2. row \in Row
  BY DEF Photographed, Row, Columns
<1>3. k = <<k[1], k[2], k[3]>> /\ k[3] \in Refs
  BY DEF Keys
<1>4. Touches(e, k) <=> k = key
  BY <1>1, <1>3 DEF Touches
<1>5. CASE e.ref = BadRef
  <2>1. ~Touches(e, k)
    BY <1>1, <1>3, <1>5, ConstantsAssumption DEF Touches
  <2> QED
    BY <1>5, <2>1 DEF handlePhotographed
<1>6. CASE e.ref # BadRef
  <2>1. key \in Keys
    BY <1>1, <1>6 DEF Keys, Photographed
  <2>2. handlePhotographed(e, table) = [table EXCEPT ![key] = row]
    BY <1>6 DEF handlePhotographed
  <2> QED
    BY <1>1, <1>2, <1>4, <2>1, <2>2 DEF Effect
<1> QED
  BY <1>5, <1>6

\* The delete removes the rows of the event's team with one of its refs.
LEMMA PurgedMeans ==
  ASSUME NEW e \in Photopurged, NEW table \in [Keys -> Row \cup {NoRow}],
         NEW k \in Keys
  PROVE  /\ handlePurged(e, table) \in [Keys -> Row \cup {NoRow}]
         /\ handlePurged(e, table)[k] =
              IF Touches(e, k) THEN Effect(e) ELSE table[k]
BY DEF Photopurged, handlePurged, Touches, Effect

\* What handling an event does to a key, whichever event it is.
LEMMA HandleMessageMeans ==
  ASSUME NEW e \in Event, NEW table \in [Keys -> Row \cup {NoRow}],
         version \in Nat, NEW k \in Keys
  PROVE  /\ HandleMessage(e, table) \in [Keys -> Row \cup {NoRow}]
         /\ HandleMessage(e, table)[k] =
              IF Touches(e, k) THEN Effect(e) ELSE table[k]
<1>1. CASE e \in Photographed
  BY <1>1, PhotographedMeans DEF HandleMessage, Photographed
<1>2. CASE e \in Photopurged
  BY <1>2, PurgedMeans DEF HandleMessage, Photopurged
<1> QED
  BY <1>1, <1>2 DEF Event

\* A table of that shape is a function even when there is no key.
LEMMA HandleMessageType ==
  ASSUME NEW e \in Event, NEW table \in [Keys -> Row \cup {NoRow}],
         version \in Nat
  PROVE  HandleMessage(e, table) \in [Keys -> Row \cup {NoRow}]
<1>1. CASE \E k \in Keys : TRUE
  BY <1>1, HandleMessageMeans
<1>2. CASE ~ \E k \in Keys : TRUE
  <2>1. CASE e.kind = "photographed"
    BY <1>2, <2>1 DEF HandleMessage, handlePhotographed
  <2>2. CASE e.kind # "photographed"
    BY <1>2, <2>2 DEF HandleMessage, handlePurged
  <2> QED
    BY <2>1, <2>2
<1> QED
  BY <1>1, <1>2

-----------------------------------------------------------------------------
(***************************************************************************)
(* Types.                                                                  *)
(***************************************************************************)

\* The kinds of step: the log grows, part of it is erased, the boot goes on, an
\* event is handled for the first time or again, the process restarts.
LEMMA StepKinds ==
  ASSUME [Next]_vars
  PROVE  \/ \E e \in Event : AppendToLog(e)
         \/ \E t \in Teams : Erase(t)
         \/ \E from, to \in Phases : EnterPhase(from, to)
         \/ Deliver
         \/ Redeliver
         \/ Restart
         \/ UNCHANGED vars
<1>1. ASSUME NEW t \in Teams, NEW ty \in Types, NEW ref \in Refs, NEW v \in Values,
             Publish(t, ty, ref, v)
      PROVE  \E e \in Event : AppendToLog(e)
  BY <1>1 DEF Publish, Event, Photographed
<1>2. ASSUME NEW t \in Teams, NEW refs \in PurgeLists, Purge(t, refs)
      PROVE  \E e \in Event : AppendToLog(e)
  BY <1>2, ConstantsAssumption DEF Purge, Event, Photopurged
<1>3. ASSUME NEW e \in OlderEvents, PublishOlder(e)
      PROVE  e \in Event /\ AppendToLog(e)
  BY <1>3, ConstantsAssumption DEF PublishOlder
<1>4. ASSUME Connect \/ Run \/ RunFails \/ Arm
      PROVE  \E from, to \in Phases : EnterPhase(from, to)
  BY <1>4 DEF Connect, Run, RunFails, Arm, Phases
<1> QED
  BY <1>1, <1>2, <1>3, <1>4 DEF Next

LEMMA InitType == Init => TypeOK
BY DEF Init, TypeOK, Phases, EmptyTable

\* A handled event leaves the table a table, and is the only new dead-letter.
LEMMA HandleType ==
  ASSUME TypeOK, NEW i \in DOMAIN log, Handle(i)
  PROVE  /\ rows' \in [Keys -> Row \cup {NoRow}]
         /\ dead' \subseteq dead \cup {i}
<1>1. log[i] \in Event
  BY DEF TypeOK
<1>2. HandleMessage(log[i], rows) \in [Keys -> Row \cup {NoRow}]
  BY <1>1, HandleMessageType DEF TypeOK
<1> QED
  BY <1>2 DEF TypeOK, Handle

\* Positions of the log.
LEMMA LogPositions ==
  ASSUME TypeOK
  PROVE  /\ DOMAIN log = 1 .. Len(log)
         /\ Len(log) \in Nat
         /\ cursor \in Nat
         /\ cursor <= Len(log)
         /\ handled \subseteq DOMAIN log
         /\ handled \subseteq Nat
         /\ handled \subseteq 1 .. cursor
<1>1. DOMAIN log = 1 .. Len(log) /\ Len(log) \in Nat
  BY DEF TypeOK
<1>2. cursor \in 0 .. Len(log) /\ handled \subseteq 1 .. cursor
  BY DEF TypeOK
<1> QED
  BY <1>1, <1>2

LEMMA NextType == TypeOK /\ [Next]_vars => TypeOK'
<1> SUFFICES ASSUME TypeOK, [Next]_vars
             PROVE  TypeOK'
  OBVIOUS
<1>1. CASE \E e \in Event : AppendToLog(e)
  <2>1. PICK e \in Event : AppendToLog(e)
    BY <1>1
  <2>2. log' \in Seq(Event) /\ Len(log') = Len(log) + 1
    BY <2>1 DEF TypeOK, AppendToLog
  <2>3. DOMAIN log \subseteq DOMAIN log'
    BY <2>2 DEF TypeOK
  <2> QED
    BY <2>1, <2>2, <2>3 DEF TypeOK, AppendToLog
<1>2. CASE \E t \in Teams : Erase(t)
  BY <1>2 DEF TypeOK, Erase
<1>3. CASE \E from, to \in Phases : EnterPhase(from, to)
  BY <1>3 DEF TypeOK, EnterPhase
<1>4. CASE Deliver
  <2>1. PICK i \in Pending : Handle(i) /\ cursor' = i /\ handled' = handled \cup {i}
    BY <1>4 DEF Deliver
  <2>2. i \in DOMAIN log /\ i \in Nat /\ i > cursor /\ i <= Len(log)
    BY LogPositions DEF Pending, Live
  <2>3. handled' \subseteq 1 .. i
    BY <2>1, <2>2, LogPositions
  <2>4. dead' \subseteq DOMAIN log /\ rows' \in [Keys -> Row \cup {NoRow}]
    BY <2>1, <2>2, HandleType DEF TypeOK
  <2> QED
    BY <1>4, <2>1, <2>2, <2>3, <2>4 DEF TypeOK, Deliver
<1>5. CASE Redeliver
  <2>1. cursor \in DOMAIN log /\ Handle(cursor)
    BY <1>5, LogPositions DEF Redeliver
  <2> QED
    BY <1>5, <2>1, HandleType DEF Redeliver, TypeOK
<1>6. CASE Restart
  BY <1>6 DEF Restart, TypeOK, EmptyTable, Phases
<1>7. CASE UNCHANGED vars
  BY <1>7 DEF TypeOK, vars
<1> QED
  BY <1>1, <1>2, <1>3, <1>4, <1>5, <1>6, <1>7, StepKinds

\* Every reachable state is well typed.
THEOREM TypeCorrect == Spec => []TypeOK
BY InitType, NextType, PTL DEF Spec

-----------------------------------------------------------------------------
(***************************************************************************)
(* The inductive invariant, kind of step by kind of step.                  *)
(***************************************************************************)

\* A step that leaves the replay and the table alone, and the events that are on
\* the log, disturbs nothing the table has to do with.
LEMMA ReplayUntouched ==
  ASSUME TypeOK, RowsFollowLog, NoRowFromNowhere,
         UNCHANGED <<handled, dead, rows, version>>,
         \A i \in DOMAIN log : i \in DOMAIN log' /\ log'[i] = log[i]
  PROVE  RowsFollowLog' /\ NoRowFromNowhere'
<1>1. RowsFollowLog'
  <2> SUFFICES ASSUME NEW k \in Keys, NEW i \in handled \ dead,
                      LastAbout(i, k, handled)'
               PROVE  rows[k] = Effect(log'[i])
    BY DEF RowsFollowLog, Effect
  <2>1. \A j \in handled : j \in DOMAIN log /\ log'[j] = log[j]
    BY LogPositions
  <2>2. LastAbout(i, k, handled)
    BY <2>1 DEF LastAbout
  <2> QED
    BY <2>1, <2>2 DEF RowsFollowLog
<1>2. NoRowFromNowhere'
  BY DEF NoRowFromNowhere
<1> QED
  BY <1>1, <1>2

\* Handling a position at or behind which everything handled lies: the key it is
\* about holds what it says, or it is dead-lettered; the other keys hold what
\* they held.
LEMMA HandleKeeps ==
  ASSUME TypeOK, RowsFollowLog, NoRowFromNowhere,
         NEW i \in DOMAIN log, \A j \in handled : j <= i,
         Handle(i), handled' = handled \cup {i}, UNCHANGED <<log, version>>
  PROVE  RowsFollowLog' /\ NoRowFromNowhere'
<1>1. i \in Nat /\ log[i] \in Event /\ version \in Nat
  <2>1. i \in Nat
    BY LogPositions
  <2> QED
    BY <2>1 DEF TypeOK
<1>2. ASSUME NEW k \in Keys
      PROVE  HandleMessage(log[i], rows)[k] =
               IF Touches(log[i], k) THEN Effect(log[i]) ELSE rows[k]
  BY <1>1, HandleMessageMeans DEF TypeOK
<1>3. RowsFollowLog'
  <2> SUFFICES ASSUME NEW k \in Keys, NEW j \in handled' \ dead',
                      LastAbout(j, k, handled)'
               PROVE  rows'[k] = Effect(log[j])
    BY DEF RowsFollowLog, Effect
  <2>1. /\ Touches(log[j], k)
        /\ \A l \in handled \cup {i} : l > j => ~Touches(log[l], k)
    BY DEF LastAbout
  <2>2. ASSUME j # i
        PROVE  rows[k] = Effect(log[j])
    <3>1. j \in handled \ dead
      BY <2>2 DEF Handle
    <3>2. LastAbout(j, k, handled)
      BY <2>1, <3>1 DEF LastAbout
    <3> QED
      BY <3>1, <3>2 DEF RowsFollowLog
  <2>3. CASE rows' = HandleMessage(log[i], rows) /\ UNCHANGED dead
    <3>1. CASE Touches(log[i], k)
      <4>1. j \in Nat /\ (j # i => i > j)
        BY <1>1, LogPositions
      <4>2. j = i
        BY <2>1, <3>1, <4>1
      <4> QED
        BY <1>2, <2>3, <3>1, <4>2
    <3>2. CASE ~Touches(log[i], k)
      BY <1>2, <2>1, <2>2, <2>3, <3>2
    <3> QED
      BY <3>1, <3>2
  <2>4. CASE dead' = dead \cup {i} /\ UNCHANGED rows
    BY <2>2, <2>4
  <2> QED
    BY <2>3, <2>4 DEF Handle
<1>4. NoRowFromNowhere'
  <2> SUFFICES ASSUME NEW k \in Keys, rows'[k] # NoRow
               PROVE  \E j \in DOMAIN log :
                        /\ log[j].kind = "photographed"
                        /\ Touches(log[j], k)
                        /\ rows'[k].value = Recorded(log[j].value)
    BY DEF NoRowFromNowhere
  <2>1. CASE rows'[k] = rows[k]
    BY <2>1 DEF NoRowFromNowhere
  <2>2. CASE Touches(log[i], k) /\ rows'[k] = Effect(log[i])
    BY <2>2 DEF Effect
  <2> QED
    BY <1>2, <2>1, <2>2 DEF Handle
<1> QED
  BY <1>3, <1>4

LEMMA InitInv == Init => IInv
BY InitType
   DEF Init, IInv, RowsFollowLog, NoRowFromNowhere, EmptyTable,
       DeadlettersAreCurrent, NothingSkipped

LEMMA NextInv == IInv /\ [Next]_vars => IInv'
<1> SUFFICES ASSUME IInv, [Next]_vars
             PROVE  IInv'
  OBVIOUS
<1> USE DEF IInv
<1>1. TypeOK'
  BY NextType
<1>2. CASE \E e \in Event : AppendToLog(e)
  <2>1. PICK e \in Event : AppendToLog(e)
    BY <1>2
  <2>2. \A i \in DOMAIN log : i \in DOMAIN log' /\ log'[i] = log[i]
    BY <2>1 DEF AppendToLog, TypeOK
  <2> QED
    BY <1>1, <2>1, <2>2, ReplayUntouched
       DEF AppendToLog, DeadlettersAreCurrent, NothingSkipped
<1>3. CASE \E t \in Teams : Erase(t)
  BY <1>1, <1>3, ReplayUntouched DEF Erase, DeadlettersAreCurrent, NothingSkipped
<1>4. CASE \E from, to \in Phases : EnterPhase(from, to)
  BY <1>1, <1>4, ReplayUntouched
     DEF EnterPhase, DeadlettersAreCurrent, NothingSkipped
<1>5. CASE Deliver
  <2>1. PICK i \in Pending :
          /\ \A j \in Pending : i <= j
          /\ Handle(i)
          /\ cursor' = i
          /\ handled' = handled \cup {i}
    BY <1>5 DEF Deliver
  <2>2. i \in DOMAIN log /\ i \in Nat /\ i > cursor
    BY LogPositions DEF Pending, Live
  <2>3. \A j \in handled : j <= i
    BY <2>2, LogPositions
  <2>4. UNCHANGED <<log, version, erased>>
    BY <1>5 DEF Deliver
  <2>5. RowsFollowLog' /\ NoRowFromNowhere'
    BY <2>1, <2>2, <2>3, <2>4, HandleKeeps
  <2>6. DeadlettersAreCurrent'
    BY <2>1, <2>2, HandleType DEF DeadlettersAreCurrent
  <2>7. NothingSkipped'
    <3> SUFFICES ASSUME NEW j \in 1 .. i, j \notin erased
                 PROVE  j \in handled \cup {i}
      BY <2>1, <2>4 DEF NothingSkipped
    <3>1. CASE j \in 1 .. cursor
      BY <3>1 DEF NothingSkipped
    <3>2. CASE j \notin 1 .. cursor
      <4>1. j \in Pending
        BY <2>2, <3>2, LogPositions DEF Pending, Live
      <4> QED
        BY <2>1, <2>2, <4>1
    <3> QED
      BY <3>1, <3>2
  <2> QED
    BY <1>1, <2>5, <2>6, <2>7
<1>6. CASE Redeliver
  <2>1. /\ cursor \in handled
        /\ Handle(cursor)
        /\ UNCHANGED <<log, erased, cursor, handled, version>>
    BY <1>6 DEF Redeliver
  <2>2. cursor \in DOMAIN log /\ \A j \in handled : j <= cursor
    BY <2>1, LogPositions
  <2>3. RowsFollowLog' /\ NoRowFromNowhere'
    BY <2>1, <2>2, HandleKeeps
  <2> QED
    BY <1>1, <2>1, <2>2, <2>3, HandleType
       DEF DeadlettersAreCurrent, NothingSkipped
<1>7. CASE Restart
  BY <1>1, <1>7
     DEF Restart, RowsFollowLog, NoRowFromNowhere, EmptyTable,
         DeadlettersAreCurrent, NothingSkipped
<1>8. CASE UNCHANGED vars
  BY <1>1, <1>8, ReplayUntouched DEF vars, DeadlettersAreCurrent, NothingSkipped
<1> QED
  BY <1>2, <1>3, <1>4, <1>5, <1>6, <1>7, <1>8, StepKinds

LEMMA Invariant == Spec => []IInv
BY InitInv, NextInv, PTL DEF Spec

-----------------------------------------------------------------------------
(***************************************************************************)
(* The theorems.                                                           *)
(***************************************************************************)

\* A key the replay has come to holds what the last event about it says.
THEOREM ReplayFollowsLog == Spec => []RowsFollowLog
<1>1. IInv => RowsFollowLog
  BY DEF IInv
<1> QED
  BY <1>1, Invariant, PTL

\* Every row is the row of an announced photograph.
THEOREM RowsAreAnnounced == Spec => []NoRowFromNowhere
<1>1. IInv => NoRowFromNowhere
  BY DEF IInv
<1> QED
  BY <1>1, Invariant, PTL

\* The dead-letters counted after a boot are of that boot.
THEOREM DeadlettersAreFresh == Spec => []DeadlettersAreCurrent
<1>1. IInv => DeadlettersAreCurrent
  BY DEF IInv
<1> QED
  BY <1>1, Invariant, PTL

\* A projection that has caught up is the view of the log, whatever the table held
\* at boot and whatever was delivered twice: everything on the stream has been
\* handled, so the last event about a key on the stream is the last handled one.
THEOREM ReadModelIsDerived == Spec => []CaughtUpIsView
<1>1. IInv => CaughtUpIsView
  <2> SUFFICES ASSUME IInv, CaughtUp, dead = {}, handled \cap erased = {},
                      NEW k \in Keys
               PROVE  /\ \A i \in Live :
                           LastAbout(i, k, Live) => rows[k] = Effect(log[i])
                      /\ erased = {} /\ (\A i \in Live : ~Touches(log[i], k))
                           => rows[k] = NoRow
    BY DEF CaughtUpIsView
  <2> USE DEF IInv
  <2>1. Live = handled
    <3>1. ASSUME NEW i \in Live
          PROVE  i \in handled
      <4>1. i \in 1 .. cursor
        BY LogPositions DEF Live, CaughtUp, Pending
      <4> QED
        BY <4>1 DEF NothingSkipped, Live
    <3> QED
      BY <3>1, LogPositions DEF Live
  <2>2. ASSUME NEW i \in Live, LastAbout(i, k, Live)
        PROVE  rows[k] = Effect(log[i])
    BY <2>1, <2>2 DEF RowsFollowLog
  <2>3. ASSUME erased = {}, \A i \in Live : ~Touches(log[i], k)
        PROVE  rows[k] = NoRow
    BY <2>3 DEF NoRowFromNowhere, Live
  <2> QED
    BY <2>2, <2>3
<1> QED
  BY <1>1, Invariant, PTL

-----------------------------------------------------------------------------
(***************************************************************************)
(* What is announced is listed, with dead-letters and erasures: RowsFollow-*)
(* Log says nothing of a key whose last event was refused.  A key has a    *)
(* row as soon as one photographed event about it was executed and no      *)
(* purge was delivered behind it, whatever became of the others.           *)
(***************************************************************************)

\* nats stream purge is of a subject, and of photographed events only.
ErasedArePhotographs == \A i \in erased : log[i].kind = "photographed"

\* Among the events handled no purge about k is behind i.
NoPurgeBehind(i, k, S) ==
  \A j \in S : j > i /\ Touches(log[j], k) => log[j].kind = "photographed"

PhotographsStay ==
  \A k \in Keys : \A i \in handled \ dead :
    /\ log[i].kind = "photographed"
    /\ Touches(log[i], k)
    /\ NoPurgeBehind(i, k, handled)
    => rows[k] # NoRow

ListInv == IInv /\ ErasedArePhotographs /\ PhotographsStay

\* What AnnouncedIsListed comes to, once the projection has caught up.
ListedOnceCaughtUp ==
  CaughtUp =>
    \A k \in Keys : \A i \in Live \ dead :
      LastAbout(i, k, Live) /\ log[i].kind = "photographed" => rows[k] # NoRow

\* The events on the log keep what they say, and a step that leaves the replay and
\* the table alone takes no photograph off the list.
LEMMA ListUntouched ==
  ASSUME TypeOK, PhotographsStay,
         UNCHANGED <<handled, dead, rows>>,
         \A i \in DOMAIN log : i \in DOMAIN log' /\ log'[i] = log[i]
  PROVE  PhotographsStay'
<1> SUFFICES ASSUME NEW k \in Keys, NEW i \in handled \ dead,
                    log'[i].kind = "photographed", Touches(log'[i], k),
                    NoPurgeBehind(i, k, handled)'
             PROVE  rows[k] # NoRow
  BY DEF PhotographsStay
<1>1. \A j \in handled : j \in DOMAIN log /\ log'[j] = log[j]
  BY LogPositions
<1>2. NoPurgeBehind(i, k, handled)
  BY <1>1 DEF NoPurgeBehind
<1> QED
  BY <1>1, <1>2 DEF PhotographsStay

\* Handling an event takes a key off the list only if it is a purge of the key.
LEMMA HandleKeepsListed ==
  ASSUME TypeOK, PhotographsStay,
         NEW i \in DOMAIN log, \A j \in handled : j <= i,
         Handle(i), handled' = handled \cup {i}, UNCHANGED <<log, version>>
  PROVE  PhotographsStay'
<1> SUFFICES ASSUME NEW k \in Keys, NEW j \in (handled \cup {i}) \ dead',
                    log[j].kind = "photographed", Touches(log[j], k),
                    NoPurgeBehind(j, k, handled \cup {i})
             PROVE  rows'[k] # NoRow
  BY DEF PhotographsStay, NoPurgeBehind
<1>1. i \in Nat /\ log[i] \in Event /\ version \in Nat
  <2>1. i \in Nat
    BY LogPositions
  <2> QED
    BY <2>1 DEF TypeOK
<1>2. HandleMessage(log[i], rows)[k] =
        IF Touches(log[i], k) THEN Effect(log[i]) ELSE rows[k]
  BY <1>1, HandleMessageMeans DEF TypeOK
<1>3. ASSUME j # i
      PROVE  rows[k] # NoRow
  <2>1. j \in handled \ dead
    BY <1>3 DEF Handle
  <2>2. NoPurgeBehind(j, k, handled)
    BY DEF NoPurgeBehind
  <2> QED
    BY <2>1, <2>2 DEF PhotographsStay
<1>4. CASE rows' = HandleMessage(log[i], rows) /\ UNCHANGED dead
  <2>1. CASE Touches(log[i], k)
    <3>1. j \in Nat /\ (j # i => i > j)
      BY <1>1, LogPositions
    <3>2. log[i].kind = "photographed"
      BY <2>1, <3>1 DEF NoPurgeBehind
    <3>3. Effect(log[i]) # NoRow
      <4>1. log[i] \in Photographed
        BY <1>1, <3>2 DEF Event, Photopurged
      <4>2. Effect(log[i]) \in Row
        BY <1>1, <3>2, <4>1 DEF Effect, Photographed, Row, Columns
      <4> QED
        BY <4>2, RowAssumption
    <3> QED
      BY <1>2, <1>4, <2>1, <3>3
  <2>2. CASE ~Touches(log[i], k)
    BY <1>2, <1>3, <1>4, <2>2
  <2> QED
    BY <2>1, <2>2
<1>5. CASE dead' = dead \cup {i} /\ UNCHANGED rows
  BY <1>3, <1>5
<1> QED
  BY <1>4, <1>5 DEF Handle

LEMMA ListInitInv == Init => ListInv
BY InitInv DEF Init, ListInv, ErasedArePhotographs, PhotographsStay

LEMMA ListNextInv == ListInv /\ [Next]_vars => ListInv'
<1> SUFFICES ASSUME ListInv, [Next]_vars
             PROVE  ListInv'
  OBVIOUS
<1> USE DEF ListInv
<1>1. IInv' /\ TypeOK
  BY NextInv DEF IInv
<1>2. CASE \E e \in Event : AppendToLog(e)
  <2>1. PICK e \in Event : AppendToLog(e)
    BY <1>2
  <2>2. \A i \in DOMAIN log : i \in DOMAIN log' /\ log'[i] = log[i]
    BY <1>1, <2>1 DEF AppendToLog, TypeOK
  <2>3. ErasedArePhotographs'
    BY <1>1, <2>1, <2>2 DEF AppendToLog, ErasedArePhotographs, TypeOK
  <2> QED
    BY <1>1, <2>1, <2>2, <2>3, ListUntouched DEF AppendToLog
<1>3. CASE \E t \in Teams : Erase(t)
  <2>1. ErasedArePhotographs'
    BY <1>3 DEF Erase, ErasedArePhotographs
  <2> QED
    BY <1>1, <1>3, <2>1, ListUntouched DEF Erase
<1>4. CASE \E from, to \in Phases : EnterPhase(from, to)
  BY <1>1, <1>4, ListUntouched DEF EnterPhase, ErasedArePhotographs
<1>5. CASE Deliver
  <2>1. PICK i \in Pending : Handle(i) /\ handled' = handled \cup {i}
    BY <1>5 DEF Deliver
  <2>2. i \in DOMAIN log /\ i > cursor /\ i \in Nat
    BY <1>1, LogPositions DEF Pending, Live
  <2>3. \A j \in handled : j <= i
    BY <1>1, <2>2, LogPositions
  <2>4. UNCHANGED <<log, version, erased>>
    BY <1>5 DEF Deliver
  <2> QED
    BY <1>1, <2>1, <2>2, <2>3, <2>4, HandleKeepsListed DEF ErasedArePhotographs
<1>6. CASE Redeliver
  <2>1. /\ cursor \in handled
        /\ Handle(cursor)
        /\ UNCHANGED <<log, erased, handled, version>>
    BY <1>6 DEF Redeliver
  <2>2. cursor \in DOMAIN log /\ \A j \in handled : j <= cursor
    BY <1>1, <2>1, LogPositions
  <2>3. handled' = handled \cup {cursor}
    BY <2>1
  <2> QED
    BY <1>1, <2>1, <2>2, <2>3, HandleKeepsListed DEF ErasedArePhotographs
<1>7. CASE Restart
  BY <1>1, <1>7 DEF Restart, ErasedArePhotographs, PhotographsStay
<1>8. CASE UNCHANGED vars
  BY <1>1, <1>8, ListUntouched DEF vars, ErasedArePhotographs
<1> QED
  BY <1>1, <1>2, <1>3, <1>4, <1>5, <1>6, <1>7, <1>8, StepKinds

\* A projection that has caught up lists every photograph whose announcement is the
\* last event about it on the stream and was executed: whatever was dead-lettered,
\* erased or delivered twice besides.
THEOREM AnnouncedIsOnTheList == Spec => []ListedOnceCaughtUp
<1>1. ListInv => ListedOnceCaughtUp
  <2> SUFFICES ASSUME ListInv, CaughtUp, NEW k \in Keys, NEW i \in Live \ dead,
                      LastAbout(i, k, Live), log[i].kind = "photographed"
               PROVE  rows[k] # NoRow
    BY DEF ListedOnceCaughtUp
  <2> USE DEF ListInv, IInv
  <2>1. i \in handled
    <3>1. i \in 1 .. cursor
      BY LogPositions DEF Live, CaughtUp, Pending
    <3> QED
      BY <3>1 DEF NothingSkipped, Live
  <2>2. NoPurgeBehind(i, k, handled)
    <3> SUFFICES ASSUME NEW j \in handled, j > i, Touches(log[j], k)
                 PROVE  log[j].kind = "photographed"
      BY DEF NoPurgeBehind
    <3>1. j \notin Live
      BY DEF LastAbout
    <3>2. j \in erased
      BY <3>1, LogPositions DEF Live
    <3> QED
      BY <3>2 DEF ErasedArePhotographs
  <2> QED
    BY <2>1, <2>2 DEF PhotographsStay, LastAbout
<1> QED
  BY <1>1, ListInitInv, ListNextInv, PTL DEF Spec
=============================================================================

---------------------------- MODULE SystemProofs ----------------------------
(***************************************************************************)
(* Proofs about System, for every set of photographs, producers, teams and *)
(* refs.  System implements Projection, whose invariant IInv it inherits:  *)
(* a row holds what one announced photograph says.  To it SInv adds that   *)
(* every object an announcement names has been stored, and what the        *)
(* reader's step says about the table: past the first query nothing has    *)
(* shown the ref as a display image all the time, and the bytes are asked  *)
(* for only if the ref was seen.                                           *)
(***************************************************************************)
EXTENDS System, ProjectionProofs, Loops

\* The content hashes that a row of a photographed event may name.
EventRefs(e) ==
  IF e.ref = BadRef THEN {}
  ELSE ({e.ref, e.value.original} \cup RenditionRefs(e.value)) \cap Refs

LogBacked ==
  \A i \in DOMAIN log :
    log[i].kind = "photographed" => EventRefs(log[i]) \subseteq Ever \cup Foreign

\* Some photograph was announced with the ref to be shown.
Announced(ref) ==
  \E i \in DOMAIN log :
    /\ log[i].kind = "photographed"
    /\ ref \in {log[i].ref} \cup RenditionRefs(log[i].value)

ReaderInv ==
  /\ Busy /\ Named(rows, reader.ref) # {} => reader.seen
  /\ reader.step = "renditions" => \A n \in reader.steady : n[2] = "rendition"
  /\ reader.step = "get" => reader.seen /\ Announced(reader.ref)

SInv ==
  /\ IInv
  /\ SystemTypeOK
  /\ LogBacked
  /\ ReaderInv

-----------------------------------------------------------------------------
(***************************************************************************)
(* System implements Projection.                                           *)
(***************************************************************************)

\* What a step of the system is to the projection.
LEMMA SystemStepKinds ==
  ASSUME [SystemNext]_systemVars
  PROVE  \/ Next /\ Watch /\ UNCHANGED store
         \/ Stop
         \/ \E s \in Shots : \E i \in DOMAIN Parts(s) : StoreObject(s, i)
         \/ \E o \in Refs : Remove(o)
         \/ \E ref \in Refs \cup {BadRef} : Ask(ref)
         \/ DisplayQuery \/ RenditionQuery \/ QueryFails \/ Get \/ GetFails
         \/ UNCHANGED systemVars
<1>1. ASSUME NEW s \in Shots, NEW t \in Teams, Announce(s, t)
      PROVE  Next /\ Watch /\ UNCHANGED store
  <2>1. Photo[s].type \in Types /\ Photo[s].ref \in Refs /\ Photo[s].value \in Values
    BY SystemAssumption
  <2> QED
    BY <1>1, <2>1 DEF Announce, Next
<1>2. ASSUME Proceed \/ Project
      PROVE  Next /\ Watch /\ UNCHANGED store
  BY <1>2 DEF Proceed, Project, Next
<1> QED
  BY <1>1, <1>2 DEF SystemNext

\* Every step of the system is one of the projection or leaves it alone.
LEMMA SystemStepProjects == [SystemNext]_systemVars => [Next]_vars
<1> SUFFICES ASSUME [SystemNext]_systemVars
             PROVE  [Next]_vars
  OBVIOUS
<1>1. CASE Stop
  BY <1>1 DEF Stop, Next
<1>2. CASE \E s \in Shots : \E i \in DOMAIN Parts(s) : StoreObject(s, i)
  BY <1>2 DEF StoreObject
<1>3. CASE \E o \in Refs : Remove(o)
  BY <1>3 DEF Remove
<1>4. CASE \E ref \in Refs \cup {BadRef} : Ask(ref)
  BY <1>4 DEF Ask
<1>5. CASE DisplayQuery \/ RenditionQuery \/ QueryFails \/ Get \/ GetFails
  BY <1>5 DEF DisplayQuery, RenditionQuery, QueryFails, Get, GetFails, Turn, Answer
<1>6. CASE UNCHANGED systemVars
  BY <1>6 DEF systemVars
<1> QED
  BY <1>1, <1>2, <1>3, <1>4, <1>5, <1>6, SystemStepKinds

\* The composition is an implementation of the projection alone, so that what is
\* proved of it holds with ingest, the store and the readers around it.
THEOREM ImplementsProjection == SystemSpec => Spec
<1>1. SystemInit => Init
  BY DEF SystemInit
<1> QED
  BY <1>1, SystemStepProjects, PTL DEF SystemSpec, Spec

-----------------------------------------------------------------------------
(***************************************************************************)
(* What a row names.                                                       *)
(***************************************************************************)

\* Named rows are keys that are taken.
LEMMA NamedMeans ==
  ASSUME NEW ref, NEW n \in Named(rows, ref)
  PROVE  /\ n[1] \in Keys /\ rows[n[1]] # NoRow
         /\ n[2] \in {"display", "rendition"}
         /\ n[2] = "display" => n[1][3] = ref
         /\ n[2] = "rendition" => ref \in rows[n[1]].value.renditions
BY DEF Named

\* A row names refs of an announced photograph only.
LEMMA RowNames ==
  ASSUME IInv, NEW k \in Keys, rows[k] # NoRow
  PROVE  \E i \in DOMAIN log :
           /\ log[i].kind = "photographed"
           /\ k[3] = log[i].ref
           /\ rows[k].value.renditions \subseteq RenditionRefs(log[i].value)
           /\ ({k[3], rows[k].value.original} \cup rows[k].value.renditions) \ {NoRef}
                \subseteq EventRefs(log[i])
<1>1. PICK i \in DOMAIN log :
        /\ log[i].kind = "photographed"
        /\ Touches(log[i], k)
        /\ rows[k].value = Recorded(log[i].value)
  BY DEF IInv, NoRowFromNowhere
<1>2. log[i] \in Photographed
  <2>1. log[i] \in Event
    BY DEF IInv, TypeOK
  <2> QED
    BY <1>1, <2>1 DEF Event, Photopurged
<1>3. k[3] = log[i].ref /\ k[3] \in Refs /\ log[i].ref # BadRef
  BY <1>1, ConstantsAssumption DEF Touches, Keys
<1>4. rows[k].value.renditions = RenditionRefs(log[i].value) \ {BadRef}
  BY <1>1 DEF Recorded, RenditionRefs
<1>5. RenditionRefs(log[i].value) \subseteq Refs \cup {BadRef}
  <2> DEFINE v == log[i].value
  <2>1. v \in Values
    BY <1>2 DEF Photographed
  <2>2. v.renditions \in Seq(Rendition)
    BY <2>1, ConstantsAssumption
  <2>3. \A j \in DOMAIN v.renditions : v.renditions[j] \in Rendition
    BY <2>2
  <2> QED
    BY <2>3 DEF RenditionRefs, Rendition
<1>6. rows[k].value.original =
        IF log[i].value.original \in Refs THEN log[i].value.original ELSE NoRef
  BY <1>1 DEF Recorded
<1>7. ({k[3], rows[k].value.original} \cup rows[k].value.renditions) \ {NoRef}
        \subseteq EventRefs(log[i])
  BY <1>3, <1>4, <1>5, <1>6 DEF EventRefs
<1> QED
  BY <1>1, <1>3, <1>4, <1>7

\* What is named was announced to be shown.
LEMMA NamedIsAnnounced ==
  ASSUME IInv, NEW ref, Named(rows, ref) # {}
  PROVE  Announced(ref)
<1>1. PICK n : n \in Named(rows, ref)
  OBVIOUS
<1>2. /\ n[1] \in Keys /\ rows[n[1]] # NoRow
      /\ n[1][3] = ref \/ ref \in rows[n[1]].value.renditions
  BY <1>1, NamedMeans
<1>3. PICK i \in DOMAIN log :
        /\ log[i].kind = "photographed"
        /\ n[1][3] = log[i].ref
        /\ rows[n[1]].value.renditions \subseteq RenditionRefs(log[i].value)
  BY <1>2, RowNames
<1> QED
  BY <1>2, <1>3 DEF Announced

\* With the log backed by the store, so are the rows.
LEMMA RowsAreBacked ==
  ASSUME IInv, LogBacked
  PROVE  NamedIsStored
<1> SUFFICES ASSUME NEW k \in Keys, rows[k] # NoRow
             PROVE  ({k[3], rows[k].value.original} \cup rows[k].value.renditions)
                       \ {NoRef} \subseteq Ever \cup Foreign
  BY DEF NamedIsStored
<1>1. PICK i \in DOMAIN log :
        /\ log[i].kind = "photographed"
        /\ ({k[3], rows[k].value.original} \cup rows[k].value.renditions) \ {NoRef}
             \subseteq EventRefs(log[i])
  BY RowNames
<1> QED
  BY <1>1 DEF LogBacked

-----------------------------------------------------------------------------
(***************************************************************************)
(* The inductive invariant.                                                *)
(***************************************************************************)

LEMMA SystemInitInv == SystemInit => SInv
<1> SUFFICES ASSUME SystemInit
             PROVE  SInv
  OBVIOUS
<1>1. IInv
  BY InitInv DEF SystemInit
<1>2. SystemTypeOK
  BY <1>1 DEF SystemInit, SystemTypeOK, IInv, Done, Busy, Steps
<1>3. LogBacked /\ ReaderInv
  BY DEF SystemInit, Init, LogBacked, ReaderInv, Done, Busy
<1> QED
  BY <1>1, <1>2, <1>3 DEF SInv

\* A step of the projection that leaves what is on the log where it is.
LEMMA LogGrows ==
  ASSUME TypeOK, Next
  PROVE  /\ DOMAIN log \subseteq DOMAIN log'
         /\ \A i \in DOMAIN log : log'[i] = log[i]
<1>1. CASE \E e \in Event : AppendToLog(e)
  BY <1>1 DEF AppendToLog, TypeOK
<1>2. CASE ~ \E e \in Event : AppendToLog(e)
  BY <1>2, StepKinds
     DEF Erase, EnterPhase, Deliver, Redeliver, Restart, vars
<1> QED
  BY <1>1, <1>2

\* What a step of Next adds to the log, and which step may.
LEMMA LogGains ==
  ASSUME TypeOK, SystemNext, NEW i \in DOMAIN log', i \notin DOMAIN log,
         log'[i].kind = "photographed"
  PROVE  EventRefs(log'[i]) \subseteq Ever \cup Foreign
<1>1. ASSUME NEW e, AppendToLog(e)
      PROVE  log'[i] = e
  BY <1>1 DEF AppendToLog, TypeOK
<1>2. CASE \E s \in Shots, t \in Teams : Announce(s, t)
  <2>1. PICK s \in Shots, t \in Teams : Announce(s, t)
    BY <1>2
  <2>2. /\ log'[i].ref = Photo[s].ref
        /\ log'[i].value = Photo[s].value
    BY <1>1, <2>1 DEF Announce, Publish
  <2> DEFINE v == Photo[s].value
  <2>3. v \in Values
    BY SystemAssumption
  <2>4. v.renditions \in Seq(Rendition)
    BY <2>3, ConstantsAssumption
  <2>5. {v.original, Photo[s].ref} \cup RenditionRefs(v) \subseteq Objects(s)
    <3>1. /\ DOMAIN v.renditions = 1 .. Len(v.renditions)
          /\ Len(v.renditions) \in Nat
      BY <2>4
    <3> DEFINE head == <<v.original, Photo[s].ref>>
               tail == [j \in DOMAIN v.renditions |-> v.renditions[j].ref]
    <3>2. \A j \in DOMAIN v.renditions : v.renditions[j] \in Rendition
      BY <2>4
    <3>3. tail \in Seq(Refs \cup {BadRef}) /\ Len(tail) = Len(v.renditions)
      BY <3>1, <3>2 DEF Rendition
    <3>4. head \in Seq({v.original, Photo[s].ref}) /\ Len(head) = 2
      OBVIOUS
    <3> DEFINE whole == head \o tail
    <3>5. /\ DOMAIN whole = 1 .. 2 + Len(tail)
          /\ whole[1] = v.original
          /\ whole[2] = Photo[s].ref
          /\ \A j \in 1 .. Len(tail) : whole[2 + j] = tail[j]
      BY <3>1, <3>3, <3>4
    <3>6. Parts(s) = whole
      BY DEF Parts
    <3>7. {v.original, Photo[s].ref} \subseteq Objects(s)
      <4>1. 1 \in DOMAIN whole /\ 2 \in DOMAIN whole
        BY <3>1, <3>3, <3>5
      <4> HIDE DEF whole
      <4> QED
        BY <4>1, <3>5, <3>6 DEF Objects
    <3>8. RenditionRefs(v) \subseteq Objects(s)
      <4> SUFFICES ASSUME NEW j \in DOMAIN v.renditions
                   PROVE  v.renditions[j].ref \in Objects(s)
        BY DEF RenditionRefs
      <4>1. j \in 1 .. Len(tail) /\ 2 + j \in DOMAIN whole
        BY <3>1, <3>3, <3>5
      <4>2. whole[2 + j] = v.renditions[j].ref
        BY <4>1, <3>5
      <4> HIDE DEF whole
      <4> QED
        BY <4>1, <4>2, <3>6 DEF Objects
    <3> QED
      BY <3>7, <3>8
  <2>6. Objects(s) \subseteq Ever
    BY <2>1 DEF Announce
  <2> QED
    BY <2>2, <2>5, <2>6 DEF EventRefs
<1>3. CASE Project
  <2>1. CASE \E t \in Teams, refs \in PurgeLists : Purge(t, refs)
    <3>1. log'[i].kind = "photopurged"
      BY <1>1, <2>1 DEF Purge
    <3> QED
      BY <3>1
  <2>2. CASE \E e \in OlderEvents : PublishOlder(e)
    <3>1. PICK e \in OlderEvents : PublishOlder(e)
      BY <2>2
    <3>2. log'[i] = e
      BY <1>1, <3>1 DEF PublishOlder
    <3>3. e \in Photographed
      BY <3>2, ConstantsAssumption DEF Event, Photopurged
    <3> QED
      BY <3>2, <3>3 DEF EventRefs, Foreign
  <2>3. CASE UNCHANGED log
    BY <2>3
  <2> QED
    BY <1>3, <2>1, <2>2, <2>3
       DEF Project, Erase, Arm, EnterPhase, Redeliver
<1>4. CASE UNCHANGED log
  BY <1>4
<1> QED
  BY <1>2, <1>3, <1>4
     DEF SystemNext, Proceed, Connect, Run, RunFails, EnterPhase, Deliver, StoreObject, Remove, Stop, Restart, Ask, DisplayQuery,
         RenditionQuery, QueryFails, Get, GetFails, Turn, Answer, vars

\* Nothing that was stored is forgotten.
LEMMA EverGrows ==
  ASSUME SystemTypeOK, [SystemNext]_systemVars
  PROVE  Ever \subseteq Ever'
BY SystemStepKinds
   DEF Ever, store, systemVars, Stop, StoreObject, Remove, Ask, DisplayQuery,
       RenditionQuery, QueryFails, Get, GetFails, Turn, Answer

LEMMA LogStaysBacked ==
  ASSUME SInv, [SystemNext]_systemVars
  PROVE  LogBacked'
<1> USE DEF SInv
<1>1. Ever \subseteq Ever'
  BY EverGrows
<1>2. CASE SystemNext
  <2> SUFFICES ASSUME NEW i \in DOMAIN log', log'[i].kind = "photographed"
               PROVE  EventRefs(log'[i]) \subseteq Ever \cup Foreign
    BY <1>1 DEF LogBacked
  <2>1. CASE i \in DOMAIN log
    <3>1. log'[i] = log[i]
      BY <2>1, SystemStepProjects, LogGrows DEF SystemTypeOK, vars
    <3> QED
      BY <2>1, <3>1 DEF LogBacked
  <2>2. CASE i \notin DOMAIN log
    BY <1>2, <2>2, LogGains DEF SystemTypeOK
  <2> QED
    BY <2>1, <2>2
<1>3. CASE UNCHANGED systemVars
  BY <1>1, <1>3 DEF LogBacked, systemVars, vars
<1> QED
  BY <1>2, <1>3

\* Who shows a ref is a key and a role.
LEMMA NamedType ==
  ASSUME NEW table, NEW ref
  PROVE  Named(table, ref) \subseteq Keys \X {"display", "rendition"}
BY DEF Named

\* What the projection does while a request is open, its reader takes in.
LEMMA WatchKeeps ==
  ASSUME SInv, TypeOK', Next, Watch, UNCHANGED store
  PROVE  SystemTypeOK' /\ ReaderInv'
<1> USE DEF SInv
<1>1. CASE ~Busy
  <2>1. reader' = reader /\ ~Busy'
    BY <1>1 DEF Watch, Busy
  <2> QED
    BY <1>1, <2>1 DEF SystemTypeOK, ReaderInv, Busy, store
<1>2. CASE Busy
  <2>1. /\ reader'.step = reader.step
        /\ reader'.ref = reader.ref
        /\ reader'.status = reader.status
        /\ reader'.seen = (reader.seen \/ Named(rows', reader.ref) # {})
        /\ reader'.steady = reader.steady \cap Named(rows', reader.ref)
    BY <1>2 DEF Watch, SystemTypeOK
  <2>2. reader' \in [step : Steps, ref : Refs \cup {NoRef},
                     status : {0, 200, 404, 500}, seen : BOOLEAN,
                     steady : SUBSET (Keys \X {"display", "rendition"})]
    <3> DEFINE seen == reader.seen \/ Named(rows', reader.ref) # {}
               steady == reader.steady \cap Named(rows', reader.ref)
    <3>1. seen \in BOOLEAN
      OBVIOUS
    <3>2. steady \in SUBSET (Keys \X {"display", "rendition"})
      BY DEF SystemTypeOK
    <3>3. reader' = [step |-> reader.step, ref |-> reader.ref,
                     status |-> reader.status, seen |-> seen, steady |-> steady]
      BY <1>2 DEF Watch
    <3> HIDE DEF seen, steady
    <3> QED
      BY <3>1, <3>2, <3>3 DEF SystemTypeOK
  <2>3. Busy'
    BY <1>2, <2>1 DEF Busy
  <2>4. SystemTypeOK'
    BY <1>2, <2>1, <2>2, <2>3 DEF SystemTypeOK, store
  <2>5. Announced(reader.ref) => Announced(reader.ref)'
    BY LogGrows, <2>1 DEF Announced, SystemTypeOK
  <2>6. ReaderInv'
    BY <2>1, <2>5 DEF ReaderInv
  <2> QED
    BY <2>4, <2>6
<1> QED
  BY <1>1, <1>2

\* The reader's own steps.
LEMMA ReaderKeeps ==
  ASSUME SInv,
         \/ \E ref \in Refs \cup {BadRef} : Ask(ref)
         \/ DisplayQuery \/ RenditionQuery \/ QueryFails \/ Get \/ GetFails
  PROVE  SystemTypeOK' /\ ReaderInv'
<1> USE DEF SInv
<1> DEFINE Request == [step : Steps, ref : Refs \cup {NoRef},
                       status : {0, 200, 404, 500}, seen : BOOLEAN,
                       steady : SUBSET (Keys \X {"display", "rendition"})]
<1>1. UNCHANGED <<vars, store>>
  BY DEF Ask, DisplayQuery, RenditionQuery, QueryFails, Get, GetFails, Turn, Answer
<1>2. TypeOK' /\ blobs' \subseteq Refs /\ removed' \subseteq Refs
  BY <1>1 DEF SystemTypeOK, TypeOK, vars, store
<1>3. rows' = rows /\ log' = log
  BY <1>1 DEF vars
<1>4. ASSUME NEW status \in {200, 404, 500}, reader' = Done(status)
      PROVE  SystemTypeOK' /\ ReaderInv'
  BY <1>2, <1>4 DEF SystemTypeOK, ReaderInv, Done, Busy, Steps
<1>5. ASSUME NEW ref \in Refs, Ask(ref)
      PROVE  SystemTypeOK' /\ ReaderInv'
  <2>1. reader' = [step |-> "display", ref |-> ref, status |-> 0,
                   seen |-> Named(rows, ref) # {}, steady |-> Named(rows, ref)]
    BY <1>5 DEF Ask
  <2>2. reader' \in Request
    BY <2>1, NamedType DEF Steps
  <2>3. SystemTypeOK'
    BY <1>2, <1>3, <2>1, <2>2 DEF SystemTypeOK
  <2>4. ReaderInv'
    BY <1>3, <2>1 DEF ReaderInv
  <2> QED
    BY <2>3, <2>4
<1>6. ASSUME NEW step \in {"get", "renditions"}, Busy, Turn(step)
      PROVE  /\ SystemTypeOK'
             /\ reader'.step = step /\ reader'.ref = reader.ref
             /\ reader'.seen = reader.seen /\ reader'.steady = reader.steady
  <2>1. /\ reader' = [reader EXCEPT !.step = step]
        /\ reader \in Request
    BY <1>6 DEF Turn, SystemTypeOK
  <2>2. reader' \in Request
    BY <2>1 DEF Steps
  <2> QED
    BY <1>2, <1>3, <1>6, <2>1, <2>2 DEF SystemTypeOK, Busy
<1>7. ASSUME Busy, Turn("get"), Named(rows, reader.ref) # {}
      PROVE  SystemTypeOK' /\ ReaderInv'
  <2>1. Announced(reader.ref)
    BY <1>7, NamedIsAnnounced
  <2>2. Announced(reader.ref)'
    BY <1>3, <1>6, <1>7, <2>1 DEF Announced
  <2> QED
    BY <1>3, <1>6, <1>7, <2>2 DEF ReaderInv
<1>8. CASE DisplayQuery
  <2>1. Busy
    BY <1>8 DEF DisplayQuery, Busy
  <2>2. ASSUME NEW k \in Keys, rows[k] # NoRow, k[3] = reader.ref
        PROVE  SystemTypeOK' /\ ReaderInv'
    <3>1. <<k, "display">> \in Named(rows, reader.ref)
      BY <2>2 DEF Named
    <3> QED
      BY <1>7, <1>8, <2>1, <2>2, <3>1 DEF DisplayQuery
  <2>3. ASSUME \A k \in Keys : ~(rows[k] # NoRow /\ k[3] = reader.ref)
        PROVE  SystemTypeOK' /\ ReaderInv'
    <3>1. Turn("renditions")
      BY <1>8, <2>3 DEF DisplayQuery
    <3>2. \A n \in reader.steady : n[2] = "rendition"
      <4> SUFFICES ASSUME NEW n \in reader.steady
                   PROVE  n[2] = "rendition"
        OBVIOUS
      <4>1. n \in Named(rows, reader.ref)
        BY <2>1 DEF SystemTypeOK
      <4> QED
        BY <2>3, <4>1, NamedMeans
    <3> QED
      BY <1>3, <1>6, <2>1, <3>1, <3>2 DEF ReaderInv, Busy
  <2> QED
    BY <2>2, <2>3
<1>9. CASE RenditionQuery
  <2>1. Busy
    BY <1>9 DEF RenditionQuery, Busy
  <2>2. ASSUME NEW k \in Candidates(reader.ref),
               reader.ref \in rows[k].value.renditions
        PROVE  SystemTypeOK' /\ ReaderInv'
    <3>1. <<k, "rendition">> \in Named(rows, reader.ref)
      BY <2>2 DEF Named, Candidates
    <3> QED
      BY <1>7, <1>9, <2>1, <2>2, <3>1 DEF RenditionQuery
  <2>3. CASE Answer(404)
    BY <1>4, <2>3 DEF Answer
  <2> QED
    BY <1>9, <2>2, <2>3 DEF RenditionQuery
<1>10. CASE \E ref \in {BadRef} : Ask(ref)
  <2>1. reader' = Done(404)
    BY <1>10, ConstantsAssumption DEF Ask
  <2> QED
    BY <1>4, <2>1
<1>11. CASE QueryFails \/ Get \/ GetFails
  <2>1. \E status \in {200, 404, 500} : reader' = Done(status)
    BY <1>11 DEF QueryFails, Get, GetFails, Answer
  <2> QED
    BY <1>4, <2>1
<1> QED
  BY <1>5, <1>8, <1>9, <1>10, <1>11

LEMMA SystemNextInv == SInv /\ [SystemNext]_systemVars => SInv'
<1> SUFFICES ASSUME SInv, [SystemNext]_systemVars
             PROVE  SInv'
  OBVIOUS
<1>1. IInv'
  BY SystemStepProjects, NextInv DEF SInv
<1>2. LogBacked'
  BY LogStaysBacked
<1>3. TypeOK'
  BY <1>1 DEF IInv
<1>4. SystemTypeOK' /\ ReaderInv'
  <2>1. CASE Next /\ Watch /\ UNCHANGED store
    BY <1>3, <2>1, WatchKeeps
  <2>2. CASE Stop
    BY <1>3, <2>2
       DEF Stop, SInv, SystemTypeOK, ReaderInv, Done, Busy, Steps
  <2>3. ASSUME UNCHANGED <<vars, reader>>, blobs' \subseteq Refs, removed' \subseteq Refs
        PROVE  SystemTypeOK' /\ ReaderInv'
    BY <1>3, <2>3 DEF SInv, SystemTypeOK, ReaderInv, Announced, Busy, vars
  <2>4. CASE \E s \in Shots : \E i \in DOMAIN Parts(s) : StoreObject(s, i)
    <3>1. PICK s \in Shots : \E i \in DOMAIN Parts(s) : StoreObject(s, i)
      BY <2>4
    <3>2. PICK i \in DOMAIN Parts(s) : StoreObject(s, i)
      BY <3>1
    <3>3. Parts(s)[i] \in Refs
      BY SystemAssumption DEF Objects
    <3> QED
      BY <2>3, <3>2, <3>3 DEF StoreObject, SInv, SystemTypeOK
  <2>5. CASE \E o \in Refs : Remove(o)
    BY <2>3, <2>5 DEF Remove, SInv, SystemTypeOK
  <2>6. CASE UNCHANGED systemVars
    BY <2>3, <2>6 DEF systemVars, store, SInv, SystemTypeOK
  <2> QED
    BY <2>1, <2>2, <2>4, <2>5, <2>6, SystemStepKinds, ReaderKeeps
<1> QED
  BY <1>1, <1>2, <1>4 DEF SInv

LEMMA SystemInvariant == SystemSpec => []SInv
BY SystemInitInv, SystemNextInv, PTL DEF SystemSpec

-----------------------------------------------------------------------------
(***************************************************************************)
(* The theorems.                                                           *)
(***************************************************************************)

\* Every reachable state of the system is well typed.
THEOREM SystemTypeCorrect == SystemSpec => []SystemTypeOK
<1>1. SInv => SystemTypeOK
  BY DEF SInv
<1> QED
  BY <1>1, SystemInvariant, PTL

\* A row names only objects that have been stored.
THEOREM RowsNameStored == SystemSpec => []NamedIsStored
<1>1. SInv => NamedIsStored
  BY RowsAreBacked DEF SInv
<1> QED
  BY <1>1, SystemInvariant, PTL

\* The steps that answer.
LEMMA AnswerSteps ==
  ASSUME SInv, [SystemNext]_systemVars, Busy,
         NEW status \in {200, 404}, reader'.status = status
  PROVE  \/ /\ status = 200 /\ reader.step = "get"
         \/ /\ status = 404 /\ reader.step = "get" /\ reader.ref \notin blobs
         \/ /\ status = 404 /\ reader.step = "renditions"
            /\ \A k \in Candidates(reader.ref) :
                 reader.ref \notin rows[k].value.renditions
         \/ reader' = Done(0)
<1>1. reader.status = 0 /\ reader.step # "idle"
  BY DEF SInv, SystemTypeOK, Busy
<1>2. CASE Next /\ Watch /\ UNCHANGED store
  <2>1. reader'.status = reader.status
    BY <1>2 DEF Watch, SInv, SystemTypeOK
  <2> QED
    BY <1>1, <2>1
<1>3. CASE \/ \E s \in Shots : \E i \in DOMAIN Parts(s) : StoreObject(s, i)
           \/ \E o \in Refs : Remove(o)
           \/ UNCHANGED systemVars
  BY <1>1, <1>3 DEF StoreObject, Remove, systemVars
<1>4. CASE Stop
  BY <1>4 DEF Stop
<1>5. CASE \E ref \in Refs \cup {BadRef} : Ask(ref)
  BY <1>1, <1>5 DEF Ask
<1>6. ASSUME NEW step, Turn(step)
      PROVE  reader'.status = reader.status
  BY <1>6 DEF Turn, SInv, SystemTypeOK
<1>7. CASE DisplayQuery
  BY <1>1, <1>6, <1>7 DEF DisplayQuery
<1>8. CASE RenditionQuery
  BY <1>1, <1>6, <1>8 DEF RenditionQuery, Answer, Done
<1>9. CASE QueryFails \/ Get \/ GetFails
  BY <1>9 DEF QueryFails, Get, GetFails, Answer, Done
<1> QED
  BY <1>2, <1>3, <1>4, <1>5, <1>7, <1>8, <1>9, SystemStepKinds

\* Only display images and renditions are served, never what is only an original.
THEOREM OriginalsAreNotServed == SystemSpec => OnlyShownIsServed
<1>1. SInv /\ [SystemNext]_systemVars =>
        [Busy /\ reader'.status = 200 =>
           /\ reader.seen
           /\ \E i \in DOMAIN log :
                /\ log[i].kind = "photographed"
                /\ reader.ref \in {log[i].ref} \cup RenditionRefs(log[i].value)
        ]_systemVars
  <2> SUFFICES ASSUME SInv, [SystemNext]_systemVars, Busy, reader'.status = 200
               PROVE  reader.seen /\ Announced(reader.ref)
    BY DEF Announced
  <2>1. reader.step = "get"
    BY AnswerSteps DEF Done
  <2> QED
    BY <2>1 DEF SInv, ReaderInv
<1> QED
  BY <1>1, SystemInvariant, PTL DEF SystemSpec, OnlyShownIsServed

\* A ref that a row shows all the time is found, unless its object was lost.
THEOREM SteadyRefsAreFound == SystemSpec => SteadyIsServed
<1>1. SInv /\ [SystemNext]_systemVars =>
        [Busy /\ reader'.status = 404 /\ reader.steady # {} =>
           reader.ref \in (removed \cup Foreign) \ blobs]_systemVars
  <2> SUFFICES ASSUME SInv, [SystemNext]_systemVars, Busy,
                      reader'.status = 404, reader.steady # {}
               PROVE  reader.ref \in (removed \cup Foreign) \ blobs
    OBVIOUS
  <2>1. PICK n \in reader.steady : n \in Named(rows, reader.ref)
    BY DEF SInv, SystemTypeOK
  <2>2. /\ n[1] \in Keys /\ rows[n[1]] # NoRow
        /\ n[2] = "display" => n[1][3] = reader.ref
        /\ n[2] = "rendition" => reader.ref \in rows[n[1]].value.renditions
        /\ n[2] \in {"display", "rendition"}
    BY <2>1, NamedMeans
  <2>3. ASSUME reader.step = "renditions"
        PROVE  \E k \in Candidates(reader.ref) :
                 reader.ref \in rows[k].value.renditions
    <3>1. n[2] = "rendition"
      BY <2>3 DEF SInv, ReaderInv
    <3> QED
      BY <2>2, <3>1 DEF Candidates
  <2>4. reader.step = "get" /\ reader.ref \notin blobs
    BY <2>3, AnswerSteps DEF Done
  <2>5. NamedIsStored
    BY RowsAreBacked DEF SInv
  <2>6. reader.ref \in Refs
    BY DEF SInv, SystemTypeOK
  <2>7. reader.ref \in Ever \cup Foreign
    BY <2>2, <2>5, <2>6, ConstantsAssumption DEF NamedIsStored
  <2> QED
    BY <2>4, <2>7 DEF Ever
<1> QED
  BY <1>1, SystemInvariant, PTL DEF SystemSpec, SteadyIsServed

-----------------------------------------------------------------------------
(***************************************************************************)
(* The list of a team's photographs.                                       *)
(***************************************************************************)

\* The keys a team's list should show: those whose last event on the stream is a
\* photographed one.
ShouldBeListed(t) ==
  {k \in Keys :
     /\ k[1] = t
     /\ \E i \in Live : LastAbout(i, k, Live) /\ log[i].kind = "photographed"}

\* A key with an event has a last one.
LEMMA LastExists ==
  ASSUME TypeOK, NEW k \in Keys, NEW i \in Live, Touches(log[i], k)
  PROVE  \E j \in Live : LastAbout(j, k, Live)
<1> DEFINE about == {j \in Live : Touches(log[j], k)}
<1>1. Len(log) \in Nat /\ about \subseteq 0 .. Len(log)
  BY LogPositions DEF Live
<1>2. about # {}
  OBVIOUS
<1>3. PICK j \in about : \A l \in about : l <= j
  <2> HIDE DEF about
  <2> QED
    BY <1>1, <1>2, GreatestElement
<1>4. \A l \in Live : l \in Nat /\ j \in Nat
  BY <1>1, LogPositions DEF Live
<1>5. ASSUME NEW l \in Live, l > j
      PROVE  ~Touches(log[l], k)
  BY <1>3, <1>4, <1>5
<1> QED
  BY <1>3, <1>5 DEF LastAbout

\* A photograph whose announcement is the last event about it on the stream is in
\* its team's list once the projection has caught up, through any restarts,
\* dead-letters and erasures besides its own: what AnnouncedIsListed says, but for
\* the promise that the projection does catch up.
THEOREM AnnouncedIsInTheList ==
  SystemSpec =>
    [](CaughtUp =>
         \A k \in Keys : \A i \in Live \ dead :
           LastAbout(i, k, Live) /\ log[i].kind = "photographed"
             => k \in ByTeam(k[1]))
<1>1. ListedOnceCaughtUp =>
        (CaughtUp =>
           \A k \in Keys : \A i \in Live \ dead :
             LastAbout(i, k, Live) /\ log[i].kind = "photographed"
               => k \in ByTeam(k[1]))
  BY DEF ListedOnceCaughtUp, ByTeam
<1> QED
  BY <1>1, ImplementsProjection, AnnouncedIsOnTheList, PTL

\* With nothing refused and nothing erased, a team's list is exactly what the stream
\* says of the team: nothing purged is on it, and nothing else of any other boot.
THEOREM ListIsWhatTheStreamSays ==
  SystemSpec =>
    [](CaughtUp /\ dead = {} /\ erased = {} =>
         \A t \in Teams : ByTeam(t) = ShouldBeListed(t))
<1>1. SInv /\ CaughtUpIsView =>
        (CaughtUp /\ dead = {} /\ erased = {} =>
           \A t \in Teams : ByTeam(t) = ShouldBeListed(t))
  <2> SUFFICES ASSUME SInv, CaughtUpIsView, CaughtUp, dead = {}, erased = {},
                      NEW t \in Teams, NEW k \in Keys
               PROVE  rows[k] # NoRow <=>
                        \E i \in Live :
                          LastAbout(i, k, Live) /\ log[i].kind = "photographed"
    BY DEF ByTeam, ShouldBeListed
  <2>1. \A i \in Live : LastAbout(i, k, Live) => rows[k] = Effect(log[i])
    BY DEF CaughtUpIsView
  <2>2. (\A i \in Live : ~Touches(log[i], k)) => rows[k] = NoRow
    BY DEF CaughtUpIsView
  <2>3. TypeOK
    BY DEF SInv, SystemTypeOK
  <2>4. ASSUME NEW i \in Live, LastAbout(i, k, Live)
        PROVE  rows[k] # NoRow <=> log[i].kind = "photographed"
    <3>1. rows[k] = Effect(log[i])
      BY <2>1, <2>4
    <3>2. CASE log[i].kind = "photographed"
      <4>1. log[i] \in Event /\ version \in Nat
        BY <2>3 DEF TypeOK, Live
      <4>2. log[i] \in Photographed
        BY <3>2, <4>1 DEF Event, Photopurged
      <4>3. Effect(log[i]) \in Row
        BY <3>2, <4>1, <4>2 DEF Effect, Photographed, Row, Columns
      <4> QED
        BY <3>1, <3>2, <4>3, RowAssumption
    <3>3. CASE log[i].kind # "photographed"
      BY <3>1, <3>3 DEF Effect
    <3> QED
      BY <3>2, <3>3
  <2>5. ASSUME rows[k] # NoRow
        PROVE  \E i \in Live : LastAbout(i, k, Live)
    BY <2>2, <2>3, <2>5, LastExists
  <2> QED
    BY <2>4, <2>5
<1> QED
  BY <1>1, SystemInvariant, ImplementsProjection, ReadModelIsDerived, PTL
=============================================================================

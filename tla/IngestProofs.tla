---------------------------- MODULE IngestProofs ----------------------------
(***************************************************************************)
(* Proofs about Ingest, for every number of requests, shots, teams and     *)
(* objects.  Types first (with the facts that a request past its arrival   *)
(* has a shot and one about to answer a code, without which they are not   *)
(* inductive); then that no step takes anything back; then the safety      *)
(* invariants together, as one inductive invariant; then the refinement of *)
(* PhotoContract.                                                          *)
(***************************************************************************)
EXTENDS Ingest, SequenceTheorems, FiniteSetTheorems, TLAPS

InFlightOK ==
  \A r \in Requests :
    /\ pc[r] # "idle" => shot[r] \in sent
    /\ pc[r] = "respond" => code[r] \in Codes

FailedWasSent == failedLog \subseteq sent

TypeInv == TypeOK /\ InFlightOK /\ FailedWasSent

\* The steps of the handler that leave everything but one request's locals alone:
\* they go to another step or turn the call away.
LEMMA GotoType ==
  ASSUME NEW r \in Requests, NEW step \in Steps \ {"respond"}, TypeInv,
         pc[r] # "idle", Goto(r, step),
         team' \in [Requests -> Teams \cup {NoTeam}]
  PROVE  TypeInv'
BY DEF TypeInv, TypeOK, InFlightOK, FailedWasSent, Goto, registry, camera

LEMMA RejectType ==
  ASSUME NEW r \in Requests, NEW c \in Codes, TypeInv, pc[r] # "idle",
         Reject(r, c)
  PROVE  TypeInv'
BY DEF TypeInv, TypeOK, InFlightOK, FailedWasSent, Reject, registry, camera, Steps

LEMMA CallType ==
  ASSUME NEW r \in Requests, NEW s \in Shots, TypeInv,
         Call(r, s), sent \subseteq sent', sent' \subseteq Shots, s \in sent'
  PROVE  TypeInv'
<1>1. held' \in [Requests -> SUBSET (Teams \X Numbers)]
  BY DEF TypeInv, TypeOK, Call, SolePairs
<1> QED
  BY <1>1 DEF TypeInv, TypeOK, InFlightOK, FailedWasSent, Call, Steps

LEMMA StorePartType ==
  ASSUME NEW r \in Requests, TypeInv, StorePart(r)
  PROVE  TypeInv'
<1>1. shot[r] \in Shots
  BY DEF TypeInv, TypeOK, InFlightOK, StorePart
<1> DEFINE next == Len(stored[r]) + 1
<1>2. next \in 1 .. Len(Parts[shot[r]]) /\ Parts[shot[r]] \in Seq(Objects)
  BY <1>1, PartsAssumption DEF TypeInv, TypeOK, StorePart
<1>3. Parts[shot[r]][next] \in Objects
  BY <1>2
<1> QED
  BY <1>1, <1>2, <1>3
     DEF TypeInv, TypeOK, InFlightOK, FailedWasSent, StorePart, registry, camera, Steps

LEMMA AppendEventType ==
  ASSUME NEW r \in Requests, TypeInv, pc[r] = "publish", AppendEvent(r)
  PROVE  log' \in Seq(Event)
<1>1. shot[r] \in Shots /\ team[r] \in Teams /\ stored[r] \in Seq(Objects)
  BY ConstantsAssumption DEF TypeInv, TypeOK, InFlightOK, FailedWasSent, AppendEvent
<1>2. [shot |-> shot[r], team |-> team[r], refs |-> stored[r]] \in Event
  BY <1>1 DEF Event
<1> QED
  BY <1>2 DEF AppendEvent, TypeInv, TypeOK

LEMMA HandleType ==
  ASSUME NEW r \in Requests, TypeInv, Handle(r)
  PROVE  TypeInv'
<1> USE DEF Steps
<1>1. CASE TurnAway(r)
  BY <1>1, RejectType DEF TurnAway, Codes, NonRetryable
<1>2. CASE NotReady(r)
  BY <1>2, RejectType DEF NotReady, Codes, Retryable
<1>3. CASE NoUrl(r)
  BY <1>3, RejectType DEF NoUrl, Codes, NonRetryable
<1>4. CASE Admit(r)
  BY <1>4, GotoType DEF Admit, TypeInv, TypeOK
<1>5. CASE ResolveUnknown(r)
  BY <1>5, RejectType DEF ResolveUnknown, Codes, NonRetryable
<1>6. CASE ResolveAmbiguous(r)
  BY <1>6, RejectType DEF ResolveAmbiguous, Codes, NonRetryable
<1>7. CASE ResolveFails(r)
  BY <1>7, RejectType DEF ResolveFails, Codes, Retryable
<1>8. CASE Resolve(r)
  <2>1. PICK t \in Teams : team' = [team EXCEPT ![r] = t]
    BY <1>8 DEF Resolve
  <2>2. team' \in [Requests -> Teams \cup {NoTeam}]
    BY <2>1 DEF TypeInv, TypeOK
  <2>3. pc[r] # "idle" /\ Goto(r, "fetch")
    BY <1>8 DEF Resolve
  <2> QED
    BY <2>2, <2>3, GotoType
<1>9. CASE FetchFails(r)
  <2>1. PICK c \in FetchErrors(shot[r]) : Reject(r, c)
    BY <1>9 DEF FetchFails
  <2>2. c \in Codes
    BY DEF FetchErrors, Codes, NonRetryable, Retryable
  <2> QED
    BY <1>9, <2>1, <2>2, RejectType DEF FetchFails
<1>10. CASE Fetch(r)
  BY <1>10, GotoType DEF Fetch, TypeInv, TypeOK
<1>11. CASE PrepareFails(r)
  BY <1>11, RejectType DEF PrepareFails, Codes, NonRetryable
<1>12. CASE Prepare(r)
  BY <1>12, GotoType DEF Prepare, TypeInv, TypeOK
<1>13. CASE StorePart(r)
  BY <1>13, StorePartType
<1>14. CASE StoreFails(r)
  BY <1>14, RejectType DEF StoreFails, Codes, Retryable
<1>15. CASE Publish(r)
  BY <1>15, AppendEventType
     DEF Publish, TypeInv, TypeOK, InFlightOK, FailedWasSent, registry, camera, Codes
<1>16. CASE PublishFails(r)
  BY <1>16, RejectType DEF PublishFails, Codes, Retryable
<1>17. CASE PublishUnconfirmed(r)
  BY <1>17, AppendEventType
     DEF PublishUnconfirmed, TypeInv, TypeOK, InFlightOK, FailedWasSent, registry, camera,
         Codes, Retryable
<1>18. CASE Respond(r)
  <2>1. pc[r] = "respond" /\ code[r] \in Codes \cup {NoCode} /\ shot[r] \in Shots
    BY <1>18 DEF Respond, Return, TypeInv, TypeOK, InFlightOK, FailedWasSent
  <2> QED
    BY <1>18, <2>1 DEF Respond, Return, TypeInv, TypeOK, InFlightOK, FailedWasSent, registry
<1>19. CASE RespondInVain(r)
  BY <1>19 DEF RespondInVain, Return, TypeInv, TypeOK, InFlightOK, FailedWasSent, registry
<1> QED
  BY <1>1, <1>2, <1>3, <1>4, <1>5, <1>6, <1>7, <1>8, <1>9, <1>10, <1>11, <1>12,
     <1>13, <1>14, <1>15, <1>16, <1>17, <1>18, <1>19 DEF Handle

LEMMA InitType == Init => TypeInv
<1> SUFFICES ASSUME Init PROVE TypeInv
  OBVIOUS
<1>1. stored \in [Requests -> Seq(Objects)] /\ log \in Seq(Event)
  BY DEF Init
<1>2. TypeOK
  BY <1>1 DEF Init, TypeOK, Steps
<1> QED
  BY <1>2 DEF Init, TypeInv, InFlightOK, FailedWasSent

LEMMA NextType == TypeInv /\ [Next]_vars => TypeInv'
<1> SUFFICES ASSUME TypeInv, [Next]_vars PROVE TypeInv'
  OBVIOUS
<1>1. ASSUME NEW r \in Requests, NEW s \in Shots, Post(r, s) PROVE TypeInv'
  BY <1>1, CallType DEF Post, TypeInv, TypeOK
<1>2. ASSUME NEW r \in Requests, NEW s \in Shots, Replay(r, s) PROVE TypeInv'
  <2>1. s \in sent
    BY <1>2 DEF Replay, TypeInv, FailedWasSent
  <2> QED
    BY <1>2, <2>1, CallType DEF Replay, TypeInv, TypeOK
<1>3. ASSUME NEW r \in Requests, Handle(r) PROVE TypeInv'
  BY <1>3, HandleType
<1>4. ASSUME NEW r \in Requests, HangUp(r) PROVE TypeInv'
  BY <1>4 DEF HangUp, TypeInv, TypeOK, InFlightOK, FailedWasSent, registry
<1>5. CASE Connect
  BY <1>5 DEF Connect, TypeInv, TypeOK, InFlightOK, FailedWasSent, request, registry, camera
<1>6. CASE Restart
  <2>1. failedLog' \subseteq sent
    BY <1>6 DEF Restart, TypeInv, InFlightOK, FailedWasSent
  <2>2. stored' \in [Requests -> Seq(Objects)]
    BY <1>6 DEF Restart
  <2>3. TypeOK'
    BY <1>6, <2>1, <2>2 DEF Restart, TypeInv, TypeOK, registry, Steps
  <2> QED
    BY <1>6, <2>1, <2>3 DEF Restart, TypeInv, InFlightOK, FailedWasSent
<1>7. ASSUME NEW t \in Teams, NEW n \in Numbers \cup {NoNumber}, Assign(t, n)
      PROVE  TypeInv'
  BY <1>7 DEF Assign, TypeInv, TypeOK, InFlightOK, FailedWasSent, request, camera, SolePairs
<1>8. CASE UNCHANGED vars
  BY <1>8 DEF vars, TypeInv, TypeOK, InFlightOK, FailedWasSent, request, registry, camera
<1> QED
  BY <1>1, <1>2, <1>3, <1>4, <1>5, <1>6, <1>7, <1>8 DEF Next

\* Type correctness of the pipeline, with the facts it depends on.
THEOREM TypeCorrect == Spec => []TypeOK
<1>1. TypeInv => TypeOK
  BY DEF TypeInv
<1> QED
  BY <1>1, InitType, NextType, PTL DEF Spec

-----------------------------------------------------------------------------
(***************************************************************************)
(* No step takes anything back: objects, events, attributions and what the *)
(* camera app has seen only accumulate.  A request is disturbed by its own *)
(* steps alone.                                                            *)
(***************************************************************************)
Grows ==
  /\ blobs \subseteq blobs'
  /\ sole \subseteq sole'
  /\ \A r \in Requests : pc[r] # "idle" /\ pc'[r] # "idle" => held[r] \subseteq held'[r]
  /\ sent \subseteq sent'
  /\ failedLog \subseteq failedLog'
  /\ \A i \in DOMAIN log : i \in DOMAIN log' /\ log'[i] = log[i]
  /\ \A s \in Shots : answers[s] \subseteq answers'[s]

Untouched(q) ==
  /\ pc'[q] = pc[q]
  /\ shot'[q] = shot[q]
  /\ team'[q] = team[q]
  /\ stored'[q] = stored[q]
  /\ code'[q] = code[q]
  /\ gone'[q] = gone[q]

LEMMA AppendEventGrows ==
  ASSUME NEW r \in Requests, TypeInv, pc[r] = "publish", AppendEvent(r)
  PROVE  /\ \A i \in DOMAIN log : i \in DOMAIN log' /\ log'[i] = log[i]
         /\ Len(log') = Len(log) + 1
         /\ Len(log) \in Nat
         /\ DOMAIN log' = 1 .. Len(log')
         /\ log'[Len(log')] = [shot |-> shot[r], team |-> team[r], refs |-> stored[r]]
<1>1. shot[r] \in Shots /\ team[r] \in Teams /\ stored[r] \in Seq(Objects)
  BY ConstantsAssumption DEF TypeInv, TypeOK, InFlightOK, AppendEvent
<1> DEFINE e == [shot |-> shot[r], team |-> team[r], refs |-> stored[r]]
<1>2. e \in Event /\ log \in Seq(Event) /\ log' = Append(log, e)
  BY <1>1 DEF Event, AppendEvent, TypeInv, TypeOK
<1> HIDE DEF e
<1>3. /\ \A i \in DOMAIN log : i \in DOMAIN log' /\ log'[i] = log[i]
      /\ Len(log') = Len(log) + 1
      /\ Len(log) \in Nat
      /\ DOMAIN log' = 1 .. Len(log')
      /\ log'[Len(log')] = e
  BY <1>2
<1> QED
  BY <1>3 DEF e

LEMMA NextGrows == TypeInv /\ [Next]_vars => Grows
<1> SUFFICES ASSUME TypeInv, [Next]_vars PROVE Grows
  OBVIOUS
<1> USE DEF Grows, registry, camera
<1>1. ASSUME NEW r \in Requests, NEW s \in Shots, Post(r, s) \/ Replay(r, s)
      PROVE  Grows
  BY <1>1 DEF Post, Replay, Call, TypeInv, TypeOK
<1>2. ASSUME NEW r \in Requests, NEW c, Reject(r, c) PROVE Grows
  BY <1>2 DEF Reject
<1>3. ASSUME NEW r \in Requests, NEW step, Goto(r, step) PROVE Grows
  BY <1>3 DEF Goto
<1>4. ASSUME NEW r \in Requests, Handle(r) PROVE Grows
  <2>1. CASE TurnAway(r) \/ NotReady(r) \/ NoUrl(r) \/ Admit(r)
    BY <2>1, <1>2, <1>3 DEF TurnAway, NotReady, NoUrl, Admit
  <2>2. CASE ResolveUnknown(r) \/ ResolveAmbiguous(r) \/ ResolveFails(r) \/ Resolve(r)
    BY <2>2, <1>2, <1>3 DEF ResolveUnknown, ResolveAmbiguous, ResolveFails, Resolve
  <2>3. CASE FetchFails(r) \/ Fetch(r) \/ PrepareFails(r) \/ Prepare(r)
    BY <2>3, <1>2, <1>3 DEF FetchFails, Fetch, PrepareFails, Prepare
  <2>4. CASE StorePart(r)
    BY <2>4 DEF StorePart
  <2>5. CASE StoreFails(r) \/ PublishFails(r)
    BY <2>5, <1>2 DEF StoreFails, PublishFails
  <2>6. CASE Publish(r) \/ PublishUnconfirmed(r)
    BY <2>6, AppendEventGrows DEF Publish, PublishUnconfirmed
  <2>7. CASE Respond(r)
    BY <2>7 DEF Respond, Return, TypeInv, TypeOK
  <2>8. CASE RespondInVain(r)
    BY <2>8 DEF RespondInVain, Return, TypeInv, TypeOK
  <2> QED
    BY <1>4, <2>1, <2>2, <2>3, <2>4, <2>5, <2>6, <2>7, <2>8 DEF Handle
<1>5. ASSUME NEW r \in Requests, HangUp(r) PROVE Grows
  BY <1>5 DEF HangUp
<1>6. CASE Connect \/ Restart
  BY <1>6 DEF Connect, Restart, request
<1>7. ASSUME NEW t \in Teams, NEW n \in Numbers \cup {NoNumber}, Assign(t, n)
      PROVE  Grows
  BY <1>7 DEF Assign
<1>8. CASE UNCHANGED vars
  BY <1>8 DEF vars
<1> QED
  BY <1>1, <1>4, <1>5, <1>6, <1>7, <1>8 DEF Next

LEMMA HandleTouchesOne ==
  ASSUME NEW r \in Requests, TypeInv, Handle(r), NEW q \in Requests, q # r
  PROVE  Untouched(q)
<1> USE DEF Untouched, TypeInv, TypeOK
<1>1. ASSUME NEW c, Reject(r, c) PROVE Untouched(q)
  BY <1>1 DEF Reject
<1>2. ASSUME NEW step, Goto(r, step), team'[q] = team[q] PROVE Untouched(q)
  BY <1>2 DEF Goto
<1>3. CASE TurnAway(r) \/ NotReady(r) \/ NoUrl(r) \/ Admit(r)
  BY <1>1, <1>2, <1>3 DEF TurnAway, NotReady, NoUrl, Admit
<1>4. CASE ResolveUnknown(r) \/ ResolveAmbiguous(r) \/ ResolveFails(r)
  BY <1>1, <1>4 DEF ResolveUnknown, ResolveAmbiguous, ResolveFails
<1>5. CASE Resolve(r)
  BY <1>2, <1>5 DEF Resolve
<1>6. CASE FetchFails(r) \/ Fetch(r) \/ PrepareFails(r) \/ Prepare(r)
  BY <1>1, <1>2, <1>6 DEF FetchFails, Fetch, PrepareFails, Prepare
<1>7. CASE StorePart(r)
  BY <1>7 DEF StorePart
<1>8. CASE StoreFails(r) \/ PublishFails(r)
  BY <1>1, <1>8 DEF StoreFails, PublishFails
<1>9. CASE Publish(r) \/ PublishUnconfirmed(r)
  BY <1>9 DEF Publish, PublishUnconfirmed
<1>10. CASE Respond(r) \/ RespondInVain(r)
  BY <1>10 DEF Respond, RespondInVain, Return
<1> QED
  BY <1>3, <1>4, <1>5, <1>6, <1>7, <1>8, <1>9, <1>10 DEF Handle

-----------------------------------------------------------------------------
(***************************************************************************)
(* RequestInv: each step of a request establishes what the next relies on. *)
(***************************************************************************)

\* What a request relies on stays true while others work.
LEMMA RequestFrame ==
  ASSUME NEW q \in Requests, TypeInv, Grows, Untouched(q), RequestOK(q)
  PROVE  RequestOK(q)'
<1>1. /\ shot[q] \in sent => shot[q] \in sent'
      /\ shot[q] \in failedLog => shot[q] \in failedLog'
      /\ pc[q] # "idle" /\ <<team[q], Number[shot[q]]>> \in sole \cap held[q]
           => <<team[q], Number[shot[q]]>> \in sole' \cap held'[q]
      /\ RefsOf(shot[q]) \subseteq blobs => RefsOf(shot[q]) \subseteq blobs'
  BY DEF Grows, Untouched
<1>2. (\E i \in DOMAIN log : log[i].shot = shot[q])
        => \E i \in DOMAIN log' : log'[i].shot = shot[q]
  <2>1. ASSUME NEW i \in DOMAIN log, log[i].shot = shot[q]
        PROVE  i \in DOMAIN log' /\ log'[i].shot = shot[q]
    BY <2>1 DEF Grows
  <2> QED
    BY <2>1
<1>3. ASSUME pc[q] = "store"
      PROVE  /\ Len(stored[q]) < Len(Parts[shot[q]])
             /\ \A i \in 1 .. Len(stored[q]) :
                  stored[q][i] = Parts[shot[q]][i] /\ stored[q][i] \in blobs'
  BY <1>3 DEF RequestOK, Grows
<1>4. UNCHANGED RefsOf(shot[q])
  BY DEF Untouched, RefsOf
<1>5. /\ (pc[q] = "idle" => shot[q] = NoShot /\ ~gone[q])'
      /\ (pc[q] # "idle" => shot[q] \in sent)'
      /\ (pc[q] \in {"fetch", "prepare", "store", "publish"}
           => <<team[q], Number[shot[q]]>> \in sole \cap held[q])'
      /\ (pc[q] \in {"prepare", "store", "publish"} => UrlClass[shot[q]] = "good")'
      /\ (pc[q] \in {"store", "publish"} => ImageClass[shot[q]] = "photo")'
      /\ (pc[q] \notin {"store", "publish", "respond"} => stored[q] = <<>>)'
  BY <1>1 DEF RequestOK, Untouched
<1>6. (pc[q] = "store" =>
         /\ Len(stored[q]) < Len(Parts[shot[q]])
         /\ \A i \in 1 .. Len(stored[q]) :
              stored[q][i] = Parts[shot[q]][i] /\ stored[q][i] \in blobs)'
  BY <1>3 DEF Untouched
<1>7. /\ (pc[q] = "publish" =>
           stored[q] = Parts[shot[q]] /\ RefsOf(shot[q]) \subseteq blobs)'
      /\ (pc[q] = "respond" <=> code[q] # NoCode)'
      /\ (code[q] = "publish_failed" => RefsOf(shot[q]) \subseteq blobs)'
      /\ (gone[q] => shot[q] \in failedLog)'
  BY <1>1, <1>4 DEF RequestOK, Untouched
<1>8. (code[q] = Success => \E i \in DOMAIN log : log[i].shot = shot[q])'
  BY <1>2 DEF RequestOK, Untouched
<1> QED
  BY <1>5, <1>6, <1>7, <1>8 DEF RequestOK

LEMMA RejectRequest ==
  ASSUME NEW r \in Requests, NEW c \in Codes, TypeInv, RequestOK(r),
         pc[r] # "idle", Reject(r, c), c # Success, c # NoCode,
         c = "publish_failed" => RefsOf(shot[r]) \subseteq blobs
  PROVE  RequestOK(r)'
BY DEF Reject, RequestOK, TypeInv, TypeOK, registry, camera, RefsOf

LEMMA CodesDiffer ==
  NoCode \notin Codes /\ Success \notin NonRetryable \cup Retryable
BY DEF NoCode, Codes, Success, NonRetryable, Retryable

\* The lookup names a team that is the number's one holder right now: what it finds
\* is in the history of the run and in that of the call.
SoleIsCurrent ==
  /\ SolePairs(patrulje) \subseteq sole
  /\ \A r \in Requests : pc[r] # "idle" => SolePairs(patrulje) \subseteq held[r]

LEMMA SoleInit == Init => SoleIsCurrent
BY ConstantsAssumption DEF Init, SoleIsCurrent, SolePairs

LEMMA SoleNext == TypeInv /\ SoleIsCurrent /\ [Next]_vars => SoleIsCurrent'
<1> SUFFICES ASSUME TypeInv, SoleIsCurrent, [Next]_vars PROVE SoleIsCurrent'
  OBVIOUS
<1>1. ASSUME NEW t \in Teams, NEW n \in Numbers \cup {NoNumber}, Assign(t, n)
      PROVE  SoleIsCurrent'
  BY <1>1 DEF Assign, SoleIsCurrent, request
<1>2. ASSUME UNCHANGED <<patrulje, sole>>,
             \A r \in Requests : pc'[r] # "idle" =>
               \/ pc[r] # "idle" /\ held'[r] = held[r]
               \/ held'[r] = SolePairs(patrulje)
      PROVE  SoleIsCurrent'
  BY <1>2 DEF SoleIsCurrent, SolePairs
<1>3. ASSUME NEW r \in Requests, Handle(r), ~(Respond(r) \/ RespondInVain(r))
      PROVE  pc[r] # "idle" /\ UNCHANGED registry
  BY <1>3
     DEF Handle, TurnAway, NotReady, NoUrl, Admit, ResolveUnknown,
         ResolveAmbiguous, ResolveFails, Resolve, FetchFails, Fetch,
         PrepareFails, Prepare, StorePart, StoreFails, Publish, PublishFails,
         PublishUnconfirmed, Reject, Goto
<1>4. ASSUME NEW r \in Requests, Handle(r) PROVE SoleIsCurrent'
  <2>1. \A q \in Requests \ {r} : pc'[q] = pc[q]
    BY <1>4, HandleTouchesOne DEF Untouched
  <2>2. CASE Respond(r) \/ RespondInVain(r)
    BY <1>2, <2>1, <2>2 DEF Respond, RespondInVain, Return, TypeInv, TypeOK
  <2>3. CASE ~(Respond(r) \/ RespondInVain(r))
    BY <1>2, <1>3, <1>4, <2>1, <2>3 DEF registry
  <2> QED
    BY <2>2, <2>3
<1>5. ASSUME NEW r \in Requests, NEW s \in Shots, Post(r, s) \/ Replay(r, s)
      PROVE  SoleIsCurrent'
  BY <1>2, <1>5 DEF Post, Replay, Call, TypeInv, TypeOK
<1>6. ASSUME NEW r \in Requests, HangUp(r) PROVE SoleIsCurrent'
  BY <1>2, <1>6 DEF HangUp, registry
<1>7. CASE Connect \/ Restart \/ UNCHANGED vars
  BY <1>2, <1>7 DEF Connect, Restart, vars, request, registry
<1> QED
  BY <1>1, <1>4, <1>5, <1>6, <1>7 DEF Next

LEMMA ResolvedIsSole ==
  ASSUME NEW r \in Requests, TypeInv, SoleIsCurrent, Resolve(r)
  PROVE  <<team'[r], Number[shot[r]]>> \in sole \cap held[r]
<1>1. shot[r] \in Shots /\ Number[shot[r]] \in Numbers
  BY ConstantsAssumption DEF Resolve, TypeInv, TypeOK, InFlightOK
<1>2. PICK t \in Teams : Holders(Number[shot[r]]) = {t} /\ team'[r] = t
  BY DEF Resolve, TypeInv, TypeOK
<1>3. \A u \in Teams : patrulje[u] = Number[shot[r]] <=> u = t
  BY <1>2 DEF Holders
<1>4. <<t, Number[shot[r]]>> \in SolePairs(patrulje)
  BY <1>1, <1>3 DEF SolePairs
<1>5. pc[r] # "idle"
  BY DEF Resolve
<1> QED
  BY <1>2, <1>4, <1>5 DEF SoleIsCurrent

LEMMA AdmitRequest ==
  ASSUME NEW r \in Requests, TypeInv, SoleIsCurrent, RequestOK(r),
         Admit(r) \/ Resolve(r) \/ Fetch(r) \/ Prepare(r)
  PROVE  RequestOK(r)'
<1> USE DEF TypeInv, TypeOK, registry, camera, RequestOK, Goto
<1>1. CASE Admit(r)
  BY <1>1 DEF Admit
<1>2. CASE Resolve(r)
  BY <1>2, ResolvedIsSole DEF Resolve
<1>3. CASE Fetch(r)
  BY <1>3 DEF Fetch
<1>4. CASE Prepare(r)
  <2>1. Len(Parts[shot[r]]) >= 2 /\ Len(stored[r]) = 0
    BY <1>4, PartsAssumption DEF Prepare, InFlightOK
  <2> QED
    BY <1>4, <2>1, PartsAssumption DEF Prepare
<1> QED
  BY <1>1, <1>2, <1>3, <1>4

LEMMA StorePartRequest ==
  ASSUME NEW r \in Requests, TypeInv, RequestOK(r), StorePart(r)
  PROVE  RequestOK(r)'
<1> DEFINE parts == Parts[shot[r]]
           next == Len(stored[r]) + 1
<1>1. /\ shot[r] \in Shots
      /\ parts \in Seq(Objects)
      /\ Len(parts) \in Nat
      /\ stored[r] \in Seq(Objects)
      /\ Len(stored[r]) \in Nat
      /\ next \in 1 .. Len(parts)
      /\ parts[next] \in Objects
  BY PartsAssumption DEF StorePart, TypeInv, TypeOK, InFlightOK
<1>2. /\ stored'[r] = Append(stored[r], parts[next])
      /\ Len(stored'[r]) = next
      /\ DOMAIN stored'[r] = 1 .. next
      /\ blobs' = blobs \cup {parts[next]}
  BY <1>1 DEF StorePart, TypeInv, TypeOK
<1>3. \A i \in 1 .. next : stored'[r][i] = parts[i] /\ stored'[r][i] \in blobs'
  BY <1>1, <1>2 DEF StorePart, RequestOK
<1>4. /\ shot'[r] = shot[r] /\ team'[r] = team[r] /\ code'[r] = code[r]
      /\ gone'[r] = gone[r] /\ sent' = sent /\ sole' = sole /\ held' = held
      /\ failedLog' = failedLog /\ log' = log
  BY DEF StorePart, registry, camera
<1>5. CASE next = Len(parts)
  <2>1. pc'[r] = "publish"
    BY <1>5 DEF StorePart, TypeInv, TypeOK
  <2>2. stored'[r] = parts
    <3>1. stored'[r] \in Seq(Objects) /\ Len(stored'[r]) = Len(parts)
      BY <1>1, <1>2, <1>5
    <3> QED
      BY <1>1, <1>3, <1>5, <3>1, SeqEqual
  <2>3. RefsOf(shot[r]) \subseteq blobs'
    BY <1>1, <1>3, <1>5, <2>2 DEF RefsOf
  <2> QED
    BY <1>4, <2>1, <2>2, <2>3 DEF RequestOK, StorePart, RefsOf
<1>6. CASE next # Len(parts)
  <2>1. pc'[r] = "store" /\ next < Len(parts)
    BY <1>1, <1>6 DEF StorePart, TypeInv, TypeOK
  <2>2. /\ shot[r] \in sent /\ <<team[r], Number[shot[r]]>> \in sole \cap held[r]
        /\ UrlClass[shot[r]] = "good" /\ ImageClass[shot[r]] = "photo"
        /\ code[r] = NoCode /\ (gone[r] => shot[r] \in failedLog)
    BY DEF StorePart, RequestOK
  <2>3. code[r] # Success /\ code[r] # "publish_failed"
    BY <2>2 DEF NoCode, Success
  <2> QED
    BY <1>2, <1>3, <1>4, <2>1, <2>2, <2>3 DEF RequestOK
<1> QED
  BY <1>5, <1>6

LEMMA PublishRequest ==
  ASSUME NEW r \in Requests, TypeInv, RequestOK(r),
         Publish(r) \/ PublishUnconfirmed(r)
  PROVE  RequestOK(r)'
<1>1. pc[r] = "publish" /\ AppendEvent(r)
  BY DEF Publish, PublishUnconfirmed
<1>2. \E i \in DOMAIN log' : log'[i].shot = shot[r]
  <2>1. Len(log) \in Nat /\ Len(log') = Len(log) + 1 /\ DOMAIN log' = 1 .. Len(log')
    BY <1>1, AppendEventGrows
  <2>2. Len(log') \in DOMAIN log'
    BY <2>1
  <2>3. log'[Len(log')] = [shot |-> shot[r], team |-> team[r], refs |-> stored[r]]
    BY <1>1, AppendEventGrows
  <2>4. log'[Len(log')].shot = shot[r]
    BY <2>3
  <2> QED
    BY <2>2, <2>4
<1>3. code'[r] \in {Success, "publish_failed"} /\ pc'[r] = "respond"
  BY DEF Publish, PublishUnconfirmed, TypeInv, TypeOK
<1>4. code'[r] # NoCode
  BY <1>3 DEF Success, NoCode
<1> QED
  BY <1>1, <1>2, <1>3, <1>4
     DEF RequestOK, Publish, PublishUnconfirmed, RefsOf, registry, camera,
         TypeInv, TypeOK

LEMMA ReturnRequest ==
  ASSUME NEW r \in Requests, TypeInv, Return(r)
  PROVE  RequestOK(r)'
BY DEF Return, RequestOK, TypeInv, TypeOK, NoCode, Success

LEMMA HandleRequest ==
  ASSUME NEW r \in Requests, TypeInv, SoleIsCurrent, RequestOK(r), Handle(r)
  PROVE  RequestOK(r)'
<1> USE RejectRequest, CodesDiffer
<1>1. CASE TurnAway(r) \/ NotReady(r) \/ NoUrl(r)
  <2>1. PICK c \in {"unauthorized", "bad_payload", "not_ready"} : Reject(r, c)
    BY <1>1 DEF TurnAway, NotReady, NoUrl
  <2>2. c \in Codes /\ c # Success /\ c # NoCode /\ c # "publish_failed"
    BY <2>1 DEF Codes, NonRetryable, Retryable, Success, NoCode
  <2>3. pc[r] # "idle"
    BY <1>1 DEF TurnAway, NotReady, NoUrl
  <2> QED
    BY <2>1, <2>2, <2>3
<1>2. CASE ResolveUnknown(r) \/ ResolveAmbiguous(r) \/ ResolveFails(r)
  BY <1>2 DEF ResolveUnknown, ResolveAmbiguous, ResolveFails, Codes, Retryable,
              NonRetryable
<1>3. CASE FetchFails(r)
  <2>1. PICK c \in FetchErrors(shot[r]) : Reject(r, c)
    BY <1>3 DEF FetchFails
  <2>2. c \in {"bad_image_url", "host_not_allowed", "upstream_not_found",
                "fetch_failed", "too_large"}
    BY DEF FetchErrors
  <2>3. c \in Codes /\ c # Success /\ c # NoCode /\ c # "publish_failed"
    BY <2>2 DEF Codes, NonRetryable, Retryable, Success, NoCode
  <2>4. pc[r] # "idle"
    BY <1>3 DEF FetchFails
  <2> QED
    BY <2>1, <2>3, <2>4
<1>4. CASE PrepareFails(r) \/ StoreFails(r)
  BY <1>4 DEF PrepareFails, StoreFails, Codes, Retryable, NonRetryable
<1>5. CASE PublishFails(r)
  BY <1>5 DEF PublishFails, Codes, Retryable, RequestOK
<1>6. CASE Admit(r) \/ Resolve(r) \/ Fetch(r) \/ Prepare(r)
  BY <1>6, AdmitRequest
<1>7. CASE StorePart(r)
  BY <1>7, StorePartRequest
<1>8. CASE Publish(r) \/ PublishUnconfirmed(r)
  BY <1>8, PublishRequest
<1>9. CASE Respond(r) \/ RespondInVain(r)
  BY <1>9, ReturnRequest DEF Respond, RespondInVain
<1> QED
  BY <1>1, <1>2, <1>3, <1>4, <1>5, <1>6, <1>7, <1>8, <1>9 DEF Handle

LEMMA RequestInit == Init => RequestInv
<1> SUFFICES ASSUME Init, NEW r \in Requests
             PROVE  RequestOK(r)
  BY DEF RequestInv
<1>1. /\ pc[r] = "idle" /\ shot[r] = NoShot /\ stored[r] = <<>>
      /\ code[r] = NoCode /\ gone[r] = FALSE
  BY DEF Init
<1>2. code[r] # Success /\ code[r] # "publish_failed"
  BY <1>1 DEF NoCode, Success
<1> QED
  BY <1>1, <1>2 DEF RequestOK

LEMMA RequestNext ==
  TypeInv /\ SoleIsCurrent /\ RequestInv /\ [Next]_vars => RequestInv'
<1> SUFFICES ASSUME TypeInv, SoleIsCurrent, RequestInv, [Next]_vars,
                    NEW q \in Requests
             PROVE  RequestOK(q)'
  BY DEF RequestInv
<1>1. Grows /\ RequestOK(q)
  BY NextGrows DEF RequestInv
<1>2. ASSUME Untouched(q) PROVE RequestOK(q)'
  BY <1>1, <1>2, RequestFrame
<1>3. ASSUME NEW r \in Requests, NEW s \in Shots, Call(r, s), s \in sent'
      PROVE  RequestOK(q)'
  <2>1. CASE q = r
    BY <1>1, <1>3, <2>1
       DEF Call, RequestOK, TypeInv, TypeOK, NoCode, Success
  <2>2. CASE q # r
    BY <1>2, <1>3, <2>2 DEF Call, Untouched, TypeInv, TypeOK
  <2> QED
    BY <2>1, <2>2
<1>4. ASSUME NEW r \in Requests, NEW s \in Shots, Post(r, s) \/ Replay(r, s)
      PROVE  RequestOK(q)'
  BY <1>3, <1>4 DEF Post, Replay, TypeInv, FailedWasSent
<1>5. ASSUME NEW r \in Requests, Handle(r) PROVE RequestOK(q)'
  <2>1. CASE q = r
    BY <1>1, <1>5, <2>1, HandleRequest
  <2>2. CASE q # r
    BY <1>2, <1>5, <2>2, HandleTouchesOne
  <2> QED
    BY <2>1, <2>2
<1>6. ASSUME NEW r \in Requests, HangUp(r) PROVE RequestOK(q)'
  <2>1. CASE q = r
    BY <1>1, <1>6, <2>1 DEF HangUp, RequestOK, TypeInv, TypeOK, registry, RefsOf
  <2>2. CASE q # r
    BY <1>2, <1>6, <2>2 DEF HangUp, Untouched, TypeInv, TypeOK
  <2> QED
    BY <2>1, <2>2
<1>7. CASE Restart
  BY <1>7 DEF Restart, RequestOK, NoCode, Success
<1>8. CASE Connect \/ UNCHANGED vars
  BY <1>2, <1>8 DEF Connect, vars, request, Untouched
<1>9. ASSUME NEW t \in Teams, NEW n \in Numbers \cup {NoNumber}, Assign(t, n)
      PROVE  RequestOK(q)'
  BY <1>2, <1>9 DEF Assign, request, Untouched
<1> QED
  BY <1>4, <1>5, <1>6, <1>7, <1>8, <1>9 DEF Next

-----------------------------------------------------------------------------
(***************************************************************************)
(* The safety invariants.  The log, the store and the camera app's answers *)
(* change in one kind of step each; what RequestInv says of the request    *)
(* that takes the step gives the invariant.                                *)
(***************************************************************************)
LEMMA WhoWrites ==
  ASSUME TypeInv, [Next]_vars
  PROVE  \/ UNCHANGED <<log, blobs, answers>>
         \/ \E r \in Requests : /\ pc[r] = "publish" /\ AppendEvent(r)
                               /\ pc'[r] = "respond" /\ UNCHANGED <<blobs, answers>>
         \/ \E r \in Requests : StorePart(r) /\ UNCHANGED <<log, answers>>
         \/ \E r \in Requests : Respond(r) /\ UNCHANGED <<log, blobs>>
<1> DEFINE Writes ==
         \/ UNCHANGED <<log, blobs, answers>>
         \/ \E r \in Requests : /\ pc[r] = "publish" /\ AppendEvent(r)
                               /\ pc'[r] = "respond" /\ UNCHANGED <<blobs, answers>>
         \/ \E r \in Requests : StorePart(r) /\ UNCHANGED <<log, answers>>
         \/ \E r \in Requests : Respond(r) /\ UNCHANGED <<log, blobs>>
<1> USE DEF camera
<1>1. ASSUME NEW r \in Requests, Handle(r) PROVE Writes
  <2>1. CASE StorePart(r)
    BY <2>1 DEF StorePart
  <2>2. CASE Publish(r) \/ PublishUnconfirmed(r)
    BY <2>2 DEF Publish, PublishUnconfirmed, TypeInv, TypeOK
  <2>3. CASE Respond(r) \/ RespondInVain(r)
    BY <2>3 DEF Respond, RespondInVain
  <2>4. ASSUME NEW c, Reject(r, c) PROVE Writes
    BY <2>4 DEF Reject
  <2>5. ASSUME NEW step, Goto(r, step) PROVE Writes
    BY <2>5 DEF Goto
  <2>6. CASE TurnAway(r) \/ NotReady(r) \/ NoUrl(r) \/ Admit(r)
    BY <2>4, <2>5, <2>6 DEF TurnAway, NotReady, NoUrl, Admit
  <2>7. CASE ResolveUnknown(r) \/ ResolveAmbiguous(r) \/ ResolveFails(r) \/ Resolve(r)
    BY <2>4, <2>5, <2>7 DEF ResolveUnknown, ResolveAmbiguous, ResolveFails, Resolve
  <2>8. CASE FetchFails(r) \/ Fetch(r) \/ PrepareFails(r) \/ Prepare(r)
    BY <2>4, <2>5, <2>8 DEF FetchFails, Fetch, PrepareFails, Prepare
  <2>9. CASE StoreFails(r) \/ PublishFails(r)
    BY <2>4, <2>9 DEF StoreFails, PublishFails
  <2> QED
    BY <1>1, <2>1, <2>2, <2>3, <2>6, <2>7, <2>8, <2>9 DEF Handle
<1>2. CASE \E r \in Requests, s \in Shots : Post(r, s) \/ Replay(r, s)
  BY <1>2 DEF Post, Replay, Call
<1>3. CASE \E r \in Requests : HangUp(r)
  BY <1>3 DEF HangUp
<1>4. CASE Connect \/ Restart \/ UNCHANGED vars
  BY <1>4 DEF Connect, Restart, vars
<1>5. CASE \E t \in Teams, n \in Numbers \cup {NoNumber} : Assign(t, n)
  BY <1>5 DEF Assign
<1> QED
  BY <1>1, <1>2, <1>3, <1>4, <1>5 DEF Next

\* The event a publishing request appends: its fields are those of a request
\* about to publish.
LEMMA NewEvent ==
  ASSUME NEW r \in Requests, TypeInv, RequestInv, pc[r] = "publish", AppendEvent(r),
         NEW i \in DOMAIN log', i \notin DOMAIN log
  PROVE  /\ log'[i].shot = shot[r]
         /\ log'[i].team = team[r]
         /\ log'[i].refs = Parts[shot[r]]
         /\ RefsOf(shot[r]) \subseteq blobs
         /\ <<team[r], Number[shot[r]]>> \in sole \cap held[r]
<1>1. Len(log) \in Nat /\ Len(log') = Len(log) + 1 /\ DOMAIN log' = 1 .. Len(log')
  BY AppendEventGrows
<1>a. DOMAIN log = 1 .. Len(log)
  BY DEF TypeInv, TypeOK
<1>2. i = Len(log')
  BY <1>1, <1>a
<1>3. log'[i] = [shot |-> shot[r], team |-> team[r], refs |-> stored[r]]
  BY <1>2, AppendEventGrows
<1>4. RequestOK(r)
  BY DEF RequestInv
<1> QED
  BY <1>3, <1>4 DEF RequestOK

LEMMA BytesNext ==
  ASSUME TypeInv, RequestInv, BytesBeforeEvent, AttributionWasUnique, [Next]_vars
  PROVE  BytesBeforeEvent' /\ AttributionWasUnique'
<1> SUFFICES ASSUME NEW i \in DOMAIN log'
             PROVE  /\ log'[i].refs = Parts[log'[i].shot]
                    /\ RefsOf(log'[i].shot) \subseteq blobs'
                    /\ <<log'[i].team, Number[log'[i].shot]>> \in sole'
  BY DEF BytesBeforeEvent, AttributionWasUnique, RefsOf
<1>1. Grows
  BY NextGrows
<1>2. CASE i \in DOMAIN log
  BY <1>1, <1>2 DEF Grows, BytesBeforeEvent, AttributionWasUnique
<1>3. CASE i \notin DOMAIN log
  <2>1. PICK r \in Requests : pc[r] = "publish" /\ AppendEvent(r)
    BY <1>3, WhoWrites
  <2> QED
    BY <1>1, <1>3, <2>1, NewEvent DEF Grows
<1> QED
  BY <1>2, <1>3

LEMMA DeliveredNext ==
  ASSUME TypeInv, RequestInv, DeliveredIsRecorded, PublishFailedKeepsBytes,
         [Next]_vars
  PROVE  DeliveredIsRecorded' /\ PublishFailedKeepsBytes'
<1> SUFFICES ASSUME NEW s \in Shots
             PROVE  /\ Success \in answers'[s]
                         => \E i \in DOMAIN log' : log'[i].shot = s
                    /\ "publish_failed" \in answers'[s] => RefsOf(s) \subseteq blobs'
  BY DEF DeliveredIsRecorded, PublishFailedKeepsBytes, RefsOf
<1>1. Grows
  BY NextGrows
<1>2. CASE answers'[s] = answers[s]
  BY <1>1, <1>2 DEF Grows, DeliveredIsRecorded, PublishFailedKeepsBytes
<1>3. CASE answers'[s] # answers[s]
  <2>1. PICK r \in Requests : Respond(r)
    BY <1>3, WhoWrites
  <2>2. s = shot[r] /\ answers'[s] = answers[s] \cup {code[r]}
    BY <1>3, <2>1 DEF Respond, TypeInv, TypeOK
  <2>3. RequestOK(r)
    BY DEF RequestInv
  <2>4. /\ code[r] = Success => \E i \in DOMAIN log : log[i].shot = s
        /\ code[r] = "publish_failed" => RefsOf(s) \subseteq blobs
    BY <2>2, <2>3 DEF RequestOK
  <2> QED
    BY <1>1, <2>2, <2>4 DEF Grows, DeliveredIsRecorded, PublishFailedKeepsBytes
<1> QED
  BY <1>2, <1>3

LEMMA StoredNext ==
  ASSUME TypeInv, RequestInv, StoredIsAttributed, [Next]_vars
  PROVE  StoredIsAttributed'
<1> SUFFICES ASSUME NEW o \in blobs'
             PROVE  \E s \in sent' :
                      /\ o \in RefsOf(s)
                      /\ Parts[s][1] \in blobs'
                      /\ UrlClass[s] = "good" /\ ImageClass[s] = "photo"
                      /\ \E t \in Teams : <<t, Number[s]>> \in sole'
  BY DEF StoredIsAttributed, RefsOf
<1>1. Grows
  BY NextGrows
<1>2. CASE o \in blobs
  BY <1>1, <1>2 DEF Grows, StoredIsAttributed
<1>3. CASE o \notin blobs
  <2>1. PICK r \in Requests : StorePart(r)
    BY <1>3, WhoWrites
  <2> DEFINE parts == Parts[shot[r]]
             next == Len(stored[r]) + 1
  <2>2. RequestOK(r)
    BY DEF RequestInv
  <2>3. shot[r] \in sent /\ shot[r] \in Shots
    BY <2>1 DEF StorePart, TypeInv, TypeOK, InFlightOK
  <2>4. /\ Len(stored[r]) \in Nat /\ Len(parts) \in Nat
        /\ next <= Len(parts) /\ DOMAIN parts = 1 .. Len(parts)
    BY <2>1, <2>3, PartsAssumption DEF StorePart, TypeInv, TypeOK
  <2>5. o = parts[next] /\ blobs' = blobs \cup {parts[next]}
    BY <1>3, <2>1 DEF StorePart
  <2>6. next \in DOMAIN parts
    BY <2>4
  <2>7. o \in RefsOf(shot[r])
    BY <2>5, <2>6 DEF RefsOf
  <2>8. parts[1] \in blobs'
    <3>1. CASE next = 1
      BY <2>5, <3>1
    <3>2. CASE next # 1
      <4>1. 1 \in 1 .. Len(stored[r])
        BY <2>4, <3>2
      <4> QED
        BY <1>1, <2>1, <2>2, <4>1 DEF RequestOK, StorePart, Grows
    <3> QED
      BY <3>1, <3>2
  <2>9. /\ \E t \in Teams : <<t, Number[shot[r]]>> \in sole
        /\ UrlClass[shot[r]] = "good" /\ ImageClass[shot[r]] = "photo"
    BY <2>1, <2>2 DEF RequestOK, StorePart, TypeInv, TypeOK
  <2> QED
    BY <1>1, <2>3, <2>7, <2>8, <2>9 DEF Grows
<1> QED
  BY <1>2, <1>3

\* A call whose caller waits ends in an acknowledgement or in the retry log.
LEMMA WaitingCall ==
  ASSUME NEW r \in Requests, TypeInv, [Next]_vars, pc[r] # "idle", ~gone[r]
  PROVE  \/ pc'[r] # "idle" /\ shot'[r] = shot[r] /\ ~gone'[r]
         \/ shot[r] \in failedLog'
         \/ Success \in answers'[shot[r]]
<1> DEFINE Goal == \/ pc'[r] # "idle" /\ shot'[r] = shot[r] /\ ~gone'[r]
                   \/ shot[r] \in failedLog'
                   \/ Success \in answers'[shot[r]]
<1> USE DEF TypeInv, TypeOK
<1>1. ASSUME Untouched(r) PROVE Goal
  BY <1>1 DEF Untouched
<1>2. ASSUME NEW q \in Requests, Handle(q) PROVE Goal
  <2>1. CASE q # r
    BY <1>1, <1>2, <2>1, HandleTouchesOne
  <2>2. ASSUME NEW c, Reject(r, c) PROVE Goal
    BY <2>2 DEF Reject
  <2>3. ASSUME NEW step, Goto(r, step), step # "idle" PROVE Goal
    BY <2>3 DEF Goto
  <2>4. CASE q = r
    <3>1. CASE TurnAway(r) \/ NotReady(r) \/ NoUrl(r) \/ Admit(r)
      BY <2>2, <2>3, <3>1 DEF TurnAway, NotReady, NoUrl, Admit
    <3>2. CASE ResolveUnknown(r) \/ ResolveAmbiguous(r) \/ ResolveFails(r) \/ Resolve(r)
      BY <2>2, <2>3, <3>2 DEF ResolveUnknown, ResolveAmbiguous, ResolveFails, Resolve
    <3>3. CASE FetchFails(r) \/ Fetch(r) \/ PrepareFails(r) \/ Prepare(r)
      BY <2>2, <2>3, <3>3 DEF FetchFails, Fetch, PrepareFails, Prepare
    <3>4. CASE StorePart(r)
      BY <3>4 DEF StorePart
    <3>5. CASE StoreFails(r) \/ PublishFails(r)
      BY <2>2, <3>5 DEF StoreFails, PublishFails
    <3>6. CASE Publish(r) \/ PublishUnconfirmed(r)
      BY <3>6 DEF Publish, PublishUnconfirmed
    <3>7. CASE Respond(r)
      <4>1. shot[r] \in Shots
        BY DEF InFlightOK
      <4> QED
        BY <3>7, <4>1 DEF Respond
    <3>8. CASE RespondInVain(r)
      BY <3>8 DEF RespondInVain
    <3> QED
      BY <1>2, <2>4, <3>1, <3>2, <3>3, <3>4, <3>5, <3>6, <3>7, <3>8 DEF Handle
  <2> QED
    BY <2>1, <2>4
<1>3. ASSUME NEW q \in Requests, NEW s \in Shots, Post(q, s) \/ Replay(q, s)
      PROVE  Goal
  BY <1>1, <1>3 DEF Post, Replay, Call, Untouched
<1>4. ASSUME NEW q \in Requests, HangUp(q) PROVE Goal
  <2>1. CASE q = r
    BY <1>4, <2>1 DEF HangUp
  <2>2. CASE q # r
    BY <1>1, <1>4, <2>2 DEF HangUp, Untouched
  <2> QED
    BY <2>1, <2>2
<1>5. CASE Restart
  BY <1>5 DEF Restart
<1>6. CASE Connect \/ UNCHANGED vars
  BY <1>1, <1>6 DEF Connect, vars, request, Untouched
<1>7. ASSUME NEW t \in Teams, NEW n \in Numbers \cup {NoNumber}, Assign(t, n)
      PROVE  Goal
  BY <1>1, <1>7 DEF Assign, request, Untouched
<1> QED
  BY <1>2, <1>3, <1>4, <1>5, <1>6, <1>7 DEF Next

LEMMA ForgottenNext ==
  ASSUME TypeInv, RequestInv, NothingForgotten, [Next]_vars
  PROVE  NothingForgotten'
<1> SUFFICES ASSUME NEW s \in sent'
             PROVE  \/ Success \in answers'[s]
                    \/ s \in failedLog'
                    \/ \E r \in Requests : pc'[r] # "idle" /\ shot'[r] = s /\ ~gone'[r]
  BY DEF NothingForgotten
<1>1. Grows
  BY NextGrows
<1>2. CASE s \in sent
  <2>1. CASE Success \in answers[s] \/ s \in failedLog
    BY <1>1, <1>2, <2>1 DEF Grows, TypeInv, TypeOK
  <2>2. CASE \E r \in Requests : pc[r] # "idle" /\ shot[r] = s /\ ~gone[r]
    BY <2>2, WaitingCall
  <2> QED
    BY <1>2, <2>1, <2>2 DEF NothingForgotten
<1>3. CASE s \notin sent
  <2>1. sent' # sent
    BY <1>3
  <2>2. PICK r \in Requests, p \in Shots : Post(r, p)
    <3>1. ASSUME NEW r \in Requests, Handle(r) PROVE sent' = sent
      BY <3>1
         DEF Handle, TurnAway, NotReady, NoUrl, Admit, ResolveUnknown,
             ResolveAmbiguous, ResolveFails, Resolve, FetchFails, Fetch,
             PrepareFails, Prepare, StorePart, StoreFails, Publish, PublishFails,
             PublishUnconfirmed, Respond, RespondInVain, Reject, Goto, camera
    <3> QED
      BY <2>1, <3>1
         DEF Next, Replay, HangUp, Connect, Restart, Assign, vars, camera
  <2>3. RequestOK(r)
    BY DEF RequestInv
  <2>4. s = p
    BY <1>3, <2>2 DEF Post
  <2>5. pc'[r] # "idle" /\ shot'[r] = s /\ ~gone'[r]
    BY <2>2, <2>3, <2>4 DEF Post, Call, RequestOK, TypeInv, TypeOK
  <2> QED
    BY <2>5
<1> QED
  BY <1>2, <1>3

-----------------------------------------------------------------------------
(***************************************************************************)
(* The theorems.                                                           *)
(***************************************************************************)
IInv ==
  /\ TypeInv
  /\ SoleIsCurrent
  /\ RequestInv
  /\ BytesBeforeEvent
  /\ AttributionWasUnique
  /\ DeliveredIsRecorded
  /\ PublishFailedKeepsBytes
  /\ StoredIsAttributed
  /\ NothingForgotten

LEMMA InductiveInvariant == Spec => []IInv
<1>1. Init => IInv
  <2> SUFFICES ASSUME Init PROVE IInv
    OBVIOUS
  <2>1. TypeInv /\ SoleIsCurrent /\ RequestInv
    BY InitType, SoleInit, RequestInit
  <2>2. DOMAIN log = {}
    BY DEF Init
  <2>3. BytesBeforeEvent /\ AttributionWasUnique
    BY <2>2 DEF BytesBeforeEvent, AttributionWasUnique
  <2>4. /\ DeliveredIsRecorded /\ PublishFailedKeepsBytes /\ StoredIsAttributed
        /\ NothingForgotten
    BY DEF Init, DeliveredIsRecorded, PublishFailedKeepsBytes,
           StoredIsAttributed, NothingForgotten
  <2> QED
    BY <2>1, <2>3, <2>4 DEF IInv
<1>2. IInv /\ [Next]_vars => IInv'
  <2> SUFFICES ASSUME IInv, [Next]_vars PROVE IInv'
    OBVIOUS
  <2> USE DEF IInv
  <2>1. TypeInv' /\ SoleIsCurrent' /\ RequestInv'
    BY NextType, SoleNext, RequestNext
  <2>2. BytesBeforeEvent' /\ AttributionWasUnique'
    BY BytesNext
  <2>3. DeliveredIsRecorded' /\ PublishFailedKeepsBytes'
    BY DeliveredNext
  <2>4. StoredIsAttributed' /\ NothingForgotten'
    BY StoredNext, ForgottenNext
  <2> QED
    BY <2>1, <2>2, <2>3, <2>4
<1> QED
  BY <1>1, <1>2, PTL DEF Spec

\* Every event on the log names all objects of its shot, and all of them are in
\* the store: ingest's order survives every failure, replay and restart.
THEOREM EventsAreBacked == Spec => []BytesBeforeEvent
<1>1. IInv => BytesBeforeEvent
  BY DEF IInv
<1> QED
  BY <1>1, InductiveInvariant, PTL

\* A shot answered 200 is on the log.
THEOREM DeliveredMeansRecorded == Spec => []DeliveredIsRecorded
<1>1. IInv => DeliveredIsRecorded
  BY DEF IInv
<1> QED
  BY <1>1, InductiveInvariant, PTL

\* Every event's team was the one holder of the number it was asked for.
THEOREM EventsAreAttributed == Spec => []AttributionWasUnique
<1>1. IInv => AttributionWasUnique
  BY DEF IInv
<1> QED
  BY <1>1, InductiveInvariant, PTL

\* No object is stored for a shot that is refused or without its original.
THEOREM StoreIsAttributed == Spec => []StoredIsAttributed
<1>1. IInv => StoredIsAttributed
  BY DEF IInv
<1> QED
  BY <1>1, InductiveInvariant, PTL

\* The team of a new event was found by the call that announces it.
THEOREM AttributionIsFresh == Spec => AttributionIsOfThisCall
<1>1. IInv /\ [Next]_vars =>
        [\A i \in DOMAIN log' \ DOMAIN log : \E r \in Requests :
           /\ shot[r] = log'[i].shot
           /\ pc'[r] # pc[r]
           /\ <<log'[i].team, Number[shot[r]]>> \in held[r]]_vars
  <2> SUFFICES ASSUME IInv, [Next]_vars, NEW i \in DOMAIN log', i \notin DOMAIN log
               PROVE  \E r \in Requests :
                        /\ shot[r] = log'[i].shot
                        /\ pc'[r] # pc[r]
                        /\ <<log'[i].team, Number[shot[r]]>> \in held[r]
    OBVIOUS
  <2>1. PICK r \in Requests : pc[r] = "publish" /\ AppendEvent(r) /\ pc'[r] # pc[r]
    BY WhoWrites DEF IInv
  <2> QED
    BY <2>1, NewEvent DEF IInv
<1> QED
  BY <1>1, InductiveInvariant, PTL DEF Spec, AttributionIsOfThisCall

\* No posted shot is dropped: it is acknowledged, to be retried, or awaited.
THEOREM NoShotForgotten == Spec => []NothingForgotten
<1>1. IInv => NothingForgotten
  BY DEF IInv
<1> QED
  BY <1>1, InductiveInvariant, PTL

\* A publish failure leaves all the objects of the shot behind.
THEOREM PublishFailureIsRepairable == Spec => []PublishFailedKeepsBytes
<1>1. IInv => PublishFailedKeepsBytes
  BY DEF IInv
<1> QED
  BY <1>1, InductiveInvariant, PTL

\* What each step of the handler relies on holds whenever it is reached.
THEOREM RequestsAreSound == Spec => []RequestInv
<1>1. IInv => RequestInv
  BY DEF IInv
<1> QED
  BY <1>1, InductiveInvariant, PTL

-----------------------------------------------------------------------------
(***************************************************************************)
(* The refinement: each step of the pipeline stores, announces or          *)
(* acknowledges as the contract allows, or is invisible to it.             *)
(***************************************************************************)
Announced == {[shot |-> log[i].shot, team |-> log[i].team] : i \in DOMAIN log}
Acknowledged == {s \in Shots : Success \in answers[s]}

LEMMA StoreRefines ==
  ASSUME IInv, NEW r \in Requests, StorePart(r), UNCHANGED <<log, answers>>
  PROVE  Contract!Next
<1> DEFINE next == Len(stored[r]) + 1
<1>1. shot[r] \in Shots
  BY DEF IInv, TypeInv, TypeOK, InFlightOK, StorePart
<1>2. /\ Len(stored[r]) \in Nat /\ next <= Len(Parts[shot[r]])
      /\ DOMAIN Parts[shot[r]] = 1 .. Len(Parts[shot[r]])
      /\ Len(Parts[shot[r]]) \in Nat
  BY <1>1, PartsAssumption DEF IInv, TypeInv, TypeOK, StorePart
<1>3. next \in DOMAIN Parts[shot[r]]
  BY <1>2
<1>4. next = 1 \/ Parts[shot[r]][1] \in blobs
  <2>1. RequestOK(r)
    BY DEF IInv, RequestInv
  <2>2. next # 1 => 1 \in 1 .. Len(stored[r])
    BY <1>2
  <2> QED
    BY <2>1, <2>2 DEF RequestOK, StorePart
<1>5. Contract!Store(shot[r], next)
  BY <1>4 DEF Contract!Store, StorePart
<1> QED
  BY <1>1, <1>3, <1>5 DEF Contract!Next

LEMMA PublishRefines ==
  ASSUME IInv, NEW r \in Requests, pc[r] = "publish", AppendEvent(r),
         UNCHANGED <<blobs, answers>>
  PROVE  Contract!Next
<1> DEFINE a == [shot |-> shot[r], team |-> team[r]]
<1>1. a \in Contract!Announcement
  BY ConstantsAssumption
     DEF Contract!Announcement, IInv, TypeInv, TypeOK, InFlightOK, AppendEvent
<1>2. RefsOf(shot[r]) \subseteq blobs
  BY DEF IInv, RequestInv, RequestOK
<1>3. /\ \A i \in DOMAIN log : i \in DOMAIN log' /\ log'[i] = log[i]
      /\ Len(log) \in Nat /\ Len(log') = Len(log) + 1
      /\ DOMAIN log' = 1 .. Len(log') /\ DOMAIN log = 1 .. Len(log)
  <2>1. DOMAIN log = 1 .. Len(log)
    BY DEF IInv, TypeInv, TypeOK
  <2> QED
    BY <2>1, AppendEventGrows DEF IInv
<1>4. log'[Len(log')] = [shot |-> shot[r], team |-> team[r], refs |-> stored[r]]
  BY AppendEventGrows DEF IInv
<1>5. log'[Len(log')].shot = shot[r] /\ log'[Len(log')].team = team[r]
  BY <1>4
<1>6. DOMAIN log' = DOMAIN log \cup {Len(log')}
  BY <1>3
<1>7. Announced' = Announced \cup {a}
  BY <1>3, <1>5, <1>6 DEF Announced
<1>8. Contract!Announce(a)
  BY <1>2, <1>7 DEF Contract!Announce, Contract!Refs, RefsOf, Announced
<1> QED
  BY <1>1, <1>8 DEF Contract!Next, Contract!Announce

LEMMA RespondRefines ==
  ASSUME IInv, NEW r \in Requests, Respond(r), UNCHANGED <<log, blobs>>
  PROVE  Contract!Next \/ UNCHANGED Contract!vars
<1>1. shot[r] \in Shots /\ RequestOK(r)
  BY DEF IInv, RequestInv, TypeInv, TypeOK, InFlightOK, Respond, Return
<1>2. answers' = [answers EXCEPT ![shot[r]] = @ \cup {code[r]}] /\ answers \in [Shots -> SUBSET Codes]
  BY DEF Respond, IInv, TypeInv, TypeOK
<1>3. CASE code[r] = Success
  <2>1. Acknowledged' = Acknowledged \cup {shot[r]}
    BY <1>1, <1>2, <1>3 DEF Acknowledged
  <2>2. \E a \in Announced : a.shot = shot[r]
    <3>1. PICK i \in DOMAIN log : log[i].shot = shot[r]
      BY <1>1, <1>3 DEF RequestOK
    <3>2. [shot |-> log[i].shot, team |-> log[i].team] \in Announced
      BY DEF Announced
    <3> QED
      BY <3>1, <3>2
  <2>3. Contract!Acknowledge(shot[r])
    BY <2>1, <2>2 DEF Contract!Acknowledge, Announced, Acknowledged
  <2> QED
    BY <1>1, <2>3 DEF Contract!Next, Contract!Acknowledge
<1>4. CASE code[r] # Success
  <2>1. Acknowledged' = Acknowledged
    BY <1>1, <1>2, <1>4 DEF Acknowledged
  <2> QED
    BY <2>1 DEF Contract!vars, Acknowledged
<1> QED
  BY <1>3, <1>4

\* The pipeline implements the promise of PhotoContract.
THEOREM ImplementsContract == Spec => ContractSpec
<1>1. Init => Contract!Init
  <2> SUFFICES ASSUME Init PROVE Contract!Init
    OBVIOUS
  <2>1. DOMAIN log = {} /\ blobs = {} /\ \A s \in Shots : answers[s] = {}
    BY DEF Init
  <2> QED
    BY <2>1 DEF Contract!Init
<1>2. IInv /\ [Next]_vars => [Contract!Next]_(Contract!vars)
  <2> SUFFICES ASSUME IInv, [Next]_vars
               PROVE  Contract!Next \/ UNCHANGED Contract!vars
    OBVIOUS
  <2>1. CASE UNCHANGED <<log, blobs, answers>>
    BY <2>1 DEF Contract!vars
  <2> QED
    BY <2>1, WhoWrites, StoreRefines, PublishRefines, RespondRefines DEF IInv
<1> QED
  BY <1>1, <1>2, InductiveInvariant, PTL DEF Spec, ContractSpec, Contract!Spec

-----------------------------------------------------------------------------
(***************************************************************************)
(* How long a call can be.  Whether the broker ever answers is not known   *)
(* here; what is left of a call gets less with each step of its handler    *)
(* and is never more through anybody else's.                               *)
(***************************************************************************)

\* Objects of the shot that are still to be put.
PartsLeft(r) == Len(Parts[shot[r]]) - Len(stored[r])

\* The most steps the handler may still take.
StepsLeft(r) ==
  CASE pc[r] = "admit"   -> PartsLeft(r) + 6
    [] pc[r] = "resolve" -> PartsLeft(r) + 5
    [] pc[r] = "fetch"   -> PartsLeft(r) + 4
    [] pc[r] = "prepare" -> PartsLeft(r) + 3
    [] pc[r] = "store"   -> PartsLeft(r) + 2
    [] pc[r] = "publish" -> 2
    [] pc[r] = "respond" -> 1
    [] OTHER             -> 0

\* What a call has put is part of what it has to put.
LEMMA PartsAreCounted ==
  ASSUME TypeInv, NEW r \in Requests, RequestOK(r), pc[r] # "idle"
  PROVE  /\ Len(stored[r]) \in Nat /\ Len(Parts[shot[r]]) \in Nat
         /\ Len(Parts[shot[r]]) >= 2
         /\ pc[r] \in {"admit", "resolve", "fetch", "prepare"} => Len(stored[r]) = 0
         /\ pc[r] = "store" => Len(stored[r]) < Len(Parts[shot[r]])
<1>1. shot[r] \in Shots
  BY DEF TypeInv, TypeOK, InFlightOK
<1>2. Len(stored[r]) \in Nat /\ Len(Parts[shot[r]]) \in Nat
  BY <1>1, PartsAssumption DEF TypeInv, TypeOK
<1>3. Len(Parts[shot[r]]) >= 2
  BY <1>1, PartsAssumption
<1>4. pc[r] \in {"admit", "resolve", "fetch", "prepare"} => Len(stored[r]) = 0
  BY DEF RequestOK
<1> QED
  BY <1>2, <1>3, <1>4 DEF RequestOK

LEMMA StepsType ==
  ASSUME TypeInv, NEW r \in Requests, RequestOK(r)
  PROVE  /\ StepsLeft(r) \in Nat
         /\ pc[r] # "idle" => StepsLeft(r) >= 1
         /\ pc[r] \notin {"idle", "respond"} => StepsLeft(r) >= 2
<1>1. pc[r] \in Steps
  BY DEF TypeInv, TypeOK
<1>2. CASE pc[r] = "idle"
  BY <1>2 DEF StepsLeft
<1>3. CASE pc[r] # "idle"
  <2>1. PartsLeft(r) \in Int
        /\ (pc[r] \in {"admit", "resolve", "fetch", "prepare", "store"}
              => PartsLeft(r) \in Nat)
    BY <1>3, PartsAreCounted DEF PartsLeft
  <2> QED
    BY <1>1, <1>3, <2>1 DEF StepsLeft, Steps
<1> QED
  BY <1>2, <1>3

\* Each step of a handler leaves it fewer.
LEMMA HandleShortens ==
  ASSUME TypeInv, TypeInv', NEW r \in Requests, RequestOK(r), Handle(r)
  PROVE  StepsLeft(r)' \in Nat /\ StepsLeft(r)' < StepsLeft(r)
<1> USE DEF TypeInv, TypeOK
<1>1. ASSUME pc'[r] = "respond", pc[r] \notin {"idle", "respond"}
      PROVE  StepsLeft(r)' \in Nat /\ StepsLeft(r)' < StepsLeft(r)
  <2>1. StepsLeft(r)' = 1
    BY <1>1 DEF StepsLeft
  <2>2. StepsLeft(r) \in Nat /\ StepsLeft(r) >= 2
    BY <1>1, StepsType
  <2> QED
    BY <2>1, <2>2
<1>2. ASSUME NEW c, Reject(r, c)
      PROVE  pc'[r] = "respond"
  BY <1>2 DEF Reject
<1>3. ASSUME NEW step, Goto(r, step)
      PROVE  pc'[r] = step /\ PartsLeft(r)' = PartsLeft(r)
  BY <1>3 DEF Goto, PartsLeft
<1>4. CASE TurnAway(r) \/ NotReady(r) \/ NoUrl(r)
  BY <1>1, <1>2, <1>4 DEF TurnAway, NotReady, NoUrl
<1>5. CASE ResolveUnknown(r) \/ ResolveAmbiguous(r) \/ ResolveFails(r)
  BY <1>1, <1>2, <1>5 DEF ResolveUnknown, ResolveAmbiguous, ResolveFails
<1>6. CASE FetchFails(r) \/ PrepareFails(r) \/ StoreFails(r) \/ PublishFails(r)
  BY <1>1, <1>2, <1>6 DEF FetchFails, PrepareFails, StoreFails, PublishFails
<1>7. CASE Publish(r) \/ PublishUnconfirmed(r)
  BY <1>1, <1>7 DEF Publish, PublishUnconfirmed
<1>8. ASSUME Admit(r) \/ Resolve(r) \/ Fetch(r) \/ Prepare(r)
      PROVE  StepsLeft(r)' \in Nat /\ StepsLeft(r)' < StepsLeft(r)
  <2>1. PartsLeft(r) \in Nat
    <3>1. pc[r] \in {"admit", "resolve", "fetch", "prepare"}
      BY <1>8 DEF Admit, Resolve, Fetch, Prepare
    <3> QED
      BY <3>1, PartsAreCounted DEF PartsLeft
  <2>2. CASE Admit(r)
    BY <1>3, <2>1, <2>2 DEF Admit, StepsLeft
  <2>3. CASE Resolve(r)
    BY <1>3, <2>1, <2>3 DEF Resolve, StepsLeft
  <2>4. CASE Fetch(r)
    BY <1>3, <2>1, <2>4 DEF Fetch, StepsLeft
  <2>5. CASE Prepare(r)
    BY <1>3, <2>1, <2>5 DEF Prepare, StepsLeft
  <2> QED
    BY <1>8, <2>2, <2>3, <2>4, <2>5
<1>9. CASE StorePart(r)
  <2>1. pc[r] = "store" /\ shot'[r] = shot[r]
    BY <1>9 DEF StorePart
  <2>2. /\ Len(stored[r]) \in Nat /\ Len(Parts[shot[r]]) \in Nat
        /\ Len(stored[r]) < Len(Parts[shot[r]])
    BY <2>1, PartsAreCounted
  <2>3. Len(stored'[r]) = Len(stored[r]) + 1
    <3>1. stored'[r] = Append(stored[r], Parts[shot[r]][Len(stored[r]) + 1])
      BY <1>9 DEF StorePart
    <3>2. shot[r] \in Shots
      BY <2>1 DEF InFlightOK
    <3>3. Parts[shot[r]][Len(stored[r]) + 1] \in Objects
      BY <2>2, <3>2, PartsAssumption
    <3>4. stored[r] \in Seq(Objects)
      OBVIOUS
    <3> QED
      BY <3>1, <3>3, <3>4, AppendProperties
  <2>4. pc'[r] \in {"store", "publish"}
    BY <1>9 DEF StorePart
  <2>5. PartsLeft(r)' = PartsLeft(r) - 1 /\ PartsLeft(r) \in Nat \ {0}
    BY <2>1, <2>2, <2>3 DEF PartsLeft
  <2> QED
    BY <2>1, <2>4, <2>5 DEF StepsLeft
<1>10. CASE Respond(r) \/ RespondInVain(r)
  BY <1>10 DEF Respond, RespondInVain, Return, StepsLeft
<1> QED
  BY <1>4, <1>5, <1>6, <1>7, <1>8, <1>9, <1>10 DEF Handle

\* Nothing but its own handler, or the end of the process, changes what is left.
LEMMA OthersDoNotLengthen ==
  ASSUME TypeInv, TypeInv', NEW r \in Requests, RequestOK(r), pc[r] # "idle",
         [Next]_vars, ~Handle(r)
  PROVE  StepsLeft(r)' \in {StepsLeft(r), 0}
<1>1. ASSUME pc'[r] = pc[r], shot'[r] = shot[r], stored'[r] = stored[r]
      PROVE  StepsLeft(r)' = StepsLeft(r)
  BY <1>1 DEF StepsLeft, PartsLeft
<1>2. ASSUME NEW q \in Requests, NEW s \in Shots, Post(q, s) \/ Replay(q, s)
      PROVE  StepsLeft(r)' = StepsLeft(r)
  <2>1. q # r /\ pc' = [pc EXCEPT ![q] = "admit"]
        /\ shot' = [shot EXCEPT ![q] = s] /\ stored' = stored
    BY <1>2 DEF Post, Replay, Call
  <2> QED
    BY <1>1, <2>1 DEF TypeInv, TypeOK
<1>3. ASSUME NEW q \in Requests, Handle(q)
      PROVE  StepsLeft(r)' = StepsLeft(r)
  <2>1. q # r
    BY <1>3
  <2>2. Untouched(r)
    BY <1>3, <2>1, HandleTouchesOne
  <2> QED
    BY <1>1, <2>2 DEF Untouched
<1>4. ASSUME NEW q \in Requests, HangUp(q)
      PROVE  StepsLeft(r)' = StepsLeft(r)
  BY <1>1, <1>4 DEF HangUp
<1>5. CASE Restart
  BY <1>5 DEF Restart, StepsLeft
<1>6. CASE Connect \/ (\E t \in Teams, n \in Numbers \cup {NoNumber} : Assign(t, n))
           \/ UNCHANGED vars
  BY <1>1, <1>6 DEF Connect, Assign, vars, request
<1> QED
  BY <1>2, <1>3, <1>4, <1>5, <1>6 DEF Next

\* A webhook call takes at most six steps and one for each object, whatever fails,
\* whoever hangs up and whatever other calls do meanwhile: no step of the handler
\* is ever taken again.
THEOREM CallsTakeFewSteps ==
  Spec => /\ [](\A r \in Requests :
                   pc[r] # "idle" => StepsLeft(r) \in 1 .. Len(Parts[shot[r]]) + 6)
          /\ [][\A r \in Requests : pc[r] # "idle" =>
                  /\ Handle(r) => StepsLeft(r)' < StepsLeft(r)
                  /\ StepsLeft(r)' <= StepsLeft(r)]_vars
<1>1. IInv => \A r \in Requests :
                pc[r] # "idle" => StepsLeft(r) \in 1 .. Len(Parts[shot[r]]) + 6
  <2> SUFFICES ASSUME IInv, NEW r \in Requests, pc[r] # "idle"
               PROVE  StepsLeft(r) \in 1 .. Len(Parts[shot[r]]) + 6
    OBVIOUS
  <2>1. TypeInv /\ RequestOK(r)
    BY DEF IInv, RequestInv
  <2>2. StepsLeft(r) \in Nat /\ StepsLeft(r) >= 1
    BY <2>1, StepsType
  <2>3. /\ Len(stored[r]) \in Nat /\ Len(Parts[shot[r]]) \in Nat
        /\ Len(Parts[shot[r]]) >= 2
    BY <2>1, PartsAreCounted
  <2>4. PartsLeft(r) \in Int /\ PartsLeft(r) <= Len(Parts[shot[r]])
    <3>1. \A m, n \in Nat : m - n \in Int /\ m - n <= m
      OBVIOUS
    <3> QED
      BY <2>3, <3>1, Zenon DEF PartsLeft
  <2>5. StepsLeft(r) <= Len(Parts[shot[r]]) + 6
    BY <2>3, <2>4 DEF StepsLeft
  <2> QED
    BY <2>2, <2>3, <2>5
<1>2. IInv /\ IInv' /\ [Next]_vars =>
        [\A r \in Requests : pc[r] # "idle" =>
           /\ Handle(r) => StepsLeft(r)' < StepsLeft(r)
           /\ StepsLeft(r)' <= StepsLeft(r)]_vars
  <2> SUFFICES ASSUME IInv, IInv', [Next]_vars, NEW r \in Requests, pc[r] # "idle"
               PROVE  /\ Handle(r) => StepsLeft(r)' < StepsLeft(r)
                      /\ StepsLeft(r)' <= StepsLeft(r)
    OBVIOUS
  <2>1. TypeInv /\ TypeInv' /\ RequestOK(r) /\ RequestOK(r)'
    BY DEF IInv, RequestInv
  <2>2. StepsLeft(r) \in Nat
    BY <2>1, StepsType
  <2>3. CASE Handle(r)
    BY <2>1, <2>2, <2>3, HandleShortens
  <2>4. CASE ~Handle(r)
    BY <2>1, <2>2, <2>4, OthersDoNotLengthen
  <2> QED
    BY <2>3, <2>4
<1> QED
  BY <1>1, <1>2, InductiveInvariant, PTL DEF Spec

-----------------------------------------------------------------------------
(***************************************************************************)
(* How many events a call can be.                                          *)
(***************************************************************************)

\* Calls that have yet to publish.
Open == {r \in Requests : pc[r] \notin {"idle", "respond"}}

\* Each call may still come to an event, or has come to one, or never will.
EventsAreCounted ==
  /\ IsFiniteSet(Open)
  /\ Len(log) + Cardinality(Open) <= calls

\* A step takes a call in, or leaves the calls that may publish as they are but for
\* those that it ends, or publishes and ends one.
LEMMA OpenSteps ==
  ASSUME TypeInv, TypeInv', [Next]_vars
  PROVE  \/ /\ UNCHANGED log
            /\ calls' = calls + 1
            /\ \E r \in Requests : Open' = Open \cup {r}
         \/ /\ UNCHANGED <<log, calls>>
            /\ \/ Open' = Open \/ Open' = {}
               \/ \E r \in Requests : Open' = Open \ {r}
         \/ /\ Len(log') = Len(log) + 1
            /\ UNCHANGED calls
            /\ \E r \in Open : Open' = Open \ {r}
<1> USE DEF TypeInv, TypeOK
<1>1. ASSUME NEW r \in Requests, pc' = [pc EXCEPT ![r] = "respond"]
      PROVE  Open' = Open \ {r}
  BY <1>1 DEF Open
<1>2. ASSUME NEW r \in Requests, NEW step \in Steps \ {"idle", "respond"},
             pc[r] \notin {"idle", "respond"}, pc' = [pc EXCEPT ![r] = step]
      PROVE  Open' = Open
  BY <1>2 DEF Open
<1>3. ASSUME NEW r \in Requests, NEW s \in Shots, Post(r, s) \/ Replay(r, s)
      PROVE  Open' = Open \cup {r} /\ UNCHANGED log /\ calls' = calls + 1
  BY <1>3 DEF Post, Replay, Call, Open
<1>4. ASSUME NEW r \in Requests, NEW c, Reject(r, c)
      PROVE  Open' = Open \ {r} /\ UNCHANGED <<log, calls>>
  BY <1>1, <1>4 DEF Reject, camera
<1>5. ASSUME NEW r \in Requests, NEW step \in Steps \ {"idle", "respond"},
             pc[r] \notin {"idle", "respond"}, Goto(r, step)
      PROVE  Open' = Open /\ UNCHANGED <<log, calls>>
  BY <1>2, <1>5 DEF Goto, camera
<1>6. ASSUME NEW r \in Requests, Publish(r) \/ PublishUnconfirmed(r)
      PROVE  /\ Len(log') = Len(log) + 1 /\ UNCHANGED calls
             /\ r \in Open /\ Open' = Open \ {r}
  <2>1. /\ pc[r] = "publish" /\ AppendEvent(r)
        /\ pc' = [pc EXCEPT ![r] = "respond"] /\ calls' = calls
    BY <1>6 DEF Publish, PublishUnconfirmed, camera
  <2>2. Len(log') = Len(log) + 1
    BY <2>1, AppendEventGrows
  <2> QED
    BY <1>1, <2>1, <2>2 DEF Open
<1>7. ASSUME NEW r \in Requests, Respond(r) \/ RespondInVain(r)
      PROVE  Open' = Open /\ UNCHANGED <<log, calls>>
  BY <1>7 DEF Respond, RespondInVain, Return, Open
<1>8. ASSUME NEW r \in Requests, StorePart(r)
      PROVE  Open' = Open /\ UNCHANGED <<log, calls>>
  <2>1. \E step \in {"publish", "store"} : pc' = [pc EXCEPT ![r] = step]
    BY <1>8 DEF StorePart
  <2>2. pc[r] = "store" /\ UNCHANGED <<log, calls>>
    BY <1>8 DEF StorePart, camera
  <2> QED
    BY <1>2, <2>1, <2>2 DEF Steps
<1>9. ASSUME NEW r \in Requests, Handle(r), ~(Publish(r) \/ PublishUnconfirmed(r))
      PROVE  (Open' = Open \/ Open' = Open \ {r}) /\ UNCHANGED <<log, calls>>
  <2>1. CASE TurnAway(r) \/ NotReady(r) \/ NoUrl(r)
    BY <1>4, <2>1 DEF TurnAway, NotReady, NoUrl
  <2>2. CASE ResolveUnknown(r) \/ ResolveAmbiguous(r) \/ ResolveFails(r)
    BY <1>4, <2>2 DEF ResolveUnknown, ResolveAmbiguous, ResolveFails
  <2>3. CASE FetchFails(r) \/ PrepareFails(r) \/ StoreFails(r) \/ PublishFails(r)
    BY <1>4, <2>3 DEF FetchFails, PrepareFails, StoreFails, PublishFails
  <2>4. CASE Admit(r) \/ Resolve(r) \/ Fetch(r) \/ Prepare(r)
    BY <1>5, <2>4 DEF Admit, Resolve, Fetch, Prepare, Steps
  <2> QED
    BY <1>7, <1>8, <1>9, <2>1, <2>2, <2>3, <2>4 DEF Handle
<1>10. ASSUME NEW r \in Requests, HangUp(r)
       PROVE  Open' = Open /\ UNCHANGED <<log, calls>>
  BY <1>10 DEF HangUp, Open
<1>11. CASE Restart
  BY <1>11 DEF Restart, Open
<1>12. CASE Connect \/ (\E t \in Teams, n \in Numbers \cup {NoNumber} : Assign(t, n))
            \/ UNCHANGED vars
  BY <1>12 DEF Connect, Assign, vars, request, camera, Open
<1> QED
  BY <1>3, <1>6, <1>9, <1>10, <1>11, <1>12 DEF Next

LEMMA CountNext ==
  ASSUME TypeInv, TypeInv', EventsAreCounted, [Next]_vars
  PROVE  EventsAreCounted'
<1> DEFINE n == Cardinality(Open)
           m == Cardinality(Open')
<1>1. /\ Len(log) \in Nat /\ calls \in Nat
      /\ IsFiniteSet(Open) /\ n \in Nat /\ Len(log) + n <= calls
  <2>1. Len(log) \in Nat
    BY LenProperties DEF TypeInv, TypeOK
  <2> QED
    BY <2>1, FS_CardinalityType DEF EventsAreCounted, TypeInv, TypeOK
<1>2. ASSUME NEW r, Open' = Open \cup {r}
      PROVE  IsFiniteSet(Open') /\ m \in Nat /\ m <= n + 1
  <2>1. IsFiniteSet(Open') /\ (m = n \/ m = n + 1)
    BY <1>1, <1>2, FS_AddElement
  <2> HIDE DEF m, n
  <2> QED
    BY <1>1, <2>1
<1>3. ASSUME NEW r, Open' = Open \ {r}
      PROVE  IsFiniteSet(Open') /\ m \in Nat /\ m <= n /\ (r \in Open => m = n - 1)
  <2>1. IsFiniteSet(Open') /\ (IF r \in Open THEN m = n - 1 ELSE m = n)
    BY <1>1, <1>3, FS_RemoveElement
  <2>2. m \in Nat
    BY <2>1, FS_CardinalityType
  <2> HIDE DEF m, n
  <2> QED
    BY <1>1, <2>1, <2>2
<1>4. CASE /\ UNCHANGED log
           /\ calls' = calls + 1
           /\ \E r \in Requests : Open' = Open \cup {r}
  <2>1. IsFiniteSet(Open') /\ m \in Nat /\ m <= n + 1
    BY <1>2, <1>4
  <2> HIDE DEF m, n
  <2>2. Len(log') + m <= calls'
    BY <1>1, <1>4, <2>1
  <2> QED
    BY <2>1, <2>2 DEF EventsAreCounted, m
<1>5. CASE /\ UNCHANGED <<log, calls>>
           /\ \/ Open' = Open \/ Open' = {}
              \/ \E r \in Requests : Open' = Open \ {r}
  <2>1. IsFiniteSet(Open') /\ m \in Nat /\ m <= n
    <3>1. CASE Open' = {}
      BY <1>1, <3>1, FS_EmptySet
    <3>2. CASE Open' = Open
      <4>1. m = n
        BY <3>2
      <4> HIDE DEF m, n
      <4> QED
        BY <1>1, <3>2, <4>1
    <3>3. CASE \E r \in Requests : Open' = Open \ {r}
      BY <1>3, <3>3
    <3> QED
      BY <1>5, <3>1, <3>2, <3>3
  <2> HIDE DEF m, n
  <2>2. Len(log') + m <= calls'
    BY <1>1, <1>5, <2>1
  <2> QED
    BY <2>1, <2>2 DEF EventsAreCounted, m
<1>6. CASE /\ Len(log') = Len(log) + 1
           /\ UNCHANGED calls
           /\ \E r \in Open : Open' = Open \ {r}
  <2>1. IsFiniteSet(Open') /\ m \in Nat /\ m = n - 1
    BY <1>3, <1>6
  <2> HIDE DEF m, n
  <2>2. Len(log') + m <= calls'
    BY <1>1, <1>6, <2>1
  <2> QED
    BY <2>1, <2>2 DEF EventsAreCounted, m
<1> QED
  BY <1>4, <1>5, <1>6, OpenSteps

\* A call of the webhook puts at most one event on the stream: a photograph is
\* announced twice only if the camera app's operator sends it twice.
THEOREM OneEventPerCall == Spec => [](Len(log) <= calls)
<1>1. Init => EventsAreCounted
  <2> SUFFICES ASSUME Init PROVE EventsAreCounted
    OBVIOUS
  <2>1. Open = {} /\ log = <<>> /\ calls = 0
    BY DEF Init, Open
  <2>2. IsFiniteSet(Open) /\ Cardinality(Open) = 0
    BY <2>1, FS_EmptySet
  <2>3. Len(log) = 0
    BY <2>1
  <2> QED
    BY <2>1, <2>2, <2>3 DEF EventsAreCounted
<1>2. IInv /\ IInv' /\ EventsAreCounted /\ [Next]_vars => EventsAreCounted'
  BY CountNext DEF IInv
<1>3. IInv /\ EventsAreCounted => Len(log) <= calls
  <2> SUFFICES ASSUME IInv, EventsAreCounted PROVE Len(log) <= calls
    OBVIOUS
  <2> DEFINE n == Cardinality(Open)
  <2>1. Len(log) \in Nat /\ calls \in Nat
    BY LenProperties DEF IInv, TypeInv, TypeOK
  <2>2. n \in Nat /\ Len(log) + n <= calls
    BY FS_CardinalityType DEF EventsAreCounted
  <2> HIDE DEF n
  <2> QED
    BY <2>1, <2>2
<1> QED
  BY <1>1, <1>2, <1>3, InductiveInvariant, PTL DEF Spec
=============================================================================

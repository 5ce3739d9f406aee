------------------------------- MODULE Ingest -------------------------------
(***************************************************************************)
(* The ingest pipeline: POST /callback/kamera from the first check to the  *)
(* response (cmd/api/callback.go, ingest.go), the readiness gate and lazy  *)
(* publisher (main.go, eventing.go) and the team number lookup             *)
(* (internal/teamnumber/resolver.go).                                      *)
(*                                                                         *)
(* Each request is a goroutine with its own control state; requests, the   *)
(* broker connection, the patrulje projection, the camera app and process  *)
(* restarts interleave at the granularity of the calls that read or write  *)
(* shared state.  The object store is the file store, whose objects        *)
(* survive a restart.  Team rows of other seasons, which the query filters *)
(* out by year, are left out.                                              *)
(***************************************************************************)
EXTENDS Naturals, Sequences

CONSTANTS
  Requests,        \* request goroutines that can be in flight at once
  Shots,           \* photographs in the camera app
  Teams,           \* patruljer of this season
  Numbers,         \* team numbers
  Objects,         \* content hashes
  NoNumber,        \* the empty team number: the column's default
  NoTeam, NoShot,  \* a request that has none yet
  Number,          \* Number[s]: the team number in the payload of s
  UrlClass,        \* UrlClass[s]: what the imageUrl of s is
  ImageClass,      \* ImageClass[s]: what decoding the bytes behind it gives
  Parts,           \* Parts[s]: refs of s: original, display image, thumbnails
  Addressable,     \* teams whose id is a valid subject token
  MaxCalls,        \* bound: webhook calls made
  MaxAssignments   \* bound: changes of a patrulje's number

UrlClasses == {"good", "empty", "invalid", "denied"}
ImageClasses == {"photo", "undecodable", "oversized"}

ASSUME ConstantsAssumption ==
  /\ NoNumber \notin Numbers
  /\ NoTeam \notin Teams
  /\ NoShot \notin Shots
  /\ Number \in [Shots -> Numbers \cup {NoNumber}]
  /\ UrlClass \in [Shots -> UrlClasses]
  /\ ImageClass \in [Shots -> ImageClasses]
  /\ Addressable \subseteq Teams
  /\ MaxCalls \in Nat
  /\ MaxAssignments \in Nat

\* storePhoto always writes an original and a display image.
ASSUME PartsAssumption ==
  /\ Parts \in [Shots -> Seq(Objects)]
  /\ \A s \in Shots : Len(Parts[s]) >= 2

VARIABLES
  pc,           \* pc[r]: the step request r is about to take
  shot,         \* shot[r]: the payload of r
  team,         \* team[r]: the team the number resolved to
  stored,       \* stored[r]: the refs r's Puts have returned so far
  code,         \* code[r]: what r is about to answer
  gone,         \* gone[r]: the caller hung up, so r's context is cancelled
  blobs,        \* refs in the object store
  log,          \* the photographed events on the stream
  publisher,    \* a broker publisher is held
  patrulje,     \* patrulje[t]: the number of t in the patrulje projection
  sole,         \* history: <<t, n>> with t at some time the only holder of n
  held,         \* history: held[r], those of sole since the call of r came in
  assignments,  \* number changes so far
  sent,         \* shots the camera app has posted
  failedLog,    \* shots with a line in its webhook-failed.jsonl
  answers,      \* answers[s]: codes the camera app has received for s
  calls         \* webhook calls so far

request  == <<pc, shot, team, stored, code, gone>>
registry == <<patrulje, sole, held, assignments>>
camera   == <<sent, failedLog, answers, calls>>
vars     == <<request, blobs, log, publisher, registry, camera>>

NoCode == "none"
Success == "photographed"
NonRetryable ==
  {"unknown_team_number", "ambiguous_team_number", "bad_payload",
   "bad_image_url", "host_not_allowed", "upstream_not_found", "not_an_image",
   "too_large"}
Retryable == {"fetch_failed", "not_ready", "store_failed", "publish_failed"}
Codes == {Success, "unauthorized"} \cup NonRetryable \cup Retryable

Steps == {"idle", "admit", "resolve", "fetch", "prepare", "store", "publish",
          "respond"}

Event == [shot : Shots, team : Teams, refs : Seq(Objects)]

RefsOf(s) == {Parts[s][i] : i \in DOMAIN Parts[s]}

Holders(n) == {t \in Teams : patrulje[t] = n}

SolePairs(assigned) ==
  {p \in Teams \X Numbers :
     \A t \in Teams : assigned[t] = p[2] <=> t = p[1]}

Init ==
  /\ pc = [r \in Requests |-> "idle"]
  /\ shot = [r \in Requests |-> NoShot]
  /\ team = [r \in Requests |-> NoTeam]
  /\ stored = [r \in Requests |-> <<>>]
  /\ code = [r \in Requests |-> NoCode]
  /\ gone = [r \in Requests |-> FALSE]
  /\ blobs = {}
  /\ log = <<>>
  /\ publisher = FALSE
  /\ patrulje = [t \in Teams |-> NoNumber]
  /\ sole = {}
  /\ held = [r \in Requests |-> {}]
  /\ assignments = 0
  /\ sent = {}
  /\ failedLog = {}
  /\ answers = [s \in Shots |-> {}]
  /\ calls = 0

-----------------------------------------------------------------------------
(***************************************************************************)
(* The camera app and its operator.  A shot is posted once; a line of      *)
(* webhook-failed.jsonl may be replayed any number of times, since nothing *)
(* removes a line that has succeeded.                                      *)
(***************************************************************************)
Call(r, s) ==
  /\ pc[r] = "idle"
  /\ calls < MaxCalls
  /\ calls' = calls + 1
  /\ pc' = [pc EXCEPT ![r] = "admit"]
  /\ shot' = [shot EXCEPT ![r] = s]
  /\ held' = [held EXCEPT ![r] = SolePairs(patrulje)]
  /\ UNCHANGED <<team, stored, code, gone, blobs, log, publisher, patrulje,
                 sole, assignments, failedLog, answers>>

Post(r, s) ==
  /\ s \notin sent
  /\ sent' = sent \cup {s}
  /\ Call(r, s)

Replay(r, s) ==
  /\ s \in failedLog
  /\ UNCHANGED sent
  /\ Call(r, s)

\* The caller times out or hangs up; the request's context is cancelled, the
\* handler runs on and its answer goes nowhere.
HangUp(r) ==
  /\ pc[r] # "idle"
  /\ ~gone[r]
  /\ gone' = [gone EXCEPT ![r] = TRUE]
  /\ failedLog' = failedLog \cup {shot[r]}
  /\ UNCHANGED <<pc, shot, team, stored, code, blobs, log, publisher, registry,
                 sent, answers, calls>>

-----------------------------------------------------------------------------
(***************************************************************************)
(* The handler.                                                            *)
(***************************************************************************)
Goto(r, step) ==
  /\ pc' = [pc EXCEPT ![r] = step]
  /\ UNCHANGED <<shot, stored, code, gone, blobs, log, publisher, registry,
                 camera>>

Reject(r, c) ==
  /\ pc' = [pc EXCEPT ![r] = "respond"]
  /\ code' = [code EXCEPT ![r] = c]
  /\ UNCHANGED <<shot, team, stored, gone, blobs, log, publisher, registry,
                 camera>>

\* A replay by hand may miss the secret or carry a body that does not decode.
TurnAway(r) ==
  /\ pc[r] = "admit"
  /\ \E c \in {"unauthorized", "bad_payload"} : Reject(r, c)

NotReady(r) ==
  /\ pc[r] = "admit"
  /\ ~publisher
  /\ Reject(r, "not_ready")

NoUrl(r) ==
  /\ pc[r] = "admit"
  /\ publisher
  /\ UrlClass[shot[r]] = "empty"
  /\ Reject(r, "bad_payload")

Admit(r) ==
  /\ pc[r] = "admit"
  /\ publisher
  /\ UrlClass[shot[r]] # "empty"
  /\ Goto(r, "resolve")
  /\ UNCHANGED team

\* An empty number is answered without a query.
ResolveUnknown(r) ==
  LET n == Number[shot[r]] IN
  /\ pc[r] = "resolve"
  /\ n = NoNumber \/ (~gone[r] /\ Holders(n) = {})
  /\ Reject(r, "unknown_team_number")

ResolveAmbiguous(r) ==
  LET n == Number[shot[r]] IN
  /\ pc[r] = "resolve"
  /\ n # NoNumber
  /\ ~gone[r]
  /\ \E t, u \in Holders(n) : t # u
  /\ Reject(r, "ambiguous_team_number")

\* The query fails: the database is away, it times out, or the caller left.
ResolveFails(r) ==
  /\ pc[r] = "resolve"
  /\ Number[shot[r]] # NoNumber
  /\ Reject(r, "not_ready")

\* Mutant of Resolve: LIMIT 1, which cannot see a second holder.
ResolveFirst(r) ==
  LET n == Number[shot[r]] IN
  /\ pc[r] = "resolve"
  /\ n # NoNumber
  /\ ~gone[r]
  /\ \E t \in Holders(n) : team' = [team EXCEPT ![r] = t]
  /\ Goto(r, "fetch")

\* Mutant of Resolve: an answer once found is kept from call to call.
ResolveCached(r) ==
  LET n == Number[shot[r]] IN
  /\ pc[r] = "resolve"
  /\ n # NoNumber
  /\ ~gone[r]
  /\ \E t \in Teams :
       /\ Holders(n) = {t} \/ <<t, n>> \in sole
       /\ team' = [team EXCEPT ![r] = t]
  /\ Goto(r, "fetch")

Resolve(r) ==
  LET n == Number[shot[r]] IN
  /\ pc[r] = "resolve"
  /\ n # NoNumber
  /\ ~gone[r]
  /\ \E t \in Teams :
       /\ Holders(n) = {t}
       /\ team' = [team EXCEPT ![r] = t]
  /\ Goto(r, "fetch")

\* A good URL may still redirect to one that is refused.
FetchErrors(s) ==
  CASE UrlClass[s] = "invalid" -> {"bad_image_url"}
    [] UrlClass[s] = "denied"  -> {"host_not_allowed"}
    [] OTHER -> {"bad_image_url", "host_not_allowed", "upstream_not_found",
                 "fetch_failed", "too_large"}

FetchFails(r) ==
  /\ pc[r] = "fetch"
  /\ \E c \in FetchErrors(shot[r]) : Reject(r, c)

Fetch(r) ==
  /\ pc[r] = "fetch"
  /\ UrlClass[shot[r]] = "good"
  /\ ~gone[r]
  /\ Goto(r, "prepare")
  /\ UNCHANGED team

\* Mutant of PrepareFails: only ErrTooLarge has a case, and an upload that does not
\* decode falls through to the Puts.
PrepareFailsThrough(r) ==
  /\ pc[r] = "prepare"
  /\ \/ ImageClass[shot[r]] = "undecodable" /\ Goto(r, "store") /\ UNCHANGED team
     \/ ImageClass[shot[r]] = "oversized" /\ Reject(r, "too_large")

PrepareFails(r) ==
  /\ pc[r] = "prepare"
  /\ \/ ImageClass[shot[r]] = "undecodable" /\ Reject(r, "not_an_image")
     \/ ImageClass[shot[r]] = "oversized" /\ Reject(r, "too_large")

Prepare(r) ==
  /\ pc[r] = "prepare"
  /\ ImageClass[shot[r]] = "photo"
  /\ Goto(r, "store")
  /\ UNCHANGED team

\* Mutant of StorePart: the loop over the thumbnails ends one early.
StorePartShort(r) ==
  LET parts == Parts[shot[r]]
      next == Len(stored[r]) + 1
  IN
  /\ pc[r] = "store"
  /\ ~gone[r]
  /\ next <= Len(parts)
  /\ blobs' = blobs \cup {parts[next]}
  /\ stored' = [stored EXCEPT ![r] = Append(@, parts[next])]
  /\ pc' = [pc EXCEPT ![r] = IF next + 1 >= Len(parts) THEN "publish" ELSE "store"]
  /\ UNCHANGED <<shot, team, code, gone, log, publisher, registry, camera>>

\* Mutant of StorePart: the renditions first, the original last.
StorePartReversed(r) ==
  LET parts == Parts[shot[r]]
      next == Len(stored[r]) + 1
  IN
  /\ pc[r] = "store"
  /\ ~gone[r]
  /\ next <= Len(parts)
  /\ blobs' = blobs \cup {parts[Len(parts) - next + 1]}
  /\ stored' = [stored EXCEPT ![r] = Append(@, parts[next])]
  /\ pc' = [pc EXCEPT ![r] = IF next = Len(parts) THEN "publish" ELSE "store"]
  /\ UNCHANGED <<shot, team, code, gone, log, publisher, registry, camera>>

\* One Put of storePhoto: the original, then the display image, then the
\* thumbnails.  Put checks the context first and is a no-op for a ref that is
\* there already.
StorePart(r) ==
  LET parts == Parts[shot[r]]
      next == Len(stored[r]) + 1
  IN
  /\ pc[r] = "store"
  /\ ~gone[r]
  /\ next <= Len(parts)
  /\ blobs' = blobs \cup {parts[next]}
  /\ stored' = [stored EXCEPT ![r] = Append(@, parts[next])]
  /\ pc' = [pc EXCEPT ![r] = IF next = Len(parts) THEN "publish" ELSE "store"]
  /\ UNCHANGED <<shot, team, code, gone, log, publisher, registry, camera>>

\* Mutant of StoreFails: the failure is mapped to the wrong rejection.
StoreFailsAsPublish(r) ==
  /\ pc[r] = "store"
  /\ Reject(r, "publish_failed")

StoreFails(r) ==
  /\ pc[r] = "store"
  /\ Reject(r, "store_failed")

AppendEvent(r) ==
  /\ team[r] \in Addressable
  /\ publisher
  /\ log' = Append(log, [shot |-> shot[r], team |-> team[r],
                         refs |-> stored[r]])

\* Publishing takes no context: it goes ahead although the caller has left.
Publish(r) ==
  /\ pc[r] = "publish"
  /\ AppendEvent(r)
  /\ pc' = [pc EXCEPT ![r] = "respond"]
  /\ code' = [code EXCEPT ![r] = Success]
  /\ UNCHANGED <<shot, team, stored, gone, blobs, publisher, registry, camera>>

\* Mutant of PublishFails: the error of Publish is dropped.
PublishFailsQuietly(r) ==
  /\ pc[r] = "publish"
  /\ Reject(r, Success)

\* The team id is no subject token, or the broker did not take the message.
PublishFails(r) ==
  /\ pc[r] = "publish"
  /\ Reject(r, "publish_failed")

\* The broker took the message and its acknowledgement was lost.
PublishUnconfirmed(r) ==
  /\ pc[r] = "publish"
  /\ AppendEvent(r)
  /\ pc' = [pc EXCEPT ![r] = "respond"]
  /\ code' = [code EXCEPT ![r] = "publish_failed"]
  /\ UNCHANGED <<shot, team, stored, gone, blobs, publisher, registry, camera>>

\* The handler returns and its locals are gone.
Return(r) ==
  /\ pc[r] = "respond"
  /\ pc' = [pc EXCEPT ![r] = "idle"]
  /\ shot' = [shot EXCEPT ![r] = NoShot]
  /\ team' = [team EXCEPT ![r] = NoTeam]
  /\ stored' = [stored EXCEPT ![r] = <<>>]
  /\ code' = [code EXCEPT ![r] = NoCode]
  /\ gone' = [gone EXCEPT ![r] = FALSE]
  /\ held' = [held EXCEPT ![r] = {}]

\* Mutant of Respond: a refusal is answered with status 200.
RespondAlwaysOK(r) ==
  /\ Return(r)
  /\ ~gone[r]
  /\ answers' = [answers EXCEPT ![shot[r]] = @ \cup {code[r]}]
  /\ UNCHANGED failedLog
  /\ UNCHANGED <<blobs, log, publisher, patrulje, sole, assignments, sent, calls>>

\* Mutant of Respond: the answer does not wait for the publish.
RespondEarly(r) ==
  /\ pc[r] \in {"publish", "respond"}
  /\ ~gone[r]
  /\ pc' = [pc EXCEPT ![r] = "idle"]
  /\ shot' = [shot EXCEPT ![r] = NoShot]
  /\ team' = [team EXCEPT ![r] = NoTeam]
  /\ stored' = [stored EXCEPT ![r] = <<>>]
  /\ code' = [code EXCEPT ![r] = NoCode]
  /\ answers' = [answers EXCEPT ![shot[r]] = @ \cup {code[r]}]
  /\ held' = [held EXCEPT ![r] = {}]
  /\ UNCHANGED <<gone, blobs, log, publisher, patrulje, sole, assignments, sent,
                 failedLog, calls>>

Respond(r) ==
  /\ Return(r)
  /\ ~gone[r]
  /\ answers' = [answers EXCEPT ![shot[r]] = @ \cup {code[r]}]
  /\ failedLog' = IF code[r] = Success THEN failedLog
                  ELSE failedLog \cup {shot[r]}
  /\ UNCHANGED <<blobs, log, publisher, patrulje, sole, assignments, sent, calls>>

\* Nobody reads the answer: the caller has left, or the write fails.
RespondInVain(r) ==
  /\ Return(r)
  /\ failedLog' = failedLog \cup {shot[r]}
  /\ UNCHANGED <<blobs, log, publisher, patrulje, sole, assignments, sent, answers,
                 calls>>

Handle(r) ==
  \/ TurnAway(r) \/ NotReady(r) \/ NoUrl(r) \/ Admit(r)
  \/ ResolveUnknown(r) \/ ResolveAmbiguous(r) \/ ResolveFails(r) \/ Resolve(r)
  \/ FetchFails(r) \/ Fetch(r) \/ PrepareFails(r) \/ Prepare(r)
  \/ StorePart(r) \/ StoreFails(r)
  \/ Publish(r) \/ PublishFails(r) \/ PublishUnconfirmed(r)
  \/ Respond(r) \/ RespondInVain(r)

-----------------------------------------------------------------------------
(***************************************************************************)
(* The rest of the process and its surroundings.                           *)
(***************************************************************************)

\* connectInBackground succeeds; the publisher is held until the process ends.
Connect ==
  /\ ~publisher
  /\ publisher' = TRUE
  /\ UNCHANGED <<request, blobs, log, registry, camera>>

\* The process stops and starts again: goroutines and the publisher are gone,
\* the camera app sees its open calls fail.
Restart ==
  /\ pc' = [r \in Requests |-> "idle"]
  /\ shot' = [r \in Requests |-> NoShot]
  /\ team' = [r \in Requests |-> NoTeam]
  /\ stored' = [r \in Requests |-> <<>>]
  /\ code' = [r \in Requests |-> NoCode]
  /\ gone' = [r \in Requests |-> FALSE]
  /\ held' = [r \in Requests |-> {}]
  /\ publisher' = FALSE
  /\ failedLog' = failedLog \cup {shot[r] : r \in {q \in Requests : pc[q] # "idle"}}
  /\ UNCHANGED <<blobs, log, patrulje, sole, assignments, sent, answers, calls>>

\* The patrulje projection applies an event that gives t the number n.
Assign(t, n) ==
  /\ assignments < MaxAssignments
  /\ n # patrulje[t]
  /\ patrulje' = [patrulje EXCEPT ![t] = n]
  /\ sole' = sole \cup SolePairs(patrulje')
  /\ held' = [r \in Requests |-> IF pc[r] = "idle" THEN {}
                                 ELSE held[r] \cup SolePairs(patrulje')]
  /\ assignments' = assignments + 1
  /\ UNCHANGED <<request, blobs, log, publisher, camera>>

Next ==
  \/ \E r \in Requests, s \in Shots : Post(r, s) \/ Replay(r, s)
  \/ \E r \in Requests : Handle(r) \/ HangUp(r)
  \/ Connect
  \/ Restart
  \/ \E t \in Teams, n \in Numbers \cup {NoNumber} : Assign(t, n)

Spec == Init /\ [][Next]_vars

\* The blocking steps of the handler are bounded, the query by queryTimeout, the
\* fetch by FETCH_TIMEOUT, the response by the server's WriteTimeout, all but one:
\* the publish takes no context and waits for the broker as long as that takes.
FairSpec == Spec /\ \A r \in Requests : WF_vars(Handle(r) /\ pc[r] # "publish")

-----------------------------------------------------------------------------
(***************************************************************************)
(* Properties.                                                             *)
(***************************************************************************)

\* Every variable has its type: request locals, log entries, camera records.
TypeOK ==
  /\ pc \in [Requests -> Steps]
  /\ shot \in [Requests -> Shots \cup {NoShot}]
  /\ team \in [Requests -> Teams \cup {NoTeam}]
  /\ stored \in [Requests -> Seq(Objects)]
  /\ code \in [Requests -> Codes \cup {NoCode}]
  /\ gone \in [Requests -> BOOLEAN]
  /\ blobs \subseteq Objects
  /\ log \in Seq(Event)
  /\ publisher \in BOOLEAN
  /\ patrulje \in [Teams -> Numbers \cup {NoNumber}]
  /\ sole \subseteq Teams \X Numbers
  /\ held \in [Requests -> SUBSET (Teams \X Numbers)]
  /\ assignments \in Nat
  /\ sent \subseteq Shots
  /\ failedLog \subseteq Shots
  /\ answers \in [Shots -> SUBSET Codes]
  /\ calls \in Nat

\* "Bytes before event, always" (callback.go): an event on the log names the
\* original and every rendition of its shot, and each of them can be fetched,
\* whatever failed, was replayed or restarted in between.
BytesBeforeEvent ==
  \A i \in DOMAIN log :
    /\ log[i].refs = Parts[log[i].shot]
    /\ RefsOf(log[i].shot) \subseteq blobs

\* The callback is answered 200 only once the photograph is on the log: a camera
\* app that was told "photographed" may forget the shot.
DeliveredIsRecorded ==
  \A s \in Shots : Success \in answers[s] => \E i \in DOMAIN log : log[i].shot = s

\* "Nothing is stored for a photograph we are about to refuse" (callback.go): each
\* object is of a posted shot whose URL may be fetched, which decodes and whose
\* number some team held alone at some time; and no rendition is there without the
\* original of its shot.
StoredIsAttributed ==
  \A o \in blobs : \E s \in sent :
    /\ o \in RefsOf(s)
    /\ Parts[s][1] \in blobs
    /\ UrlClass[s] = "good" /\ ImageClass[s] = "photo"
    /\ \E t \in Teams : <<t, Number[s]>> \in sole

\* A photograph is never announced for a team that was not, at some time, the one
\* holder of the number in the payload: duplicate numbers and the empty number
\* attribute nothing (resolver.go: LIMIT 2, the empty checks).
AttributionWasUnique ==
  \A i \in DOMAIN log : <<log[i].team, Number[log[i].shot]>> \in sole

\* The team of a new event held the number alone at some time during the very call
\* that announces it: whatever an earlier call found, each call, a replay included,
\* asks the projection for itself.  Between its lookup and its publish the number
\* may move on; that much of a change an event may miss.
AttributionIsOfThisCall ==
  [][\A i \in DOMAIN log' \ DOMAIN log : \E r \in Requests :
       /\ shot[r] = log'[i].shot
       /\ pc'[r] # pc[r]
       /\ <<log'[i].team, Number[shot[r]]>> \in held[r]]_vars

\* A shot the camera app has posted is acknowledged, or in its retry log, or in
\* the hands of a request whose caller still waits: the callback's status is what
\* keeps a photograph from being dropped.
NothingForgotten ==
  \A s \in sent :
    \/ Success \in answers[s]
    \/ s \in failedLog
    \/ \E r \in Requests : pc[r] # "idle" /\ shot[r] = s /\ ~gone[r]

\* "The photo was stored but could not be announced": after publish_failed all
\* objects of the shot are there, and a replay has only to publish.
PublishFailedKeepsBytes ==
  \A s \in Shots : "publish_failed" \in answers[s] => RefsOf(s) \subseteq blobs

\* What each step of the handler may rely on.  A request past the lookup holds a
\* team that was the number's one holder after the call came in; past the fetch its
\* URL is one that may be fetched, past the decoding the bytes are a photograph;
\* what it has stored so far is a prefix of its shot's objects, all of it in the
\* store, and the whole of it once it publishes; what it is about to answer is
\* true; a caller that has left has a line in its retry log.
RequestOK(r) ==
  /\ pc[r] = "idle" => shot[r] = NoShot /\ ~gone[r]
  /\ pc[r] # "idle" => shot[r] \in sent
  /\ pc[r] \in {"fetch", "prepare", "store", "publish"}
       => <<team[r], Number[shot[r]]>> \in sole \cap held[r]
  /\ pc[r] \in {"prepare", "store", "publish"} => UrlClass[shot[r]] = "good"
  /\ pc[r] \in {"store", "publish"} => ImageClass[shot[r]] = "photo"
  /\ pc[r] \notin {"store", "publish", "respond"} => stored[r] = <<>>
  /\ pc[r] = "store" =>
       /\ Len(stored[r]) < Len(Parts[shot[r]])
       /\ \A i \in 1 .. Len(stored[r]) :
            stored[r][i] = Parts[shot[r]][i] /\ stored[r][i] \in blobs
  /\ pc[r] = "publish" =>
       stored[r] = Parts[shot[r]] /\ RefsOf(shot[r]) \subseteq blobs
  /\ pc[r] = "respond" <=> code[r] # NoCode
  /\ code[r] = Success => \E i \in DOMAIN log : log[i].shot = shot[r]
  /\ code[r] = "publish_failed" => RefsOf(shot[r]) \subseteq blobs
  /\ gone[r] => shot[r] \in failedLog

RequestInv == \A r \in Requests : RequestOK(r)

\* The pipeline implements the contract of PhotoContract: what is stored, announced
\* and acknowledged only ever grows in the order promised there.
Contract == INSTANCE PhotoContract WITH
  announced <- {[shot |-> log[i].shot, team |-> log[i].team] : i \in DOMAIN log},
  stored <- blobs,
  acknowledged <- {s \in Shots : Success \in answers[s]}
ContractSpec == Contract!Spec

\* "retryable distinguishes 'this will never work' from 'try again later'": a shot
\* refused as an unknown team, which is not retryable, is never recorded later.
UnknownTeamIsFinal ==
  [][\A s \in Shots :
       "unknown_team_number" \in answers[s] /\ Success \in answers'[s]
         => Success \in answers[s]]_vars
=============================================================================

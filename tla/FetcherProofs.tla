--------------------------- MODULE FetcherProofs ---------------------------
(***************************************************************************)
(* Proofs about Fetcher, for every set of addresses, allowlist, redirect   *)
(* limit and size limit.  Progress says what each step may rely on: an     *)
(* address a request is sent to was accepted by checkURL, and a hop is     *)
(* taken only while there are hops left.                                   *)
(***************************************************************************)
EXTENDS Fetcher, TLAPS

Progress ==
  /\ pc = "idle" => via = <<>>
  /\ pc \in {"idle", "parse"} => error = "none"
  /\ pc # "idle" => target \in Urls
  /\ pc \in {"parse", "send"} => Len(via) <= MaxRedirects
  /\ pc = "parse" => via = <<>>
  /\ pc \in {"send", "reply", "read"} =>
       target \in Parsed /\ checkURL(target) = "none" /\ error = "none"
  /\ pc \in {"reply", "read"} => via # <<>>
  /\ pc \notin {"read", "returned"} => body = 0
  /\ pc # "returned" => error = "none"

IInv == TypeOK /\ Progress /\ OnlyAllowedContacted /\ Bounded /\ WholeBody
        /\ RefusalIsNamed

\* What an address has that passes.
LEMMA Accepted ==
  ASSUME NEW u \in Urls
  PROVE  checkURL(u) = "none" <=> u \in Web /\ Host[u] \in AllowedHosts
BY ConstantsAssumption DEF checkURL, hostAllowed

\* Which refusal an address gets, and that it is a refusal.
LEMMA Refused ==
  ASSUME NEW u \in Urls
  PROVE  /\ checkURL(u) \in {"none", "scheme", "invalid_url", "host"}
         /\ checkURL(u) = "host"
              <=> u \in Web /\ Host[u] \notin AllowedHosts \cup {NoHost}
         /\ checkURL(u) = "scheme" => u \notin Web
         /\ checkURL(u) = "invalid_url" => Host[u] = NoHost
BY ConstantsAssumption DEF checkURL, hostAllowed

\* Each rejection stands for one kind of error.
LEMMA Rejections ==
  ASSUME NEW e \in Errors
  PROVE  /\ fetchRejection(e) = "host_not_allowed" <=> e = "host"
         /\ fetchRejection(e) = "bad_image_url" <=> e \in {"invalid_url", "scheme"}
BY DEF fetchRejection, Errors

LEMMA InitInv == Init => IInv
<1> SUFFICES ASSUME Init
             PROVE  IInv
  OBVIOUS
<1>1. TypeOK /\ Progress /\ OnlyAllowedContacted /\ Bounded
  BY ConstantsAssumption
     DEF Init, TypeOK, Progress, OnlyAllowedContacted, Bounded, Errors
<1>2. WholeBody /\ RefusalIsNamed
  BY DEF Init, WholeBody, RefusalIsNamed
<1> QED
  BY <1>1, <1>2 DEF IInv

\* A step that returns: the refusal has to be the target's, and what is returned
\* without one has to be whole.
LEMMA FailInv ==
  ASSUME IInv, NEW e \in Errors, Fail(e), pc \notin {"idle", "returned"},
         e = "host" => target \in Web /\ Host[target] \notin AllowedHosts,
         e \in {"invalid_url", "scheme"}
           => target \notin Web \/ target \notin Parsed \/ Host[target] = NoHost,
         target \in Web \cap Parsed /\ Host[target] \notin AllowedHosts \cup {NoHost}
           => e = "host",
         e = "none" => body = length /\ body <= MaxBytes /\ via # <<>>
  PROVE  IInv'
<1>1. TypeOK' /\ Progress' /\ OnlyAllowedContacted' /\ Bounded' /\ WholeBody'
  BY DEF IInv, Fail, TypeOK, Progress, OnlyAllowedContacted, Bounded, WholeBody
<1>2. RefusalIsNamed'
  BY Rejections DEF Fail, RefusalIsNamed
<1> QED
  BY <1>1, <1>2 DEF IInv

LEMMA NextInv == IInv /\ [Next]_vars => IInv'
<1> SUFFICES ASSUME IInv, [Next]_vars
             PROVE  IInv'
  OBVIOUS
<1>a. TypeOK /\ Progress /\ OnlyAllowedContacted /\ Bounded
  BY DEF IInv
<1>b. ASSUME pc' # "returned"
      PROVE  WholeBody' /\ RefusalIsNamed'
  BY <1>b DEF WholeBody, RefusalIsNamed
<1>c. length \in Nat /\ body \in Nat /\ MaxBytes \in Nat /\ MaxRedirects \in Nat
  BY <1>a, ConstantsAssumption DEF TypeOK
<1>d. ASSUME pc \in {"send", "reply", "read"}
      PROVE  target \in Web /\ Host[target] \in AllowedHosts
  BY <1>a, <1>d, Accepted DEF Progress
<1>1. ASSUME NEW u \in Urls, Call(u)
      PROVE  IInv'
  <2>1. TypeOK' /\ OnlyAllowedContacted' /\ Bounded'
    BY <1>a, <1>1 DEF Call, TypeOK, OnlyAllowedContacted, Bounded
  <2>2. Progress'
    BY <1>a, <1>1, <1>c DEF Call, Progress
  <2> QED
    BY <1>1, <1>b, <2>1, <2>2 DEF IInv, Call
<1>2. CASE Refuse
  <2>1. pc = "parse" /\ target \in Urls
    BY <1>a, <1>2 DEF Refuse, Progress
  <2>2. CASE target \notin Parsed /\ Fail("invalid_url")
    BY <2>1, <2>2, FailInv DEF Errors
  <2>3. CASE target \in Parsed /\ checkURL(target) # "none" /\ Fail(checkURL(target))
    <3>1. checkURL(target) \in Errors
      BY <2>1, Refused DEF Errors
    <3> QED
      BY <2>1, <2>3, <3>1, Refused, FailInv
  <2> QED
    BY <1>2, <2>2, <2>3 DEF Refuse
<1>3. CASE Accept
  <2>1. TypeOK' /\ OnlyAllowedContacted' /\ Bounded'
    BY <1>a, <1>3 DEF Accept, TypeOK, OnlyAllowedContacted, Bounded
  <2>2. Progress'
    BY <1>a, <1>3 DEF Accept, Progress, checkURL, hostAllowed
  <2> QED
    BY <1>3, <1>b, <2>1, <2>2 DEF IInv, Accept
<1>4. CASE Send
  <2>1. target \in Urls /\ via' = Append(via, target) /\ via \in Seq(Urls)
    BY <1>a, <1>4 DEF Send, TypeOK, Progress
  <2>2. /\ via' \in Seq(Urls)
        /\ Len(via') = Len(via) + 1
        /\ via' # <<>>
        /\ \A i \in DOMAIN via' : via'[i] = target \/ (i \in DOMAIN via /\ via'[i] = via[i])
    BY <2>1
  <2>3. TypeOK'
    BY <1>a, <1>4, <2>2 DEF Send, TypeOK
  <2>4. OnlyAllowedContacted'
    BY <1>a, <1>4, <1>d, <2>2 DEF Send, OnlyAllowedContacted
  <2>5. Bounded'
    BY <1>a, <1>c, <1>4, <2>1, <2>2 DEF Send, Bounded, Progress
  <2>6. Progress'
    BY <1>a, <1>4, <2>2 DEF Send, Progress, checkURL, hostAllowed
  <2> QED
    BY <1>4, <1>b, <2>3, <2>4, <2>5, <2>6 DEF IInv, Send
<1>5. ASSUME NEW u \in Parsed, Redirect(u)
      PROVE  IInv'
  <2>1. u \in Urls /\ Len(via) <= MaxRedirects /\ checkURL(u) = "none"
    <3>1. Len(via) \in Nat /\ u \in Urls
      BY <1>a, ConstantsAssumption DEF TypeOK
    <3>2. checkURL(u) \in {"none", "scheme", "invalid_url", "host"}
      BY <3>1, Refused
    <3> QED
      BY <1>5, <1>c, <3>1, <3>2 DEF Redirect, CheckRedirect
  <2>2. TypeOK' /\ OnlyAllowedContacted' /\ Bounded'
    BY <1>a, <1>5, <2>1 DEF Redirect, TypeOK, OnlyAllowedContacted, Bounded
  <2>3. Progress'
    BY <1>a, <1>5, <2>1 DEF Redirect, Progress, checkURL, hostAllowed
  <2> QED
    BY <1>5, <1>b, <2>2, <2>3 DEF IInv, Redirect
<1>6. ASSUME NEW u \in Parsed, RefuseRedirect(u)
      PROVE  IInv'
  <2> DEFINE e == CheckRedirect(u)
  <2>1. u \in Urls /\ e # "none" /\ error' = e /\ target' = u /\ pc' = "returned"
    BY <1>6, ConstantsAssumption DEF RefuseRedirect
  <2>2. e \in Errors
    BY <2>1, Refused DEF Errors, CheckRedirect
  <2>3. /\ e = "host" => u \in Web /\ Host[u] \notin AllowedHosts
        /\ e \in {"invalid_url", "scheme"} => u \notin Web \/ Host[u] = NoHost
        /\ u \in Web /\ Host[u] \notin AllowedHosts \cup {NoHost}
           /\ Len(via) <= MaxRedirects => e = "host"
    <3>1. Len(via) \in Nat
      BY <1>a DEF TypeOK
    <3> QED
      BY <1>c, <2>1, <3>1, Refused DEF CheckRedirect
  <2>4. TypeOK' /\ OnlyAllowedContacted' /\ Bounded' /\ Progress' /\ WholeBody'
    BY <1>a, <1>6, <2>1, <2>2
       DEF RefuseRedirect, TypeOK, OnlyAllowedContacted, Bounded, Progress, WholeBody
  <2>5. RefusalIsNamed'
    <3>1. UNCHANGED via
      BY <1>6 DEF RefuseRedirect
    <3> QED
      BY <2>1, <2>2, <2>3, <3>1, Rejections DEF RefusalIsNamed
  <2> QED
    BY <2>4, <2>5 DEF IInv
<1>7. CASE BadStatus
  BY <1>7, <1>d, FailInv DEF BadStatus, Errors
<1>8. ASSUME NEW n \in Lengths, Answered(n)
      PROVE  IInv'
  <2>1. n \in Nat /\ body = 0
    BY <1>a, <1>8, ConstantsAssumption DEF Answered, Progress
  <2>2. TypeOK' /\ OnlyAllowedContacted' /\ Bounded'
    BY <1>a, <1>8, <2>1 DEF Answered, TypeOK, OnlyAllowedContacted, Bounded
  <2>3. Progress'
    BY <1>a, <1>8 DEF Answered, Progress, checkURL, hostAllowed
  <2> QED
    BY <1>8, <1>b, <2>2, <2>3 DEF IInv, Answered
<1>9. CASE Read
  <2>1. body' \in 0 .. length /\ body' <= MaxBytes + 1
    BY <1>a, <1>c, <1>9 DEF Read, readLimit
  <2>2. TypeOK' /\ OnlyAllowedContacted' /\ Bounded'
    BY <1>a, <1>9, <2>1 DEF Read, TypeOK, OnlyAllowedContacted, Bounded
  <2>3. Progress'
    BY <1>a, <1>9 DEF Read, Progress, checkURL, hostAllowed
  <2> QED
    BY <1>9, <1>b, <2>2, <2>3 DEF IInv, Read
<1>10. CASE TooLarge
  BY <1>10, <1>d, FailInv DEF TooLarge, Errors
<1>11. CASE Finish
  <2>1. body = length
    BY <1>a, <1>c, <1>11 DEF Finish, readLimit
  <2>2. via # <<>>
    BY <1>a, <1>11 DEF Finish, Progress
  <2> QED
    BY <1>11, <1>d, <2>1, <2>2, FailInv DEF Finish, Errors
<1>12. CASE Interrupt
  BY <1>12, <1>d, FailInv DEF Interrupt, Errors
<1>13. CASE UNCHANGED vars
  BY <1>13
     DEF IInv, vars, TypeOK, Progress, OnlyAllowedContacted, Bounded, WholeBody,
         RefusalIsNamed
<1> QED
  BY <1>1, <1>2, <1>3, <1>4, <1>5, <1>6, <1>7, <1>8, <1>9, <1>10, <1>11, <1>12, <1>13
     DEF Next

LEMMA Invariant == Spec => []IInv
BY InitInv, NextInv, PTL DEF Spec

\* Every reachable state is well typed.
THEOREM TypeCorrect == Spec => []TypeOK
<1>1. IInv => TypeOK
  BY DEF IInv
<1> QED
  BY <1>1, Invariant, PTL

\* No request goes to a host outside the allowlist, at any hop.
THEOREM AllowlistHolds == Spec => []OnlyAllowedContacted
<1>1. IInv => OnlyAllowedContacted
  BY DEF IInv
<1> QED
  BY <1>1, Invariant, PTL

\* The number of requests and of bytes read is bounded, whatever servers do.
THEOREM FetchIsBounded == Spec => []Bounded
<1>1. IInv => Bounded
  BY DEF IInv
<1> QED
  BY <1>1, Invariant, PTL

\* A truncated photograph is never returned.
THEOREM BodiesAreWhole == Spec => []WholeBody
<1>1. IInv => WholeBody
  BY DEF IInv
<1> QED
  BY <1>1, Invariant, PTL

\* The rejection tells our allowlist, the address and everything else apart.
THEOREM RefusalsAreNamed == Spec => []RefusalIsNamed
<1>1. IInv => RefusalIsNamed
  BY DEF IInv
<1> QED
  BY <1>1, Invariant, PTL

-----------------------------------------------------------------------------
(***************************************************************************)
(* How long a fetch can be.  FetchReturns needs fairness and stays with    *)
(* the model checker; that no server can make a fetch longer than its two  *)
(* limits allow is a matter of safety.                                     *)
(***************************************************************************)

\* Requests that may still be sent, and bytes that may still be read.
HopsLeft == MaxRedirects + 1 - Len(via)
BytesLeft == readLimit - body

\* The most steps a fetch may still take.
StepsLeft ==
  CASE pc = "parse" -> 2 * HopsLeft + readLimit + 2
    [] pc = "send"  -> 2 * HopsLeft + readLimit + 1
    [] pc = "reply" -> 2 * HopsLeft + readLimit + 2
    [] pc = "read"  -> BytesLeft + 1
    [] OTHER        -> 0

\* Two steps for each request, one for each byte, and the call's own.
LEMMA StepsAreCounted ==
  ASSUME IInv
  PROVE  /\ StepsLeft \in Nat
         /\ pc = "parse" => StepsLeft = 2 * (MaxRedirects + 1) + MaxBytes + 3
<1>1. /\ MaxRedirects \in Nat /\ MaxBytes \in Nat
      /\ Len(via) \in Nat /\ Len(via) <= MaxRedirects + 1
      /\ body \in Nat /\ body <= MaxBytes + 1
  BY ConstantsAssumption DEF IInv, TypeOK, Bounded
<1>2. pc = "parse" => Len(via) = 0
  BY DEF IInv, Progress
<1>3. HopsLeft \in Nat /\ BytesLeft \in Nat /\ readLimit \in Nat
  BY <1>1 DEF HopsLeft, BytesLeft, readLimit
<1>4. StepsLeft \in Nat
  BY <1>3 DEF StepsLeft
<1>5. pc = "parse" => StepsLeft = 2 * HopsLeft + readLimit + 2
  BY DEF StepsLeft
<1> QED
  BY <1>1, <1>2, <1>4, <1>5 DEF HopsLeft, readLimit

\* Each step after the call leaves fewer: redirects, bytes and errors alike, so that
\* no chain of redirects and no endless body keeps a fetch going.
THEOREM FetchTakesFewSteps ==
  Spec => /\ [](StepsLeft \in 0 .. 2 * (MaxRedirects + 1) + MaxBytes + 3)
          /\ [][pc # "idle" => StepsLeft' < StepsLeft]_vars
<1>1. IInv => StepsLeft \in 0 .. 2 * (MaxRedirects + 1) + MaxBytes + 3
  <2> SUFFICES ASSUME IInv
               PROVE  StepsLeft <= 2 * (MaxRedirects + 1) + MaxBytes + 3
    BY StepsAreCounted, ConstantsAssumption
  <2>1. /\ MaxRedirects \in Nat /\ MaxBytes \in Nat
        /\ Len(via) \in Nat /\ body \in Nat
    BY ConstantsAssumption DEF IInv, TypeOK
  <2> QED
    BY <2>1 DEF StepsLeft, HopsLeft, BytesLeft, readLimit
<1>2. IInv /\ IInv' /\ [Next]_vars => [pc # "idle" => StepsLeft' < StepsLeft]_vars
  <2> SUFFICES ASSUME IInv, IInv', Next, pc # "idle"
               PROVE  StepsLeft' < StepsLeft
    OBVIOUS
  <2>1. /\ MaxRedirects \in Nat /\ MaxBytes \in Nat
        /\ Len(via) \in Nat /\ Len(via) <= MaxRedirects + 1
        /\ body \in Nat /\ body <= MaxBytes + 1 /\ body' \in Nat
    BY ConstantsAssumption DEF IInv, TypeOK, Bounded
  <2>2. ASSUME pc' = "returned", pc # "returned"
        PROVE  StepsLeft' < StepsLeft
    <3>1. pc \in {"parse", "send", "reply", "read"}
      BY <2>2 DEF IInv, TypeOK
    <3>2. StepsLeft' = 0
      BY <2>2 DEF StepsLeft
    <3>3. StepsLeft > 0
      BY <2>1, <3>1 DEF StepsLeft, HopsLeft, BytesLeft, readLimit
    <3> QED
      BY <3>2, <3>3
  <2>3. CASE Refuse \/ BadStatus \/ TooLarge \/ Finish \/ Interrupt
    BY <2>2, <2>3 DEF Refuse, BadStatus, TooLarge, Finish, Interrupt, Fail
  <2>4. CASE \E u \in Parsed : RefuseRedirect(u)
    BY <2>2, <2>4 DEF RefuseRedirect
  <2>5. CASE Accept
    BY <2>1, <2>5 DEF Accept, StepsLeft, HopsLeft, readLimit
  <2>6. CASE Send
    <3>1. Len(via') = Len(via) + 1
      BY <2>6 DEF Send, IInv, TypeOK, Progress
    <3> QED
      BY <2>1, <2>6, <3>1 DEF Send, StepsLeft, HopsLeft, readLimit
  <2>7. CASE \E u \in Parsed : Redirect(u)
    BY <2>1, <2>7 DEF Redirect, StepsLeft, HopsLeft, readLimit
  <2>8. CASE \E n \in Lengths : Answered(n)
    BY <2>1, <2>8 DEF Answered, StepsLeft, HopsLeft, BytesLeft, readLimit
  <2>9. CASE Read
    BY <2>1, <2>9 DEF Read, StepsLeft, BytesLeft, readLimit
  <2>10. CASE \E u \in Urls : Call(u)
    BY <2>10 DEF Call
  <2> QED
    BY <2>3, <2>4, <2>5, <2>6, <2>7, <2>8, <2>9, <2>10 DEF Next
<1> QED
  BY <1>1, <1>2, Invariant, PTL DEF Spec
=============================================================================

------------------------------ MODULE Fetcher ------------------------------
(***************************************************************************)
(* One Fetch of a photograph's bytes (internal/fetcher/fetcher.go) and the *)
(* rejection its error is turned into (fetchRejection in                   *)
(* cmd/api/callback.go).  Every request goes to a server that answers as   *)
(* it pleases: a redirect to any address, an error, a body of any length   *)
(* that comes in pieces or stops coming.  The timeout, or the caller that  *)
(* leaves, may end it at any of these points.                              *)
(***************************************************************************)
EXTENDS Naturals, Sequences

CONSTANTS
  Urls,          \* addresses
  NoUrl,         \* before the call
  Parsed,        \* those url.Parse accepts
  Web,           \* those with scheme http or https
  Hosts,         \* host names, normalised
  NoHost,        \* an address without one
  Host,          \* Host[u]: the host of u
  AllowedHosts,  \* PHOTO_HOSTS
  MaxRedirects,  \* the Fetcher's MaxRedirects
  MaxBytes,      \* the Fetcher's maxBytes
  Lengths        \* the lengths a body may have

ASSUME ConstantsAssumption ==
  /\ NoUrl \notin Urls
  /\ NoHost \notin Hosts
  /\ Parsed \subseteq Urls
  /\ Web \subseteq Urls
  /\ Host \in [Urls -> Hosts \cup {NoHost}]
  /\ AllowedHosts \subseteq Hosts
  /\ MaxRedirects \in Nat
  /\ MaxBytes \in Nat \ {0}
  /\ Lengths \subseteq Nat

VARIABLES
  pc,      \* "idle", "parse", "send", "reply", "read" or "returned"
  url,     \* the address Fetch was called with
  target,  \* the address to send to next, or sent to last
  via,     \* the addresses requests were sent to
  length,  \* the length of the body the last server is sending
  body,    \* how much of it has been read
  error    \* the error returned, "none" without one

vars == <<pc, url, target, via, length, body, error>>

Errors == {"none", "invalid_url", "scheme", "host", "redirects", "not_found",
           "status", "network", "too_large"}

Init ==
  /\ pc = "idle"
  /\ url = NoUrl
  /\ target = NoUrl
  /\ via = <<>>
  /\ length = 0
  /\ body = 0
  /\ error = "none"

hostAllowed(u) == Host[u] \in AllowedHosts

\* What checkURL makes of a parsed address: the first check that fails.
checkURL(u) ==
  CASE u \notin Web -> "scheme"
    [] u \in Web /\ Host[u] = NoHost -> "invalid_url"
    [] u \in Web /\ Host[u] # NoHost /\ ~hostAllowed(u) -> "host"
    [] OTHER -> "none"

Fail(e) ==
  /\ pc' = "returned"
  /\ error' = e
  /\ UNCHANGED <<url, target, via, length, body>>

Call(u) ==
  /\ pc = "idle"
  /\ pc' = "parse"
  /\ url' = u
  /\ target' = u
  /\ UNCHANGED <<via, length, body, error>>

Refuse ==
  /\ pc = "parse"
  /\ \/ target \notin Parsed /\ Fail("invalid_url")
     \/ target \in Parsed /\ checkURL(target) # "none" /\ Fail(checkURL(target))

Accept ==
  /\ pc = "parse"
  /\ target \in Parsed
  /\ checkURL(target) = "none"
  /\ pc' = "send"
  /\ UNCHANGED <<url, target, via, length, body, error>>

Send ==
  /\ pc = "send"
  /\ via' = Append(via, target)
  /\ pc' = "reply"
  /\ UNCHANGED <<url, target, length, body, error>>

\* Mutant of CheckRedirect: the address was checked when Fetch was called.
CheckRedirectCount(u) ==
  IF Len(via) > MaxRedirects THEN "redirects" ELSE "none"

\* Mutant of CheckRedirect: one hop more.
CheckRedirectLate(u) ==
  IF Len(via) > MaxRedirects + 1 THEN "redirects" ELSE checkURL(u)

CheckRedirect(u) == IF Len(via) > MaxRedirects THEN "redirects" ELSE checkURL(u)

Redirect(u) ==
  /\ pc = "reply"
  /\ CheckRedirect(u) = "none"
  /\ pc' = "send"
  /\ target' = u
  /\ UNCHANGED <<url, via, length, body, error>>

RefuseRedirect(u) ==
  /\ pc = "reply"
  /\ CheckRedirect(u) # "none"
  /\ pc' = "returned"
  /\ error' = CheckRedirect(u)
  /\ target' = u
  /\ UNCHANGED <<url, via, length, body>>

\* A status outside 200..299; its body is not read.
BadStatus ==
  /\ pc = "reply"
  /\ \E e \in {"not_found", "status"} : Fail(e)

Answered(n) ==
  /\ pc = "reply"
  /\ pc' = "read"
  /\ length' = n
  /\ UNCHANGED <<url, target, via, body, error>>

\* Mutant of readLimit: LimitReader without the byte more.
ReadLimitExact == MaxBytes

\* LimitReader(maxBytes+1).
readLimit == MaxBytes + 1

\* Mutant of Read: it does not stop at the end of the body.
ReadPastEnd ==
  /\ pc = "read"
  /\ body < readLimit
  /\ body' = body + 1
  /\ UNCHANGED <<pc, url, target, via, length, error>>

Read ==
  /\ pc = "read"
  /\ body < readLimit
  /\ body < length
  /\ body' = body + 1
  /\ UNCHANGED <<pc, url, target, via, length, error>>

TooLarge ==
  /\ pc = "read"
  /\ body = readLimit \/ body = length
  /\ body > MaxBytes
  /\ Fail("too_large")

Finish ==
  /\ pc = "read"
  /\ body = readLimit \/ body = length
  /\ body <= MaxBytes
  /\ Fail("none")

\* Mutant of Interrupt: the context bounds the request, not the read.
InterruptRequest ==
  /\ pc \in {"send", "reply"}
  /\ Fail("network")

\* The timeout, the caller's context, or the connection.
Interrupt ==
  /\ pc \in {"send", "reply", "read"}
  /\ Fail("network")

Next ==
  \/ \E u \in Urls : Call(u)
  \/ Refuse \/ Accept \/ Send
  \/ \E u \in Parsed : Redirect(u) \/ RefuseRedirect(u)
  \/ BadStatus
  \/ \E n \in Lengths : Answered(n)
  \/ Read \/ TooLarge \/ Finish
  \/ Interrupt

Spec == Init /\ [][Next]_vars

\* Fetch's own steps; the timeout runs out if a server keeps it waiting, but
\* nothing is assumed of the server.
FairSpec ==
  Spec /\ WF_vars(Refuse \/ Accept \/ TooLarge \/ Finish) /\ WF_vars(Interrupt)

-----------------------------------------------------------------------------
(***************************************************************************)
(* What the handler makes of the error.                                    *)
(***************************************************************************)

\* Mutant of fetchRejection: every refused address is a bad address.
FetchRejectionMerged(e) ==
  CASE e \in {"host", "invalid_url", "scheme"} -> "bad_image_url"
    [] e = "too_large" -> "too_large"
    [] e = "not_found" -> "upstream_not_found"
    [] OTHER -> "fetch_failed"

fetchRejection(e) ==
  CASE e = "host" -> "host_not_allowed"
    [] e \in {"invalid_url", "scheme"} -> "bad_image_url"
    [] e = "too_large" -> "too_large"
    [] e = "not_found" -> "upstream_not_found"
    [] OTHER -> "fetch_failed"

-----------------------------------------------------------------------------
(***************************************************************************)
(* Properties.                                                             *)
(***************************************************************************)

\* Every variable has its type: addresses, lengths, the error.
TypeOK ==
  /\ pc \in {"idle", "parse", "send", "reply", "read", "returned"}
  /\ url \in Urls \cup {NoUrl}
  /\ target \in Urls \cup {NoUrl}
  /\ via \in Seq(Urls)
  /\ length \in Lengths \cup {0}
  /\ body \in 0 .. length
  /\ error \in Errors

\* "Every hop in a redirect chain goes through this, not just the first": no
\* request is ever sent to a host that is not on the allowlist, wherever a server
\* redirects to.
OnlyAllowedContacted ==
  \A i \in DOMAIN via : via[i] \in Web /\ Host[via[i]] \in AllowedHosts

\* One request and MaxRedirects hops, and no more, of which at most MaxBytes and
\* one byte are read.
Bounded == Len(via) <= MaxRedirects + 1 /\ body <= MaxBytes + 1

\* A photograph that is returned is the whole of what the server sent, and within
\* the limit; it came from a server that was asked.
WholeBody ==
  pc = "returned" /\ error = "none" =>
    body = length /\ body <= MaxBytes /\ via # <<>>

\* The caller is told which refusal it was, at whatever hop: our allowlist for a
\* host that is not on it, the address for one that could not be used, and
\* neither for what a server or the network did.
RefusalIsNamed ==
  pc = "returned" =>
    /\ fetchRejection(error) = "host_not_allowed"
         => target \in Web /\ Host[target] \notin AllowedHosts
    /\ fetchRejection(error) = "bad_image_url"
         => target \notin Web \/ target \notin Parsed \/ Host[target] = NoHost
    /\ target \in Web \cap Parsed /\ Host[target] \notin AllowedHosts \cup {NoHost}
       /\ Len(via) <= MaxRedirects
         => fetchRejection(error) = "host_not_allowed"

\* Fetch returns, whatever the server does: the context bounds the body as well.
FetchReturns == pc = "parse" ~> pc = "returned"
=============================================================================

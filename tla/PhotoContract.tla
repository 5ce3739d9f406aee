--------------------------- MODULE PhotoContract ---------------------------
(***************************************************************************)
(* What foto promises the camera app and the consumers of its events, with *)
(* no pipeline, requests or failures: objects are stored, a photograph is  *)
(* announced only when everything its event names can be fetched, and it   *)
(* is acknowledged only when it has been announced.  The order is the one  *)
(* argued for above ingest in cmd/api/callback.go ("Bytes before event,    *)
(* always") and in cmd/api/ingest.go ("The original first").               *)
(***************************************************************************)
EXTENDS Naturals, Sequences

CONSTANTS
  Shots,        \* the photographs the camera app knows of
  Teams,        \* the patruljer they can be of
  Parts         \* Parts[s]: the refs of s: original, display image, thumbnails

VARIABLES
  stored,       \* the refs in the object store
  announced,    \* the announcements on the log
  acknowledged  \* the shots the camera app was told are recorded

vars == <<stored, announced, acknowledged>>

Refs(s) == {Parts[s][i] : i \in DOMAIN Parts[s]}

Announcement == [shot : Shots, team : Teams]

Init ==
  /\ stored = {}
  /\ announced = {}
  /\ acknowledged = {}

\* A rendition enters the store only beside the original it was made from.
Store(s, i) ==
  /\ i = 1 \/ Parts[s][1] \in stored
  /\ stored' = stored \cup {Parts[s][i]}
  /\ UNCHANGED <<announced, acknowledged>>

Announce(a) ==
  /\ Refs(a.shot) \subseteq stored
  /\ announced' = announced \cup {a}
  /\ UNCHANGED <<stored, acknowledged>>

Acknowledge(s) ==
  /\ \E a \in announced : a.shot = s
  /\ acknowledged' = acknowledged \cup {s}
  /\ UNCHANGED <<stored, announced>>

Next ==
  \/ \E s \in Shots : \E i \in DOMAIN Parts[s] : Store(s, i)
  \/ \E a \in Announcement : Announce(a)
  \/ \E s \in Shots : Acknowledge(s)

Spec == Init /\ [][Next]_vars
=============================================================================

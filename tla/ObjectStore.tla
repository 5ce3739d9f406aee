---------------------------- MODULE ObjectStore ----------------------------
(***************************************************************************)
(* What blob.Store promises its callers: each call takes effect at one     *)
(* moment between its start and its return, on a set of objects.  It is    *)
(* the interface of internal/blob/blob.go, and it is what MemoryStore      *)
(* (internal/blob/memory.go) does under its lock.                          *)
(***************************************************************************)

CONSTANTS
  Workers,   \* goroutines that call the store
  Objects,   \* contents, each with its ref
  NoObject   \* a goroutine that is in no call

VARIABLES
  present,   \* the objects in the store
  op,        \* op[w]: the call w is in
  object,    \* object[w]: the object it is about
  answer     \* answer[w]: what it will return, once it has taken effect

vars == <<present, op, object, answer>>

Ops == {"put", "get", "exists", "delete"}

Init ==
  /\ present = {}
  /\ op = [w \in Workers |-> "idle"]
  /\ object = [w \in Workers |-> NoObject]
  /\ answer = [w \in Workers |-> "none"]

Begin(w, kind, o) ==
  /\ op[w] = "idle"
  /\ op' = [op EXCEPT ![w] = kind]
  /\ object' = [object EXCEPT ![w] = o]
  /\ UNCHANGED <<present, answer>>

Answer(w, a) ==
  /\ answer[w] = "none"
  /\ answer' = [answer EXCEPT ![w] = a]
  /\ UNCHANGED <<op, object>>

Put(w) ==
  /\ op[w] = "put"
  /\ Answer(w, "done")
  /\ present' = present \cup {object[w]}

Look(w) ==
  /\ op[w] \in {"get", "exists"}
  /\ Answer(w, IF object[w] \in present THEN "found" ELSE "missing")
  /\ UNCHANGED present

Delete(w) ==
  /\ op[w] = "delete"
  /\ Answer(w, "done")
  /\ present' = present \ {object[w]}

\* An error, and no effect.
Fail(w) ==
  /\ op[w] # "idle"
  /\ Answer(w, "failed")
  /\ UNCHANGED present

Return(w) ==
  /\ answer[w] # "none"
  /\ op' = [op EXCEPT ![w] = "idle"]
  /\ object' = [object EXCEPT ![w] = NoObject]
  /\ answer' = [answer EXCEPT ![w] = "none"]
  /\ UNCHANGED present

\* The process stops and starts again; the objects are still there.
Crash ==
  /\ op' = [w \in Workers |-> "idle"]
  /\ object' = [w \in Workers |-> NoObject]
  /\ answer' = [w \in Workers |-> "none"]
  /\ UNCHANGED present

Next ==
  \/ \E w \in Workers, kind \in Ops, o \in Objects : Begin(w, kind, o)
  \/ \E w \in Workers :
       Put(w) \/ Look(w) \/ Delete(w) \/ Fail(w) \/ Return(w)
  \/ Crash

Spec == Init /\ [][Next]_vars
=============================================================================

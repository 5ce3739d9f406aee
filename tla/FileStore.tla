----------------------------- MODULE FileStore -----------------------------
(***************************************************************************)
(* The file store (internal/blob/file.go), one file system call at a time: *)
(* the calls of several goroutines interleave between any two of them, any *)
(* of them may fail, and the process may stop in the middle.               *)
(*                                                                         *)
(* A name under the root holds nothing, part of its object, or all of it.  *)
(* os.CreateTemp draws a random name and insists that it is new: each Put  *)
(* has a temp file of its own.  The bucket directories are left out; they  *)
(* are created on demand and never removed.                                *)
(***************************************************************************)
EXTENDS Naturals

CONSTANTS
  Workers,     \* goroutines that call the store
  Objects,     \* contents, each with its ref
  NoObject,    \* a goroutine that is in no call
  MaxCalls,    \* bound: calls of the store
  MaxCrashes   \* bound: stops of the process

ASSUME ConstantsAssumption ==
  /\ NoObject \notin Objects
  /\ MaxCalls \in Nat
  /\ MaxCrashes \in Nat

VARIABLES
  op,       \* op[w]: the call w is in
  object,   \* object[w]: the object it is about
  answer,   \* answer[w]: what it will return, once that is settled
  step,     \* step[w]: the file system call w is about to make
  temp,     \* temp[w]: what is in the temp file of w
  file,     \* file[o]: what is under the name of o's ref
  litter,   \* objects with a temp file nobody will remove
  calls,    \* calls so far
  crashes   \* stops so far

call == <<op, object, answer>>
vars == <<call, step, temp, file, litter, calls, crashes>>

Ops == {"put", "get", "exists", "delete"}
Steps == {"idle", "start", "create", "write", "close", "rename",
          "remove", "return"}
Contents == {"none", "partial", "whole"}
TempContents == {"none", "empty", "partial", "whole"}
Answers == {"none", "done", "found", "missing", "failed"}

Init ==
  /\ op = [w \in Workers |-> "idle"]
  /\ object = [w \in Workers |-> NoObject]
  /\ answer = [w \in Workers |-> "none"]
  /\ step = [w \in Workers |-> "idle"]
  /\ temp = [w \in Workers |-> "none"]
  /\ file = [o \in Objects |-> "none"]
  /\ litter = {}
  /\ calls = 0
  /\ crashes = 0

Begin(w, kind, o) ==
  /\ op[w] = "idle"
  /\ calls < MaxCalls
  /\ calls' = calls + 1
  /\ op' = [op EXCEPT ![w] = kind]
  /\ object' = [object EXCEPT ![w] = o]
  /\ step' = [step EXCEPT ![w] = "start"]
  /\ UNCHANGED <<answer, temp, file, litter, crashes>>

Goto(w, next) ==
  /\ step' = [step EXCEPT ![w] = next]
  /\ UNCHANGED <<call, litter, calls, crashes>>

Settle(w, a) ==
  /\ answer' = [answer EXCEPT ![w] = a]
  /\ step' = [step EXCEPT ![w] = "return"]
  /\ UNCHANGED <<op, object, calls, crashes>>

\* The context is done, the ref is invalid, or the first file system call fails.
FailEarly(w) ==
  /\ step[w] \in {"start", "create"}
  /\ Settle(w, "failed")
  /\ UNCHANGED <<temp, file, litter>>

-----------------------------------------------------------------------------
(***************************************************************************)
(* Put.                                                                    *)
(***************************************************************************)

\* Mutant of PutExisting: the stat is skipped, and the object taken for stored.
PutUnchecked(w) ==
  /\ op[w] = "put"
  /\ step[w] = "start"
  /\ Settle(w, "done")
  /\ UNCHANGED <<temp, file, litter>>

\* The name is taken: by contents with the same hash.
PutExisting(w) ==
  /\ op[w] = "put"
  /\ step[w] = "start"
  /\ file[object[w]] # "none"
  /\ Settle(w, "done")
  /\ UNCHANGED <<temp, file, litter>>

PutNew(w) ==
  /\ op[w] = "put"
  /\ step[w] = "start"
  /\ file[object[w]] = "none"
  /\ Goto(w, "create")
  /\ UNCHANGED <<temp, file>>

CreateTemp(w) ==
  /\ step[w] = "create"
  /\ temp' = [temp EXCEPT ![w] = "empty"]
  /\ Goto(w, "write")
  /\ UNCHANGED file

\* Mutant of WriteTemp: the error of the write is dropped.
WriteTempUnchecked(w) ==
  /\ step[w] = "write"
  /\ \E content \in TempContents \ {"none"} :
       temp' = [temp EXCEPT ![w] = content]
  /\ Goto(w, "close")
  /\ UNCHANGED file

\* A part of the data may be in the file when the write fails.
WriteTemp(w) ==
  /\ step[w] = "write"
  /\ \/ /\ temp' = [temp EXCEPT ![w] = "whole"]
        /\ Goto(w, "close")
     \/ /\ temp' \in {temp, [temp EXCEPT ![w] = "partial"]}
        /\ Goto(w, "remove")
  /\ UNCHANGED file

\* Chmod and Close.
CloseTemp(w) ==
  /\ step[w] = "close"
  /\ \E next \in {"rename", "remove"} : Goto(w, next)
  /\ UNCHANGED <<temp, file>>

\* The deferred Remove finds nothing after it.
Rename(w) ==
  /\ step[w] = "rename"
  /\ file' = [file EXCEPT ![object[w]] = temp[w]]
  /\ temp' = [temp EXCEPT ![w] = "none"]
  /\ Settle(w, "done")
  /\ UNCHANGED litter

RenameFails(w) ==
  /\ step[w] = "rename"
  /\ Goto(w, "remove")
  /\ UNCHANGED <<temp, file>>

\* Mutant of RemoveTemp: there is no deferred Remove.
RemoveTempNever(w) ==
  /\ step[w] = "remove"
  /\ Settle(w, "failed")
  /\ UNCHANGED <<temp, file, litter>>

\* The deferred Remove on the way out with an error; its own error is ignored.
RemoveTemp(w) ==
  /\ step[w] = "remove"
  /\ temp' = [temp EXCEPT ![w] = "none"]
  /\ litter' \in {litter, litter \cup {object[w]}}
  /\ Settle(w, "failed")
  /\ UNCHANGED file

-----------------------------------------------------------------------------
(***************************************************************************)
(* Get, Exists and Delete.                                                 *)
(***************************************************************************)

\* An opened file stays readable, whatever becomes of its name.
Look(w) ==
  /\ op[w] \in {"get", "exists"}
  /\ step[w] = "start"
  /\ Settle(w, IF file[object[w]] = "none" THEN "missing" ELSE "found")
  /\ UNCHANGED <<temp, file, litter>>

Delete(w) ==
  /\ op[w] = "delete"
  /\ step[w] = "start"
  /\ file' = [file EXCEPT ![object[w]] = "none"]
  /\ Settle(w, "done")
  /\ UNCHANGED <<temp, litter>>

-----------------------------------------------------------------------------
Return(w) ==
  /\ step[w] = "return"
  /\ op' = [op EXCEPT ![w] = "idle"]
  /\ object' = [object EXCEPT ![w] = NoObject]
  /\ answer' = [answer EXCEPT ![w] = "none"]
  /\ step' = [step EXCEPT ![w] = "idle"]
  /\ UNCHANGED <<temp, file, litter, calls, crashes>>

Work(w) ==
  \/ FailEarly(w)
  \/ PutExisting(w) \/ PutNew(w) \/ CreateTemp(w) \/ WriteTemp(w)
  \/ CloseTemp(w) \/ Rename(w) \/ RenameFails(w) \/ RemoveTemp(w)
  \/ Look(w) \/ Delete(w)
  \/ Return(w)

\* The process stops: no deferred call runs, and the files stay as they are.
Crash ==
  /\ crashes < MaxCrashes
  /\ crashes' = crashes + 1
  /\ op' = [w \in Workers |-> "idle"]
  /\ object' = [w \in Workers |-> NoObject]
  /\ answer' = [w \in Workers |-> "none"]
  /\ step' = [w \in Workers |-> "idle"]
  /\ temp' = [w \in Workers |-> "none"]
  /\ litter' = litter \cup {object[w] : w \in {v \in Workers : temp[v] # "none"}}
  /\ UNCHANGED <<file, calls>>

Next ==
  \/ \E w \in Workers, kind \in Ops, o \in Objects : Begin(w, kind, o)
  \/ \E w \in Workers : Work(w)
  \/ Crash

Spec == Init /\ [][Next]_vars

-----------------------------------------------------------------------------
(***************************************************************************)
(* Properties.                                                             *)
(***************************************************************************)

\* Every variable has its type: calls, steps, contents of files.
TypeOK ==
  /\ op \in [Workers -> Ops \cup {"idle"}]
  /\ object \in [Workers -> Objects \cup {NoObject}]
  /\ answer \in [Workers -> Answers]
  /\ step \in [Workers -> Steps]
  /\ temp \in [Workers -> TempContents]
  /\ file \in [Objects -> Contents]
  /\ litter \subseteq Objects
  /\ calls \in Nat
  /\ crashes \in Nat

\* "A reader can never observe a partially written object": whatever failed, was
\* interrupted or ran at the same time, a name holds all of its object or nothing.
NoPartialObject == \A o \in Objects : file[o] # "partial"

\* A goroutine has a temp file only between creating it and leaving Put, whichever
\* way it leaves.
TempIsInFlight ==
  \A w \in Workers :
    temp[w] # "none" => step[w] \in {"write", "close", "rename", "remove"}

\* Every call takes effect at one moment, on the set of objects whose name is
\* there: the store is the ObjectStore its callers are promised.
Store == INSTANCE ObjectStore WITH present <- {o \in Objects : file[o] # "none"}
StoreSpec == Store!Spec
=============================================================================

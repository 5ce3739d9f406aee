-------------------------- MODULE FileStoreProofs --------------------------
(***************************************************************************)
(* Proofs about FileStore, for any number of goroutines, objects and       *)
(* stops.  CallOK ties the step of a goroutine to its call, its answer and *)
(* its temp file; what the properties need of it is that a temp file is    *)
(* whole from the moment the write has succeeded.  CallsInv is true on any *)
(* disk, that of PowerLoss included; no name holds a part of its object as *)
(* long as the power stays.                                                *)
(***************************************************************************)
EXTENDS PowerLoss, TLAPS

CallOK(w) ==
  /\ step[w] = "idle" <=> op[w] = "idle"
  /\ step[w] = "return" <=> answer[w] # "none"
  /\ op[w] # "idle" => object[w] \in Objects
  /\ step[w] \in {"create", "write", "close", "rename", "remove"}
       => op[w] = "put"
  /\ step[w] \in {"close", "rename"} => temp[w] = "whole"

CallsInv ==
  /\ TypeOK
  /\ TempIsInFlight
  /\ \A w \in Workers : CallOK(w)

IInv == CallsInv /\ NoPartialObject

LEMMA InitInv == Init => IInv
BY DEF Init, IInv, CallsInv, TypeOK, NoPartialObject, TempIsInFlight, CallOK, Ops,
       Answers, Steps, TempContents, Contents

LEMMA BeginInv ==
  ASSUME CallsInv, NEW w \in Workers, NEW kind \in Ops, NEW o \in Objects,
         Begin(w, kind, o)
  PROVE  CallsInv'
BY DEF CallsInv, TypeOK, TempIsInFlight, CallOK, Begin, Ops, Answers,
       Steps, TempContents, Contents

\* A step to another file system call, with what it does to the temp file.
LEMMA GotoInv ==
  ASSUME CallsInv, NEW w \in Workers, NEW next \in {"create", "write", "close", "rename", "remove"},
         op[w] = "put", answer[w] = "none", Goto(w, next), UNCHANGED file,
         NEW content \in TempContents, temp' = [temp EXCEPT ![w] = content],
         next \in {"close", "rename"} => content = "whole",
         next = "create" => content = "none"
  PROVE  CallsInv'
BY DEF CallsInv, TypeOK, TempIsInFlight, CallOK, Goto, call, Ops, Answers,
       Steps, TempContents, Contents

\* A step that settles the call and leaves no temp file.
LEMMA SettleInv ==
  ASSUME CallsInv, NEW w \in Workers, NEW a \in Answers \ {"none"}, op[w] # "idle",
         Settle(w, a), temp' = [temp EXCEPT ![w] = "none"],
         NEW content \in Contents, NEW o \in Objects,
         file' = [file EXCEPT ![o] = content], litter' \subseteq Objects
  PROVE  CallsInv'
BY DEF CallsInv, TypeOK, TempIsInFlight, CallOK, Settle, Ops, Answers,
       Steps, TempContents, Contents

LEMMA ReturnInv ==
  ASSUME CallsInv, NEW w \in Workers, Return(w)
  PROVE  CallsInv'
BY DEF CallsInv, TypeOK, TempIsInFlight, CallOK, Return, Ops, Answers,
       Steps, TempContents, Contents

\* What a goroutine's step says of its state.
LEMMA InCall ==
  ASSUME CallsInv, NEW w \in Workers, step[w] \notin {"idle", "return"}
  PROVE  /\ op[w] # "idle"
         /\ object[w] \in Objects
         /\ answer[w] = "none"
         /\ file[object[w]] \in Contents
         /\ temp = [temp EXCEPT ![w] = temp[w]]
         /\ file = [file EXCEPT ![object[w]] = file[object[w]]]
         /\ temp[w] \in TempContents
         /\ litter \subseteq Objects
         /\ step[w] \in {"start", "create"} => temp[w] = "none"
BY DEF CallsInv, TypeOK, TempIsInFlight, CallOK, Contents

LEMMA WorkInv ==
  ASSUME CallsInv, NEW w \in Workers, Work(w)
  PROVE  CallsInv'
<1>1. CASE FailEarly(w)
  BY <1>1, InCall, SettleInv DEF FailEarly, Answers, Contents
<1>2. CASE PutExisting(w)
  BY <1>2, InCall, SettleInv DEF PutExisting, Answers, Contents
<1>3. CASE PutNew(w)
  BY <1>3, InCall, GotoInv DEF PutNew, TempContents
<1>4. CASE CreateTemp(w)
  <2>1. op[w] = "put"
    BY <1>4 DEF CallsInv, CallOK, CreateTemp
  <2> QED
    BY <1>4, <2>1, InCall, GotoInv DEF CreateTemp, TempContents
<1>5. CASE WriteTemp(w)
  <2>1. op[w] = "put" /\ step[w] = "write"
    BY <1>5 DEF CallsInv, CallOK, WriteTemp
  <2>2. CASE temp' = [temp EXCEPT ![w] = "whole"] /\ Goto(w, "close")
    BY <1>5, <2>1, <2>2, InCall, GotoInv DEF WriteTemp, TempContents
  <2>3. CASE temp' = [temp EXCEPT ![w] = "partial"] /\ Goto(w, "remove")
    BY <1>5, <2>1, <2>3, InCall, GotoInv DEF WriteTemp, TempContents
  <2>4. CASE temp' = temp /\ Goto(w, "remove")
    BY <1>5, <2>1, <2>4, InCall, GotoInv DEF WriteTemp
  <2> QED
    BY <1>5, <2>2, <2>3, <2>4 DEF WriteTemp
<1>6. CASE CloseTemp(w)
  <2>1. op[w] = "put" /\ step[w] = "close" /\ temp[w] = "whole"
    BY <1>6 DEF CallsInv, CallOK, CloseTemp
  <2>2. PICK next \in {"rename", "remove"} : Goto(w, next)
    BY <1>6 DEF CloseTemp
  <2> QED
    BY <1>6, <2>1, <2>2, InCall, GotoInv DEF CloseTemp
<1>7. CASE Rename(w)
  <2>1. temp[w] = "whole" /\ step[w] = "rename"
    BY <1>7 DEF CallsInv, CallOK, Rename
  <2> QED
    BY <1>7, <2>1, InCall, SettleInv DEF Rename, Answers, Contents
<1>8. CASE RenameFails(w)
  <2>1. op[w] = "put" /\ step[w] = "rename"
    BY <1>8 DEF CallsInv, CallOK, RenameFails
  <2> QED
    BY <1>8, <2>1, InCall, GotoInv DEF RenameFails
<1>9. CASE RemoveTemp(w)
  <2>1. step[w] = "remove" /\ litter' \subseteq Objects
    BY <1>9, InCall DEF RemoveTemp
  <2>2. "failed" \in Answers \ {"none"} /\ file[object[w]] \in Contents
    BY <2>1, InCall DEF Answers, Contents
  <2>3. Settle(w, "failed") /\ temp' = [temp EXCEPT ![w] = "none"] /\ file' = file
    BY <1>9 DEF RemoveTemp
  <2> QED
    BY <2>1, <2>2, <2>3, InCall, SettleInv
<1>10. CASE Look(w)
  BY <1>10, InCall, SettleInv DEF Look, Answers, Contents
<1>11. CASE Delete(w)
  BY <1>11, InCall, SettleInv DEF Delete, Answers, Contents
<1>12. CASE Return(w)
  BY <1>12, ReturnInv
<1> QED
  BY <1>1, <1>2, <1>3, <1>4, <1>5, <1>6, <1>7, <1>8, <1>9, <1>10, <1>11, <1>12
     DEF Work

LEMMA CrashInv ==
  ASSUME CallsInv, Crash
  PROVE  CallsInv'
<1>1. \A w \in Workers : temp[w] # "none" => object[w] \in Objects
  BY DEF CallsInv, TempIsInFlight, CallOK
<1>2. litter' \subseteq Objects
  BY <1>1 DEF Crash, CallsInv, TypeOK
<1> QED
  BY <1>2
     DEF CallsInv, TypeOK, TempIsInFlight, CallOK, Crash, Ops, Answers,
         Steps, TempContents, Contents

\* What the file system calls do to the names: a rename puts a whole object there,
\* a Delete takes it away, and nothing else touches them.
LEMMA FileSteps ==
  ASSUME CallsInv, [Next]_vars
  PROVE  \/ file' = file
         \/ \E w \in Workers :
              /\ step[w] = "rename"
              /\ object[w] \in Objects
              /\ file' = [file EXCEPT ![object[w]] = "whole"]
         \/ \E w \in Workers :
              /\ Delete(w)
              /\ object[w] \in Objects
              /\ file' = [file EXCEPT ![object[w]] = "none"]
<1>1. ASSUME NEW w \in Workers, Rename(w)
      PROVE  /\ step[w] = "rename"
             /\ object[w] \in Objects
             /\ file' = [file EXCEPT ![object[w]] = "whole"]
  <2>1. temp[w] = "whole" /\ step[w] = "rename"
    BY <1>1 DEF CallsInv, CallOK, Rename
  <2> QED
    BY <1>1, <2>1, InCall DEF Rename
<1>2. ASSUME NEW w \in Workers, Delete(w)
      PROVE  /\ object[w] \in Objects
             /\ file' = [file EXCEPT ![object[w]] = "none"]
  BY <1>2, InCall DEF Delete
<1>3. ASSUME NEW w \in Workers, Work(w), ~Rename(w), ~Delete(w)
      PROVE  file' = file
  BY <1>3
     DEF Work, FailEarly, PutExisting, PutNew, CreateTemp, WriteTemp, CloseTemp,
         RenameFails, RemoveTemp, Look, Return
<1> QED
  BY <1>1, <1>2, <1>3 DEF Next, Begin, Crash, vars

LEMMA CallsNext == CallsInv /\ [Next]_vars => CallsInv'
<1> SUFFICES ASSUME CallsInv, [Next]_vars
             PROVE  CallsInv'
  OBVIOUS
<1>1. CASE UNCHANGED vars
  BY <1>1 DEF CallsInv, TypeOK, TempIsInFlight, CallOK, vars, call
<1> QED
  BY <1>1, BeginInv, WorkInv, CrashInv DEF Next

LEMMA NextInv == IInv /\ [Next]_vars => IInv'
<1> SUFFICES ASSUME IInv, [Next]_vars
             PROVE  IInv'
  OBVIOUS
<1>1. CallsInv'
  BY CallsNext DEF IInv
<1>2. NoPartialObject'
  BY FileSteps DEF IInv, CallsInv, TypeOK, NoPartialObject
<1> QED
  BY <1>1, <1>2 DEF IInv

LEMMA Invariant == Spec => []IInv
BY InitInv, NextInv, PTL DEF Spec

\* Every reachable state is well typed.
THEOREM TypeCorrect == Spec => []TypeOK
<1>1. IInv => TypeOK
  BY DEF IInv, CallsInv
<1> QED
  BY <1>1, Invariant, PTL

\* No reader ever sees part of an object.
THEOREM ObjectsAreWhole == Spec => []NoPartialObject
<1>1. IInv => NoPartialObject
  BY DEF IInv, CallsInv
<1> QED
  BY <1>1, Invariant, PTL

\* Nobody is out of Put and still has a temp file.
THEOREM TempsAreRemoved == Spec => []TempIsInFlight
<1>1. IInv => TempIsInFlight
  BY DEF IInv, CallsInv
<1> QED
  BY <1>1, Invariant, PTL

-----------------------------------------------------------------------------
(***************************************************************************)
(* FileStore implements ObjectStore.  A call takes effect at the file      *)
(* system call that settles its answer; the others change nothing there.   *)
(***************************************************************************)
Present == {o \in Objects : file[o] # "none"}

LEMMA InitRefines == Init => Store!Init
BY DEF Init, Store!Init

LEMMA BeginRefines ==
  ASSUME NEW w \in Workers, NEW kind \in Ops, NEW o \in Objects, Begin(w, kind, o)
  PROVE  Store!Begin(w, kind, o)
BY DEF Begin, Store!Begin

\* Steps that settle nothing.
LEMMA GotoStutters ==
  ASSUME NEW w \in Workers, NEW next \in Steps, Goto(w, next), UNCHANGED file
  PROVE  UNCHANGED Store!vars
BY DEF Goto, call, Store!vars

LEMMA WorkRefines ==
  ASSUME IInv, NEW w \in Workers, Work(w)
  PROVE  [Store!Next]_(Store!vars)
<1> USE DEF Store!Answer, IInv
<1>1. CASE FailEarly(w)
  <2>1. Store!Fail(w)
    BY <1>1, InCall DEF FailEarly, Settle, Store!Fail
  <2> QED
    BY <2>1 DEF Store!Next
<1>2. CASE PutExisting(w)
  <2>1. Store!Put(w)
    BY <1>2, InCall DEF PutExisting, Settle, Store!Put
  <2> QED
    BY <2>1 DEF Store!Next
<1>3. CASE PutNew(w) \/ CreateTemp(w) \/ WriteTemp(w) \/ CloseTemp(w) \/ RenameFails(w)
  BY <1>3, GotoStutters
     DEF PutNew, CreateTemp, WriteTemp, CloseTemp, RenameFails, Steps
<1>4. CASE Rename(w)
  <2>1. temp[w] = "whole" /\ op[w] = "put" /\ step[w] = "rename"
    BY <1>4 DEF IInv, CallsInv, CallOK, Rename
  <2>2. Present' = Present \cup {object[w]}
    BY <1>4, <2>1, InCall DEF Present, Rename, IInv, CallsInv, TypeOK
  <2>3. Store!Put(w)
    BY <1>4, <2>1, <2>2, InCall DEF Present, Rename, Settle, Store!Put
  <2> QED
    BY <2>3 DEF Store!Next
<1>5. CASE RemoveTemp(w)
  <2>1. Store!Fail(w)
    BY <1>5, InCall DEF RemoveTemp, Settle, Store!Fail
  <2> QED
    BY <2>1 DEF Store!Next
<1>6. CASE Look(w)
  <2>1. object[w] \in Present <=> file[object[w]] # "none"
    BY <1>6, InCall DEF Present, Look
  <2>2. Store!Look(w)
    BY <1>6, <2>1, InCall DEF Present, Look, Settle, Store!Look
  <2> QED
    BY <2>2 DEF Store!Next
<1>7. CASE Delete(w)
  <2>1. Present' = Present \ {object[w]}
    BY <1>7, InCall DEF Present, Delete, IInv, CallsInv, TypeOK
  <2>2. Store!Delete(w)
    BY <1>7, <2>1, InCall DEF Present, Delete, Settle, Store!Delete
  <2> QED
    BY <2>2 DEF Store!Next
<1>8. CASE Return(w)
  <2>1. answer[w] # "none"
    BY <1>8 DEF Return, IInv, CallsInv, CallOK
  <2>2. Store!Return(w)
    BY <1>8, <2>1 DEF Return, Store!Return
  <2> QED
    BY <2>2 DEF Store!Next
<1> QED
  BY <1>1, <1>2, <1>3, <1>4, <1>5, <1>6, <1>7, <1>8 DEF Work

LEMMA NextRefines == IInv /\ [Next]_vars => [Store!Next]_(Store!vars)
<1> SUFFICES ASSUME IInv, [Next]_vars
             PROVE  [Store!Next]_(Store!vars)
  OBVIOUS
<1>1. ASSUME NEW w \in Workers, NEW kind \in Ops, NEW o \in Objects,
             Begin(w, kind, o)
      PROVE  Store!Next
  BY <1>1, BeginRefines DEF Store!Next, Ops, Store!Ops
<1>2. CASE Crash
  <2>1. Store!Crash
    BY <1>2 DEF Crash, Store!Crash
  <2> QED
    BY <2>1 DEF Store!Next
<1>3. CASE UNCHANGED vars
  BY <1>3 DEF vars, call, Store!vars
<1> QED
  BY <1>1, <1>2, <1>3, WorkRefines DEF Next

\* Every call of the store takes effect at one moment, though it is several file
\* system calls long and others run in between.
THEOREM ImplementsStore == Spec => StoreSpec
BY InitRefines, NextRefines, Invariant, PTL DEF Spec, StoreSpec, Store!Spec

-----------------------------------------------------------------------------
(***************************************************************************)
(* The loss of power.                                                      *)
(***************************************************************************)

\* A name that holds a part of its object does so on the disk as well, and no Put of
\* the object has come past the stat that would find it.
CutIsOnDisk == \A o \in Objects : file[o] = "partial" => disk[o] = "partial"
CutIsNotPut ==
  \A w \in Workers :
    step[w] \in {"create", "write", "close", "rename"} => file[object[w]] # "partial"

PowerInv ==
  /\ CallsInv
  /\ disk \in [Objects -> Contents]
  /\ losses \in Nat
  /\ losses = 0 => NoPartialObject
  /\ CutIsOnDisk
  /\ CutIsNotPut

LEMMA PowerInitInv == PowerInit => PowerInv
BY InitInv
   DEF PowerInit, Init, PowerInv, IInv, CallsInv, TypeOK, NoPartialObject, CutIsOnDisk,
       CutIsNotPut

\* A Put goes on past the stat only if the name is free.
LEMMA PutSteps ==
  ASSUME CallsInv, [Next]_vars, NEW w \in Workers,
         step'[w] \in {"create", "write", "close", "rename"}
  PROVE  /\ object'[w] = object[w]
         /\ object[w] \in Objects
         /\ \/ step[w] \in {"create", "write", "close", "rename"}
            \/ file[object[w]] = "none" /\ file' = file
<1> USE DEF CallsInv, TypeOK
<1>1. ASSUME NEW v \in Workers, NEW kind \in Ops, NEW o \in Objects, Begin(v, kind, o)
      PROVE  /\ object'[w] = object[w]
             /\ step'[w] = step[w]
  BY <1>1 DEF Begin
<1>2. ASSUME NEW v \in Workers, Work(v), v # w
      PROVE  object'[w] = object[w] /\ step'[w] = step[w]
  BY <1>2
     DEF Work, FailEarly, PutExisting, PutNew, CreateTemp, WriteTemp, CloseTemp,
         Rename, RenameFails, RemoveTemp, Look, Delete, Return, Goto, Settle, call
<1>3. ASSUME Work(w)
      PROVE  /\ object'[w] = object[w]
             /\ \/ step[w] \in {"create", "write", "close", "rename"}
                \/ file[object[w]] = "none" /\ file' = file
  <2>1. CASE FailEarly(w) \/ PutExisting(w) \/ Rename(w) \/ RemoveTemp(w) \/ Look(w)
             \/ Delete(w) \/ Return(w)
    BY <2>1
       DEF FailEarly, PutExisting, Rename, RemoveTemp, Look, Delete, Return, Settle
  <2>2. CASE PutNew(w)
    BY <2>2 DEF PutNew, Goto, call
  <2>3. CASE CreateTemp(w) \/ WriteTemp(w) \/ CloseTemp(w) \/ RenameFails(w)
    BY <2>3 DEF CreateTemp, WriteTemp, CloseTemp, RenameFails, Goto, call
  <2> QED
    BY <1>3, <2>1, <2>2, <2>3 DEF Work
<1>4. CASE Crash
  BY <1>4 DEF Crash
<1>5. ASSUME UNCHANGED vars
      PROVE  object'[w] = object[w] /\ step'[w] = step[w]
  BY <1>5 DEF vars, call
<1>6. /\ object'[w] = object[w]
      /\ \/ step[w] \in {"create", "write", "close", "rename"}
         \/ file[object[w]] = "none" /\ file' = file
  BY <1>1, <1>2, <1>3, <1>4, <1>5 DEF Next
<1>7. object[w] \in Objects
  <2>1. CallOK(w)'
    BY CallsNext
  <2> QED
    BY <1>6, <2>1 DEF CallOK
<1> QED
  BY <1>6, <1>7

LEMMA StepsOnPower ==
  ASSUME PowerInv, [Next]_vars, UNCHANGED <<disk, losses>>
  PROVE  PowerInv'
<1> USE DEF PowerInv
<1>1. CallsInv'
  BY CallsNext
<1>2. ASSUME NEW o \in Objects, file'[o] = "partial"
      PROVE  file[o] = "partial"
  BY <1>2, FileSteps DEF CallsInv, TypeOK
<1>3. (losses = 0 => NoPartialObject)' /\ CutIsOnDisk'
  BY <1>2 DEF NoPartialObject, CutIsOnDisk
<1>4. CutIsNotPut'
  BY <1>2, PutSteps DEF CutIsNotPut
<1> QED
  BY <1>1, <1>3, <1>4

LEMMA LosePowerInv ==
  ASSUME PowerInv, LosePower
  PROVE  PowerInv'
<1> USE DEF PowerInv
<1>1. file' \in [Objects -> Contents] /\ disk' = file'
  BY DEF LosePower
<1>2. \A w \in Workers : temp[w] # "none" => object[w] \in Objects
  BY DEF CallsInv, TempIsInFlight, CallOK
<1>3. litter' \subseteq Objects
  BY <1>2 DEF LosePower, CallsInv, TypeOK
<1>4. CallsInv'
  BY <1>1, <1>3
     DEF CallsInv, TypeOK, TempIsInFlight, CallOK, LosePower, Ops, Answers, Steps,
         TempContents
<1>5. losses' \in Nat /\ losses' # 0
  BY DEF LosePower
<1>6. CutIsOnDisk' /\ CutIsNotPut'
  BY <1>1 DEF CutIsOnDisk, CutIsNotPut, LosePower
<1> QED
  BY <1>1, <1>4, <1>5, <1>6

LEMMA PowerNextInv == PowerInv /\ [PowerNext]_powerVars => PowerInv'
<1> SUFFICES ASSUME PowerInv, [PowerNext]_powerVars
             PROVE  PowerInv'
  OBVIOUS
<1>1. CASE \E o \in Objects : WriteBack(o)
  <2>1. PICK o \in Objects : WriteBack(o)
    BY <1>1
  <2>2. UNCHANGED <<vars, losses>> /\ disk' = [disk EXCEPT ![o] = file[o]]
    BY <2>1 DEF WriteBack
  <2>3. CallsInv' /\ NoPartialObject' = NoPartialObject /\ CutIsNotPut'
    BY <2>2, CallsNext DEF PowerInv, NoPartialObject, CutIsNotPut, vars, call
  <2>4. disk' \in [Objects -> Contents] /\ file' = file
    BY <2>2 DEF PowerInv, CallsInv, TypeOK, vars
  <2>5. CutIsOnDisk'
    BY <2>2, <2>4 DEF PowerInv, CutIsOnDisk
  <2> QED
    BY <2>2, <2>3, <2>4, <2>5 DEF PowerInv
<1> QED
  BY <1>1, StepsOnPower, LosePowerInv DEF PowerNext, powerVars

LEMMA PowerInvariant == PowerSpec => []PowerInv
BY PowerInitInv, PowerNextInv, PTL DEF PowerSpec

\* Until the power is lost no name holds a part of its object: what the missing Sync
\* leaves open needs the machine to stop, no failure of a call and no stop of the
\* process is enough.
THEOREM WholeUntilPowerIsLost == PowerSpec => [](losses = 0 => NoPartialObject)
<1>1. PowerInv => (losses = 0 => NoPartialObject)
  BY DEF PowerInv
<1> QED
  BY <1>1, PowerInvariant, PTL

\* Only a loss of power cuts an object, and only one that is not on the disk yet.
THEOREM OnlyUnwrittenIsCut ==
  PowerSpec =>
    [][\A o \in Objects :
         file[o] # "partial" /\ file'[o] = "partial"
           => LosePower /\ disk[o] # file[o]]_powerVars
<1>1. PowerInv /\ [PowerNext]_powerVars =>
        [\A o \in Objects :
           file[o] # "partial" /\ file'[o] = "partial"
             => LosePower /\ disk[o] # file[o]]_powerVars
  <2> SUFFICES ASSUME PowerInv, PowerNext, NEW o \in Objects,
                      file[o] # "partial", file'[o] = "partial"
               PROVE  LosePower /\ disk[o] # file[o]
    OBVIOUS
  <2>1. CASE Next
    BY <2>1, FileSteps DEF PowerInv, CallsInv, TypeOK
  <2>2. CASE \E p \in Objects : WriteBack(p)
    BY <2>2 DEF WriteBack, vars
  <2>3. CASE LosePower
    BY <2>3 DEF LosePower
  <2> QED
    BY <2>1, <2>2, <2>3 DEF PowerNext
<1> QED
  BY <1>1, PowerInvariant, PTL DEF PowerSpec

\* An object that was cut stays cut until somebody deletes it: a Put of the whole
\* object finds the name taken and answers that it is done, another loss of power
\* finds the same on the disk, and the service calls no Delete.
THEOREM OnlyDeleteMendsACut ==
  PowerSpec =>
    [][\A o \in Objects :
         file[o] = "partial" /\ file'[o] # "partial"
           => \E w \in Workers : Delete(w) /\ object[w] = o]_powerVars
<1>1. PowerInv /\ [PowerNext]_powerVars =>
        [\A o \in Objects :
           file[o] = "partial" /\ file'[o] # "partial"
             => \E w \in Workers : Delete(w) /\ object[w] = o]_powerVars
  <2> SUFFICES ASSUME PowerInv, PowerNext, NEW o \in Objects,
                      file[o] = "partial", file'[o] # "partial"
               PROVE  \E w \in Workers : Delete(w) /\ object[w] = o
    OBVIOUS
  <2>1. CASE Next
    <3>1. CASE \E w \in Workers :
                 /\ step[w] = "rename"
                 /\ object[w] \in Objects
                 /\ file' = [file EXCEPT ![object[w]] = "whole"]
      BY <3>1 DEF PowerInv, CutIsNotPut, CallsInv, TypeOK
    <3> QED
      BY <2>1, <3>1, FileSteps DEF PowerInv, CallsInv, TypeOK
  <2>2. CASE \E p \in Objects : WriteBack(p)
    BY <2>2 DEF WriteBack, vars
  <2>3. CASE LosePower
    BY <2>3 DEF LosePower, PowerInv, CutIsOnDisk
  <2> QED
    BY <2>1, <2>2, <2>3 DEF PowerNext
<1> QED
  BY <1>1, PowerInvariant, PTL DEF PowerSpec
=============================================================================

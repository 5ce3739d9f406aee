----------------------------- MODULE PowerLoss -----------------------------
(***************************************************************************)
(* FileStore on a machine that may lose power.  What a name holds reaches  *)
(* the disk at some later time, and Put never calls Sync: until then the   *)
(* machine may come up with the state last written, with the new one, or   *)
(* with the new name and a part of the data behind it.  (The file system   *)
(* is external: this is what POSIX leaves open.)                           *)
(***************************************************************************)
EXTENDS FileStore

CONSTANT MaxPowerLosses   \* bound: power losses

VARIABLES
  disk,   \* disk[o]: what a name holds on the disk
  losses  \* power losses so far

powerVars == <<vars, disk, losses>>

PowerInit ==
  /\ Init
  /\ disk = file
  /\ losses = 0

WriteBack(o) ==
  /\ disk[o] # file[o]
  /\ disk' = [disk EXCEPT ![o] = file[o]]
  /\ UNCHANGED <<vars, losses>>

\* The process stops with the machine, and starts on what the disk kept.
LosePower ==
  /\ losses < MaxPowerLosses
  /\ losses' = losses + 1
  /\ \E kept \in [Objects -> Contents] :
       /\ \A o \in Objects :
            \/ kept[o] \in {disk[o], file[o]}
            \/ disk[o] # file[o] /\ file[o] # "none" /\ kept[o] = "partial"
       /\ file' = kept
       /\ disk' = kept
  /\ op' = [w \in Workers |-> "idle"]
  /\ object' = [w \in Workers |-> NoObject]
  /\ answer' = [w \in Workers |-> "none"]
  /\ step' = [w \in Workers |-> "idle"]
  /\ temp' = [w \in Workers |-> "none"]
  /\ litter' = litter \cup {object[w] : w \in {v \in Workers : temp[v] # "none"}}
  /\ UNCHANGED <<calls, crashes>>

PowerNext ==
  \/ Next /\ UNCHANGED <<disk, losses>>
  \/ \E o \in Objects : WriteBack(o)
  \/ LosePower

\* Calls finish; the disk and the power follow no such rule.
PowerSpec ==
  /\ PowerInit
  /\ [][PowerNext]_powerVars
  /\ \A w \in Workers : WF_powerVars(Work(w) /\ UNCHANGED <<disk, losses>>)
=============================================================================

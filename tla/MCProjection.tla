---------------------------- MODULE MCProjection ----------------------------
(***************************************************************************)
(* Small instances of Projection.  Deep: one team and type, two refs, so   *)
(* that logs are long.  Wide: two teams and two types, so that rows of     *)
(* other keys are at stake.                                                *)
(***************************************************************************)
EXTENDS Projection

CONSTANTS t1, t2, ref1, ref2

\* A body of an early event, and one with renditions that are not all usable and not
\* all measured.
plain == [original |-> BadRef, renditions |-> <<>>]
small == [original |-> NoRef,
          renditions |-> <<[ref |-> ref2, edge |-> 0], [ref |-> BadRef, edge |-> 1],
                           [ref |-> ref1, edge |-> 2]>>]

DeepTeams == {t1}
DeepTypes == {"start"}
DeepRefs == {ref1, ref2}
DeepPurgeLists == {{ref1}, {ref1, ref2}, {BadRef}}
DeepOlder ==
  {[kind |-> "photographed", subject |-> t1, body |-> NoTeam, type |-> "start",
    ref |-> r, value |-> plain] : r \in {ref1, BadRef}}

WideTeams == {t1, t2}
WideTypes == {"start", "finish"}
WideRefs == {ref1}
WidePurgeLists == {{ref1}, {BadRef}}
WideOlder ==
  {[kind |-> "photopurged", subject |-> t, body |-> NoTeam, refs |-> l] :
     t \in WideTeams, l \in {{}, {ref1}}}
    \cup
  {[kind |-> "photographed", subject |-> t1, body |-> NoTeam, type |-> "start",
    ref |-> BadRef, value |-> plain]}

DeepValues == {plain, small}
WideValues == {plain}
=============================================================================

------------------------------ MODULE MCSystem ------------------------------
(***************************************************************************)
(* A small instance of System: two photographs, of which the second is the *)
(* first one's larger thumbnail sent again, and comes out of the encoder   *)
(* as it was: one object is an original, a display image and a rendition.  *)
(***************************************************************************)
EXTENDS System

CONSTANTS t1, s1, s2, o1, d1, h1, h2

Ref == {o1, d1, h1, h2}

photo1 ==
  [original |-> o1, renditions |-> <<[ref |-> h2, edge |-> 2], [ref |-> h1, edge |-> 1]>>]
photo2 == [original |-> h2, renditions |-> <<[ref |-> h1, edge |-> 1]>>]

PhotoOf ==
  [s \in {s1, s2} |->
     IF s = s1 THEN [type |-> "start", ref |-> d1, value |-> photo1]
     ELSE [type |-> "start", ref |-> h2, value |-> photo2]]

Bodies == {photo1, photo2}

\* An event of another producer that the handler refuses.
Older == {[kind |-> "photographed", subject |-> t1, body |-> NoTeam,
           type |-> "start", ref |-> BadRef, value |-> photo1]}
=============================================================================

---------------------------- MODULE MCFileStore ----------------------------
(***************************************************************************)
(* Three goroutines and two objects: two Puts of the same bytes race each  *)
(* other, and a Get, an Exists, a Delete or a Put of other bytes.          *)
(***************************************************************************)
EXTENDS FileStore, TLC

CONSTANTS w1, w2, w3, o1, o2

MCWorkers == {w1, w2, w3}
MCObjects == {o1, o2}
MCSymmetry == Permutations(MCWorkers) \cup Permutations(MCObjects)
=============================================================================

---------------------------- MODULE MCPowerLoss ----------------------------
(***************************************************************************)
(* One goroutine, one object and one power loss.                           *)
(***************************************************************************)
EXTENDS PowerLoss

CONSTANTS w1, o1

MCWorkers == {w1}
MCObjects == {o1}
=============================================================================

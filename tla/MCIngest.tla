------------------------------ MODULE MCIngest ------------------------------
(***************************************************************************)
(* Small instances of Ingest.  Deep: two photographs under one number, the *)
(* second so small that its display image and thumbnail are the same       *)
(* bytes.  Mixed: one shot for every class of payload, URL and image.      *)
(***************************************************************************)
EXTENDS Ingest, TLC

CONSTANTS r1, r2, t1, t2

MCRequests == {r1, r2}
MCTeams == {t1, t2}
MCSymmetry == Permutations(MCRequests) \cup Permutations(MCTeams)

DeepShots == {"scout", "tiny"}
DeepNumber == [s \in DeepShots |-> "42"]
DeepUrlClass == [s \in DeepShots |-> "good"]
DeepImageClass == [s \in DeepShots |-> "photo"]
DeepParts == [scout |-> <<"original", "display", "thumb">>,
              tiny |-> <<"pixel", "dot", "dot">>]
DeepObjects == {"original", "display", "thumb", "pixel", "dot"}

MixedShots == {"scout", "unnumbered", "nourl", "badurl", "elsewhere", "text",
               "bomb"}
MixedNumber == [s \in MixedShots |-> IF s = "unnumbered" THEN NoNumber ELSE "42"]
MixedUrlClass ==
  [s \in MixedShots |-> CASE s = "nourl" -> "empty"
                          [] s = "badurl" -> "invalid"
                          [] s = "elsewhere" -> "denied"
                          [] OTHER -> "good"]
MixedImageClass ==
  [s \in MixedShots |-> CASE s = "text" -> "undecodable"
                          [] s = "bomb" -> "oversized"
                          [] OTHER -> "photo"]
MixedParts == [s \in MixedShots |-> <<<<s, "original">>, <<s, "display">>>>]
MixedObjects == MixedShots \X {"original", "display"}
MCAddressable == {t1}
MCNumbers == {"42"}
=============================================================================

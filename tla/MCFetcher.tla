----------------------------- MODULE MCFetcher -----------------------------
(***************************************************************************)
(* Addresses of every kind; two redirects; bodies below, at and above the  *)
(* limit of two bytes.                                                     *)
(***************************************************************************)
EXTENDS Fetcher

MCUrls == {"kamera", "mirror", "elsewhere", "hostless", "file", "garbled"}
MCParsed == MCUrls \ {"garbled"}
MCWeb == {"kamera", "mirror", "elsewhere", "hostless"}
MCHosts == {"kamera", "mirror", "elsewhere"}
MCHost == [u \in MCUrls |-> IF u \in MCHosts THEN u ELSE NoHost]
MCAllowedHosts == {"kamera", "mirror"}
MCLengths == 0 .. 4
=============================================================================

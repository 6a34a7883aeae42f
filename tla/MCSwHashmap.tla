---------------------------- MODULE MCSwHashmap ----------------------------
(***************************************************************************)
(* Keys that collide, for TLC.                                             *)
(***************************************************************************)
EXTENDS SwHashmap

MCKey == {"a", "b", "c", "d"}
MCHash == [k \in MCKey |-> CASE k = "a" -> 1 [] k = "b" -> 1 [] k = "c" -> 3 [] k = "d" -> 2]
=============================================================================

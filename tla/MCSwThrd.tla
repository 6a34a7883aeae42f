------------------------------ MODULE MCSwThrd ------------------------------
(* The thread table on small instances. *)
EXTENDS SwThrd
=============================================================================

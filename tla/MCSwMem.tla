------------------------------ MODULE MCSwMem ------------------------------
(***************************************************************************)
(* Small pools for TLC.                                                    *)
(***************************************************************************)
EXTENDS SwMem, TLC

MCThreads == Permutations(Thread)
=============================================================================

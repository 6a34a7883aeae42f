---------------------------- MODULE MCSwHttpFile ----------------------------
(* SwHttpFile for TLC.                                                     *)
EXTENDS SwHttpFile

MCSections == {<<0, 0>>, <<1, 2>>}
=============================================================================

---------------------------- MODULE MCCoapClient ----------------------------
(***************************************************************************)
(* Small sets for TLC.                                                     *)
(***************************************************************************)
EXTENDS CoapClient

=============================================================================

----------------------------- MODULE MCSwTimer -----------------------------
(* The timers on small instances. *)
EXTENDS SwTimer, TLC
MCStructure == {"create", "destroy", "reset", "interval", "handler"}
MCBasic == {"create", "destroy", "enable", "disable"}
MCOnceOrForever == {-1, 1}
MCForever == {-1}
MCSymmetry == Permutations(Cell)
=============================================================================

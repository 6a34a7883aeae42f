--------------------------- MODULE MCSwParameter ---------------------------
(* Instances of SwParameter for TLC.                                       *)
EXTENDS SwParameter

\* A value that begins with a separator loses it in the file.
MCStripped == [v \in {"", "a", "b", " b"} |-> IF v = " b" THEN "b" ELSE v]

MCBootOrder == <<"java", "file">>
MCDType == [d \in {"java", "file"} |-> IF d = "java" THEN JAVA ELSE FILE]

MCOldFile == [n \in Names |-> IF n = 1 THEN "a" ELSE NULL]
=============================================================================

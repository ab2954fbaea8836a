----------------------------- MODULE MCArchive -----------------------------
(* Five contents: c and c' have one digest, and the dictionary cannot hold *)
(* the strings of x.                                                       *)
EXTENDS Archive

MCContent == {"a", "b", "c", "c'", "x"}
MCDigest  == [s \in MCContent |-> IF s = "c'" THEN "c" ELSE s]
MCOverflowing == {"x"}
=============================================================================

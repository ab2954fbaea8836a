------------------------------- MODULE Powers -------------------------------
(***************************************************************************)
(* Powers of a number, as a function that can be reasoned about.           *)
(***************************************************************************)
EXTENDS Integers

Power(b) == LET pow[n \in Nat] == IF n = 0 THEN 1 ELSE b * pow[n - 1] IN pow
=============================================================================

----------------------------- MODULE MCOffload -----------------------------
(* Chunks of one to three bytes, so that a shorter one leaves bytes of a   *)
(* longer one behind, and one that overruns the buffer; the dictionary     *)
(* cannot hold the strings of one.                                         *)
EXTENDS Offload

MCContent == {<<1>>, <<2, 3>>, <<1, 2, 3>>, <<1, 2, 3, 1>>}
MCOverflowing == {<<2, 3>>}
=============================================================================

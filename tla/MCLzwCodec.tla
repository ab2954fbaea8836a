----------------------------- MODULE MCLzwCodec -----------------------------
(* At reduced widths, chunks of two letters long enough to go past the end *)
(* of the slots and of the shift, and shorter ones with a third letter     *)
(* that a signed char makes negative.                                      *)
EXTENDS LzwCodec

\* Two buckets, so that most keys go to the associative memory.
MCHash == [k \in Key |-> (k \div Radix + k) % 2]

AllChunks(S, n) == UNION {[1 .. l -> S] : l \in 1 .. n}
ShortChunks == AllChunks({0, 1}, 8) \cup AllChunks(Letter, 5)
Chunks3 == AllChunks(Letter, 3)
=============================================================================

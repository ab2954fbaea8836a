--------------------------- MODULE MCGearChunker ---------------------------
(* Two packets: the first is long enough for chunks of every size, for two *)
(* of them, and for an end that is left; with the second, a call starts    *)
(* with what another has left.                                             *)
EXTENDS GearChunker

Payloads(n) == UNION {[1 .. l -> Byte] : l \in 0 .. n}
TwoPackets == Payloads(8) \X Payloads(4)

\* Three bits a word: 1 of byte 0, and 2 and 4 of byte 1.
MCGear == [c \in Byte |-> [b \in Bit |-> IF (c = 0) <=> (b = 0) THEN 1 ELSE 0]]
=============================================================================

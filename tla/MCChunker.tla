----------------------------- MODULE MCChunker -----------------------------
(* Two packets of up to six bytes, so that a window of three rolls over    *)
(* every pattern of them, is cut where it starts, where it ends and not at *)
(* all, and comes in both packets.                                         *)
EXTENDS Chunker

Payloads(n) == UNION {[1 .. l -> Byte] : l \in 0 .. n}
TwoPackets == Payloads(6) \X Payloads(6)

\* The host's MAX_CHUNK_SIZE (4096) and one payload of zeros of BLOCKSIZE (8192) bytes,
\* both scaled down by 128.
MAX_CHUNK_SIZE == 32
Zeros == {<<[b \in 1 .. 2 * MAX_CHUNK_SIZE |-> 0]>>}

\* host.cpp:282 assumes that "MAX_CHUNK_SIZE is the largest size of a single chunk" (its
\* comment is in Chinese): no chunk that is copied on is longer.
ChunksFit == \A n \in DOMAIN chunks : chunks[n].size <= MAX_CHUNK_SIZE
=============================================================================

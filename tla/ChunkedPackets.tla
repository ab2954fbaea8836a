--------------------------- MODULE ChunkedPackets ---------------------------
(***************************************************************************)
(* What the chunking functions of src/Server/cdc.cpp work on: the payloads *)
(* of packets, one per call, and the chunks they make of them, which are   *)
(* ranges of a packet: the bytes are copied when a chunk is cut.           *)
(* Positions count from 0, as in the code.                                 *)
(***************************************************************************)
EXTENDS Integers, Sequences

CONSTANTS Byte,      \* the values of a byte that occur
          Packets    \* the payloads a run may receive: sequences of payloads

VARIABLES packets,      \* the payloads received
          p,            \* the one being chunked
          i, start,     \* the loop, and where the open chunk starts
          current_hash,
          chunks,       \* the chunks of all calls so far
          pc

Chunk == [packet : Nat, from : Nat, size : Nat]
buff_size(q) == Len(packets[q])
byte(q, n)   == packets[q][n + 1]
=============================================================================

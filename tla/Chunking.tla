------------------------------ MODULE Chunking ------------------------------
(***************************************************************************)
(* What a chunking function of src/Server/cdc.cpp promises its callers:    *)
(* called with one payload after the other, it takes each from the start,  *)
(* chunk by chunk without a gap, and may leave its end in no chunk.  Where *)
(* it cuts is left open.  rabin_fingerprint_cdc (module Chunker) and       *)
(* gear_based_fastcdc (module GearChunker) implement it, each with its own *)
(* sizes and ends.                                                         *)
(***************************************************************************)
EXTENDS Integers, Sequences

CONSTANTS Packets, \* the payloads a run may receive: sequences of payloads
          Sizes,   \* the sizes a chunk may have
          Left     \* the ends that may be left: <<size of payload, bytes left>>

VARIABLES packets, \* the payloads received
          p,       \* the one being chunked
          start,   \* its bytes that are in chunks
          chunks   \* ranges of payloads, positions counted from 0

vars == <<packets, p, start, chunks>>

Init == /\ packets \in Packets
        /\ p = 1 /\ start = 0
        /\ chunks = << >>

Cut == /\ p <= Len(packets)
       /\ start' \in start + 1 .. Len(packets[p])
       /\ start' - start \in Sizes
       /\ chunks' = Append(chunks, [packet |-> p, from |-> start, size |-> start' - start])
       /\ UNCHANGED <<packets, p>>

Leave == /\ p <= Len(packets)
         /\ <<Len(packets[p]), Len(packets[p]) - start>> \in Left
         /\ p' = p + 1
         /\ start' = 0
         /\ UNCHANGED <<packets, chunks>>

Next == Cut \/ Leave

Spec == Init /\ [][Next]_vars
=============================================================================

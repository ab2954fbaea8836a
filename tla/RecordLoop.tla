----------------------------- MODULE RecordLoop -----------------------------
(***************************************************************************)
(* The loop that turns the table of duplicates into the output: one record *)
(* per chunk, in order, built in temp_out_buffer and appended to           *)
(* out_buffer.  This is the loop of Server/encoder.cpp as it stands; the   *)
(* one of hls/host.cpp, where the kernel builds the record, implements it  *)
(* (module Offload).                                                       *)
(*                                                                         *)
(* A record holds a text or the number of a chunk.  The text is what       *)
(* Decompress returns for the chunk (module LzwCodec); the content stands  *)
(* for it here.                                                            *)
(***************************************************************************)
EXTENDS Integers, Sequences

CONSTANTS Overflowing, \* the contents for which the dictionary runs full, so
                       \* that the compressor returns without a record
          Fresh        \* temp_out before the first record: nothing, as its
                       \* size is 0, or whatever the buffer is left with

VARIABLES chunk_count, chunks,   \* the chunks, numbered from 0
          dup_flag, dup_index,   \* the table of duplicates
          k,                     \* the chunk to write
          temp_out,              \* the record in temp_out_buffer, if any
          out_buffer             \* the records written

table == <<chunk_count, chunks, dup_flag, dup_index>>
vars  == <<table, k, temp_out, out_buffer>>

Text(c)      == [dup |-> FALSE, text |-> c]
Duplicate(n) == [dup |-> TRUE, index |-> n]

\* The record a chunk is to have.
Own(n) == IF dup_flag[n] = 1 THEN Duplicate(dup_index[n]) ELSE Text(chunks[n])

\* The table is filled in before.
Init == k = 0 /\ temp_out = Fresh /\ out_buffer = << >>

\* As many bytes are appended as temp_out_buffer_size says.
AppendRecord == /\ out_buffer' = out_buffer \o temp_out'
                /\ k' = k + 1
                /\ UNCHANGED table

WriteText == /\ k < chunk_count
             /\ dup_flag[k] = 0
             /\ chunks[k] \notin Overflowing
             /\ temp_out' = <<Text(chunks[k])>>
             /\ AppendRecord

WriteDuplicate == /\ k < chunk_count
                  /\ dup_flag[k] = 1
                  /\ temp_out' = <<Duplicate(dup_index[k])>>
                  /\ AppendRecord

\* Mutant: the size is cleared, so that nothing is appended.
WriteStaleNothing == /\ k < chunk_count
                     /\ dup_flag[k] = 0
                     /\ chunks[k] \in Overflowing
                     /\ temp_out' = << >>
                     /\ AppendRecord

\* The compressor has returned early: the buffer and its size are those of the
\* record before.
WriteStale == /\ k < chunk_count
              /\ dup_flag[k] = 0
              /\ chunks[k] \in Overflowing
              /\ temp_out' = temp_out
              /\ AppendRecord

Next == WriteText \/ WriteDuplicate \/ WriteStale

Spec == Init /\ [][Next]_vars
-----------------------------------------------------------------------------
NoOverflow(n) == \A m \in 0 .. n - 1 : dup_flag[m] = 0 => chunks[m] \notin Overflowing

\* The records written so far are one per chunk and each is the chunk's own, as
\* long as the compressor wrote every one it was asked for.
RecordsMatchChunks ==
  NoOverflow(k) => /\ Len(out_buffer) = k
                   /\ \A n \in 0 .. k - 1 : out_buffer[n + 1] = Own(n)
=============================================================================

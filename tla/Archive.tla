------------------------------ MODULE Archive ------------------------------
(***************************************************************************)
(* From the chunks to the output file and back: the deduplication stage    *)
(* (module Dedup), the loop that writes one record per chunk (module       *)
(* RecordLoop) and the main loop of Decoder_cpp/Decoder.cpp that reads     *)
(* them, one after the other.                                              *)
(***************************************************************************)
EXTENDS Dedup, FiniteSets, Sequences

CONSTANT Overflowing  \* as in RecordLoop

ASSUME ArchiveAssumption == Overflowing \subseteq Content

VARIABLES k, temp_out, out_buffer, \* RecordLoop
          reader,       \* records the decoder has read
          Chunks,       \* its list of decompressed chunks
          Output,       \* what it wrote for each record: one content, or nothing
          stage

encoder == <<k, temp_out, out_buffer>>
decoder == <<reader, Chunks, Output>>
archiveVars == <<vars, encoder, decoder, stage>>

W == INSTANCE RecordLoop WITH Fresh <- << >>

Record == [dup : {FALSE}, text : Content] \cup [dup : {TRUE}, index : Number]

ArchiveTypeOK ==
  /\ TypeOK
  /\ k \in 0 .. chunk_count
  /\ temp_out \in {<< >>} \cup {<<r>> : r \in Record}
  /\ out_buffer \in Seq(Record)
  /\ reader \in 0 .. Len(out_buffer)
  /\ Chunks \in Seq(Content)
  /\ Output \in Seq({<< >>} \cup {<<c>> : c \in Content})
  /\ stage \in {"dedup", "write", "read", "end"}

ArchiveInit == /\ Init
               /\ W!Init
               /\ reader = 0 /\ Chunks = << >> /\ Output = << >>
               /\ stage = "dedup"

Deduplicate == /\ stage = "dedup"
               /\ Next
               /\ stage' = IF pc' = "done" THEN "write" ELSE "dedup"
               /\ UNCHANGED <<encoder, decoder>>

Write == /\ stage = "write"
         /\ W!Next
         /\ UNCHANGED <<i, j, pc, decoder, stage>>

Store == /\ stage = "write"
         /\ k = chunk_count
         /\ stage' = "read"
         /\ UNCHANGED <<vars, encoder, decoder>>

-----------------------------------------------------------------------------
current == out_buffer[reader + 1]

Reading(dup) == /\ stage = "read"
                /\ reader < Len(out_buffer)
                /\ current.dup = dup

\* Mutants: a chunk is not kept; it is kept every time.
ReadForgets(output, kept) == reader' = reader + 1 /\ Chunks' = Chunks
                             /\ Output' = Append(Output, output)
ReadKeeps(output, kept)   == reader' = reader + 1 /\ Chunks' = Chunks \o output
                             /\ Output' = Append(Output, output)

\* A record is read: what is written for it, and what is put in the list.
Read(output, kept) == /\ reader' = reader + 1
                      /\ Chunks' = Chunks \o kept
                      /\ Output' = Append(Output, output)

ReadText == /\ Reading(FALSE)
            /\ Read(<<current.text>>, <<current.text>>)
            /\ UNCHANGED <<vars, encoder, stage>>

\* Location indexes the decompressed chunks; nothing is written when it is past
\* their end.
ReadDuplicate ==
  /\ Reading(TRUE)
  /\ LET Location == current.index
     IN Read(IF Location < Len(Chunks) THEN <<Chunks[Location + 1]>> ELSE << >>, << >>)
  /\ UNCHANGED <<vars, encoder, stage>>

ReadEnd == /\ stage = "read"
           /\ reader = Len(out_buffer)
           /\ stage' = "end"
           /\ UNCHANGED <<vars, encoder, decoder>>

ArchiveNext == \/ Deduplicate
               \/ Write \/ Store
               \/ ReadText \/ ReadDuplicate \/ ReadEnd

ArchiveSpec == ArchiveInit /\ [][ArchiveNext]_archiveVars
-----------------------------------------------------------------------------
\* The duplicates among the first n chunks: the records the decoder's list lacks.
DuplicatesBefore(n) == Cardinality({m \in 0 .. n - 1 : dup_flag[m] = 1})

\* What the loop promises (module RecordLoop), for the table Dedup computes: one
\* record per chunk, in order, each the chunk's own.
RecordsMatchChunks == W!RecordsMatchChunks

\* A chunk for which the compressor writes no record leaves the buffer and its
\* size as they are, and they are appended again: chunks before the first record
\* have none, and from there every chunk has one, that of the last chunk up to it
\* for which a record was made.
Writes(n)        == dup_flag[n] = 1 \/ chunks[n] \notin Overflowing
LastWriter(m, n) == Writes(m) /\ \A o \in m + 1 .. n : ~ Writes(o)

RecordsFollowChunks ==
  \/ out_buffer = << >> /\ \A n \in 0 .. k - 1 : ~ Writes(n)
  \/ \E f \in 0 .. k - 1 :
       /\ Writes(f) /\ \A o \in 0 .. f - 1 : ~ Writes(o)
       /\ Len(out_buffer) = k - f
       /\ \A n \in f .. k - 1 :
            \E m \in f .. n : LastWriter(m, n) /\ out_buffer[n - f + 1] = W!Own(m)

\* The encoder numbers all chunks, the decoder's list holds the unduplicated
\* ones: a chunk is found under its number exactly when no duplicate precedes it,
\* and under a smaller number otherwise.
ListIsShifted ==
  stage \in {"read", "end"} /\ W!NoOverflow(chunk_count) =>
    \A n \in 0 .. reader - 1 : dup_flag[n] = 0 =>
      Chunks[n - DuplicatesBefore(n) + 1] = chunks[n]

\* So a chunk is restored when it is stored as text, and when its original comes
\* before every duplicate, up to what the digest can tell apart.
RestoredWhenUnshifted ==
  W!NoOverflow(chunk_count) =>
    \A n \in 0 .. reader - 1 :
      \/ dup_flag[n] = 0 /\ Output[n + 1] = <<chunks[n]>>
      \/ dup_flag[n] = 1 /\ DuplicatesBefore(dup_index[n]) > 0
      \/ /\ dup_flag[n] = 1
         /\ Output[n + 1] = <<chunks[dup_index[n]]>>
         /\ Digest[Output[n + 1][1]] = Digest[chunks[n]]

\* encoder.cpp:215 reports "Chunk %u: %d, duplicated with %d": the chunk written
\* for a duplicate is the one it is reported to be a duplicate of.
DuplicateIsOriginal ==
  W!NoOverflow(chunk_count) =>
    \A n \in 0 .. reader - 1 :
      dup_flag[n] = 1 => Output[n + 1] = <<chunks[dup_index[n]]>>
============================================================================

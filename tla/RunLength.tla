----------------------------- MODULE RunLength -----------------------------
(***************************************************************************)
(* rle_compress of Server/sha.cpp: a chunk is put in run-length form in a  *)
(* buffer of output_len bytes.  The form is what is digested (module       *)
(* DigestStage), and chunks with equal digests are later taken for         *)
(* duplicates, so what matters of the form is which chunks share it.       *)
(*                                                                         *)
(* One step is one run: an iteration of the outer loop.                    *)
(***************************************************************************)
EXTENDS Integers, SequencesExt

CONSTANTS output_len,  \* SHA_BLOCKSIZE, the size of compressed_data (2048)
          LongestRun   \* 255

VARIABLES input,   \* the chunk
          i,       \* bytes of it already in the form
          output   \* pairs of a byte and a run length

Init == i = 0 /\ output = << >>

\* Each pair is two bytes of the buffer; the loop stops short of its end.
out_index == 2 * Len(output)

\* Mutant: the loop goes on to the end of the buffer.
MoreToEnd == i < Len(input) /\ out_index < output_len

More == i < Len(input) /\ out_index < output_len - 2

\* The next r bytes of the chunk are one run.
IsRun(r) == i + r <= Len(input) /\ \A u \in 1 .. r : input[i + u] = input[i + 1]

\* Mutant: the bytes of a run are not compared.
run_length_blind == Max({r \in 1 .. LongestRun : i + r <= Len(input)})

\* The bytes from i on that equal byte i, as many as one pair counts.
run_length == Max({r \in 1 .. LongestRun : IsRun(r)})

WriteRun == /\ More
            /\ output' = Append(output, <<input[i + 1], run_length>>)
            /\ i' = i + run_length
-----------------------------------------------------------------------------
\* The bytes a form stands for.
Expand(form) == FlattenSeq([m \in DOMAIN form |-> [u \in 1 .. form[m][2] |-> form[m][1]]])

\* The buffer has room for no more runs.
Full(form) == 2 * Len(form) >= output_len - 2

\* The form never outgrows the buffer, and what is written of it so far stands
\* for exactly the bytes read so far.
FormSpellsPrefix == /\ out_index < output_len
                    /\ Expand(output) = SubSeq(input, 1, i)
=============================================================================

---------------------------- MODULE DigestStage ----------------------------
(***************************************************************************)
(* The digest stage of the encoders (Server/encoder.cpp, hls/host.cpp):    *)
(* each chunk is put in run-length form (module RunLength) in the local    *)
(* compressed_data, the form is digested (module ShaPadding), and the      *)
(* digest is stored for the deduplication stage (module Dedup), which      *)
(* compares nothing else.                                                  *)
(*                                                                         *)
(* A digest is the sequence of blocks folded into it: two digests are      *)
(* equal when these are, the strength of SHA-256 not being in question.    *)
(***************************************************************************)
EXTENDS Powers, SequencesExt

CONSTANTS Byte, output_len, LongestRun,        \* as in RunLength
          BlockSize, LengthSize, Radix, Unset, \* as in ShaPadding
          Inputs                               \* the sequences of chunks to digest

\* The last: the bits of what the buffer holds can be counted in LengthSize bytes.
ASSUME DigestAssumption ==
  /\ Inputs \subseteq Seq(Seq(Byte))
  /\ output_len \in Nat \ {0} /\ LongestRun \in Nat \ {0}
  /\ LengthSize \in Nat \ {0} /\ Radix \in Nat \ {0}
  /\ BlockSize \in Nat /\ BlockSize > LengthSize
  /\ 8 * output_len <= Power(Radix)[LengthSize]

VARIABLES chunks, n,      \* what chunking produced; the chunk being digested
          i, output,      \* rle_compress
          read, data, datalen, bitlen, state, \* calculate_sha256
          sha256_output,  \* the digests of the chunks before n
          forms,          \* what compressed_data held for each of them
          pc

ctx  == <<read, data, datalen, bitlen, state>>
done == <<chunks, n, sha256_output, forms>>
vars == <<done, i, output, ctx, pc>>

R == INSTANCE RunLength WITH input <- chunks[n]
S == INSTANCE ShaPadding WITH message <- FlattenSeq(output), i <- read

Init == /\ chunks \in Inputs
        /\ n = 1
        /\ R!Init /\ S!Init
        /\ sha256_output = << >> /\ forms = << >>
        /\ pc = IF chunks = << >> THEN "end" ELSE "compress"

rle_compress == /\ pc = "compress"
                /\ R!WriteRun
                /\ UNCHANGED <<done, ctx, pc>>

calculate_sha256 == /\ pc = "compress"
                    /\ ~ R!More
                    /\ S!sha256_init
                    /\ pc' = "update"
                    /\ UNCHANGED <<done, i, output>>

sha256_update == /\ pc = "update"
                 /\ S!Update
                 /\ UNCHANGED <<done, i, output, pc>>

sha256_final == /\ pc = "update"
                /\ S!sha256_final
                /\ pc' = "final"
                /\ UNCHANGED <<done, i, output>>

\* The digest is copied out; compressed_data is written afresh for the next chunk.
Store == /\ pc = "final"
         /\ sha256_output' = Append(sha256_output, state)
         /\ forms' = Append(forms, output)
         /\ n' = n + 1
         /\ i' = 0 /\ output' = << >>
         /\ pc' = IF n = Len(chunks) THEN "end" ELSE "compress"
         /\ UNCHANGED <<chunks, ctx>>

Next == \/ rle_compress
        \/ calculate_sha256 \/ sha256_update \/ sha256_final
        \/ Store

Spec == Init /\ [][Next]_vars
-----------------------------------------------------------------------------
\* The form in compressed_data fits and spells the bytes of the chunk it was made
\* from, at every step.
FormSpellsPrefix == pc # "end" => R!FormSpellsPrefix

\* What is folded in is the form padded as SHA-256 defines it, at every length: no
\* byte of it is lost between two blocks, and none that a block before, or a call
\* before, left in ctx->data gets in.
DigestsPaddedMessage == pc = "final" => FlattenSeq(state) = S!Padded

\* Two chunks have the same digest exactly when they have the same form, and two equal
\* chunks have the same form: a digest is a function of the content, as Dedup takes it
\* to be.  What compressed_data and sha_ctx hold from the chunk before plays no part.
DigestTellsForms ==
  \A l, m \in DOMAIN forms :
    /\ sha256_output[l] = sha256_output[m] <=> forms[l] = forms[m]
    /\ chunks[l] = chunks[m] => forms[l] = forms[m]

\* Two chunks that deduplication takes for the same are the same, or the buffer
\* was full and they agree on all that it had room for.
EqualDigestsEqualPrefixes ==
  \A l, m \in DOMAIN forms : sha256_output[l] = sha256_output[m] =>
    \/ chunks[l] = chunks[m]
    \/ /\ R!Full(forms[l])
       /\ IsPrefix(R!Expand(forms[l]), chunks[l])
       /\ IsPrefix(R!Expand(forms[l]), chunks[m])
=============================================================================

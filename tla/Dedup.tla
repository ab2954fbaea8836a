------------------------------- MODULE Dedup -------------------------------
(***************************************************************************)
(* The deduplication stage of the encoders (Server/encoder.cpp and         *)
(* hls/host.cpp): each chunk is compared, by digest, with the chunks       *)
(* before it; the first with the same digest is recorded as its original.  *)
(*                                                                         *)
(* One step is one iteration of the inner loop, or the entry of one of the *)
(* outer.  Chunks are numbered from 0, as in the code.                     *)
(***************************************************************************)
EXTENDS Integers

CONSTANTS Content,   \* what a chunk may contain
          Digest,    \* sha256 of the run-length form of a content; not
                     \* injective, as that form is cut to its buffer
          MaxChunks, \* bound on the chunks of a transfer
          Unset      \* what malloc leaves in an array

ASSUME DedupAssumption == /\ MaxChunks \in Nat \ {0}
                          /\ Unset \notin Nat
                          /\ DOMAIN Digest = Content

VARIABLES chunk_count, chunks,  \* what chunking produced
          dup_flag,             \* 1 when the chunk is a duplicate
          dup_index,            \* of which chunk: its own number if of none
          i, j,                 \* the loops
          pc

dupTable == <<dup_flag, dup_index>>
input == <<chunk_count, chunks>>
vars == <<input, dupTable, i, j, pc>>

Number == 0 .. chunk_count - 1

\* The entries of the table.  That of chunk 0 is written even when there is no
\* chunk: malloc(0) returns a block the allocator's least size, which holds it.
Entry == Number \cup {0}

sha256_output(n) == Digest[chunks[n]]
Same(m, n) == sha256_output(m) = sha256_output(n)

TypeOK == /\ chunk_count \in 0 .. MaxChunks
          /\ chunks \in [Number -> Content]
          /\ dup_flag \in [Entry -> {0, 1, Unset}]
          /\ dup_index \in [Entry -> Entry \cup {Unset}]
          /\ i \in Nat /\ i - 1 \in Entry /\ j \in 0 .. i
          /\ pc \in {"outer", "inner", "done"}

\* The entries of chunk 0 are written before the loop, whatever chunk_count is.
Init == /\ chunk_count \in 0 .. MaxChunks
        /\ chunks \in [Number -> Content]
        /\ dup_flag = [n \in Entry |-> IF n = 0 THEN 0 ELSE Unset]
        /\ dup_index = [n \in Entry |-> IF n = 0 THEN 0 ELSE Unset]
        /\ i = 1
        /\ j = 0
        /\ pc = "outer"

\* Mutants: the number is counted from 1; the entry of the earlier chunk is written.
NoteOneBased(n, flag, index) == /\ dup_flag' = [dup_flag EXCEPT ![n] = flag]
                                /\ dup_index' = [dup_index EXCEPT ![n] = index + 1]
NoteSwapped(n, flag, index) == /\ dup_flag' = [dup_flag EXCEPT ![index] = flag]
                               /\ dup_index' = [dup_index EXCEPT ![index] = n]

\* What the loops write of chunk n.
Note(n, flag, index) == /\ dup_flag' = [dup_flag EXCEPT ![n] = flag]
                        /\ dup_index' = [dup_index EXCEPT ![n] = index]

Enter == /\ pc = "outer"
         /\ i < chunk_count
         /\ Note(i, 0, i)
         /\ j' = 0
         /\ pc' = "inner"
         /\ UNCHANGED <<input, i>>

\* Chunk i is compared with chunk j and found equal or not.
Compared(equal) == pc = "inner" /\ j < i /\ (Same(i, j) <=> equal)

Differ == /\ Compared(FALSE)
          /\ j' = j + 1
          /\ UNCHANGED <<input, dupTable, i, pc>>

\* The search of chunk i is over.
NextChunk == /\ i' = i + 1
             /\ pc' = "outer"
             /\ UNCHANGED <<input, j>>

\* Mutant: the break is missing.
BreakMissing == j' = j + 1 /\ UNCHANGED <<input, i, pc>>

Break == NextChunk

\* The first chunk with the digest ends the search.
Match == /\ Compared(TRUE)
         /\ Note(i, 1, j)
         /\ Break

Exhaust == /\ pc = "inner"
           /\ j = i
           /\ UNCHANGED dupTable
           /\ NextChunk

Finish == /\ pc = "outer"
          /\ i >= chunk_count
          /\ pc' = "done"
          /\ UNCHANGED <<input, dupTable, i, j>>

Next == Enter \/ Differ \/ Match \/ Exhaust \/ Finish

Spec == Init /\ [][Next]_vars
-----------------------------------------------------------------------------
\* A chunk is the first of its digest.
First(n) == \A m \in 0 .. n - 1 : ~ Same(n, m)

\* The table of the chunks examined so far says exactly which are duplicates,
\* and names for each duplicate the earliest chunk with its digest.
FirstMatch ==
  \A n \in 0 .. i - 1 :
    \/ dup_flag[n] = 0 /\ dup_index[n] = n /\ First(n)
    \/ /\ dup_flag[n] = 1
       /\ dup_index[n] \in 0 .. n - 1
       /\ Same(n, dup_index[n])
       /\ First(dup_index[n])

\* A duplicate never names another duplicate: one step leads to stored text.
NoChains ==
  \A n \in 0 .. i - 1 : dup_flag[n] = 1 => dup_flag[dup_index[n]] = 0

\* A verdict is final: the search of a later chunk rewrites no earlier entry.
VerdictsFinal ==
  [][ \A n \in 0 .. i - 1 : /\ dup_flag'[n] = dup_flag[n]
                            /\ dup_index'[n] = dup_index[n] ]_vars

\* The inductive invariant: while chunk i is searched, its entry is that of an
\* unduplicated chunk and no chunk before j has its digest.
IInv == /\ TypeOK
        /\ FirstMatch
        /\ pc = "inner" => /\ i < chunk_count
                           /\ dup_flag[i] = 0 /\ dup_index[i] = i
                           /\ \A m \in 0 .. j - 1 : ~ Same(i, m)
=============================================================================

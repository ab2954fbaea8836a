--------------------------- MODULE Archive_proofs ---------------------------
(***************************************************************************)
(* What the table of duplicates names, what is in the output file and what *)
(* the decoder makes of it, whatever the chunks and their digests; of the  *)
(* decoder, as long as no dictionary overflowed.                           *)
(***************************************************************************)
EXTENDS Archive, FiniteSetTheorems, TLAPS

-----------------------------------------------------------------------------
(* Deduplication.                                                          *)

\* The table starts with its first entry made, and nothing examined.
LEMMA InitIInv == Init => IInv
<1> SUFFICES ASSUME Init PROVE IInv
  OBVIOUS
<1> USE DedupAssumption DEF Init, Number
<1>1. TypeOK
  BY DEF TypeOK, Entry
<1>2. FirstMatch
  BY DEF FirstMatch, First, Entry
<1> QED
  BY <1>1, <1>2 DEF IInv

\* Every iteration of the two loops preserves the invariant.
LEMMA StepIInv == IInv /\ [Next]_vars => IInv'
<1> SUFFICES ASSUME IInv, [Next]_vars PROVE IInv'
  OBVIOUS
<1> USE DedupAssumption DEF Note, Compared, Break, NextChunk, input, dupTable
<1>0. /\ chunk_count \in Nat /\ i \in Nat /\ j \in Nat /\ i >= 1
      /\ chunk_count >= 1 => i <= chunk_count
      /\ j <= i
  BY DEF IInv, TypeOK, Entry, Number
<1>1. CASE Enter
  <2>1. i \in Number
    BY <1>0, <1>1 DEF Enter, Number
  <2>2. TypeOK'
    BY <1>0, <1>1, <2>1 DEF Enter, IInv, TypeOK, Number, Entry
  <2>3. /\ dup_flag'[i] = 0 /\ dup_index'[i] = i
        /\ \A n \in 0 .. i - 1 : dup_flag'[n] = dup_flag[n] /\ dup_index'[n] = dup_index[n]
    BY <1>0, <1>1, <2>1 DEF Enter, IInv, TypeOK, Number, Entry
  <2>4. FirstMatch'
    BY <1>1, <2>3 DEF Enter, IInv, FirstMatch, First, Same, sha256_output
  <2> QED
    BY <1>1, <2>2, <2>3, <2>4 DEF Enter, IInv
<1>2. CASE Differ
  <2>1. TypeOK'
    BY <1>0, <1>2 DEF Differ, IInv, TypeOK, Number, Entry
  <2>2. FirstMatch'
    BY <1>2 DEF Differ, IInv, FirstMatch, First, Same, sha256_output
  <2>3. \A m \in 0 .. j' - 1 : ~ Same(i, m)
    BY <1>0, <1>2 DEF Differ, IInv
  <2> QED
    BY <1>2, <2>1, <2>2, <2>3 DEF Differ, IInv, Same, sha256_output
<1>3. CASE Match
  <2>1. i \in Number /\ j \in Number /\ i < chunk_count
    BY <1>0, <1>3 DEF Match, IInv, Number
  <2>2. TypeOK'
    BY <1>0, <1>3, <2>1 DEF Match, IInv, TypeOK, Number, Entry
  <2>3. /\ dup_flag'[i] = 1 /\ dup_index'[i] = j
        /\ \A n \in 0 .. i - 1 : dup_flag'[n] = dup_flag[n] /\ dup_index'[n] = dup_index[n]
    BY <1>0, <1>3, <2>1 DEF Match, IInv, TypeOK, Number, Entry
  <2>4. First(j)
    <3>1. ASSUME NEW m \in 0 .. j - 1 PROVE ~ Same(j, m)
      <4>1. ~ Same(i, m)
        BY <1>3, <3>1 DEF Match, IInv
      <4> QED
        BY <1>3, <4>1 DEF Match, Same
    <3> QED
      BY <3>1 DEF First
  <2>5. FirstMatch'
    <3>1. ASSUME NEW n \in 0 .. i
          PROVE  \/ dup_flag'[n] = 0 /\ dup_index'[n] = n /\ First(n)
                 \/ /\ dup_flag'[n] = 1 /\ dup_index'[n] \in 0 .. n - 1
                    /\ Same(n, dup_index'[n]) /\ First(dup_index'[n])
      <4>1. CASE n = i
        BY <1>0, <1>3, <2>3, <2>4, <4>1 DEF Match
      <4>2. CASE n # i
        BY <1>0, <2>3, <3>1, <4>2 DEF IInv, FirstMatch
      <4> QED
        BY <4>1, <4>2
    <3>2. i' - 1 = i /\ chunks' = chunks
      BY <1>0, <1>3 DEF Match
    <3> QED
      BY <3>1, <3>2 DEF FirstMatch, First, Same, sha256_output
  <2> QED
    BY <1>3, <2>2, <2>5 DEF Match, IInv
<1>4. CASE Exhaust
  <2>1. TypeOK'
    BY <1>0, <1>4 DEF Exhaust, IInv, TypeOK, Number, Entry
  <2>2. dup_flag[i] = 0 /\ dup_index[i] = i /\ First(i)
    BY <1>4 DEF Exhaust, IInv, First
  <2>3. \A n \in 0 .. i' - 1 : n = i \/ n \in 0 .. i - 1
    BY <1>0, <1>4 DEF Exhaust
  <2>4. FirstMatch'
    BY <1>4, <2>2, <2>3 DEF Exhaust, IInv, FirstMatch, First, Same, sha256_output
  <2> QED
    BY <1>4, <2>1, <2>4 DEF Exhaust, IInv
<1>5. CASE Finish \/ UNCHANGED vars
  <2>1. /\ UNCHANGED <<chunk_count, chunks, dup_flag, dup_index, i, j>>
        /\ pc' = "done" \/ pc' = pc
    BY <1>5 DEF Finish, vars
  <2>2. TypeOK'
    BY <2>1 DEF IInv, TypeOK, Number, Entry
  <2>3. FirstMatch'
    BY <2>1 DEF IInv, FirstMatch, First, Same, sha256_output
  <2>4. pc' = "inner" => pc = "inner"
    BY <2>1
  <2> QED
    BY <2>1, <2>2, <2>3, <2>4 DEF IInv, Same, sha256_output
<1> QED
  BY <1>1, <1>2, <1>3, <1>4, <1>5 DEF Next

\* The table is right for the chunks examined and the current search has missed
\* nothing, in every reachable state.
THEOREM DedupInvariance == Spec => []IInv
BY InitIInv, StepIInv, PTL DEF Spec

\* The table of duplicates is right for every chunk examined: it flags exactly
\* the chunks whose digest occurred before and names the earliest of those.
THEOREM DedupCorrect == Spec => []FirstMatch
<1>1. IInv => FirstMatch
  BY DEF IInv
<1> QED
  BY <1>1, DedupInvariance, PTL

\* Every duplicate names an unduplicated chunk.
THEOREM OneStepToText == Spec => []NoChains
<1>1. ASSUME IInv, NEW n \in 0 .. i - 1, dup_flag[n] = 1 PROVE dup_flag[dup_index[n]] = 0
  <2>1. i \in Nat
    BY <1>1 DEF IInv, TypeOK
  <2>2. dup_index[n] \in 0 .. n - 1 /\ First(dup_index[n])
    BY <1>1 DEF IInv, FirstMatch
  <2>3. dup_index[n] \in 0 .. i - 1
    BY <1>1, <2>1, <2>2
  <2>4. \A m \in 0 .. i - 1 : dup_flag[m] = 1 => \E o \in 0 .. m - 1 : Same(m, o)
    BY <1>1 DEF IInv, FirstMatch
  <2>5. dup_flag[dup_index[n]] # 1
    BY <2>2, <2>3, <2>4 DEF First
  <2> QED
    BY <1>1, <2>3, <2>5 DEF IInv, FirstMatch
<1>2. IInv => NoChains
  BY <1>1 DEF NoChains
<1> QED
  BY <1>2, DedupInvariance, PTL

\* No verdict is changed after its chunk's search.
THEOREM VerdictsAreFinal == Spec => VerdictsFinal
<1>1. IInv /\ [Next]_vars => \A n \in 0 .. i - 1 : /\ dup_flag'[n] = dup_flag[n]
                                                   /\ dup_index'[n] = dup_index[n]
  <2> SUFFICES ASSUME IInv, [Next]_vars, NEW n \in 0 .. i - 1
               PROVE  dup_flag'[n] = dup_flag[n] /\ dup_index'[n] = dup_index[n]
    OBVIOUS
  <2>1. n \in Entry /\ n # i
    BY DEF IInv, TypeOK, Number, Entry
  <2> QED
    BY <2>1 DEF IInv, TypeOK, Next, Enter, Differ, Match, Exhaust, Finish, vars,
                Note, Break, NextChunk, input, dupTable
<1> QED
  BY <1>1, DedupInvariance, PTL DEF Spec, VerdictsFinal

\* The type invariant of the stage, for any number of chunks.
THEOREM DedupTypes == Spec => []TypeOK
<1>1. IInv => TypeOK
  BY DEF IInv
<1> QED
  BY <1>1, DedupInvariance, PTL

-----------------------------------------------------------------------------
(* The output file.                                                        *)

\* The records a file may hold.
Records == {W!Own(n) : n \in Nat}

\* Nothing is written before the table is done; then the records match.
ArchiveInv ==
  /\ stage \in {"dedup", "write", "read", "end"}
  /\ k \in Nat
  /\ stage = "dedup" => k = 0 /\ out_buffer = << >>
  /\ W!NoOverflow(k) => /\ out_buffer \in Seq(Records)
                        /\ Len(out_buffer) = k
                        /\ \A n \in 0 .. k - 1 : out_buffer[n + 1] = W!Own(n)

\* A record appended is the next chunk's own, unless the compressor wrote none.
LEMMA WriteStep == ASSUME ArchiveInv, Write PROVE ArchiveInv'
<1>1. /\ stage = "write" /\ stage' = "write"
      /\ UNCHANGED <<chunk_count, chunks, dup_flag, dup_index>>
      /\ k \in Nat /\ k' = k + 1
      /\ out_buffer' = out_buffer \o temp_out'
  BY DEF ArchiveInv, Write, W!Next, W!WriteText, W!WriteDuplicate, W!WriteStale,
         W!AppendRecord, W!table
<1>2. \A n : W!Own(n)' = W!Own(n)
  BY <1>1 DEF W!Own, W!Text, W!Duplicate
<1>3. Records' = Records
  BY <1>2 DEF Records
<1>4. \A n : W!NoOverflow(n)' <=> W!NoOverflow(n)
  BY <1>1 DEF W!NoOverflow
<1>5. ASSUME W!NoOverflow(k + 1)
      PROVE  /\ out_buffer' \in Seq(Records) /\ Len(out_buffer') = k + 1
             /\ \A n \in 0 .. k : out_buffer'[n + 1] = W!Own(n)
  <2>1. W!NoOverflow(k) /\ (dup_flag[k] = 0 => chunks[k] \notin Overflowing)
    BY <1>5, <1>1 DEF W!NoOverflow
  <2>2. temp_out' = <<W!Own(k)>>
    BY <2>1 DEF Write, W!Next, W!WriteText, W!WriteDuplicate, W!WriteStale, W!Own
  <2>3. W!Own(k) \in Records
    BY <1>1 DEF Records
  <2>4. /\ out_buffer \in Seq(Records) /\ Len(out_buffer) = k
        /\ \A n \in 0 .. k - 1 : out_buffer[n + 1] = W!Own(n)
    BY <2>1 DEF ArchiveInv
  <2>5. <<W!Own(k)>> \in Seq(Records) /\ out_buffer' = out_buffer \o <<W!Own(k)>>
    BY <1>1, <2>2, <2>3
  <2>6. out_buffer' \in Seq(Records) /\ Len(out_buffer') = k + 1
    BY <2>4, <2>5, <1>1
  <2>7. ASSUME NEW n \in 0 .. k PROVE out_buffer'[n + 1] = W!Own(n)
    <3>1. CASE n = k
      BY <3>1, <2>4, <2>5, <1>1
    <3>2. CASE n # k
      <4>1. n \in 0 .. k - 1 /\ n + 1 \in 1 .. Len(out_buffer)
        BY <3>2, <2>4, <1>1
      <4>2. out_buffer'[n + 1] = out_buffer[n + 1]
        BY <4>1, <2>4, <2>5
      <4> QED
        BY <4>1, <4>2, <2>4
    <3> QED
      BY <3>1, <3>2
  <2> QED
    BY <2>6, <2>7
<1>6. W!NoOverflow(k)' => W!NoOverflow(k + 1)
  BY <1>1, <1>4 DEF W!NoOverflow
<1>7. W!NoOverflow(k)' =>
        /\ out_buffer' \in Seq(Records') /\ Len(out_buffer') = k'
        /\ \A n \in 0 .. k' - 1 : out_buffer'[n + 1] = W!Own(n)'
  BY <1>1, <1>2, <1>3, <1>5, <1>6
<1> QED
  BY <1>1, <1>7 DEF ArchiveInv

\* A step that writes no record leaves what is said of them alone; while the table
\* is still being filled in, nothing is said yet.
LEMMA OtherStep ==
  ASSUME ArchiveInv, UNCHANGED <<k, out_buffer>>, stage' \in {"dedup", "write", "read", "end"},
         stage' = "dedup" => stage = "dedup",
         k = 0 \/ UNCHANGED <<chunks, dup_flag, dup_index>>,
         stage = "dedup" \/ UNCHANGED <<chunks, dup_flag, dup_index>>
  PROVE  ArchiveInv'
<1>1. CASE UNCHANGED <<chunks, dup_flag, dup_index>>
  <2>1. \A n : W!Own(n)' = W!Own(n)
    BY <1>1 DEF W!Own, W!Text, W!Duplicate
  <2>2. Records' = Records
    BY <2>1 DEF Records
  <2>3. W!NoOverflow(k)' <=> W!NoOverflow(k)
    BY <1>1 DEF W!NoOverflow
  <2> QED
    BY <2>1, <2>2, <2>3 DEF ArchiveInv
<1>2. CASE k = 0 /\ out_buffer = << >>
  BY <1>2 DEF ArchiveInv
<1> QED
  BY <1>1, <1>2 DEF ArchiveInv

\* The invariant holds from the first chunk compared to the last record read.
THEOREM ArchiveInvariance == ArchiveSpec => []ArchiveInv
<1>1. ArchiveInit => ArchiveInv
  BY DEF ArchiveInit, ArchiveInv, W!Init
<1>2. ArchiveInv /\ [ArchiveNext]_archiveVars => ArchiveInv'
  <2> SUFFICES ASSUME ArchiveInv, [ArchiveNext]_archiveVars PROVE ArchiveInv'
    OBVIOUS
  <2>1. CASE Deduplicate
    <3>1. stage = "dedup" /\ stage' \in {"dedup", "write"} /\ UNCHANGED <<k, out_buffer>>
      BY <2>1 DEF Deduplicate, encoder
    <3>2. k = 0
      BY <3>1 DEF ArchiveInv
    <3> QED
      BY <3>1, <3>2, OtherStep
  <2>2. CASE Write
    BY <2>2, WriteStep
  <2>3. CASE Store
    BY <2>3, OtherStep DEF Store, vars, input, dupTable, encoder
  <2>4. CASE ReadText
    BY <2>4, OtherStep DEF ReadText, Reading, Read, vars, input, dupTable, encoder
  <2>5. CASE ReadDuplicate
    BY <2>5, OtherStep DEF ReadDuplicate, Reading, Read, vars, input, dupTable, encoder
  <2>6. CASE ReadEnd
    BY <2>6, OtherStep DEF ReadEnd, vars, input, dupTable, encoder
  <2>7. CASE UNCHANGED archiveVars
    BY <2>7, OtherStep DEF archiveVars, vars, input, dupTable, encoder, ArchiveInv
  <2> QED
    BY <2>1, <2>2, <2>3, <2>4, <2>5, <2>6, <2>7 DEF ArchiveNext
<1> QED
  BY <1>1, <1>2, PTL DEF ArchiveSpec

\* The records in the output file are one per chunk, in the order of the chunks,
\* and each is made from the chunk's own text and the chunk's own table entry.
THEOREM RecordsMatch == ArchiveSpec => []RecordsMatchChunks
<1>1. ArchiveInv => RecordsMatchChunks
  BY DEF ArchiveInv, RecordsMatchChunks, W!RecordsMatchChunks
<1> QED
  BY <1>1, ArchiveInvariance, PTL

\* The record appended for chunk n when f is the first chunk to have one.
ChunkRecord(n, f) ==
  \E m \in f .. n : LastWriter(m, n) /\ out_buffer[n - f + 1] = W!Own(m)

\* The buffer holds the record appended last, which the next chunk may find there.
NoneWritten    == out_buffer = << >> /\ temp_out = << >> /\ \A n \in 0 .. k - 1 : ~ Writes(n)
WrittenFrom(f) == /\ Writes(f) /\ \A o \in 0 .. f - 1 : ~ Writes(o)
                  /\ Len(out_buffer) = k - f
                  /\ \A n \in f .. k - 1 : ChunkRecord(n, f)
                  /\ \E m \in f .. k - 1 : LastWriter(m, k - 1) /\ temp_out = <<W!Own(m)>>

FollowInv == /\ out_buffer \in Seq(Records)
             /\ NoneWritten \/ \E f \in 0 .. k - 1 : WrittenFrom(f)

\* The record appended is that of the last chunk that had one made, this chunk's
\* own if it has.
LEMMA FollowStep == ASSUME ArchiveInv, FollowInv, Write PROVE FollowInv'
<1>1. /\ UNCHANGED <<chunk_count, chunks, dup_flag, dup_index>>
      /\ k \in Nat /\ k' = k + 1
      /\ out_buffer' = out_buffer \o temp_out'
  BY DEF ArchiveInv, Write, W!Next, W!WriteText, W!WriteDuplicate, W!WriteStale,
         W!AppendRecord, W!table
<1>2. \/ Writes(k) /\ temp_out' = <<W!Own(k)>>
      \/ ~ Writes(k) /\ temp_out' = temp_out
  BY DEF Write, W!Next, W!WriteText, W!WriteDuplicate, W!WriteStale, W!Own, Writes
<1>3. /\ \A n : W!Own(n)' = W!Own(n) /\ (Writes(n)' <=> Writes(n))
      /\ \A m, n : LastWriter(m, n)' <=> LastWriter(m, n)
  BY <1>1 DEF W!Own, W!Text, W!Duplicate, Writes, LastWriter
<1>4. Records' = Records
  BY <1>3 DEF Records
<1>5. CASE NoneWritten /\ ~ Writes(k)
  <2>1. out_buffer' = << >> /\ temp_out' = << >>
    BY <1>1, <1>2, <1>5 DEF NoneWritten
  <2>2. \A n \in 0 .. k' - 1 : ~ Writes(n)'
    BY <1>1, <1>3, <1>5 DEF NoneWritten
  <2> QED
    BY <2>1, <2>2 DEF FollowInv, NoneWritten
<1>6. ASSUME NEW f \in 0 .. k, Writes(f), \A o \in 0 .. f - 1 : ~ Writes(o),
             Len(out_buffer) = k - f, \A n \in f .. k - 1 : ChunkRecord(n, f),
             NEW m \in f .. k, LastWriter(m, k), temp_out' = <<W!Own(m)>>
      PROVE  FollowInv'
  <2>1. out_buffer \in Seq(Records) /\ W!Own(m) \in Records
    BY <1>1 DEF FollowInv, Records
  <2>2. out_buffer' = Append(out_buffer, W!Own(m))
    BY <1>1, <1>6, <2>1
  <2>3. out_buffer' \in Seq(Records) /\ Len(out_buffer') = k' - f
    BY <1>1, <1>6, <2>1, <2>2
  <2>4. ASSUME NEW n \in f .. k' - 1 PROVE ChunkRecord(n, f)'
    <3>1. CASE n = k
      <4>0. n - f + 1 = Len(out_buffer) + 1
        BY <1>6, <3>1
      <4>1. out_buffer'[n - f + 1] = W!Own(m)
        BY <2>1, <2>2, <4>0
      <4>2. LastWriter(m, n)' /\ out_buffer'[n - f + 1] = W!Own(m)'
        BY <1>3, <1>6, <3>1, <4>1
      <4>3. m \in f .. n
        BY <3>1
      <4> QED
        BY <4>2, <4>3 DEF ChunkRecord
    <3>2. CASE n # k
      <4>1. n \in f .. k - 1 /\ n - f + 1 \in 1 .. Len(out_buffer)
        BY <1>1, <1>6, <3>2
      <4>2. out_buffer'[n - f + 1] = out_buffer[n - f + 1]
        BY <2>1, <2>2, <4>1
      <4>3. PICK o \in f .. n : LastWriter(o, n) /\ out_buffer[n - f + 1] = W!Own(o)
        BY <1>6, <4>1 DEF ChunkRecord
      <4>4. LastWriter(o, n)' /\ out_buffer'[n - f + 1] = W!Own(o)'
        BY <1>3, <4>2, <4>3
      <4> QED
        BY <4>4 DEF ChunkRecord
    <3> QED
      BY <3>1, <3>2
  <2>5. f \in 0 .. k' - 1 /\ m \in f .. k' - 1 /\ k' - 1 = k
    BY <1>1
  <2>6. LastWriter(m, k - 1)' /\ temp_out' = <<W!Own(m)>>'
    <3>1. LastWriter(m, k - 1)'
      <4>1. Writes(m)' /\ \A o \in m + 1 .. k : ~ Writes(o)'
        <5>1. \A n : Writes(n)' <=> Writes(n)
          BY <1>3
        <5> QED
          BY <1>6, <5>1 DEF LastWriter
      <4>2. k' - 1 = k
        BY <1>1
      <4> QED
        BY <4>1, <4>2 DEF LastWriter
    <3> QED
      BY <1>3, <1>6, <3>1
  <2>7. Writes(f)' /\ \A o \in 0 .. f - 1 : ~ Writes(o)'
    <3>1. \A n : Writes(n)' <=> Writes(n)
      BY <1>3
    <3> QED
      BY <1>6, <3>1
  <2>8. WrittenFrom(f)'
    BY <2>3, <2>4, <2>5, <2>6, <2>7 DEF WrittenFrom
  <2> QED
    BY <1>4, <2>3, <2>5, <2>8 DEF FollowInv
<1>7. ASSUME Writes(k) PROVE LastWriter(k, k) /\ temp_out' = <<W!Own(k)>>
  BY <1>1, <1>2, <1>7 DEF LastWriter
<1>8. CASE NoneWritten /\ Writes(k)
  <2>1. Len(out_buffer) = k - k /\ \A n \in k .. k - 1 : ChunkRecord(n, k)
    BY <1>1, <1>8 DEF NoneWritten
  <2>2. \A o \in 0 .. k - 1 : ~ Writes(o)
    BY <1>8 DEF NoneWritten
  <2> QED
    BY <1>1, <1>6, <1>7, <1>8, <2>1, <2>2
<1>9. ASSUME NEW f \in 0 .. k - 1, WrittenFrom(f) PROVE FollowInv'
  <2>1. f \in 0 .. k /\ k \in f .. k
    BY <1>1
  <2>2. CASE Writes(k)
    BY <1>6, <1>7, <1>9, <2>1, <2>2 DEF WrittenFrom
  <2>3. CASE ~ Writes(k)
    <3>1. PICK m \in f .. k - 1 : LastWriter(m, k - 1) /\ temp_out = <<W!Own(m)>>
      BY <1>9 DEF WrittenFrom
    <3>2. m \in f .. k /\ temp_out' = <<W!Own(m)>>
      BY <1>1, <1>2, <2>3, <3>1
    <3>3. LastWriter(m, k)
      BY <1>1, <2>3, <3>1 DEF LastWriter
    <3> QED
      BY <1>6, <1>9, <2>1, <3>2, <3>3 DEF WrittenFrom
  <2> QED
    BY <2>2, <2>3
<1> QED
  BY <1>5, <1>8, <1>9 DEF FollowInv

\* A step that writes no record; before the first, nothing is said of the table.
LEMMA FollowOther ==
  ASSUME ArchiveInv, FollowInv, UNCHANGED encoder,
         k = 0 \/ UNCHANGED <<chunks, dup_flag, dup_index>>
  PROVE  FollowInv'
<1>1. CASE UNCHANGED <<chunks, dup_flag, dup_index>>
  <2>1. UNCHANGED <<k, temp_out, out_buffer>>
    BY DEF encoder
  <2>2. /\ \A n : W!Own(n)' = W!Own(n) /\ (Writes(n)' <=> Writes(n))
        /\ \A m, n : LastWriter(m, n)' <=> LastWriter(m, n)
    BY <1>1 DEF W!Own, W!Text, W!Duplicate, Writes, LastWriter
  <2>3. Records' = Records
    BY <2>2 DEF Records
  <2>4. NoneWritten' <=> NoneWritten
    BY <2>1, <2>2 DEF NoneWritten
  <2>5. \A f : WrittenFrom(f)' <=> WrittenFrom(f)
    BY <2>1, <2>2 DEF WrittenFrom, ChunkRecord
  <2> QED
    BY <2>1, <2>3, <2>4, <2>5 DEF FollowInv
<1>2. CASE k = 0
  <2>1. NoneWritten
    BY <1>2 DEF FollowInv
  <2>2. out_buffer' = << >> /\ temp_out' = << >> /\ k' = 0
    BY <1>2, <2>1 DEF NoneWritten, encoder
  <2> QED
    BY <2>2 DEF FollowInv, NoneWritten
<1> QED
  BY <1>1, <1>2

\* What is in the output file whether or not the compressor wrote every record: no
\* record before the first one made, then one for every chunk, that of the last
\* chunk up to it for which one was made.  A chunk whose dictionary ran full is in
\* the file as a copy of the record before, of whichever kind.
THEOREM RecordsFollow == ArchiveSpec => []RecordsFollowChunks
<1>1. ArchiveInit => FollowInv
  BY DEF ArchiveInit, W!Init, FollowInv, NoneWritten
<1>2. ArchiveInv /\ FollowInv /\ [ArchiveNext]_archiveVars => FollowInv'
  <2> SUFFICES ASSUME ArchiveInv, FollowInv, [ArchiveNext]_archiveVars PROVE FollowInv'
    OBVIOUS
  <2>1. CASE Deduplicate
    BY <2>1, FollowOther DEF Deduplicate, ArchiveInv
  <2>2. CASE Write
    BY <2>2, FollowStep
  <2>3. CASE Store \/ ReadText \/ ReadDuplicate \/ ReadEnd \/ UNCHANGED archiveVars
    <3>1. UNCHANGED encoder /\ UNCHANGED <<chunks, dup_flag, dup_index>>
      BY <2>3 DEF Store, ReadText, ReadDuplicate, ReadEnd, archiveVars, vars, input, dupTable
    <3> QED
      BY <3>1, FollowOther
  <2> QED
    BY <2>1, <2>2, <2>3 DEF ArchiveNext
<1>3. FollowInv => RecordsFollowChunks
  BY DEF FollowInv, NoneWritten, WrittenFrom, ChunkRecord, RecordsFollowChunks
<1> QED
  BY <1>1, <1>2, <1>3, ArchiveInvariance, PTL DEF ArchiveSpec

\* The archive runs the deduplication stage as it is: what is proved of the stage
\* holds of the table while it is written and read.
THEOREM ArchiveDeduplicates == ArchiveSpec => Spec
<1>1. ArchiveInit => Init
  BY DEF ArchiveInit
<1>2. [ArchiveNext]_archiveVars => [Next]_vars
  BY DEF ArchiveNext, archiveVars, Deduplicate, Write, W!Next, W!WriteText, W!WriteDuplicate,
         W!WriteStale, W!AppendRecord, W!table, Store, ReadText, ReadDuplicate, ReadEnd,
         vars, input, dupTable
<1> QED
  BY <1>1, <1>2, PTL DEF ArchiveSpec, Spec

\* Duplicates before a chunk, counted one chunk further.
LEMMA CountedBefore ==
  ASSUME NEW n \in Nat
  PROVE  /\ DuplicatesBefore(n) \in Nat
         /\ dup_flag[n] = 1 => DuplicatesBefore(n + 1) = DuplicatesBefore(n) + 1
         /\ dup_flag[n] # 1 => DuplicatesBefore(n + 1) = DuplicatesBefore(n)
<1> DEFINE S(m) == {o \in 0 .. m - 1 : dup_flag[o] = 1}
<1>1. IsFiniteSet(0 .. n - 1)
  BY FS_Interval
<1>2. S(n) \in SUBSET (0 .. n - 1)
  OBVIOUS
<1>3. IsFiniteSet(S(n))
  BY <1>1, <1>2, FS_Subset
<1>4. Cardinality(S(n)) \in Nat
  BY <1>3, FS_CardinalityType
<1>5. CASE dup_flag[n] = 1
  <2>1. S(n + 1) = S(n) \cup {n} /\ n \notin S(n)
    BY <1>5
  <2>2. Cardinality(S(n + 1)) = Cardinality(S(n)) + 1
    BY <1>3, <2>1, FS_AddElement
  <2> QED
    BY <1>4, <1>5, <2>2 DEF DuplicatesBefore
<1>6. CASE dup_flag[n] # 1
  <2>1. S(n + 1) = S(n)
    BY <1>6
  <2> QED
    BY <1>4, <1>6, <2>1 DEF DuplicatesBefore
<1> QED
  BY <1>5, <1>6

\* The case split of RestoredWhenUnshifted, for one record.
RestoredAt(n) ==
  \/ dup_flag[n] = 0 /\ Output[n + 1] = <<chunks[n]>>
  \/ dup_flag[n] = 1 /\ DuplicatesBefore(dup_index[n]) > 0
  \/ /\ dup_flag[n] = 1
     /\ Output[n + 1] = <<chunks[dup_index[n]]>>
     /\ Digest[Output[n + 1][1]] = Digest[chunks[n]]

\* A chunk stored as text is in the decoder's list, under its shifted number.
ListedAt(n) == /\ n - DuplicatesBefore(n) + 1 \in 1 .. Len(Chunks)
               /\ Chunks[n - DuplicatesBefore(n) + 1] = chunks[n]

Faithful == /\ reader <= chunk_count
            /\ Chunks \in Seq(Content) /\ Len(Chunks) = reader - DuplicatesBefore(reader)
            /\ Output \in Seq({<< >>} \cup {<<c>> : c \in Content}) /\ Len(Output) = reader
            /\ \A n \in 0 .. reader - 1 : dup_flag[n] = 0 => ListedAt(n)
            /\ \A n \in 0 .. reader - 1 : RestoredAt(n)

\* While the decoder reads, the table is complete and every chunk has its record.
ReadInv ==
  /\ reader \in Nat
  /\ stage \in {"dedup", "write"} => reader = 0 /\ Chunks = << >> /\ Output = << >>
  /\ stage # "dedup" => i >= chunk_count
  /\ stage \in {"read", "end"} => k = chunk_count
  /\ stage \in {"read", "end"} /\ W!NoOverflow(chunk_count) => Faithful

\* The record read is the next chunk's own, and the table is right about it.
LEMMA CurrentRecord ==
  ASSUME IInv, ArchiveInv, ReadInv, W!NoOverflow(chunk_count), NEW dup \in BOOLEAN, Reading(dup)
  PROVE  /\ reader \in Nat /\ reader < chunk_count /\ chunks[reader] \in Content
         /\ current = W!Own(reader)
         /\ dup = (dup_flag[reader] = 1)
         /\ dup_flag[reader] \in {0, 1}
         /\ dup_flag[reader] = 1 =>
              /\ dup_index[reader] \in 0 .. reader - 1
              /\ Same(reader, dup_index[reader])
              /\ dup_flag[dup_index[reader]] = 0
              /\ chunks[dup_index[reader]] \in Content
<1>1. stage = "read" /\ k = chunk_count /\ i >= chunk_count
  BY DEF Reading, ReadInv
<1>2. reader \in Nat /\ reader < chunk_count /\ chunk_count \in Nat /\ i \in Nat
  BY <1>1 DEF Reading, ReadInv, ArchiveInv, IInv, TypeOK
<1>3. current = W!Own(reader)
  BY <1>1, <1>2 DEF ArchiveInv, current
<1>4. reader \in 0 .. i - 1
  BY <1>1, <1>2
<1>5. /\ dup_flag[reader] \in {0, 1}
      /\ dup_flag[reader] = 1 => /\ dup_index[reader] \in 0 .. reader - 1
                                 /\ Same(reader, dup_index[reader])
                                 /\ First(dup_index[reader])
  BY <1>4 DEF IInv, FirstMatch
<1>6. dup_flag[reader] = 1 => dup_flag[dup_index[reader]] = 0
  <2>1. \A m \in 0 .. i - 1 : dup_flag[m] = 0 \/ \E o \in 0 .. m - 1 : Same(m, o)
    BY DEF IInv, FirstMatch
  <2>2. dup_flag[reader] = 1 => dup_index[reader] \in 0 .. i - 1
    BY <1>2, <1>4, <1>5
  <2> QED
    BY <1>5, <2>1, <2>2 DEF First
<1>7. dup = (dup_flag[reader] = 1)
  BY <1>3 DEF Reading, W!Own, W!Text, W!Duplicate
<1>8. chunks \in [Number -> Content] /\ reader \in Number
  BY <1>2 DEF IInv, TypeOK, Number
<1>9. dup_flag[reader] = 1 => dup_index[reader] \in Number
  BY <1>2, <1>5 DEF Number
<1> QED
  BY <1>2, <1>3, <1>5, <1>6, <1>7, <1>8, <1>9

\* Reading a record keeps the list and the output faithful, once it is known what
\* the record adds to each.
LEMMA ReadKeepsFaithful ==
  ASSUME Faithful, reader \in Nat, reader < chunk_count,
         UNCHANGED <<chunk_count, chunks, dup_flag, dup_index>>,
         NEW output \in {<< >>} \cup {<<c>> : c \in Content},
         Read(output, IF dup_flag[reader] = 1 THEN << >> ELSE <<chunks[reader]>>),
         dup_flag[reader] \in {0, 1}, chunks[reader] \in Content, chunk_count \in Nat,
         \/ dup_flag[reader] = 0 /\ output = <<chunks[reader]>>
         \/ dup_flag[reader] = 1 /\ DuplicatesBefore(dup_index[reader]) > 0
         \/ /\ dup_flag[reader] = 1
            /\ output = <<chunks[dup_index[reader]]>>
            /\ Digest[output[1]] = Digest[chunks[reader]]
  PROVE  Faithful'
<1> DEFINE kept == IF dup_flag[reader] = 1 THEN << >> ELSE <<chunks[reader]>>
           before == DuplicatesBefore(reader)
<1>1. /\ reader' = reader + 1 /\ Chunks' = Chunks \o kept
      /\ Output' = Append(Output, output)
  BY DEF Read
<1>2. \A n : DuplicatesBefore(n)' = DuplicatesBefore(n)
  BY DEF DuplicatesBefore
<1>3. /\ Chunks \in Seq(Content) /\ Len(Chunks) = reader - before
      /\ Output \in Seq({<< >>} \cup {<<c>> : c \in Content}) /\ Len(Output) = reader
  BY DEF Faithful
<1>4. kept \in Seq(Content)
  OBVIOUS
<1>5. before \in Nat
  BY CountedBefore
<1>6. DuplicatesBefore(reader)' = before + 1 - Len(kept)
  <2>1. DuplicatesBefore(reader)' = DuplicatesBefore(reader + 1)
    BY <1>1 DEF DuplicatesBefore
  <2>2. CASE dup_flag[reader] = 1
    <3>1. DuplicatesBefore(reader)' = before + 1
      BY <2>1, <2>2, CountedBefore
    <3>2. Len(kept) = 0
      BY <2>2
    <3> QED
      BY <1>5, <3>1, <3>2
  <2>3. CASE dup_flag[reader] = 0
    <3>1. dup_flag[reader] # 1
      BY <2>3
    <3>2. DuplicatesBefore(reader)' = before
      BY <2>1, <3>1, CountedBefore
    <3> QED
      BY <1>5, <2>3, <3>2
  <2> QED
    BY <2>2, <2>3
<1> HIDE DEF before
<1>7. Chunks' \in Seq(Content) /\ Len(Chunks') = Len(Chunks) + Len(kept)
  BY <1>1, <1>3, <1>4
<1>8. Len(Chunks') = reader' - DuplicatesBefore(reader)'
  BY <1>1, <1>3, <1>5, <1>6, <1>7
<1>9. Output' \in Seq({<< >>} \cup {<<c>> : c \in Content}) /\ Len(Output') = reader'
  BY <1>1, <1>3
<1>10. ASSUME NEW n \in 0 .. reader' - 1, dup_flag'[n] = 0 PROVE ListedAt(n)'
  <2>1. CASE n = reader
    <3>1. kept = <<chunks[n]>> /\ n - DuplicatesBefore(n)' + 1 = Len(Chunks) + 1
      BY <2>1, <1>10, <1>2, <1>3, <1>5 DEF before
    <3>2. Chunks'[Len(Chunks) + 1] = chunks[n]
      BY <1>1, <1>3, <1>4, <3>1
    <3> QED
      BY <1>3, <1>7, <3>1, <3>2 DEF ListedAt
  <2>2. CASE n # reader
    <3>1. n \in 0 .. reader - 1 /\ dup_flag[n] = 0
      BY <2>2, <1>10, <1>1
    <3>2. ListedAt(n)
      BY <3>1 DEF Faithful
    <3> QED
      BY <1>1, <1>2, <1>3, <1>4, <1>7, <3>2 DEF ListedAt
  <2> QED
    BY <2>1, <2>2
<1>11. ASSUME NEW n \in 0 .. reader' - 1 PROVE RestoredAt(n)'
  <2>1. CASE n = reader
    <3>1. Output'[n + 1] = output
      BY <2>1, <1>1, <1>3
    <3> QED
      BY <2>1, <1>2, <3>1 DEF RestoredAt
  <2>2. CASE n # reader
    <3>1. n \in 0 .. reader - 1
      BY <2>2, <1>11, <1>1
    <3>2. RestoredAt(n) /\ Output'[n + 1] = Output[n + 1]
      BY <1>1, <1>3, <3>1 DEF Faithful
    <3> QED
      BY <1>2, <3>2 DEF RestoredAt
  <2> QED
    BY <2>1, <2>2
<1> QED
  BY <1>1, <1>8, <1>7, <1>9, <1>10, <1>11 DEF Faithful

\* The invariant of the decoder, relative to those of the stages before it.
LEMMA ReadStep ==
  ASSUME IInv, ArchiveInv, ReadInv, W!NoOverflow(chunk_count), ReadText \/ ReadDuplicate
  PROVE  Faithful'
<1>1. UNCHANGED <<chunk_count, chunks, dup_flag, dup_index>> /\ stage = "read"
  BY DEF ReadText, ReadDuplicate, Reading, vars, input, dupTable
<1>2. Faithful /\ reader \in Nat /\ chunk_count \in Nat
  BY <1>1 DEF ReadInv, IInv, TypeOK
<1>3. CASE ReadText
  <2>1. Reading(FALSE) /\ Read(<<current.text>>, <<current.text>>)
    BY <1>3 DEF ReadText
  <2>2. /\ reader < chunk_count /\ chunks[reader] \in Content
        /\ dup_flag[reader] = 0 /\ current = W!Own(reader)
    BY <2>1, CurrentRecord
  <2>3. current.text = chunks[reader]
    BY <2>2 DEF W!Own, W!Text
  <2> QED
    BY <1>1, <1>2, <2>1, <2>2, <2>3, ReadKeepsFaithful
<1>4. CASE ReadDuplicate
  <2> DEFINE Location == current.index
             output == IF Location < Len(Chunks) THEN <<Chunks[Location + 1]>> ELSE << >>
  <2>1. Reading(TRUE) /\ Read(output, << >>)
    BY <1>4 DEF ReadDuplicate
  <2>2. /\ reader < chunk_count /\ chunks[reader] \in Content
        /\ dup_flag[reader] = 1 /\ current = W!Own(reader)
        /\ dup_index[reader] \in 0 .. reader - 1
        /\ Same(reader, dup_index[reader])
        /\ dup_flag[dup_index[reader]] = 0
        /\ chunks[dup_index[reader]] \in Content
    BY <2>1, CurrentRecord
  <2>3. Location = dup_index[reader]
    BY <2>2 DEF W!Own, W!Duplicate
  <2>4. Chunks \in Seq(Content)
    BY <1>2 DEF Faithful
  <2>5. Location \in Nat
    BY <1>2, <2>2, <2>3
  <2>6. output \in {<< >>} \cup {<<c>> : c \in Content}
    BY <2>4, <2>5
  <2>7. ListedAt(Location) /\ DuplicatesBefore(Location) \in Nat
    BY <1>2, <2>2, <2>3, <2>5, CountedBefore DEF Faithful
  <2>8. DuplicatesBefore(Location) = 0 => output = <<chunks[Location]>>
    BY <2>5, <2>7 DEF ListedAt
  <2>9. Digest[chunks[Location]] = Digest[chunks[reader]]
    BY <2>2, <2>3 DEF Same, sha256_output
  <2>10. \/ DuplicatesBefore(dup_index[reader]) > 0
         \/ output = <<chunks[dup_index[reader]]>> /\ Digest[output[1]] = Digest[chunks[reader]]
    BY <2>3, <2>7, <2>8, <2>9
  <2> HIDE DEF output
  <2> QED
    BY <1>1, <1>2, <2>1, <2>2, <2>6, <2>10, ReadKeepsFaithful
<1> QED
  BY <1>3, <1>4

\* Every step preserves what the decoder has read.
LEMMA ReadInvStep ==
  ASSUME IInv, ArchiveInv, ReadInv, [ArchiveNext]_archiveVars PROVE ReadInv'
<1> USE DEF vars, input, dupTable, encoder, decoder
<1>0. chunk_count \in Nat /\ i \in Nat
  BY DEF IInv, TypeOK
<1>1. CASE Deduplicate
  <2>1. pc' = "done" => i' >= chunk_count'
    BY <1>1 DEF Deduplicate, Next, Enter, Differ, Compared, Match, Break, Exhaust, NextChunk, Finish
  <2> QED
    BY <1>1, <2>1 DEF Deduplicate, ReadInv
<1>2. CASE Write
  <2>1. /\ stage = "write" /\ stage' = "write"
        /\ UNCHANGED <<i, chunk_count, reader, Chunks, Output>>
    BY <1>2 DEF Write, W!Next, W!WriteText, W!WriteDuplicate, W!WriteStale, W!AppendRecord, W!table
  <2> QED
    BY <2>1 DEF ReadInv
<1>3. CASE Store
  <2>1. /\ reader' = 0 /\ Chunks' = << >> /\ Output' = << >> /\ stage' = "read" /\ k' = chunk_count'
        /\ UNCHANGED <<chunk_count, i>> /\ i >= chunk_count
    BY <1>3 DEF Store, ReadInv
  <2>2. DuplicatesBefore(reader)' = 0
    <3>1. {m \in 0 .. 0 - 1 : dup_flag'[m] = 1} = {}
      OBVIOUS
    <3>2. DuplicatesBefore(reader)' = Cardinality({m \in 0 .. 0 - 1 : dup_flag'[m] = 1})
      BY <2>1 DEF DuplicatesBefore
    <3> QED
      BY <3>1, <3>2, FS_EmptySet
  <2>3. Faithful'
    BY <1>0, <2>1, <2>2 DEF Faithful
  <2> QED
    BY <2>1, <2>3 DEF ReadInv
<1>4. CASE ReadText \/ ReadDuplicate
  <2>1. /\ reader' = reader + 1 /\ stage = "read" /\ stage' = "read"
        /\ UNCHANGED <<chunk_count, chunks, dup_flag, dup_index, i, k>>
    BY <1>4 DEF ReadText, ReadDuplicate, Reading, Read
  <2>2. W!NoOverflow(chunk_count)' <=> W!NoOverflow(chunk_count)
    BY <2>1 DEF W!NoOverflow
  <2>3. W!NoOverflow(chunk_count) => Faithful'
    BY <1>4, ReadStep
  <2> QED
    BY <2>1, <2>2, <2>3 DEF ReadInv
<1>5. CASE ReadEnd \/ UNCHANGED archiveVars
  <2>1. /\ UNCHANGED <<chunk_count, chunks, dup_flag, dup_index, i, k, reader, Chunks, Output>>
        /\ stage' = stage \/ (stage = "read" /\ stage' = "end")
    BY <1>5 DEF ReadEnd, archiveVars
  <2>2. W!NoOverflow(chunk_count)' <=> W!NoOverflow(chunk_count)
    BY <2>1 DEF W!NoOverflow
  <2>3. Faithful' <=> Faithful
    BY <2>1 DEF Faithful, ListedAt, RestoredAt, DuplicatesBefore
  <2> QED
    BY <2>1, <2>2, <2>3 DEF ReadInv
<1> QED
  BY <1>1, <1>2, <1>3, <1>4, <1>5 DEF ArchiveNext

\* The decoder's list and output are right for the records read, always.
THEOREM ReadInvariance == ArchiveSpec => []ReadInv
<1>1. ArchiveInit => ReadInv
  BY DEF ArchiveInit, Init, W!Init, ReadInv
<1>2. IInv /\ ArchiveInv /\ ReadInv /\ [ArchiveNext]_archiveVars => ReadInv'
  BY ReadInvStep
<1>3. ArchiveSpec => []IInv
  BY ArchiveDeduplicates, DedupInvariance, PTL
<1> QED
  BY <1>1, <1>2, <1>3, ArchiveInvariance, PTL DEF ArchiveSpec

\* A chunk stored as text is in the decoder's list, as many places before its
\* number as there are duplicates before it: the numbers in the records are off
\* by exactly that.
THEOREM ListShifted == ArchiveSpec => []ListIsShifted
<1>1. ReadInv => ListIsShifted
  BY DEF ReadInv, ListIsShifted, Faithful, ListedAt
<1> QED
  BY <1>1, ReadInvariance, PTL

\* The decoder restores every chunk stored as text and every duplicate whose
\* original precedes all duplicates, whatever the chunks.
THEOREM Restored == ArchiveSpec => []RestoredWhenUnshifted
<1>1. ArchiveInv /\ ReadInv => RestoredWhenUnshifted
  <2> SUFFICES ASSUME ArchiveInv, ReadInv, W!NoOverflow(chunk_count), NEW n \in 0 .. reader - 1
               PROVE  RestoredAt(n)
    BY DEF RestoredWhenUnshifted, RestoredAt
  <2>1. stage \in {"read", "end"}
    BY DEF ArchiveInv, ReadInv
  <2> QED
    BY <2>1 DEF ReadInv, Faithful
<1> QED
  BY <1>1, ArchiveInvariance, ReadInvariance, PTL

\* The type invariant is inductive with that of Dedup: the table must be complete
\* when it is written from, and its numbers those of chunks.
TypeInv == /\ IInv
           /\ ArchiveTypeOK
           /\ stage # "dedup" => i >= chunk_count

\* The archive starts with its types.
LEMMA InitTypes == ArchiveInit => TypeInv
BY InitIInv DEF ArchiveInit, W!Init, TypeInv, IInv, ArchiveTypeOK, TypeOK, Number

\* A record written names chunks of the transfer.
LEMMA WriteTypes == ASSUME TypeInv, Write PROVE ArchiveTypeOK'
<1>1. /\ stage = "write" /\ k < chunk_count /\ k' = k + 1
      /\ UNCHANGED <<vars, decoder, stage>> /\ out_buffer' = out_buffer \o temp_out'
  BY DEF Write, W!Next, W!WriteText, W!WriteDuplicate, W!WriteStale, W!AppendRecord,
         W!table, vars, input, dupTable
<1>2. k \in Number /\ k \in 0 .. i - 1 /\ chunk_count \in Nat /\ i \in Nat
  BY <1>1 DEF TypeInv, ArchiveTypeOK, TypeOK, Number
<1>3. chunks[k] \in Content /\ dup_index[k] \in Number
  BY <1>2 DEF TypeInv, IInv, TypeOK, FirstMatch, Number
<1>4. W!Text(chunks[k]) \in Record /\ W!Duplicate(dup_index[k]) \in Record
  BY <1>3 DEF W!Text, W!Duplicate, Record
<1>5. temp_out' \in {<< >>} \cup {<<r>> : r \in Record}
  BY <1>4 DEF Write, W!Next, W!WriteText, W!WriteDuplicate, W!WriteStale, TypeInv, ArchiveTypeOK
<1>6. temp_out' \in Seq(Record)
  <2>1. \A r \in Record : <<r>> \in Seq(Record)
    OBVIOUS
  <2>2. << >> \in Seq(Record)
    OBVIOUS
  <2> QED
    BY <1>5, <2>1, <2>2, Zenon
<1>7. out_buffer' \in Seq(Record) /\ Len(out_buffer') = Len(out_buffer) + Len(temp_out')
  BY <1>1, <1>6 DEF TypeInv, ArchiveTypeOK
<1>8. reader \in 0 .. Len(out_buffer')
  <2>1. Len(temp_out') \in Nat /\ Len(out_buffer) \in Nat
    BY <1>6 DEF TypeInv, ArchiveTypeOK
  <2> QED
    BY <1>7, <2>1 DEF TypeInv, ArchiveTypeOK
<1>9. Record' = Record /\ TypeOK'
  BY <1>1 DEF Record, Number, TypeInv, IInv, TypeOK, Entry, vars, input, dupTable
<1> QED
  BY <1>1, <1>2, <1>5, <1>7, <1>8, <1>9 DEF TypeInv, ArchiveTypeOK, vars, input, decoder

\* A record read makes a chunk or nothing.
LEMMA ReadTypes ==
  ASSUME TypeInv, NEW dup \in BOOLEAN, Reading(dup), UNCHANGED <<vars, encoder, stage>>,
         NEW output \in {<< >>} \cup {<<c>> : c \in Content},
         NEW kept \in {<< >>} \cup {<<c>> : c \in Content}, Read(output, kept)
  PROVE  ArchiveTypeOK'
<1>1. reader' \in 0 .. Len(out_buffer)
  BY DEF Reading, Read, TypeInv, ArchiveTypeOK
<1>2. Chunks' \in Seq(Content) /\ Output' \in Seq({<< >>} \cup {<<c>> : c \in Content})
  <2>1. (\A c \in Content : <<c>> \in Seq(Content)) /\ << >> \in Seq(Content)
    OBVIOUS
  <2>2. kept \in Seq(Content)
    BY <2>1, Zenon
  <2> QED
    BY <2>2 DEF Read, TypeInv, ArchiveTypeOK
<1>3. Record' = Record /\ TypeOK'
  BY DEF Record, Number, TypeInv, IInv, TypeOK, Entry, vars, input, dupTable
<1> QED
  BY <1>1, <1>2, <1>3 DEF TypeInv, ArchiveTypeOK, vars, input, encoder

\* The type invariant of the archive: the numbers in the file are those of chunks,
\* and the decoder writes a chunk or nothing, whatever overflows.
THEOREM ArchiveTypes == ArchiveSpec => []ArchiveTypeOK
<1>1. ASSUME TypeInv, [ArchiveNext]_archiveVars PROVE TypeInv'
  <2>1. [Next]_vars
    BY <1>1 DEF ArchiveNext, archiveVars, Deduplicate, Write, W!Next, W!WriteText,
           W!WriteDuplicate, W!WriteStale, W!AppendRecord, W!table, Store, ReadText,
           ReadDuplicate, ReadEnd, vars, input, dupTable
  <2>2. IInv'
    BY <1>1, <2>1, StepIInv DEF TypeInv
  <2>3. CASE Deduplicate
    <3>1. chunk_count' = chunk_count /\ UNCHANGED <<encoder, decoder>>
          /\ stage' \in {"dedup", "write"}
      BY <2>3 DEF Deduplicate, Next, Enter, Differ, Match, Exhaust, Finish, NextChunk, Break,
             Note, input
    <3>2. stage' # "dedup" => i' >= chunk_count'
      BY <2>3 DEF Deduplicate, Next, Enter, Differ, Match, Exhaust, Finish, NextChunk, Break,
             Compared, input
    <3>3. Record' = Record
      BY <3>1 DEF Record, Number
    <3> QED
      BY <1>1, <2>2, <3>1, <3>2, <3>3 DEF TypeInv, IInv, ArchiveTypeOK, encoder, decoder
  <2>4. CASE Write
    BY <1>1, <2>2, <2>4, WriteTypes DEF TypeInv, Write, W!Next, W!WriteText,
       W!WriteDuplicate, W!WriteStale, W!AppendRecord, W!table
  <2>5. CASE ReadText
    <3>1. current \in Record /\ current.dup = FALSE
      BY <1>1, <2>5 DEF ReadText, Reading, current, TypeInv, ArchiveTypeOK
    <3>2. current.text \in Content
      BY <3>1 DEF Record
    <3>3. ArchiveTypeOK'
      BY <1>1, <2>5, <3>2, ReadTypes DEF ReadText
    <3> QED
      BY <1>1, <2>2, <2>5, <3>3 DEF TypeInv, ReadText, vars, input
  <2>6. CASE ReadDuplicate
    <3>1. current \in Record /\ current.dup = TRUE
      BY <1>1, <2>6 DEF ReadDuplicate, Reading, current, TypeInv, ArchiveTypeOK
    <3>2. current.index \in Nat
      <4>1. current.index \in Number
        BY <3>1 DEF Record
      <4> QED
        BY <1>1, <4>1 DEF Number, TypeInv, ArchiveTypeOK, TypeOK
    <3>3. current.index < Len(Chunks) => Chunks[current.index + 1] \in Content
      BY <1>1, <3>2 DEF TypeInv, ArchiveTypeOK
    <3> DEFINE output == IF current.index < Len(Chunks) THEN <<Chunks[current.index + 1]>>
                         ELSE << >>
    <3>4. output \in {<< >>} \cup {<<c>> : c \in Content} /\ Read(output, << >>)
      BY <2>6, <3>3 DEF ReadDuplicate
    <3> HIDE DEF output
    <3>5. ArchiveTypeOK'
      BY <1>1, <2>6, <3>4, ReadTypes DEF ReadDuplicate
    <3> QED
      BY <1>1, <2>2, <2>6, <3>5 DEF TypeInv, ReadDuplicate, vars, input
  <2>7. CASE Store \/ ReadEnd \/ UNCHANGED archiveVars
    <3>1. /\ UNCHANGED <<vars, encoder, decoder>>
          /\ stage' \in {"dedup", "write", "read", "end"}
          /\ stage' # "dedup" => stage # "dedup"
      BY <1>1, <2>7 DEF Store, ReadEnd, Reading, archiveVars, TypeInv, ArchiveTypeOK
    <3>2. Record' = Record
      BY <3>1 DEF Record, Number, vars, input
    <3> QED
      BY <1>1, <2>2, <3>1, <3>2 DEF TypeInv, IInv, ArchiveTypeOK, vars, input, encoder, decoder
  <2> QED
    BY <1>1, <2>3, <2>4, <2>5, <2>6, <2>7 DEF ArchiveNext
<1>2. TypeInv => ArchiveTypeOK
  BY DEF TypeInv
<1> QED
  BY InitTypes, <1>1, <1>2, PTL DEF ArchiveSpec
=============================================================================

-------------------------- MODULE Chunkers_proofs --------------------------
(***************************************************************************)
(* The two chunkers, whatever the packets.  First that of Chunker.         *)
(*                                                                         *)
(* What the chunker puts in chunks, whatever the packets, the window and   *)
(* the hash: the bytes of the long packets, each once and in order, and    *)
(* never more chunks of a packet than it has windows.  None of that is     *)
(* about the values of the hash (IInv).  The second half is: the hash is   *)
(* the one of its window (HashInv), from the identity that rolls a         *)
(* weighted sum on, and so cuts are made where windows say (CutInv).       *)
(***************************************************************************)
EXTENDS Chunker, GearChunker, RecursionTheorems,
        FiniteSetTheorems, FunctionTheorems, TLAPS

Typed == /\ packets \in Seq(Seq(Byte))
         /\ p \in 1 .. Len(packets) + 1
         /\ i \in Nat /\ start \in Nat
         /\ chunks \in Seq(Chunk)
         /\ pc \in {"call", "scan"}

\* The open chunk starts before i, at the end of the packet only after the last.
Open == pc = "scan" => /\ p <= Len(packets) /\ Long(p)
                       /\ WIN_SIZE <= i /\ start < i
                       /\ start <= buff_size(p) /\ i <= buff_size(p) + 1
                       /\ i = buff_size(p) + 1 => start = buff_size(p)

\* A chunk lies in a packet already chunked, or before the open chunk.
Placed(n) == /\ chunks[n].packet \in DOMAIN packets /\ Long(chunks[n].packet)
             /\ chunks[n].size > 0
             /\ chunks[n].from + chunks[n].size <= buff_size(chunks[n].packet)
             /\ \/ chunks[n].packet < p
                \/ /\ chunks[n].packet = p /\ pc = "scan"
                   /\ chunks[n].from + chunks[n].size <= start

\* Chunks of a packet start at different places, all but its first after a window.
Spaced == /\ \A m, n \in DOMAIN chunks :
               m < n /\ chunks[m].packet = chunks[n].packet =>
                 chunks[n].from >= WIN_SIZE + (n - m) - 1
          /\ \A n \in DOMAIN chunks :
               pc = "scan" /\ chunks[n].packet = p =>
                 start >= WIN_SIZE + (Len(chunks) - n)
          /\ \A n \in DOMAIN chunks :
               chunks[n].from = 0 => chunks[n].size >= WIN_SIZE

IInv == /\ Typed
        /\ Open
        /\ \A n \in DOMAIN chunks : Placed(n)
        /\ ChunksTilePackets
        /\ Spaced

\* The invariant holds before the first packet.
LEMMA InitIInv == Init => IInv
<1> SUFFICES ASSUME Init PROVE IInv
  OBVIOUS
<1>1. packets \in Seq(Seq(Byte)) /\ Len(packets) \in Nat
  BY ChunkerAssumption DEF Init
<1>2. chunks = << >> /\ DOMAIN chunks = {} /\ p = 1 /\ pc = "call"
  BY DEF Init
<1>3. Typed
  BY <1>1, <1>2 DEF Typed, Init
<1>4. ChunksTilePackets
  BY <1>1, <1>2 DEF ChunksTilePackets, Scanned
<1> QED
  BY <1>1, <1>2, <1>3, <1>4 DEF IInv, Open, Spaced

-----------------------------------------------------------------------------
\* The size of a packet is a number.
LEMMA SizeNat == ASSUME packets \in Seq(Seq(Byte)), NEW q \in DOMAIN packets
                 PROVE  buff_size(q) \in Nat
  BY DEF buff_size

\* A step that leaves the chunks alone and moves no byte across what is scanned
\* keeps what is said of the chunks.
LEMMA SameChunks ==
  ASSUME IInv, packets' = packets, chunks' = chunks,
         \A n \in DOMAIN chunks : Placed(n)',
         \A q \in DOMAIN packets, b \in Nat :
           b < buff_size(q) => (Scanned(q, b)' <=> Scanned(q, b))
  PROVE  ChunksTilePackets'
<1>1. \A q \in DOMAIN packets : buff_size(q) \in Nat
  BY SizeNat DEF IInv, Typed
<1>2. \A m, n \in DOMAIN chunks : m < n => Before(m, n)'
  BY DEF IInv, ChunksTilePackets, Before
<1>3. ASSUME NEW q \in DOMAIN packets, NEW b \in 0 .. buff_size(q) - 1
      PROVE  Scanned(q, b)' <=> \E n \in DOMAIN chunks : In(n, q, b)'
  <2>1. Scanned(q, b)' <=> Scanned(q, b)
    BY <1>1
  <2>2. \A n \in DOMAIN chunks : In(n, q, b)' <=> In(n, q, b)
    BY DEF In
  <2> QED
    BY <2>1, <2>2 DEF IInv, ChunksTilePackets
<1> QED
  BY <1>2, <1>3 DEF ChunksTilePackets, buff_size

\* A packet too short for a window is passed over: nothing of it is scanned.
LEMMA ReturnShortStep == ASSUME IInv, ReturnShort PROVE IInv'
<1> USE ChunkerAssumption
<1>1. /\ packets' = packets /\ chunks' = chunks /\ p' = p + 1 /\ pc = "call" /\ pc' = "call"
      /\ i' = i /\ start' = start /\ p \in DOMAIN packets /\ ~ Long(p) /\ p \in Nat
  BY SizeNat DEF ReturnShort, IInv, Typed, Long
<1>2. Typed'
  BY <1>1 DEF IInv, Typed
<1>3. ASSUME NEW n \in DOMAIN chunks PROVE Placed(n)'
  <2>1. Placed(n) /\ chunks[n].packet \in Nat
    BY <1>1 DEF IInv, Typed, Placed
  <2> QED
    BY <2>1, <1>1 DEF Placed, Long, buff_size
<1>4. \A q \in DOMAIN packets, b \in Nat :
        b < buff_size(q) => (Scanned(q, b)' <=> Scanned(q, b))
  BY <1>1, SizeNat DEF Scanned, Long, buff_size, IInv, Typed
<1>5. ChunksTilePackets'
  BY <1>1, <1>3, <1>4, SameChunks
<1>6. Spaced'
  BY <1>1 DEF IInv, Spaced
<1> QED
  BY <1>1, <1>2, <1>3, <1>5, <1>6 DEF IInv, Open

\* A call starts with the whole packet open.
LEMMA EnterStep == ASSUME IInv, Enter PROVE IInv'
<1> USE ChunkerAssumption
<1>1. /\ packets' = packets /\ chunks' = chunks /\ p' = p /\ pc = "call" /\ pc' = "scan"
      /\ i' = WIN_SIZE /\ start' = 0 /\ p \in DOMAIN packets /\ Long(p) /\ p \in Nat
  BY DEF Enter, Enters, IInv, Typed, Long
<1>a. buff_size(p) \in Nat /\ buff_size(p) >= WIN_SIZE
  BY <1>1, SizeNat DEF IInv, Typed, Long
<1>2. Typed'
  BY <1>1 DEF IInv, Typed
<1>3. \A n \in DOMAIN chunks : Placed(n)'
  BY <1>1 DEF IInv, Placed, Typed, Chunk, Long, buff_size
<1>4. \A q \in DOMAIN packets, b \in Nat :
        b < buff_size(q) => (Scanned(q, b)' <=> Scanned(q, b))
  BY <1>1 DEF Scanned, Long, buff_size
<1>5. ChunksTilePackets'
  BY <1>1, <1>3, <1>4, SameChunks
<1>6. Spaced'
  BY <1>1 DEF IInv, Spaced, Placed, Typed
<1>7. Open'
  BY <1>1, <1>a DEF Open, Long, buff_size
<1> QED
  BY <1>1, <1>2, <1>3, <1>5, <1>6, <1>7 DEF IInv

\* An iteration that does not cut moves i only; it is not the last.
LEMMA ContinueStep == ASSUME IInv, Continue PROVE IInv'
<1> USE ChunkerAssumption
<1>1. /\ packets' = packets /\ chunks' = chunks /\ p' = p /\ pc = "scan" /\ pc' = "scan"
      /\ i' = i + 1 /\ start' = start /\ p \in DOMAIN packets /\ i <= buff_size(p)
      /\ i # buff_size(p) /\ i \in Nat /\ start \in Nat
  BY DEF Continue, Scan, CutHere, IInv, Typed, Open
<1>a. buff_size(p) \in Nat
  BY <1>1, SizeNat DEF IInv, Typed
<1>2. Typed'
  BY <1>1 DEF IInv, Typed
<1>3. \A n \in DOMAIN chunks : Placed(n)'
  BY <1>1 DEF IInv, Placed, Long, buff_size
<1>4. \A q \in DOMAIN packets, b \in Nat :
        b < buff_size(q) => (Scanned(q, b)' <=> Scanned(q, b))
  BY <1>1 DEF Scanned, Long, buff_size
<1>5. ChunksTilePackets'
  BY <1>1, <1>3, <1>4, SameChunks
<1>6. Spaced'
  BY <1>1 DEF IInv, Spaced
<1>7. Open'
  BY <1>1, <1>a DEF IInv, Open, Long, buff_size
<1> QED
  BY <1>1, <1>2, <1>3, <1>5, <1>6, <1>7 DEF IInv

\* A call returns when all of its packet is scanned.
LEMMA ReturnStep == ASSUME IInv, Return PROVE IInv'
<1> USE ChunkerAssumption
<1>1. /\ packets' = packets /\ chunks' = chunks /\ p' = p + 1 /\ pc = "scan" /\ pc' = "call"
      /\ i' = i /\ start' = start /\ p \in DOMAIN packets /\ p \in Nat
      /\ i > buff_size(p) /\ i \in Nat /\ start \in Nat
  BY DEF Return, IInv, Typed, Open
<1>a. buff_size(p) \in Nat
  BY <1>1, SizeNat DEF IInv, Typed
<1>b. start = buff_size(p) /\ Long(p)
  BY <1>1, <1>a DEF IInv, Open
<1>2. Typed'
  BY <1>1 DEF IInv, Typed
<1>3. ASSUME NEW n \in DOMAIN chunks PROVE Placed(n)'
  <2>1. Placed(n) /\ chunks[n].packet \in Nat
    BY <1>1 DEF IInv, Typed, Placed
  <2> QED
    BY <2>1, <1>1 DEF Placed, Long, buff_size
<1>4. \A q \in DOMAIN packets, b \in Nat :
        b < buff_size(q) => (Scanned(q, b)' <=> Scanned(q, b))
  <2> SUFFICES ASSUME NEW q \in DOMAIN packets, NEW b \in Nat, b < buff_size(q)
               PROVE  Scanned(q, b)' <=> Scanned(q, b)
    OBVIOUS
  <2>1. CASE q = p
    BY <2>1, <1>1, <1>b DEF Scanned, Long, buff_size
  <2>2. CASE q # p
    <3>1. q < p + 1 <=> q < p
      BY <2>2, <1>1 DEF IInv, Typed
    <3> QED
      BY <3>1, <2>2, <1>1 DEF Scanned, Long, buff_size
  <2> QED
    BY <2>1, <2>2
<1>5. ChunksTilePackets'
  BY <1>1, <1>3, <1>4, SameChunks
<1>6. Spaced'
  BY <1>1 DEF IInv, Spaced
<1> QED
  BY <1>1, <1>2, <1>3, <1>5, <1>6 DEF IInv, Open

-----------------------------------------------------------------------------
\* A cut appends the open chunk, which is not empty, and opens the next behind it.
LEMMA CutStep == ASSUME IInv, Cut PROVE IInv'
<1> USE ChunkerAssumption
<1> DEFINE new == [packet |-> p, from |-> start, size |-> i - start]
<1> PICK last : last = Len(chunks) + 1
  OBVIOUS
<1>1. /\ packets' = packets /\ chunks' = Append(chunks, new) /\ p' = p
      /\ pc = "scan" /\ pc' = "scan" /\ i' = i + 1 /\ start' = i
      /\ p \in DOMAIN packets /\ p \in Nat /\ i <= buff_size(p)
      /\ i \in Nat /\ start \in Nat /\ start < i /\ WIN_SIZE <= i /\ Long(p)
  BY DEF Cut, Cuts, Scan, IInv, Typed, Open
<1>a. \A q \in DOMAIN packets : buff_size(q) \in Nat
  BY SizeNat DEF IInv, Typed
<1>b. new \in Chunk /\ chunks \in Seq(Chunk)
  BY <1>1 DEF Chunk, IInv, Typed
<1>c. /\ chunks' \in Seq(Chunk) /\ Len(chunks') = last /\ DOMAIN chunks' = 1 .. last
      /\ Len(chunks) \in Nat /\ DOMAIN chunks = 1 .. last - 1
      /\ \A n \in 1 .. last - 1 : chunks'[n] = chunks[n]
      /\ chunks'[last] = new
  BY <1>1, <1>b
<1>d. last \in Nat /\ \A n \in 1 .. last - 1 : chunks[n] \in Chunk
  BY <1>b, <1>c
<1>e. \A q : buff_size(q)' = buff_size(q)
  BY <1>1 DEF buff_size
<1>2. Typed'
  BY <1>1, <1>c DEF IInv, Typed
<1>3. Open'
  BY <1>1, <1>a, <1>e DEF Open, Long
<1>4. \A n \in DOMAIN chunks' : Placed(n)'
  <2>1. ASSUME NEW n \in 1 .. last - 1 PROVE Placed(n)'
    <3>1. Placed(n) /\ chunks'[n] = chunks[n] /\ chunks[n] \in Chunk
      BY <1>c, <1>d DEF IInv
    <3> QED
      BY <3>1, <1>1, <1>e DEF Placed, Long, Chunk
  <2>2. Placed(last)'
    BY <1>1, <1>a, <1>c, <1>e DEF Placed, Long
  <2> QED
    BY <2>1, <2>2, <1>c, <1>d
<1>5. ChunksTilePackets'
  <2>1. ASSUME NEW m \in 1 .. last, NEW n \in 1 .. last, m < n PROVE Before(m, n)'
    <3>1. CASE n = last
      <4>1. m \in 1 .. last - 1 /\ Placed(m) /\ chunks'[m] = chunks[m] /\ chunks[m] \in Chunk
        BY <3>1, <2>1, <1>c, <1>d DEF IInv
      <4> QED
        BY <4>1, <3>1, <1>1, <1>c DEF Before, Placed, Chunk
    <3>2. CASE n # last
      <4>1. m \in 1 .. last - 1 /\ n \in 1 .. last - 1
        BY <3>2, <2>1, <1>d
      <4> QED
        BY <4>1, <2>1, <1>c DEF IInv, ChunksTilePackets, Before
    <3> QED
      BY <3>1, <3>2
  <2>2. ASSUME NEW q \in DOMAIN packets, NEW b \in 0 .. buff_size(q) - 1
        PROVE  Scanned(q, b)' <=> \E n \in 1 .. last : In(n, q, b)'
    <3>1. \A n \in 1 .. last - 1 : In(n, q, b)' <=> In(n, q, b)
      BY <1>c DEF In
    <3>2. In(last, q, b)' <=> q = p /\ start <= b /\ b < i
      BY <1>1, <1>a, <1>c DEF In
    <3>3. Scanned(q, b)' <=> Scanned(q, b) \/ (q = p /\ start <= b /\ b < i)
      BY <1>1, <1>a, <1>e DEF Scanned, Long
    <3>4. Scanned(q, b) <=> \E n \in 1 .. last - 1 : In(n, q, b)
      BY <1>c DEF IInv, ChunksTilePackets
    <3> QED
      BY <3>1, <3>2, <3>3, <3>4, <1>d
  <2> QED
    BY <2>1, <2>2, <1>1, <1>c, <1>e DEF ChunksTilePackets
<1>6. Spaced'
  <2>1. ASSUME NEW n \in 1 .. last - 1, chunks[n].packet = p
        PROVE  start >= WIN_SIZE + (last - 1 - n)
    <3>1. start >= WIN_SIZE + (Len(chunks) - n)
      BY <2>1, <1>1, <1>c DEF IInv, Spaced
    <3> QED
      BY <3>1, <1>c
  <2>2. ASSUME NEW m \in 1 .. last, NEW n \in 1 .. last, m < n,
               chunks'[m].packet = chunks'[n].packet
        PROVE  chunks'[n].from >= WIN_SIZE + (n - m) - 1
    <3>1. CASE n = last
      <4>1. m \in 1 .. last - 1 /\ chunks[m].packet = p /\ chunks'[n].from = start
        BY <3>1, <2>2, <1>c, <1>d
      <4> QED
        BY <4>1, <3>1, <2>1, <1>1, <1>d
    <3>2. CASE n # last
      <4>1. m \in 1 .. last - 1 /\ n \in 1 .. last - 1
        BY <3>2, <2>2, <1>d
      <4> QED
        BY <4>1, <2>2, <1>c DEF IInv, Spaced
    <3> QED
      BY <3>1, <3>2
  <2>3. ASSUME NEW n \in 1 .. last, chunks'[n].packet = p
        PROVE  i >= WIN_SIZE + (last - n)
    <3>1. CASE n = last
      BY <3>1, <1>1, <1>d
    <3>2. CASE n # last
      <4>1. n \in 1 .. last - 1 /\ chunks[n].packet = p
        BY <3>2, <2>3, <1>c, <1>d
      <4> QED
        BY <4>1, <2>1, <1>1, <1>d
    <3> QED
      BY <3>1, <3>2
  <2>4. ASSUME NEW n \in 1 .. last, chunks'[n].from = 0
        PROVE  chunks'[n].size >= WIN_SIZE
    <3>1. CASE n = last
      BY <3>1, <2>4, <1>1, <1>c
    <3>2. CASE n # last
      BY <3>2, <2>4, <1>c, <1>d DEF IInv, Spaced
    <3> QED
      BY <3>1, <3>2
  <2> QED
    BY <2>2, <2>3, <2>4, <1>1, <1>c DEF Spaced
<1> QED
  BY <1>2, <1>3, <1>4, <1>5, <1>6 DEF IInv

-----------------------------------------------------------------------------
\* Whatever is received, the positions and the chunks satisfy the invariant.
THEOREM Invariance == Spec => []IInv
<1>1. Init => IInv
  BY InitIInv
<1>2. IInv /\ [Next]_vars => IInv'
  <2> SUFFICES ASSUME IInv, [Next]_vars PROVE IInv'
    OBVIOUS
  <2>1. CASE ReturnShort
    BY <2>1, ReturnShortStep
  <2>2. CASE Enter
    BY <2>2, EnterStep
  <2>3. CASE Cut
    BY <2>3, CutStep
  <2>4. CASE Continue
    BY <2>4, ContinueStep
  <2>5. CASE Return
    BY <2>5, ReturnStep
  <2>6. CASE UNCHANGED vars
    BY <2>6 DEF vars, IInv, Typed, Open, Placed, Spaced, ChunksTilePackets, Before, In,
                Scanned, Long, buff_size
  <2> QED
    BY <2>1, <2>2, <2>3, <2>4, <2>5, <2>6 DEF Next
<1> QED
  BY <1>1, <1>2, PTL DEF Spec

\* rabin_fingerprint_cdc loses, repeats and reorders no byte of a packet that is
\* as long as a window, and takes nothing from one that is not.
THEOREM ChunksTile == Spec => []ChunksTilePackets
<1>1. IInv => ChunksTilePackets
  BY DEF IInv
<1> QED
  BY <1>1, Invariance, PTL

\* Every iteration is a cut the contract allows, or is hidden; a call returns when it
\* has put all of a long packet in chunks.
LEMMA StepPromised == IInv /\ [Next]_vars => [Promise!Next]_(Promise!vars)
<1> SUFFICES ASSUME IInv, [Next]_vars PROVE [Promise!Next]_(Promise!vars)
  OBVIOUS
<1> USE ChunkerAssumption
<1>0. /\ p \in Nat /\ i \in Nat /\ start \in Nat
      /\ p <= Len(packets) => Len(packets[p]) \in Nat /\ buff_size(p) = Len(packets[p])
  BY SizeNat DEF IInv, Typed, buff_size
<1>1. CASE ReturnShort
  <2>1. Promise!Leave
    BY <1>0, <1>1 DEF ReturnShort, Promise!Leave
  <2> QED
    BY <2>1 DEF Promise!Next
<1>2. CASE Enter
  BY <1>2 DEF Enter, Enters, Promise!vars
<1>3. CASE Cut
  <2>1. /\ p <= Len(packets) /\ start < i /\ i <= Len(packets[p])
        /\ pc = "scan" /\ pc' = "scan" /\ start' = i
    BY <1>0, <1>3 DEF Cut, Cuts, Scan, IInv, Open
  <2>2. start' \in start + 1 .. Len(packets[p]) /\ start' - start \in Nat \ {0}
    BY <1>0, <2>1
  <2>3. Promise!Cut
    BY <1>3, <2>1, <2>2 DEF Cut, Cuts, Scan, Promise!Cut
  <2> QED
    BY <2>3 DEF Promise!Next
<1>4. CASE Continue
  BY <1>4 DEF Continue, Scan, Promise!vars
<1>5. CASE Return
  <2>1. /\ p <= Len(packets) /\ pc = "scan" /\ pc' = "call"
        /\ Len(packets[p]) - start = 0
    BY <1>0, <1>5 DEF Return, IInv, Open
  <2>2. Promise!Leave
    BY <1>0, <1>5, <2>1 DEF Return, Promise!Leave
  <2> QED
    BY <2>2 DEF Promise!Next
<1>6. CASE UNCHANGED vars
  BY <1>6 DEF vars, Promise!vars
<1> QED
  BY <1>1, <1>2, <1>3, <1>4, <1>5, <1>6 DEF Next

\* Whatever the window and the hash: the calls keep the contract of module Chunking,
\* which nothing but a whole short packet escapes.
THEOREM RabinImplementsChunking == Spec => ImplementsChunking
<1>1. Init => Promise!Init
  BY DEF Init, Promise!Init
<1>2. IInv /\ [Next]_vars => [Promise!Next]_(Promise!vars)
  BY StepPromised
<1> QED
  BY <1>1, <1>2, Invariance, PTL DEF Spec, ImplementsChunking, Promise!Spec

\* A packet never makes more chunks than it has windows, and none that is empty.
THEOREM ChunksFew == Spec => []FewChunks
<1>1. IInv => FewChunks
  <2> SUFFICES ASSUME IInv PROVE FewChunks
    OBVIOUS
  <2> USE ChunkerAssumption
  <2>1. ASSUME NEW n \in DOMAIN chunks
        PROVE  /\ chunks[n] \in Chunk /\ Placed(n) /\ n \in Nat
               /\ buff_size(chunks[n].packet) \in Nat
    BY SizeNat DEF IInv, Typed, Placed
  <2>2. ASSUME NEW m \in DOMAIN chunks, NEW n \in DOMAIN chunks,
               m < n, chunks[m].packet = chunks[n].packet
        PROVE  n - m <= buff_size(chunks[n].packet) - WIN_SIZE
    <3>1. chunks[n].from >= WIN_SIZE + (n - m) - 1
      BY <2>2 DEF IInv, Spaced
    <3> QED
      BY <3>1, <2>1 DEF Placed, Chunk
  <2> QED
    BY <2>1, <2>2 DEF FewChunks, IInv, Spaced, Placed
<1> QED
  BY <1>1, Invariance, PTL

-----------------------------------------------------------------------------
(* The hash.                                                               *)

\* The weights.
P == Power(PRIME)

\* The bytes of a packet are numbers.
LEMMA ByteNat ==
  ASSUME packets \in Seq(Seq(Byte)), NEW q \in DOMAIN packets, NEW n \in 0 .. buff_size(q) - 1
  PROVE  byte(q, n) \in Nat
<1>1. packets[q] \in Seq(Byte) /\ n + 1 \in 1 .. Len(packets[q])
  BY SizeNat DEF buff_size
<1>2. packets[q][n + 1] \in Byte
  BY <1>1
<1> QED
  BY <1>2, ChunkerAssumption DEF byte

\* Products of numbers.
LEMMA Products ==
  /\ \A a, b \in Nat : a * b \in Nat
  /\ \A a, b, c \in Nat : a * (b + c) = a * b + a * c
  /\ \A a, b, c \in Nat : a * (b * c) = b * (a * c)
OBVIOUS

\* The sums of a window's first bytes, from the last one on, each with its weight.
Sums(s, q, pos) ==
  /\ s[0] = 0
  /\ \A n \in 1 .. WIN_SIZE : s[n - 1] \in Nat /\ s[n] \in Nat
                              /\ s[n] = s[n - 1] + byte(q, pos + WIN_SIZE - n) * P[n]

\* The window at a position lies within the packet.
Within(q, pos) == /\ packets \in Seq(Seq(Byte)) /\ q \in DOMAIN packets
                  /\ pos \in Nat /\ pos + WIN_SIZE <= buff_size(q)

\* Its bytes are numbers.
LEMMA WithinByte ==
  ASSUME NEW q, NEW pos \in Nat, Within(q, pos), NEW n \in pos .. pos + WIN_SIZE - 1
  PROVE  byte(q, n) \in Nat
<1>1. WIN_SIZE \in Nat \ {0} /\ buff_size(q) \in Nat
  BY SizeNat, ChunkerAssumption DEF Within
<1>2. n \in 0 .. buff_size(q) - 1
  BY <1>1 DEF Within
<1> QED
  BY <1>2, ByteNat DEF Within

\* The hash of a window is the sum of all of it.
LEMMA HashIs ==
  ASSUME NEW q, NEW pos \in Nat, Within(q, pos)
  PROVE  \E s : Sums(s, q, pos) /\ initial_hash_func(q, pos) = s[WIN_SIZE] % Word
<1>a. WIN_SIZE \in Nat \ {0} /\ Word \in Nat \ {0} /\ PRIME \in Nat
  BY ChunkerAssumption
<1> USE <1>a
<1> DEFINE b(n) == byte(q, pos + WIN_SIZE - n)
           weight == [n \in Nat |-> IF n \in 1 .. WIN_SIZE THEN b(n) * P[n] ELSE 0]
           g == [nv \in Nat \X Nat |-> nv[2] + weight[nv[1]]]
           Sum(e) == e = [n \in 0 .. WIN_SIZE |->
                            IF n = 0 THEN 0 ELSE e[n - 1] + b(n) * P[n]]
           sum == CHOOSE e : Sum(e)
           Adds(e) == \A n \in 1 .. WIN_SIZE : e[n] = e[n - 1] + b(n) * P[n]
<1>1. \A n \in 1 .. WIN_SIZE : b(n) \in Nat /\ P[n] \in Nat /\ b(n) * P[n] \in Nat
  <2> SUFFICES ASSUME NEW n \in 1 .. WIN_SIZE
               PROVE  b(n) \in Nat /\ P[n] \in Nat /\ b(n) * P[n] \in Nat
    OBVIOUS
  <2>1. pos + WIN_SIZE - n \in pos .. pos + WIN_SIZE - 1
    OBVIOUS
  <2>2. b(n) \in Nat
    BY <2>1, WithinByte
  <2>3. P[n] \in Nat
    BY PowerIs DEF P
  <2> HIDE DEF b
  <2> QED
    BY <2>2, <2>3
<1> HIDE DEF b
<1>2. weight \in [Nat -> Nat]
  BY <1>1
<1>b. \A n \in 1 .. WIN_SIZE : weight[n] = b(n) * P[n]
  BY <1>1
<1> HIDE DEF weight
<1>3. g \in [Nat \X Nat -> Nat] /\ \A n, v \in Nat : g[<<n, v>>] = v + weight[n]
  <2>1. \A n, v \in Nat : v + weight[n] \in Nat
    BY <1>2
  <2> QED
    BY <2>1
<1> HIDE DEF g
<1>4. PICK f \in [Nat -> Nat] : f[0] = 0 /\ \A n \in Nat : f[n + 1] = g[<<n + 1, f[n]>>]
  <2>1. Recursive(Nat, 0, g)
    BY <1>3, Recursion
  <2> QED
    BY <2>1 DEF Recursive
<1>5. ASSUME NEW n \in 1 .. WIN_SIZE PROVE f[n] = f[n - 1] + b(n) * P[n]
  <2>1. n - 1 \in Nat /\ (n - 1) + 1 = n /\ n \in Nat
    OBVIOUS
  <2>3. f[n - 1] \in Nat
    BY <2>1
  <2>2. f[n] = g[<<n, f[n - 1]>>]
    BY <1>4, <2>1
  <2>4. g[<<n, f[n - 1]>>] = f[n - 1] + weight[n]
    BY <1>3, <2>1, <2>3
  <2> QED
    BY <1>b, <2>2, <2>4
<1>6. Sum([n \in 0 .. WIN_SIZE |-> f[n]])
  <2>1. ASSUME NEW n \in 0 .. WIN_SIZE, n # 0 PROVE n \in 1 .. WIN_SIZE /\ n - 1 \in 0 .. WIN_SIZE
    BY <2>1
  <2>2. \A n \in 0 .. WIN_SIZE :
          f[n] = IF n = 0 THEN 0 ELSE [m \in 0 .. WIN_SIZE |-> f[m]][n - 1] + b(n) * P[n]
    BY <1>4, <1>5, <2>1
  <2> QED
    BY <2>2
<1>7. Sum(sum)
  <2> HIDE DEF Sum
  <2> QED
    BY <1>6
<1>8. initial_hash_func(q, pos) = sum[WIN_SIZE] % Word
  BY DEF initial_hash_func, b, P
<1> HIDE DEF sum
<1>9. sum[0] = 0 /\ Adds(sum)
  <2>1. \A n \in 0 .. WIN_SIZE : sum[n] = IF n = 0 THEN 0 ELSE sum[n - 1] + b(n) * P[n]
    BY <1>7
  <2>2. ASSUME NEW n \in 1 .. WIN_SIZE PROVE n \in 0 .. WIN_SIZE /\ n # 0
    BY <2>2
  <2>3. sum[0] = 0
    <3>1. 0 \in 0 .. WIN_SIZE
      OBVIOUS
    <3> QED
      BY <2>1, <3>1
  <2>4. Adds(sum)
    BY <2>1, <2>2
  <2> HIDE DEF Adds
  <2> QED
    BY <2>3, <2>4
<1>a0. \A n \in 1 .. WIN_SIZE : sum[n] = sum[n - 1] + b(n) * P[n]
  BY <1>9
<1> HIDE DEF Adds
<1> DEFINE T == {n \in Nat : n <= WIN_SIZE => sum[n] \in Nat}
<1>10. Nat \subseteq T
  <2>1. 0 \in T
    BY <1>9
  <2>2. ASSUME NEW n \in Nat, n \in T PROVE n + 1 \in T
    <3> SUFFICES ASSUME n + 1 <= WIN_SIZE PROVE sum[n + 1] \in Nat
      OBVIOUS
    <3>1. n + 1 \in 1 .. WIN_SIZE /\ (n + 1) - 1 = n /\ sum[n] \in Nat
      BY <2>2
    <3>2. sum[n + 1] = sum[n] + b(n + 1) * P[n + 1] /\ b(n + 1) * P[n + 1] \in Nat
      BY <1>1, <1>a0, <3>1
    <3> DEFINE u == b(n + 1) * P[n + 1]
    <3>3. sum[n + 1] = sum[n] + u /\ u \in Nat
      BY <3>2
    <3> HIDE DEF u
    <3> QED
      <4>1. sum[n] \in Nat
        BY <3>1
      <4> DEFINE v == sum[n]
      <4>2. v \in Nat /\ sum[n + 1] = v + u
        BY <3>3, <4>1
      <4> HIDE DEF v
      <4> QED
        BY <3>3, <4>2
  <2> HIDE DEF T
  <2> QED
    BY <2>1, <2>2, Induct
<1>11. Sums(sum, q, pos)
  <2>1. ASSUME NEW n \in 1 .. WIN_SIZE PROVE sum[n - 1] \in Nat /\ sum[n] \in Nat
    <3>1. n \in Nat /\ n - 1 \in Nat /\ n <= WIN_SIZE /\ n - 1 <= WIN_SIZE
      OBVIOUS
    <3> QED
      BY <1>10, <3>1
  <2> QED
    BY <1>9, <1>a0, <2>1 DEF Sums, b
<1> QED
  BY <1>8, <1>11

\* A hash is a number below Word.
LEMMA HashType ==
  ASSUME NEW q, NEW pos \in Nat, Within(q, pos)
  PROVE  initial_hash_func(q, pos) \in 0 .. Word - 1
<1>1. PICK s : Sums(s, q, pos) /\ initial_hash_func(q, pos) = s[WIN_SIZE] % Word
  BY HashIs
<1>2. WIN_SIZE \in 1 .. WIN_SIZE
  BY ChunkerAssumption
<1>3. s[WIN_SIZE] \in Nat
  BY <1>1, <1>2 DEF Sums
<1> QED
  BY <1>1, <1>3, ChunkerAssumption

\* Shifting a sum: the weights grow by one, the new byte comes in with the least.
LEMMA ShiftedSums ==
  ASSUME NEW q, NEW pos \in Nat,
         Within(q, pos), Within(q, pos + 1),
         NEW s, Sums(s, q, pos), NEW t, Sums(t, q, pos + 1)
  PROVE  t[WIN_SIZE] = PRIME * s[WIN_SIZE] - byte(q, pos) * P[WIN_SIZE + 1]
                         + byte(q, pos + WIN_SIZE) * PRIME
<1>a. WIN_SIZE \in Nat \ {0} /\ Word \in Nat \ {0} /\ PRIME \in Nat
  BY ChunkerAssumption
<1> USE <1>a
<1> DEFINE new == byte(q, pos + WIN_SIZE)
           T == {n \in Nat : n < WIN_SIZE => t[n + 1] = PRIME * s[n] + new * PRIME}
<1>0. new \in Nat /\ byte(q, pos) \in Nat
  <2>1. pos + WIN_SIZE \in pos + 1 .. (pos + 1) + WIN_SIZE - 1 /\ pos \in pos .. pos + WIN_SIZE - 1
    OBVIOUS
  <2>2. pos + 1 \in Nat
    OBVIOUS
  <2> QED
    BY <2>1, <2>2, WithinByte
<1>1. P[0] = 1 /\ \A n \in Nat : P[n] \in Nat /\ P[n + 1] = PRIME * P[n]
  BY PowerIs DEF P
<1>2. 0 \in T
  <2>1. 1 \in 1 .. WIN_SIZE /\ 1 - 1 = 0 /\ pos + 1 + WIN_SIZE - 1 = pos + WIN_SIZE
    OBVIOUS
  <2>2. t[1] = t[1 - 1] + byte(q, pos + 1 + WIN_SIZE - 1) * P[1]
    BY <2>1 DEF Sums
  <2>3. P[1] = PRIME /\ s[0] = 0 /\ t[0] = 0
    <3>1. P[0 + 1] = PRIME * P[0]
      BY <1>1
    <3>2. P[1] = PRIME
      <4>1. 0 + 1 = 1 /\ P[0] = 1 /\ PRIME * 1 = PRIME
        BY <1>1
      <4> QED
        BY <3>1, <4>1
    <3> QED
      BY <1>1, <3>1, <3>2 DEF Sums
  <2>4. t[1] = new * PRIME
    BY <1>0, <2>1, <2>2, <2>3
  <2> QED
    BY <1>0, <2>3, <2>4
<1>3. ASSUME NEW n \in Nat, n \in T PROVE n + 1 \in T
  <2> SUFFICES ASSUME n + 1 < WIN_SIZE PROVE t[(n + 1) + 1] = PRIME * s[n + 1] + new * PRIME
    OBVIOUS
  <2> DEFINE m == n + 1
             b == byte(q, pos + WIN_SIZE - m)
  <2>1. m \in 1 .. WIN_SIZE /\ m + 1 \in 1 .. WIN_SIZE /\ m - 1 = n /\ (m + 1) - 1 = m /\ m \in Nat
        /\ (pos + 1) + WIN_SIZE - (m + 1) = pos + WIN_SIZE - m
    OBVIOUS
  <2>2. b \in Nat
    <3>1. pos + WIN_SIZE - m \in pos .. pos + WIN_SIZE - 1
      BY <2>1
    <3> QED
      BY <3>1, WithinByte
  <2>3. s[m] = s[n] + b * P[m] /\ s[n] \in Nat /\ s[m] \in Nat
    BY <2>1 DEF Sums
  <2>4. t[m + 1] = t[m] + b * P[m + 1]
    BY <2>1 DEF Sums
  <2>5. t[m] = PRIME * s[n] + new * PRIME
    BY <1>3
  <2>6. P[m] \in Nat /\ P[m + 1] = PRIME * P[m]
    BY <1>1, <2>1
  <2> HIDE DEF b, new, m
  <2>7. b * (PRIME * P[m]) = PRIME * (b * P[m])
    BY <2>2, <2>6
  <2>8. PRIME * (s[n] + b * P[m]) = PRIME * s[n] + PRIME * (b * P[m])
    <3> DEFINE y == b * P[m]
    <3>1. y \in Nat
      BY <2>2, <2>6
    <3> HIDE DEF y
    <3>2. PRIME * (s[n] + y) = PRIME * s[n] + PRIME * y
      BY <2>3, <3>1, Products
    <3> QED
      BY <3>2 DEF y
  <2>9. t[m + 1] = PRIME * s[m] + new * PRIME
    <3> DEFINE x == PRIME * s[n]
               y == PRIME * (b * P[m])
               z == new * PRIME
    <3>1. x \in Int /\ y \in Int /\ z \in Int
      <4>1. b * P[m] \in Nat
        BY <2>2, <2>6, Products
      <4> QED
        BY <1>0, <2>3, <4>1, Products
    <3>2. t[m + 1] = x + z + y /\ PRIME * s[m] = x + y
      BY <2>3, <2>4, <2>5, <2>6, <2>7, <2>8
    <3> HIDE DEF x, y
    <3> QED
      BY <3>1, <3>2
  <2> QED
    BY <2>9 DEF m
<1>4. Nat \subseteq T
  <2> HIDE DEF T
  <2> QED
    BY <1>2, <1>3, Induct
<1>5. t[WIN_SIZE] = PRIME * s[WIN_SIZE - 1] + new * PRIME
  <2>1. WIN_SIZE - 1 \in Nat /\ (WIN_SIZE - 1) + 1 = WIN_SIZE /\ WIN_SIZE - 1 < WIN_SIZE
    OBVIOUS
  <2>2. WIN_SIZE - 1 \in T
    BY <1>4, <2>1
  <2> QED
    BY <2>1, <2>2
<1>6. /\ s[WIN_SIZE] = s[WIN_SIZE - 1] + byte(q, pos) * P[WIN_SIZE]
      /\ s[WIN_SIZE - 1] \in Nat /\ s[WIN_SIZE] \in Nat
  <2>1. WIN_SIZE \in 1 .. WIN_SIZE /\ pos + WIN_SIZE - WIN_SIZE = pos
    OBVIOUS
  <2> QED
    BY <2>1 DEF Sums
<1>7. P[WIN_SIZE] \in Nat /\ P[WIN_SIZE + 1] = PRIME * P[WIN_SIZE]
  BY <1>1
<1> DEFINE old == byte(q, pos)
           w == P[WIN_SIZE]
           x == s[WIN_SIZE - 1]
<1>8. old \in Nat /\ w \in Nat /\ x \in Nat /\ new \in Nat
  BY <1>0, <1>6, <1>7
<1>9. PRIME * (x + old * w) = PRIME * x + old * (PRIME * w)
  <2> HIDE DEF x, old, w
  <2> QED
    BY <1>8
<1>10. PRIME * x \in Int /\ old * (PRIME * w) \in Int /\ new * PRIME \in Int
  <2> HIDE DEF x, old, w, new
  <2> QED
    BY <1>8
<1> QED
  <2>1. PRIME * s[WIN_SIZE] = PRIME * x + old * (PRIME * w)
    BY <1>6, <1>9
  <2>2. t[WIN_SIZE] = PRIME * x + new * PRIME
    BY <1>5
  <2>3. old * P[WIN_SIZE + 1] = old * (PRIME * w)
    BY <1>7
  <2> HIDE DEF x, old, w, new
  <2> DEFINE u == PRIME * x
             v == old * (PRIME * w)
             y == new * PRIME
  <2>4. PRIME * s[WIN_SIZE] = u + v /\ t[WIN_SIZE] = u + y /\ old * P[WIN_SIZE + 1] = v
        /\ u \in Int /\ v \in Int /\ y \in Int
    BY <1>10, <2>1, <2>2, <2>3
  <2> HIDE DEF u, v
  <2>5. t[WIN_SIZE] = PRIME * s[WIN_SIZE] - old * P[WIN_SIZE + 1] + y
    BY <2>4
  <2> QED
    BY <2>5 DEF old, new

-----------------------------------------------------------------------------
\* Rolling the hash of a window makes the hash of the next one, wrapped or not.
LEMMA Rolls ==
  ASSUME NEW q, NEW pos \in Nat, Within(q, pos), Within(q, pos + 1)
  PROVE  rolling_hash(initial_hash_func(q, pos), byte(q, pos), byte(q, pos + WIN_SIZE))
           = initial_hash_func(q, pos + 1)
<1>a. WIN_SIZE \in Nat \ {0} /\ Word \in Nat \ {0} /\ PRIME \in Nat
  BY ChunkerAssumption
<1>b. WIN_SIZE \in 1 .. WIN_SIZE /\ pos + 1 \in Nat
  BY <1>a
<1>1. PICK s : Sums(s, q, pos) /\ initial_hash_func(q, pos) = s[WIN_SIZE] % Word
  BY HashIs
<1>2. PICK t : Sums(t, q, pos + 1) /\ initial_hash_func(q, pos + 1) = t[WIN_SIZE] % Word
  BY <1>b, HashIs
<1>3. /\ byte(q, pos) \in Nat /\ byte(q, pos + WIN_SIZE) \in Nat
      /\ P[WIN_SIZE + 1] \in Nat /\ s[WIN_SIZE] \in Nat
  <2>1. pos \in pos .. pos + WIN_SIZE - 1 /\ pos + WIN_SIZE \in pos + 1 .. (pos + 1) + WIN_SIZE - 1
    BY <1>a
  <2>2. byte(q, pos) \in Nat /\ byte(q, pos + WIN_SIZE) \in Nat
    BY <1>b, <2>1, WithinByte
  <2>3. P[WIN_SIZE + 1] \in Nat
    BY <1>a, PowerIs DEF P
  <2> QED
    BY <1>1, <1>b, <2>2, <2>3 DEF Sums
<1> DEFINE x == s[WIN_SIZE]
           old == byte(q, pos) * P[WIN_SIZE + 1]
           new == byte(q, pos + WIN_SIZE) * PRIME
<1>4. x \in Nat /\ old \in Nat /\ new \in Nat
  BY <1>a, <1>3, Products
<1>5. t[WIN_SIZE] = PRIME * x - old + new
  BY <1>1, <1>2, ShiftedSums
<1>6. rolling_hash(x % Word, byte(q, pos), byte(q, pos + WIN_SIZE))
        = (((x % Word) * PRIME) - old + new) % Word
  BY DEF rolling_hash, P
<1>7. initial_hash_func(q, pos) = x % Word
  BY <1>1
<1> HIDE DEF x, old, new
<1> DEFINE d == x \div Word
           r == x % Word
<1>8. d \in Nat /\ r \in Nat /\ x = Word * d + r
  BY <1>a, <1>4
<1> HIDE DEF d, r
<1>9. PRIME * x - old + new = (PRIME * d) * Word + ((r * PRIME) - old + new)
  <2>1. PRIME * x = (PRIME * d) * Word + r * PRIME
    BY <1>a, <1>8
  <2> DEFINE u == PRIME * x
             v == (PRIME * d) * Word
             w == r * PRIME
  <2>2. u = v + w /\ v \in Nat /\ w \in Nat
    BY <1>a, <1>8, <2>1, Products
  <2> HIDE DEF u, v, w
  <2>3. u - old + new = v + (w - old + new)
    BY <1>4, <2>2
  <2> QED
    BY <2>3 DEF u, v, w
<1>10. ((PRIME * d) * Word + ((r * PRIME) - old + new)) % Word = ((r * PRIME) - old + new) % Word
  <2>1. PRIME * d \in Int /\ r * PRIME \in Int
    BY <1>a, <1>8, Products
  <2>2. (r * PRIME) - old + new \in Int
    BY <1>4, <2>1
  <2> QED
    BY <1>a, <2>1, <2>2, Congruence
<1>11. t[WIN_SIZE] % Word = ((r * PRIME) - old + new) % Word
  BY <1>5, <1>9, <1>10
<1> QED
  BY <1>2, <1>6, <1>7, <1>11 DEF r

\* The hash is the one of its window, a number below Word.
HashInv == /\ packets \in Packets
           /\ current_hash \in 0 .. Word - 1
           /\ HashIsOfWindow

\* The types of an open call.
LEMMA ScanPlace ==
  ASSUME IInv, pc = "scan"
  PROVE  /\ p \in DOMAIN packets /\ packets \in Seq(Seq(Byte)) /\ i \in Nat
         /\ WIN_SIZE \in Nat \ {0} /\ buff_size(p) \in Nat
         /\ WIN_SIZE <= i /\ i <= buff_size(p) + 1 /\ WIN_SIZE <= buff_size(p)
<1>1. p \in DOMAIN packets /\ packets \in Seq(Seq(Byte))
  BY DEF IInv, Typed, Open
<1>2. buff_size(p) \in Nat
  BY <1>1, SizeNat
<1> QED
  BY <1>1, <1>2, ChunkerAssumption DEF IInv, Typed, Open, Long

\* The hash after an iteration is the one of the window that ends at byte i.
LEMMA ScanHash ==
  ASSUME IInv, HashInv, Scan
  PROVE  /\ HashInv'
         /\ i < buff_size(p) => current_hash' = initial_hash_func(p, (i + 1) - WIN_SIZE)
<1>1. /\ pc = "scan" /\ pc' = "scan" /\ packets' = packets /\ p' = p /\ i' = i + 1
      /\ i <= buff_size(p)
  BY DEF Scan
<1>2. /\ p \in DOMAIN packets /\ packets \in Seq(Seq(Byte)) /\ i \in Nat
      /\ WIN_SIZE \in Nat \ {0} /\ buff_size(p) \in Nat /\ WIN_SIZE <= i
  BY <1>1, ScanPlace
<1>3. current_hash = initial_hash_func(p, i - WIN_SIZE)
  BY <1>1 DEF HashInv, HashIsOfWindow
<1>4. \A q, pos : initial_hash_func(q, pos)' = initial_hash_func(q, pos)
  BY <1>1 DEF initial_hash_func, byte
<1>5. buff_size(p)' = buff_size(p)
  BY <1>1 DEF buff_size
<1>6. CASE i < buff_size(p)
  <2> DEFINE pos == i - WIN_SIZE
  <2>1. pos \in Nat /\ pos + 1 = (i + 1) - WIN_SIZE /\ pos + WIN_SIZE = i /\ pos + 1 \in Nat
    BY <1>2
  <2>2. Within(p, pos) /\ Within(p, pos + 1)
    BY <1>2, <1>6, <2>1 DEF Within
  <2>3. current_hash' = rolling_hash(current_hash, byte(p, i - WIN_SIZE), byte(p, i))
    BY <1>6 DEF Scan
  <2>4. current_hash' = initial_hash_func(p, pos + 1)
    BY <1>3, <2>1, <2>2, <2>3, Rolls
  <2>5. current_hash' \in 0 .. Word - 1
    BY <2>1, <2>2, <2>4, HashType
  <2>6. HashIsOfWindow'
    <3>1. i' <= buff_size(p) /\ i' - WIN_SIZE = pos + 1
      BY <1>1, <1>2, <1>6
    <3> QED
      BY <1>1, <1>4, <1>5, <2>4, <3>1 DEF HashIsOfWindow
  <2> QED
    BY <1>1, <2>1, <2>4, <2>5, <2>6 DEF HashInv
<1>7. CASE i = buff_size(p)
  <2>1. current_hash' = current_hash
    BY <1>2, <1>7 DEF Scan
  <2>2. ~ (i' <= buff_size(p)) /\ i' - 1 = i /\ ~ (i < buff_size(p))
    BY <1>1, <1>2, <1>7
  <2>3. HashIsOfWindow'
    BY <1>1, <1>3, <1>4, <1>5, <2>1, <2>2 DEF HashIsOfWindow
  <2> QED
    BY <1>1, <2>1, <2>2, <2>3 DEF HashInv
<1> QED
  BY <1>1, <1>2, <1>6, <1>7

\* The hash starts as the one of the first window, and every step keeps it.
LEMMA HashStep == IInv /\ HashInv /\ [Next]_vars => HashInv'
<1> SUFFICES ASSUME IInv, HashInv, [Next]_vars PROVE HashInv'
  OBVIOUS
<1>1. CASE Enter
  <2>1. /\ packets' = packets /\ p' = p /\ pc' = "scan" /\ i' = WIN_SIZE
        /\ current_hash' = initial_hash_func(p, 0) /\ buff_size(p) >= WIN_SIZE
        /\ p \in DOMAIN packets /\ packets \in Seq(Seq(Byte))
    BY <1>1 DEF Enter, Enters, IInv, Typed
  <2>2. buff_size(p) \in Nat /\ WIN_SIZE \in Nat \ {0}
    BY <2>1, SizeNat, ChunkerAssumption
  <2>3. Within(p, 0) /\ 0 \in Nat
    BY <2>1, <2>2 DEF Within
  <2>4. current_hash' \in 0 .. Word - 1
    BY <2>1, <2>3, HashType
  <2>5. initial_hash_func(p, 0)' = initial_hash_func(p, 0) /\ buff_size(p)' = buff_size(p)
    BY <2>1 DEF initial_hash_func, byte, buff_size
  <2>6. i' <= buff_size(p) /\ i' - WIN_SIZE = 0
    BY <2>1, <2>2
  <2>7. HashIsOfWindow'
    BY <2>1, <2>5, <2>6 DEF HashIsOfWindow
  <2> QED
    BY <2>1, <2>4, <2>7 DEF HashInv
<1>2. CASE Cut \/ Continue
  <2>1. Scan
    BY <1>2 DEF Cut, Cuts, Continue
  <2> QED
    BY <2>1, ScanHash
<1>3. CASE ReturnShort \/ Return
  BY <1>3 DEF ReturnShort, Return, HashInv, HashIsOfWindow
<1>4. CASE UNCHANGED vars
  BY <1>4 DEF vars, HashInv, HashIsOfWindow, initial_hash_func, byte, buff_size
<1> QED
  BY <1>1, <1>2, <1>3, <1>4 DEF Next

\* So the invariant holds whatever the packets, the window and the base.
THEOREM HashInvHolds == Spec => []HashInv
<1>1. Init => HashInv
  BY ChunkerAssumption DEF Init, HashInv, HashIsOfWindow
<1> QED
  BY <1>1, HashStep, Invariance, PTL DEF Spec

\* However far rolling_hash has rolled (cdc.cpp:11-13, 22-25), and however often the
\* 64 bits wrapped, the hash is what initial_hash_func makes of the window alone.
THEOREM HashOfWindow == Spec => []HashIsOfWindow
<1>1. HashInv => HashIsOfWindow
  BY DEF HashInv
<1> QED
  BY <1>1, HashInvHolds, PTL

\* The types of the chunker, the range of the hash included.
THEOREM TypeCorrect == Spec => []TypeOK
<1>1. IInv /\ HashInv => TypeOK
  BY DEF IInv, Typed, HashInv, TypeOK
<1> QED
  BY <1>1, Invariance, HashInvHolds, PTL

-----------------------------------------------------------------------------
(* Cuts.                                                                   *)

\* A chunk that starts at a position: a closed one, or the open one.
Starts(q, c) == \E n \in DOMAIN chunks : chunks[n].packet = q /\ chunks[n].from = c

\* The window that ends at a byte has the hash to cut at.
Marked(q, c) == Target(initial_hash_func(q, c + 1 - WIN_SIZE))

CutInv ==
  /\ \A q \in 1 .. p - 1 : Long(q) =>
       \A c \in WIN_SIZE .. buff_size(q) - 1 : Marked(q, c) <=> Starts(q, c)
  /\ pc = "scan" =>
       \A c \in WIN_SIZE .. buff_size(p) - 1 :
         c < i => (Marked(p, c) <=> start = c \/ Starts(p, c))

\* A chunk that is there stays, and at the same place.
LEMMA StartsKept ==
  ASSUME chunks' = chunks
  PROVE  \A q, c : Starts(q, c)' <=> Starts(q, c)
  BY DEF Starts

\* Windows and sizes of the packets received do not change.
LEMMA PacketsKept ==
  ASSUME packets' = packets
  PROVE  \A q, c : /\ Marked(q, c)' <=> Marked(q, c)
                   /\ buff_size(q)' = buff_size(q)
                   /\ Long(q)' <=> Long(q)
  BY DEF Marked, Target, initial_hash_func, byte, buff_size, Long

\* An iteration that cuts marks the window that ends at byte i, and no other does.
LEMMA CutStarts ==
  ASSUME IInv, CutInv, HashInv, Cut
  PROVE  CutInv'
<1>1. /\ pc = "scan" /\ pc' = "scan" /\ packets' = packets /\ p' = p /\ i' = i + 1 /\ start' = i
      /\ i <= buff_size(p) /\ Scan
      /\ chunks' = Append(chunks, [packet |-> p, from |-> start, size |-> i - start])
      /\ chunks \in Seq(Chunk)
  BY DEF Cut, Cuts, Scan, IInv, Typed
<1>2. /\ p \in DOMAIN packets /\ p \in Nat /\ i \in Nat
      /\ WIN_SIZE \in Nat \ {0} /\ buff_size(p) \in Nat /\ WIN_SIZE <= i
      /\ start \in Nat /\ start < i
  BY <1>1, ScanPlace DEF IInv, Typed, Open
<1>3. \A q, c : Starts(q, c)' <=> Starts(q, c) \/ (q = p /\ c = start)
  <2> DEFINE new == [packet |-> p, from |-> start, size |-> i - start]
  <2>1. /\ DOMAIN chunks = 1 .. Len(chunks) /\ DOMAIN chunks' = 1 .. Len(chunks) + 1
        /\ Len(chunks) \in Nat /\ chunks'[Len(chunks) + 1] = new
        /\ \A n \in 1 .. Len(chunks) : chunks'[n] = chunks[n]
    <3>1. new \in Chunk
      BY <1>2 DEF Chunk
    <3> QED
      BY <1>1, <3>1
  <2>2. new.packet = p /\ new.from = start
    OBVIOUS
  <2> HIDE DEF new
  <2>3. \A n : n \in 1 .. Len(chunks) + 1 <=> n \in 1 .. Len(chunks) \/ n = Len(chunks) + 1
    BY <2>1
  <2> QED
    BY <2>1, <2>2, <2>3 DEF Starts
<1>4. ASSUME NEW q \in 1 .. p - 1, Long(q), NEW c \in WIN_SIZE .. buff_size(q) - 1
      PROVE  Marked(q, c) <=> Starts(q, c)'
  BY <1>2, <1>3, <1>4 DEF CutInv
<1>5. ASSUME NEW c \in WIN_SIZE .. buff_size(p) - 1, c < i + 1
      PROVE  Marked(p, c) <=> i = c \/ Starts(p, c)'
  <2>1. CASE c < i
    BY <1>1, <1>2, <1>3, <1>5, <2>1 DEF CutInv
  <2>2. CASE c = i
    <3>1. i < buff_size(p)
      BY <1>2, <1>5, <2>2
    <3>2. Target(current_hash')
      BY <1>2, <3>1 DEF Cut, Cuts, CutHere
    <3>3. current_hash' = initial_hash_func(p, (i + 1) - WIN_SIZE)
      BY <1>1, <3>1, ScanHash
    <3> QED
      BY <1>2, <2>2, <3>2, <3>3 DEF Marked, Target
  <2> QED
    BY <1>2, <1>5, <2>1, <2>2
<1> QED
  BY <1>1, <1>4, <1>5, PacketsKept DEF CutInv

\* One that does not leaves a window that is not marked.
LEMMA ContinueStarts ==
  ASSUME IInv, CutInv, HashInv, Continue
  PROVE  CutInv'
<1>1. /\ pc = "scan" /\ pc' = "scan" /\ packets' = packets /\ p' = p /\ i' = i + 1 /\ start' = start
      /\ i < buff_size(p) /\ Scan /\ chunks' = chunks /\ ~ Target(current_hash')
  <2>1. pc = "scan" /\ Scan /\ i <= buff_size(p) /\ i # buff_size(p) /\ ~ Target(current_hash')
    BY DEF Continue, Scan, CutHere
  <2>2. i < buff_size(p)
    BY <2>1, ScanPlace
  <2> QED
    BY <2>1, <2>2 DEF Continue, Scan
<1>2. /\ p \in DOMAIN packets /\ p \in Nat /\ i \in Nat
      /\ WIN_SIZE \in Nat \ {0} /\ buff_size(p) \in Nat /\ WIN_SIZE <= i
      /\ start \in Nat /\ start < i
  BY <1>1, ScanPlace DEF IInv, Typed, Open
<1>3. ~ Starts(p, i)
  <2> SUFFICES ASSUME NEW n \in DOMAIN chunks, chunks[n].packet = p, chunks[n].from = i
               PROVE  FALSE
    BY DEF Starts
  <2>1. Placed(n) /\ chunks[n] \in Chunk
    BY DEF IInv, Typed
  <2> QED
    BY <1>2, <2>1 DEF Placed, Chunk
<1>4. ASSUME NEW c \in WIN_SIZE .. buff_size(p) - 1, c < i + 1
      PROVE  Marked(p, c) <=> start = c \/ Starts(p, c)
  <2>1. CASE c < i
    BY <1>1, <1>4, <2>1 DEF CutInv
  <2>2. CASE c = i
    <3>1. current_hash' = initial_hash_func(p, (i + 1) - WIN_SIZE)
      BY <1>1, ScanHash
    <3>2. ~ Marked(p, i)
      BY <1>1, <1>2, <3>1 DEF Marked, Target
    <3> QED
      BY <1>2, <1>3, <2>2, <3>2
  <2> QED
    BY <1>2, <1>4, <2>1, <2>2
<1> QED
  BY <1>1, <1>4, PacketsKept, StartsKept DEF CutInv

\* At the end of a call every byte is behind i, and the open chunk is empty.
LEMMA ReturnStarts ==
  ASSUME IInv, CutInv, Return
  PROVE  CutInv'
<1>1. /\ pc = "scan" /\ pc' = "call" /\ packets' = packets /\ p' = p + 1 /\ chunks' = chunks
      /\ i > buff_size(p)
  BY DEF Return
<1>2. /\ p \in Nat /\ i \in Nat /\ WIN_SIZE \in Nat \ {0} /\ buff_size(p) \in Nat
      /\ start = buff_size(p)
  <2>1. /\ p \in Nat /\ i \in Nat /\ WIN_SIZE \in Nat \ {0} /\ buff_size(p) \in Nat
        /\ i <= buff_size(p) + 1
    BY <1>1, ScanPlace DEF IInv, Typed
  <2>2. i = buff_size(p) + 1
    BY <1>1, <2>1
  <2> QED
    BY <1>1, <2>1, <2>2 DEF IInv, Open
<1>3. ASSUME NEW c \in WIN_SIZE .. buff_size(p) - 1
      PROVE  Marked(p, c) <=> Starts(p, c)
  <2>1. c < i /\ start # c
    BY <1>1, <1>2
  <2> QED
    BY <1>1, <2>1 DEF CutInv
<1>4. \A q \in 1 .. (p + 1) - 1 : q \in 1 .. p - 1 \/ q = p
  BY <1>2
<1> QED
  BY <1>1, <1>3, <1>4, PacketsKept, StartsKept DEF CutInv

\* Every step keeps it.
LEMMA CutInvStep == IInv /\ HashInv /\ CutInv /\ [Next]_vars => CutInv'
<1> SUFFICES ASSUME IInv, HashInv, CutInv, [Next]_vars PROVE CutInv'
  OBVIOUS
<1>1. CASE ReturnShort
  <2>1. /\ pc' = "call" /\ packets' = packets /\ p' = p + 1 /\ chunks' = chunks
        /\ p \in Nat /\ ~ Long(p)
    <3>1. p \in DOMAIN packets /\ packets \in Seq(Seq(Byte)) /\ p \in Nat
      BY <1>1 DEF ReturnShort, IInv, Typed
    <3>2. buff_size(p) \in Nat
      BY <3>1, SizeNat
    <3> QED
      BY <1>1, <3>1, <3>2, ChunkerAssumption DEF ReturnShort, Long
  <2>2. \A q \in 1 .. (p + 1) - 1 : q \in 1 .. p - 1 \/ q = p
    BY <2>1
  <2> QED
    BY <2>1, <2>2, PacketsKept, StartsKept DEF CutInv
<1>2. CASE Enter
  <2>1. /\ packets' = packets /\ p' = p /\ pc' = "scan" /\ i' = WIN_SIZE /\ chunks' = chunks
    BY <1>2 DEF Enter, Enters
  <2>2. \A c \in WIN_SIZE .. buff_size(p) - 1 : ~ (c < WIN_SIZE)
    BY ChunkerAssumption
  <2> QED
    BY <2>1, <2>2, PacketsKept, StartsKept DEF CutInv
<1>3. CASE UNCHANGED vars
  <2>1. packets' = packets /\ chunks' = chunks /\ p' = p /\ pc' = pc /\ i' = i /\ start' = start
    BY <1>3 DEF vars
  <2> QED
    BY <2>1, PacketsKept, StartsKept DEF CutInv
<1> QED
  BY <1>1, <1>2, <1>3, CutStarts, ContinueStarts, ReturnStarts DEF Next

\* rabin_fingerprint_cdc cuts where the window ends that has the hash to cut at, and
\* nowhere else but at the end (cdc.cpp:22-36): the same bytes are cut at the same
\* place in whatever packet they come.
THEOREM CutsDependOnContent == Spec => []CutsAreContentDefined
<1>1. Init => CutInv
  BY DEF Init, CutInv
<1>2. CutInv => CutsAreContentDefined
  BY DEF CutInv, CutsAreContentDefined, Marked, Starts
<1> QED
  BY <1>1, <1>2, CutInvStep, HashInvHolds, Invariance, PTL DEF Spec
-----------------------------------------------------------------------------
(***************************************************************************)
(* The gear chunker, for any payloads, table, masks and sizes.  Its open   *)
(* chunk reaches from start to i and stays below the maximum (GearIInv);   *)
(* its hash is told from the last bytes, and so no chunk could have ended  *)
(* before it does (FirstInv).                                              *)
(***************************************************************************)
\* A byte rolled into a hash makes a hash.
LEMMA RollIsHash == \A h \in Hash, c \in Byte : gear_rolling_hash(h, c) \in Hash
<1> SUFFICES ASSUME NEW h \in Hash, NEW c \in Byte PROVE gear_rolling_hash(h, c) \in Hash
  OBVIOUS
<1> SUFFICES ASSUME NEW b \in Bit
             PROVE ((IF b = 0 THEN 0 ELSE h[b - 1]) + gear_table[c][b]) % 2 \in {0, 1}
  BY DEF gear_rolling_hash, Hash
<1>1. gear_table[c][b] \in {0, 1}
  BY GearAssumption DEF Hash
<1>2. b # 0 => b - 1 \in Bit
  BY GearAssumption DEF Bit
<1>3. (IF b = 0 THEN 0 ELSE h[b - 1]) \in {0, 1}
  BY <1>2 DEF Hash
<1> QED
  BY <1>1, <1>3

\* The hash a call starts with.
LEMMA ZeroIsHash == Zero \in Hash
BY DEF Zero, Hash

\* Payloads and their bytes are where the constants put them.
LEMMA PayloadTypes ==
  ASSUME GearTypeOK
  PROVE  /\ packets \in Seq(Seq(Byte)) /\ p \in Nat
         /\ p <= Len(packets) => /\ buff_size(p) \in Nat
                                 /\ \A n \in 0 .. buff_size(p) - 1 : byte(p, n) \in Byte
<1>1. packets \in Seq(Seq(Byte)) /\ p \in 1 .. Len(packets) + 1
  BY GearAssumption DEF GearTypeOK
<1>2. ASSUME p <= Len(packets) PROVE packets[p] \in Seq(Byte)
  BY <1>1, <1>2
<1> QED
  BY <1>1, <1>2 DEF buff_size, byte

\* No chunk is open before the first payload.
LEMMA InitGearIInv == GearInit => GearIInv
BY GearAssumption, ZeroIsHash DEF GearInit, GearIInv, GearTypeOK, GearOpen

\* One step per action: an open chunk grows by a byte, and is cut before the maximum.
LEMMA StepGearIInv == GearIInv /\ [GearNext]_gearVars => GearIInv'
<1> SUFFICES ASSUME GearIInv, [GearNext]_gearVars PROVE GearIInv'
  OBVIOUS
<1> USE GearAssumption
<1>0. /\ packets \in Seq(Seq(Byte)) /\ p \in Nat /\ i \in Nat /\ start \in Nat
      /\ chunk_size \in Nat /\ chunks \in Seq(Chunk)
      /\ p <= Len(packets) => /\ buff_size(p) \in Nat
                              /\ \A n \in 0 .. buff_size(p) - 1 : byte(p, n) \in Byte
  BY PayloadTypes DEF GearIInv, GearTypeOK
<1>1. CASE GearReturnShort
  BY <1>0, <1>1 DEF GearReturnShort, GearIInv, GearTypeOK, GearOpen, buff_size
<1>2. CASE GearEnter
  BY <1>0, <1>2, ZeroIsHash DEF GearEnter, GearIInv, GearTypeOK, GearOpen, buff_size
<1>3. ASSUME Roll PROVE /\ i' = i + 1 /\ i < buff_size(p) /\ p <= Len(packets)
                        /\ buff_size(p) \in Nat /\ buff_size(p)' = buff_size(p)
                        /\ current_hash' \in Hash
  <2>1. p <= Len(packets) /\ buff_size(p) \in Nat /\ byte(p, i) \in Byte
    BY <1>0, <1>3 DEF Roll, GearIInv, GearOpen
  <2> QED
    BY <1>3, <2>1, RollIsHash DEF Roll, GearIInv, GearTypeOK, buff_size
<1>4. CASE GearCut
  <2>1. chunks' \in Seq(Chunk)
    BY <1>0, <1>4 DEF GearCut, Chunk
  <2>2. GearTypeOK'
    BY <1>0, <1>3, <1>4, <2>1 DEF GearCut, Roll, GearIInv, GearTypeOK
  <2>3. GearOpen'
    BY <1>0, <1>3, <1>4 DEF GearCut, Roll, GearIInv, GearOpen
  <2> QED
    BY <2>2, <2>3 DEF GearIInv
<1>5. CASE GearContinue
  <2>1. chunk_size + 1 \in 0 .. FASTCDC_MAX_CHUNK - 2
    BY <1>0, <1>5 DEF GearContinue, GearCutHere, EndsHere, GearIInv, GearTypeOK
  <2>2. GearTypeOK'
    BY <1>0, <1>3, <1>5, <2>1 DEF GearContinue, Roll, GearIInv, GearTypeOK
  <2>3. i = buff_size(p) - 1 => chunk_size + 1 < FASTCDC_MIN_CHUNK
    BY <1>0, <1>5 DEF GearContinue, GearCutHere, EndsHere
  <2>4. GearOpen'
    BY <1>0, <1>3, <1>5, <2>3 DEF GearContinue, Roll, GearIInv, GearOpen
  <2> QED
    BY <2>2, <2>4 DEF GearIInv
<1>6. CASE GearReturn
  BY <1>0, <1>6 DEF GearReturn, GearIInv, GearTypeOK, GearOpen, buff_size
<1>7. CASE UNCHANGED gearVars
  BY <1>7 DEF gearVars, GearIInv, GearTypeOK, GearOpen, buff_size
<1> QED
  BY <1>1, <1>2, <1>4, <1>5, <1>6, <1>7 DEF GearNext

\* The invariant, for any payloads, table, masks and sizes.
THEOREM GearIInvHolds == GearSpec => []GearIInv
BY InitGearIInv, StepGearIInv, PTL DEF GearSpec

\* The type invariant; it says that an open chunk stays below the maximum size, that
\* of the buffers cut chunks are copied to.
THEOREM GearTypeCorrect == GearSpec => []GearTypeOK
BY GearIInvHolds, PTL DEF GearIInv

-----------------------------------------------------------------------------
\* The contract starts where the chunker starts.
LEMMA GearInitPromised == GearInit => GearPromise!Init
BY DEF GearInit, GearPromise!Init

\* A chunk is a cut of the contract, the end of a call leaves the payload, and an
\* undivided byte is a stutter.
LEMMA GearStepPromised == GearIInv /\ [GearNext]_gearVars => [GearPromise!Next]_(GearPromise!vars)
<1> SUFFICES ASSUME GearIInv, [GearNext]_gearVars PROVE [GearPromise!Next]_(GearPromise!vars)
  OBVIOUS
<1> USE GearAssumption
<1>0. /\ packets \in Seq(Seq(Byte)) /\ p \in Nat /\ i \in Nat /\ start \in Nat
      /\ chunk_size \in Nat
      /\ p <= Len(packets) => buff_size(p) \in Nat
  BY PayloadTypes DEF GearIInv, GearTypeOK
<1>1. CASE GearReturnShort
  <2>1. GearPromise!Leave
    BY <1>0, <1>1 DEF GearReturnShort, GearPromise!Leave, buff_size
  <2> QED
    BY <2>1 DEF GearPromise!Next
<1>2. CASE GearEnter
  BY <1>2 DEF GearEnter, GearPromise!vars
<1>3. CASE GearCut
  <2>1. /\ p <= Len(packets) /\ i < buff_size(p) /\ start + chunk_size = i
        /\ pc = "scan" /\ pc' = "scan"
        /\ chunk_size \in 0 .. FASTCDC_MAX_CHUNK - 2
    BY <1>0, <1>3 DEF GearCut, Roll, GearIInv, GearTypeOK, GearOpen
  <2>2. chunk_size + 1 \in FASTCDC_MIN_CHUNK .. FASTCDC_MAX_CHUNK - 1
    BY <1>0, <1>3, <2>1 DEF GearCut, GearCutHere
  <2>3. start' \in start + 1 .. Len(packets[p]) /\ start' - start = chunk_size + 1
    BY <1>0, <1>3, <2>1 DEF GearCut, buff_size
  <2>4. GearPromise!Cut
    BY <1>3, <2>1, <2>2, <2>3 DEF GearCut, Roll, GearPromise!Cut
  <2> QED
    BY <2>4 DEF GearPromise!Next
<1>4. CASE GearContinue
  BY <1>4 DEF GearContinue, Roll, GearPromise!vars
<1>5. CASE GearReturn
  <2>1. /\ p <= Len(packets) /\ i = buff_size(p) /\ start + chunk_size = i
        /\ chunk_size < FASTCDC_MIN_CHUNK
    BY <1>5 DEF GearReturn, GearIInv, GearOpen
  <2>2. Len(packets[p]) \in Nat /\ Len(packets[p]) - start \in 0 .. FASTCDC_MIN_CHUNK - 1
    BY <1>0, <2>1 DEF buff_size
  <2>3. GearPromise!Leave
    BY <1>5, <2>1, <2>2 DEF GearReturn, GearPromise!Leave
  <2> QED
    BY <2>3 DEF GearPromise!Next
<1>6. CASE UNCHANGED gearVars
  BY <1>6 DEF gearVars, GearPromise!vars
<1> QED
  BY <1>1, <1>2, <1>3, <1>4, <1>5, <1>6 DEF GearNext

\* Whatever the hash, its table and the masks are: the chunks of a payload follow one
\* another, their sizes are those the constants promise, and less than a smallest
\* chunk is left.
THEOREM GearKeepsContract == GearSpec => GearImplementsChunking
<1>1. GearIInv /\ [GearNext]_gearVars => [GearPromise!Next]_(GearPromise!vars)
  BY GearStepPromised
<1> QED
  BY <1>1, GearInitPromised, GearIInvHolds, PTL DEF GearSpec, GearImplementsChunking, GearPromise!Spec

-----------------------------------------------------------------------------
(* The rolled hash is that of the last bytes.                              *)

\* The words that reach bit b of the hash at byte n, by how far back their byte is.
Reach(q, n, b) == {d \in 0 .. b : d <= n /\ gear_table[byte(q, n - d)][b - d] = 1}

\* Words reach a bit from 0 to b bytes back.
LEMMA ReachFinite ==
  \A q, n, b : b \in Nat => /\ IsFiniteSet(Reach(q, n, b))
                            /\ Cardinality(Reach(q, n, b)) \in Nat
<1> SUFFICES ASSUME NEW q, NEW n, NEW b \in Nat
             PROVE  IsFiniteSet(Reach(q, n, b)) /\ Cardinality(Reach(q, n, b)) \in Nat
  OBVIOUS
<1>1. IsFiniteSet(0 .. b) /\ Reach(q, n, b) \subseteq 0 .. b
  BY FS_Interval DEF Reach
<1> QED
  BY <1>1, FS_Subset, FS_CardinalityType

\* The words that reach bit b one byte later are the ones that reached bit b - 1, one
\* byte further back, and that of the byte itself.
LEMMA ReachNext ==
  ASSUME NEW q, NEW n \in Nat, NEW b \in Bit,
         gear_table[byte(q, n)][b] \in {0, 1}
  PROVE  Cardinality(Reach(q, n, b)) =
           (IF b = 0 THEN 0 ELSE Cardinality(Reach(q, n - 1, b - 1))) + gear_table[byte(q, n)][b]
<1> DEFINE Old  == Reach(q, n - 1, b - 1)
           Back == {d \in 1 .. b : d <= n /\ gear_table[byte(q, n - d)][b - d] = 1}
<1>1. b \in Nat
  BY GearAssumption DEF Bit
<1>2. IsFiniteSet(Back) /\ Cardinality(Back) \in Nat
  <2>1. IsFiniteSet(1 .. b) /\ Back \subseteq 1 .. b
    BY <1>1, FS_Interval
  <2> QED
    BY <2>1, FS_Subset, FS_CardinalityType
<1>3. Reach(q, n, b) = IF gear_table[byte(q, n)][b] = 1 THEN Back \cup {0} ELSE Back
  <2>1. n - 0 = n /\ b - 0 = b
    BY <1>1
  <2> QED
    BY <1>1, <2>1 DEF Reach
<1>4. Cardinality(Reach(q, n, b)) = Cardinality(Back) + gear_table[byte(q, n)][b]
  <2>1. 0 \notin Back
    OBVIOUS
  <2>2. Cardinality(Back \cup {0}) = Cardinality(Back) + 1
    BY <1>2, <2>1, FS_AddElement
  <2> QED
    BY <1>2, <1>3, <2>2
<1>5. CASE b = 0
  <2>1. Back = {}
    BY <1>5
  <2> QED
    BY <1>4, <1>5, <2>1, FS_EmptySet
<1>6. CASE b # 0
  <2> DEFINE f == [d \in Old |-> d + 1]
  <2>1. b - 1 \in Nat /\ IsFiniteSet(Old)
    BY <1>1, <1>6, ReachFinite
  <2>2. \A d \in Old : d \in Int /\ d + 1 \in Back
    <3> SUFFICES ASSUME NEW d \in Old PROVE d \in Int /\ d + 1 \in Back
      OBVIOUS
    <3>1. d \in 0 .. b - 1 /\ d <= n - 1 /\ gear_table[byte(q, (n - 1) - d)][(b - 1) - d] = 1
      BY DEF Reach
    <3>2. (n - 1) - d = n - (d + 1) /\ (b - 1) - d = b - (d + 1)
      BY <1>1, <3>1
    <3> QED
      BY <1>1, <3>1, <3>2
  <2>3. \A d \in Back : d - 1 \in Old /\ d = (d - 1) + 1
    <3> SUFFICES ASSUME NEW d \in Back PROVE d - 1 \in Old /\ d = (d - 1) + 1
      OBVIOUS
    <3>1. d \in 1 .. b /\ d <= n /\ gear_table[byte(q, n - d)][b - d] = 1
      OBVIOUS
    <3>2. (n - 1) - (d - 1) = n - d /\ (b - 1) - (d - 1) = b - d
      BY <1>1, <3>1
    <3> QED
      BY <1>1, <3>1, <3>2 DEF Reach
  <2>4. f \in Bijection(Old, Back)
    <3>1. f \in [Old -> Back]
      BY <2>2
    <3>2. \A x, y \in Old : f[x] = f[y] => x = y
      BY <2>2
    <3>3. \A y \in Back : \E x \in Old : f[x] = y
      BY <2>3
    <3> QED
      BY <3>1, <3>2, <3>3, Fun_IsBij
  <2>5. Cardinality(Back) = Cardinality(Old)
    BY <2>1, <2>4, FS_Bijection DEF ExistsBijection
  <2> QED
    BY <1>4, <1>6, <2>5
<1> QED
  BY <1>5, <1>6

\* Two numbers and a bit: their sum's parity is told by their parities.
LEMMA Parity == \A m \in Nat, k \in {0, 1} : (m + k) % 2 = ((m % 2) + k) % 2
OBVIOUS

\* Rolling a byte in takes the hash at the byte before to the hash at that byte.
LEMMA RollFollowsHashAt ==
  ASSUME NEW q, NEW n \in Nat, byte(q, n) \in Byte
  PROVE  gear_rolling_hash(HashAt(q, n - 1), byte(q, n)) = HashAt(q, n)
<1> SUFFICES ASSUME NEW b \in Bit
             PROVE ((IF b = 0 THEN 0 ELSE HashAt(q, n - 1)[b - 1]) + gear_table[byte(q, n)][b]) % 2
                     = Cardinality(Reach(q, n, b)) % 2
  BY DEF gear_rolling_hash, HashAt, Reach
<1>1. gear_table[byte(q, n)][b] \in {0, 1} /\ b \in Nat
  BY GearAssumption DEF Hash, Bit
<1>2. Cardinality(Reach(q, n, b)) =
        (IF b = 0 THEN 0 ELSE Cardinality(Reach(q, n - 1, b - 1))) + gear_table[byte(q, n)][b]
  BY <1>1, ReachNext
<1>3. CASE b = 0
  BY <1>1, <1>2, <1>3
<1>4. CASE b # 0
  <2>1. b - 1 \in Bit /\ b - 1 \in Nat
    BY <1>1, <1>4, GearAssumption DEF Bit
  <2>2. HashAt(q, n - 1)[b - 1] = Cardinality(Reach(q, n - 1, b - 1)) % 2
    BY <2>1 DEF HashAt, Reach
  <2>3. Cardinality(Reach(q, n - 1, b - 1)) \in Nat
    BY <2>1, ReachFinite
  <2> QED
    BY <1>1, <1>2, <1>4, <2>2, <2>3, Parity
<1> QED
  BY <1>3, <1>4

\* Before the first byte the hash is zero.
LEMMA HashAtStart == \A q : HashAt(q, -1) = Zero
<1> SUFFICES ASSUME NEW q, NEW b \in Bit PROVE Cardinality(Reach(q, -1, b)) % 2 = 0
  BY DEF HashAt, Reach, Zero
<1>1. Reach(q, -1, b) = {}
  BY GearAssumption DEF Reach, Bit
<1> QED
  BY <1>1, FS_EmptySet

-----------------------------------------------------------------------------
(* Chunks end where they first may.                                        *)

\* What the end of a chunk depends on is never assigned.
EndsAt(q, from, size) == EndsHere(q, from + size - 1, size, HashAt(q, from + size - 1))

\* The hash is that of the bytes before i, and the open chunk could end nowhere yet.
HashKept == pc = "scan" => current_hash = HashAt(p, i - 1)
NotYet   == pc = "scan" => \A size \in FASTCDC_MIN_CHUNK .. chunk_size : ~ EndsAt(p, start, size)

FirstInv == HashKept /\ NotYet /\ CutsAreFirst

\* A call starts with a zero hash and an empty chunk.
LEMMA InitFirst == GearInit => FirstInv
BY DEF GearInit, FirstInv, HashKept, NotYet, CutsAreFirst

\* One step keeps the three, given the typed and contiguous chunks of IInv.
LEMMA StepFirst == GearIInv /\ FirstInv /\ [GearNext]_gearVars => FirstInv'
<1> SUFFICES ASSUME GearIInv, FirstInv, [GearNext]_gearVars PROVE FirstInv'
  OBVIOUS
<1> USE GearAssumption
<1>0. /\ packets \in Seq(Seq(Byte)) /\ p \in Nat /\ i \in Nat /\ start \in Nat
      /\ chunk_size \in Nat /\ chunks \in Seq(Chunk)
      /\ p <= Len(packets) => /\ buff_size(p) \in Nat
                              /\ \A n \in 0 .. buff_size(p) - 1 : byte(p, n) \in Byte
  BY PayloadTypes DEF GearIInv, GearTypeOK
<1>1. packets' = packets
  BY DEF GearNext, GearReturnShort, GearEnter, GearCut, GearContinue, Roll, GearReturn, gearVars
<1>2. \A q, n : HashAt(q, n)' = HashAt(q, n)
  BY <1>1 DEF HashAt, byte
<1>3. \A q, from, size : EndsAt(q, from, size)' <=> EndsAt(q, from, size)
  BY <1>1, <1>2 DEF EndsAt, EndsHere, buff_size
<1>4. chunks' = chunks => CutsAreFirst'
  BY <1>3 DEF FirstInv, CutsAreFirst, EndsAt
<1>5. ASSUME Roll
      PROVE  /\ HashKept' /\ current_hash' = HashAt(p, i)
             /\ i = start + chunk_size /\ pc = "scan" /\ p' = p
  <2>1. p <= Len(packets) /\ i < buff_size(p) /\ i = start + chunk_size /\ pc = "scan"
    BY <1>0, <1>5 DEF Roll, GearIInv, GearOpen
  <2>2. byte(p, i) \in Byte
    BY <1>0, <2>1
  <2>3. current_hash' = HashAt(p, i)
    BY <1>0, <1>5, <2>1, <2>2, RollFollowsHashAt DEF Roll, FirstInv, HashKept
  <2>4. i' - 1 = i /\ p' = p /\ pc' = pc
    BY <1>0, <1>5 DEF Roll
  <2> QED
    BY <1>2, <2>1, <2>3, <2>4 DEF HashKept
<1>6. CASE GearReturnShort
  BY <1>4, <1>6 DEF GearReturnShort, FirstInv, HashKept, NotYet
<1>7. CASE GearEnter
  <2>1. 0 - 1 = -1
    OBVIOUS
  <2>2. HashKept'
    BY <1>2, <1>7, <2>1, HashAtStart DEF GearEnter, HashKept
  <2> QED
    BY <1>4, <1>7, <2>2 DEF GearEnter, FirstInv, NotYet
<1>8. CASE GearCut
  <2> DEFINE c == [packet |-> p, from |-> start, size |-> chunk_size + 1]
  <2>1. start + (chunk_size + 1) - 1 = i /\ start' = i + 1 /\ chunk_size' = 0
    BY <1>0, <1>5, <1>8 DEF GearCut
  <2>2. EndsAt(c.packet, c.from, c.size)
    BY <1>5, <1>8, <2>1 DEF GearCut, GearCutHere, EndsAt
  <2>3. \A size \in FASTCDC_MIN_CHUNK .. c.size - 1 : ~ EndsAt(c.packet, c.from, size)
    BY <1>0, <1>5, <1>8 DEF GearCut, FirstInv, NotYet
  <2>4. \A n \in DOMAIN chunks' : (n \in DOMAIN chunks /\ chunks'[n] = chunks[n]) \/ chunks'[n] = c
    BY <1>0, <1>8 DEF GearCut
  <2>5. CutsAreFirst'
    <3> SUFFICES ASSUME NEW n \in DOMAIN chunks'
                 PROVE  /\ EndsAt(chunks'[n].packet, chunks'[n].from, chunks'[n].size)
                        /\ \A size \in FASTCDC_MIN_CHUNK .. chunks'[n].size - 1 :
                             ~ EndsAt(chunks'[n].packet, chunks'[n].from, size)
      BY <1>3 DEF CutsAreFirst, EndsAt
    <3>1. CASE n \in DOMAIN chunks /\ chunks'[n] = chunks[n]
      BY <3>1 DEF FirstInv, CutsAreFirst, EndsAt
    <3>2. CASE chunks'[n] = c
      BY <2>2, <2>3, <3>2
    <3> QED
      BY <2>4, <3>1, <3>2
  <2>6. NotYet'
    BY <2>1 DEF NotYet
  <2> QED
    BY <1>5, <1>8, <2>5, <2>6 DEF GearCut, FirstInv
<1>9. CASE GearContinue
  <2>1. /\ start + (chunk_size + 1) - 1 = i /\ start' = start /\ chunk_size' = chunk_size + 1
        /\ p' = p /\ pc = "scan" /\ pc' = "scan"
    BY <1>0, <1>5, <1>9 DEF GearContinue, Roll
  <2>2. chunk_size + 1 >= FASTCDC_MIN_CHUNK => ~ EndsAt(p, start, chunk_size + 1)
    BY <1>5, <1>9, <2>1 DEF GearContinue, GearCutHere, EndsAt
  <2>3. \A size \in FASTCDC_MIN_CHUNK .. chunk_size + 1 : ~ EndsAt(p, start, size)
    <3> SUFFICES ASSUME NEW size \in FASTCDC_MIN_CHUNK .. chunk_size + 1
                 PROVE ~ EndsAt(p, start, size)
      OBVIOUS
    <3>1. CASE size \in FASTCDC_MIN_CHUNK .. chunk_size
      BY <2>1, <3>1 DEF FirstInv, NotYet
    <3>2. CASE size = chunk_size + 1
      <4>1. chunk_size + 1 >= FASTCDC_MIN_CHUNK
        BY <1>0, <3>2
      <4> QED
        BY <2>2, <3>2, <4>1
    <3> QED
      BY <1>0, <3>1, <3>2
  <2>4. NotYet'
    <3>1. \A size : EndsAt(p, start, size)' <=> EndsAt(p, start, size)
      BY <1>1, <1>2, <2>1 DEF EndsAt, EndsHere, buff_size
    <3> QED
      BY <2>1, <2>3, <3>1 DEF NotYet
  <2> QED
    BY <1>4, <1>5, <1>9, <2>4 DEF GearContinue, FirstInv
<1>10. CASE GearReturn
  BY <1>4, <1>10 DEF GearReturn, FirstInv, HashKept, NotYet
<1>11. CASE UNCHANGED gearVars
  BY <1>2, <1>3, <1>4, <1>11 DEF gearVars, FirstInv, HashKept, NotYet
<1> QED
  BY <1>6, <1>7, <1>8, <1>9, <1>10, <1>11 DEF GearNext

\* Whatever the table and the masks are, every chunk ends at the first byte, behind
\* the smallest size, whose hash, told from the last HashBits bytes of the payload
\* alone, lets it end there.
THEOREM ChunksEndFirst == GearSpec => []CutsAreFirst
<1>1. GearIInv /\ FirstInv /\ [GearNext]_gearVars => FirstInv'
  BY StepFirst
<1>2. FirstInv => CutsAreFirst
  BY DEF FirstInv
<1> QED
  BY <1>1, <1>2, InitFirst, GearIInvHolds, PTL DEF GearSpec
=============================================================================

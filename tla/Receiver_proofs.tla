--------------------------- MODULE Receiver_proofs ---------------------------
(***************************************************************************)
(* Proofs about module Receiver: the file is a function of what recvfrom   *)
(* returned, and is what was sent when the network behaved.                *)
(*                                                                         *)
(* The argument: the buffer that an iteration decodes is the one of the    *)
(* iteration a lap before, so that it holds the packet read into it last,  *)
(* whatever calls failed since (RingInv); the file is then the payloads of *)
(* those packets (FileInv); the loop has ended exactly when the last call  *)
(* returned the last packet, or failed on a buffer never read into         *)
(* (EndInv); and over a network that behaves the packet of the nth call is *)
(* packet n (OrderInv).                                                    *)
(***************************************************************************)
EXTENDS Receiver, RecursionTheorems, SequenceTheorems, TLAPS

\* The buffer of the nth iteration.
SlotOf(n) == (pipe_depth + n - 1) % NUM_PACKETS

\* The calls that wrote the buffer of the nth, and the packet it holds.
WritesIn(h, n) == {m \in 1 .. n : (n - m) % NUM_PACKETS = 0 /\ h[m] # 0}
LastIn(h, n)   == h[Max(WritesIn(h, n))]

\* What an iteration appends that finds a packet in its buffer, and what of a buffer
\* makes it do so.
PayloadOf(lengths, packet) ==
  [u \in 1 .. lengths[packet] |-> IF u <= blocksize THEN <<packet, u>> ELSE Garbage]
Holds(buffer, lengths, packet) ==
  /\ buffer.length = lengths[packet]
  /\ buffer.done = (packet = Len(lengths))
  /\ \A u \in 1 .. lengths[packet] : buffer.data[u] = PayloadOf(lengths, packet)[u]

\* The buffers of the last lap hold what was read into them last; what recvfrom cuts
\* off was never written.
RingInv ==
  /\ slot = SlotOf(Len(history) + 1)
  /\ \A s \in Slot, u \in 1 .. MaxLength : u > blocksize => input[s].data[u] = Garbage
  /\ \A n \in 1 .. Len(history) :
       n > Len(history) - NUM_PACKETS /\ WritesIn(history, n) # {} =>
         Holds(input[SlotOf(n)], Lengths, LastIn(history, n))

\* Every iteration found a packet in its buffer, then the file is theirs.
Filled(h) == \A n \in 1 .. Len(h) : WritesIn(h, n) # {}
Payloads(lengths, h) == [n \in 1 .. Len(h) |-> PayloadOf(lengths, LastIn(h, n))]

FileInv == Filled(history) => file = FlattenSeq(Payloads(Lengths, history))

\* The last packet ends the loop; before the end no buffer holds it.
EndInv ==
  /\ \A n \in 1 .. Len(history) : history[n] = Len(Lengths) => n = Len(history) /\ done
  /\ done => /\ history # << >>
             /\ \/ history[Len(history)] = Len(Lengths)
                \/ WritesIn(history, Len(history)) = {}

\* Over a network that behaves, packets are received in the order they are sent.
OrderInv ==
  faults = 0 /\ errors = 0 =>
    /\ Len(history) + Len(network) = sent
    /\ \A n \in 1 .. Len(history) : history[n] = n
    /\ \A n \in 1 .. Len(network) : network[n] = Len(history) + n
    /\ done => Len(history) = Len(Lengths)

-----------------------------------------------------------------------------
(* The ring: the nth iteration uses the buffer of the one a lap before.    *)

\* The constants of the ring.
LEMMA RingSizes ==
  /\ NUM_PACKETS \in Nat \ {0} /\ pipe_depth \in 0 .. NUM_PACKETS - 1
  /\ blocksize \in Nat /\ MaxLength \in Nat \ {0}
  /\ MaxFaults \in Nat /\ MaxErrors \in Nat
BY RingAssumption

\* Slots are buffers of the ring, and the same a lap later.
LEMMA SlotIs ==
  ASSUME NEW n \in Nat \ {0}
  PROVE  SlotOf(n) \in Slot /\ (n > NUM_PACKETS => SlotOf(n - NUM_PACKETS) = SlotOf(n))
<1> DEFINE y == pipe_depth + n - 1
<1>1. y \in Nat /\ NUM_PACKETS \in Nat \ {0}
  BY RingSizes
<1>2. SlotOf(n) = y % NUM_PACKETS
  BY DEF SlotOf
<1>3. SlotOf(n) \in Slot
  <2> HIDE DEF y
  <2> QED
    BY <1>1, <1>2 DEF Slot
<1>4. ASSUME n > NUM_PACKETS PROVE SlotOf(n - NUM_PACKETS) = SlotOf(n)
  <2>1. pipe_depth + (n - NUM_PACKETS) - 1 = (-1) * NUM_PACKETS + y
    BY <1>1, RingSizes
  <2>2. ((-1) * NUM_PACKETS + y) % NUM_PACKETS = y % NUM_PACKETS
    <3> HIDE DEF y
    <3>1. -1 \in Int /\ y \in Int
      BY <1>1
    <3> QED
      BY <1>1, <3>1, Congruence
  <2> QED
    BY <1>2, <2>1, <2>2 DEF SlotOf
<1> QED
  BY <1>3, <1>4

\* Iterations of one lap use different buffers.
LEMMA SlotsDiffer ==
  ASSUME NEW n \in Nat \ {0}, NEW m \in Nat \ {0}, m < n, n - m < NUM_PACKETS
  PROVE  SlotOf(m) # SlotOf(n)
<1> DEFINE a == pipe_depth + m - 1
           b == pipe_depth + n - 1
           N == NUM_PACKETS
<1>1. a \in Nat /\ b \in Nat /\ b - a = n - m /\ N \in Nat \ {0}
  BY RingSizes
<1>2. SlotOf(m) = a % N /\ SlotOf(n) = b % N
  BY DEF SlotOf
<1>a. b - a > 0 /\ b - a < N
  BY <1>1
<1> HIDE DEF a, b, N
<1> SUFFICES ASSUME a % N = b % N PROVE FALSE
  BY <1>2
<1>3. a = N * (a \div N) + (a % N) /\ b = N * (b \div N) + (b % N)
      /\ a \div N \in Int /\ b \div N \in Int /\ a % N \in Int
  BY <1>1
<1> DEFINE d == a \div N
           e == b \div N
           r == a % N
<1>4. a = N * d + r /\ b = N * e + r /\ d \in Int /\ e \in Int /\ r \in Int
  BY <1>3
<1> HIDE DEF d, e, r
<1> DEFINE f == e - d
<1>5. f \in Int /\ b - a = N * f
  BY <1>1, <1>4
<1> HIDE DEF f
<1>6. CASE f >= 1
  <2>1. N * f >= N
    BY <1>1, <1>5, <1>6
  <2> QED
    BY <1>1, <1>5, <1>a, <2>1
<1>7. CASE f <= 0
  <2>1. N * f <= 0
    BY <1>1, <1>5, <1>7
  <2> QED
    BY <1>1, <1>5, <1>a, <2>1
<1> QED
  BY <1>5, <1>6, <1>7

\* The writer, moved on and wrapped, is at the buffer of the next iteration.
LEMMA SlotNext ==
  ASSUME NEW n \in Nat \ {0}
  PROVE  SlotOf(n + 1) = IF SlotOf(n) + 1 = NUM_PACKETS THEN 0 ELSE SlotOf(n) + 1
<1> DEFINE y == pipe_depth + n - 1
           N == NUM_PACKETS
           s == SlotOf(n)
<1>1. y \in Nat /\ N \in Nat \ {0}
  BY RingSizes
<1>2. s = y % N /\ SlotOf(n + 1) = (y + 1) % N
  <2>1. pipe_depth + (n + 1) - 1 = y + 1
    BY RingSizes
  <2> QED
    BY <2>1 DEF SlotOf
<1> HIDE DEF y, N
<1> DEFINE d == y \div N
<1>3. d \in Int /\ s \in 0 .. N - 1 /\ y = d * N + s
  BY <1>1, <1>2
<1> HIDE DEF d, s
<1>4. (y + 1) % N = (s + 1) % N
  <2>1. y + 1 = d * N + (s + 1)
    BY <1>1, <1>3
  <2>2. s + 1 \in Int
    BY <1>1, <1>3
  <2>3. (d * N + (s + 1)) % N = (s + 1) % N
    BY <1>1, <1>3, <2>2, Congruence
  <2> QED
    BY <2>1, <2>3
<1>5. CASE s + 1 = N
  <2>1. (1 * N + 0) % N = 0
    BY <1>1, Division
  <2>2. 1 * N + 0 = N
    BY <1>1
  <2> QED
    BY <1>2, <1>4, <1>5, <2>1, <2>2 DEF N, s
<1>6. CASE s + 1 # N
  <2>1. s + 1 \in 0 .. N - 1
    BY <1>1, <1>3, <1>6
  <2>2. (0 * N + (s + 1)) % N = s + 1
    BY <1>1, <2>1, Division
  <2>3. 0 * N + (s + 1) = s + 1
    BY <1>1, <2>1
  <2> QED
    BY <1>2, <1>4, <1>6, <2>2, <2>3 DEF N, s
<1> QED
  BY <1>5, <1>6

\* What the buffer of the nth iteration holds was read a lap before, or several, unless
\* the nth call wrote it.
LEMMA WritesLap ==
  ASSUME NEW h, NEW n \in Nat \ {0}, h[n] = 0
  PROVE  WritesIn(h, n) = IF n > NUM_PACKETS THEN WritesIn(h, n - NUM_PACKETS) ELSE {}
<1> DEFINE N == NUM_PACKETS
<1>1. N \in Nat \ {0}
  BY RingSizes
<1> HIDE DEF N
<1>2. ASSUME NEW m \in 1 .. n, (n - m) % N = 0, h[m] # 0
      PROVE  m <= n - N
  <2> DEFINE d == n - m
  <2>1. d \in Nat /\ d # 0 /\ d % N = 0
    <3>1. m # n
      BY <1>2
    <3> QED
      BY <1>2, <3>1
  <2> HIDE DEF d
  <2>2. CASE d < N
    <3>1. d \in 0 .. N - 1
      BY <1>1, <2>1, <2>2
    <3>2. (0 * N + d) % N = d
      BY <1>1, <3>1, Division
    <3>3. 0 * N + d = d
      BY <1>1, <2>1
    <3> QED
      BY <2>1, <3>2, <3>3
  <2>3. CASE d >= N
    BY <1>1, <2>3 DEF d
  <2> QED
    BY <1>1, <2>1, <2>2, <2>3
<1>3. ASSUME NEW m \in 1 .. n PROVE ((n - N) - m) % N = (n - m) % N
  <2>1. (n - N) - m = (-1) * N + (n - m)
    BY <1>1
  <2>2. -1 \in Int /\ n - m \in Int
    OBVIOUS
  <2>3. ((-1) * N + (n - m)) % N = (n - m) % N
    BY <1>1, <2>2, Congruence
  <2> QED
    BY <2>1, <2>3
<1>4. \A m : m \in 1 .. n /\ (n - m) % N = 0 /\ h[m] # 0
             <=> m \in 1 .. n - N /\ ((n - N) - m) % N = 0 /\ h[m] # 0
  <2>1. \A m \in 1 .. n - N : m \in 1 .. n
    BY <1>1
  <2>2. \A m \in 1 .. n : m <= n - N => m \in 1 .. n - N
    BY <1>1
  <2> QED
    BY <1>2, <1>3, <2>1, <2>2
<1>5. CASE n > N
  BY <1>4, <1>5 DEF WritesIn, N
<1>6. CASE ~ (n > N)
  <2>1. 1 .. n - N = {}
    BY <1>1, <1>6
  <2> QED
    BY <1>4, <1>6, <2>1 DEF WritesIn, N
<1> QED
  BY <1>5, <1>6 DEF N

\* The nth call wrote it: that is what it holds.
LEMMA WritesNow ==
  ASSUME NEW h, NEW n \in Nat \ {0}, h[n] # 0
  PROVE  WritesIn(h, n) # {} /\ LastIn(h, n) = h[n]
<1>1. n \in WritesIn(h, n) /\ WritesIn(h, n) \subseteq 1 .. n
  <2>1. (n - n) % NUM_PACKETS = 0
    <3>1. 0 * NUM_PACKETS + 0 = 0 /\ 0 \in 0 .. NUM_PACKETS - 1 /\ n - n = 0
      BY RingSizes
    <3>2. (0 * NUM_PACKETS + 0) % NUM_PACKETS = 0
      BY <3>1, RingSizes, Division
    <3> QED
      BY <3>1, <3>2
  <2> QED
    BY <2>1 DEF WritesIn
<1> DEFINE W == WritesIn(h, n)
<1>2. n \in W /\ W \subseteq 1 .. n /\ W # {} /\ n \in Nat
  BY <1>1
<1> HIDE DEF W
<1>3. Max(W) \in W /\ \A y \in W : Max(W) >= y
  BY <1>2, MaxIs
<1>4. Max(W) = n
  <2>1. Max(W) \in 1 .. n /\ Max(W) >= n
    BY <1>2, <1>3
  <2> QED
    BY <2>1
<1> QED
  BY <1>2, <1>4 DEF LastIn, W

\* Later calls change neither.
LEMMA WritesKept ==
  ASSUME NEW h, NEW e, NEW n \in Nat, \A m \in 1 .. n : h[m] = e[m]
  PROVE  /\ WritesIn(h, n) = WritesIn(e, n)
         /\ WritesIn(h, n) # {} => LastIn(h, n) = LastIn(e, n)
<1>1. WritesIn(h, n) = WritesIn(e, n)
  BY DEF WritesIn
<1>2. ASSUME WritesIn(h, n) # {} PROVE Max(WritesIn(h, n)) \in 1 .. n
  <2> DEFINE W == WritesIn(h, n)
  <2>1. W \subseteq 1 .. n /\ W # {}
    BY <1>2 DEF WritesIn
  <2> HIDE DEF W
  <2> QED
    BY <2>1, MaxIs DEF W
<1> QED
  BY <1>1, <1>2 DEF LastIn

\* What was read last into a buffer is a packet.
LEMMA LastPacket ==
  ASSUME NEW l \in Nat, NEW h \in Seq((1 .. l) \cup {0}), NEW n \in 1 .. Len(h), WritesIn(h, n) # {}
  PROVE  LastIn(h, n) \in 1 .. l
<1> DEFINE W == WritesIn(h, n)
<1>1. W \subseteq 1 .. n /\ W # {} /\ n \in Nat /\ \A m \in W : h[m] # 0
  BY DEF WritesIn
<1>2. Max(W) \in W
  <2> HIDE DEF W
  <2> QED
    BY <1>1, MaxIs
<1>3. Max(W) \in 1 .. Len(h)
  <2> HIDE DEF W
  <2>1. n \in 1 .. Len(h) /\ Len(h) \in Nat
    OBVIOUS
  <2>2. Max(W) \in 1 .. n
    BY <1>1, <1>2
  <2> QED
    BY <2>1, <2>2
<1>4. h[Max(W)] \in (1 .. l) \cup {0} /\ h[Max(W)] # 0
  <2> HIDE DEF W
  <2> QED
    BY <1>1, <1>2, <1>3
<1> QED
  BY <1>4 DEF LastIn

-----------------------------------------------------------------------------
(* Types, and what an iteration of the loop does whether or not recvfrom   *)
(* failed.                                                                 *)

\* A transfer has packets, and their lengths fit a buffer.
LEMMA LengthsAre ==
  ASSUME NEW l \in Transfers
  PROVE  l \in Seq(0 .. MaxLength) /\ Len(l) \in Nat \ {0}
         /\ \A p \in 1 .. Len(l) : l[p] \in 0 .. MaxLength
<1>1. l \in Seq(0 .. MaxLength) /\ l # << >>
  <2>1. Transfers \subseteq Seq(0 .. MaxLength) \ {<< >>}
    BY RingAssumption
  <2> QED
    BY <2>1
<1>2. Len(l) \in Nat \ {0}
  BY <1>1, EmptySeq
<1>3. \A p \in 1 .. Len(l) : l[p] \in 0 .. MaxLength
  <2> DEFINE S == 0 .. MaxLength
  <2>1. l \in Seq(S)
    BY <1>1
  <2> HIDE DEF S
  <2>2. \A p \in 1 .. Len(l) : l[p] \in S
    BY <2>1
  <2> QED
    BY <2>2 DEF S
<1> QED
  BY <1>1, <1>2, <1>3

\* The start of a sequence, as a function.
LEMMA StartOf ==
  ASSUME NEW S, NEW k \in Nat, NEW d \in [1 .. k -> S], NEW n \in 0 .. k
  PROVE  SubSeq(d, 1, n) = [u \in 1 .. n |-> d[u]] /\ SubSeq(d, 1, n) \in Seq(S)
<1>1. d \in Seq(S) /\ Len(d) = k
  OBVIOUS
<1>2. /\ SubSeq(d, 1, n) \in Seq(S) /\ Len(SubSeq(d, 1, n)) = n
      /\ \A u \in 1 .. n : SubSeq(d, 1, n)[u] = d[u]
  BY <1>1
<1>3. SubSeq(d, 1, n) = [u \in 1 .. n |-> SubSeq(d, 1, n)[u]]
  BY <1>2
<1> QED
  BY <1>2, <1>3

\* One iteration: get_packet returned packet x, or failed (x = 0).
Iteration(x) == /\ Lengths' = Lengths
                /\ history' = Append(history, x)
                /\ x # 0 => input' = [input EXCEPT ![slot] = Received(x)]
                /\ x = 0 => input' = input
                /\ Decode

\* What is received is a buffer.
LEMMA ReceivedType ==
  ASSUME TypeOK, NEW p \in Packet
  PROVE  Received(p) \in Buffer /\ slot \in Slot
<1>1. slot \in Slot
  BY RingSizes DEF TypeOK, slot, Slot
<1>2. input[slot] \in Buffer
  BY <1>1 DEF TypeOK
<1>3. Lengths[p] \in 0 .. MaxLength
  BY LengthsAre DEF TypeOK, Packet
<1>4. ASSUME NEW u \in 1 .. MaxLength
      PROVE  (IF u <= Lengths[p] /\ u <= blocksize THEN <<p, u>> ELSE input[slot].data[u])
               \in Block \cup {Garbage}
  <2>1. <<p, u>> \in Block
    BY DEF Block
  <2>2. input[slot].data[u] \in Block \cup {Garbage}
    BY <1>2 DEF Buffer
  <2> QED
    BY <2>1, <2>2
<1> QED
  BY <1>1, <1>3, <1>4 DEF Received, Buffer

\* An iteration keeps the types of what it changes.
LEMMA IterationTypes ==
  ASSUME TypeOK, NEW x \in Packet \cup {0}, Iteration(x)
  PROVE  /\ input' \in [Slot -> Buffer]
         /\ writer' \in 0 .. NUM_PACKETS
         /\ done' \in BOOLEAN
         /\ file' \in Seq(Block \cup {Garbage})
         /\ history' \in Seq(Packet \cup {0})
         /\ Payload \in Seq(Block \cup {Garbage})
<1>1. slot \in Slot
  BY RingSizes DEF TypeOK, slot, Slot
<1>2. input' \in [Slot -> Buffer]
  <2>1. CASE x = 0
    BY <2>1 DEF Iteration, TypeOK
  <2>2. CASE x # 0
    <3>1. Received(x) \in Buffer
      BY <2>2, ReceivedType
    <3> QED
      BY <2>2, <3>1 DEF Iteration, TypeOK
  <2> QED
    BY <2>1, <2>2
<1>3. input'[slot] \in Buffer
  BY <1>1, <1>2
<1>4. writer' \in 0 .. NUM_PACKETS
  BY <1>1, RingSizes DEF Iteration, Decode, next_writer, Slot
<1>5. done' \in BOOLEAN
  BY <1>3 DEF Iteration, Decode, Done_bit, Buffer
<1>6. Payload \in Seq(Block \cup {Garbage})
  <2>1. /\ input'[slot].data \in [1 .. MaxLength -> Block \cup {Garbage}]
        /\ input'[slot].length \in 0 .. MaxLength
    BY <1>3 DEF Buffer
  <2> QED
    BY <2>1, StartOf, RingSizes DEF Payload
<1>7. file' \in Seq(Block \cup {Garbage})
  BY <1>6 DEF Iteration, Decode, TypeOK
<1>8. history' \in Seq(Packet \cup {0})
  BY DEF Iteration, TypeOK
<1> QED
  BY <1>2, <1>4, <1>5, <1>6, <1>7, <1>8

\* Receive and ReceiveError are iterations.
LEMMA Iterations ==
  ASSUME TypeOK
  PROVE  /\ Receive => network[1] \in Packet /\ Len(network) >= 1 /\ Iteration(network[1])
         /\ ReceiveError => Iteration(0)
<1>1. ASSUME Receive PROVE network[1] \in Packet /\ Len(network) >= 1
  BY <1>1 DEF TypeOK, Receive
<1>2. ASSUME Receive PROVE Iteration(network[1])
  <2>1. network[1] # 0
    BY <1>1, <1>2 DEF Packet
  <2> QED
    BY <1>2, <2>1 DEF Receive, Iteration
<1>3. ASSUME ReceiveError PROVE Iteration(0)
  BY <1>3 DEF ReceiveError, Iteration
<1> QED
  BY <1>1, <1>2, <1>3

\* The buffers start with headers of any kind, and what malloc left.
LEMMA InitTypes == Init => TypeOK
<1> SUFFICES ASSUME Init PROVE TypeOK
  OBVIOUS
<1>1. Len(Lengths) \in Nat \ {0}
  BY LengthsAre DEF Init
<1>2. input \in [Slot -> Buffer]
  <2>1. \A b \in Allocated : b \in Buffer
    BY DEF Allocated, Buffer
  <2> QED
    BY <2>1 DEF Init
<1>3. writer \in 0 .. NUM_PACKETS
  BY RingSizes DEF Init
<1>4. sent \in 0 .. Len(Lengths) /\ faults \in 0 .. MaxFaults /\ errors \in 0 .. MaxErrors
  BY <1>1, RingSizes DEF Init
<1>5. /\ file \in Seq(Block \cup {Garbage})
      /\ network \in Seq(Packet) /\ history \in Seq(Packet \cup {0})
  BY DEF Init
<1> QED
  BY <1>2, <1>3, <1>4, <1>5 DEF Init, TypeOK

\* One step per action.
LEMMA StepTypes == TypeOK /\ [Next]_vars => TypeOK'
<1> SUFFICES ASSUME TypeOK, [Next]_vars PROVE TypeOK'
  OBVIOUS
<1>0. /\ Len(Lengths) \in Nat \ {0} /\ network \in Seq(Packet)
      /\ sent \in 0 .. Len(Lengths) /\ faults \in 0 .. MaxFaults /\ errors \in 0 .. MaxErrors
  BY LengthsAre DEF TypeOK
<1>1. CASE Send
  <2>1. Lengths' = Lengths /\ UNCHANGED server
    BY <1>1 DEF Send, server
  <2>2. sent + 1 \in Packet /\ sent' \in 0 .. Len(Lengths)
    BY <1>0, <1>1 DEF Send, Packet
  <2>3. network' \in Seq(Packet)
    BY <1>0, <1>1, <2>2 DEF Send
  <2> QED
    BY <1>1, <2>1, <2>2, <2>3 DEF TypeOK, Send, server, Packet, Block, Buffer
<1>2. ASSUME Fault, network' \in Seq(Packet) PROVE TypeOK'
  <2>1. faults' \in 0 .. MaxFaults
    BY <1>0, <1>2, RingSizes DEF Fault
  <2> QED
    BY <1>2, <2>1 DEF TypeOK, Fault, server, Packet, Block, Buffer
<1>3. CASE Lose
  <2>1. PICK n \in DOMAIN network : network' = RemoveAt(network, n)
    BY <1>3 DEF Lose
  <2>2. RemoveAt(network, n) \in Seq(Packet)
    BY <1>0, <2>1 DEF RemoveAt
  <2> QED
    BY <1>2, <1>3, <2>1, <2>2 DEF Lose
<1>4. CASE Copy
  <2>1. PICK n \in DOMAIN network : network' = Append(network, network[n])
    BY <1>4 DEF Copy
  <2>2. network[n] \in Packet
    BY <1>0, <2>1
  <2> QED
    BY <1>0, <1>2, <1>4, <2>1, <2>2 DEF Copy
<1>5. CASE Reorder
  <2>1. PICK n \in DOMAIN network : network' = <<network[n]>> \o RemoveAt(network, n)
    BY <1>5 DEF Reorder
  <2>2. RemoveAt(network, n) \in Seq(Packet)
    BY <1>0, <2>1 DEF RemoveAt
  <2>3. network[n] \in Packet
    BY <1>0, <2>1
  <2>4. <<network[n]>> \in Seq(Packet)
    BY <2>3
  <2>5. network' \in Seq(Packet)
    BY <2>1, <2>2, <2>4
  <2> QED
    BY <1>2, <1>5, <2>5 DEF Reorder
<1>6. CASE Receive
  <2>1. network[1] \in Packet /\ Len(network) >= 1 /\ Iteration(network[1])
    BY <1>6, Iterations
  <2>2. network' \in Seq(Packet)
    BY <1>0, <1>6, <2>1 DEF Receive
  <2>3. UNCHANGED <<Lengths, sent, faults, errors>>
    BY <1>6 DEF Receive
  <2>4. /\ input' \in [Slot -> Buffer] /\ writer' \in 0 .. NUM_PACKETS /\ done' \in BOOLEAN
        /\ file' \in Seq(Block \cup {Garbage})
        /\ history' \in Seq(Packet \cup {0})
    BY <2>1, IterationTypes
  <2> QED
    BY <2>2, <2>3, <2>4 DEF TypeOK, Packet, Block, Buffer
<1>7. CASE ReceiveError
  <2>1. Iteration(0)
    BY <1>7, Iterations
  <2>2. UNCHANGED <<Lengths, sent, network, faults>> /\ errors' \in 0 .. MaxErrors
    BY <1>0, <1>7, RingSizes DEF ReceiveError
  <2>4. /\ input' \in [Slot -> Buffer] /\ writer' \in 0 .. NUM_PACKETS /\ done' \in BOOLEAN
        /\ file' \in Seq(Block \cup {Garbage})
        /\ history' \in Seq(Packet \cup {0})
    BY <2>1, IterationTypes
  <2> QED
    BY <2>2, <2>4 DEF TypeOK, Packet, Block, Buffer
<1>8. CASE UNCHANGED vars
  BY <1>8 DEF TypeOK, vars, server, Packet, Block, Buffer
<1> QED
  BY <1>1, <1>3, <1>4, <1>5, <1>6, <1>7, <1>8 DEF Next

\* The types: in particular the writer stays in the ring, and no iteration appends
\* anything but blocks that were sent and what the buffers were allocated with.
THEOREM TypeCorrect == Spec => []TypeOK
<1> QED
  BY InitTypes, StepTypes, PTL DEF Spec

-----------------------------------------------------------------------------
(* The ring holds what was read into it last.                              *)

\* The buffer that an iteration decodes holds the packet read into it last.
LEMMA DecodedBuffer ==
  ASSUME TypeOK, RingInv, NEW x \in Packet \cup {0}, Iteration(x),
         WritesIn(history', Len(history) + 1) # {}
  PROVE  Holds(input'[slot], Lengths, LastIn(history', Len(history) + 1))
<1> DEFINE n == Len(history) + 1
           h == history'
<1>1. /\ history \in Seq(Packet \cup {0}) /\ Len(history) \in Nat /\ n \in Nat \ {0}
      /\ h = Append(history, x) /\ h[n] = x
      /\ \A m \in 1 .. Len(history) : h[m] = history[m]
  BY DEF TypeOK, Iteration
<1>2. slot = SlotOf(n) /\ slot \in Slot
  BY <1>1, SlotIs DEF RingInv
<1>3. CASE x # 0
  <2>1. LastIn(h, n) = x
    BY <1>1, <1>3, WritesNow
  <2>2. x \in Packet /\ Lengths[x] \in 0 .. MaxLength
    BY <1>3, LengthsAre DEF TypeOK, Packet
  <2>3. input'[slot] = Received(x)
    BY <1>2, <1>3 DEF Iteration, TypeOK
  <2>4. ASSUME NEW u \in 1 .. Lengths[x]
        PROVE  Received(x).data[u] = PayloadOf(Lengths, x)[u]
    <3>1. u \in 1 .. MaxLength /\ u \in Nat /\ blocksize \in Nat
      BY <2>2, RingSizes
    <3>2. Received(x).data[u] = IF u <= Lengths[x] /\ u <= blocksize THEN <<x, u>>
                                ELSE input[slot].data[u]
      BY <3>1 DEF Received
    <3>3. u > blocksize => input[slot].data[u] = Garbage
      BY <1>2, <3>1 DEF RingInv
    <3>4. u <= Lengths[x]
      BY <2>2
    <3> QED
      BY <3>1, <3>2, <3>3, <3>4 DEF PayloadOf
  <2>5. Received(x).length = Lengths[x] /\ Received(x).done = (x = Len(Lengths))
    BY DEF Received
  <2> QED
    BY <2>1, <2>3, <2>4, <2>5 DEF Holds
<1>4. CASE x = 0
  <2> DEFINE k == n - NUM_PACKETS
  <2>1. WritesIn(h, n) = IF n > NUM_PACKETS THEN WritesIn(h, k) ELSE {}
    BY <1>1, <1>4, WritesLap
  <2>2. n > NUM_PACKETS /\ WritesIn(h, n) = WritesIn(h, k)
    BY <2>1
  <2>3. k \in 1 .. Len(history) /\ k \in Nat /\ k > Len(history) - NUM_PACKETS
    BY <1>1, <2>2, RingSizes
  <2>4. \A m \in 1 .. k : h[m] = history[m]
    BY <1>1, <2>3
  <2>5. WritesIn(h, k) = WritesIn(history, k) /\ LastIn(h, k) = LastIn(history, k)
    BY <2>2, <2>3, <2>4, WritesKept
  <2>6. LastIn(h, n) = LastIn(h, k)
    BY <2>2 DEF LastIn
  <2>7. Holds(input[SlotOf(k)], Lengths, LastIn(history, k))
    BY <2>2, <2>3, <2>5 DEF RingInv
  <2>8. SlotOf(k) = slot
    BY <1>1, <1>2, <2>2, SlotIs
  <2> QED
    BY <1>4, <2>5, <2>6, <2>7, <2>8 DEF Iteration
<1> QED
  BY <1>3, <1>4

\* Then the ring is as RingInv says after it.
LEMMA RingKept ==
  ASSUME TypeOK, RingInv, NEW x \in Packet \cup {0}, Iteration(x)
  PROVE  RingInv'
<1> DEFINE n == Len(history) + 1
           h == history'
<1>1. /\ history \in Seq(Packet \cup {0}) /\ Len(history) \in Nat /\ n \in Nat \ {0}
      /\ h = Append(history, x) /\ Len(h) = n
      /\ \A m \in 1 .. Len(history) : h[m] = history[m]
  BY DEF TypeOK, Iteration
<1>2. slot = SlotOf(n) /\ slot \in Slot
  BY <1>1, SlotIs DEF RingInv
<1>3. slot' = SlotOf(n + 1)
  <2>1. writer' = SlotOf(n) + 1
    BY <1>2 DEF Iteration, Decode, next_writer
  <2>2. SlotOf(n + 1) = IF SlotOf(n) + 1 = NUM_PACKETS THEN 0 ELSE SlotOf(n) + 1
    BY <1>1, SlotNext
  <2> QED
    BY <2>1, <2>2 DEF slot
<1>4. ASSUME NEW s \in Slot, NEW u \in 1 .. MaxLength, u > blocksize
      PROVE  input'[s].data[u] = Garbage
  <2>1. input[s].data[u] = Garbage
    BY <1>4 DEF RingInv
  <2>2. CASE x = 0
    BY <2>1, <2>2 DEF Iteration
  <2>3. CASE x # 0 /\ s # slot
    BY <2>1, <2>3 DEF Iteration, TypeOK
  <2>4. CASE x # 0 /\ s = slot
    <3>1. input'[s] = Received(x)
      BY <2>4 DEF Iteration, TypeOK
    <3>2. Received(x).data[u] = input[slot].data[u]
      BY <1>4, RingSizes DEF Received
    <3> QED
      BY <2>1, <2>4, <3>1, <3>2
  <2> QED
    BY <2>2, <2>3, <2>4
<1>5. ASSUME NEW m \in 1 .. n, m > n - NUM_PACKETS, WritesIn(h, m) # {}
      PROVE  Holds(input'[SlotOf(m)], Lengths, LastIn(h, m))
  <2>1. CASE m = n
    BY <1>2, <1>5, <2>1, DecodedBuffer
  <2>2. CASE m # n
    <3>1. /\ m \in 1 .. Len(history) /\ m \in Nat \ {0} /\ m < n /\ n - m < NUM_PACKETS
          /\ m > Len(history) - NUM_PACKETS
      BY <1>1, <1>5, <2>2, RingSizes
    <3>2. \A k \in 1 .. m : h[k] = history[k]
      BY <1>1, <3>1
    <3>3. WritesIn(h, m) = WritesIn(history, m) /\ LastIn(h, m) = LastIn(history, m)
      BY <1>5, <3>1, <3>2, WritesKept
    <3>4. Holds(input[SlotOf(m)], Lengths, LastIn(history, m))
      BY <1>5, <3>1, <3>3 DEF RingInv
    <3>5. SlotOf(m) # slot /\ SlotOf(m) \in Slot
      BY <1>1, <1>2, <3>1, SlotsDiffer, SlotIs
    <3>6. input'[SlotOf(m)] = input[SlotOf(m)]
      BY <3>5 DEF Iteration, TypeOK
    <3> QED
      BY <3>3, <3>4, <3>6
  <2> QED
    BY <2>1, <2>2
<1>6. Lengths' = Lengths
  BY DEF Iteration
<1> QED
  BY <1>1, <1>3, <1>4, <1>5, <1>6 DEF RingInv

\* The payload that an iteration appends to the file is the one of that packet.
LEMMA PayloadIs ==
  ASSUME TypeOK, RingInv, NEW x \in Packet \cup {0}, Iteration(x),
         WritesIn(history', Len(history) + 1) # {}
  PROVE  Payload = PayloadOf(Lengths, LastIn(history', Len(history) + 1))
<1> DEFINE p == LastIn(history', Len(history) + 1)
           b == input'[slot]
           P == PayloadOf(Lengths, p)
<1>1. Holds(b, Lengths, p)
  BY DecodedBuffer
<1>2. slot \in Slot /\ input' \in [Slot -> Buffer]
  BY ReceivedType, IterationTypes, RingSizes DEF TypeOK, slot, Slot
<1>3. b \in Buffer
  BY <1>2
<1>4. /\ b.data \in [1 .. MaxLength -> Block \cup {Garbage}] /\ b.length \in 0 .. MaxLength
  BY <1>3 DEF Buffer
<1>5. b.length = Lengths[p] /\ \A u \in 1 .. Lengths[p] : b.data[u] = P[u]
  BY <1>1 DEF Holds
<1>6. Payload = SubSeq(b.data, 1, b.length)
  BY DEF Payload
<1>7. P = [u \in 1 .. Lengths[p] |-> P[u]]
  BY DEF PayloadOf
<1> HIDE DEF b, p, P
<1>8. SubSeq(b.data, 1, b.length) = [u \in 1 .. b.length |-> b.data[u]]
  BY <1>4, RingSizes, StartOf
<1>9. [u \in 1 .. b.length |-> b.data[u]] = [u \in 1 .. Lengths[p] |-> P[u]]
  BY <1>5
<1> QED
  BY <1>6, <1>7, <1>8, <1>9 DEF P, p

-----------------------------------------------------------------------------
(* The file, and the end of the loop.                                      *)

\* What packets have appended are sequences of blocks.
LEMMA PayloadsAre ==
  ASSUME TypeOK, NEW h \in Seq(Packet \cup {0}), Filled(h)
  PROVE  Payloads(Lengths, h) \in Seq(Seq(Block \cup {Garbage}))
<1> DEFINE S == Block \cup {Garbage}
<1>1. ASSUME NEW n \in 1 .. Len(h)
      PROVE  PayloadOf(Lengths, LastIn(h, n)) \in Seq(S)
  <2> DEFINE p == LastIn(h, n)
  <2>1. p \in Packet
    <3>1. Len(Lengths) \in Nat /\ WritesIn(h, n) # {}
      BY LengthsAre DEF TypeOK, Filled
    <3> QED
      BY <3>1, LastPacket DEF Packet
  <2> HIDE DEF p
  <2>2. Lengths[p] \in 0 .. MaxLength
    BY <2>1, LengthsAre DEF TypeOK, Packet
  <2>3. ASSUME NEW u \in 1 .. Lengths[p] PROVE <<p, u>> \in Block
    BY <2>1, <2>2, RingSizes DEF Block
  <2>4. PayloadOf(Lengths, p) \in Seq(S)
    BY <2>2, <2>3, RingSizes DEF PayloadOf
  <2> QED
    BY <2>4 DEF p
<1>2. Len(h) \in Nat
  OBVIOUS
<1> QED
  BY <1>1, <1>2 DEF Payloads

\* An iteration appends what FileInv says of it.
LEMMA FileGrows ==
  ASSUME TypeOK, RingInv, FileInv, NEW x \in Packet \cup {0}, Iteration(x)
  PROVE  FileInv'
<1> DEFINE n == Len(history) + 1
           h == history'
           P == PayloadOf(Lengths, LastIn(h, n))
           F == Payloads(Lengths, history)
<1> SUFFICES ASSUME Filled(history')
             PROVE  file' = FlattenSeq(Payloads(Lengths, history'))
  BY DEF FileInv, Iteration
<1>1. /\ history \in Seq(Packet \cup {0}) /\ Len(history) \in Nat /\ n \in Nat \ {0}
      /\ h = Append(history, x) /\ Len(h) = n
      /\ \A m \in 1 .. Len(history) : h[m] = history[m]
  BY DEF TypeOK, Iteration
<1>2. ASSUME NEW m \in 1 .. Len(history)
      PROVE  WritesIn(history, m) # {} /\ LastIn(h, m) = LastIn(history, m)
  <2>1. m \in 1 .. n /\ m \in Nat /\ \A k \in 1 .. m : h[k] = history[k]
    BY <1>1
  <2>2. WritesIn(h, m) # {}
    BY <1>1, <2>1 DEF Filled
  <2> QED
    BY <2>1, <2>2, WritesKept
<1>3. Filled(history) /\ WritesIn(h, n) # {}
  BY <1>1, <1>2 DEF Filled
<1>4. file = FlattenSeq(F)
  BY <1>3 DEF FileInv
<1>5. Payload = P
  BY <1>3, PayloadIs
<1>6. file' = file \o P
  BY <1>5 DEF Iteration, Decode
<1>7. F \in Seq(Seq(Block \cup {Garbage}))
  BY <1>1, <1>3, PayloadsAre
<1>8. P \in Seq(Block \cup {Garbage})
  BY <1>5, IterationTypes
<1>9. Payloads(Lengths, h) = Append(F, P)
  <2>1. Payloads(Lengths, h) = [m \in 1 .. n |-> PayloadOf(Lengths, LastIn(h, m))]
    BY <1>1 DEF Payloads
  <2>2. F = [m \in 1 .. Len(history) |-> PayloadOf(Lengths, LastIn(h, m))]
    BY <1>2 DEF Payloads
  <2> DEFINE V(m) == PayloadOf(Lengths, LastIn(h, m))
             k == Len(history)
  <2>3. \A m \in 1 .. n : m = n \/ m \in 1 .. k
    BY <1>1
  <2>4. n = k + 1 /\ k \in Nat
    BY <1>1
  <2>5. /\ Payloads(Lengths, h) = [m \in 1 .. n |-> V(m)] /\ F = [m \in 1 .. k |-> V(m)]
        /\ P = V(n)
    BY <2>1, <2>2
  <2> HIDE DEF V, k, n, F, P, h
  <2>6. Len(F) = k
    BY <2>4, <2>5
  <2> QED
    BY <2>3, <2>4, <2>5, <2>6
<1> HIDE DEF F, P, n, h
<1> QED
  BY <1>4, <1>6, <1>7, <1>8, <1>9, FlattenAppend DEF h

\* An iteration that does not return the last packet finds no done bit in a buffer that
\* was ever read into.
LEMMA EndKept ==
  ASSUME TypeOK, RingInv, EndInv, ~ done, NEW x \in Packet \cup {0}, Iteration(x)
  PROVE  EndInv'
<1> DEFINE n == Len(history) + 1
           h == history'
           p == LastIn(h, n)
<1>a. /\ history \in Seq(Packet \cup {0}) /\ h = Append(history, x)
      /\ Lengths' = Lengths /\ Len(Lengths) \in Nat
  BY LengthsAre DEF TypeOK, Iteration
<1>b. /\ Len(history) \in Nat /\ n \in Nat \ {0} /\ Len(h) = n /\ h[n] = x
      /\ \A m \in 1 .. Len(history) : h[m] = history[m]
  BY <1>a
<1>c. \A m \in 1 .. n : m \in 1 .. Len(history) \/ m = n
  BY <1>b
<1>d. h # << >>
  BY <1>b
<1>1. /\ Len(history) \in Nat /\ n \in Nat \ {0} /\ Len(h) = n /\ h[n] = x /\ h # << >>
      /\ \A m \in 1 .. Len(history) : h[m] = history[m]
      /\ \A m \in 1 .. Len(h) : m \in 1 .. Len(history) \/ m = n
      /\ Lengths' = Lengths /\ Len(Lengths) \in Nat
  BY <1>a, <1>b, <1>c, <1>d
<1>2. \A m \in 1 .. Len(history) : h[m] # Len(Lengths)
  BY <1>1 DEF EndInv
<1>3. ASSUME WritesIn(h, n) # {} PROVE done' = (p = Len(Lengths))
  <2>1. Holds(input'[slot], Lengths, p)
    BY <1>3, DecodedBuffer
  <2> QED
    BY <2>1 DEF Holds, Iteration, Decode, Done_bit
<1>4. ASSUME WritesIn(h, n) # {}, p = Len(Lengths) PROVE x = Len(Lengths)
  <2> DEFINE W == WritesIn(h, n)
  <2>1. W \subseteq 1 .. n /\ W # {} /\ n \in Nat
    BY <1>1, <1>4 DEF WritesIn
  <2>2. Max(W) \in W
    <3> HIDE DEF W
    <3> QED
      BY <2>1, MaxIs
  <2>3. Max(W) \in 1 .. Len(h) /\ h[Max(W)] = Len(Lengths)
    BY <1>1, <1>4, <2>1, <2>2 DEF LastIn
  <2> QED
    BY <1>1, <1>2, <2>3
<1>5. ASSUME x = Len(Lengths) PROVE done'
  <2>1. x # 0
    BY <1>5, LengthsAre DEF TypeOK
  <2>2. WritesIn(h, n) # {} /\ p = x
    BY <1>1, <2>1, WritesNow
  <2> QED
    BY <1>3, <1>5, <2>2
<1> HIDE DEF n, h, p
<1>6. ASSUME NEW m \in 1 .. Len(h), h[m] = Len(Lengths) PROVE m = Len(h) /\ done'
  BY <1>1, <1>2, <1>5, <1>6
<1>7. ASSUME done' PROVE h[Len(h)] = Len(Lengths) \/ WritesIn(h, Len(h)) = {}
  BY <1>1, <1>3, <1>4, <1>7
<1> QED
  BY <1>1, <1>6, <1>7 DEF EndInv, h

\* A sequence without its first element.
LEMMA Rest ==
  ASSUME NEW S, NEW s \in Seq(S), Len(s) >= 1
  PROVE  /\ Len(SubSeq(s, 2, Len(s))) = Len(s) - 1
         /\ \A n \in 1 .. Len(s) - 1 : SubSeq(s, 2, Len(s))[n] = s[n + 1]
<1>1. Len(s) \in Nat /\ Len(s) - 1 = Len(s) - 2 + 1
  OBVIOUS
<1>2. ASSUME NEW n \in 1 .. Len(s) - 1 PROVE n + 1 = 2 + n - 1 /\ n + 1 \in 1 .. Len(s)
  BY <1>1
<1> QED
  BY <1>1, <1>2

\* The network behaved: what is received next is the next packet.
LEMMA OrderKept ==
  TypeOK /\ OrderInv /\ [Next]_vars => OrderInv'
<1> SUFFICES ASSUME TypeOK, OrderInv, [Next]_vars, faults' = 0, errors' = 0
             PROVE  /\ Len(history') + Len(network') = sent'
                    /\ \A n \in 1 .. Len(history') : history'[n] = n
                    /\ \A n \in 1 .. Len(network') : network'[n] = Len(history') + n
                    /\ done' => Len(history') = Len(Lengths')
  BY DEF OrderInv
<1>1. /\ history \in Seq(Packet \cup {0}) /\ network \in Seq(Packet) /\ sent \in Nat
      /\ Len(history) \in Nat /\ Len(network) \in Nat /\ faults \in Nat /\ errors \in Nat
  BY LengthsAre DEF TypeOK
<1>2. CASE Send
  <2>1. /\ UNCHANGED server /\ faults = 0 /\ errors = 0 /\ sent' = sent + 1
        /\ network' = Append(network, sent + 1)
    BY <1>2 DEF Send
  <2>2. history' = history /\ done' = done /\ Lengths' = Lengths
    BY <2>1 DEF server
  <2>3. /\ Len(network') = Len(network) + 1 /\ network'[Len(network) + 1] = sent + 1
        /\ \A n \in 1 .. Len(network) : network'[n] = network[n]
    BY <1>1, <2>1
  <2>4. \A n \in 1 .. Len(network') : n \in 1 .. Len(network) \/ n = Len(network) + 1
    BY <1>1, <2>3
  <2>5. /\ Len(history) + Len(network) = sent
        /\ \A n \in 1 .. Len(history) : history[n] = n
        /\ \A n \in 1 .. Len(network) : network[n] = Len(history) + n
        /\ done => Len(history) = Len(Lengths)
    BY <2>1 DEF OrderInv
  <2>6. \A n \in 1 .. Len(network') : network'[n] = Len(history) + n
    <3> SUFFICES ASSUME NEW n \in 1 .. Len(network') PROVE network'[n] = Len(history) + n
      OBVIOUS
    <3>1. CASE n \in 1 .. Len(network)
      BY <2>3, <2>5, <3>1
    <3>2. CASE n = Len(network) + 1
      BY <1>1, <2>3, <2>5, <3>2
    <3> QED
      BY <2>4, <3>1, <3>2
  <2>7. Len(history') + Len(network') = sent'
    BY <1>1, <2>1, <2>2, <2>3, <2>5
  <2> QED
    BY <2>2, <2>5, <2>6, <2>7
<1>3. CASE Lose \/ Copy \/ Reorder
  BY <1>1, <1>3 DEF Lose, Copy, Reorder, Fault
<1>4. CASE Receive
  <2> DEFINE x == network[1]
  <2>1. x \in Packet /\ Len(network) >= 1 /\ Iteration(x)
    BY <1>4, Iterations
  <2>2. /\ network' = SubSeq(network, 2, Len(network)) /\ sent' = sent /\ faults = 0
        /\ errors = 0 /\ Lengths' = Lengths
    BY <1>4 DEF Receive
  <2>3. /\ Len(history) + Len(network) = sent
        /\ \A n \in 1 .. Len(history) : history[n] = n
        /\ \A n \in 1 .. Len(network) : network[n] = Len(history) + n
    BY <2>2 DEF OrderInv
  <2>4. x = Len(history) + 1
    BY <2>1, <2>3, <1>1
  <2>5. /\ Len(history') = Len(history) + 1 /\ history'[Len(history) + 1] = x
        /\ \A n \in 1 .. Len(history) : history'[n] = history[n]
    BY <1>1, <2>1 DEF Iteration
  <2>6. /\ Len(network') = Len(network) - 1
        /\ \A n \in 1 .. Len(network) - 1 : network'[n] = network[n + 1]
    BY <1>1, <2>1, <2>2, Rest
  <2>7. \A n \in 1 .. Len(history') : history'[n] = n
    <3> SUFFICES ASSUME NEW n \in 1 .. Len(history') PROVE history'[n] = n
      OBVIOUS
    <3>1. n \in 1 .. Len(history) \/ n = Len(history) + 1
      BY <1>1, <2>5
    <3> QED
      BY <2>3, <2>4, <2>5, <3>1
  <2>8. \A n \in 1 .. Len(network') : network'[n] = Len(history') + n
    <3> SUFFICES ASSUME NEW n \in 1 .. Len(network') PROVE network'[n] = Len(history') + n
      OBVIOUS
    <3>1. n + 1 \in 1 .. Len(network) /\ n \in 1 .. Len(network) - 1
      BY <1>1, <2>6
    <3>2. network[n + 1] = Len(history) + (n + 1)
      BY <2>3, <3>1
    <3> QED
      BY <1>1, <2>5, <2>6, <3>1, <3>2
  <2>9. done' => Len(history') = Len(Lengths')
    <3>1. slot \in Slot /\ input'[slot] = Received(x)
      BY <1>4, <2>1, ReceivedType DEF Receive, TypeOK
    <3>2. done' = (x = Len(Lengths))
      BY <2>1, <3>1 DEF Iteration, Decode, Done_bit, Received
    <3> QED
      BY <2>2, <2>4, <2>5, <3>2
  <2>10. Len(history') + Len(network') = sent'
    <3>1. /\ Len(history) + Len(network) = sent /\ Len(history') = Len(history) + 1
          /\ Len(network') = Len(network) - 1 /\ sent' = sent
      BY <2>2, <2>3, <2>5, <2>6
    <3> QED
      BY <1>1, <3>1
  <2> QED
    BY <2>7, <2>8, <2>9, <2>10
<1>5. CASE ReceiveError
  BY <1>1, <1>5 DEF ReceiveError
<1>6. CASE UNCHANGED vars
  BY <1>6 DEF vars, server, OrderInv
<1> QED
  BY <1>2, <1>3, <1>4, <1>5, <1>6 DEF Next

\* The inductive invariant.
IInv == TypeOK /\ RingInv /\ FileInv /\ EndInv /\ OrderInv

\* At the start the writer is at pipe_depth and nothing has been read.
LEMMA InitIInv == Init => IInv
<1> SUFFICES ASSUME Init PROVE IInv
  OBVIOUS
<1>1. TypeOK
  BY InitTypes
<1>2. history = << >> /\ Len(history) = 0 /\ network = << >> /\ file = << >>
      /\ done = FALSE
  BY DEF Init
<1>3. slot = SlotOf(1)
  <2> DEFINE d == pipe_depth
             N == NUM_PACKETS
  <2>1. d \in 0 .. N - 1 /\ N \in Nat \ {0} /\ d + 1 - 1 = d /\ 0 * N + d = d
    BY RingSizes
  <2>2. slot = d
    BY <2>1 DEF Init, slot
  <2>3. (0 * N + d) % N = d
    BY <2>1, Division
  <2>4. SlotOf(1) = (d + 1 - 1) % N
    BY DEF SlotOf
  <2> HIDE DEF d, N
  <2> QED
    BY <2>1, <2>2, <2>3, <2>4
<1>4. \A s \in Slot, u \in 1 .. MaxLength : input[s].data[u] = Garbage
  <2>1. \A b \in Allocated, u \in 1 .. MaxLength : b.data[u] = Garbage
    BY DEF Allocated
  <2> QED
    BY <2>1 DEF Init
<1>5. RingInv
  BY <1>2, <1>3, <1>4 DEF RingInv
<1>6. FileInv
  <2>1. Payloads(Lengths, history) = << >>
    BY <1>2 DEF Payloads
  <2> QED
    BY <1>2, <2>1, FlattenEmpty DEF FileInv
<1>7. OrderInv
  BY <1>2 DEF Init, OrderInv
<1>8. EndInv
  BY <1>2 DEF EndInv
<1> QED
  BY <1>1, <1>5, <1>6, <1>7, <1>8 DEF IInv

\* Only the iterations change the ring, the file and the done bit.
LEMMA StepIInv == IInv /\ [Next]_vars => IInv'
<1> SUFFICES ASSUME IInv, [Next]_vars PROVE IInv'
  OBVIOUS
<1>1. TypeOK' /\ OrderInv'
  BY StepTypes, OrderKept DEF IInv
<1>2. ASSUME ~ done, NEW x \in Packet \cup {0}, Iteration(x)
      PROVE  RingInv' /\ FileInv' /\ EndInv'
  BY <1>2, RingKept, FileGrows, EndKept DEF IInv
<1>3. CASE Receive
  BY <1>1, <1>2, <1>3, Iterations DEF IInv, Receive
<1>4. CASE ReceiveError
  BY <1>1, <1>2, <1>4, Iterations DEF IInv, ReceiveError
<1>5. CASE UNCHANGED server
  <2>1. RingInv'
    BY <1>5 DEF server, IInv, RingInv, slot
  <2>2. FileInv'
    BY <1>5 DEF server, IInv, FileInv
  <2>3. EndInv'
    BY <1>5 DEF server, IInv, EndInv
  <2> QED
    BY <1>1, <2>1, <2>2, <2>3 DEF IInv
<1> QED
  BY <1>3, <1>4, <1>5 DEF Next, vars, Send, Lose, Copy, Reorder, Fault

\* All of it holds always: in particular a buffer of the last lap holds the packet read
\* into it last, though get_packet may have failed on it since.
THEOREM IInvHolds == Spec => []IInv
<1> QED
  BY InitIInv, StepIInv, PTL DEF Spec

\* The file depends on what recvfrom returned and on nothing else: a failed call repeats
\* the payload of the same buffer a lap before, and no buffer is decoded that another
\* iteration of the lap wrote.
THEOREM FileFollows == Spec => []FileFollowsHistory
<1>1. IInv => FileFollowsHistory
  <2> SUFFICES ASSUME IInv, \A n \in 1 .. Len(history) : Writes(n) # {}
               PROVE  file = FlattenSeq([n \in 1 .. Len(history) |-> Appended(n)])
    BY DEF FileFollowsHistory
  <2>1. \A n : Writes(n) = WritesIn(history, n)
    BY DEF Writes, WritesIn
  <2>2. \A n : Appended(n) = PayloadOf(Lengths, LastIn(history, n))
    BY <2>1 DEF Appended, PayloadOf, LastIn
  <2>3. Filled(history)
    BY <2>1 DEF Filled
  <2>4. file = FlattenSeq(Payloads(Lengths, history))
    BY <2>3 DEF IInv, FileInv
  <2>5. Payloads(Lengths, history) = [n \in 1 .. Len(history) |-> Appended(n)]
    BY <2>2 DEF Payloads
  <2> QED
    BY <2>4, <2>5
<1> QED
  BY <1>1, IInvHolds, PTL

\* After a transfer over a network that behaved, each iteration appended the packet of
\* its number.
LEMMA AllReceived ==
  ASSUME IInv, done, faults = 0, errors = 0, \A p \in Packet : Lengths[p] <= blocksize
  PROVE  file = FlattenSeq([p \in Packet |-> Blocks(p)])
<1>1. Len(history) = Len(Lengths) /\ \A n \in 1 .. Len(history) : history[n] = n
  BY DEF IInv, OrderInv
<1>2. Len(Lengths) \in Nat /\ \A p \in Packet : Lengths[p] \in 0 .. MaxLength
  BY LengthsAre DEF IInv, TypeOK, Packet
<1>3. ASSUME NEW p \in Packet
      PROVE  WritesIn(history, p) # {} /\ LastIn(history, p) = p
  <2>1. p \in Nat \ {0} /\ history[p] = p
    BY <1>1, <1>2 DEF Packet
  <2> QED
    BY <2>1, WritesNow
<1>4. Filled(history)
  BY <1>1, <1>3 DEF Filled, Packet
<1>5. ASSUME NEW p \in Packet PROVE PayloadOf(Lengths, LastIn(history, p)) = Blocks(p)
  <2>1. \A u \in 1 .. Lengths[p] : u <= blocksize
    BY <1>2, RingSizes
  <2> QED
    BY <1>3, <2>1 DEF PayloadOf, Blocks
<1>6. Payloads(Lengths, history) = [p \in Packet |-> Blocks(p)]
  BY <1>1, <1>5 DEF Payloads, Packet
<1> QED
  BY <1>4, <1>6 DEF IInv, FileInv

\* What a network that behaved delivers is stored whole and in order, whatever the size of
\* the ring and wherever the writer starts in it.
THEOREM FileIsSent == Spec => []FileIsWhatWasSent
<1>1. IInv => FileIsWhatWasSent
  BY AllReceived DEF FileIsWhatWasSent, Sent
<1> QED
  BY <1>1, IInvHolds, PTL

\* A done bit left in the ring never ends the loop, at any size of the ring and over a
\* network that loses, repeats or reorders: only the call that returns the last packet
\* does, or one that failed on a buffer into which nothing was ever read.
THEOREM EndsThere == Spec => []EndsOnLastPacket
<1>1. IInv => EndsOnLastPacket
  <2>1. \A n : Writes(n) = WritesIn(history, n)
    BY DEF Writes, WritesIn
  <2> QED
    BY <2>1 DEF IInv, EndInv, EndsOnLastPacket
<1> QED
  BY <1>1, IInvHolds, PTL
=============================================================================

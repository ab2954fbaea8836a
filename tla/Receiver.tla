------------------------------ MODULE Receiver ------------------------------
(***************************************************************************)
(* The receiving loop of the encoders (main of Server/encoder.cpp and      *)
(* hls/host.cpp, with ESE532_Server::get_packet of Server/server.cpp): UDP *)
(* datagrams are read into a ring of buffers, and the payload of each is   *)
(* appended to the file and chunked, until one carries the done bit.       *)
(*                                                                         *)
(* The sender and the network are not in the repository: a sender that     *)
(* numbers its packets 1, 2, ... and marks the last is assumed, over a     *)
(* network that may lose, duplicate or reorder a bounded number of them.   *)
(* Payloads are sequences of blocks; block u of packet p is <<p, u>>.      *)
(***************************************************************************)
EXTENDS Integers, SequencesExt

CONSTANTS NUM_PACKETS,  \* buffers in the ring
          pipe_depth,   \* the buffer the first packet goes to
          blocksize,    \* payload blocks read of one datagram (the rest is cut)
          MaxLength,    \* the most blocks that the length in a header can say
          Transfers,    \* what may be sent: the lengths in blocks of the packets' payloads
          MaxFaults,    \* bound on the network's losses, copies and reorderings
          MaxErrors,    \* bound on the failures of recvfrom
          Garbage       \* what malloc leaves in a buffer

ASSUME RingAssumption == /\ NUM_PACKETS \in Nat \ {0}
                         /\ pipe_depth \in 0 .. NUM_PACKETS - 1
                         /\ blocksize \in Nat
                         /\ MaxLength \in Nat \ {0}
                         /\ Transfers \subseteq Seq(0 .. MaxLength) \ {<< >>}
                         /\ MaxFaults \in Nat /\ MaxErrors \in Nat

VARIABLES Lengths,  \* the transfer
          input,    \* the ring
          writer,   \* the buffer written last, plus one
          done,     \* the done bit of the last packet
          file,     \* the blocks received, up to offset
          sent,     \* packets sent
          network,  \* those on their way, in the order they will arrive
          faults, errors,
          history   \* what each get_packet returned: a packet, or 0 for an error

server == <<Lengths, input, writer, done, file, history>>
vars   == <<server, sent, network, faults, errors>>

Packet    == 1 .. Len(Lengths)
Block     == Packet \X (1 .. MaxLength)
Slot      == 0 .. NUM_PACKETS - 1

Buffer == [length : 0 .. MaxLength, done : BOOLEAN,
           data : [1 .. MaxLength -> Block \cup {Garbage}]]

TypeOK == /\ Lengths \in Transfers
          /\ input \in [Slot -> Buffer]
          /\ writer \in 0 .. NUM_PACKETS
          /\ done \in BOOLEAN
          /\ file \in Seq(Block \cup {Garbage})
          /\ sent \in 0 .. Len(Lengths)
          /\ network \in Seq(Packet)
          /\ faults \in 0 .. MaxFaults /\ errors \in 0 .. MaxErrors
          /\ history \in Seq(Packet \cup {0})

\* Buffers are not cleared: each starts with a header of its own, whatever it is.
Allocated == [length : 0 .. MaxLength, done : BOOLEAN,
              data : {[u \in 1 .. MaxLength |-> Garbage]}]

Init == /\ Lengths \in Transfers
        /\ input \in [Slot -> Allocated]
        /\ writer = pipe_depth
        /\ done = FALSE
        /\ file = << >>
        /\ sent = 0 /\ network = << >>
        /\ faults = 0 /\ errors = 0
        /\ history = << >>

-----------------------------------------------------------------------------
Send == /\ sent < Len(Lengths)
        /\ sent' = sent + 1
        /\ network' = Append(network, sent + 1)
        /\ UNCHANGED <<server, faults, errors>>

Fault == /\ faults < MaxFaults
         /\ faults' = faults + 1
         /\ UNCHANGED <<server, sent, errors>>

Lose == Fault /\ \E n \in DOMAIN network : network' = RemoveAt(network, n)

Copy == Fault /\ \E n \in DOMAIN network : network' = Append(network, network[n])

Reorder == Fault /\ \E n \in DOMAIN network \ {1} :
                      network' = <<network[n]>> \o RemoveAt(network, n)

\* Mutant: the ring wraps to the buffer it started with.
slot_wrong == IF writer = NUM_PACKETS THEN pipe_depth ELSE writer

\* The ring wraps before the buffer is used.
slot == IF writer = NUM_PACKETS THEN 0 ELSE writer

\* What recvfrom writes: the header and at most blocksize blocks.
Received(p) ==
  [length |-> Lengths[p],
   done   |-> p = Len(Lengths),
   data   |-> [u \in 1 .. MaxLength |->
                 IF u <= Lengths[p] /\ u <= blocksize THEN <<p, u>>
                 ELSE input[slot].data[u]]]

\* Mutants: the writer is moved twice; a block is cut off; the header is looked at
\* before the packet is read.
Advanced     == slot + 2
PayloadShort == SubSeq(input'[slot].data, 1, input'[slot].length - 1)
DoneBitEarly == input[slot].done

next_writer == slot + 1
Payload     == SubSeq(input'[slot].data, 1, input'[slot].length)
Done_bit    == input'[slot].done

\* The rest of the loop body: the header in the buffer is believed, whether or
\* not a packet has just been written there. The payload is chunked as well (module
\* Chunker), which changes nothing that the loop reads.
Decode == /\ done' = Done_bit
          /\ file' = file \o Payload
          /\ writer' = next_writer

Receive == /\ ~ done
           /\ network # << >>
           /\ input' = [input EXCEPT ![slot] = Received(network[1])]
           /\ Decode
           /\ network' = SubSeq(network, 2, Len(network))
           /\ history' = Append(history, network[1])
           /\ UNCHANGED <<Lengths, sent, faults, errors>>

\* recvfrom fails: get_packet reports it and returns, and its caller goes on with
\* the buffer as it is.
ReceiveError == /\ ~ done
                /\ errors < MaxErrors
                /\ errors' = errors + 1
                /\ input' = input
                /\ Decode
                /\ history' = Append(history, 0)
                /\ UNCHANGED <<Lengths, sent, network, faults>>

Next == Send \/ Lose \/ Copy \/ Reorder \/ Receive \/ ReceiveError

\* The sender sends on, and a datagram that waits is received: recvfrom returns
\* it to the one thread that does nothing else.
Fairness == WF_vars(Send) /\ WF_vars(Receive)

Spec == Init /\ [][Next]_vars /\ Fairness
-----------------------------------------------------------------------------
\* The calls of get_packet, up to the n-th, that wrote the buffer of the n-th.
Writes(n) == {m \in 1 .. n : (n - m) % NUM_PACKETS = 0 /\ history[m] # 0}

\* What the n-th iteration appends, told from the datagrams alone: the packet read
\* last into its buffer, NUM_PACKETS calls or a multiple before when the calls since
\* failed, as long as its header says; what recvfrom cut off was never written.
Appended(n) ==
  LET packet == history[Max(Writes(n))]
  IN [u \in 1 .. Lengths[packet] |-> IF u <= blocksize THEN <<packet, u>> ELSE Garbage]

\* Once every buffer used has been written, the file is a function of the datagrams:
\* an error repeats the packet of one lap before, and a datagram longer than
\* blocksize is completed with whatever the buffer was allocated with.
FileFollowsHistory ==
  (\A n \in 1 .. Len(history) : Writes(n) # {}) =>
    file = FlattenSeq([n \in 1 .. Len(history) |-> Appended(n)])

\* A transfer over a network that behaved, into buffers that hold a packet,
\* yields the sender's file, whole and in order, when the loop ends.
Blocks(p) == [u \in 1 .. Lengths[p] |-> <<p, u>>]
Sent      == FlattenSeq([p \in Packet |-> Blocks(p)])

FileIsWhatWasSent ==
  done /\ faults = 0 /\ errors = 0 /\ (\A p \in Packet : Lengths[p] <= blocksize)
    => file = Sent

\* A done bit that a packet left in the ring ends nothing: the loop ends at the call
\* that returns the last packet, whatever was lost, repeated or reordered before it,
\* and takes no packet after it. Only a call that failed on a buffer into which nothing
\* was ever read may end it early, when malloc left the bit there.
EndsOnLastPacket ==
  /\ done => \/ history[Len(history)] = Len(Lengths)
             \/ Writes(Len(history)) = {}
  /\ \A n \in 1 .. Len(history) :
       history[n] = Len(Lengths) => n = Len(history) /\ done

\* The packet with the done bit was sent, and every copy of it was lost on its way.
LastLost == /\ sent = Len(Lengths)
            /\ \A n \in 1 .. Len(network) : network[n] # Len(Lengths)
            /\ \A n \in 1 .. Len(history) : history[n] # Len(Lengths)

\* The loop ends unless every copy of the packet with the done bit is lost: it is never
\* sent again, and recvfrom then waits for ever. The loss of any other packet, copies,
\* a packet out of order and failed calls do not keep the loop from ending.
Ends == <>(done \/ LastLost)
=============================================================================

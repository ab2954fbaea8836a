------------------------------ MODULE Chunker ------------------------------
(***************************************************************************)
(* Content-defined chunking: rabin_fingerprint_cdc of src/Server/cdc.cpp,  *)
(* called by the receiving loop with the payload of one packet after the   *)
(* other.  A hash rolls over the payload, and the payload is cut where the *)
(* hash of a window has the target value.                                  *)
(*                                                                         *)
(* One step is one iteration of the function's loop, or the start or the   *)
(* end of a call.                                                          *)
(***************************************************************************)
EXTENDS ChunkedPackets, Powers

CONSTANTS WIN_SIZE, PRIME, MODULUS, TARGET1, \* 16, 3, 512, 256
          Word       \* 2^64: hashes are unsigned and wrap

ASSUME ChunkerAssumption ==
  /\ Byte \subseteq Nat
  /\ Packets \subseteq Seq(Seq(Byte))
  /\ WIN_SIZE \in Nat \ {0}
  /\ PRIME \in Nat /\ TARGET1 \in Nat
  /\ MODULUS \in Nat \ {0} /\ Word \in Nat \ {0}

vars == <<packets, p, i, start, current_hash, chunks, pc>>

TypeOK == /\ packets \in Packets
          /\ p \in 1 .. Len(packets) + 1
          /\ i \in Nat /\ start \in Nat
          /\ current_hash \in 0 .. Word - 1
          /\ chunks \in Seq(Chunk)
          /\ pc \in {"call", "scan"}

Init == /\ packets \in Packets
        /\ p = 1
        /\ i = 0 /\ start = 0 /\ current_hash = 0
        /\ chunks = << >>
        /\ pc = "call"

-----------------------------------------------------------------------------
\* The hash of the window at a position, the last byte weighted least.
initial_hash_func(q, pos) ==
  LET sum[n \in 0 .. WIN_SIZE] ==
        IF n = 0 THEN 0 ELSE sum[n - 1] + byte(q, pos + WIN_SIZE - n) * Power(PRIME)[n]
  IN sum[WIN_SIZE] % Word

\* Mutants: the old byte is taken out with the weight of the window before; the
\* hash does not wrap.
rolling_hash_off(previous, old_char, new_char) ==
  ((previous * PRIME) - (old_char * Power(PRIME)[WIN_SIZE]) + (new_char * PRIME)) % Word
rolling_hash_wide(previous, old_char, new_char) ==
  (previous * PRIME) - (old_char * Power(PRIME)[WIN_SIZE + 1]) + (new_char * PRIME)

rolling_hash(previous, old_char, new_char) ==
  ((previous * PRIME) - (old_char * Power(PRIME)[WIN_SIZE + 1]) + (new_char * PRIME)) % Word

Target(hash) == hash % MODULUS = TARGET1

\* A payload shorter than the window is left alone.
ReturnShort == /\ pc = "call"
               /\ p <= Len(packets)
               /\ buff_size(p) < WIN_SIZE
               /\ p' = p + 1
               /\ UNCHANGED <<packets, i, start, current_hash, chunks, pc>>

Enters(hash, from) == /\ pc = "call"
                      /\ p <= Len(packets)
                      /\ buff_size(p) >= WIN_SIZE
                      /\ current_hash' = hash
                      /\ start' = from
                      /\ i' = WIN_SIZE
                      /\ pc' = "scan"
                      /\ UNCHANGED <<packets, p, chunks>>

\* Mutants: a call goes on with the hash, or from the start, of the call before.
EnterKeepsHash  == Enters(current_hash, 0)
EnterKeepsStart == Enters(initial_hash_func(p, 0), start)

Enter == Enters(initial_hash_func(p, 0), 0)

Scan == /\ pc = "scan"
        /\ i <= buff_size(p)
        /\ current_hash' = IF i < buff_size(p)
                           THEN rolling_hash(current_hash, byte(p, i - WIN_SIZE), byte(p, i))
                           ELSE current_hash
        /\ i' = i + 1
        /\ UNCHANGED <<packets, p, pc>>

CutHere == Target(current_hash') \/ i = buff_size(p)

Cuts(next) == /\ Scan
              /\ CutHere
              /\ chunks' = Append(chunks, [packet |-> p, from |-> start, size |-> i - start])
              /\ start' = next

\* Mutant: the next chunk starts behind byte i.
CutSkips == Cuts(i + 1)

\* The hash already includes byte i, which goes to the next chunk.
Cut == Cuts(i)

Continue == /\ Scan
            /\ ~ CutHere
            /\ UNCHANGED <<chunks, start>>

Return == /\ pc = "scan"
          /\ i > buff_size(p)
          /\ p' = p + 1
          /\ pc' = "call"
          /\ UNCHANGED <<packets, i, start, current_hash, chunks>>

Next == ReturnShort \/ Enter \/ Cut \/ Continue \/ Return

Spec == Init /\ [][Next]_vars
-----------------------------------------------------------------------------
Long(q) == buff_size(q) >= WIN_SIZE

\* Between calls, start keeps what the last call left in it.
Promise == INSTANCE Chunking WITH
             start <- IF pc = "scan" THEN start ELSE 0,
             Sizes <- Nat \ {0},
             Left  <- {e \in Nat \X Nat : e[2] = 0 \/ (e[2] = e[1] /\ e[1] < WIN_SIZE)}

\* The chunks of a payload follow one another without a gap up to its end; only a
\* payload shorter than the window is left, and then all of it.
ImplementsChunking == Promise!Spec

In(n, q, b) == /\ chunks[n].packet = q
               /\ b \in chunks[n].from .. chunks[n].from + chunks[n].size - 1

\* Chunk m ends before chunk n starts.
Before(m, n) == \/ chunks[m].packet < chunks[n].packet
                \/ /\ chunks[m].packet = chunks[n].packet
                   /\ chunks[m].from + chunks[m].size <= chunks[n].from

\* The bytes a call has put in chunks so far.
Scanned(q, b) == \/ q < p /\ Long(q) /\ b < buff_size(q)
                 \/ q = p /\ pc = "scan" /\ b < start

\* The chunks, one after the other, are the payloads that are not shorter than
\* the window: no byte of them is left out, put in twice or put in out of order,
\* and no byte of another is put in.
ChunksTilePackets ==
  /\ \A m, n \in DOMAIN chunks : m < n => Before(m, n)
  /\ \A q \in DOMAIN packets : \A b \in 0 .. buff_size(q) - 1 :
       Scanned(q, b) <=> \E n \in DOMAIN chunks : In(n, q, b)

\* However far it has rolled, the hash is the one of the window that ends at the
\* byte before i: the update takes out exactly what the byte left behind put in,
\* in arithmetic that wraps.
HashIsOfWindow ==
  pc = "scan" =>
    current_hash = initial_hash_func(p, (IF i <= buff_size(p) THEN i ELSE i - 1) - WIN_SIZE)

\* Where a payload is cut depends on the bytes in the window and on nothing else:
\* the same bytes are cut at the same place in whatever packet, after whatever
\* other bytes, they come.  (The first window of a packet is never looked at.)
CutsAreContentDefined ==
  \A q \in 1 .. p - 1 : Long(q) =>
    \A c \in WIN_SIZE .. buff_size(q) - 1 :
      Target(initial_hash_func(q, c + 1 - WIN_SIZE)) <=>
        \E n \in DOMAIN chunks : chunks[n].packet = q /\ chunks[n].from = c

\* A payload makes at most one chunk for each of its windows: buff_size - WIN_SIZE + 1
\* of them. No chunk is empty, and the first of a payload is as long as a window.
\* This is what the arrays of estimated_chunks entries would have to hold for each
\* payload; they are shorter than that for one payload of the largest size, 4096 or 961
\* entries for up to 8177 chunks, and hold the chunks of all payloads.
FewChunks ==
  /\ \A n \in DOMAIN chunks :
       chunks[n].size > 0 /\ (chunks[n].from = 0 => chunks[n].size >= WIN_SIZE)
  /\ \A m, n \in DOMAIN chunks :
       m < n /\ chunks[m].packet = chunks[n].packet =>
         n - m <= buff_size(chunks[n].packet) - WIN_SIZE
=============================================================================

---------------------------- MODULE GearChunker ----------------------------
(***************************************************************************)
(* Content-defined chunking with a gear hash: gear_based_fastcdc of        *)
(* src/Server/cdc.cpp, which encoder_opt.cpp and host_v1.cpp call where    *)
(* the built encoders call rabin_fingerprint_cdc.  A hash is shifted and   *)
(* mixed with a random word per byte; a chunk ends where bits of it are    *)
(* zero, fewer bits once the chunk is of average size, and at a maximum.   *)
(*                                                                         *)
(* One step is one iteration of the function's loop, or the start or the   *)
(* end of a call.  A hash is a function from its bits to 0 and 1, a mask a *)
(* set of bits.  A name that Chunker has too starts with Gear, as both are *)
(* reasoned about in one module.                                           *)
(***************************************************************************)
EXTENDS ChunkedPackets, FiniteSets

CONSTANTS HashBits,   \* 64
          gear_table, \* the word of each byte
          mask_small, mask_large, \* the bits to be zero, below and from average size
          FASTCDC_MIN_CHUNK, FASTCDC_AVG_CHUNK, FASTCDC_MAX_CHUNK \* 8, 256, 2048

Bit  == 0 .. HashBits - 1
Hash == [Bit -> {0, 1}]

ASSUME GearAssumption ==
  /\ Packets \subseteq Seq(Seq(Byte))
  /\ HashBits \in Nat \ {0}
  /\ gear_table \in [Byte -> Hash]
  /\ mask_small \subseteq Bit /\ mask_large \subseteq Bit
  /\ FASTCDC_MIN_CHUNK \in Nat \ {0}
  /\ FASTCDC_AVG_CHUNK \in Nat
  /\ FASTCDC_MAX_CHUNK \in Nat /\ FASTCDC_MAX_CHUNK > FASTCDC_MIN_CHUNK

VARIABLE chunk_size  \* the bytes in the open chunk

gearVars == <<packets, p, i, start, chunk_size, current_hash, chunks, pc>>

GearTypeOK == /\ packets \in Packets
              /\ p \in 1 .. Len(packets) + 1
              /\ i \in Nat /\ start \in Nat /\ chunk_size \in 0 .. FASTCDC_MAX_CHUNK - 2
              /\ current_hash \in Hash
              /\ chunks \in Seq(Chunk)
              /\ pc \in {"call", "scan"}

Zero == [b \in Bit |-> 0]

GearInit == /\ packets \in Packets
            /\ p = 1
            /\ i = 0 /\ start = 0 /\ chunk_size = 0
            /\ current_hash = Zero
            /\ chunks = << >>
            /\ pc = "call"

-----------------------------------------------------------------------------
\* Mutant: the shift is made last.
gear_rolling_hash_last(h, c) ==
  [b \in Bit |-> IF b = 0 THEN 0 ELSE (h[b - 1] + gear_table[c][b - 1]) % 2]

\* (h << 1) ^ gear_table[c]: the shift loses the highest bit.
gear_rolling_hash(h, c) ==
  [b \in Bit |-> ((IF b = 0 THEN 0 ELSE h[b - 1]) + gear_table[c][b]) % 2]

Clear(h, mask) == \A b \in mask : h[b] = 0

\* A payload shorter than the smallest chunk is left alone.
GearReturnShort == /\ pc = "call"
                   /\ p <= Len(packets)
                   /\ buff_size(p) < FASTCDC_MIN_CHUNK
                   /\ p' = p + 1
                   /\ UNCHANGED <<packets, i, start, chunk_size, current_hash, chunks, pc>>

GearEnter == /\ pc = "call"
             /\ p <= Len(packets)
             /\ buff_size(p) >= FASTCDC_MIN_CHUNK
             /\ i' = 0 /\ start' = 0 /\ chunk_size' = 0
             /\ current_hash' = Zero
             /\ pc' = "scan"
             /\ UNCHANGED <<packets, p, chunks>>

Roll == /\ pc = "scan"
        /\ i < buff_size(p)
        /\ current_hash' = gear_rolling_hash(current_hash, byte(p, i))
        /\ i' = i + 1
        /\ UNCHANGED <<packets, p, pc>>

\* Mutant: the size at which a chunk ends is one more.
EndsHereLate(q, n, size, hash) ==
  \/ size < FASTCDC_AVG_CHUNK /\ Clear(hash, mask_small)
  \/ size >= FASTCDC_AVG_CHUNK /\ Clear(hash, mask_large)
  \/ size = FASTCDC_MAX_CHUNK
  \/ n = buff_size(q) - 1

\* A chunk of this size may end at byte n of packet q, whose hash this is.
EndsHere(q, n, size, hash) ==
  \/ size < FASTCDC_AVG_CHUNK /\ Clear(hash, mask_small)
  \/ size >= FASTCDC_AVG_CHUNK /\ Clear(hash, mask_large)
  \/ size = FASTCDC_MAX_CHUNK - 1
  \/ n = buff_size(q) - 1

GearCutHere == /\ EndsHere(p, i, chunk_size + 1, current_hash')
               /\ chunk_size + 1 >= FASTCDC_MIN_CHUNK

\* Mutant: byte i is counted into the next chunk.
CutBefore == /\ Roll
             /\ GearCutHere
             /\ chunks' = Append(chunks, [packet |-> p, from |-> start, size |-> chunk_size + 1])
             /\ start' = i
             /\ chunk_size' = 0

\* Byte i is the last of the chunk; the hash goes on over the cut.
GearCut == /\ Roll
           /\ GearCutHere
           /\ chunks' = Append(chunks, [packet |-> p, from |-> start, size |-> chunk_size + 1])
           /\ start' = i + 1
           /\ chunk_size' = 0

GearContinue == /\ Roll
                /\ ~ GearCutHere
                /\ chunk_size' = chunk_size + 1
                /\ UNCHANGED <<chunks, start>>

GearReturn == /\ pc = "scan"
              /\ i = buff_size(p)
              /\ p' = p + 1
              /\ pc' = "call"
              /\ UNCHANGED <<packets, i, start, chunk_size, current_hash, chunks>>

GearNext == GearReturnShort \/ GearEnter \/ GearCut \/ GearContinue \/ GearReturn

GearSpec == GearInit /\ [][GearNext]_gearVars
-----------------------------------------------------------------------------
\* Between calls, start and chunk_size keep what the last call left in them.
GearPromise == INSTANCE Chunking WITH
             start <- IF pc = "scan" THEN start ELSE 0,
             Sizes <- FASTCDC_MIN_CHUNK .. FASTCDC_MAX_CHUNK - 1,
             Left  <- Nat \X (0 .. FASTCDC_MIN_CHUNK - 1)

\* The chunks of a payload follow one another without a gap, each of at least
\* FASTCDC_MIN_CHUNK bytes and of less than FASTCDC_MAX_CHUNK, the buffers they are
\* copied to, and what is left of it is shorter than a chunk may be.
GearImplementsChunking == GearPromise!Spec

\* The inductive invariant: the open chunk reaches from start to i, and what is open
\* of it when the payload ends is too short to be cut.
GearOpen == pc = "scan" => /\ p <= Len(packets) /\ i <= buff_size(p)
                           /\ start + chunk_size = i
                           /\ i = buff_size(p) => chunk_size < FASTCDC_MIN_CHUNK

GearIInv == GearTypeOK /\ GearOpen

\* The hash at byte n of packet q, told from its last HashBits bytes alone.
HashAt(q, n) ==
  [b \in Bit |->
     Cardinality({d \in 0 .. b : d <= n /\ gear_table[byte(q, n - d)][b - d] = 1}) % 2]

\* Every chunk ends at the first byte, behind the smallest size, at which the bytes
\* before it in the packet allow it to.  (The hash is not reset at a cut, so those of
\* the chunk before count: what a mask of k low bits can tell is the last k bytes.)
CutsAreFirst ==
  \A n \in DOMAIN chunks :
    LET c == chunks[n]
        Ends(size) == EndsHere(c.packet, c.from + size - 1, size,
                               HashAt(c.packet, c.from + size - 1))
    IN Ends(c.size) /\ \A size \in FASTCDC_MIN_CHUNK .. c.size - 1 : ~ Ends(size)
=============================================================================

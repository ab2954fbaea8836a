----------------------------- MODULE ShaPadding -----------------------------
(***************************************************************************)
(* calculate_sha256 of Server/sha.cpp up to the compression function: how  *)
(* sha256_update cuts a message into blocks and how sha256_final pads the  *)
(* last one or two with the message's length.  sha256_transform is taken   *)
(* for its effect: it folds ctx->data, as it stands, into the state; here  *)
(* the state is the sequence of blocks folded in.                          *)
(*                                                                         *)
(* One step is sha256_init, one byte of the message, or sha256_final.      *)
(* Sizes are constants, so that a message crosses several blocks.          *)
(***************************************************************************)
EXTENDS Powers, SequencesExt

CONSTANTS BlockSize,   \* bytes of a block (64)
          LengthSize,  \* bytes of the length at its end (8)
          Radix,       \* values of a byte (256)
          Unset        \* what the stack holds before it is written

VARIABLES message, i,  \* the argument and the loop of sha256_update
          data,        \* the block being filled
          datalen,     \* bytes in it
          bitlen,      \* bits in the blocks folded in
          state        \* those blocks

LengthAt == BlockSize - LengthSize  \* 56
Garbage  == [u \in 1 .. BlockSize |-> Unset]

\* sha_ctx before the first call.
Init == i = 0 /\ data = Garbage /\ datalen = 0 /\ bitlen = 0 /\ state = << >>

\* sha_ctx is a local: its data is whatever the stack holds, such as the last
\* block of the call before.
sha256_init == /\ i' = 0 /\ datalen' = 0 /\ bitlen' = 0 /\ state' = << >>
               /\ data' \in {data, Garbage}

\* ctx->data with the next byte in it.
Filled == [data EXCEPT ![datalen + 1] = message[i + 1]]

BlockFull == datalen + 1 = BlockSize

\* Mutant: the block is folded in without its last byte.
FoldedStale == data

Folded == Filled

Update == /\ i < Len(message)
          /\ data' = Filled
          /\ IF BlockFull
             THEN /\ state' = Append(state, Folded)
                  /\ bitlen' = bitlen + 8 * BlockSize
                  /\ datalen' = 0
             ELSE /\ datalen' = datalen + 1
                  /\ UNCHANGED <<state, bitlen>>
          /\ i' = i + 1

\* The block with the mark 0x80 after its datalen bytes and zeros up to a place.
Marked(upto) ==
  [u \in 1 .. BlockSize |-> CASE u = datalen + 1                -> Radix \div 2
                              [] u > datalen + 1 /\ u <= upto   -> 0
                              [] OTHER                          -> data[u]]

\* The block with the length in its last bytes, the most significant first.
WithLength(block, bits) ==
  [u \in 1 .. BlockSize |->
     IF u <= LengthAt THEN block[u] ELSE (bits \div Power(Radix)[BlockSize - u]) % Radix]

\* Mutant: the block of the length is not cleared.
NotCleared(block) == block

Cleared(block) == [u \in 1 .. BlockSize |-> IF u <= LengthAt THEN 0 ELSE block[u]]

sha256_final ==
  /\ i = Len(message)
  /\ bitlen' = bitlen + 8 * datalen
  /\ IF datalen < LengthAt
     THEN /\ data' = WithLength(Marked(LengthAt), bitlen')
          /\ state' = Append(state, data')
     ELSE /\ data' = WithLength(Cleared(Marked(BlockSize)), bitlen')
          /\ state' = state \o <<Marked(BlockSize), data'>>
  /\ UNCHANGED <<i, datalen>>
-----------------------------------------------------------------------------
\* The message with one mark, as few zeros as fill a block, and its length.
Padded ==
  LET zeros == CHOOSE z \in 0 .. BlockSize - 1 :
                 (Len(message) + 1 + z + LengthSize) % BlockSize = 0
  IN message \o <<Radix \div 2>> \o [u \in 1 .. zeros |-> 0]
       \o [u \in 1 .. LengthSize |-> ((8 * Len(message)) \div Power(Radix)[LengthSize - u]) % Radix]
=============================================================================

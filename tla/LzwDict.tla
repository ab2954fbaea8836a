------------------------------ MODULE LzwDict ------------------------------
(***************************************************************************)
(* The dictionary of the LZW compressor (src/Server/lzw.cpp): a hash table *)
(* with one entry per bucket, backed by a small associative memory for the *)
(* keys whose bucket is taken.  The associative memory is three memories   *)
(* indexed by the upper, middle and lower bits of the key; slot s of the   *)
(* value array belongs to the key for which bit s is set in all three.     *)
(*                                                                         *)
(* One step is one probe by the compression loop: lookup, then, on a miss, *)
(* insert with the next code; a second collision ends the compression.     *)
(***************************************************************************)
EXTENDS Integers

CONSTANTS Key,        \* 20-bit keys: a 12-bit prefix code and a byte
          Hash,       \* my_hash: a function from keys to buckets, any at all
          Index,      \* the addresses of the three key memories
          Field,      \* Field[m][k]: the bits of k that address memory m
          Slots,      \* size of the value array (64)
          ShiftBits,  \* the width of the int that 1 << fill is computed in,
                      \* and of the unsigned int that a match is read into (32)
          FirstCode,  \* the first code given to a key (256)
          CodeSpace,  \* values are cut to 12 bits (4096)
          Miss        \* what a lookup without a hit returns

Memory == {"upper", "middle", "lower"}
Bucket == {Hash[k] : k \in Key}
Code   == 0 .. CodeSpace - 1
Empty  == [valid |-> FALSE]

ASSUME SizeAssumption == /\ Slots \in Nat /\ ShiftBits \in Nat \ {0}
                         /\ FirstCode \in Nat /\ CodeSpace \in Nat
                         /\ FirstCode < CodeSpace
                         /\ Miss \notin Code

\* The three fields together are the whole key.
ASSUME FieldAssumption ==
  /\ Field \in [Memory -> [Key -> Index]]
  /\ \A k, l \in Key :
       (\A m \in Memory : Field[m][k] = Field[m][l]) => k = l

VARIABLES hash_table, \* bucket -> entry
          key_mem,    \* memory -> address -> the visible bits set there
          value,      \* slot -> code, meaningful below fill
          fill,       \* slots in use
          next_code,  \* the code the next new key gets
          answer,     \* what the last probe's lookup returned
          collision   \* TRUE once insert failed: the compressor has returned

vars == <<hash_table, key_mem, value, fill, next_code, answer, collision>>

Entry == [valid : {TRUE}, key : Key, value : Code]
Bit   == 0 .. ShiftBits - 1

TypeOK == /\ hash_table \in [Bucket -> Entry \cup {Empty}]
          /\ key_mem \in [Memory -> [Index -> SUBSET Bit]]
          /\ value \in [0 .. Slots - 1 -> Code]
          /\ fill \in 0 .. Slots
          /\ next_code \in Nat
          /\ answer \in Code \cup {Miss}
          /\ collision \in BOOLEAN

Init == /\ hash_table = [b \in Bucket |-> Empty]
        /\ key_mem = [m \in Memory |-> [x \in Index |-> {}]]
        /\ value = [s \in 0 .. Slots - 1 |-> 0]
        /\ fill = 0
        /\ next_code = FirstCode
        /\ answer = Miss
        /\ collision = FALSE

-----------------------------------------------------------------------------
InHash(k) == /\ hash_table[Hash[k]].valid
             /\ hash_table[Hash[k]].key = k

\* Mutant: the upper memory is left out of the match.
MatchTwo(k) == {b \in Bit : \A m \in {"middle", "lower"} : b \in key_mem[m][Field[m][k]]}

\* The bits common to the three memories at the key's addresses.
Match(k) == {b \in Bit : \A m \in Memory : b \in key_mem[m][Field[m][k]]}

\* The loop takes the lowest matching bit as the slot.
Address(k) == CHOOSE b \in Match(k) : \A c \in Match(k) : b <= c

Hit(k) == InHash(k) \/ Match(k) # {}

Lookup(k) == IF InHash(k) THEN hash_table[Hash[k]].value
             ELSE IF Match(k) # {} THEN value[Address(k)]
             ELSE Miss

\* The bits that  1 << fill  sets.  For fill >= ShiftBits the shift is undefined:
\* an AArch64 build shifts by fill modulo 32, the synthesised kernel by the
\* whole amount, leaving no bit.  (Bit 31 makes the int negative and sets the
\* bits above it too, but assoc_lookup reads the low 32 bits only.)
Shifted == IF fill < ShiftBits THEN {{fill}} ELSE {{fill % ShiftBits}, {}}

\* Mutant: hash_insert does not look at the valid bit.
VacantAlways(k) == TRUE

Vacant(k) == ~ hash_table[Hash[k]].valid

HashInsert(k) ==
  /\ Vacant(k)
  /\ hash_table' = [hash_table EXCEPT ![Hash[k]] =
                      [valid |-> TRUE, key |-> k, value |-> next_code % CodeSpace]]
  /\ UNCHANGED <<key_mem, value, fill, collision>>

\* Mutant: the last slot is one past the end.
SlotLeftPastEnd == fill <= Slots

SlotLeft == fill < Slots

AssocInsert(k) ==
  /\ ~ Vacant(k)
  /\ SlotLeft
  /\ \E bits \in Shifted :
       key_mem' = [m \in Memory |->
                     [key_mem[m] EXCEPT ![Field[m][k]] = @ \cup bits]]
  /\ value' = [value EXCEPT ![fill] = next_code % CodeSpace]
  /\ fill' = fill + 1
  /\ UNCHANGED <<hash_table, collision>>

\* Neither place has room: the compressor returns without a result.
Collide(k) ==
  /\ ~ Vacant(k)
  /\ ~ SlotLeft
  /\ collision' = TRUE
  /\ UNCHANGED <<hash_table, key_mem, value, fill, next_code>>

ProbeHit(k) == /\ Hit(k)
               /\ UNCHANGED <<hash_table, key_mem, value, fill, next_code, collision>>

\* Mutant: the code is not counted when the associative memory took the key.
GivesUnlessAssoc(k) == next_code' = IF Vacant(k) THEN next_code + 1 ELSE next_code

GivesCode(k) == next_code' = next_code + 1

ProbeMiss(k) == /\ ~ Hit(k)
                /\ \/ (HashInsert(k) \/ AssocInsert(k)) /\ GivesCode(k)
                   \/ Collide(k)

Probe(k) == /\ ~ collision
            /\ answer' = Lookup(k)
            /\ ProbeHit(k) \/ ProbeMiss(k)

Next == \E k \in Key : Probe(k)

Spec == Init /\ [][Next]_vars
-----------------------------------------------------------------------------
\* The associative memory holds no more entries than a shift can reach.
Reachable == fill <= ShiftBits

\* A code names one key: the decoder, which knows codes only, can tell any two
\* keys apart, as long as the shift is defined and the codes have not wrapped.
DistinctCodes ==
  Reachable /\ next_code <= CodeSpace =>
    \A k, l \in Key : Hit(k) /\ Lookup(k) = Lookup(l) => k = l

\* No insertion disturbs a key that was already found: whatever buckets and key
\* memory words the two share, a lookup of it returns the same code as before. This is
\* said of steps that do not pass the shift (Reachable); StoresAllSlots is said of all.
KeepsCodes == [][ Reachable' => \A k \in Key : Hit(k) => Lookup(k)' = Lookup(k) ]_vars

\* A key that misses is found from the next step on, under the code the caller
\* counted for it, and no key but the probed one becomes known, as long as the shift is
\* not passed (Reachable).
LearnsProbed ==
  [][ Reachable' /\ next_code' # next_code =>
        \E k \in Key : /\ ~ Hit(k)
                       /\ Lookup(k)' = next_code % CodeSpace
                       /\ \A l \in Key \ {k} : Hit(l)' = Hit(l) ]_vars

\* The compressor gives up only when every slot is taken, over a key that is not known
\* and whose bucket holds another; at least one key more than there are slots has been
\* learnt by then. This holds past the shift as well.
RefusesOnlyWhenFull ==
  collision => /\ fill = Slots
               /\ \E k \in Key : ~ Hit(k) /\ ~ Vacant(k)
               /\ next_code - FirstCode > Slots

\* lzw.h:24-26 says the memory stores 64 key value pairs: every key that insert
\* accepted is found, also past the 32nd.
StoresAllSlots ==
  [][ next_code' # next_code =>
        \E k \in Key : ~ Hit(k) /\ Lookup(k)' = next_code % CodeSpace ]_vars

\* The dictionary as the abstract map of the keys it finds.
Map == INSTANCE CodeMap WITH
         codes <- [k \in {l \in Key : Hit(l)} |-> Lookup(k)],
         refused <- collision, Capacity <- Slots + 1

\* The two-level dictionary implements the abstract map.
ImplementsMap == Map!Spec

\* What is left of the map in a step past the shift: the answers may be wrong, but no
\* known key becomes unknown, codes are counted one by one, and a key is refused only
\* when more than Slots have been learnt.
PastShift == /\ ~ Reachable'
             /\ ~ collision
             /\ \A k \in Key : Hit(k) => Hit(k)'
             /\ next_code' \in {next_code, next_code + 1}
             /\ collision' => next_code - FirstCode > Slots

\* With slots past the shift, as the shipped 64 of 32 bits are, the dictionary is still
\* the abstract map up to the insertion that passes the shift, and only then less.
FollowsMap == Map!Init /\ [][Map!Next \/ PastShift]_vars
=============================================================================

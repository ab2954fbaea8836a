-------------------------- MODULE LzwDict_proofs --------------------------
(***************************************************************************)
(* Proofs about the dictionary of the LZW compressor, for any set of keys, *)
(* any hash function and any sizes.  A slot s of the associative memory    *)
(* stands for one key because bit s is set at one address of each key      *)
(* memory only, and because a key is never stored twice; that is what the  *)
(* invariant below adds to the types.  It holds while the shift that sets  *)
(* the bit is defined.                                                     *)
(***************************************************************************)
EXTENDS LzwDict, WellFoundedInduction, TLAPS

\* Codes in use were given out before, and no two places hold the same one.
CodesGiven ==
  next_code <= CodeSpace =>
    /\ \A s \in 0 .. fill - 1 : value[s] < next_code
    /\ \A s, t \in 0 .. fill - 1 : value[s] = value[t] => s = t
    /\ \A b \in Bucket : hash_table[b].valid =>
         /\ hash_table[b].value < next_code
         /\ \A s \in 0 .. fill - 1 : value[s] # hash_table[b].value
    /\ \A b, c \in Bucket :
         hash_table[b].valid /\ hash_table[c].valid =>
           (hash_table[b].value = hash_table[c].value => b = c)

\* Every slot and every bucket in use has its code.
Counted == /\ fill <= next_code - FirstCode
           /\ \A b \in Bucket : hash_table[b].valid => fill < next_code - FirstCode

\* Bits are set for the slots in use only.
BelowFill == \A m \in Memory, x \in Index : \A b \in key_mem[m][x] : b < fill

\* A slot's bit is set at one address of each key memory.
OneWord == \A m \in Memory, x, y \in Index :
             \A b \in key_mem[m][x] : b \in key_mem[m][y] => x = y

\* A key has one slot at most.
OneSlot == \A k \in Key : \A b, c \in Match(k) : b = c

IInv == /\ TypeOK
        /\ Counted
        /\ CodesGiven
        /\ BelowFill
        /\ Reachable => OneWord /\ OneSlot

-----------------------------------------------------------------------------
\* A shift leaves a bit of the word, or none.
LEMMA ShiftedType ==
  ASSUME fill \in Nat
  PROVE  Shifted \subseteq SUBSET Bit
<1>1. fill % ShiftBits \in Bit
  BY SizeAssumption DEF Bit
<1>2. fill < ShiftBits => fill \in Bit
  BY SizeAssumption DEF Bit
<1> QED
  BY <1>1, <1>2 DEF Shifted

\* The counter, cut to the width of a code, is the code until it wraps.
LEMMA CodeType ==
  ASSUME next_code \in Nat
  PROVE  /\ next_code % CodeSpace \in Code
         /\ next_code < CodeSpace => next_code % CodeSpace = next_code
  BY SizeAssumption DEF Code

\* A field of a key addresses its memory.
LEMMA FieldType ==
  ASSUME NEW m \in Memory, NEW k \in Key
  PROVE  Field[m][k] \in Index
  BY FieldAssumption

\* A valid entry of the hash table is a key with a code.
LEMMA EntryType ==
  ASSUME TypeOK, NEW b \in Bucket, hash_table[b].valid
  PROVE  /\ hash_table[b] \in Entry
         /\ hash_table[b].key \in Key
         /\ hash_table[b].value \in Code
<1>1. hash_table[b] \in Entry \cup {Empty} /\ Empty.valid = FALSE
  BY DEF TypeOK, Empty
<1>2. hash_table[b] \in Entry
  BY <1>1
<1> QED
  BY <1>2 DEF Entry

\* Two keys whose bit for one slot is set belong to that slot's key.
LEMMA SlotKey ==
  ASSUME OneWord, NEW k \in Key, NEW l \in Key, NEW b \in Match(k), b \in Match(l)
  PROVE  k = l
<1>1. \A m \in Memory : Field[m][k] = Field[m][l]
  BY FieldType DEF OneWord, Match
<1> QED
  BY <1>1, FieldAssumption

\* With one slot to a key, the address is that of any bit that matches.
LEMMA AddressInMatch ==
  ASSUME OneSlot, NEW k \in Key, NEW b \in Match(k), TypeOK
  PROVE  Address(k) = b
<1>1. \A c \in Match(k) : c = b
  BY DEF OneSlot
<1>2. b <= b
  BY SizeAssumption DEF Match, Bit
<1> QED
  BY <1>1, <1>2 DEF Address
\* A matching bit is the number of a slot in use.
LEMMA MatchInUse ==
  ASSUME TypeOK, BelowFill, NEW k \in Key, NEW b \in Match(k)
  PROVE  b \in 0 .. fill - 1 /\ b \in 0 .. Slots - 1
<1>1. b \in Nat /\ b \in key_mem["upper"][Field["upper"][k]]
  BY SizeAssumption DEF Match, Memory, Bit
<1>2. b < fill
  BY <1>1, FieldType DEF BelowFill, Memory
<1> QED
  BY <1>1, <1>2, SizeAssumption DEF TypeOK

\* When some bits match, the address is the least of them.
LEMMA AddressType ==
  ASSUME NEW k \in Key, Match(k) # {}
  PROVE  Address(k) \in Match(k)
<1>1. Match(k) \subseteq Nat
  BY SizeAssumption DEF Match, Bit
<1>2. PICK b \in Match(k) : \A c \in Match(k) : ~ (<<c, b>> \in OpToRel(<, Nat))
  BY <1>1, NatLessThanWellFounded, WFMin
<1>3. \A c \in Match(k) : b <= c
  <2>1. ASSUME NEW c \in Match(k) PROVE ~ (c < b)
    BY <1>1, <1>2 DEF OpToRel
  <2> QED
    BY <1>1, <2>1
<1> QED
  BY <1>3 DEF Address

\* A lookup returns a code or misses.
LEMMA LookupType ==
  ASSUME TypeOK, BelowFill, NEW k \in Key
  PROVE  Lookup(k) \in Code \cup {Miss}
<1>1. CASE InHash(k)
  BY <1>1, EntryType DEF InHash, Lookup, Bucket
<1>2. CASE ~ InHash(k) /\ Match(k) # {}
  <2>1. value[Address(k)] \in Code
    BY <1>2, AddressType, MatchInUse DEF TypeOK
  <2> QED
    BY <1>2, <2>1 DEF Lookup
<1> QED
  BY <1>1, <1>2 DEF Lookup

-----------------------------------------------------------------------------
\* The invariant holds of the empty dictionary.
LEMMA InitIInv == Init => IInv
<1> SUFFICES ASSUME Init PROVE IInv
  OBVIOUS
<1> USE DEF Init
<1>0. 0 \in Code /\ 0 \in 0 .. Slots
  BY SizeAssumption DEF Code
<1>1. TypeOK
  BY <1>0, SizeAssumption DEF TypeOK
<1>2. \A k \in Key : Match(k) = {}
  BY FieldType DEF Match, Memory
<1>3. Counted
  BY SizeAssumption DEF Counted, Empty
<1>4. CodesGiven
  <2>1. 0 .. fill - 1 = {}
    OBVIOUS
  <2>2. \A b \in Bucket : ~ hash_table[b].valid
    BY DEF Empty
  <2> QED
    BY <2>1, <2>2 DEF CodesGiven
<1>5. BelowFill /\ OneWord /\ OneSlot
  BY <1>2 DEF BelowFill, OneWord, OneSlot
<1> QED
  BY <1>1, <1>3, <1>4, <1>5 DEF IInv

\* An insertion in a free bucket touches no slot.
LEMMA HashInsertIInv ==
  ASSUME IInv, NEW k \in Key, ~ Hit(k), HashInsert(k), next_code' = next_code + 1,
         answer' = Lookup(k)
  PROVE  IInv'
<1> DEFINE new == [valid |-> TRUE, key |-> k, value |-> next_code % CodeSpace]
<1> USE DEF HashInsert, Vacant
<1>1. next_code \in Nat /\ next_code % CodeSpace \in Code /\ Hash[k] \in Bucket
  BY CodeType DEF IInv, TypeOK, Bucket
<1>2. /\ hash_table'[Hash[k]] = new
      /\ \A b \in Bucket \ {Hash[k]} : hash_table'[b] = hash_table[b]
  BY <1>1 DEF IInv, TypeOK
<1>3. TypeOK'
  <2>1. new \in Entry
    BY <1>1 DEF Entry
  <2>2. answer' = Miss
    BY DEF Hit, Lookup
  <2> QED
    BY <1>1, <2>1, <2>2 DEF IInv, TypeOK
<1>4. Counted'
  BY <1>1, <1>2, SizeAssumption DEF IInv, TypeOK, Counted
<1>5. CodesGiven'
  <2> SUFFICES ASSUME next_code' <= CodeSpace PROVE CodesGiven'
    BY DEF CodesGiven
  <2>1. CodesGiven!2
    BY <1>1, SizeAssumption DEF IInv, CodesGiven
  <2>2. next_code % CodeSpace = next_code
    BY <1>1, CodeType, SizeAssumption
  <2>3. \A s \in 0 .. fill - 1 : value[s] \in Nat
    BY SizeAssumption DEF IInv, TypeOK, Code
  <2>4. \A b \in Bucket : hash_table[b].valid => hash_table[b].value \in Nat
    BY EntryType, SizeAssumption DEF IInv, Code
  <2>5. ~ hash_table[Hash[k]].valid
    OBVIOUS
  <2>6. \A s \in 0 .. fill - 1 : value[s] < next_code + 1 /\ value[s] # next_code
    BY <1>1, <2>1, <2>3
  <2>7. \A b \in Bucket : hash_table[b].valid =>
            hash_table[b].value < next_code + 1 /\ hash_table[b].value # next_code
    BY <1>1, <2>1, <2>4
  <2> QED
    BY <1>1, <1>2, <2>1, <2>2, <2>6, <2>7 DEF CodesGiven
<1>6. BelowFill' /\ (Reachable' => (OneWord /\ OneSlot)')
  BY DEF IInv, Reachable, BelowFill, OneWord, OneSlot, Match
<1> QED
  BY <1>3, <1>4, <1>5, <1>6 DEF IInv

\* An insertion sets bits at the key's address of each memory, and only there.
LEMMA SetBits ==
  ASSUME TypeOK, NEW k \in Key, NEW bits \in SUBSET Bit,
         key_mem' = [m \in Memory |-> [key_mem[m] EXCEPT ![Field[m][k]] = @ \cup bits]]
  PROVE  /\ key_mem' \in [Memory -> [Index -> SUBSET Bit]]
         /\ \A m \in Memory, x \in Index :
              key_mem'[m][x] = IF x = Field[m][k] THEN key_mem[m][x] \cup bits
                               ELSE key_mem[m][x]
<1>1. ASSUME NEW m \in Memory
      PROVE  /\ key_mem[m] \in [Index -> SUBSET Bit]
             /\ key_mem'[m] = [key_mem[m] EXCEPT ![Field[m][k]] = @ \cup bits]
  BY DEF TypeOK
<1>2. ASSUME NEW m \in Memory
      PROVE  /\ key_mem'[m] \in [Index -> SUBSET Bit]
             /\ \A x \in Index :
                  key_mem'[m][x] = IF x = Field[m][k] THEN key_mem[m][x] \cup bits
                                   ELSE key_mem[m][x]
  <2> DEFINE new == [key_mem[m] EXCEPT ![Field[m][k]] = @ \cup bits]
  <2>1. key_mem[m] \in [Index -> SUBSET Bit] /\ Field[m][k] \in Index
    BY <1>1, FieldType
  <2>2. key_mem[m][Field[m][k]] \cup bits \in SUBSET Bit
    BY <2>1
  <2>3. new \in [Index -> SUBSET Bit]
    BY <2>1, <2>2
  <2>4. \A x \in Index :
          new[x] = IF x = Field[m][k] THEN key_mem[m][x] \cup bits ELSE key_mem[m][x]
    BY <2>1
  <2> QED
    BY <1>1, <2>3, <2>4
<1> QED
  BY <1>2

\* What one insertion into the associative memory does while the shift is
\* defined: the bit of the new slot is set for the inserted key alone.
LEMMA NewSlot ==
  ASSUME IInv, Reachable', NEW k \in Key, ~ Hit(k), AssocInsert(k)
  PROVE  /\ fill < ShiftBits
         /\ Match(k)' = {fill}
         /\ \A l \in Key \ {k} : Match(l)' = Match(l)
         /\ \A l \in Key : fill \notin Match(l)
<1> USE DEF AssocInsert, Vacant, SlotLeft
<1>1. fill \in Nat /\ fill < ShiftBits /\ fill \in Bit
  BY SizeAssumption DEF IInv, TypeOK, Reachable, Bit
<1>2. key_mem' = [m \in Memory |-> [key_mem[m] EXCEPT ![Field[m][k]] = @ \cup {fill}]]
  BY <1>1 DEF Shifted
<1>3. \A m \in Memory, x \in Index :
        key_mem'[m][x] = IF x = Field[m][k] THEN key_mem[m][x] \cup {fill} ELSE key_mem[m][x]
  <2>1. {fill} \in SUBSET Bit
    BY <1>1
  <2> QED
    BY <1>2, <2>1, SetBits DEF IInv
<1>4. BelowFill
  BY DEF IInv
<1>5. \A m \in Memory, x \in Index : fill \notin key_mem[m][x]
  BY <1>1, <1>4 DEF BelowFill
<1>6. \A l \in Key : \A b \in Bit \ {fill} : b \in Match(l)' <=> b \in Match(l)
  BY <1>3, FieldType DEF Match
<1>7. \A l \in Key : fill \notin Match(l)
  BY <1>5, FieldType DEF Match, Memory
<1>8. fill \in Match(k)'
  BY <1>1, <1>3, FieldType DEF Match
<1>9. ASSUME NEW l \in Key \ {k} PROVE fill \notin Match(l)'
  <2>1. PICK m \in Memory : Field[m][l] # Field[m][k]
    BY <1>9, FieldAssumption
  <2>2. fill \notin key_mem'[m][Field[m][l]]
    BY <1>3, <1>5, <2>1, FieldType
  <2> QED
    BY <2>1, <2>2 DEF Match
<1>10. \A l \in Key : Match(l) \subseteq Bit /\ Match(l)' \subseteq Bit
  BY DEF Match
<1>11. Match(k) = {}
  BY DEF Hit
<1>12. Match(k)' = {fill}
  BY <1>1, <1>6, <1>8, <1>10, <1>11
<1>13. ASSUME NEW l \in Key \ {k} PROVE Match(l)' = Match(l)
  <2>1. fill \notin Match(l) /\ fill \notin Match(l)'
    BY <1>7, <1>9
  <2>2. \A b \in Bit : b \in Match(l)' <=> b \in Match(l)
    BY <1>6, <2>1
  <2> QED
    BY <1>10, <2>2
<1> QED
  BY <1>1, <1>7, <1>12, <1>13

\* An insertion in the next slot sets its bit at one address of each memory.
LEMMA AssocInsertIInv ==
  ASSUME IInv, NEW k \in Key, ~ Hit(k), AssocInsert(k), next_code' = next_code + 1,
         answer' = Lookup(k)
  PROVE  IInv'
<1> USE DEF AssocInsert, Vacant, SlotLeft
<1>1. /\ fill \in Nat /\ Slots \in Nat /\ fill < Slots
      /\ next_code \in Nat /\ next_code % CodeSpace \in Code
  BY CodeType, SizeAssumption DEF IInv, TypeOK
<1>2. /\ value'[fill] = next_code % CodeSpace
      /\ \A s \in 0 .. Slots - 1 : s # fill => value'[s] = value[s]
  BY <1>1 DEF IInv, TypeOK
<1>3. TypeOK'
  <2>1. PICK bits \in Shifted :
          key_mem' = [m \in Memory |-> [key_mem[m] EXCEPT ![Field[m][k]] = @ \cup bits]]
    OBVIOUS
  <2>2. bits \subseteq Bit
    BY <1>1, <2>1, ShiftedType
  <2>3. key_mem' \in [Memory -> [Index -> SUBSET Bit]]
    BY <2>1, <2>2, SetBits DEF IInv
  <2>4. value' \in [0 .. Slots - 1 -> Code] /\ fill' \in 0 .. Slots
    BY <1>1 DEF IInv, TypeOK
  <2>5. answer' = Miss
    BY DEF Hit, Lookup
  <2> QED
    BY <1>1, <2>3, <2>4, <2>5 DEF IInv, TypeOK
<1>4. Counted'
  BY <1>1, SizeAssumption DEF IInv, TypeOK, Counted
<1>5. CodesGiven'
  <2> SUFFICES ASSUME next_code' <= CodeSpace PROVE CodesGiven'
    BY DEF CodesGiven
  <2>1. CodesGiven!2
    BY <1>1, SizeAssumption DEF IInv, CodesGiven
  <2>2. next_code % CodeSpace = next_code
    BY <1>1, CodeType, SizeAssumption
  <2>3. \A s \in 0 .. fill - 1 : s \in 0 .. Slots - 1 /\ value[s] \in Nat
    BY <1>1, SizeAssumption DEF IInv, TypeOK, Code
  <2>4. \A b \in Bucket : hash_table[b].valid => hash_table[b].value \in Nat
    BY EntryType, SizeAssumption DEF IInv, Code
  <2>5. \A s \in 0 .. fill - 1 : /\ value[s] < next_code + 1
                                 /\ value[s] # next_code
                                 /\ value'[s] = value[s]
    BY <1>1, <1>2, <2>1, <2>3
  <2>6. \A b \in Bucket : hash_table[b].valid =>
            hash_table[b].value < next_code + 1 /\ hash_table[b].value # next_code
    BY <1>1, <2>1, <2>4
  <2>7. \A s \in 0 .. fill' - 1 : s \in 0 .. fill - 1 \/ s = fill
    BY <1>1
  <2>8. value'[fill] = next_code
    BY <1>2, <2>2
  <2> QED
    BY <1>1, <2>1, <2>5, <2>6, <2>7, <2>8 DEF CodesGiven
<1>6. PICK bits \in Shifted :
        key_mem' = [m \in Memory |-> [key_mem[m] EXCEPT ![Field[m][k]] = @ \cup bits]]
  OBVIOUS
<1>7. \A m \in Memory, x \in Index :
        key_mem'[m][x] = IF x = Field[m][k] THEN key_mem[m][x] \cup bits ELSE key_mem[m][x]
  BY <1>1, <1>6, ShiftedType, SetBits DEF IInv
<1>8. \A b \in bits : b \in Nat /\ b <= fill
  BY <1>1, SizeAssumption DEF Shifted
<1>9. \A m \in Memory, x \in Index : \A b \in key_mem[m][x] : b \in Nat /\ b < fill
  BY SizeAssumption DEF IInv, TypeOK, BelowFill, Bit
<1>10. BelowFill'
  <2>1. ASSUME NEW m \in Memory, NEW x \in Index, NEW b \in key_mem'[m][x]
        PROVE  b < fill + 1
    <3>1. b \in bits \/ b \in key_mem[m][x]
      BY <1>7, <2>1
    <3> QED
      BY <1>1, <1>8, <1>9, <3>1
  <2> QED
    BY <2>1 DEF BelowFill
<1>11. ASSUME Reachable' PROVE (OneWord /\ OneSlot)'
  <2>1. fill < ShiftBits /\ Match(k)' = {fill} /\ \A l \in Key \ {k} : Match(l)' = Match(l)
    BY <1>11, NewSlot
  <2>2. OneWord /\ OneSlot
    BY <1>1, <2>1, SizeAssumption DEF IInv, Reachable
  <2>3. bits = {fill}
    BY <2>1 DEF Shifted
  <2>4. OneWord'
    <3>1. ASSUME NEW m \in Memory, NEW x \in Index, NEW y \in Index,
                 NEW b \in key_mem'[m][x], b \in key_mem'[m][y]
          PROVE  x = y
      <4>1. CASE b = fill
        <5>1. b \notin key_mem[m][x] /\ b \notin key_mem[m][y]
          BY <1>1, <1>9, <4>1
        <5> QED
          BY <1>7, <3>1, <5>1
      <4>2. CASE b # fill
        <5>1. \A z \in Index : b \in key_mem'[m][z] => b \in key_mem[m][z] \cup {fill}
          BY <1>7, <2>3
        <5>2. b \in key_mem[m][x] /\ b \in key_mem[m][y]
          BY <3>1, <4>2, <5>1
        <5> QED
          BY <2>2, <5>2 DEF OneWord
      <4> QED
        BY <4>1, <4>2
    <3> QED
      BY <3>1 DEF OneWord
  <2>5. OneSlot'
    BY <2>1, <2>2 DEF OneSlot
  <2> QED
    BY <2>4, <2>5
<1> QED
  BY <1>3, <1>4, <1>5, <1>10, <1>11 DEF IInv

\* One step per way a probe can go.
LEMMA StepIInv == IInv /\ [Next]_vars => IInv'
<1> SUFFICES ASSUME IInv, [Next]_vars PROVE IInv'
  OBVIOUS
<1>1. ASSUME NEW k \in Key, Probe(k) PROVE IInv'
  <2>1. CASE ProbeHit(k)
    <3>1. Lookup(k) \in Code \cup {Miss}
      BY <1>1, LookupType DEF IInv
    <3> QED
      BY <1>1, <2>1, <3>1 DEF Probe, ProbeHit, IInv, TypeOK, Counted, CodesGiven,
                              Reachable, BelowFill, OneWord, OneSlot, Match
  <2>2. CASE ~ Hit(k) /\ HashInsert(k) /\ next_code' = next_code + 1
    BY <1>1, <2>2, HashInsertIInv DEF Probe
  <2>3. CASE ~ Hit(k) /\ AssocInsert(k) /\ next_code' = next_code + 1
    BY <1>1, <2>3, AssocInsertIInv DEF Probe
  <2>4. CASE ~ Hit(k) /\ Collide(k)
    <3>1. answer' = Miss
      BY <1>1, <2>4 DEF Probe, Hit, Lookup
    <3> QED
      BY <2>4, <3>1 DEF Collide, Vacant, SlotLeft, IInv, TypeOK, Counted, CodesGiven,
                        Reachable, BelowFill, OneWord, OneSlot, Match
  <2> QED
    BY <1>1, <2>1, <2>2, <2>3, <2>4 DEF Probe, ProbeMiss, GivesCode
<1>2. CASE UNCHANGED vars
  BY <1>2 DEF vars, IInv, TypeOK, Counted, CodesGiven,
              Reachable, BelowFill, OneWord, OneSlot, Match
<1> QED
  BY <1>1, <1>2 DEF Next

\* In every reachable state the variables have their types, the codes given out
\* are all different, and a slot's bits name one key.
THEOREM Invariance == Spec => []IInv
BY InitIInv, StepIInv, PTL DEF Spec

\* Type correctness of the dictionary, also past the defined shifts.
THEOREM TypeCorrect == Spec => []TypeOK
<1>1. IInv => TypeOK
  BY DEF IInv
<1> QED
  BY <1>1, Invariance, PTL

-----------------------------------------------------------------------------
\* What each kind of step does to lookups, while the shift is defined: an
\* insertion makes exactly the probed key known, under the next code.
LEMMA InsertEffect ==
  ASSUME IInv, Reachable', NEW k \in Key, ~ Hit(k), HashInsert(k) \/ AssocInsert(k)
  PROVE  /\ Hit(k)' /\ Lookup(k)' = next_code % CodeSpace
         /\ \A l \in Key \ {k} : Hit(l)' = Hit(l)
         /\ \A l \in Key : Hit(l) => l # k /\ Lookup(l)' = Lookup(l)
<1>1. CASE HashInsert(k)
  <2> DEFINE new == [valid |-> TRUE, key |-> k, value |-> next_code % CodeSpace]
  <2>1. /\ hash_table'[Hash[k]] = new
        /\ \A b \in Bucket \ {Hash[k]} : hash_table'[b] = hash_table[b]
    BY <1>1 DEF HashInsert, Vacant, IInv, TypeOK, Bucket
  <2>2. InHash(k)'
    BY <2>1 DEF InHash
  <2>3. \A l \in Key : Match(l)' = Match(l)
    BY <1>1 DEF HashInsert, Vacant, Match
  <2>4. \A l \in Key \ {k} : InHash(l)' = InHash(l)
    <3>1. ASSUME NEW l \in Key \ {k} PROVE InHash(l)' = InHash(l)
      <4>1. CASE Hash[l] = Hash[k]
        <5>1. ~ InHash(l)
          BY <1>1, <4>1 DEF HashInsert, Vacant, InHash
        <5>2. ~ InHash(l)'
          BY <2>1, <4>1 DEF InHash
        <5> QED
          BY <5>1, <5>2 DEF InHash
      <4>2. CASE Hash[l] # Hash[k]
        BY <2>1, <4>2 DEF InHash, Bucket
      <4> QED
        BY <4>1, <4>2
    <3> QED
      BY <3>1
  <2>5. \A l \in Key : Hit(l) /\ InHash(l) => l # k /\ Lookup(l)' = Lookup(l)
    <3>1. ASSUME NEW l \in Key, Hit(l), InHash(l)
          PROVE  l # k /\ Lookup(l)' = Lookup(l)
      <4>1. l # k
        BY <3>1
      <4>2. Hash[l] # Hash[k]
        BY <1>1, <3>1 DEF HashInsert, Vacant, InHash
      <4>3. hash_table'[Hash[l]] = hash_table[Hash[l]]
        BY <2>1, <4>2 DEF Bucket
      <4>4. InHash(l)'
        BY <2>4, <3>1, <4>1
      <4> QED
        BY <3>1, <4>1, <4>3, <4>4 DEF Lookup
    <3> QED
      BY <3>1
  <2>6. ASSUME NEW l \in Key, Hit(l), ~ InHash(l)
        PROVE  l # k /\ Lookup(l)' = Lookup(l)
    <3>1. l # k
      BY <2>6
    <3>2. ~ InHash(l)' /\ Match(l)' = Match(l) /\ Match(l) # {}
      BY <2>3, <2>4, <2>6, <3>1 DEF Hit
    <3>3. Address(l)' = Address(l)
      BY <3>2 DEF Address
    <3>4. value' = value
      BY <1>1 DEF HashInsert, Vacant
    <3> QED
      BY <2>6, <3>1, <3>2, <3>3, <3>4 DEF Lookup
  <2>7. Lookup(k)' = next_code % CodeSpace
    BY <2>1, <2>2 DEF Lookup
  <2>8. \A l \in Key \ {k} : Hit(l)' = Hit(l)
    BY <2>3, <2>4 DEF Hit
  <2> QED
    BY <2>2, <2>5, <2>6, <2>7, <2>8 DEF Hit
<1>2. CASE AssocInsert(k)
  <2>1. /\ fill < ShiftBits /\ Match(k)' = {fill}
        /\ \A l \in Key \ {k} : Match(l)' = Match(l)
        /\ \A l \in Key : fill \notin Match(l)
    BY <1>2, NewSlot
  <2>2. \A l \in Key : InHash(l)' = InHash(l)
    BY <1>2 DEF AssocInsert, Vacant, SlotLeft, InHash
  <2>3. /\ value'[fill] = next_code % CodeSpace
        /\ \A s \in 0 .. Slots - 1 : s # fill => value'[s] = value[s]
    BY <1>2, SizeAssumption DEF AssocInsert, Vacant, SlotLeft, IInv, TypeOK
  <2>4. Address(k)' = fill
    <3>1. fill \in Nat
      BY SizeAssumption DEF IInv, TypeOK
    <3> QED
      BY <2>1, <3>1 DEF Address
  <2>5. Hit(k)' /\ Lookup(k)' = next_code % CodeSpace
    BY <2>1, <2>2, <2>3, <2>4 DEF Hit, Lookup
  <2>6. \A l \in Key \ {k} : Hit(l)' = Hit(l)
    BY <2>1, <2>2 DEF Hit
  <2>7. ASSUME NEW l \in Key, Hit(l) PROVE l # k /\ Lookup(l)' = Lookup(l)
    <3>1. l # k
      BY <2>7
    <3>2. CASE InHash(l)
      <4>1. InHash(l)' /\ hash_table' = hash_table
        BY <1>2, <2>2, <3>2 DEF AssocInsert, Vacant, SlotLeft
      <4> QED
        BY <3>1, <3>2, <4>1 DEF Lookup
    <3>3. CASE ~ InHash(l)
      <4>1. Match(l) # {} /\ Match(l)' = Match(l)
        BY <2>1, <2>7, <3>1, <3>3 DEF Hit
      <4>2. Address(l)' = Address(l)
        BY <4>1 DEF Address
      <4>3. Address(l) \in Match(l)
        BY <4>1, AddressType
      <4>4. Address(l) \in 0 .. Slots - 1 /\ Address(l) # fill
        BY <2>1, <4>3, MatchInUse DEF IInv
      <4>5. value'[Address(l)] = value[Address(l)]
        BY <2>3, <4>4
      <4> QED
        BY <2>2, <3>1, <3>3, <4>1, <4>2, <4>5 DEF Lookup
    <3> QED
      BY <3>2, <3>3, <3>1
  <2> QED
    BY <2>5, <2>6, <2>7
<1> QED
  BY <1>1, <1>2

\* A step that does not insert leaves every lookup as it is.
LEMMA NoInsertEffect ==
  ASSUME UNCHANGED <<hash_table, key_mem, value>>, NEW l \in Key
  PROVE  Hit(l)' = Hit(l) /\ Lookup(l)' = Lookup(l) /\ Match(l)' = Match(l)
BY DEF Hit, Lookup, InHash, Match, Address

\* The steps of the dictionary, as its caller sees them.
LEMMA StepCases ==
  ASSUME [Next]_vars
  PROVE  \/ /\ UNCHANGED <<hash_table, key_mem, value, next_code>>
         \/ \E k \in Key : /\ ~ Hit(k) /\ (HashInsert(k) \/ AssocInsert(k))
                           /\ next_code' = next_code + 1
BY DEF Next, Probe, ProbeHit, ProbeMiss, GivesCode, Collide, Vacant, SlotLeft, vars

\* A key that is found keeps its code, whatever is inserted after it.
THEOREM CodesKept == Spec => KeepsCodes
<1>1. IInv /\ [Next]_vars => (Reachable' => \A k \in Key : Hit(k) => Lookup(k)' = Lookup(k))
  BY StepCases, InsertEffect, NoInsertEffect
<1> QED
  BY <1>1, Invariance, PTL DEF Spec, KeepsCodes

\* An insertion makes the probed key known, under the code the caller counts,
\* and no other key.
THEOREM ProbedLearned == Spec => LearnsProbed
<1> DEFINE Learned == Reachable' /\ next_code' # next_code =>
                        \E k \in Key : /\ ~ Hit(k)
                                       /\ Lookup(k)' = next_code % CodeSpace
                                       /\ \A l \in Key \ {k} : Hit(l)' = Hit(l)
<1>1. IInv /\ [Next]_vars => Learned
  BY StepCases, InsertEffect
<1> QED
  BY <1>1, Invariance, PTL DEF Spec, LearnsProbed

\* No two keys are found under one code.
THEOREM CodesDistinct == Spec => []DistinctCodes
<1>1. ASSUME IInv, Reachable, next_code <= CodeSpace,
             NEW k \in Key, NEW l \in Key, Hit(k), Lookup(k) = Lookup(l)
      PROVE  k = l
  <2>1. OneWord /\ OneSlot /\ BelowFill /\ CodesGiven!2 /\ TypeOK
    BY <1>1 DEF IInv, CodesGiven
  <2>2. ASSUME NEW x \in Key, ~ InHash(x), Hit(x)
        PROVE  /\ Address(x) \in Match(x) /\ Address(x) \in 0 .. fill - 1
               /\ Lookup(x) = value[Address(x)] /\ value[Address(x)] \in Code
    <3>1. Match(x) # {}
      BY <2>2 DEF Hit
    <3>2. Address(x) \in Match(x)
      BY <3>1, AddressType
    <3>3. Address(x) \in 0 .. fill - 1 /\ Address(x) \in 0 .. Slots - 1
      BY <2>1, <3>2, MatchInUse
    <3> QED
      BY <2>1, <2>2, <3>1, <3>2, <3>3 DEF Lookup, TypeOK
  <2>3. ASSUME NEW x \in Key, InHash(x)
        PROVE  /\ Hash[x] \in Bucket /\ hash_table[Hash[x]].valid
               /\ hash_table[Hash[x]].key = x
               /\ Lookup(x) = hash_table[Hash[x]].value
               /\ hash_table[Hash[x]].value \in Code
    BY <2>1, <2>3, EntryType DEF InHash, Lookup, Bucket
  <2>4. Lookup(k) \in Code
    BY <1>1, <2>2, <2>3
  <2>5. Hit(l)
    <3>1. Lookup(l) # Miss
      BY <1>1, <2>4, SizeAssumption
    <3> QED
      BY <3>1 DEF Hit, Lookup
  <2>6. CASE InHash(k) /\ InHash(l)
    BY <1>1, <2>1, <2>3, <2>6
  <2>7. CASE InHash(k) /\ ~ InHash(l)
    BY <1>1, <2>1, <2>2, <2>3, <2>5, <2>7
  <2>8. CASE ~ InHash(k) /\ InHash(l)
    BY <1>1, <2>1, <2>2, <2>3, <2>8
  <2>9. CASE ~ InHash(k) /\ ~ InHash(l)
    <3>1. Address(k) = Address(l)
      BY <1>1, <2>1, <2>2, <2>5, <2>9
    <3>2. Address(k) \in Match(k) /\ Address(k) \in Match(l)
      BY <1>1, <2>2, <2>5, <2>9, <3>1
    <3> QED
      BY <2>1, <3>2, SlotKey
  <2> QED
    BY <2>6, <2>7, <2>8, <2>9
<1>2. IInv => DistinctCodes
  BY <1>1 DEF DistinctCodes
<1> QED
  BY <1>2, Invariance, PTL

\* The compressor gives up only when every slot is taken, over an unknown key whose
\* bucket is taken too, and after more codes than there are slots.
THEOREM RefusalJustified == Spec => []RefusesOnlyWhenFull
<1>1. Init => RefusesOnlyWhenFull
  BY DEF Init, RefusesOnlyWhenFull
<1>2. IInv /\ RefusesOnlyWhenFull /\ [Next]_vars => RefusesOnlyWhenFull'
  <2> SUFFICES ASSUME IInv, RefusesOnlyWhenFull, [Next]_vars PROVE RefusesOnlyWhenFull'
    OBVIOUS
  <2>1. ASSUME NEW k \in Key, ~ Hit(k), Collide(k) PROVE RefusesOnlyWhenFull'
    <3>1. Hash[k] \in Bucket /\ hash_table[Hash[k]].valid /\ fill = Slots
      BY <2>1, SizeAssumption DEF Collide, Vacant, SlotLeft, Bucket, IInv, TypeOK
    <3>2. fill < next_code - FirstCode
      BY <3>1 DEF IInv, Counted
    <3>3. fill' = Slots /\ next_code' - FirstCode > Slots
      BY <2>1, <3>1, <3>2 DEF Collide, Vacant, SlotLeft
    <3>4. ~ Hit(k)' /\ ~ Vacant(k)'
      <4>1. UNCHANGED <<hash_table, key_mem, value>>
        BY <2>1 DEF Collide, Vacant, SlotLeft
      <4> QED
        BY <2>1, <3>1, <4>1, NoInsertEffect DEF Vacant
    <3> QED
      BY <3>3, <3>4 DEF RefusesOnlyWhenFull
  <2>2. CASE UNCHANGED vars
    <3>1. \A k \in Key : Hit(k)' = Hit(k) /\ Vacant(k)' = Vacant(k)
      BY <2>2, NoInsertEffect DEF vars, Vacant
    <3> QED
      BY <2>2, <3>1 DEF RefusesOnlyWhenFull, vars
  <2>3. CASE ~ collision /\ UNCHANGED collision
    BY <2>3 DEF RefusesOnlyWhenFull
  <2> QED
    BY <2>1, <2>2, <2>3 DEF Next, Probe, ProbeHit, ProbeMiss, GivesCode, HashInsert,
                                Vacant, AssocInsert, SlotLeft, vars
<1> QED
  BY <1>1, <1>2, Invariance, PTL DEF Spec

-----------------------------------------------------------------------------
\* The keys found, with their codes: the refinement mapping of ImplementsMap.
Found == [k \in {l \in Key : Hit(l)} |-> Lookup(k)]

\* An insertion adds its key, under the code counted for it, and changes no other.
LEMMA FoundAfterInsert ==
  ASSUME IInv, Reachable', NEW k \in Key, ~ Hit(k), HashInsert(k) \/ AssocInsert(k)
  PROVE  Found' = [x \in DOMAIN Found \cup {k} |->
                     IF x = k THEN next_code % CodeSpace ELSE Found[x]]
<1>1. {l \in Key : Hit(l)}' = {l \in Key : Hit(l)} \cup {k}
  BY InsertEffect
<1>2. \A x \in {l \in Key : Hit(l)} \cup {k} :
        Lookup(x)' = IF x = k THEN next_code % CodeSpace ELSE Found[x]
  BY InsertEffect DEF Found
<1>3. DOMAIN Found = {l \in Key : Hit(l)}
  BY DEF Found
<1>4. Found' = [x \in {l \in Key : Hit(l)}' |-> Lookup(x)']
  BY DEF Found
<1> QED
  BY <1>1, <1>2, <1>3, <1>4

\* What is found is a function of the tables alone.
LEMMA FoundUnchanged ==
  ASSUME UNCHANGED <<hash_table, key_mem, value>>
  PROVE  Found' = Found
<1>1. \A l \in Key : Hit(l)' = Hit(l) /\ Lookup(l)' = Lookup(l)
  BY NoInsertEffect
<1>2. {l \in Key : Hit(l)}' = {l \in Key : Hit(l)}
  BY <1>1
<1>3. Found' = [x \in {l \in Key : Hit(l)}' |-> Lookup(x)']
  BY DEF Found
<1> QED
  BY <1>1, <1>2, <1>3 DEF Found

\* An insertion makes no key unknown, whatever bits it sets, past the shift too.
LEMMA HitsStay ==
  ASSUME TypeOK, NEW k \in Key, HashInsert(k) \/ AssocInsert(k), NEW l \in Key, Hit(l)
  PROVE  Hit(l)'
<1>1. Hash[k] \in Bucket /\ Hash[l] \in Bucket
  BY DEF Bucket
<1>2. CASE HashInsert(k)
  <2>1. InHash(l) => InHash(l)'
    BY <1>1, <1>2 DEF HashInsert, Vacant, InHash, TypeOK
  <2>2. Match(l)' = Match(l)
    BY <1>2 DEF HashInsert, Match
  <2> QED
    BY <2>1, <2>2 DEF Hit
<1>3. CASE AssocInsert(k)
  <2>1. InHash(l)' = InHash(l)
    BY <1>3 DEF AssocInsert, InHash
  <2>2. PICK bits \in Shifted :
          key_mem' = [m \in Memory |-> [key_mem[m] EXCEPT ![Field[m][k]] = @ \cup bits]]
    BY <1>3 DEF AssocInsert
  <2>3. \A m \in Memory, x \in Index : key_mem[m][x] \subseteq key_mem'[m][x]
    BY <2>2 DEF TypeOK
  <2>4. \A m \in Memory : Field[m][l] \in Index
    BY FieldType
  <2>5. Match(l) \subseteq Match(l)'
    BY <2>3, <2>4 DEF Match
  <2> QED
    BY <2>1, <2>5 DEF Hit
<1> QED
  BY <1>2, <1>3

\* A step that leaves the slots in use within the shift is a step of the map.
LEMMA StepsOfMap ==
  ASSUME IInv, Reachable', Next
  PROVE  Map!Next
<1>1. \A k \in Key : Hit(k) <=> k \in DOMAIN Found
  BY DEF Found
<1>2. \A k \in Key : Hit(k) => Lookup(k) = Found[k]
  BY DEF Found
<1>3. \A k \in Key : ~ Hit(k) => Lookup(k) = Miss
  BY DEF Hit, Lookup
<1>4. ASSUME NEW k \in Key, ~ collision, answer' = Lookup(k), ProbeHit(k)
      PROVE  Map!Next
  <2>1. Found' = Found
    BY <1>4, FoundUnchanged DEF ProbeHit
  <2>2. Map!Recall(k)
    BY <1>1, <1>2, <1>4, <2>1 DEF ProbeHit, Map!Recall, Found
  <2> QED
    BY <1>4, <2>2 DEF Map!Next
<1>5. ASSUME NEW k \in Key, ~ collision, answer' = Lookup(k), ~ Hit(k),
             HashInsert(k) \/ AssocInsert(k), next_code' = next_code + 1
      PROVE  Map!Next
  <2>1. Found' = [x \in DOMAIN Found \cup {k} |->
                    IF x = k THEN next_code % CodeSpace ELSE Found[x]]
    BY <1>5, FoundAfterInsert
  <2>2. Map!Learn(k)
    BY <1>1, <1>3, <1>5, <2>1 DEF HashInsert, Vacant, AssocInsert, SlotLeft,
                                    Map!Learn, Found
  <2> QED
    BY <1>5, <2>2 DEF Map!Next
<1>6. ASSUME NEW k \in Key, ~ collision, answer' = Lookup(k), ~ Hit(k), Collide(k)
      PROVE  Map!Next
  <2>1. Found' = Found
    BY <1>6, FoundUnchanged DEF Collide, Vacant, SlotLeft
  <2>2. fill < next_code - FirstCode
    BY <1>6 DEF Collide, Vacant, SlotLeft, IInv, Counted, Bucket
  <2>3. next_code - FirstCode >= Slots + 1
    BY <1>6, <2>2, SizeAssumption DEF Collide, Vacant, SlotLeft, IInv, TypeOK
  <2>4. Map!Refuse(k)
    BY <1>1, <1>3, <1>6, <2>1, <2>3 DEF Collide, Vacant, SlotLeft, Map!Refuse, Found
  <2> QED
    BY <1>6, <2>4 DEF Map!Next
<1> QED
  BY <1>4, <1>5, <1>6 DEF Next, Probe, ProbeMiss, GivesCode

\* A step past the shift keeps what PastShift says.
LEMMA StepsPastShift ==
  ASSUME IInv, ~ Reachable', Next
  PROVE  PastShift
<1>1. PICK k \in Key : Probe(k)
  BY DEF Next
<1>2. CASE ProbeHit(k)
  <2>1. \A l \in Key : Hit(l)' = Hit(l)
    BY <1>2, NoInsertEffect DEF ProbeHit
  <2> QED
    BY <1>1, <1>2, <2>1 DEF Probe, ProbeHit, PastShift
<1>3. CASE (HashInsert(k) \/ AssocInsert(k)) /\ GivesCode(k)
  <2>1. \A l \in Key : Hit(l) => Hit(l)'
    BY <1>3, HitsStay DEF IInv
  <2>2. collision' = collision
    BY <1>3 DEF HashInsert, AssocInsert, Vacant, SlotLeft
  <2> QED
    BY <1>1, <1>3, <2>1, <2>2 DEF Probe, GivesCode, PastShift
<1>4. CASE Collide(k)
  <2>1. \A l \in Key : Hit(l)' = Hit(l)
    BY <1>4, NoInsertEffect DEF Collide, Vacant, SlotLeft
  <2>2. fill < next_code - FirstCode
    BY <1>4 DEF Collide, Vacant, SlotLeft, IInv, Counted, Bucket
  <2>3. next_code - FirstCode > Slots
    BY <1>4, <2>2, SizeAssumption DEF Collide, Vacant, SlotLeft, IInv, TypeOK
  <2> QED
    BY <1>1, <1>4, <2>1, <2>3 DEF Probe, Collide, Vacant, SlotLeft, PastShift
<1> QED
  BY <1>1, <1>2, <1>3, <1>4 DEF Probe, ProbeMiss

\* The hash table and the associative memory together are one map that gives codes out in
\* order, never changes one, and refuses a key only when it holds more than Slots: with any
\* number of slots up to the insertion that passes the shift, and for ever when no slot is
\* past it. After it, known keys stay known, and codes are still counted one by one.
THEOREM DictImplementsMap == Spec => FollowsMap /\ (Slots <= ShiftBits => ImplementsMap)
<1>1. Init => Map!Init
  <2> SUFFICES ASSUME Init PROVE Map!Init
    OBVIOUS
  <2>1. \A k \in Key : ~ InHash(k)
    BY DEF Init, InHash, Empty, Bucket
  <2>2. \A k \in Key : Match(k) = {}
    BY FieldType DEF Init, Match, Memory
  <2>3. {k \in Key : Hit(k)} = {}
    BY <2>1, <2>2 DEF Hit
  <2> QED
    BY <2>3 DEF Init, Map!Init
<1>2. IInv /\ [Next]_vars => [Map!Next \/ PastShift]_vars
  BY StepsOfMap, StepsPastShift
<1>3. Spec => FollowsMap
  BY <1>1, <1>2, Invariance, PTL DEF Spec, FollowsMap
<1>4. ASSUME Slots <= ShiftBits PROVE Spec => ImplementsMap
  <2>1. IInv /\ IInv' /\ [Next]_vars => [Map!Next]_(Map!vars)
    <3> SUFFICES ASSUME IInv, IInv', [Next]_vars PROVE [Map!Next]_(Map!vars)
      OBVIOUS
    <3>1. Reachable'
      BY <1>4, SizeAssumption DEF IInv, TypeOK, Reachable
    <3>2. CASE UNCHANGED vars
      <4>1. Found' = Found
        BY <3>2, FoundUnchanged DEF vars
      <4> QED
        BY <3>2, <4>1 DEF vars, Map!vars, Found
    <3> QED
      BY <3>1, <3>2, StepsOfMap
  <2> QED
    BY <1>1, <2>1, Invariance, PTL DEF Spec, ImplementsMap, Map!Spec
<1> QED
  BY <1>3, <1>4
=============================================================================

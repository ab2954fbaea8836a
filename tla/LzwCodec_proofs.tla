-------------------------- MODULE LzwCodec_proofs --------------------------
(***************************************************************************)
(* The codec, proved for every chunk, alphabet, hash function and number   *)
(* of slots: what a record takes, that the codes spell the chunk, that the *)
(* decoder rebuilds the dictionary, and that it restores the chunk.        *)
(*                                                                         *)
(*  1. LoopInv: the dictionary, whose theorems are those of LzwDict_proofs,*)
(*     the count of the codes and the packed record.                       *)
(*  2. DecoderTypes: what is read are codes, what is built strings.        *)
(*  3. PositionInv: how far the decoder has read; FrameInv: it is at the   *)
(*     boundary of a code.                                                 *)
(*  4. SpellInv: codes and prefix spell the bytes read, and the nth string *)
(*     learnt is that of the nth code and the first byte of the next.      *)
(*  5. MirrorInv: the bits of a packed code are read back as the code, and *)
(*     the strings the decoder builds are those of 4.                      *)
(*                                                                         *)
(*  6. FirstInv: the first code emitted is the first byte; ShiftInv: what  *)
(*     a decoder that reads a bit too many makes of it.                    *)
(*                                                                         *)
(* 1, 2, 4, PositionInv and FirstInv hold for any two widths.  FrameInv    *)
(* and MirrorInv need SameWidth, the decoder reading codes of the width    *)
(* that is packed, and so are about the repaired constant; ShiftInv needs  *)
(* ShippedWidth and is about the constants as they are.  The theorems on   *)
(* the decoder say what holds for each.                                    *)
(***************************************************************************)
EXTENDS LzwCodec, RecursionTheorems, TLAPS

\* The dictionary's theorems, about the one of the compressor.
D == INSTANCE LzwDict_proofs WITH FirstCode <- Radix

\* Half a byte.
H == ByteBits \div 2

-----------------------------------------------------------------------------
(* Widths: a byte is two halves of H bits, a code a byte and a half.       *)

\* The three widths in terms of the half byte that they are made of.
LEMMA Widths ==
  /\ H \in Nat \ {0} /\ ByteBits = 2 * H
  /\ Half = Power(2)[H] /\ Half \in Nat /\ Half >= 2
  /\ Radix = Half * Half /\ Radix \in Nat /\ Radix >= 2 * Half
  /\ CodeSpace \in Nat /\ CodeSpace = Radix * Half /\ CodeSpace >= 2 * Radix
<1>1. H \in Nat \ {0} /\ ByteBits = H + H
  BY WidthAssumption DEF H
<1>2. Half = Power(2)[H] /\ Half \in Nat \ {0}
  BY <1>1, PowerPositive DEF Half, H
<1>3. Half >= 2
  <2>1. H - 1 \in Nat /\ (H - 1) + 1 = H
    BY <1>1
  <2>2. Power(2)[H] = 2 * Power(2)[H - 1] /\ Power(2)[H - 1] \in Nat
    BY <2>1, PowerIs
  <2> QED
    BY <1>2, <2>2
<1>4. Radix = Half * Half
  BY <1>1, <1>2, PowerSum DEF Radix
<1>5. Half * Half \in Nat /\ Half * Half >= 2 * Half
  BY <1>2, <1>3
<1>6. Radix * Half \in Nat /\ Radix * Half >= 2 * Radix
  BY <1>2, <1>3, <1>4, <1>5
<1> QED
  BY <1>1, <1>2, <1>3, <1>4, <1>5, <1>6 DEF CodeSpace

\* What most proofs need to know of the widths.
LEMMA Sizes ==
  /\ Half \in Nat /\ Radix \in Nat /\ CodeSpace \in Nat
  /\ Half >= 2 /\ Radix >= 2 * Half /\ CodeSpace >= 2 * Radix
BY Widths

\* Bytes read as chars, and the keys they make.
LEMMA CharType ==
  \A b \in Letter : /\ b \in Byte /\ Char(b) \in Int /\ Char(b) % CodeSpace \in Code
                    /\ Char(b) >= 0 => Char(b) = b
<1> SUFFICES ASSUME NEW b \in Letter
             PROVE  /\ b \in Byte /\ Char(b) \in Int /\ Char(b) % CodeSpace \in Code
                    /\ Char(b) >= 0 => Char(b) = b
  OBVIOUS
<1>1. b \in 0 .. Radix - 1 /\ Radix \in Nat /\ CodeSpace \in Nat \ {0}
  BY WidthAssumption, Sizes DEF Byte
<1>2. Char(b) \in Int /\ (Char(b) >= 0 => Char(b) = b)
  BY <1>1 DEF Char
<1>3. Char(b) % CodeSpace \in 0 .. CodeSpace - 1
  BY <1>1, <1>2
<1> QED
  BY <1>1, <1>2, <1>3 DEF Byte, Code

\* Every prefix is a code of 12 bits.
LEMMA PrefixType == Prefix \subseteq Code
<1>1. \A b \in Letter : b \in Code /\ Char(b) % CodeSpace \in Code
  BY CharType, Sizes DEF Byte, Code
<1>2. \A code \in Radix .. MaxCode : code % CodeSpace \in Code
  <2> SUFFICES ASSUME NEW code \in Radix .. MaxCode PROVE code % CodeSpace \in 0 .. CodeSpace - 1
    BY DEF Code
  <2>1. code \in Int /\ CodeSpace \in Nat \ {0}
    BY Sizes, DictAssumption
  <2> QED
    BY <2>1
<1> QED
  BY <1>1, <1>2 DEF Prefix

\* A prefix and a byte make a key, and a key is a number of 20 bits.
LEMMA KeyType ==
  /\ \A q \in Prefix, b \in Letter : KeyOf(q, Char(b)) \in Key
  /\ Key \subseteq 0 .. CodeSpace * Radix - 1
<1>1. \A q \in Prefix, b \in Letter : KeyOf(q, Char(b)) \in Key
  BY DEF Key
<1>2. CodeSpace * Radix \in Nat \ {0}
  BY Widths
<1>3. ASSUME NEW q \in Prefix, NEW b \in Letter
      PROVE  KeyOf(q, Char(b)) \in 0 .. CodeSpace * Radix - 1
  <2>1. q * Radix + Char(b) \in Int
    BY PrefixType, CharType, Widths DEF Code
  <2> QED
    BY <1>2, <2>1 DEF KeyOf
<1> QED
  BY <1>1, <1>3 DEF Key

\* A key is its prefix and its byte.
LEMMA KeyParts ==
  ASSUME NEW q \in Code, NEW c \in Byte
  PROVE  KeyOf(q, c) \div Radix = q /\ KeyOf(q, c) % Radix = c
<1>1. q \in Nat /\ q <= CodeSpace - 1 /\ c \in 0 .. Radix - 1 /\ Radix \in Nat \ {0}
      /\ CodeSpace \in Nat
  BY Sizes DEF Code, Byte
<1>2. q * Radix <= (CodeSpace - 1) * Radix
  BY <1>1
<1>3. (CodeSpace - 1) * Radix = CodeSpace * Radix - Radix
  BY <1>1
<1>4. q * Radix \in Nat /\ CodeSpace * Radix \in Nat
  BY <1>1
<1>5. q * Radix + c \in 0 .. CodeSpace * Radix - 1
  BY <1>1, <1>2, <1>3, <1>4
<1>6. KeyOf(q, c) = q * Radix + c
  <2> DEFINE a == q * Radix + c
             n == CodeSpace * Radix
  <2>1. a \in 0 .. n - 1 /\ n \in Nat
    BY <1>4, <1>5
  <2> HIDE DEF a, n
  <2>2. a % n = a
    BY <2>1
  <2> QED
    BY <2>2 DEF KeyOf, a, n
<1>7. (q * Radix + c) \div Radix = q /\ (q * Radix + c) % Radix = c
  <2>1. q \in Int /\ Radix \in Nat \ {0} /\ c \in 0 .. Radix - 1
    BY <1>1
  <2> QED
    BY <2>1, Division, Zenon
<1> QED
  BY <1>6, <1>7

-----------------------------------------------------------------------------
(* The dictionary of the compressor is one the dictionary's theorems are   *)
(* about.                                                                  *)

\* The sizes of the compressor's dictionary are ones LzwDict assumes.
LEMMA DictSizes == D!SizeAssumption
BY Sizes, DictAssumption DEF D!SizeAssumption, D!Code, Code

\* A number below the cube of another is told by its three digits to that base.
LEMMA ThreeDigits ==
  ASSUME NEW w \in Nat \ {0}, NEW k \in Nat, NEW l \in Nat,
         k < w * (w * w), l < w * (w * w),
         k % w = l % w, (k \div w) % w = (l \div w) % w,
         ((k \div w) \div w) % w = ((l \div w) \div w) % w
  PROVE  k = l
<1>1. ASSUME NEW x \in Nat, NEW n \in Nat, x < w * n
      PROVE  /\ x \div w \in Nat /\ x \div w < n
             /\ x = w * (x \div w) + (x % w) /\ x % w \in 0 .. w - 1
  <2>1. x = w * (x \div w) + (x % w) /\ x % w \in 0 .. w - 1 /\ x \div w \in Nat
    BY <1>1
  <2>2. CASE x \div w >= n
    <3>1. w * (x \div w) >= w * n
      BY <2>1, <2>2
    <3> QED
      BY <1>1, <2>1, <3>1
  <2> QED
    BY <2>1, <2>2
<1>2. w * w \in Nat
  OBVIOUS
<1> DEFINE k1 == k \div w
           l1 == l \div w
           k2 == k1 \div w
           l2 == l1 \div w
<1>3. k1 \in Nat /\ l1 \in Nat /\ k1 < w * w /\ l1 < w * w
  BY <1>1, <1>2
<1>4. k2 \in Nat /\ l2 \in Nat /\ k2 < w /\ l2 < w
  BY <1>1, <1>3
<1>5. k2 % w = l2 % w /\ k1 % w = l1 % w /\ k % w = l % w
  OBVIOUS
<1>6. k1 = w * k2 + (k1 % w) /\ l1 = w * l2 + (l1 % w)
  BY <1>1, <1>3
<1>7. k = w * k1 + (k % w) /\ l = w * l1 + (l % w)
  BY <1>1, <1>2
<1> HIDE DEF k1, l1, k2, l2
<1>8. k2 = l2
  BY <1>4, <1>5
<1>9. k1 = l1
  BY <1>5, <1>6, <1>8
<1> QED
  BY <1>5, <1>7, <1>9

\* Its three address fields tell the keys apart, as LzwDict assumes.
LEMMA DictFields == D!FieldAssumption
<1> DEFINE word == Power(2)[FieldBits]
<1>1. word \in Nat \ {0} /\ CodeSpace * Radix <= word * (word * word)
  BY DictAssumption, PowerPositive
<1>2. D!Memory = DOMAIN Field
  BY DEF D!Memory, Field
<1>3. Field \in [D!Memory -> [Key -> Index]]
  <2>1. \A m \in D!Memory : Field[m] = [k \in Key |-> Field[m][k]]
    <3>1. /\ Field["lower"] = [k \in Key |-> k % word]
          /\ Field["middle"] = [k \in Key |-> (k \div word) % word]
          /\ Field["upper"] = [k \in Key |-> ((k \div word) \div word) % word]
      BY DEF Field
    <3> HIDE DEF word
    <3> QED
      BY <3>1 DEF D!Memory
  <2>2. \A m \in D!Memory, k \in Key : Field[m][k] \in Index
    BY <1>2 DEF Index
  <2>3. Field = [m \in D!Memory |-> Field[m]]
    BY <1>2 DEF Field
  <2> QED
    BY <2>1, <2>2, <2>3
<1>4. ASSUME NEW k \in Key, NEW l \in Key, \A m \in D!Memory : Field[m][k] = Field[m][l]
      PROVE  k = l
  <2>1. /\ k % word = l % word /\ (k \div word) % word = (l \div word) % word
        /\ ((k \div word) \div word) % word = ((l \div word) \div word) % word
    <3>1. /\ Field["lower"][k] = k % word /\ Field["lower"][l] = l % word
          /\ Field["middle"][k] = (k \div word) % word
          /\ Field["middle"][l] = (l \div word) % word
          /\ Field["upper"][k] = ((k \div word) \div word) % word
          /\ Field["upper"][l] = ((l \div word) \div word) % word
      BY DEF Field
    <3> HIDE DEF word
    <3> QED
      BY <1>4, <3>1 DEF D!Memory
  <2>2. CodeSpace * Radix \in Nat
    BY Sizes
  <2>3. word * (word * word) \in Nat
    BY <1>1
  <2>4. k \in Nat /\ l \in Nat /\ k < CodeSpace * Radix /\ l < CodeSpace * Radix
    BY <2>2, KeyType
  <2> HIDE DEF word
  <2>5. k < word * (word * word) /\ l < word * (word * word)
    BY <1>1, <2>2, <2>3, <2>4
  <2> QED
    BY <1>1, <2>1, <2>4, <2>5, ThreeDigits
<1> QED
  BY <1>3, <1>4 DEF D!FieldAssumption

\* It starts in a state of the dictionary's inductive invariant.
LEMMA DictInit == Dict!Init => D!IInv
<1>1. Dict!Init => D!Init
  BY DEF Dict!Init, D!Init, Dict!Bucket, D!Bucket, Dict!Empty, D!Empty, Dict!Memory, D!Memory
<1> QED
  BY <1>1, D!InitIInv, DictSizes, DictFields

\* A probe of the compressor is a probe the dictionary's theorems are about.
LEMMA DictProbe == \A k \in Key : Dict!Probe(k) => D!Probe(k)
BY DEF Dict!Probe, D!Probe, Dict!ProbeHit, D!ProbeHit, Dict!ProbeMiss, D!ProbeMiss,
       Dict!Hit, D!Hit, Dict!InHash, D!InHash, Dict!Match, D!Match, Dict!Bit, D!Bit,
       Dict!Memory, D!Memory, Dict!Lookup, D!Lookup, Dict!Address, D!Address,
       Dict!HashInsert, D!HashInsert, Dict!Vacant, D!Vacant, Dict!AssocInsert,
       D!AssocInsert, Dict!SlotLeft, D!SlotLeft, Dict!Shifted, D!Shifted,
       Dict!Collide, D!Collide, Dict!GivesCode, D!GivesCode

\* A probe preserves the dictionary's inductive invariant.
LEMMA DictStep == ASSUME D!IInv, NEW k \in Key, D!Probe(k) PROVE D!IInv'
<1>1. [D!Next]_(D!vars)
  BY DEF D!Next
<1> QED
  BY <1>1, D!StepIInv, DictSizes, DictFields

\* A key that is found has a code.
LEMMA HitHasCode ==
  ASSUME D!IInv, NEW k \in Key
  PROVE  /\ D!Hit(k) => D!Lookup(k) \in Code
         /\ ~ D!Hit(k) => D!Lookup(k) = Miss
<1>0. D!TypeOK /\ D!BelowFill
  BY DEF D!IInv
<1>1. CASE D!InHash(k)
  <2>1. Hash[k] \in D!Bucket /\ hash_table[Hash[k]].valid
    BY <1>1 DEF D!Bucket, D!InHash
  <2>2. hash_table[Hash[k]].value \in D!Code
    BY <1>0, <2>1, D!EntryType, DictSizes, DictFields
  <2> QED
    BY <1>1, <2>2 DEF D!Hit, D!Lookup, D!Code, Code
<1>2. CASE ~ D!InHash(k) /\ D!Match(k) # {}
  <2>1. D!Address(k) \in D!Match(k)
    BY <1>2, D!AddressType, DictSizes, DictFields
  <2>2. D!Address(k) \in 0 .. Slots - 1
    BY <1>0, <2>1, D!MatchInUse, DictSizes, DictFields
  <2>3. value[D!Address(k)] \in D!Code
    BY <1>0, <2>2 DEF D!TypeOK
  <2> QED
    BY <1>2, <2>3 DEF D!Hit, D!Lookup, D!Code, Code
<1>3. CASE ~ D!Hit(k)
  BY <1>3 DEF D!Hit, D!Lookup
<1> QED
  BY <1>1, <1>2, <1>3 DEF D!Hit

\* What a probe may do: find the key, learn it under the next code, or refuse it.
Found(k)   == /\ D!Hit(k) /\ answer' = D!Lookup(k) /\ answer' # Miss
              /\ UNCHANGED <<hash_table, key_mem, value, fill, next_code, collision>>
Learnt1(k) == /\ ~ D!Hit(k) /\ answer' = Miss
              /\ D!HashInsert(k) \/ D!AssocInsert(k)
              /\ next_code' = next_code + 1 /\ collision' = collision
Refused(k) == /\ answer' = Miss /\ collision'
              /\ UNCHANGED <<hash_table, key_mem, value, fill, next_code>>

\* Every probe is one of the three.
LEMMA ProbeOutcome ==
  ASSUME D!IInv, NEW k \in Key, D!Probe(k)
  PROVE  Found(k) \/ Learnt1(k) \/ Refused(k)
<1>1. answer' = D!Lookup(k)
  BY DEF D!Probe
<1>2. CASE D!ProbeHit(k)
  <2>1. D!Lookup(k) \in Code /\ D!Hit(k)
    BY <1>2, HitHasCode DEF D!ProbeHit
  <2> QED
    BY <1>1, <1>2, <2>1, DictAssumption DEF D!ProbeHit, Found
<1>3. CASE D!ProbeMiss(k)
  <2>1. D!Lookup(k) = Miss /\ ~ D!Hit(k)
    BY <1>3, HitHasCode DEF D!ProbeMiss
  <2>2. CASE (D!HashInsert(k) \/ D!AssocInsert(k)) /\ D!GivesCode(k)
    <3>1. next_code' = next_code + 1 /\ collision' = collision
      BY <2>2 DEF D!GivesCode, D!HashInsert, D!AssocInsert
    <3> QED
      BY <1>1, <2>1, <2>2, <3>1 DEF Learnt1
  <2>3. CASE D!Collide(k)
    BY <1>1, <2>1, <2>3 DEF D!Collide, Refused
  <2> QED
    BY <1>3, <2>2, <2>3 DEF D!ProbeMiss
<1> QED
  BY <1>2, <1>3 DEF D!Probe

\* Codes are stored that were given out, 12 bits of them.
Given(code, next) == \E n \in Radix .. next - 1 : code = n % CodeSpace

Stored == /\ \A s \in 0 .. fill - 1 : Given(value[s], next_code)
          /\ \A b \in D!Bucket : hash_table[b].valid => Given(hash_table[b].value, next_code)

\* What a lookup finds is a code that was given out.
LEMMA LookupGiven ==
  ASSUME D!IInv, Stored, NEW k \in Key, D!Hit(k)
  PROVE  Given(D!Lookup(k), next_code)
<1>0. D!TypeOK /\ D!BelowFill
  BY DEF D!IInv
<1>1. CASE D!InHash(k)
  BY <1>1 DEF D!InHash, D!Lookup, D!Bucket, Stored
<1>2. CASE ~ D!InHash(k)
  <2>0. D!Match(k) # {}
    BY <1>2 DEF D!Hit
  <2>1. D!Address(k) \in D!Match(k)
    BY <2>0, D!AddressType, DictSizes, DictFields
  <2>2. D!Address(k) \in 0 .. fill - 1
    BY <1>0, <2>1, D!MatchInUse, DictSizes, DictFields
  <2> QED
    BY <1>2, <2>0, <2>2 DEF D!Lookup, Stored
<1> QED
  BY <1>1, <1>2

\* The dictionary starts with no code given out and none stored.
LEMMA StoredInit == Dict!Init => Stored
BY DEF Dict!Init, Dict!Bucket, D!Bucket, Dict!Empty, Stored

\* A probe stores the next code, cut to 12 bits, or none.
LEMMA StoredStep ==
  ASSUME D!IInv, Stored, NEW k \in Key, D!Probe(k)
  PROVE  Stored'
<1>0. /\ next_code \in Nat /\ fill \in Nat /\ Radix \in Nat /\ Radix <= next_code
      /\ D!TypeOK
  <2>1. D!TypeOK /\ D!Counted
    BY DEF D!IInv
  <2> QED
    BY <2>1, Sizes, DictAssumption DEF D!TypeOK, D!Counted
<1>1. ASSUME next_code' = next_code PROVE \A code : Given(code, next_code) => Given(code, next_code')
  BY <1>1 DEF Given
<1>2. ASSUME next_code' = next_code + 1
      PROVE  (\A code : Given(code, next_code) => Given(code, next_code')) /\ Given(next_code % CodeSpace, next_code')
  <2>1. \A n \in Radix .. next_code - 1 : n \in Radix .. (next_code + 1) - 1
    BY <1>0
  <2>2. next_code \in Radix .. (next_code + 1) - 1
    BY <1>0
  <2> QED
    BY <1>2, <2>1, <2>2 DEF Given
<1>3. CASE Found(k) \/ Refused(k)
  BY <1>1, <1>3 DEF Found, Refused, Stored
<1>4. CASE Learnt1(k)
  <2>1. \A code : Given(code, next_code) => Given(code, next_code')
    BY <1>2, <1>4 DEF Learnt1
  <2>2. Given(next_code % CodeSpace, next_code')
    BY <1>2, <1>4 DEF Learnt1
  <2>3. CASE D!HashInsert(k)
    <3>1. \A b \in D!Bucket : b # Hash[k] => hash_table'[b] = hash_table[b]
      BY <1>0, <2>3 DEF D!HashInsert, D!TypeOK
    <3>2. hash_table'[Hash[k]].value = next_code % CodeSpace
      BY <1>0, <2>3 DEF D!HashInsert, D!TypeOK, D!Bucket
    <3> QED
      BY <2>1, <2>2, <2>3, <3>1, <3>2 DEF D!HashInsert, Stored
  <2>4. CASE D!AssocInsert(k)
    <3>1. fill' = fill + 1 /\ hash_table' = hash_table /\ fill < Slots
      BY <2>4 DEF D!AssocInsert, D!SlotLeft
    <3>2. value'[fill] = next_code % CodeSpace /\ \A s \in 0 .. fill - 1 : value'[s] = value[s]
      BY <1>0, <2>4, <3>1, DictAssumption DEF D!AssocInsert, D!TypeOK
    <3>3. \A s \in 0 .. (fill + 1) - 1 : s \in 0 .. fill - 1 \/ s = fill
      BY <1>0
    <3> QED
      BY <2>1, <2>2, <3>1, <3>2, <3>3 DEF Stored
  <2> QED
    BY <1>4, <2>3, <2>4 DEF Learnt1
<1> QED
  BY <1>3, <1>4, ProbeOutcome

-----------------------------------------------------------------------------
(* The compression loop.                                                   *)

\* The bytes a loop reads are letters of the chunk, then the one stored after it.
LEMMA ChunkType ==
  ASSUME chunk \in Chunks, tail \in Letter
  PROVE  /\ chunk \in Seq(Letter) /\ Len(chunk) \in Nat \ {0}
         /\ \A n \in 1 .. Len(chunk) : chunk[n] \in Letter /\ Append(chunk, tail)[n] = chunk[n]
         /\ Append(chunk, tail)[Len(chunk) + 1] = tail
         /\ Radix + Len(chunk) <= MaxCode + 1
<1>1. chunk \in Seq(Letter) /\ chunk # << >> /\ Radix + Len(chunk) <= MaxCode + 1
  BY WidthAssumption, DictAssumption
<1>2. Len(chunk) \in Nat /\ Len(chunk) # 0
  BY <1>1
<1> QED
  BY <1>1, <1>2

\* One code for every string learnt, and one more once the last lookup hit.
Count == next_code - Radix + (IF i = Len(chunk) /\ answer # Miss THEN 1 ELSE 0)

\* The dictionary is sound, the pending prefix makes keys, and the codes emitted
\* are counted by the strings learnt; a record is the packed codes.
LoopInv ==
  /\ D!IInv /\ Stored
  /\ chunk \in Chunks /\ tail \in Letter
  /\ i \in 0 .. Len(chunk)
  /\ prefix_code \in Prefix
  /\ out_code \in Seq(Code)
  /\ next_code - Radix <= i
  /\ pc # "returned" => /\ Len(out_code) = Count /\ Len(out_code) <= i
                        /\ i = Len(chunk) => Len(out_code) >= 1
  /\ pc \in {"compress", "returned"} => record = << >>
  /\ pc \notin {"compress", "returned"} => record = Packed(out_code) /\ i = Len(chunk)

\* The loop starts in its invariant: the first byte is the prefix.
LEMMA LoopInit == Init => LoopInv
<1> SUFFICES ASSUME Init PROVE LoopInv
  OBVIOUS
<1>1. chunk \in Chunks /\ tail \in Letter /\ Dict!Init
  BY DEF Init
<1>2. D!IInv /\ Stored
  BY <1>1, DictInit, StoredInit
<1>3. next_code = Radix /\ answer = Miss
  BY <1>1 DEF Dict!Init
<1>4. chunk[1] \in Prefix /\ Len(chunk) \in Nat \ {0}
  BY <1>1, ChunkType DEF Prefix
<1>5. Radix \in Nat
  BY Sizes
<1>6. out_code = << >> /\ i = 0 /\ prefix_code = chunk[1] /\ record = << >> /\ pc = "compress"
  BY DEF Init
<1> QED
  BY <1>1, <1>2, <1>3, <1>4, <1>5, <1>6 DEF LoopInv, Count

\* An iteration probes the dictionary with a key, and keeps it sound.
LEMMA Probes ==
  ASSUME LoopInv, Iterate
  PROVE  /\ pc = "compress" /\ i \in Nat /\ i < Len(chunk) /\ Len(chunk) \in Nat
         /\ UNCHANGED <<chunk, tail, record>>
         /\ \E b \in Letter : next_char = Char(b) /\ b = Append(chunk, tail)[i + 2]
         /\ KeyOf(prefix_code, next_char) \in Key
         /\ D!Probe(KeyOf(prefix_code, next_char))
         /\ D!IInv' /\ Stored'
<1>1. /\ pc = "compress" /\ i \in Nat /\ i < Len(chunk) /\ Len(chunk) \in Nat
      /\ UNCHANGED <<chunk, tail, record>> /\ prefix_code \in Prefix
      /\ chunk \in Chunks /\ tail \in Letter
  BY ChunkType DEF LoopInv, Iterate, input
<1>2. Append(chunk, tail)[i + 2] \in Letter
  <2>1. CASE i + 2 = Len(chunk) + 1
    BY <1>1, <2>1, ChunkType
  <2>2. CASE i + 2 \in 1 .. Len(chunk)
    BY <1>1, <2>2, ChunkType
  <2> QED
    BY <1>1, <2>1, <2>2
<1>3. \E b \in Letter : next_char = Char(b) /\ b = Append(chunk, tail)[i + 2]
  BY <1>2 DEF next_char
<1>4. KeyOf(prefix_code, next_char) \in Key
  BY <1>1, <1>3, KeyType
<1>5. D!Probe(KeyOf(prefix_code, next_char))
  BY <1>4, DictProbe DEF Iterate
<1>6. D!IInv' /\ Stored'
  BY <1>4, <1>5, DictStep, StoredStep DEF LoopInv
<1> QED
  BY <1>1, <1>3, <1>4, <1>5, <1>6

\* A code given out to a chunk makes a prefix.
LEMMA GivenPrefix ==
  ASSUME NEW code, Given(code, next_code), next_code \in Nat, next_code <= MaxCode + 1
  PROVE  code \in Prefix
<1>1. PICK n \in Radix .. next_code - 1 : code = n % CodeSpace
  BY DEF Given
<1>2. n \in Radix .. MaxCode
  BY <1>1, Sizes, DictAssumption
<1> QED
  BY <1>1, <1>2 DEF Prefix

\* A hit preserves the loop's invariant: the code found is a prefix.
LEMMA ExtendLoop == ASSUME LoopInv, Extend PROVE LoopInv'
<1> DEFINE k == KeyOf(prefix_code, next_char)
<1>1. /\ pc = "compress" /\ i \in Nat /\ i < Len(chunk) /\ Len(chunk) \in Nat
      /\ UNCHANGED <<chunk, tail, record>>
      /\ k \in Key /\ D!Probe(k) /\ D!IInv' /\ Stored'
  BY Probes DEF Extend
<1>2. answer' # Miss /\ pc' = pc /\ i' = i + 1 /\ prefix_code' = answer'
  BY DEF Extend
<1> HIDE DEF k
<1>3. Found(k)
  BY <1>1, <1>2, ProbeOutcome DEF LoopInv, Learnt1, Refused
<1>4. /\ answer' \in Code /\ next_code' = next_code
      /\ answer' \in Prefix
  <2>1. answer' \in Code /\ Given(answer', next_code) /\ next_code' = next_code
    BY <1>1, <1>3, HitHasCode, LookupGiven DEF Found, LoopInv
  <2>2. next_code \in Nat /\ next_code <= MaxCode + 1
    <3>1. next_code \in Nat /\ next_code - Radix <= i
      BY DEF LoopInv, D!IInv, D!TypeOK
    <3> QED
      BY <1>1, <3>1, ChunkType, Sizes, DictAssumption DEF LoopInv
  <2> QED
    BY <2>1, <2>2, GivenPrefix
<1>5. /\ next_code \in Nat /\ Radix \in Nat /\ out_code \in Seq(Code)
      /\ Len(out_code) = next_code - Radix /\ Len(out_code) <= i /\ next_code - Radix <= i
  <2>1. next_code \in Nat /\ Radix \in Nat
    BY Sizes DEF LoopInv, D!IInv, D!TypeOK
  <2> QED
    BY <1>1, <2>1 DEF LoopInv, Count
<1>6. CASE i + 1 = Len(chunk)
  <2>1. out_code' = Append(out_code, answer')
    BY <1>6 DEF Extend, AtLast
  <2>2. out_code' \in Seq(Code) /\ Len(out_code') = Len(out_code) + 1 /\ Len(out_code) \in Nat
    BY <1>4, <1>5, <2>1
  <2> QED
    BY <1>1, <1>2, <1>4, <1>5, <1>6, <2>2 DEF LoopInv, Count
<1>7. CASE i + 1 # Len(chunk)
  <2>1. out_code' = out_code
    BY <1>7 DEF Extend, AtLast
  <2> QED
    BY <1>1, <1>2, <1>4, <1>5, <1>7, <2>1 DEF LoopInv, Count
<1> QED
  BY <1>6, <1>7

\* A miss preserves it: one code and one string more.
LEMMA EmitLoop == ASSUME LoopInv, Emit PROVE LoopInv'
<1> DEFINE k == KeyOf(prefix_code, next_char)
<1>1. /\ pc = "compress" /\ i \in Nat /\ i < Len(chunk) /\ Len(chunk) \in Nat
      /\ UNCHANGED <<chunk, tail, record>>
      /\ k \in Key /\ D!Probe(k) /\ D!IInv' /\ Stored'
  BY Probes DEF Emit
<1>2. /\ answer' = Miss /\ ~ collision' /\ pc' = pc /\ i' = i + 1
      /\ out_code' = Append(out_code, prefix_code) /\ prefix_code' = next_char % CodeSpace
  BY DEF Emit, Emitted
<1>3. prefix_code' \in Prefix
  BY <1>2, Probes DEF Emit, Prefix
<1> HIDE DEF k
<1>4. next_code' = next_code + 1
  BY <1>1, <1>2, ProbeOutcome DEF LoopInv, Learnt1, Refused, Found
<1>5. /\ next_code \in Nat /\ Radix \in Nat
      /\ out_code' \in Seq(Code) /\ Len(out_code') = Len(out_code) + 1 /\ Len(out_code) \in Nat
  BY <1>2, Sizes, PrefixType DEF LoopInv, D!IInv, D!TypeOK
<1> QED
  BY <1>1, <1>2, <1>3, <1>4, <1>5 DEF LoopInv, Count

\* A refused key preserves it: nothing is claimed after an early return.
LEMMA ReturnLoop == ASSUME LoopInv, Return PROVE LoopInv'
<1> DEFINE k == KeyOf(prefix_code, next_char)
<1>1. /\ pc = "compress" /\ i \in Nat /\ i < Len(chunk)
      /\ UNCHANGED <<chunk, tail, record>>
      /\ k \in Key /\ D!Probe(k) /\ D!IInv' /\ Stored'
  BY Probes DEF Return
<1>2. /\ collision' /\ pc' = "returned" /\ UNCHANGED <<i, prefix_code>>
      /\ out_code' = Append(out_code, prefix_code)
  BY DEF Return, Emitted
<1> HIDE DEF k
<1>3. next_code' = next_code
  <2>1. ~ collision
    BY <1>1 DEF D!Probe
  <2> QED
    BY <1>1, <1>2, <2>1, ProbeOutcome DEF LoopInv, Learnt1, Refused, Found
<1>4. out_code' \in Seq(Code)
  BY <1>2, PrefixType DEF LoopInv
<1> QED
  BY <1>1, <1>2, <1>3, <1>4 DEF LoopInv

-----------------------------------------------------------------------------
(* The record.                                                             *)

\* The bytes of a packed sequence of codes: how many, and that they are bytes.
PackedCode(codes, n) == IF n <= Len(codes) THEN codes[n] ELSE 0
PackedByte(codes, n) ==
  LET a == PackedCode(codes, 2 * ((n - 1) \div 3) + 1)
      b == PackedCode(codes, 2 * ((n - 1) \div 3) + 2)
  IN CASE n % 3 = 1 -> a \div Half
       [] n % 3 = 2 -> (a % Half) * Half + b \div Radix
       [] n % 3 = 0 -> b % Radix

\* Packing, byte by byte.
LEMMA PackedIs ==
  \A codes : Packed(codes) = [n \in 1 .. PackedSize(codes) |-> PackedByte(codes, n)]
BY DEF Packed, PackedByte, PackedCode, PackThird

\* A number below a product, divided by one factor, is below the other.
LEMMA Quotient ==
  ASSUME NEW x \in Nat, NEW m \in Nat \ {0}, NEW n \in Nat, x < m * n
  PROVE  x \div m \in Nat /\ x \div m < n
<1>1. x = m * (x \div m) + (x % m) /\ x % m \in 0 .. m - 1 /\ x \div m \in Nat
  OBVIOUS
<1>2. CASE x \div m >= n
  <2>1. m * (x \div m) >= m * n
    BY <1>1, <1>2
  <2> QED
    BY <1>1, <2>1
<1> QED
  BY <1>1, <1>2

\* Packing codes of 12 bits makes bytes.
LEMMA PackedByteType ==
  ASSUME NEW codes \in Seq(Code), NEW n \in Nat \ {0}
  PROVE  PackedByte(codes, n) \in Byte
<1> DEFINE a == PackedCode(codes, 2 * ((n - 1) \div 3) + 1)
           b == PackedCode(codes, 2 * ((n - 1) \div 3) + 2)
<1>1. ASSUME NEW m \in Nat \ {0} PROVE PackedCode(codes, m) \in Code
  BY <1>1, Sizes DEF PackedCode, Code
<1>2. a \in Code /\ b \in Code
  <2>1. 2 * ((n - 1) \div 3) + 1 \in Nat \ {0} /\ 2 * ((n - 1) \div 3) + 2 \in Nat \ {0}
    OBVIOUS
  <2> QED
    BY <1>1, <2>1
<1>3. PackedByte(codes, n) = CASE n % 3 = 1 -> a \div Half
                               [] n % 3 = 2 -> (a % Half) * Half + b \div Radix
                               [] n % 3 = 0 -> b % Radix
  BY DEF PackedByte
<1>4. n % 3 \in {0, 1, 2}
  OBVIOUS
<1> HIDE DEF a, b
<1>5. a \in Nat /\ b \in Nat /\ a < CodeSpace /\ b < CodeSpace
  BY <1>2, Sizes DEF Code
<1>6. a \div Half \in Nat /\ a \div Half < Radix
  <2>1. Half \in Nat \ {0} /\ Radix \in Nat
    BY Sizes
  <2>2. CodeSpace = Half * Radix
    BY <2>1, Widths
  <2> QED
    BY <1>5, <2>1, <2>2, Quotient
<1>7. b \div Radix \in Nat /\ b \div Radix < Half
  <2>1. Half \in Nat /\ Radix \in Nat \ {0}
    BY Sizes
  <2>2. CodeSpace = Radix * Half
    BY Widths
  <2> QED
    BY <1>5, <2>1, <2>2, Quotient
<1>8. (a % Half) * Half + b \div Radix \in 0 .. Radix - 1
  <2>1. a % Half \in 0 .. Half - 1 /\ Half \in Nat
    BY <1>5, Sizes
  <2>2. (a % Half) * Half \in Nat /\ (a % Half) * Half <= (Half - 1) * Half
    BY <2>1
  <2>3. (Half - 1) * Half = Half * Half - Half
    BY <2>1
  <2>4. Radix = Half * Half /\ Radix \in Nat
    BY Widths
  <2> QED
    BY <1>7, <2>1, <2>2, <2>3, <2>4
<1>9. b % Radix \in 0 .. Radix - 1
  BY <1>5, Sizes
<1> QED
  BY <1>3, <1>4, <1>6, <1>8, <1>9, Sizes DEF Byte

\* A packed sequence of codes: its length, three bytes for two codes, and its bytes.
LEMMA PackedType ==
  ASSUME NEW codes \in Seq(Code)
  PROVE  /\ Packed(codes) \in Seq(Byte)
         /\ Len(Packed(codes)) = (3 * Len(codes) + 1) \div 2
         /\ \A n \in 1 .. Len(Packed(codes)) : Packed(codes)[n] = PackedByte(codes, n)
<1> DEFINE size == PackedSize(codes)
<1>1. size \in Nat /\ size = (3 * Len(codes) + 1) \div 2
  BY DEF PackedSize
<1> HIDE DEF size
<1>2. [n \in 1 .. size |-> PackedByte(codes, n)] \in [1 .. size -> Byte]
  BY <1>1, PackedByteType
<1>3. Packed(codes) = [n \in 1 .. size |-> PackedByte(codes, n)]
  BY PackedIs DEF size
<1>4. Packed(codes) \in Seq(Byte) /\ Len(Packed(codes)) = size
  BY <1>1, <1>2, <1>3
<1> QED
  BY <1>1, <1>3, <1>4

\* Packing preserves the loop's invariant.
LEMMA PackLoop == ASSUME LoopInv, Pack PROVE LoopInv'
<1>1. /\ pc = "compress" /\ pc' = "packed" /\ i = Len(chunk) /\ record' = Packed(out_code)
      /\ UNCHANGED <<chunk, tail, hash_table, key_mem, value, fill, next_code, answer,
                     collision, i, prefix_code, out_code>>
  BY DEF Pack, input, dict, loop
<1>2. D!IInv' /\ Stored'
  <2>1. UNCHANGED D!vars
    BY <1>1 DEF D!vars
  <2>2. D!IInv'
    BY <2>1, D!StepIInv, DictSizes, DictFields DEF LoopInv
  <2> QED
    BY <1>1, <2>2 DEF LoopInv, Stored
<1> QED
  BY <1>1, <1>2 DEF LoopInv, Count, Packed, PackedSize, PackThird

\* The decoder touches nothing the loop's invariant speaks of.
LEMMA DecodeLoop ==
  ASSUME LoopInv, Decompress \/ UNCHANGED vars
  PROVE  LoopInv'
<1>1. /\ UNCHANGED <<chunk, tail, hash_table, key_mem, value, fill, next_code, answer,
                     collision, i, prefix_code, out_code, record>>
      /\ \/ pc' = pc
         \/ pc \notin {"compress", "returned"} /\ pc' \notin {"compress", "returned"}
  <2>1. CASE UNCHANGED vars
    BY <2>1 DEF vars, input, dict, loop
  <2>2. CASE DecodeFirst
    BY <2>2 DEF DecodeFirst, input, dict, loop
  <2>3. CASE DecodeNext
    BY <2>3 DEF DecodeNext, input, dict, loop
  <2>4. CASE DecodeUndefined
    BY <2>4 DEF DecodeUndefined, input, dict, loop
  <2>5. CASE DecodeEnd
    BY <2>5 DEF DecodeEnd, input, dict, loop
  <2> QED
    BY <2>1, <2>2, <2>3, <2>4, <2>5 DEF Decompress
<1>2. D!IInv' /\ Stored'
  <2>1. UNCHANGED D!vars
    BY <1>1 DEF D!vars
  <2>2. D!IInv'
    BY <2>1, D!StepIInv, DictSizes, DictFields DEF LoopInv
  <2> QED
    BY <1>1, <2>2 DEF LoopInv, Stored
<1> QED
  BY <1>1, <1>2 DEF LoopInv, Count, Packed, PackedSize, PackThird

\* Every step preserves the loop's invariant.
LEMMA LoopStep == LoopInv /\ [Next]_vars => LoopInv'
BY ExtendLoop, EmitLoop, ReturnLoop, PackLoop, DecodeLoop DEF Next

\* The loop's invariant holds for every chunk, hash function and size.
THEOREM LoopInvHolds == Spec => []LoopInv
BY LoopInit, LoopStep, PTL DEF Spec

-----------------------------------------------------------------------------
(* Reading a record.                                                       *)

\* get() returns bits, past the end of the record, too.
LEMMA BitType ==
  ASSUME record \in Seq(Byte), NEW n \in Nat
  PROVE  InputBit(n) \in {0, 1}
<1> DEFINE at == n \div ByteBits
           byte == IF at < Len(record) THEN record[at + 1] ELSE Radix - 1
           y == Power(2)[ByteBits - 1 - (n % ByteBits)]
<1>1. ByteBits \in Nat \ {0}
  BY WidthAssumption
<1>2. at \in Nat /\ n % ByteBits \in 0 .. ByteBits - 1
  BY <1>1
<1>3. ByteBits - 1 - (n % ByteBits) \in Nat
  BY <1>1, <1>2
<1>4. y \in Nat \ {0}
  BY <1>3, PowerPositive
<1>5. byte \in Nat
  BY <1>2, Sizes DEF Byte
<1>6. InputBit(n) = (byte \div y) % 2
  BY DEF InputBit
<1> HIDE DEF byte, y
<1>7. byte \div y \in Nat
  BY <1>4, <1>5
<1> QED
  BY <1>6, <1>7

\* The code at a position: bit by bit, the highest first.
LEMMA ReadIs ==
  ASSUME record \in Seq(Byte), Input_position \in Nat
  PROVE  \E f \in [Nat -> Nat] :
           /\ f[0] = 0
           /\ \A n \in Nat : f[n + 1] = 2 * f[n] + InputBit(Input_position + n)
           /\ Read_code = f[CodeLength]
<1> DEFINE Reads(e) ==
             e = [n \in Nat |-> IF n = 0 THEN 0
                                ELSE 2 * e[n - 1] + InputBit(Input_position + n - 1)]
           code == CHOOSE e : Reads(e)
           bit == [n \in Nat |-> InputBit(Input_position + n)]
           g == [nv \in Nat \X Nat |-> 2 * nv[2] + (IF nv[1] = 0 THEN 0 ELSE bit[nv[1] - 1])]
<1>0. bit \in [Nat -> {0, 1}] /\ \A n \in Nat : bit[n] = InputBit(Input_position + n)
  BY BitType
<1> HIDE DEF bit
<1>1. \E f \in [Nat -> Nat] : f[0] = 0 /\ \A n \in Nat : f[n + 1] = 2 * f[n] + bit[n]
  <2>1. g \in [Nat \X Nat -> Nat]
    <3>1. ASSUME NEW m \in Nat, NEW v \in Nat
          PROVE  2 * v + (IF m = 0 THEN 0 ELSE bit[m - 1]) \in Nat
      <4>1. m # 0 => m - 1 \in Nat /\ bit[m - 1] \in {0, 1}
        BY <1>0
      <4> QED
        BY <4>1
    <3> QED
      BY <3>1
  <2>2. \A n, v \in Nat : g[<<n + 1, v>>] = 2 * v + bit[n]
    <3> SUFFICES ASSUME NEW n \in Nat, NEW v \in Nat PROVE g[<<n + 1, v>>] = 2 * v + bit[n]
      OBVIOUS
    <3>1. n + 1 \in Nat /\ n + 1 # 0 /\ (n + 1) - 1 = n
      OBVIOUS
    <3> QED
      BY <3>1
  <2> HIDE DEF g
  <2>3. Recursive(Nat, 0, g)
    BY <2>1, Recursion
  <2>4. PICK f \in [Nat -> Nat] : f[0] = 0 /\ \A n \in Nat : f[n + 1] = g[<<n + 1, f[n]>>]
    BY <2>3 DEF Recursive
  <2>5. \A n \in Nat : f[n + 1] = 2 * f[n] + bit[n]
    BY <2>2, <2>4
  <2> QED
    BY <2>4, <2>5
<1>2. PICK f \in [Nat -> Nat] : f[0] = 0 /\ \A n \in Nat : f[n + 1] = 2 * f[n] + bit[n]
  BY <1>1
<1>3. Reads(f)
  <2>1. ASSUME NEW n \in Nat
        PROVE  f[n] = IF n = 0 THEN 0 ELSE 2 * f[n - 1] + InputBit(Input_position + n - 1)
    <3>1. CASE n # 0
      <4>1. n - 1 \in Nat /\ (n - 1) + 1 = n /\ Input_position + (n - 1) = Input_position + n - 1
        BY <3>1
      <4>2. bit[n - 1] = InputBit(Input_position + n - 1)
        BY <1>0, <4>1
      <4> QED
        BY <1>2, <3>1, <4>1, <4>2
    <3> QED
      BY <1>2, <3>1
  <2> QED
    BY <2>1
<1>4. Reads(code)
  <2> HIDE DEF Reads
  <2> QED
    BY <1>3
<1>5. Read_code = code[CodeLength]
  BY DEF Read_code
<1> HIDE DEF code
<1>6. \A n \in Nat : code[n] = IF n = 0 THEN 0
                               ELSE 2 * code[n - 1] + InputBit(Input_position + n - 1)
  BY <1>4
<1>7. code[0] = 0 /\ \A n \in Nat : code[n + 1] = 2 * code[n] + bit[n]
  <2>1. ASSUME NEW n \in Nat PROVE code[n + 1] = 2 * code[n] + bit[n]
    <3>1. n + 1 \in Nat /\ n + 1 # 0 /\ (n + 1) - 1 = n
          /\ Input_position + (n + 1) - 1 = Input_position + n
      OBVIOUS
    <3>2. bit[n] = InputBit(Input_position + n)
      BY <1>0
    <3> QED
      BY <1>6, <3>1, <3>2
  <2> QED
    BY <1>6, <2>1
<1> DEFINE T == {n \in Nat : code[n] = f[n]}
<1>8. Nat \subseteq T
  <2>1. 0 \in T
    BY <1>2, <1>7
  <2>2. ASSUME NEW n \in Nat, n \in T PROVE n + 1 \in T
    <3>1. code[n] = f[n] /\ code[n + 1] = 2 * code[n] + bit[n] /\ f[n + 1] = 2 * f[n] + bit[n]
      BY <1>2, <1>7, <2>2
    <3> QED
      BY <3>1
  <2> HIDE DEF T
  <2> QED
    BY <2>1, <2>2, Induct
<1>9. code[CodeLength] = f[CodeLength]
  BY <1>8, WidthAssumption
<1> QED
  BY <1>0, <1>2, <1>5, <1>9

\* A code read is a number of CodeLength bits.
LEMMA ReadType ==
  ASSUME record \in Seq(Byte), Input_position \in Nat
  PROVE  Read_code \in 0 .. Power(2)[CodeLength] - 1
<1> DEFINE pow == Power(2)
<1>1. PICK f \in [Nat -> Nat] :
        /\ f[0] = 0
        /\ \A n \in Nat : f[n + 1] = 2 * f[n] + InputBit(Input_position + n)
        /\ Read_code = f[CodeLength]
  BY ReadIs
<1>2. pow \in [Nat -> Nat] /\ pow[0] = 1 /\ \A n \in Nat : pow[n + 1] = 2 * pow[n]
  BY PowerIs
<1> HIDE DEF pow
<1> DEFINE T == {n \in Nat : f[n] < pow[n]}
<1>3. 0 \in T
  BY <1>1, <1>2
<1>4. ASSUME NEW n \in Nat, n \in T PROVE n + 1 \in T
  <2>1. InputBit(Input_position + n) \in {0, 1}
    BY BitType
  <2>2. pow[n + 1] = 2 * pow[n] /\ pow[n] \in Nat
    BY <1>2
  <2>3. f[n + 1] = 2 * f[n] + InputBit(Input_position + n) /\ f[n] \in Nat /\ f[n] < pow[n]
    BY <1>1, <1>4
  <2>4. \A x, y \in Nat, b \in {0, 1} : x < y => 2 * x + b < 2 * y
    OBVIOUS
  <2>5. f[n + 1] < pow[n + 1]
    BY <2>1, <2>2, <2>3, <2>4
  <2> QED
    BY <2>5
<1>5. Nat \subseteq T
  <2> HIDE DEF T
  <2> QED
    BY <1>3, <1>4, Induct
<1>6. f[CodeLength] \in Nat /\ f[CodeLength] < pow[CodeLength] /\ pow[CodeLength] \in Nat
  BY <1>2, <1>5, WidthAssumption
<1>7. f[CodeLength] \in 0 .. pow[CodeLength] - 1
  <2>1. \A x, y \in Nat : x < y => x \in 0 .. y - 1
    OBVIOUS
  <2> QED
    BY <1>6, <2>1
<1>8. Read_code \in 0 .. pow[CodeLength] - 1
  BY <1>1, <1>7, Zenon
<1> QED
  BY <1>8 DEF pow

-----------------------------------------------------------------------------
(* Types.                                                                  *)

String == Seq(Byte) \ {<< >>}

\* The decoder's table and its output are made of bytes; what it read is in range.
DecoderTypes ==
  /\ Code_table \in Seq(String) /\ Output \in Seq(Byte)
  /\ Input_position \in Nat /\ Old \in 0 .. Power(2)[CodeLength] - 1 /\ Symbol \in Byte
  /\ pc \in {"compress", "returned", "packed", "decode", "done", "undefined"}

\* A record is made of bytes.
LEMMA RecordType == LoopInv => record \in Seq(Byte)
<1> SUFFICES ASSUME LoopInv PROVE record \in Seq(Byte)
  OBVIOUS
<1>1. CASE record = << >>
  BY <1>1
<1>2. CASE record = Packed(out_code)
  BY <1>2, PackedType DEF LoopInv
<1> QED
  BY <1>1, <1>2 DEF LoopInv

\* An entry of the decoder's table is a non-empty string.
LEMMA EntryType ==
  ASSUME Code_table \in Seq(String), NEW code \in Nat, code < TableSize
  PROVE  Entry(code) \in String
<1>1. CASE code < Radix
  <2>1. code \in Byte
    BY <1>1, Sizes DEF Byte
  <2> QED
    BY <1>1, <2>1 DEF Entry, String
<1>2. CASE code >= Radix
  <2>1. code - Radix + 1 \in 1 .. Len(Code_table)
    BY <1>2, Sizes DEF TableSize
  <2> QED
    BY <1>2, <2>1, Sizes DEF Entry
<1> QED
  BY <1>1, <1>2, Sizes

\* A string and its first byte; a string extended.
LEMMA StringFacts ==
  /\ \A s \in String : s \in Seq(Byte) /\ Len(s) \in Nat \ {0} /\ s[1] \in Byte
  /\ \A s \in String, b \in Byte : Append(s, b) \in String /\ Append(s, b)[1] = s[1]
  /\ \A b \in Byte : <<b>> \in String
<1>1. \A s \in String : s \in Seq(Byte) /\ Len(s) \in Nat \ {0}
  BY DEF String
<1>2. \A s \in String : s[1] \in Byte
  BY <1>1
<1>3. ASSUME NEW s \in String, NEW b \in Byte
      PROVE  Append(s, b) \in String /\ Append(s, b)[1] = s[1]
  <2>1. Append(s, b) \in Seq(Byte) /\ Len(Append(s, b)) = Len(s) + 1 /\ Len(s) \in Nat \ {0}
    BY <1>1
  <2>2. Append(s, b) # << >>
    BY <2>1
  <2> QED
    BY <2>1, <2>2 DEF String
<1>4. \A b \in Byte : <<b>> \in String
  BY DEF String
<1> QED
  BY <1>1, <1>2, <1>3, <1>4

\* The decoder starts with its types.
LEMMA DecoderTypesInit == Init => DecoderTypes
<1> SUFFICES ASSUME Init PROVE DecoderTypes
  OBVIOUS
<1>1. Power(2)[CodeLength] \in Nat \ {0}
  BY PowerPositive, WidthAssumption
<1> QED
  BY <1>1, Sizes DEF Init, DecoderTypes, Byte

\* What the decoder writes for a code is a non-empty string.
LEMMA SymbolsType ==
  ASSUME DecoderTypes, Read_code \in Nat, Old < TableSize
  PROVE  /\ Entry(Old) \in String
         /\ (IF Read_code >= TableSize THEN Append(Entry(Old), Symbol) ELSE Entry(Read_code))
              \in String
<1>1. Old \in Nat /\ Symbol \in Byte /\ TableSize \in Nat
  BY Sizes DEF DecoderTypes, TableSize
<1>2. Entry(Old) \in String
  BY <1>1, EntryType DEF DecoderTypes
<1>3. CASE Read_code >= TableSize
  BY <1>1, <1>2, <1>3, StringFacts
<1>4. CASE Read_code < TableSize
  BY <1>1, <1>2, <1>4, EntryType DEF DecoderTypes
<1> QED
  BY <1>1, <1>2, <1>3, <1>4

\* Every step of compressor and decoder preserves the decoder's types.
LEMMA DecoderTypesStep == LoopInv /\ DecoderTypes /\ [Next]_vars => DecoderTypes'
<1> SUFFICES ASSUME LoopInv, DecoderTypes, [Next]_vars PROVE DecoderTypes'
  OBVIOUS
<1>0. record \in Seq(Byte) /\ Read_code \in 0 .. Power(2)[CodeLength] - 1
  BY RecordType, ReadType DEF DecoderTypes
<1>1. CASE Extend \/ Emit \/ Return \/ Pack
  <2>1. UNCHANGED <<Code_table, Output, Input_position, Old, Symbol>>
    BY <1>1 DEF Extend, Emit, Return, Iterate, Pack, decoder
  <2>2. pc' \in {"compress", "returned", "packed"}
    BY <1>1 DEF Extend, Emit, Return, Iterate, Pack
  <2> QED
    BY <2>1, <2>2 DEF DecoderTypes
<1>2. CASE DecodeFirst
  <2>1. /\ Old' = Read_code /\ Symbol' = Read_code % Radix /\ Output' = <<Symbol'>>
        /\ Input_position' = CodeLength /\ pc' = "decode" /\ Code_table' = Code_table
    BY <1>2 DEF DecodeFirst
  <2>2. Read_code \in Nat
    BY <1>0
  <2>3. Symbol' \in Byte
    BY <2>1, <2>2, Sizes DEF Byte
  <2> QED
    BY <1>0, <2>1, <2>3, WidthAssumption DEF DecoderTypes
<1>3. CASE DecodeNext
  <2> DEFINE Symbols == IF Read_code >= TableSize THEN Append(Entry(Old), Symbol)
                        ELSE Entry(Read_code)
  <2>1. /\ Old < TableSize /\ Output' = Output \o Symbols /\ Symbol' = Symbols[1]
        /\ Code_table' = Append(Code_table, Append(Entry(Old), Symbols[1]))
        /\ Old' = Read_code /\ Input_position' = Input_position + CodeLength /\ pc' = pc
    BY <1>3 DEF DecodeNext, Learnt
  <2>2. Old \in Nat /\ Read_code \in Nat /\ Symbol \in Byte /\ TableSize \in Nat
    BY <1>0, Sizes DEF DecoderTypes, TableSize
  <2>3. Entry(Old) \in String /\ Symbols \in String
    BY <1>0, <2>1, SymbolsType DEF DecoderTypes
  <2> HIDE DEF Symbols
  <2>5. Symbols \in Seq(Byte) /\ Symbols[1] \in Byte /\ Append(Entry(Old), Symbols[1]) \in String
    BY <2>3, StringFacts
  <2>6. Output' \in Seq(Byte) /\ Code_table' \in Seq(String)
    BY <2>1, <2>5 DEF DecoderTypes
  <2>7. Input_position' \in Nat
    BY <2>1, WidthAssumption DEF DecoderTypes
  <2> QED
    BY <1>0, <2>1, <2>5, <2>6, <2>7 DEF DecoderTypes
<1>4. CASE DecodeUndefined
  BY <1>4 DEF DecodeUndefined, DecoderTypes, decoder
<1>5. CASE DecodeEnd
  BY <1>5 DEF DecodeEnd, DecoderTypes, decoder
<1>6. CASE UNCHANGED vars
  BY <1>6 DEF vars, decoder, DecoderTypes
<1> QED
  BY <1>1, <1>2, <1>3, <1>4, <1>5, <1>6 DEF Next, Decompress

\* The decoder's variables keep their types, whatever it reads.
THEOREM DecoderTypesHold == Spec => []DecoderTypes
BY LoopInvHolds, DecoderTypesInit, DecoderTypesStep, PTL DEF Spec

\* The types of compressor, packing and decoder (lzw.cpp:239-327,
\* Decoder.cpp:18-60), for every chunk, width of a code and hash function.
THEOREM TypeCorrect == Spec => []TypeOK
<1>1. ASSUME LoopInv, DecoderTypes PROVE TypeOK
  <2>1. Dict!TypeOK
    <3>1. D!TypeOK
      BY <1>1 DEF LoopInv, D!IInv
    <3> QED
      BY <3>1 DEF D!TypeOK, Dict!TypeOK, D!Bucket, Dict!Bucket, D!Entry, Dict!Entry,
                  D!Empty, Dict!Empty, D!Memory, Dict!Memory, D!Bit, Dict!Bit,
                  D!Code, Dict!Code
  <2>2. prefix_code \in Code /\ record \in Seq(Byte)
    BY <1>1, PrefixType, RecordType DEF LoopInv
  <2>3. Code_table \in Seq(Seq(Byte))
    BY <1>1 DEF DecoderTypes, String
  <2> QED
    BY <1>1, <2>1, <2>2, <2>3 DEF TypeOK, LoopInv, DecoderTypes
<1> QED
  BY <1>1, LoopInvHolds, DecoderTypesHold, PTL

-----------------------------------------------------------------------------
(* The frame of a record.                                                  *)

\* What the decoder reads per code is what the encoder packs, as lzw.cpp:34 has it; or it
\* is a bit more, as Decoder.cpp:8 has it.
SameWidth    == CodeLength = 3 * H
ShippedWidth == CodeLength = 3 * H + 1

\* Half-byte x begins in byte x \div 2, and the byte after the one that half-byte x - 1
\* is in is (x + 1) \div 2.
LEMMA HalfBytes ==
  ASSUME NEW x \in Nat
  PROVE  /\ (H * x) \div ByteBits = x \div 2
         /\ (H * x) % ByteBits = H * (x % 2)
         /\ (H * x + ByteBits - 1) \div ByteBits = (x + 1) \div 2
<1>1. H \in Nat \ {0} /\ ByteBits = 2 * H
  BY Widths
<1> DEFINE q == x \div 2
<1>2. q \in Nat /\ (x = 2 * q \/ x = 2 * q + 1)
  OBVIOUS
<1> HIDE DEF q
<1>3. CASE x = 2 * q
  <2>1. H * x = q * (2 * H) + 0
    BY <1>1, <1>2, <1>3
  <2>2. 0 \in 0 .. 2 * H - 1 /\ 2 * H - 1 \in 0 .. 2 * H - 1 /\ 2 * H \in Nat \ {0} /\ q \in Int
    BY <1>1, <1>2
  <2>3. (q * (2 * H) + 0) \div (2 * H) = q /\ (q * (2 * H) + 0) % (2 * H) = 0
    BY <2>2, Division
  <2>4. (q * (2 * H) + (2 * H - 1)) \div (2 * H) = q
    BY <2>2, Division
  <2>5. H * x + 2 * H - 1 = q * (2 * H) + (2 * H - 1)
    BY <1>1, <1>2, <2>1
  <2>6. x \div 2 = q /\ (x + 1) \div 2 = q /\ x % 2 = 0
    BY <1>2, <1>3
  <2>7. H * 0 = 0
    BY <1>1
  <2> QED
    BY <1>1, <2>1, <2>3, <2>4, <2>5, <2>6, <2>7
<1>4. CASE x = 2 * q + 1
  <2>1. H * x = q * (2 * H) + H
    BY <1>1, <1>2, <1>4
  <2>2. H \in 0 .. 2 * H - 1 /\ H - 1 \in 0 .. 2 * H - 1 /\ 2 * H \in Nat \ {0} /\ q \in Int
        /\ q + 1 \in Int
    BY <1>1, <1>2
  <2>3. (q * (2 * H) + H) \div (2 * H) = q /\ (q * (2 * H) + H) % (2 * H) = H
    BY <2>2, Division
  <2>4. ((q + 1) * (2 * H) + (H - 1)) \div (2 * H) = q + 1
    BY <2>2, Division
  <2>5. H * x + 2 * H - 1 = (q + 1) * (2 * H) + (H - 1)
    BY <1>1, <1>2, <2>1
  <2>6. x \div 2 = q /\ (x + 1) \div 2 = q + 1 /\ x % 2 = 1
    BY <1>2, <1>4
  <2>7. H * 1 = H
    BY <1>1
  <2> QED
    BY <1>1, <2>1, <2>3, <2>4, <2>5, <2>6, <2>7
<1> QED
  BY <1>2, <1>3, <1>4

\* The decoder reads from code to code, and stops behind the last one.
FrameInv ==
  /\ pc \in {"compress", "returned", "packed"} => Code_table = << >> /\ Input_position = 0
  /\ pc \in {"decode", "done"} =>
       /\ Input_position = CodeLength * (Len(Code_table) + 1)
       /\ Len(Code_table) + 1 <= Len(out_code)
  /\ pc = "done" => Len(Code_table) + 1 = Len(out_code)

\* Before the last code there are more, after it there are none.
LEMMA MoreIs ==
  ASSUME SameWidth, LoopInv, pc = "decode", NEW m \in Nat \ {0}, m <= Len(out_code),
         Input_position = CodeLength * m
  PROVE  More <=> m < Len(out_code)
<1>1. Len(out_code) \in Nat /\ Len(record) = (3 * Len(out_code) + 1) \div 2
  BY PackedType DEF LoopInv
<1>2. Input_position \div ByteBits = (3 * m) \div 2
  <2>1. (3 * H) * m = H * (3 * m) /\ 3 * m \in Nat
    BY Widths
  <2> QED
    BY <2>1, HalfBytes DEF SameWidth
<1> DEFINE N == Len(out_code)
<1> HIDE DEF N
<1>3. N \in Nat /\ m <= N => ((3 * m) \div 2 < (3 * N + 1) \div 2 - 1 <=> m < N)
  OBVIOUS
<1> QED
  BY <1>1, <1>2, <1>3 DEF More, N

\* Every step preserves the position of the decoder in its record.
LEMMA FrameStep == SameWidth /\ LoopInv /\ DecoderTypes /\ FrameInv /\ [Next]_vars => FrameInv'
<1> SUFFICES ASSUME SameWidth, LoopInv, DecoderTypes, FrameInv, [Next]_vars PROVE FrameInv'
  OBVIOUS
<1>0. /\ out_code \in Seq(Code) /\ Len(out_code) \in Nat
      /\ Code_table \in Seq(String) /\ Len(Code_table) \in Nat /\ CodeLength \in Nat
  BY WidthAssumption DEF LoopInv, DecoderTypes
<1>1. CASE Extend \/ Emit \/ Return \/ Pack
  <2>1. /\ Code_table' = Code_table /\ Input_position' = Input_position
        /\ pc \in {"compress", "returned", "packed"} /\ pc' \in {"compress", "returned", "packed"}
    BY <1>1 DEF Extend, Emit, Return, Iterate, Pack, decoder
  <2> QED
    BY <2>1 DEF FrameInv
<1>2. CASE DecodeFirst
  <2>1. /\ pc = "packed" /\ pc' = "decode" /\ Code_table' = Code_table
        /\ Input_position' = CodeLength /\ out_code' = out_code
    BY <1>2 DEF DecodeFirst, loop
  <2>2. Len(out_code) >= 1
    BY <2>1 DEF LoopInv
  <2>3. Len(Code_table) = 0 /\ CodeLength * (0 + 1) = CodeLength
    BY <1>0, <2>1 DEF FrameInv
  <2> QED
    BY <1>0, <2>1, <2>2, <2>3 DEF FrameInv
<1>3. CASE DecodeNext
  <2> DEFINE m == Len(Code_table) + 1
  <2>1. /\ pc = "decode" /\ pc' = "decode" /\ More /\ out_code' = out_code
        /\ Input_position' = Input_position + CodeLength
    BY <1>3 DEF DecodeNext, loop
  <2>2. \E e : Code_table' = Append(Code_table, e)
    BY <1>3 DEF DecodeNext
  <2>3. Len(Code_table') = m /\ m \in Nat \ {0}
    BY <1>0, <2>2
  <2> HIDE DEF m
  <2>4. Input_position = CodeLength * m /\ m <= Len(out_code)
    BY <2>1 DEF FrameInv, m
  <2>5. m < Len(out_code)
    BY <2>1, <2>3, <2>4, MoreIs
  <2>6. CodeLength * m + CodeLength = CodeLength * (m + 1)
    BY <1>0, <2>3
  <2> QED
    BY <1>0, <2>1, <2>3, <2>4, <2>5, <2>6 DEF FrameInv
<1>4. CASE DecodeUndefined
  BY <1>4 DEF DecodeUndefined, FrameInv, decoder, loop
<1>5. CASE DecodeEnd
  <2> DEFINE m == Len(Code_table) + 1
  <2>1. /\ pc = "decode" /\ pc' = "done" /\ ~ More
        /\ UNCHANGED <<Code_table, out_code, Input_position>>
    BY <1>5 DEF DecodeEnd, decoder, loop
  <2>2. Input_position = CodeLength * m /\ m <= Len(out_code) /\ m \in Nat \ {0}
    BY <1>0, <2>1 DEF FrameInv
  <2> HIDE DEF m
  <2>3. m = Len(out_code)
    BY <1>0, <2>1, <2>2, MoreIs
  <2> QED
    BY <2>1, <2>2, <2>3 DEF FrameInv, m
<1>6. CASE UNCHANGED vars
  BY <1>6 DEF vars, FrameInv, decoder, loop
<1> QED
  BY <1>1, <1>2, <1>3, <1>4, <1>5, <1>6 DEF Next, Decompress

\* The decoder is at the boundary of a code from the first one on.
THEOREM FrameInvHolds == SameWidth => (Spec => []FrameInv)
<1> SUFFICES ASSUME SameWidth PROVE Spec => []FrameInv
  OBVIOUS
<1>1. Init => FrameInv
  BY DEF Init, FrameInv
<1>2. LoopInv /\ DecoderTypes /\ FrameInv /\ [Next]_vars => FrameInv'
  BY FrameStep
<1> QED
  BY <1>1, <1>2, LoopInvHolds, DecoderTypesHold, PTL DEF Spec

\* A quotient is below a number when what is divided is below that number of divisors.
LEMMA BelowProduct ==
  ASSUME NEW n \in Nat, NEW k \in Nat \ {0}, NEW b \in Nat
  PROVE  n \div k < b <=> n < k * b
<1> DEFINE q == n \div k
           r == n % k
<1>1. n = k * q + r /\ q \in Nat /\ r \in 0 .. k - 1
  OBVIOUS
<1> HIDE DEF q, r
<1>2. CASE q < b
  <2>1. k * q <= k * (b - 1) /\ k * (b - 1) = k * b - k
    BY <1>1, <1>2
  <2>2. k * q \in Nat /\ k * b \in Nat
    BY <1>1
  <2>3. n < k * b
    BY <1>1, <2>1, <2>2
  <2> QED
    BY <1>2, <2>3 DEF q
<1>3. CASE ~ (q < b)
  <2>1. k * q >= k * b /\ k * q \in Nat /\ k * b \in Nat
    BY <1>1, <1>3
  <2>2. ~ (n < k * b)
    BY <1>1, <2>1
  <2> QED
    BY <1>3, <2>2 DEF q
<1> QED
  BY <1>2, <1>3

\* Where the decoder is, whatever the width of the codes it reads: it has read one more
\* than it has learnt strings, the last of them from before the record's last byte.
PositionInv ==
  /\ pc \in {"compress", "returned", "packed"} => Code_table = << >> /\ Input_position = 0
  /\ pc \in {"decode", "done"} =>
       /\ Input_position = CodeLength * (Len(Code_table) + 1)
       /\ Input_position < ByteBits * (Len(record) - 1) + CodeLength
  /\ pc = "done" => Input_position >= ByteBits * (Len(record) - 1)

\* Every step preserves it.
LEMMA PositionStep == LoopInv /\ DecoderTypes /\ PositionInv /\ [Next]_vars => PositionInv'
<1> SUFFICES ASSUME LoopInv, DecoderTypes, PositionInv, [Next]_vars PROVE PositionInv'
  OBVIOUS
<1> DEFINE last == Len(record) - 1
           bound == ByteBits * last
<1>0. /\ Code_table \in Seq(String) /\ Len(Code_table) \in Nat /\ CodeLength \in Nat
      /\ Input_position \in Nat /\ ByteBits \in Nat \ {0}
      /\ pc \notin {"compress", "returned"} => last \in Nat \ {0}
  <2>1. pc \notin {"compress", "returned"} => last \in Nat \ {0}
    <3>1. /\ out_code \in Seq(Code) /\ Len(out_code) \in Nat
          /\ pc \notin {"compress", "returned"} =>
               record = Packed(out_code) /\ Len(out_code) >= 1
      BY DEF LoopInv
    <3> QED
      BY <3>1, PackedType
  <2> QED
    BY <2>1, WidthAssumption DEF DecoderTypes
<1>1. CASE Extend \/ Emit \/ Return \/ Pack
  <2>1. /\ Code_table' = Code_table /\ Input_position' = Input_position
        /\ pc \in {"compress", "returned", "packed"} /\ pc' \in {"compress", "returned", "packed"}
    BY <1>1 DEF Extend, Emit, Return, Iterate, Pack, decoder
  <2> QED
    BY <2>1 DEF PositionInv
<1>2. CASE DecodeFirst
  <2>1. /\ pc = "packed" /\ pc' = "decode" /\ Code_table' = Code_table /\ record' = record
        /\ Input_position' = CodeLength
    BY <1>2 DEF DecodeFirst
  <2>2. Len(Code_table) = 0 /\ CodeLength * (0 + 1) = CodeLength
    BY <1>0, <2>1 DEF PositionInv
  <2>3. last \in Nat \ {0}
    BY <1>0, <2>1
  <2> HIDE DEF last
  <2>4. CodeLength < bound + CodeLength
    <3>1. bound \in Nat \ {0}
      BY <1>0, <2>3
    <3> HIDE DEF bound
    <3> QED
      BY <1>0, <3>1
  <2> QED
    BY <2>1, <2>2, <2>4 DEF PositionInv, last
<1>3. CASE DecodeNext
  <2> DEFINE m == Len(Code_table) + 1
  <2>1. /\ pc = "decode" /\ pc' = "decode" /\ More /\ record' = record
        /\ Input_position' = Input_position + CodeLength
    BY <1>3 DEF DecodeNext
  <2>2. \E e : Code_table' = Append(Code_table, e)
    BY <1>3 DEF DecodeNext
  <2>3. Len(Code_table') = m /\ m \in Nat
    BY <1>0, <2>2
  <2> HIDE DEF m
  <2>4. Input_position = CodeLength * m /\ CodeLength * m + CodeLength = CodeLength * (m + 1)
    BY <1>0, <2>1, <2>3 DEF PositionInv, m
  <2>5. Input_position < bound /\ bound \in Nat
    <3>1. last \in Nat /\ Input_position \div ByteBits < last
      BY <1>0, <2>1 DEF More
    <3> HIDE DEF last
    <3> QED
      BY <1>0, <3>1, BelowProduct
  <2> HIDE DEF bound
  <2>6. Input_position' = CodeLength * (Len(Code_table') + 1)
    BY <2>1, <2>3, <2>4
  <2>7. Input_position' < bound + CodeLength
    BY <1>0, <2>1, <2>5
  <2> QED
    BY <2>1, <2>6, <2>7 DEF PositionInv, bound
<1>4. CASE DecodeUndefined
  BY <1>4 DEF DecodeUndefined, PositionInv, decoder
<1>5. CASE DecodeEnd
  <2>1. /\ pc = "decode" /\ pc' = "done" /\ ~ More
        /\ UNCHANGED <<Code_table, record, Input_position>>
    BY <1>5 DEF DecodeEnd, decoder
  <2>2. Input_position >= bound
    <3>1. last \in Nat /\ ~ (Input_position \div ByteBits < last)
      BY <1>0, <2>1 DEF More
    <3> HIDE DEF last
    <3>2. ~ (Input_position < bound) /\ bound \in Nat
      BY <1>0, <3>1, BelowProduct
    <3> HIDE DEF bound
    <3> QED
      BY <1>0, <3>2
  <2> QED
    BY <2>1, <2>2 DEF PositionInv
<1>6. CASE UNCHANGED vars
  BY <1>6 DEF vars, PositionInv, decoder
<1> QED
  BY <1>1, <1>2, <1>3, <1>4, <1>5, <1>6 DEF Next, Decompress

\* The position holds, whatever the widths.
THEOREM PositionInvHolds == Spec => []PositionInv
<1>1. Init => PositionInv
  BY DEF Init, PositionInv
<1> QED
  BY <1>1, PositionStep, LoopInvHolds, DecoderTypesHold, PTL DEF Spec

\* Decompress stops in the code in which it meets the last byte of its record, whatever
\* the width of the codes it reads (Decoder.cpp:45).  Only when that is the width they
\* were packed with has it then read the record's bytes, all and no others, and is the
\* next header where main looks for it.
THEOREM FrameKept == Spec => []ReadsRecord /\ (SameWidth => []StaysInFrame)
<1>1. Spec => []ReadsRecord
  <2>1. PositionInv => ReadsRecord
    BY DEF PositionInv, ReadsRecord
  <2> QED
    BY <2>1, PositionInvHolds, PTL
<1>2. ASSUME SameWidth PROVE Spec => []StaysInFrame
  <2>1. ASSUME LoopInv, FrameInv PROVE StaysInFrame
    <3> SUFFICES ASSUME pc = "done"
                 PROVE (Input_position + ByteBits - 1) \div ByteBits = Len(record)
      BY DEF StaysInFrame
    <3> DEFINE N == Len(out_code)
    <3>1. N \in Nat /\ Len(record) = (3 * N + 1) \div 2
      BY <2>1, PackedType DEF LoopInv
    <3>2. Input_position = (3 * H) * N
      BY <1>2, <2>1 DEF FrameInv, SameWidth
    <3> HIDE DEF N
    <3>3. (3 * H) * N = H * (3 * N) /\ 3 * N \in Nat
      BY <3>1, Widths
    <3> QED
      BY <3>1, <3>2, <3>3, HalfBytes
  <2> QED
    BY <1>2, <2>1, LoopInvHolds, FrameInvHolds, PTL
<1> QED
  BY <1>1, <1>2

\* Whatever the two widths, the compressor emits a code for each string it learns and one
\* for a last hit, and the decoder learns a string for each code it reads but the first.
\* That these are as many as were emitted takes the same width.
THEOREM OneCodeForEach == Spec => []CodesCounted /\ (SameWidth => []OneCodePerString)
<1>1. ASSUME LoopInv
      PROVE  pc \notin {"compress", "returned"} =>
               Len(out_code) = next_code - Radix + (IF answer = Miss THEN 0 ELSE 1)
  BY <1>1 DEF LoopInv, Count
<1>2. Spec => []CodesCounted
  <2>1. LoopInv /\ PositionInv => CodesCounted
    BY <1>1 DEF PositionInv, CodesCounted
  <2> QED
    BY <2>1, LoopInvHolds, PositionInvHolds, PTL
<1>3. ASSUME SameWidth PROVE Spec => []OneCodePerString
  <2>1. ASSUME LoopInv, DecoderTypes, FrameInv PROVE OneCodePerString
    <3>1. Len(Code_table) \in Nat
      BY <2>1 DEF DecoderTypes
    <3>2. pc = "done" => Len(Code_table) = Len(out_code) - 1
      BY <2>1, <3>1 DEF FrameInv
    <3> QED
      BY <1>1, <2>1, <3>2 DEF OneCodePerString
  <2> QED
    BY <1>3, <2>1, LoopInvHolds, DecoderTypesHold, FrameInvHolds, PTL
<1> QED
  BY <1>2, <1>3

\* A record takes three bytes for two bytes of its chunk at most, and a chunk at most
\* a code per byte, whatever the dictionary answers.
THEOREM RecordBounded == Spec => []RecordIsBounded
<1>1. ASSUME LoopInv PROVE RecordIsBounded
  <2>1. i \in Nat /\ i <= Len(chunk) /\ Len(chunk) \in Nat /\ Len(out_code) \in Nat
    BY <1>1, ChunkType DEF LoopInv
  <2>2. CASE pc \in {"compress", "returned"}
    <3>1. Len(record) = 0
      BY <1>1, <2>2 DEF LoopInv
    <3> QED
      BY <1>1, <2>1, <3>1 DEF LoopInv, RecordIsBounded
  <2>3. CASE pc \notin {"compress", "returned"}
    <3>1. Len(record) = (3 * Len(out_code) + 1) \div 2 /\ Len(out_code) <= i
      BY <1>1, <2>3, PackedType DEF LoopInv
    <3> QED
      BY <2>1, <3>1 DEF RecordIsBounded
  <2> QED
    BY <2>2, <2>3
<1> QED
  BY <1>1, LoopInvHolds, PTL

-----------------------------------------------------------------------------
(* The strings of a dictionary.                                            *)

\* The string of a code, from those of the codes below it.
SpeltBy(lookup, code) == {k \in Key : lookup[k] = code /\ k \div Radix < code}
SpeltFrom(lookup, h, code) ==
  IF code < Radix THEN <<code>>
  ELSE IF SpeltBy(lookup, code) = {} THEN << >>
  ELSE LET k == CHOOSE k \in SpeltBy(lookup, code) : TRUE
       IN Append(h[k \div Radix], k % Radix)

\* The string of a code depends on those of the codes below it only.
LEMMA SpeltFromBelow ==
  ASSUME NEW lookup, NEW code \in Nat, NEW h, NEW e, \A d \in 0 .. code - 1 : h[d] = e[d]
  PROVE  SpeltFrom(lookup, h, code) = SpeltFrom(lookup, e, code)
<1>1. CASE code >= Radix /\ SpeltBy(lookup, code) # {}
  <2> DEFINE k == CHOOSE k \in SpeltBy(lookup, code) : TRUE
  <2>1. k \in SpeltBy(lookup, code)
    BY <1>1
  <2>2. CodeSpace * Radix \in Nat
    BY Sizes
  <2>3. k \in Nat /\ k \div Radix < code
    <3>1. k \in Key /\ k \div Radix < code
      BY <2>1 DEF SpeltBy
    <3> HIDE DEF k
    <3> QED
      BY <2>2, <3>1, KeyType
  <2>4. k \div Radix \in Nat
    BY <2>3, Sizes
  <2>5. SpeltFrom(lookup, h, code) = Append(h[k \div Radix], k % Radix)
    BY <1>1, Sizes DEF SpeltFrom
  <2>6. SpeltFrom(lookup, e, code) = Append(e[k \div Radix], k % Radix)
    BY <1>1, Sizes DEF SpeltFrom
  <2> HIDE DEF k
  <2>7. k \div Radix \in 0 .. code - 1
    BY <2>3, <2>4
  <2> QED
    BY <2>5, <2>6, <2>7
<1>2. CASE code < Radix \/ SpeltBy(lookup, code) = {}
  BY <1>2 DEF SpeltFrom
<1> QED
  BY <1>1, <1>2, Sizes

\* Strings is what its recursion says: there is a function that satisfies it.
LEMMA StringsIs ==
  ASSUME NEW lookup
  PROVE  \A code \in Code : Strings(lookup)[code] = SpeltFrom(lookup, Strings(lookup), code)
<1> DEFINE Spells(h) == h = [code \in Code |-> SpeltFrom(lookup, h, code)]
           text == CHOOSE h : Spells(h)
           T == {n \in Nat : \E h : \A c \in 0 .. n : h[c] = SpeltFrom(lookup, h, c)}
<1>1. 0 \in T
  <2> DEFINE h == [c \in 0 .. 0 |-> <<c>>]
  <2>1. SpeltFrom(lookup, h, 0) = <<0>>
    BY Sizes DEF SpeltFrom
  <2>2. \A c \in 0 .. 0 : h[c] = SpeltFrom(lookup, h, c)
    BY <2>1
  <2> QED
    BY <2>2
<1>2. ASSUME NEW n \in Nat, n \in T PROVE n + 1 \in T
  <2>1. PICK h : \A c \in 0 .. n : h[c] = SpeltFrom(lookup, h, c)
    BY <1>2
  <2> DEFINE e == [c \in 0 .. n + 1 |-> IF c = n + 1 THEN SpeltFrom(lookup, h, c) ELSE h[c]]
  <2>2. \A c \in 0 .. n : e[c] = h[c]
    OBVIOUS
  <2>3. e[n + 1] = SpeltFrom(lookup, h, n + 1)
    OBVIOUS
  <2> HIDE DEF e
  <2>4. ASSUME NEW c \in 0 .. n + 1 PROVE SpeltFrom(lookup, h, c) = SpeltFrom(lookup, e, c)
    <3>1. c \in Nat /\ \A d \in 0 .. c - 1 : h[d] = e[d]
      BY <2>2
    <3> QED
      BY <3>1, SpeltFromBelow
  <2>5. \A c \in 0 .. n + 1 : c \in 0 .. n \/ c = n + 1
    OBVIOUS
  <2>6. \A c \in 0 .. n + 1 : e[c] = SpeltFrom(lookup, e, c)
    BY <2>1, <2>2, <2>3, <2>4, <2>5
  <2> QED
    BY <2>6
<1>3. Nat \subseteq T
  <2> HIDE DEF T
  <2> QED
    BY <1>1, <1>2, Induct
<1>4. PICK h : \A c \in 0 .. CodeSpace - 1 : h[c] = SpeltFrom(lookup, h, c)
  <2>1. CodeSpace - 1 \in Nat
    BY Sizes
  <2> QED
    BY <1>3, <2>1
<1> DEFINE f == [code \in Code |-> h[code]]
<1>5. Spells(f)
  <2>1. ASSUME NEW code \in Code PROVE h[code] = SpeltFrom(lookup, f, code)
    <3>1. code \in Nat /\ code \in 0 .. CodeSpace - 1 /\ \A d \in 0 .. code - 1 : d \in Code
      BY Sizes DEF Code
    <3>2. \A d \in 0 .. code - 1 : h[d] = f[d]
      BY <3>1
    <3> HIDE DEF f
    <3> QED
      BY <1>4, <3>1, <3>2, SpeltFromBelow
  <2> QED
    BY <2>1
<1>6. Spells(text)
  <2> HIDE DEF Spells
  <2> QED
    BY <1>5
<1>7. Strings(lookup) = text
  BY DEF Strings, SpeltFrom, SpeltBy
<1> HIDE DEF text
<1> QED
  BY <1>6, <1>7

\* The codes that stand for a string: bytes and the codes of keys.
Known(lookup, code) ==
  code \in Code /\ (code < Radix \/ \E k \in Key : lookup[k] = code)

\* Keys have different codes, each above that of the prefix, which is known.
Ordered(lookup) ==
  \A k \in Key : lookup[k] # Miss =>
    /\ lookup[k] \in Code /\ lookup[k] >= Radix
    /\ k \div Radix < lookup[k] /\ Known(lookup, k \div Radix)
    /\ \A l \in Key : lookup[l] = lookup[k] => l = k

\* A byte stands for itself.
LEMMA StringOfByte ==
  ASSUME NEW lookup, NEW code \in Byte
  PROVE  Known(lookup, code) /\ Strings(lookup)[code] = <<code>>
<1>1. code \in Code /\ code < Radix
  BY Sizes DEF Byte, Code
<1> QED
  BY <1>1, StringsIs DEF Known, SpeltFrom

\* The code of a key stands for the string of its prefix and its byte.
LEMMA StringOfKey ==
  ASSUME NEW lookup, Ordered(lookup), NEW k \in Key, lookup[k] # Miss
  PROVE  Strings(lookup)[lookup[k]] = Append(Strings(lookup)[k \div Radix], k % Radix)
<1>1. lookup[k] \in Code /\ lookup[k] >= Radix /\ k \div Radix < lookup[k]
  BY DEF Ordered
<1>2. SpeltBy(lookup, lookup[k]) = {k}
  BY <1>1 DEF Ordered, SpeltBy
<1>3. (CHOOSE l \in SpeltBy(lookup, lookup[k]) : TRUE) = k
  BY <1>2
<1>4. ~ (lookup[k] < Radix)
  BY <1>1, Sizes DEF Code
<1>5. Strings(lookup)[lookup[k]] = SpeltFrom(lookup, Strings(lookup), lookup[k])
  BY <1>1, StringsIs
<1> QED
  BY <1>2, <1>3, <1>4, <1>5 DEF SpeltFrom

\* The keys of a keep their codes in b.
Extends(a, b) == \A k \in Key : a[k] # Miss => b[k] = a[k]

\* A known code stands for a string of bytes, and for the same one when codes are added.
LEMMA StringsKept ==
  ASSUME NEW a, NEW b, Ordered(a), Ordered(b),
         Extends(a, b)
  PROVE  \A code : Known(a, code) =>
           /\ Known(b, code)
           /\ Strings(a)[code] = Strings(b)[code]
           /\ Strings(a)[code] \in String
<1> DEFINE T == {n \in Nat : \A code \in 0 .. n : Known(a, code) =>
                               /\ Strings(a)[code] = Strings(b)[code]
                               /\ Strings(a)[code] \in String}
<1>0. CodeSpace * Radix \in Nat /\ Radix \in Nat \ {0} /\ CodeSpace \in Nat
  BY Sizes
<1>1. ASSUME NEW code \in Byte
      PROVE  Strings(a)[code] = Strings(b)[code] /\ Strings(a)[code] \in String
  <2>1. Strings(a)[code] = <<code>>
    BY <1>1, StringOfByte
  <2>2. Strings(b)[code] = <<code>>
    BY <1>1, StringOfByte
  <2>3. <<code>> \in String
    BY <1>1, StringFacts
  <2> QED
    BY <2>1, <2>2, <2>3
<1>2. 0 \in T
  <2>1. \A code \in 0 .. 0 : code \in Byte
    BY Sizes DEF Byte
  <2> QED
    BY <1>1, <2>1
<1>3. ASSUME NEW n \in Nat, n \in T PROVE n + 1 \in T
  <2> SUFFICES ASSUME NEW code \in 0 .. n + 1, Known(a, code)
               PROVE  Strings(a)[code] = Strings(b)[code] /\ Strings(a)[code] \in String
    OBVIOUS
  <2>1. CASE code < Radix
    BY <1>1, <2>1, Sizes DEF Byte
  <2>2. CASE code >= Radix
    <3>1. PICK k \in Key : a[k] = code
      BY <2>2, Sizes DEF Known
    <3>2. a[k] # Miss /\ b[k] = a[k]
      BY <3>1, DictAssumption DEF Known, Extends
    <3>3. /\ Strings(a)[code] = Append(Strings(a)[k \div Radix], k % Radix)
          /\ Strings(b)[code] = Append(Strings(b)[k \div Radix], k % Radix)
      BY <3>1, <3>2, StringOfKey
    <3>4. k \div Radix < code /\ Known(a, k \div Radix)
      BY <3>1, <3>2 DEF Ordered
    <3>5. k \in Nat
      BY <1>0, KeyType
    <3>6. k \div Radix \in 0 .. n /\ k % Radix \in Byte
      <4>1. k \div Radix \in Nat /\ k % Radix \in 0 .. Radix - 1
        BY <1>0, <3>5
      <4> QED
        BY <3>4, <4>1 DEF Byte
    <3>7. /\ Strings(a)[k \div Radix] = Strings(b)[k \div Radix]
          /\ Strings(a)[k \div Radix] \in String
      BY <1>3, <3>4, <3>6
    <3> QED
      BY <3>3, <3>6, <3>7, StringFacts
  <2> QED
    BY <2>1, <2>2, Sizes
<1>4. Nat \subseteq T
  <2> HIDE DEF T
  <2> QED
    BY <1>2, <1>3, Induct
<1> SUFFICES ASSUME NEW code, Known(a, code)
             PROVE  /\ Known(b, code) /\ Strings(a)[code] = Strings(b)[code]
                    /\ Strings(a)[code] \in String
  OBVIOUS
<1>5. code \in Nat /\ code \in 0 .. code
  BY <1>0 DEF Known, Code
<1>6. Known(b, code)
  BY DictAssumption DEF Known, Extends
<1> QED
  BY <1>4, <1>5, <1>6

\* The codes are below the next one; b is a with the next code given to a key.
AllBelow(lookup, next) == \A k \in Key : lookup[k] # Miss => lookup[k] < next
Adds(a, b, k, next) == a[k] = Miss /\ \A l \in Key : b[l] = IF l = k THEN next ELSE a[l]

\* A code stands for the string of another and a byte.
Prolongs(lookup, code, p, c) == Strings(lookup)[code] = Append(Strings(lookup)[p], c)

\* A string learnt: the key of a known prefix gets the next code.
LEMMA Learn ==
  ASSUME NEW a, NEW b, NEW next \in Code, next >= Radix, NEW p, NEW c \in Byte,
         Ordered(a), AllBelow(a, next), Known(a, p),
         KeyOf(p, c) \in Key, Adds(a, b, KeyOf(p, c), next)
  PROVE  /\ Ordered(b)
         /\ Extends(a, b)
         /\ AllBelow(b, next + 1)
         /\ Known(b, next)
         /\ Prolongs(b, next, p, c)
<1> DEFINE kk == KeyOf(p, c)
<1>1. kk \in Key /\ kk \div Radix = p /\ kk % Radix = c /\ a[kk] = Miss /\ p \in Code
  BY KeyParts DEF Known, Adds
<1>2. \A l \in Key : b[l] = IF l = kk THEN next ELSE a[l]
  BY DEF Adds
<1> HIDE DEF kk
<1>3. next # Miss /\ next \in Nat /\ Radix \in Nat
  BY DictAssumption, Sizes DEF Code
<1>4. \A k \in Key : a[k] # Miss => k # kk /\ b[k] = a[k]
  BY <1>1, <1>2
<1>5. \A code : Known(a, code) => Known(b, code)
  <2>1. \A k \in Key : a[k] \in Code => b[k] = a[k]
    BY <1>4, DictAssumption
  <2> QED
    BY <2>1 DEF Known
<1>6. \A k \in Key : a[k] # Miss => a[k] \in Nat
  BY Sizes DEF Ordered, Code
<1>7. p \in Nat /\ p < next
  <2>1. p \in Nat
    BY <1>1, Sizes DEF Code
  <2>2. CASE p < Radix
    BY <1>3, <2>1, <2>2
  <2>3. CASE ~ (p < Radix)
    <3>1. PICK k \in Key : a[k] = p
      BY <2>3 DEF Known
    <3>2. a[k] # Miss
      BY <1>1, <3>1, DictAssumption
    <3> QED
      BY <2>1, <3>1, <3>2 DEF AllBelow
  <2> QED
    BY <2>2, <2>3
<1>8. \A k \in Key : b[k] # Miss => b[k] < next + 1
  <2>1. \A n \in Nat : n < next => n < next + 1
    BY <1>3
  <2>2. next < next + 1
    BY <1>3
  <2> QED
    BY <1>2, <1>6, <2>1, <2>2 DEF AllBelow
<1>9. Ordered(b)
  <2> SUFFICES ASSUME NEW k \in Key, b[k] # Miss
               PROVE  /\ b[k] \in Code /\ b[k] >= Radix
                      /\ k \div Radix < b[k] /\ Known(b, k \div Radix)
                      /\ \A l \in Key : b[l] = b[k] => l = k
    BY DEF Ordered
  <2>1. \A l \in Key : a[l] = next => FALSE
    <3> SUFFICES ASSUME NEW l \in Key, a[l] = next PROVE FALSE
      OBVIOUS
    <3>1. a[l] < next
      BY <1>3 DEF AllBelow
    <3> QED
      BY <1>3, <3>1
  <2>2. CASE k = kk
    BY <1>1, <1>2, <1>3, <1>5, <1>7, <2>1, <2>2
  <2>3. CASE k # kk
    <3>1. b[k] = a[k] /\ a[k] # Miss
      BY <1>2, <2>3
    <3>2. /\ a[k] \in Code /\ a[k] >= Radix /\ k \div Radix < a[k] /\ Known(a, k \div Radix)
          /\ \A l \in Key : a[l] = a[k] => l = k
      BY <3>1 DEF Ordered
    <3>3. \A l \in Key : b[l] = b[k] => l = k
      BY <1>2, <2>1, <3>1, <3>2
    <3> QED
      BY <1>5, <3>1, <3>2, <3>3
  <2> QED
    BY <2>2, <2>3
<1>10. b[kk] = next
  BY <1>1, <1>2
<1>11. Known(b, next)
  BY <1>1, <1>10 DEF Known
<1>12. Prolongs(b, next, p, c)
  BY <1>1, <1>3, <1>9, <1>10, StringOfKey DEF Prolongs
<1> QED
  BY <1>4, <1>8, <1>9, <1>11, <1>12 DEF AllBelow, Extends

-----------------------------------------------------------------------------
(* What a sequence of codes spells.                                        *)

Texts(lookup, codes) == [n \in DOMAIN codes |-> Strings(lookup)[codes[n]]]
Spell(lookup, codes) == FlattenSeq(Texts(lookup, codes))
KnownAll(lookup, codes) == \A n \in 1 .. Len(codes) : Known(lookup, codes[n])

\* One code more spells its string behind what was spelt.
LEMMA SpellAppend ==
  ASSUME NEW a, Ordered(a), NEW codes \in Seq(Code), KnownAll(a, codes), NEW c, Known(a, c)
  PROVE  /\ Spell(a, codes) \in Seq(Byte) /\ Strings(a)[c] \in Seq(Byte)
         /\ Spell(a, Append(codes, c)) = Spell(a, codes) \o Strings(a)[c]
<1>1. \A code : Known(a, code) => Strings(a)[code] \in String
  BY StringsKept DEF Extends
<1>2. \A code : Known(a, code) => Strings(a)[code] \in Seq(Byte)
  BY <1>1, StringFacts
<1> DEFINE s == Texts(a, codes)
           x == Strings(a)[c]
<1>3. s \in Seq(Seq(Byte)) /\ x \in Seq(Byte)
  <2>1. DOMAIN codes = 1 .. Len(codes) /\ Len(codes) \in Nat
    OBVIOUS
  <2>2. s \in [1 .. Len(codes) -> Seq(Byte)]
    BY <1>2, <2>1 DEF Texts, KnownAll
  <2> QED
    BY <1>2, <2>1, <2>2
<1>4. Texts(a, Append(codes, c)) = Append(s, x)
  <2>0. c \in Code
    BY DEF Known
  <2>1. /\ DOMAIN codes = 1 .. Len(codes) /\ Len(codes) \in Nat
        /\ DOMAIN Append(codes, c) = 1 .. Len(codes) + 1
        /\ \A n \in 1 .. Len(codes) : Append(codes, c)[n] = codes[n]
        /\ Append(codes, c)[Len(codes) + 1] = c
    BY <2>0
  <2>2. Len(s) = Len(codes) /\ \A n \in 1 .. Len(codes) : s[n] = Strings(a)[codes[n]]
    BY <1>3, <2>1 DEF Texts
  <2> DEFINE t == Texts(a, Append(codes, c))
  <2>3. /\ t = [n \in 1 .. Len(codes) + 1 |-> t[n]]
        /\ \A n \in 1 .. Len(codes) : t[n] = s[n]
        /\ t[Len(codes) + 1] = x
    <3>1. t = [n \in 1 .. Len(codes) + 1 |-> Strings(a)[Append(codes, c)[n]]]
      BY <2>1 DEF Texts
    <3>2. \A n \in 1 .. Len(codes) : n \in 1 .. Len(codes) + 1
      BY <2>1
    <3>3. Len(codes) + 1 \in 1 .. Len(codes) + 1
      BY <2>1
    <3> HIDE DEF t, s
    <3> QED
      BY <2>1, <2>2, <3>1, <3>2, <3>3
  <2>4. /\ Append(s, x) = [n \in 1 .. Len(codes) + 1 |-> Append(s, x)[n]]
        /\ \A n \in 1 .. Len(codes) : Append(s, x)[n] = s[n]
        /\ Append(s, x)[Len(codes) + 1] = x
    <3> DEFINE S == Seq(Byte)
    <3>1. s \in Seq(S) /\ x \in S /\ Len(s) = Len(codes)
      BY <1>3, <2>2
    <3> HIDE DEF s, x, S
    <3> DEFINE r == Append(s, x)
    <3>2. /\ r \in Seq(S) /\ Len(r) = Len(codes) + 1
          /\ \A n \in 1 .. Len(codes) : r[n] = s[n]
          /\ r[Len(codes) + 1] = x
      BY <2>1, <3>1
    <3> HIDE DEF r
    <3>3. r \in [1 .. Len(codes) + 1 -> S]
      BY <3>2
    <3>4. r = [n \in 1 .. Len(codes) + 1 |-> r[n]]
      BY <3>3
    <3> QED
      BY <3>2, <3>4 DEF r
  <2> HIDE DEF s, x, t
  <2>5. \A n \in 1 .. Len(codes) + 1 : n \in 1 .. Len(codes) \/ n = Len(codes) + 1
    BY <2>1
  <2>6. \A n \in 1 .. Len(codes) + 1 : t[n] = Append(s, x)[n]
    BY <2>3, <2>4, <2>5
  <2>7. t = Append(s, x)
    BY <2>3, <2>4, <2>6
  <2> QED
    BY <2>7 DEF t
<1> HIDE DEF s, x
<1>5. FlattenSeq(s) \in Seq(Byte) /\ FlattenSeq(Append(s, x)) = FlattenSeq(s) \o x
  BY <1>3, FlattenAppend
<1> QED
  BY <1>3, <1>4, <1>5 DEF Spell, s, x

\* Codes added to the dictionary leave what was spelt as it is.
LEMMA SpellKept ==
  ASSUME NEW a, NEW b, Ordered(a), Ordered(b), Extends(a, b),
         NEW codes \in Seq(Code), KnownAll(a, codes)
  PROVE  KnownAll(b, codes) /\ Spell(b, codes) = Spell(a, codes)
<1>1. \A code : Known(a, code) => Known(b, code) /\ Strings(a)[code] = Strings(b)[code]
  BY StringsKept
<1>2. \A n \in DOMAIN codes : Strings(a)[codes[n]] = Strings(b)[codes[n]]
  BY <1>1 DEF KnownAll
<1>3. Texts(a, codes) = Texts(b, codes)
  BY <1>2 DEF Texts
<1> QED
  BY <1>1, <1>3 DEF Spell, KnownAll

-----------------------------------------------------------------------------
(* What is emitted spells what is read.                                    *)

\* The code after the nth: the last one is followed by the pending prefix.
Following(codes, prefix, n) == IF n < Len(codes) THEN codes[n + 1] ELSE prefix
First(lookup, code) == Strings(lookup)[code][1]

\* Codes are known before they are emitted, and the nth string learnt is that of the
\* nth code and the first byte of the string after it.
Spelt(lookup, codes, prefix, next) ==
  /\ Known(lookup, prefix) /\ KnownAll(lookup, codes)
  /\ \A n \in 1 .. Len(codes) : codes[n] < Radix + n - 1
  /\ \A n \in 1 .. next - Radix :
       /\ Known(lookup, Radix + n - 1)
       /\ Strings(lookup)[Radix + n - 1]
            = Append(Strings(lookup)[codes[n]], First(lookup, Following(codes, prefix, n)))

\* A known code is below the next one.
LEMMA KnownBelow ==
  ASSUME NEW a, NEW next \in Nat, next >= Radix, NEW p, Known(a, p), AllBelow(a, next)
  PROVE  p < next
<1>1. p \in Nat /\ p # Miss
  BY DictAssumption, Sizes DEF Known, Code
<1>2. CASE p < Radix
  BY <1>1, <1>2, Sizes
<1>3. CASE ~ (p < Radix)
  BY <1>1, <1>3 DEF Known, AllBelow
<1> QED
  BY <1>2, <1>3

\* A known string is found: it is the prefix, and at the last byte a code, too.
LEMMA SpeltExtend ==
  ASSUME NEW a, Ordered(a), NEW codes \in Seq(Code), NEW p, NEW next \in Nat,
         Len(codes) = next - Radix, Spelt(a, codes, p, next),
         NEW c \in Byte, KeyOf(p, c) \in Key, a[KeyOf(p, c)] # Miss, a[KeyOf(p, c)] < next
  PROVE  /\ a[KeyOf(p, c)] \in Code /\ Prolongs(a, a[KeyOf(p, c)], p, c)
         /\ Spelt(a, codes, a[KeyOf(p, c)], next)
         /\ Spelt(a, Append(codes, a[KeyOf(p, c)]), a[KeyOf(p, c)], next)
<1> DEFINE k == KeyOf(p, c)
           q == a[k]
<1>1. k \div Radix = p /\ k % Radix = c /\ k \in Key /\ q # Miss /\ q < next
  BY KeyParts DEF Spelt, Known
<1> HIDE DEF k
<1>2. q \in Code /\ Known(a, q) /\ Strings(a)[q] = Append(Strings(a)[p], c)
  BY <1>1, StringOfKey DEF Ordered, Known
<1> HIDE DEF q
<1>3. Strings(a)[p] \in String
  BY StringsKept DEF Spelt, Extends
<1>4. First(a, q) = First(a, p)
  BY <1>2, <1>3, StringFacts DEF First
<1>5. Len(codes) \in Nat /\ Radix \in Nat
  BY Sizes
<1>6. Spelt(a, codes, q, next)
  <2>1. \A n \in 1 .. next - Radix : First(a, Following(codes, q, n)) = First(a, Following(codes, p, n))
    BY <1>4 DEF Following
  <2> QED
    BY <1>2, <2>1 DEF Spelt
<1>7. Spelt(a, Append(codes, q), q, next)
  <2> DEFINE d == Append(codes, q)
  <2>1. /\ Len(d) = Len(codes) + 1 /\ d[Len(codes) + 1] = q
        /\ \A n \in 1 .. Len(codes) : d[n] = codes[n]
    BY <1>2
  <2> HIDE DEF d
  <2>2. \A n \in 1 .. Len(d) : n \in 1 .. Len(codes) \/ n = Len(codes) + 1
    BY <1>5, <2>1
  <2>3. KnownAll(a, d)
    BY <1>2, <2>1, <2>2 DEF KnownAll, Spelt
  <2>4. \A n \in 1 .. Len(d) : d[n] < Radix + n - 1
    <3>1. q < Radix + (Len(codes) + 1) - 1
      BY <1>1, <1>5
    <3> QED
      BY <2>1, <2>2, <3>1 DEF Spelt
  <2>5. ASSUME NEW n \in 1 .. next - Radix
        PROVE  First(a, Following(d, q, n)) = First(a, Following(codes, p, n)) /\ d[n] = codes[n]
    <3>1. n \in 1 .. Len(codes)
      OBVIOUS
    <3>2. CASE n = Len(codes)
      BY <1>4, <1>5, <2>1, <3>1, <3>2 DEF Following
    <3>3. CASE n < Len(codes)
      <4>1. n + 1 \in 1 .. Len(codes) /\ n < Len(d)
        BY <1>5, <2>1, <3>1, <3>3
      <4> QED
        BY <2>1, <3>1, <3>3, <4>1 DEF Following
    <3> QED
      BY <1>5, <3>1, <3>2, <3>3
  <2>6. Spelt(a, d, q, next)
    BY <1>2, <2>3, <2>4, <2>5 DEF Spelt
  <2> QED
    BY <2>6 DEF d
<1> QED
  BY <1>2, <1>6, <1>7 DEF q, k, Prolongs

\* It is not: the prefix is a code, and the byte the new prefix.
LEMMA SpeltEmit ==
  ASSUME NEW a, NEW b, NEW codes \in Seq(Code), NEW p, NEW next \in Code, next >= Radix,
         Ordered(a), AllBelow(a, next),
         Len(codes) = next - Radix, Spelt(a, codes, p, next),
         NEW c \in Byte, KeyOf(p, c) \in Key, Adds(a, b, KeyOf(p, c), next)
  PROVE  Spelt(b, Append(codes, p), c, next + 1)
<1> DEFINE d == Append(codes, p)
<1>1. /\ Ordered(b) /\ Extends(a, b)
      /\ Known(b, next) /\ Strings(b)[next] = Append(Strings(b)[p], c)
  <2>1. Known(a, p)
    BY DEF Spelt
  <2>2. Ordered(b) /\ Extends(a, b) /\ Known(b, next) /\ Prolongs(b, next, p, c)
    BY <2>1, Learn
  <2> QED
    BY <2>2 DEF Prolongs
<1>2. \A code : Known(a, code) =>
        Known(b, code) /\ First(b, code) = First(a, code) /\ Strings(b)[code] = Strings(a)[code]
  BY <1>1, StringsKept DEF First
<1>3. Known(a, p) /\ KnownAll(a, codes) /\ p \in Code /\ p < next
  <2>1. Known(a, p) /\ KnownAll(a, codes)
    BY DEF Spelt
  <2>2. next \in Nat
    BY Sizes DEF Code
  <2>3. p < next
    BY <2>1, <2>2, KnownBelow
  <2> QED
    BY <2>1, <2>3 DEF Known
<1>4. /\ Len(codes) \in Nat /\ Radix \in Nat /\ next \in Nat
      /\ Len(d) = Len(codes) + 1 /\ d[Len(codes) + 1] = p
      /\ \A n \in 1 .. Len(codes) : d[n] = codes[n]
  BY <1>3, Sizes DEF Code
<1> HIDE DEF d
<1>5. \A n \in 1 .. Len(d) : n \in 1 .. Len(codes) \/ n = Len(codes) + 1
  BY <1>4
<1>6. KnownAll(b, d)
  BY <1>2, <1>3, <1>4, <1>5 DEF KnownAll
<1>7. \A n \in 1 .. Len(d) : d[n] < Radix + n - 1
  <2>1. p < Radix + (Len(codes) + 1) - 1
    BY <1>3, <1>4
  <2> QED
    BY <1>4, <1>5, <2>1 DEF Spelt
<1>8. Known(b, c) /\ First(b, c) = c
  <2>1. Known(b, c) /\ Strings(b)[c] = <<c>>
    BY StringOfByte
  <2>2. <<c>>[1] = c
    OBVIOUS
  <2> QED
    BY <2>1, <2>2 DEF First
<1>9. ASSUME NEW n \in 1 .. (next + 1) - Radix
      PROVE  /\ Known(b, Radix + n - 1)
             /\ Strings(b)[Radix + n - 1]
                  = Append(Strings(b)[d[n]], First(b, Following(d, c, n)))
  <2>1. CASE n \in 1 .. Len(codes)
    <3>0. n \in 1 .. next - Radix
      BY <2>1
    <3>1. /\ Known(a, Radix + n - 1)
          /\ Strings(a)[Radix + n - 1]
               = Append(Strings(a)[codes[n]], First(a, Following(codes, p, n)))
      BY <3>0 DEF Spelt
    <3>2. Known(a, codes[n]) /\ d[n] = codes[n]
      BY <1>3, <1>4, <2>1 DEF KnownAll
    <3>3. Following(d, c, n) = Following(codes, p, n) /\ Known(a, Following(codes, p, n))
      <4>1. CASE n = Len(codes)
        BY <1>3, <1>4, <4>1 DEF Following
      <4>2. CASE n < Len(codes)
        <5>1. n + 1 \in 1 .. Len(codes) /\ n < Len(d)
          BY <1>4, <2>1, <4>2
        <5> QED
          BY <1>3, <1>4, <4>2, <5>1 DEF Following, KnownAll
      <4> QED
        BY <1>4, <2>1, <4>1, <4>2
    <3> QED
      BY <1>2, <3>1, <3>2, <3>3
  <2>2. CASE n = Len(codes) + 1
    <3>1. Radix + n - 1 = next /\ ~ (n < Len(d)) /\ d[n] = p
      BY <1>4, <2>2
    <3> QED
      BY <1>1, <1>8, <3>1 DEF Following
  <2> QED
    BY <1>4, <2>1, <2>2
<1>10. Spelt(b, d, c, next + 1)
  BY <1>6, <1>7, <1>8, <1>9 DEF Spelt
<1> QED
  BY <1>10 DEF d

\* What the compressor's dictionary returns for each key.
Lookups == [k \in Key |-> D!Lookup(k)]

\* The bytes read by the loop are what the codes emitted and the prefix spell.
SpellInv ==
  InRange /\ pc # "returned" =>
    /\ Ordered(Lookups) /\ AllBelow(Lookups, next_code)
    /\ Spelt(Lookups, out_code, prefix_code, next_code)
    /\ i < Len(chunk) =>
         Spell(Lookups, out_code) \o Strings(Lookups)[prefix_code] = SubSeq(chunk, 1, i + 1)
    /\ i = Len(chunk) =>
         Spell(Lookups, out_code) = IF answer = Miss THEN chunk ELSE Append(chunk, tail)

\* What lookups return is a function of the two tables.
LEMMA LookupsKept ==
  ASSUME UNCHANGED <<hash_table, key_mem, value>>
  PROVE  Lookups' = Lookups
<1>1. \A k \in Key : D!Lookup(k)' = D!Lookup(k)
  BY D!NoInsertEffect, DictSizes, DictFields
<1>2. Lookups' = [k \in Key |-> D!Lookup(k)']
  BY DEF Lookups
<1> QED
  BY <1>1, <1>2 DEF Lookups

\* A string learnt adds its key to what lookups return, and changes nothing else.
LEMMA LookupsLearnt ==
  ASSUME D!IInv, fill' <= ShiftBits, next_code < CodeSpace, NEW k \in Key, Learnt1(k)
  PROVE  Adds(Lookups, Lookups', k, next_code)
<1>1. next_code \in Nat /\ next_code % CodeSpace = next_code
  BY Sizes DEF D!IInv, D!TypeOK
<1>2. D!Reachable'
  BY DEF D!Reachable
<1>3. ~ D!Hit(k) /\ (D!HashInsert(k) \/ D!AssocInsert(k))
  BY DEF Learnt1
<1>4. /\ D!Lookup(k)' = next_code % CodeSpace
      /\ \A l \in Key \ {k} : D!Hit(l)' = D!Hit(l)
      /\ \A l \in Key : D!Hit(l) => l # k /\ D!Lookup(l)' = D!Lookup(l)
  BY <1>2, <1>3, D!InsertEffect, DictSizes, DictFields
<1>5. \A l \in Key : ~ D!Hit(l) => D!Lookup(l) = Miss
  BY HitHasCode
<1>6. \A l \in Key : ~ D!Hit(l)' => D!Lookup(l)' = Miss
  BY DEF D!Hit, D!Lookup
<1>7. \A l \in Key \ {k} : D!Lookup(l)' = D!Lookup(l)
  BY <1>4, <1>5, <1>6
<1>8. Lookups' = [l \in Key |-> D!Lookup(l)']
  BY DEF Lookups
<1> QED
  BY <1>1, <1>3, <1>4, <1>5, <1>7, <1>8 DEF Adds, Lookups

\* The dictionary only grows: what is in range after a step was so before it.
LEMMA RangeStep ==
  ASSUME LoopInv, [Next]_vars, InRange'
  PROVE  /\ InRange
         /\ chunk' = chunk /\ tail' = tail
<1>1. CASE Iterate
  <2> DEFINE k == KeyOf(prefix_code, next_char)
  <2>1. UNCHANGED <<chunk, tail>> /\ k \in Key /\ D!Probe(k)
    BY <1>1, Probes
  <2> HIDE DEF k
  <2>2. fill \in Nat /\ next_code \in Nat
    BY DictAssumption DEF LoopInv, D!IInv, D!TypeOK
  <2>3. fill' \in {fill, fill + 1} /\ next_code' \in {next_code, next_code + 1}
    BY <2>1, ProbeOutcome DEF LoopInv, Found, Refused, Learnt1, D!HashInsert, D!AssocInsert
  <2>4. fill' <= ShiftBits /\ next_code' <= CodeSpace
    BY DEF InRange, Fits, Dict!Reachable
  <2>5. fill <= ShiftBits /\ next_code <= CodeSpace
    BY <2>2, <2>3, <2>4, Sizes, DictAssumption
  <2> QED
    BY <2>1, <2>5 DEF InRange, Fits, Dict!Reachable
<1>2. CASE UNCHANGED <<input, dict>>
  BY <1>2 DEF input, dict, InRange, Fits, Dict!Reachable
<1> QED
  BY <1>1, <1>2 DEF Next, vars, Extend, Emit, Return, Pack, Decompress, DecodeFirst,
                    DecodeNext, DecodeUndefined, DecodeEnd

\* In range, an iteration reads the next byte as it is.
LEMMA ReadChar ==
  ASSUME LoopInv, InRange, Iterate
  PROVE  /\ next_char \in Byte /\ next_char = Append(chunk, tail)[i + 2]
         /\ next_char % CodeSpace = next_char
<1>1. PICK b \in Letter : next_char = Char(b) /\ b = Append(chunk, tail)[i + 2]
  BY Probes
<1>2. i + 2 \in 2 .. Len(chunk) + 1
  BY Probes
<1>3. next_char >= 0
  BY <1>1, <1>2 DEF InRange
<1>4. next_char = b /\ b \in Byte
  BY <1>1, <1>3, CharType
<1>5. b % CodeSpace = b
  <2>1. \A n \in Nat : b \in 0 .. n - 1 => b % n = b
    OBVIOUS
  <2>2. b \in 0 .. CodeSpace - 1 /\ CodeSpace \in Nat
    BY <1>4, Sizes DEF Byte
  <2> QED
    BY <2>1, <2>2
<1> QED
  BY <1>1, <1>4, <1>5

\* Concatenation and one element more.
LEMMA Concatenation ==
  ASSUME NEW s \in Seq(Byte), NEW t \in Seq(Byte), NEW c \in Byte
  PROVE  s \o Append(t, c) = Append(s \o t, c) /\ s \o <<c>> = Append(s, c)
OBVIOUS

\* The bytes read and the next one are the bytes read after it.
LEMMA NextByte ==
  ASSUME NEW s \in Seq(Byte)
  PROVE  /\ \A n \in 1 .. Len(s) - 1 : Append(SubSeq(s, 1, n), s[n + 1]) = SubSeq(s, 1, n + 1)
         /\ SubSeq(s, 1, Len(s)) = s
OBVIOUS

\* A hit preserves the invariant: prefix and byte are spelt by the code found.
LEMMA ExtendSpells ==
  ASSUME LoopInv, SpellInv, Extend, InRange'
  PROVE  SpellInv'
<1> DEFINE a == Lookups
           p == prefix_code
           c == next_char
           k == KeyOf(p, c)
           text == Strings(a)
<1>0. InRange /\ chunk' = chunk /\ tail' = tail
  BY RangeStep DEF Next
<1>1. /\ pc = "compress" /\ i \in Nat /\ i < Len(chunk) /\ Len(chunk) \in Nat
      /\ k \in Key /\ D!Probe(k)
  BY Probes DEF Extend
<1>2. c \in Byte /\ c = Append(chunk, tail)[i + 2]
  BY <1>0, ReadChar DEF Extend
<1>3. answer' # Miss /\ i' = i + 1 /\ prefix_code' = answer'
  BY DEF Extend
<1>4. Found(k)
  <2> HIDE DEF k
  <2> QED
    BY <1>1, <1>3, ProbeOutcome DEF LoopInv, Learnt1, Refused
<1>5. answer' = a[k] /\ Lookups' = a /\ next_code' = next_code /\ a[k] # Miss
  <2> HIDE DEF k
  <2>1. answer' = a[k] /\ next_code' = next_code
    BY <1>1, <1>4 DEF Found, Lookups
  <2>2. Lookups' = a
    BY <1>4, LookupsKept DEF Found
  <2> QED
    BY <1>3, <2>1, <2>2
<1>6. /\ Ordered(a) /\ AllBelow(a, next_code) /\ Spelt(a, out_code, p, next_code)
      /\ Spell(a, out_code) \o text[p] = SubSeq(chunk, 1, i + 1)
  BY <1>0, <1>1 DEF SpellInv
<1>7. out_code \in Seq(Code) /\ next_code \in Nat /\ Len(out_code) = next_code - Radix
  <2>1. next_code \in Nat /\ Radix \in Nat
    BY Sizes DEF LoopInv, D!IInv, D!TypeOK
  <2> QED
    BY <1>1, <2>1 DEF LoopInv, Count
<1>8. a[k] < next_code
  BY <1>1, <1>5, <1>6 DEF AllBelow
<1> HIDE DEF a, p, c, text
<1>9. /\ a[k] \in Code /\ Prolongs(a, a[k], p, c)
      /\ Spelt(a, out_code, a[k], next_code)
      /\ Spelt(a, Append(out_code, a[k]), a[k], next_code)
  BY <1>1, <1>2, <1>5, <1>6, <1>7, <1>8, SpeltExtend
<1> DEFINE q == a[k]
<1> HIDE DEF k, q
<1>10. /\ KnownAll(a, out_code) /\ Known(a, p) /\ Known(a, q)
  BY <1>6, <1>9 DEF Spelt, q
<1>11. /\ Spell(a, out_code) \in Seq(Byte) /\ text[p] \in Seq(Byte)
       /\ Spell(a, Append(out_code, q)) = Spell(a, out_code) \o text[q]
  BY <1>6, <1>7, <1>10, SpellAppend DEF text
<1>12. chunk \in Seq(Byte) /\ tail \in Byte
  BY ChunkType, WidthAssumption DEF LoopInv
<1>13. Spell(a, out_code) \o text[q] = Append(SubSeq(chunk, 1, i + 1), c)
  <2>1. text[q] = Append(text[p], c)
    BY <1>9 DEF text, q, Prolongs
  <2>2. Spell(a, out_code) \o Append(text[p], c) = Append(Spell(a, out_code) \o text[p], c)
    BY <1>2, <1>11, Concatenation
  <2> QED
    BY <1>6, <2>1, <2>2
<1>14. CASE i + 1 = Len(chunk)
  <2>0. out_code' = Append(out_code, answer')
    BY <1>14 DEF Extend, AtLast
  <2>1. out_code' = Append(out_code, q)
    BY <1>5, <2>0 DEF q
  <2>2. c = tail
    <3>1. i + 2 = Len(chunk) + 1
      BY <1>1, <1>14
    <3> QED
      BY <1>2, <3>1, ChunkType DEF LoopInv
  <2>3. SubSeq(chunk, 1, i + 1) = chunk
    BY <1>12, <1>14, NextByte
  <2>4. Spell(a, Append(out_code, q)) = Append(chunk, tail)
    BY <1>11, <1>13, <2>2, <2>3
  <2>5. i' = Len(chunk') /\ ~ (i' < Len(chunk'))
    BY <1>0, <1>1, <1>3, <1>14
  <2>6. Spelt(a, Append(out_code, q), q, next_code)
    BY <1>9 DEF q
  <2>7. prefix_code' = q /\ answer' # Miss
    BY <1>3, <1>5 DEF q
  <2> QED
    BY <1>0, <1>5, <1>6, <2>1, <2>4, <2>5, <2>6, <2>7 DEF SpellInv
<1>15. CASE i + 1 # Len(chunk)
  <2>1. out_code' = out_code
    BY <1>15 DEF Extend, AtLast
  <2>2. i + 1 \in 1 .. Len(chunk) - 1 /\ c = chunk[(i + 1) + 1]
    BY <1>1, <1>2, <1>12, <1>15
  <2>3. Append(SubSeq(chunk, 1, i + 1), c) = SubSeq(chunk, 1, (i + 1) + 1)
    BY <1>12, <2>2, NextByte
  <2> QED
    BY <1>0, <1>1, <1>3, <1>5, <1>6, <1>9, <1>13, <1>15, <2>1, <2>3 DEF SpellInv, q, text
<1> QED
  BY <1>14, <1>15

\* A miss preserves it: the prefix is emitted, the byte takes its place.
LEMMA EmitSpells ==
  ASSUME LoopInv, SpellInv, Emit, InRange'
  PROVE  SpellInv'
<1> DEFINE a == Lookups
           b == Lookups'
           p == prefix_code
           c == next_char
           k == KeyOf(p, c)
<1>0. InRange /\ chunk' = chunk /\ tail' = tail
  BY RangeStep DEF Next
<1>1. /\ pc = "compress" /\ i \in Nat /\ i < Len(chunk) /\ Len(chunk) \in Nat
      /\ k \in Key /\ D!Probe(k)
  BY Probes DEF Emit
<1>2. c \in Byte /\ c = Append(chunk, tail)[i + 2] /\ c % CodeSpace = c
  BY <1>0, ReadChar DEF Emit
<1>3. /\ answer' = Miss /\ ~ collision' /\ i' = i + 1
      /\ out_code' = Append(out_code, p) /\ prefix_code' = c
  BY <1>2 DEF Emit, Emitted
<1>4. Learnt1(k)
  <2>1. ~ collision
    BY <1>1 DEF D!Probe
  <2> HIDE DEF k
  <2> QED
    BY <1>1, <1>3, ProbeOutcome DEF LoopInv, Found, Refused
<1>5. /\ next_code \in Nat /\ next_code >= Radix /\ Radix \in Nat /\ CodeSpace \in Nat
      /\ next_code' = next_code + 1
      /\ out_code \in Seq(Code) /\ Len(out_code) = next_code - Radix
  <2>1. next_code \in Nat /\ Radix \in Nat /\ CodeSpace \in Nat
    BY Sizes DEF LoopInv, D!IInv, D!TypeOK
  <2>2. Len(out_code) = next_code - Radix /\ out_code \in Seq(Code)
    BY <1>1, <2>1 DEF LoopInv, Count
  <2>3. next_code >= Radix
    BY <2>1, <2>2
  <2> QED
    BY <1>4, <2>1, <2>2, <2>3 DEF Learnt1
<1>6. fill' <= ShiftBits /\ next_code < CodeSpace /\ next_code \in Code
  <2>1. fill' <= ShiftBits /\ next_code' <= CodeSpace
    BY DEF InRange, Fits, Dict!Reachable
  <2> QED
    BY <1>5, <2>1 DEF Code
<1>7. Adds(a, b, k, next_code)
  <2> HIDE DEF k
  <2> QED
    BY <1>1, <1>4, <1>6, LookupsLearnt DEF LoopInv
<1>8. /\ Ordered(a) /\ AllBelow(a, next_code) /\ Spelt(a, out_code, p, next_code)
      /\ Spell(a, out_code) \o Strings(a)[p] = SubSeq(chunk, 1, i + 1)
  BY <1>0, <1>1 DEF SpellInv
<1>9. Known(a, p) /\ KnownAll(a, out_code) /\ p \in Code
  BY <1>8 DEF Spelt, Known
<1> HIDE DEF a, p, c, b
<1>10. Ordered(b) /\ Extends(a, b) /\ AllBelow(b, next_code + 1)
  BY <1>1, <1>2, <1>5, <1>6, <1>7, <1>8, <1>9, Learn
<1>11. Spelt(b, Append(out_code, p), c, next_code + 1)
  BY <1>1, <1>2, <1>5, <1>6, <1>7, <1>8, SpeltEmit
<1>12. Spell(b, Append(out_code, p)) = SubSeq(chunk, 1, i + 1)
  <2>1. KnownAll(b, out_code) /\ Spell(b, out_code) = Spell(a, out_code)
    BY <1>5, <1>8, <1>9, <1>10, SpellKept
  <2>2. Known(b, p) /\ Strings(b)[p] = Strings(a)[p]
    BY <1>8, <1>9, <1>10, StringsKept
  <2>3. Spell(b, Append(out_code, p)) = Spell(b, out_code) \o Strings(b)[p]
    BY <1>5, <1>10, <2>1, <2>2, SpellAppend
  <2> QED
    BY <1>8, <2>1, <2>2, <2>3
<1>13. chunk \in Seq(Byte) /\ tail \in Byte
  BY ChunkType, WidthAssumption DEF LoopInv
<1>14. /\ i' < Len(chunk') =>
            Spell(b, out_code') \o Strings(b)[prefix_code'] = SubSeq(chunk', 1, i' + 1)
       /\ i' = Len(chunk') => Spell(b, out_code') = chunk'
  <2>1. CASE i + 1 = Len(chunk)
    <3>1. SubSeq(chunk, 1, i + 1) = chunk
      BY <1>13, <2>1, NextByte
    <3>2. i' = Len(chunk') /\ ~ (i' < Len(chunk'))
      BY <1>0, <1>1, <1>3, <2>1
    <3> QED
      BY <1>0, <1>3, <1>12, <3>1, <3>2
  <2>2. CASE i + 1 # Len(chunk)
    <3>1. i' < Len(chunk') /\ i' # Len(chunk')
      BY <1>0, <1>1, <1>3, <2>2
    <3>2. i + 1 \in 1 .. Len(chunk) - 1 /\ c = chunk[(i + 1) + 1]
      BY <1>1, <1>2, <1>13, <2>2
    <3>3. Append(SubSeq(chunk, 1, i + 1), c) = SubSeq(chunk, 1, (i + 1) + 1)
      BY <1>13, <3>2, NextByte
    <3>4. Strings(b)[c] = <<c>>
      BY <1>2, StringOfByte
    <3>5. SubSeq(chunk, 1, i + 1) \in Seq(Byte)
      BY <1>13, <3>2
    <3>6. SubSeq(chunk, 1, i + 1) \o <<c>> = Append(SubSeq(chunk, 1, i + 1), c)
      BY <1>2, <1>13, <3>5, Concatenation
    <3>7. Spell(b, out_code') \o Strings(b)[prefix_code'] = SubSeq(chunk, 1, (i + 1) + 1)
      BY <1>3, <1>12, <3>3, <3>4, <3>6
    <3> QED
      BY <1>0, <1>3, <3>1, <3>7
  <2> QED
    BY <2>1, <2>2
<1> QED
  BY <1>3, <1>5, <1>10, <1>11, <1>14 DEF SpellInv, b

\* The first byte is read, and the prefix spells it.
LEMMA SpellInit == Init => SpellInv
<1> SUFFICES ASSUME Init PROVE SpellInv
  OBVIOUS
<1>0. /\ Dict!Init /\ chunk \in Chunks /\ tail \in Letter /\ i = 0 /\ prefix_code = chunk[1]
      /\ out_code = << >>
  BY DEF Init
<1>1. \A k \in Key : Lookups[k] = Miss
  <2>1. \A k \in Key : ~ D!InHash(k)
    BY <1>0 DEF Dict!Init, D!InHash, Dict!Bucket, Dict!Empty
  <2>2. \A k \in Key : D!Match(k) = {}
    BY <1>0, D!FieldType, DictSizes, DictFields DEF Dict!Init, D!Match, Dict!Memory, D!Memory
  <2> QED
    BY <2>1, <2>2 DEF Lookups, D!Lookup
<1>2. Ordered(Lookups) /\ AllBelow(Lookups, next_code)
  BY <1>1 DEF Ordered, AllBelow
<1>3. /\ chunk \in Seq(Byte) /\ Len(chunk) \in Nat \ {0} /\ chunk[1] \in Byte
  BY <1>0, ChunkType, WidthAssumption
<1>4. next_code - Radix = 0 /\ Len(out_code) = 0
  BY <1>0, Sizes DEF Dict!Init
<1>5. Known(Lookups, prefix_code) /\ Strings(Lookups)[prefix_code] = <<chunk[1]>>
  BY <1>0, <1>3, StringOfByte
<1>6. Spelt(Lookups, out_code, prefix_code, next_code)
  BY <1>4, <1>5 DEF Spelt, KnownAll
<1>7. Spell(Lookups, out_code) = << >>
  <2>1. Texts(Lookups, << >>) = << >>
    BY DEF Texts
  <2> QED
    BY <1>0, <2>1, FlattenEmpty DEF Spell
<1>8. << >> \o <<chunk[1]>> = SubSeq(chunk, 1, 1)
  BY <1>3
<1> QED
  BY <1>0, <1>2, <1>3, <1>5, <1>6, <1>7, <1>8 DEF SpellInv

\* Every step preserves what is spelt.
LEMMA SpellStep == LoopInv /\ SpellInv /\ [Next]_vars => SpellInv'
<1> SUFFICES ASSUME LoopInv, SpellInv, [Next]_vars, InRange', pc' # "returned" PROVE SpellInv'
  BY DEF SpellInv
<1>1. InRange
  BY RangeStep
<1>2. CASE Return
  BY <1>2 DEF Return
<1>3. CASE Pack \/ Decompress \/ UNCHANGED vars
  <2>1. UNCHANGED <<chunk, tail, hash_table, key_mem, value, next_code, answer, i,
                    prefix_code, out_code>>
    BY <1>3 DEF Pack, Decompress, DecodeFirst, DecodeNext, DecodeUndefined, DecodeEnd, vars,
                input, dict, loop
  <2>2. pc # "returned"
    BY <1>3 DEF Pack, Decompress, DecodeFirst, DecodeNext, DecodeUndefined, DecodeEnd, vars
  <2>3. Lookups' = Lookups
    BY <2>1, LookupsKept
  <2> QED
    BY <1>1, <2>1, <2>2, <2>3 DEF SpellInv
<1> QED
  BY <1>2, <1>3, ExtendSpells, EmitSpells DEF Next

\* The invariant of what is spelt holds for every chunk.
THEOREM SpellInvHolds == Spec => []SpellInv
BY LoopInvHolds, SpellInit, SpellStep, PTL DEF Spec

\* Text is Strings of what the dictionary returns.
LEMMA TextIs == Text = Strings(Lookups)
BY DEF Text, Lookups, Dict!Lookup, D!Lookup, Dict!InHash, D!InHash, Dict!Match, D!Match,
       Dict!Address, D!Address, Dict!Bit, D!Bit, Dict!Memory, D!Memory

\* The loop invariant of the compressor (lzw.cpp:269-296): codes and pending prefix
\* spell the bytes read, for every chunk that keeps the dictionary in range.
THEOREM CodesSpellInput == Spec => []EmittedSpellsInput
<1>2. ASSUME LoopInv, SpellInv PROVE EmittedSpellsInput
  BY TextIs, <1>2 DEF SpellInv, EmittedSpellsInput, Spell, Texts
<1> QED
  BY <1>2, LoopInvHolds, SpellInvHolds, PTL

-----------------------------------------------------------------------------
(* Reading the codes back from the bits of a record.                       *)

\* The bits of a byte above the lowest j.
Upper(B, j) == B \div Power(2)[j]

\* Quotient and remainder make the number.
LEMMA Remainder ==
  ASSUME NEW n \in Nat, NEW k \in Nat \ {0}
  PROVE  n = k * (n \div k) + (n % k)
OBVIOUS

\* Dividing by twice a number is dividing by it, then by two.
LEMMA HalfDivision ==
  ASSUME NEW n \in Nat, NEW m \in Nat \ {0}
  PROVE  n \div (2 * m) = (n \div m) \div 2
<1> DEFINE q == n \div m
           r == n % m
<1>1. n = q * m + r /\ q \in Nat /\ r \in 0 .. m - 1
  OBVIOUS
<1> HIDE DEF q, r
<1> DEFINE h == q \div 2
<1>2. h \in Nat /\ (q = 2 * h \/ q = 2 * h + 1)
  BY <1>1
<1> HIDE DEF h
<1>3. \E e \in 0 .. 2 * m - 1 : n = h * (2 * m) + e
  <2>1. CASE q = 2 * h
    <3>1. q * m = h * (2 * m) /\ r \in 0 .. 2 * m - 1
      BY <1>1, <1>2, <2>1
    <3> QED
      BY <1>1, <3>1
  <2>2. CASE q = 2 * h + 1
    <3>1. q * m = h * (2 * m) + m
      BY <1>2, <2>2
    <3>2. h * (2 * m) \in Nat
      BY <1>2
    <3>3. n = h * (2 * m) + (m + r) /\ m + r \in 0 .. 2 * m - 1
      BY <1>1, <3>1, <3>2
    <3> QED
      BY <3>3
  <2> QED
    BY <1>2, <2>1, <2>2
<1>4. PICK e \in 0 .. 2 * m - 1 : n = h * (2 * m) + e
  BY <1>3
<1>5. 2 * m \in Nat \ {0} /\ h \in Int
  BY <1>2
<1>6. (h * (2 * m) + e) \div (2 * m) = h
  BY <1>5, Division
<1> QED
  BY <1>4, <1>6 DEF h, q

\* The bits above the lowest j are those above the lowest j + 1 and one bit more.
LEMMA UpperIs ==
  ASSUME NEW B \in Byte
  PROVE  /\ \A j \in Nat : /\ Upper(B, j) \in Nat
                           /\ Upper(B, j) = 2 * Upper(B, j + 1) + (Upper(B, j) % 2)
         /\ Upper(B, 0) = B /\ Upper(B, H) = B \div Half /\ Upper(B, 2 * H) = 0
<1> DEFINE pow == Power(2)
<1>1. B \in Nat /\ B < Radix
  BY Sizes DEF Byte
<1>2. \A j \in Nat : pow[j] \in Nat \ {0} /\ pow[j + 1] = 2 * pow[j]
  BY PowerIs, PowerPositive
<1>3. pow[0] = 1 /\ pow[H] = Half /\ pow[2 * H] = Radix
  BY PowerIs, Widths DEF Radix
<1> HIDE DEF pow
<1>4. ASSUME NEW j \in Nat
      PROVE  B \div pow[j] \in Nat /\ B \div pow[j] = 2 * (B \div pow[j + 1]) + ((B \div pow[j]) % 2)
  <2>1. pow[j] \in Nat \ {0} /\ pow[j + 1] = 2 * pow[j]
    BY <1>2
  <2> DEFINE q == B \div pow[j]
  <2>2. q \in Nat
    BY <1>1, <2>1
  <2>3. B \div pow[j + 1] = q \div 2
    BY <1>1, <2>1, HalfDivision
  <2> HIDE DEF q
  <2>4. 2 \in Nat \ {0}
    OBVIOUS
  <2>5. q = 2 * (q \div 2) + (q % 2)
    BY <2>2, <2>4, Remainder
  <2> QED
    BY <2>2, <2>3, <2>5 DEF q
<1>5. B \div 1 = B
  BY <1>1
<1>6. B \div Radix = 0
  <2>1. \A n \in Nat : B < n => B \div n = 0
    BY <1>1
  <2> QED
    BY <1>1, <2>1, Sizes
<1> QED
  BY <1>3, <1>4, <1>5, <1>6 DEF Upper, pow

\* A bit of the input is a bit of a byte, the highest first.
LEMMA InputBitIs ==
  ASSUME record \in Seq(Byte), NEW x \in Nat, x < Len(record), NEW r \in 0 .. ByteBits - 1
  PROVE  InputBit(ByteBits * x + r) = Upper(record[x + 1], ByteBits - 1 - r) % 2
<1>1. ByteBits \in Nat \ {0} /\ x \in Int
  BY WidthAssumption
<1>2. ByteBits * x = x * ByteBits
  BY <1>1
<1>3. (ByteBits * x + r) \div ByteBits = x /\ (ByteBits * x + r) % ByteBits = r
  BY <1>1, <1>2, Division
<1> QED
  BY <1>3 DEF InputBit, Upper

\* The arithmetic of reading one bit more.
LEMMA NextBit ==
  ASSUME NEW F \in Nat, NEW U \in Nat, NEW P \in Nat, NEW v \in Nat, NEW y \in Nat,
         NEW z \in Nat, z = 2 * y + (z % 2), v = (F - U) * P + y
  PROVE  2 * v + (z % 2) = (F - U) * (2 * P) + z
<1> DEFINE d == (F - U) * P
           b == z % 2
<1>1. d \in Int /\ (F - U) * (2 * P) = 2 * d /\ b \in Int /\ v = d + y /\ z = 2 * y + b
  OBVIOUS
<1> HIDE DEF d, b
<1>2. 2 * v + b = 2 * d + z
  BY <1>1
<1> QED
  BY <1>1, <1>2 DEF b

\* f[n] is the number that the n bits from pos on make.
Bits(f, pos) == /\ f \in [Nat -> Nat] /\ f[0] = 0
                /\ \A n \in Nat : f[n + 1] = 2 * f[n] + InputBit(pos + n)

\* Reading w bits of a byte from its bit o on appends them to the s bits read so far.
LEMMA ReadBits ==
  ASSUME record \in Seq(Byte), NEW pos \in Nat, NEW f, Bits(f, pos),
         NEW x \in Nat, x < Len(record), NEW s \in Nat, NEW o \in Nat,
         pos + s = ByteBits * x + o
  PROVE  \A w \in Nat : o + w <= ByteBits =>
           f[s + w] = (f[s] - Upper(record[x + 1], ByteBits - o)) * Power(2)[w]
                        + Upper(record[x + 1], ByteBits - o - w)
<1> DEFINE pow == Power(2)
           u == [j \in Nat |-> Upper(record[x + 1], j)]
           e == ByteBits - o
           T == {w \in Nat : w <= e => f[s + w] = (f[s] - u[e]) * pow[w] + u[e - w]}
<1>0. pow[0] = 1
  BY PowerIs
<1>1. \A w \in Nat : pow[w] \in Nat /\ pow[w + 1] = 2 * pow[w]
  BY PowerIs
<1>2. record[x + 1] \in Byte /\ ByteBits \in Nat
  <2>1. x + 1 \in 1 .. Len(record)
    OBVIOUS
  <2> QED
    BY <2>1, WidthAssumption
<1>3. \A j \in Nat : u[j] \in Nat /\ u[j] = 2 * u[j + 1] + (u[j] % 2)
  <2>1. \A j \in Nat : j + 1 \in Nat
    OBVIOUS
  <2> QED
    BY <1>2, <2>1, UpperIs
<1>4. ASSUME NEW w \in Nat, w + 1 <= e
      PROVE  InputBit(pos + (s + w)) = u[e - (w + 1)] % 2
  <2>1. /\ o + w \in 0 .. ByteBits - 1 /\ ByteBits - 1 - (o + w) = e - (w + 1)
        /\ e - (w + 1) \in Nat
    BY <1>2, <1>4
  <2>2. pos + (s + w) = ByteBits * x + (o + w)
    <3> DEFINE y == ByteBits * x
    <3>1. y \in Nat /\ pos + s = y + o
      BY <1>2
    <3> HIDE DEF y
    <3>2. pos + (s + w) = y + (o + w)
      BY <3>1
    <3> QED
      BY <3>2 DEF y
  <2> QED
    BY <2>1, <2>2, InputBitIs
<1>5. \A w \in Nat : f[s + (w + 1)] = 2 * f[s + w] + InputBit(pos + (s + w))
  <2>1. \A w \in Nat : s + w \in Nat /\ (s + w) + 1 = s + (w + 1)
    OBVIOUS
  <2> QED
    BY <2>1 DEF Bits
<1>6. e \in Int /\ f[s] \in Nat /\ \A w \in Nat : f[s + w] \in Nat
  <2>1. f \in [Nat -> Nat]
    BY DEF Bits
  <2>2. \A w \in Nat : s + w \in Nat
    OBVIOUS
  <2>3. e \in Int
    BY <1>2
  <2>4. f[s] \in Nat /\ \A w \in Nat : f[s + w] \in Nat
    BY <2>1, <2>2
  <2> QED
    BY <2>3, <2>4
<1> HIDE DEF u, pow, e
<1>7. 0 \in T
  <2> SUFFICES ASSUME 0 <= e PROVE f[s + 0] = (f[s] - u[e]) * pow[0] + u[e - 0]
    OBVIOUS
  <2>1. e \in Nat /\ e - 0 = e /\ s + 0 = s
    BY <1>6
  <2>2. u[e] \in Nat /\ f[s] \in Nat
    BY <1>3, <1>6, <2>1
  <2>3. \A y, z \in Nat : y = (y - z) * 1 + z
    OBVIOUS
  <2> QED
    BY <1>0, <2>1, <2>2, <2>3
<1>8. ASSUME NEW w \in Nat, w \in T PROVE w + 1 \in T
  <2> SUFFICES ASSUME w + 1 <= e
               PROVE  f[s + (w + 1)] = (f[s] - u[e]) * pow[w + 1] + u[e - (w + 1)]
    OBVIOUS
  <2>1. /\ e \in Nat /\ w <= e /\ e - (w + 1) \in Nat /\ (e - (w + 1)) + 1 = e - w
        /\ e - w \in Nat
    BY <1>6
  <2>2. f[s + w] = (f[s] - u[e]) * pow[w] + u[e - w]
    BY <1>8, <2>1
  <2>3. f[s + (w + 1)] = 2 * f[s + w] + (u[e - (w + 1)] % 2)
    <3>1. f[s + (w + 1)] = 2 * f[s + w] + InputBit(pos + (s + w))
      BY <1>5
    <3>2. InputBit(pos + (s + w)) = u[e - (w + 1)] % 2
      BY <1>4
    <3> QED
      BY <3>1, <3>2
  <2>4. u[e - (w + 1)] = 2 * u[e - w] + (u[e - (w + 1)] % 2)
    BY <1>3, <2>1
  <2>5. /\ pow[w + 1] = 2 * pow[w] /\ pow[w] \in Nat /\ f[s] \in Nat /\ u[e] \in Nat
        /\ u[e - w] \in Nat /\ u[e - (w + 1)] \in Nat
    BY <1>1, <1>3, <1>6, <2>1
  <2>7. f[s + w] \in Nat
    BY <1>6
  <2>8. 2 * f[s + w] + (u[e - (w + 1)] % 2) = (f[s] - u[e]) * (2 * pow[w]) + u[e - (w + 1)]
    <3> DEFINE F == f[s]
               U == u[e]
               P == pow[w]
               v == f[s + w]
               y == u[e - w]
               z == u[e - (w + 1)]
    <3>1. /\ F \in Nat /\ U \in Nat /\ P \in Nat /\ v \in Nat /\ y \in Nat /\ z \in Nat
          /\ z = 2 * y + (z % 2) /\ v = (F - U) * P + y
      BY <2>2, <2>4, <2>5, <2>7
    <3> HIDE DEF F, U, P, v, y, z
    <3>2. 2 * v + (z % 2) = (F - U) * (2 * P) + z
      BY <3>1, NextBit
    <3> QED
      BY <3>2 DEF F, U, P, v, y, z
  <2> QED
    BY <2>3, <2>5, <2>8
<1>9. Nat \subseteq T
  <2> HIDE DEF T
  <2> QED
    BY <1>7, <1>8, Induct
<1> SUFFICES ASSUME NEW w \in Nat, o + w <= ByteBits
             PROVE  f[s + w] = (f[s] - Upper(record[x + 1], ByteBits - o)) * Power(2)[w]
                                 + Upper(record[x + 1], ByteBits - o - w)
  OBVIOUS
<1>10. w <= e /\ e \in Nat /\ e - w \in Nat
  BY <1>2 DEF e
<1>11. f[s + w] = (f[s] - u[e]) * pow[w] + u[e - w]
  BY <1>9, <1>10
<1>12. u[e] = Upper(record[x + 1], ByteBits - o) /\ u[e - w] = Upper(record[x + 1], ByteBits - o - w)
  BY <1>10 DEF u, e
<1> QED
  BY <1>11, <1>12 DEF pow

\* Reading a byte, its upper half, its lower half.
LEMMA ReadByte ==
  ASSUME record \in Seq(Byte), NEW pos \in Nat, NEW f, Bits(f, pos),
         NEW x \in Nat, x < Len(record), NEW s \in Nat
  PROVE  /\ pos + s = ByteBits * x => f[s + 2 * H] = f[s] * Radix + record[x + 1]
         /\ pos + s = ByteBits * x => f[s + H] = f[s] * Half + record[x + 1] \div Half
         /\ pos + s = ByteBits * x + H => f[s + H] = f[s] * Half + (record[x + 1] % Half)
<1> DEFINE B == record[x + 1]
<1>0. /\ H \in Nat \ {0} /\ ByteBits = 2 * H /\ Power(2)[H] = Half /\ Power(2)[2 * H] = Radix
      /\ Half \in Nat \ {0} /\ Radix \in Nat
  BY Widths DEF Radix
<1>1. B \in Byte /\ f[s] \in Nat
  <2>1. x + 1 \in 1 .. Len(record)
    OBVIOUS
  <2>2. f \in [Nat -> Nat]
    BY DEF Bits
  <2>3. f[s] \in Nat
    BY <2>2
  <2>4. record[x + 1] \in Byte
    BY <2>1
  <2> QED
    BY <2>3, <2>4
<1> HIDE DEF B
<1>2. B \in Nat /\ Upper(B, 0) = B /\ Upper(B, H) = B \div Half /\ Upper(B, 2 * H) = 0
  <2>1. B \in Nat
    BY <1>1, Sizes DEF Byte
  <2>2. Upper(B, 0) = B /\ Upper(B, H) = B \div Half /\ Upper(B, 2 * H) = 0
    BY <1>1, UpperIs
  <2> QED
    BY <2>1, <2>2
<1>3. ByteBits * x \in Nat /\ ByteBits * x + 0 = ByteBits * x
  BY <1>0
<1>4. ASSUME pos + s = ByteBits * x
      PROVE  f[s + 2 * H] = f[s] * Radix + B /\ f[s + H] = f[s] * Half + B \div Half
  <2>1. pos + s = ByteBits * x + 0
    BY <1>3, <1>4
  <2>2. \A w \in Nat : 0 + w <= ByteBits =>
          f[s + w] = (f[s] - Upper(B, ByteBits - 0)) * Power(2)[w] + Upper(B, ByteBits - 0 - w)
    BY <2>1, ReadBits DEF B
  <2>3. /\ 2 * H \in Nat /\ H \in Nat /\ 0 + 2 * H <= ByteBits /\ 0 + H <= ByteBits
        /\ ByteBits - 0 = 2 * H /\ ByteBits - 0 - 2 * H = 0 /\ ByteBits - 0 - H = H
    BY <1>0
  <2>4. f[s + 2 * H] = (f[s] - 0) * Radix + B
    <3>1. f[s + 2 * H] = (f[s] - Upper(B, ByteBits - 0)) * Power(2)[2 * H]
                           + Upper(B, ByteBits - 0 - 2 * H)
      BY <2>2, <2>3
    <3> QED
      BY <1>0, <1>2, <2>3, <3>1
  <2>5. f[s + H] = (f[s] - 0) * Half + B \div Half
    <3>1. f[s + H] = (f[s] - Upper(B, ByteBits - 0)) * Power(2)[H] + Upper(B, ByteBits - 0 - H)
      BY <2>2, <2>3
    <3> QED
      BY <1>0, <1>2, <2>3, <3>1
  <2>6. f[s] - 0 = f[s]
    BY <1>1
  <2> QED
    BY <2>4, <2>5, <2>6
<1>5. ASSUME pos + s = ByteBits * x + H
      PROVE  f[s + H] = f[s] * Half + (B % Half)
  <2>1. \A w \in Nat : H + w <= ByteBits =>
          f[s + w] = (f[s] - Upper(B, ByteBits - H)) * Power(2)[w] + Upper(B, ByteBits - H - w)
    <3>1. H \in Nat
      BY <1>0
    <3> QED
      BY <1>5, <3>1, ReadBits DEF B
  <2>2. /\ H \in Nat /\ H + H <= ByteBits
        /\ ByteBits - H = H /\ ByteBits - H - H = 0
    BY <1>0
  <2>3. f[s + H] = (f[s] - B \div Half) * Half + B
    <3>1. f[s + H] = (f[s] - Upper(B, ByteBits - H)) * Power(2)[H] + Upper(B, ByteBits - H - H)
      BY <2>1, <2>2
    <3> QED
      BY <1>0, <1>2, <2>2, <3>1
  <2> DEFINE q == B \div Half
             r == B % Half
             F == f[s]
  <2>4. B = Half * q + r /\ q \in Nat /\ r \in Nat /\ F \in Nat
    <3>1. B = Half * q + r
      BY <1>0, <1>2, Remainder
    <3>2. q \in Nat /\ r \in Nat
      BY <1>0, <1>2
    <3> QED
      BY <1>1, <3>1, <3>2
  <2>5. f[s + H] = (F - q) * Half + B
    BY <2>3
  <2> HIDE DEF q, r, F
  <2>6. (F - q) * Half = F * Half - Half * q /\ F * Half \in Nat /\ Half * q \in Nat
    BY <1>0, <2>4
  <2>7. f[s + H] = F * Half + r
    BY <2>4, <2>5, <2>6
  <2> QED
    BY <2>7 DEF F, r
<1> QED
  BY <1>4, <1>5 DEF B

\* The three bytes of two codes.
LEMMA PackedBytes ==
  ASSUME NEW codes, NEW j \in Nat
  PROVE  LET a == PackedCode(codes, 2 * j + 1)
             b == PackedCode(codes, 2 * j + 2)
         IN /\ PackedByte(codes, 3 * j + 1) = a \div Half
            /\ PackedByte(codes, 3 * j + 2) = (a % Half) * Half + b \div Radix
            /\ PackedByte(codes, 3 * j + 3) = b % Radix
<1>1. /\ ((3 * j + 1) - 1) \div 3 = j /\ ((3 * j + 2) - 1) \div 3 = j
      /\ ((3 * j + 3) - 1) \div 3 = j
      /\ (3 * j + 1) % 3 = 1 /\ (3 * j + 2) % 3 = 2 /\ (3 * j + 3) % 3 = 0
  OBVIOUS
<1> QED
  BY <1>1 DEF PackedByte

\* The bits at a code's place in a packed record make the code.
LEMMA BitsOfCode ==
  ASSUME NEW codes \in Seq(Code), record = Packed(codes),
         NEW m \in Nat, m < Len(codes), NEW pos \in Nat, pos = (3 * H) * m,
         NEW f, Bits(f, pos)
  PROVE  f[3 * H] = codes[m + 1]
<1> DEFINE j == m \div 2
           a == PackedCode(codes, 2 * j + 1)
           b == PackedCode(codes, 2 * j + 2)
           B1 == record[3 * j + 1]
           B2 == record[(3 * j + 1) + 1]
           B3 == record[(3 * j + 2) + 1]
<1>1. /\ record \in Seq(Byte) /\ Len(record) = (3 * Len(codes) + 1) \div 2
      /\ \A n \in 1 .. Len(record) : record[n] = PackedByte(codes, n)
  BY PackedType
<1>2. Bits(f, pos)
  OBVIOUS
<1>3. f[0] = 0
  BY DEF Bits
<1>4. /\ j \in Nat /\ (m = 2 * j \/ m = 2 * j + 1)
      /\ 2 * j + 1 \in Nat \ {0} /\ 2 * j + 2 \in Nat \ {0} /\ Len(codes) \in Nat
  OBVIOUS
<1>5. /\ H \in Nat \ {0} /\ ByteBits = 2 * H /\ Half \in Nat \ {0} /\ Radix \in Nat \ {0}
      /\ CodeSpace = Radix * Half /\ CodeSpace \in Nat
  <2>1. Half \in Nat \ {0} /\ Radix \in Nat \ {0} /\ CodeSpace \in Nat
    BY Sizes
  <2> QED
    BY <2>1, Widths
<1> HIDE DEF j
<1>6. /\ 3 * j + 1 \in 1 .. Len(record) /\ (3 * j + 1) + 1 \in 1 .. Len(record)
      /\ 3 * j < Len(record) /\ 3 * j + 1 < Len(record)
      /\ m = 2 * j + 1 => (3 * j + 2) + 1 \in 1 .. Len(record) /\ 3 * j + 2 < Len(record)
  BY <1>1, <1>4
<1>7. \A n \in Nat \ {0} : PackedCode(codes, n) \in Nat /\ PackedCode(codes, n) < CodeSpace
  BY Sizes DEF PackedCode, Code
<1>8. a \in Nat /\ a < CodeSpace /\ b \in Nat /\ b < CodeSpace
  BY <1>4, <1>7
<1>9. /\ B1 = a \div Half /\ B2 = (a % Half) * Half + b \div Radix
      /\ m = 2 * j + 1 => B3 = b % Radix
  <2>1. (3 * j + 1) + 1 = 3 * j + 2 /\ (3 * j + 2) + 1 = 3 * j + 3
    BY <1>4
  <2> QED
    BY <1>1, <1>4, <1>6, <2>1, PackedBytes
<1>10. /\ m = 2 * j => a = codes[m + 1]
       /\ m = 2 * j + 1 => b = codes[m + 1]
  <2>1. 2 * j + 2 = (2 * j + 1) + 1
    BY <1>4
  <2> QED
    BY <1>4, <2>1 DEF PackedCode
<1>11. /\ 0 + 2 * H = 2 * H /\ 2 * H + H = 3 * H /\ 0 + H = H /\ H + 2 * H = 3 * H
       /\ 0 \in Nat /\ H \in Nat /\ 2 * H \in Nat
       /\ 3 * j \in Nat /\ 3 * j + 1 \in Nat /\ 3 * j + 2 \in Nat
  BY <1>4, <1>5
<1> HIDE DEF a, b, B1, B2, B3
<1>12. b \div Radix \in Nat /\ b \div Radix < Half
  BY <1>5, <1>8, Quotient
<1>13. a = Half * (a \div Half) + (a % Half) /\ a % Half \in Nat /\ a \div Half \in Nat
       /\ b = Radix * (b \div Radix) + (b % Radix) /\ b % Radix \in Nat
  BY <1>5, <1>8
<1>14. B2 \div Half = a % Half /\ B2 % Half = b \div Radix
  <2>1. a % Half \in Int /\ b \div Radix \in 0 .. Half - 1
    BY <1>5, <1>12, <1>13
  <2> QED
    BY <1>5, <1>9, <2>1, Division
<1>15. CASE m = 2 * j
  <2>1. pos + 0 = ByteBits * (3 * j) /\ pos + 2 * H = ByteBits * (3 * j + 1)
    <3>1. pos = (3 * H) * (2 * j)
      BY <1>15
    <3>2. (3 * H) * (2 * j) = (2 * H) * (3 * j) /\ (2 * H) * (3 * j) \in Nat
      BY <1>4, <1>5
    <3>3. (2 * H) * (3 * j + 1) = (2 * H) * (3 * j) + 2 * H
      BY <1>4, <1>5
    <3> QED
      BY <1>5, <3>1, <3>2, <3>3
  <2>3. f[2 * H] = f[0] * Radix + B1
    <3>1. f[0 + 2 * H] = f[0] * Radix + B1
      <4>1. /\ record \in Seq(Byte) /\ 3 * j \in Nat /\ 3 * j < Len(record) /\ 0 \in Nat
        BY <1>1, <1>6, <1>11
      <4> QED
        BY <1>2, <2>1, <4>1, ReadByte DEF B1
    <3> QED
      BY <1>11, <3>1
  <2>4. f[3 * H] = f[2 * H] * Half + B2 \div Half
    <3>1. f[2 * H + H] = f[2 * H] * Half + B2 \div Half
      <4>1. /\ record \in Seq(Byte) /\ Bits(f, pos) /\ 3 * j + 1 \in Nat
            /\ 3 * j + 1 < Len(record) /\ 2 * H \in Nat
        BY <1>1, <1>2, <1>6, <1>11
      <4> QED
        BY <2>1, <4>1, ReadByte DEF B2
    <3> QED
      BY <1>11, <3>1
  <2>5. f[2 * H] = B1
    BY <1>3, <1>5, <1>9, <1>13, <2>3
  <2>6. f[3 * H] = (a \div Half) * Half + (a % Half)
    BY <1>9, <1>14, <2>4, <2>5
  <2>7. f[3 * H] = a
    BY <1>5, <1>13, <2>6
  <2> QED
    BY <1>10, <1>15, <2>7
<1>16. CASE m = 2 * j + 1
  <2>1. pos + 0 = ByteBits * (3 * j + 1) + H /\ pos + H = ByteBits * (3 * j + 2)
    <3>1. pos = (3 * H) * (2 * j + 1)
      BY <1>16
    <3>2. /\ (3 * H) * (2 * j + 1) = (2 * H) * (3 * j) + 3 * H /\ (2 * H) * (3 * j) \in Nat
      BY <1>4, <1>5
    <3>3. /\ (2 * H) * (3 * j + 1) = (2 * H) * (3 * j) + 2 * H
          /\ (2 * H) * (3 * j + 2) = (2 * H) * (3 * j) + 4 * H
      BY <1>4, <1>5
    <3> QED
      BY <1>5, <3>1, <3>2, <3>3
  <2>3. f[H] = f[0] * Half + (B2 % Half)
    <3>1. f[0 + H] = f[0] * Half + (B2 % Half)
      <4>1. /\ record \in Seq(Byte) /\ 3 * j + 1 \in Nat /\ 3 * j + 1 < Len(record) /\ 0 \in Nat
        BY <1>1, <1>6, <1>11
      <4> QED
        BY <1>2, <2>1, <4>1, ReadByte DEF B2
    <3> QED
      BY <1>11, <3>1
  <2>4. f[3 * H] = f[H] * Radix + B3
    <3>1. f[H + 2 * H] = f[H] * Radix + B3
      <4>1. /\ record \in Seq(Byte) /\ Bits(f, pos) /\ 3 * j + 2 \in Nat
            /\ 3 * j + 2 < Len(record) /\ H \in Nat
        BY <1>1, <1>2, <1>6, <1>11, <1>16
      <4> QED
        BY <2>1, <4>1, ReadByte DEF B3
    <3> QED
      BY <1>11, <3>1
  <2>5. f[H] = b \div Radix
    BY <1>3, <1>5, <1>12, <1>14, <2>3
  <2>6. f[3 * H] = (b \div Radix) * Radix + (b % Radix)
    BY <1>9, <1>16, <2>4, <2>5
  <2>7. f[3 * H] = b
    BY <1>5, <1>12, <1>13, <2>6
  <2> QED
    BY <1>10, <1>16, <2>7
<1> QED
  BY <1>4, <1>15, <1>16

\* The decoder that reads codes of their width reads the code at its place.
LEMMA ReadCode ==
  ASSUME SameWidth, NEW codes \in Seq(Code), record = Packed(codes), Input_position \in Nat,
         NEW m \in Nat, m < Len(codes), Input_position = CodeLength * m
  PROVE  Read_code = codes[m + 1]
<1>1. record \in Seq(Byte)
  BY PackedType
<1>2. PICK f : Bits(f, Input_position) /\ Read_code = f[3 * H]
  BY <1>1, ReadIs DEF Bits, SameWidth
<1>3. Input_position = (3 * H) * m
  BY DEF SameWidth
<1> QED
  BY <1>2, <1>3, BitsOfCode

\* The decoder that reads one bit more takes the first code for its double, or one more.
LEMMA ReadWide ==
  ASSUME ShippedWidth, NEW codes \in Seq(Code), record = Packed(codes), 0 < Len(codes),
         Input_position = 0
  PROVE  \E bit \in {0, 1} : Read_code = 2 * codes[1] + bit
<1>1. record \in Seq(Byte) /\ 0 \in Nat /\ 0 + 1 = 1
  BY PackedType
<1>2. PICK f : Bits(f, 0) /\ Read_code = f[3 * H + 1]
  BY <1>1, ReadIs DEF Bits, ShippedWidth
<1>3. H \in Nat /\ (3 * H) * 0 = 0 /\ 3 * H \in Nat /\ 0 + 3 * H \in Nat
  BY Widths
<1>4. f[3 * H] = codes[1]
  BY <1>1, <1>2, <1>3, BitsOfCode
<1>5. f[3 * H + 1] = 2 * f[3 * H] + InputBit(0 + 3 * H)
  BY <1>2, <1>3 DEF Bits
<1>6. InputBit(0 + 3 * H) \in {0, 1}
  BY <1>1, <1>3, BitType
<1> QED
  BY <1>2, <1>4, <1>5, <1>6

-----------------------------------------------------------------------------
(* The decoder rebuilds the dictionary.                                    *)

\* The decoder's table holds the strings of the dictionary under their codes, and its
\* output is what the codes read so far spell.
MirrorInv ==
  InRange =>
    /\ pc # "undefined"
    /\ pc \in {"decode", "done"} =>
         /\ Old = out_code[Len(Code_table) + 1]
         /\ \A n \in 1 .. Len(Code_table) : Code_table[n] = Strings(Lookups)[Radix + n - 1]
         /\ Symbol = First(Lookups, Old)
         /\ Output = Spell(Lookups, SubSeq(out_code, 1, Len(Code_table) + 1))

\* The first codes spell the first of them, and one more what it stands for.
LEMMA SpellPrefix ==
  ASSUME NEW a, Ordered(a), NEW codes \in Seq(Code), KnownAll(a, codes)
  PROVE  /\ Len(codes) >= 1 => Spell(a, SubSeq(codes, 1, 1)) = Strings(a)[codes[1]]
         /\ \A n \in 1 .. Len(codes) - 1 :
              Spell(a, SubSeq(codes, 1, n + 1)) = Spell(a, SubSeq(codes, 1, n)) \o Strings(a)[codes[n + 1]]
         /\ Spell(a, SubSeq(codes, 1, Len(codes))) = Spell(a, codes)
<1>1. Len(codes) \in Nat /\ SubSeq(codes, 1, Len(codes)) = codes
  OBVIOUS
<1>2. ASSUME Len(codes) >= 1 PROVE Spell(a, SubSeq(codes, 1, 1)) = Strings(a)[codes[1]]
  <2>1. codes[1] \in Code /\ Known(a, codes[1])
    BY <1>1, <1>2 DEF KnownAll
  <2>2. SubSeq(codes, 1, 1) = Append(<< >>, codes[1])
    <3> DEFINE t == SubSeq(codes, 1, 1)
    <3>1. t \in Seq(Code) /\ Len(t) = 1 /\ t[1] = codes[1]
      BY <1>1, <1>2
    <3> HIDE DEF t
    <3>2. t = <<codes[1]>>
      BY <3>1
    <3>3. Append(<< >>, codes[1]) = <<codes[1]>>
      BY <2>1
    <3> QED
      BY <3>2, <3>3 DEF t
  <2>3. << >> \in Seq(Code) /\ KnownAll(a, << >>)
    BY DEF KnownAll
  <2>4. /\ Spell(a, Append(<< >>, codes[1])) = Spell(a, << >>) \o Strings(a)[codes[1]]
        /\ Strings(a)[codes[1]] \in Seq(Byte)
    BY <2>1, <2>3, SpellAppend
  <2>5. Spell(a, << >>) = << >>
    <3>1. Texts(a, << >>) = << >>
      BY DEF Texts
    <3> QED
      BY <3>1, FlattenEmpty DEF Spell
  <2>6. \A t \in Seq(Byte) : << >> \o t = t
    OBVIOUS
  <2> QED
    BY <2>2, <2>4, <2>5, <2>6
<1>3. ASSUME NEW n \in 1 .. Len(codes) - 1
      PROVE  Spell(a, SubSeq(codes, 1, n + 1)) = Spell(a, SubSeq(codes, 1, n)) \o Strings(a)[codes[n + 1]]
  <2> DEFINE d == SubSeq(codes, 1, n)
  <2>1. /\ d \in Seq(Code) /\ Len(d) = n /\ \A m \in 1 .. n : d[m] = codes[m]
        /\ SubSeq(codes, 1, n + 1) = Append(d, codes[n + 1])
    <3>1. n \in Nat /\ n <= Len(codes)
      BY <1>1
    <3> QED
      BY <1>1, <3>1
  <2>2. n + 1 \in 1 .. Len(codes) /\ \A m \in 1 .. n : m \in 1 .. Len(codes)
    BY <1>1
  <2> HIDE DEF d
  <2>3. KnownAll(a, d) /\ Known(a, codes[n + 1])
    BY <2>1, <2>2 DEF KnownAll
  <2>4. Spell(a, Append(d, codes[n + 1])) = Spell(a, d) \o Strings(a)[codes[n + 1]]
    BY <2>1, <2>3, SpellAppend
  <2> QED
    BY <2>1, <2>4 DEF d
<1> QED
  BY <1>1, <1>2, <1>3

\* An entry of the decoder's table is a string of the dictionary.
LEMMA EntryIs ==
  ASSUME NEW a, Code_table \in Seq(String),
         \A n \in 1 .. Len(Code_table) : Code_table[n] = Strings(a)[Radix + n - 1],
         NEW code \in Code, code < TableSize
  PROVE  Entry(code) = Strings(a)[code]
<1>1. code \in Nat /\ Radix \in Nat /\ Len(Code_table) \in Nat
  BY Sizes DEF Code
<1>2. CASE code < Radix
  <2>1. code \in Byte
    BY <1>1, <1>2 DEF Byte
  <2> QED
    BY <1>2, <2>1, StringOfByte DEF Entry
<1>3. CASE ~ (code < Radix)
  <2>1. code - Radix + 1 \in 1 .. Len(Code_table) /\ Radix + (code - Radix + 1) - 1 = code
    BY <1>1, <1>3 DEF TableSize
  <2> QED
    BY <1>3, <2>1 DEF Entry
<1> QED
  BY <1>2, <1>3

\* The first code is a byte's, and what it stands for is the output.
LEMMA MirrorFirst ==
  ASSUME SameWidth, LoopInv, DecoderTypes, FrameInv, SpellInv, DecodeFirst, InRange, Lookups' = Lookups
  PROVE  MirrorInv'
<1> DEFINE a == Lookups
           c == out_code[1]
<1>1. /\ pc = "packed" /\ pc' = "decode" /\ Old' = Read_code /\ Symbol' = Read_code % Radix
      /\ Output' = <<Symbol'>> /\ Code_table' = Code_table /\ out_code' = out_code
  BY DEF DecodeFirst, loop
<1>2. Code_table = << >> /\ Input_position = 0
  BY <1>1 DEF FrameInv
<1>3. record = Packed(out_code) /\ out_code \in Seq(Code) /\ Len(out_code) >= 1 /\ Len(out_code) \in Nat
  BY <1>1 DEF LoopInv
<1>4. Ordered(a) /\ Spelt(a, out_code, prefix_code, next_code)
  BY <1>1 DEF SpellInv
<1>5. KnownAll(a, out_code) /\ c < Radix /\ c \in Code
  <2>1. 1 \in 1 .. Len(out_code) /\ Radix + 1 - 1 = Radix
    BY <1>3, Sizes
  <2> QED
    BY <1>3, <1>4, <2>1 DEF Spelt
<1>6. c \in Byte /\ c % Radix = c
  <2>1. c \in 0 .. Radix - 1 /\ Radix \in Nat
    BY <1>5, Sizes DEF Code
  <2>2. \A n \in Nat : c \in 0 .. n - 1 => c % n = c
    <3> HIDE DEF c
    <3> QED
      OBVIOUS
  <2> QED
    BY <2>1, <2>2 DEF Byte
<1>7. Read_code = c
  <2>1. 0 \in Nat /\ 0 < Len(out_code) /\ CodeLength * 0 = 0 /\ 0 + 1 = 1
    BY <1>3, WidthAssumption
  <2> QED
    BY <1>2, <1>3, <2>1, ReadCode
<1> HIDE DEF a
<1>8. Strings(a)[c] = <<c>>
  BY <1>6, StringOfByte
<1>9. First(a, c) = c
  <2>1. <<c>>[1] = c
    OBVIOUS
  <2> QED
    BY <1>8, <2>1 DEF First
<1>10. Spell(a, SubSeq(out_code, 1, 1)) = <<c>>
  BY <1>3, <1>4, <1>5, <1>8, SpellPrefix
<1> HIDE DEF c
<1>11. Len(Code_table') = 0
  BY <1>1, <1>2
<1>12. Old' = c /\ Symbol' = c /\ Output' = <<c>> /\ out_code'[0 + 1] = c
  BY <1>1, <1>6, <1>7 DEF c
<1> QED
  BY <1>1, <1>9, <1>10, <1>11, <1>12 DEF MirrorInv, a

\* Every other code is known to the decoder or the next one to be, and its string
\* completes an entry that is the dictionary's.
LEMMA MirrorNext ==
  ASSUME SameWidth, LoopInv, DecoderTypes, FrameInv, SpellInv, MirrorInv, DecodeNext, InRange,
         Lookups' = Lookups
  PROVE  MirrorInv'
<1> DEFINE a == Lookups
           text == Strings(a)
           m == Len(Code_table) + 1
           c == out_code[m]
           d == out_code[m + 1]
           Symbols == IF Read_code >= TableSize THEN Append(Entry(Old), Symbol)
                      ELSE Entry(Read_code)
<1>1. /\ pc = "decode" /\ More /\ pc' = pc /\ out_code' = out_code
      /\ Old < TableSize /\ Output' = Output \o Symbols /\ Symbol' = Symbols[1]
      /\ Code_table' = Append(Code_table, Append(Entry(Old), Symbols[1]))
      /\ Old' = Read_code
  BY DEF DecodeNext, Learnt, loop
<1>2. /\ Code_table \in Seq(String) /\ m \in Nat \ {0} /\ Len(Code_table) = m - 1
      /\ TableSize = Radix + m - 1 /\ Radix \in Nat
  BY Sizes DEF DecoderTypes, TableSize
<1>3. Input_position = CodeLength * m /\ m <= Len(out_code) /\ Input_position \in Nat
  BY <1>1 DEF FrameInv, DecoderTypes
<1>4. record = Packed(out_code) /\ out_code \in Seq(Code) /\ Len(out_code) \in Nat
  BY <1>1 DEF LoopInv
<1> HIDE DEF m
<1>5. m < Len(out_code)
  BY <1>1, <1>2, <1>3, MoreIs
<1>6. Read_code = d
  BY <1>2, <1>3, <1>4, <1>5, ReadCode
<1>7. /\ Ordered(a) /\ Spelt(a, out_code, prefix_code, next_code)
  BY <1>1 DEF SpellInv
<1>8. /\ Old = c /\ Symbol = First(a, c) /\ Output = Spell(a, SubSeq(out_code, 1, m))
      /\ \A n \in 1 .. m - 1 : Code_table[n] = text[Radix + n - 1]
  BY <1>1, <1>2 DEF MirrorInv, m
<1>9. m \in 1 .. Len(out_code) /\ m + 1 \in 1 .. Len(out_code) /\ m \in 1 .. Len(out_code) - 1
  BY <1>2, <1>4, <1>5
<1>10. /\ KnownAll(a, out_code) /\ Known(a, c) /\ Known(a, d) /\ c \in Code /\ d \in Code
       /\ d < Radix + (m + 1) - 1
  BY <1>7, <1>9 DEF Spelt, KnownAll, Known
<1>11. m \in 1 .. next_code - Radix
  <2>1. Len(out_code) <= next_code - Radix + 1 /\ next_code \in Nat
    <3>1. Len(out_code) = Count /\ next_code \in Nat
      BY <1>1 DEF LoopInv, D!IInv, D!TypeOK
    <3> QED
      BY <1>2, <3>1 DEF Count
  <2> QED
    BY <1>2, <1>4, <1>5, <2>1
<1> HIDE DEF a, text
<1>12. text[Radix + m - 1] = Append(text[c], First(a, d))
  <2>1. Following(out_code, prefix_code, m) = d
    BY <1>5 DEF Following
  <2>2. Strings(a)[Radix + m - 1]
          = Append(Strings(a)[out_code[m]], First(a, Following(out_code, prefix_code, m)))
    BY <1>7, <1>11 DEF Spelt
  <2> QED
    BY <2>1, <2>2 DEF text
<1> HIDE DEF c, d
<1>13. \A code : Known(a, code) => text[code] \in String /\ First(a, code) = text[code][1]
  BY <1>7, StringsKept DEF Extends, First, text
<1>14. Entry(c) = text[c]
  BY <1>1, <1>2, <1>8, <1>10, EntryIs DEF text
<1>15. Symbols = text[d]
  <2>1. CASE d < TableSize
    <3>1. Entry(d) = text[d]
      BY <1>2, <1>8, <1>10, <2>1, EntryIs DEF text
    <3>2. ~ (d >= TableSize)
      BY <1>2, <1>10, <2>1, Sizes DEF Code
    <3> QED
      BY <1>6, <3>1, <3>2
  <2>2. CASE ~ (d < TableSize)
    <3>1. d >= TableSize /\ d = Radix + m - 1
      BY <1>2, <1>10, <2>2, Sizes DEF Code
    <3>2. text[d] = Append(text[c], First(a, d))
      BY <1>12, <3>1
    <3>3. text[c] \in String /\ First(a, d) \in Byte
      <4>1. text[c] \in String /\ text[d] \in String /\ First(a, d) = text[d][1]
        BY <1>10, <1>13
      <4> QED
        BY <4>1, StringFacts
    <3>4. First(a, d) = First(a, c)
      BY <1>10, <1>13, <3>2, <3>3, StringFacts
    <3>5. Symbols = Append(Entry(c), First(a, c))
      BY <1>6, <1>8, <3>1
    <3> QED
      BY <1>14, <3>2, <3>4, <3>5
  <2> QED
    BY <2>1, <2>2
<1> HIDE DEF Symbols
<1>16. Symbols[1] = First(a, d)
  BY <1>10, <1>13, <1>15
<1>17. Code_table' = Append(Code_table, text[Radix + m - 1])
  BY <1>1, <1>8, <1>12, <1>14, <1>16
<1>18. Len(Code_table') = m /\ \A n \in 1 .. m : Code_table'[n] = text[Radix + n - 1]
  <2>1. /\ Len(Code_table') = (m - 1) + 1 /\ Code_table'[(m - 1) + 1] = text[Radix + m - 1]
        /\ \A n \in 1 .. m - 1 : Code_table'[n] = Code_table[n]
    <3> DEFINE S == text[Radix + m - 1]
    <3> HIDE DEF S
    <3>1. /\ Code_table' = Append(Code_table, S) /\ Code_table \in Seq(String)
          /\ Len(Code_table) = m - 1
      BY <1>2, <1>17 DEF S
    <3>2. S \in String
      <4>1. text[c] \in String /\ text[d] \in String /\ First(a, d) = text[d][1]
        BY <1>10, <1>13
      <4>2. First(a, d) \in Byte
        BY <4>1, StringFacts
      <4> QED
        BY <1>12, <4>1, <4>2, StringFacts DEF S
    <3>3. /\ Len(Code_table') = (m - 1) + 1 /\ Code_table'[(m - 1) + 1] = S
          /\ \A n \in 1 .. m - 1 : Code_table'[n] = Code_table[n]
      BY <3>1, <3>2
    <3> QED
      BY <3>3 DEF S
  <2>2. (m - 1) + 1 = m /\ \A n \in 1 .. m : n \in 1 .. m - 1 \/ n = m
    BY <1>2
  <2> QED
    BY <1>8, <2>1, <2>2
<1>19. Output' = Spell(a, SubSeq(out_code, 1, m + 1))
  <2>1. Spell(a, SubSeq(out_code, 1, m + 1)) = Spell(a, SubSeq(out_code, 1, m)) \o text[d]
    BY <1>4, <1>7, <1>9, <1>10, SpellPrefix DEF text, d
  <2> QED
    BY <1>1, <1>8, <1>15, <2>1
<1>20. Old' = d /\ d = out_code[m + 1] /\ Symbol' = First(a, d)
  BY <1>1, <1>6, <1>16 DEF d
<1>21. Lookups' = a
  BY DEF a
<1> QED
  BY <1>1, <1>18, <1>19, <1>20, <1>21 DEF MirrorInv, text

\* Every step preserves it.
LEMMA MirrorStep ==
  SameWidth /\ LoopInv /\ DecoderTypes /\ FrameInv /\ SpellInv /\ MirrorInv /\ [Next]_vars => MirrorInv'
<1> SUFFICES ASSUME SameWidth, LoopInv, DecoderTypes, FrameInv, SpellInv, MirrorInv, [Next]_vars, InRange'
             PROVE MirrorInv'
  BY DEF MirrorInv
<1>1. InRange
  BY RangeStep
<1>2. CASE Extend \/ Emit \/ Return \/ Pack
  <2>1. pc' \notin {"undefined", "decode", "done"}
    BY <1>2 DEF Extend, Emit, Return, Iterate, Pack
  <2> QED
    BY <2>1 DEF MirrorInv
<1>3. CASE Decompress \/ UNCHANGED vars
  <2>1. Lookups' = Lookups /\ out_code' = out_code
    <3>1. UNCHANGED <<hash_table, key_mem, value, out_code>>
      BY <1>3 DEF Decompress, DecodeFirst, DecodeNext, DecodeUndefined, DecodeEnd, vars, dict, loop
    <3> QED
      BY <3>1, LookupsKept
  <2>2. CASE DecodeFirst
    BY <1>1, <2>1, <2>2, MirrorFirst
  <2>3. CASE DecodeNext
    BY <1>1, <2>1, <2>3, MirrorNext
  <2>4. CASE DecodeUndefined
    <3>1. pc = "decode" /\ Old >= TableSize
      BY <2>4 DEF DecodeUndefined
    <3> DEFINE m == Len(Code_table) + 1
    <3>2. m \in Nat \ {0} /\ TableSize = Radix + m - 1
      BY Sizes DEF DecoderTypes, TableSize
    <3>3. Old = out_code[m] /\ m <= Len(out_code)
      BY <1>1, <3>1 DEF MirrorInv, FrameInv
    <3> HIDE DEF m
    <3>4. Spelt(Lookups, out_code, prefix_code, next_code) /\ out_code \in Seq(Code)
      BY <1>1, <3>1 DEF SpellInv, LoopInv
    <3>5. m \in 1 .. Len(out_code)
      BY <3>2, <3>3, <3>4
    <3>6. out_code[m] < Radix + m - 1 /\ out_code[m] \in Nat
      BY <3>4, <3>5, Sizes DEF Spelt, Code
    <3> QED
      BY <3>1, <3>2, <3>3, <3>6, Sizes
  <2>5. CASE DecodeEnd \/ UNCHANGED vars
    <3>1. UNCHANGED <<Old, Code_table, Symbol, Output>>
      BY <2>5 DEF DecodeEnd, vars, decoder
    <3>2. pc' = pc \/ (pc = "decode" /\ pc' = "done")
      BY <2>5 DEF DecodeEnd, vars
    <3> QED
      BY <1>1, <2>1, <3>1, <3>2 DEF MirrorInv
  <2> QED
    BY <1>3, <2>2, <2>3, <2>4, <2>5 DEF Decompress
<1> QED
  BY <1>2, <1>3 DEF Next

\* The decoder mirrors the dictionary as long as it decodes.
THEOREM MirrorInvHolds == SameWidth => (Spec => []MirrorInv)
<1> SUFFICES ASSUME SameWidth PROVE Spec => []MirrorInv
  OBVIOUS
<1>1. Init => MirrorInv
  BY DEF Init, MirrorInv
<1>2. LoopInv /\ DecoderTypes /\ FrameInv /\ SpellInv /\ MirrorInv /\ [Next]_vars => MirrorInv'
  BY MirrorStep
<1> QED
  BY <1>1, <1>2, LoopInvHolds, DecoderTypesHold, FrameInvHolds, SpellInvHolds, PTL DEF Spec

-----------------------------------------------------------------------------
(* The first code, read with a bit too many.                               *)

\* A dictionary that is empty finds nothing: the first code emitted is the first byte.
FirstInv ==
  /\ pc = "compress" /\ i = 0 => out_code = << >> /\ prefix_code = chunk[1]
  /\ pc # "returned" /\ i > 0 => Len(out_code) >= 1 /\ out_code[1] = chunk[1]

\* Every step preserves it.
LEMMA FirstStep == LoopInv /\ FirstInv /\ [Next]_vars => FirstInv'
<1> SUFFICES ASSUME LoopInv, FirstInv, [Next]_vars PROVE FirstInv'
  OBVIOUS
<1>0. i \in Nat /\ out_code \in Seq(Code) /\ Len(out_code) \in Nat
  BY ChunkType DEF LoopInv
<1>1. ASSUME NEW code \in Code
      PROVE  /\ Append(out_code, code) \in Seq(Code)
             /\ Len(Append(out_code, code)) = Len(out_code) + 1
             /\ Len(out_code) >= 1 => Append(out_code, code)[1] = out_code[1]
             /\ out_code = << >> => Append(out_code, code)[1] = code
  BY <1>0
<1>2. CASE Extend
  <2> DEFINE k == KeyOf(prefix_code, next_char)
  <2>1. pc = "compress" /\ k \in Key /\ D!Probe(k) /\ chunk' = chunk
    BY <1>2, Probes DEF Extend
  <2>2. /\ answer' # Miss /\ pc' = pc /\ i' = i + 1
        /\ out_code' = out_code \/ out_code' = Append(out_code, answer')
    BY <1>2 DEF Extend
  <2> HIDE DEF k
  <2>3. Found(k)
    BY <2>1, <2>2, ProbeOutcome DEF LoopInv, Learnt1, Refused
  <2>4. Given(answer', next_code) /\ answer' \in Code
    BY <2>1, <2>3, HitHasCode, LookupGiven DEF Found, LoopInv
  <2>5. i > 0
    <3>1. \E n \in Int : Radix <= n /\ n <= next_code - 1
      BY <2>4, Sizes DEF Given
    <3>2. next_code - Radix <= i /\ next_code \in Nat /\ Radix \in Nat
      BY Sizes DEF LoopInv, D!IInv, D!TypeOK
    <3> QED
      BY <1>0, <3>1, <3>2
  <2> QED
    BY <1>0, <1>1, <2>1, <2>2, <2>4, <2>5 DEF FirstInv
<1>3. CASE Emit
  <2>1. pc = "compress" /\ chunk' = chunk
    BY <1>3, Probes DEF Emit
  <2>2. pc' = pc /\ i' = i + 1 /\ out_code' = Append(out_code, prefix_code)
    BY <1>3 DEF Emit, Emitted
  <2>3. prefix_code \in Code
    BY PrefixType DEF LoopInv
  <2> QED
    BY <1>0, <1>1, <2>1, <2>2, <2>3 DEF FirstInv
<1>4. CASE Return
  BY <1>4 DEF Return, FirstInv
<1>5. CASE Pack
  <2>1. i = Len(chunk) /\ Len(chunk) > 0 /\ pc = "compress" /\ UNCHANGED <<chunk, i, out_code>>
    BY <1>5, ChunkType DEF Pack, loop, input, LoopInv
  <2> QED
    BY <2>1, <1>5 DEF Pack, FirstInv
<1>6. CASE Decompress \/ UNCHANGED vars
  <2>1. /\ UNCHANGED <<chunk, i, out_code, prefix_code>>
        /\ \/ pc' = pc
           \/ pc \notin {"compress", "returned"} /\ pc' # "compress"
    <3>1. CASE DecodeFirst
      BY <3>1 DEF DecodeFirst, input, loop
    <3>2. CASE DecodeNext
      BY <3>2 DEF DecodeNext, input, loop
    <3>3. CASE DecodeUndefined \/ DecodeEnd
      BY <3>3 DEF DecodeUndefined, DecodeEnd, input, loop
    <3>4. CASE UNCHANGED vars
      BY <3>4 DEF vars, input, loop
    <3> QED
      BY <1>6, <3>1, <3>2, <3>3, <3>4 DEF Decompress
  <2> QED
    BY <2>1 DEF FirstInv
<1> QED
  BY <1>2, <1>3, <1>4, <1>5, <1>6 DEF Next

\* The first code holds, whatever the widths.
THEOREM FirstInvHolds == Spec => []FirstInv
<1>1. Init => FirstInv
  BY DEF Init, FirstInv
<1> QED
  BY <1>1, FirstStep, LoopInvHolds, PTL DEF Spec

\* The decoder that reads a bit too many begins its text with the double of the first
\* byte, or one more, and looks that up for the second code.
ShiftInv ==
  pc \in {"decode", "done", "undefined"} =>
    /\ Len(Output) >= 1
    /\ \E bit \in {0, 1} : /\ Output[1] = (2 * chunk[1] + bit) % Radix
                           /\ Code_table = << >> => Old = 2 * chunk[1] + bit

\* Every step preserves it.
LEMMA ShiftStep ==
  ShippedWidth /\ LoopInv /\ DecoderTypes /\ FirstInv /\ ShiftInv /\ PositionInv /\ [Next]_vars
    => ShiftInv'
<1> SUFFICES ASSUME ShippedWidth, LoopInv, DecoderTypes, FirstInv, ShiftInv, PositionInv, [Next]_vars
             PROVE ShiftInv'
  OBVIOUS
<1>1. CASE Extend \/ Emit \/ Return \/ Pack
  <2>1. pc' \notin {"decode", "done", "undefined"}
    BY <1>1 DEF Extend, Emit, Return, Iterate, Pack
  <2> QED
    BY <2>1 DEF ShiftInv
<1>2. CASE DecodeFirst
  <2>1. /\ pc = "packed" /\ Old' = Read_code /\ Output' = <<Read_code % Radix>>
        /\ chunk' = chunk
    BY <1>2 DEF DecodeFirst, input
  <2>2. /\ record = Packed(out_code) /\ out_code \in Seq(Code) /\ Len(out_code) \in Nat
        /\ i = Len(chunk) /\ Len(chunk) > 0
    BY <2>1, ChunkType DEF LoopInv
  <2>3. 0 < Len(out_code) /\ out_code[1] = chunk[1] /\ Input_position = 0
    BY <2>1, <2>2 DEF FirstInv, PositionInv
  <2>4. PICK bit \in {0, 1} : Read_code = 2 * chunk[1] + bit
    BY <2>2, <2>3, ReadWide
  <2>5. Len(Output') = 1 /\ Output'[1] = Read_code % Radix
    BY <2>1
  <2> QED
    BY <2>1, <2>4, <2>5 DEF ShiftInv
<1>3. CASE DecodeNext
  <2> DEFINE Symbols == IF Read_code >= TableSize THEN Append(Entry(Old), Symbol)
                        ELSE Entry(Read_code)
             entry == Append(Entry(Old), Symbols[1])
  <2>1. /\ pc = "decode" /\ chunk' = chunk /\ Old < TableSize
        /\ Output' = Output \o Symbols /\ Code_table' = Append(Code_table, entry)
    BY <1>3 DEF DecodeNext, Learnt, input
  <2>2. Read_code \in Nat
    <3>1. record \in Seq(Byte) /\ Input_position \in Nat
      BY RecordType DEF DecoderTypes
    <3> QED
      BY <3>1, ReadType
  <2>3. Entry(Old) \in String /\ Symbols \in String
    BY <2>1, <2>2, SymbolsType
  <2> HIDE DEF Symbols
  <2>4. Symbols \in Seq(Byte) /\ entry \in String
    BY <2>3, StringFacts
  <2> HIDE DEF entry
  <2>5. Output \in Seq(Byte) /\ Code_table \in Seq(String)
    BY DEF DecoderTypes
  <2>6. Code_table' # << >>
    BY <2>1, <2>4, <2>5
  <2>7. Len(Output) >= 1 => (Len(Output') >= 1 /\ Output'[1] = Output[1])
    BY <2>1, <2>4, <2>5
  <2> QED
    BY <2>1, <2>6, <2>7 DEF ShiftInv
<1>4. CASE DecodeUndefined \/ DecodeEnd \/ UNCHANGED vars
  <2>1. /\ UNCHANGED <<chunk, Output, Code_table, Old>>
        /\ pc' = pc \/ pc = "decode"
    BY <1>4 DEF DecodeUndefined, DecodeEnd, vars, input, decoder
  <2> QED
    BY <2>1 DEF ShiftInv
<1> QED
  BY <1>1, <1>2, <1>3, <1>4 DEF Next, Decompress

\* The shipped decoder begins as ShiftInv says.
THEOREM ShiftInvHolds == ShippedWidth => (Spec => []ShiftInv)
<1> SUFFICES ASSUME ShippedWidth PROVE Spec => []ShiftInv
  OBVIOUS
<1>1. Init => ShiftInv
  BY DEF Init, ShiftInv
<1>2. ShippedWidth
  OBVIOUS
<1> QED
  BY <1>1, <1>2, ShiftStep, LoopInvHolds, DecoderTypesHold, FirstInvHolds, PositionInvHolds,
     PTL DEF Spec

-----------------------------------------------------------------------------
(* What the decoder makes of a record.                                     *)

\* What the decoder takes for the dictionary, by the width of the codes it reads
\* (Decoder.cpp:8, 45-57).  With the one they were packed with it rebuilds the encoder's
\* dictionary from the codes alone, the code it is about to define included; with the bit
\* more that is shipped it takes the first code of every chunk for its double.
THEOREM DecoderMirrors ==
  Spec => /\ SameWidth    => []DecoderMirrorsDict
          /\ ShippedWidth => []ShiftsFirstCode
<1>1. ASSUME SameWidth PROVE Spec => []DecoderMirrorsDict
  <2>1. ASSUME DecoderTypes, MirrorInv PROVE DecoderMirrorsDict
    <3>1. DOMAIN Code_table = 1 .. Len(Code_table)
      BY <2>1 DEF DecoderTypes
    <3> QED
      BY <2>1, <3>1, TextIs DEF MirrorInv, DecoderMirrorsDict
  <2> QED
    BY <1>1, <2>1, DecoderTypesHold, MirrorInvHolds, PTL
<1>2. ASSUME ShippedWidth PROVE Spec => []ShiftsFirstCode
  <2>1. ShiftInv => ShiftsFirstCode
    BY DEF ShiftInv, ShiftsFirstCode
  <2> QED
    BY <1>2, <2>1, ShiftInvHolds, PTL
<1> QED
  BY <1>1, <1>2

\* A chunk that is decoded is not the chunk that was compressed, unless it begins with the
\* least or the greatest byte.
NeverRestores == pc = "done" /\ chunk[1] \in 1 .. Radix - 2 => Output # chunk

\* What becomes of a chunk compressed by lzw_compress_v2 and read by Decompress.  If codes
\* are read as wide as they are packed it is restored, with the byte stored after it when
\* the last lookup hit; with the widths that are shipped no chunk of text ever is.
THEOREM Lossless ==
  Spec => /\ SameWidth    => []LosslessUpToTail
          /\ ShippedWidth => []NeverRestores
<1>1. ASSUME SameWidth PROVE Spec => []LosslessUpToTail
  <2>1. ASSUME LoopInv, FrameInv, SpellInv, MirrorInv PROVE LosslessUpToTail
    <3>1. pc = "undefined" => ~ InRange
      BY <2>1 DEF MirrorInv
    <3>2. ASSUME pc = "done", InRange
          PROVE  Output = IF answer = Miss THEN chunk ELSE Append(chunk, tail)
      <4>1. Output = Spell(Lookups, SubSeq(out_code, 1, Len(out_code)))
        BY <2>1, <3>2 DEF MirrorInv, FrameInv
      <4>2. /\ Ordered(Lookups) /\ KnownAll(Lookups, out_code)
            /\ i = Len(chunk) => Spell(Lookups, out_code) = IF answer = Miss THEN chunk ELSE Append(chunk, tail)
        BY <2>1, <3>2 DEF SpellInv, Spelt
      <4>3. i = Len(chunk) /\ out_code \in Seq(Code)
        BY <2>1, <3>2 DEF LoopInv
      <4> QED
        BY <4>1, <4>2, <4>3, SpellPrefix
    <3> QED
      BY <3>1, <3>2 DEF LosslessUpToTail
  <2> QED
    BY <1>1, <2>1, LoopInvHolds, FrameInvHolds, SpellInvHolds, MirrorInvHolds, PTL
<1>2. ASSUME ShippedWidth PROVE Spec => []NeverRestores
  <2>1. ShiftInv => NeverRestores
    <3> SUFFICES ASSUME ShiftInv, pc = "done", chunk[1] \in 1 .. Radix - 2, Output = chunk
                 PROVE  FALSE
      BY DEF NeverRestores
    <3> DEFINE c == chunk[1]
    <3>1. PICK bit \in {0, 1} : c = (2 * c + bit) % Radix
      BY DEF ShiftInv
    <3>2. c \in 1 .. Radix - 2 /\ Radix \in Nat
      BY Sizes
    <3> HIDE DEF c
    <3>3. CASE 2 * c + bit < Radix
      <4>1. (2 * c + bit) % Radix = 2 * c + bit
        BY <3>2, <3>3
      <4> QED
        BY <3>1, <3>2, <4>1
    <3>4. CASE 2 * c + bit >= Radix
      <4>1. 2 * c + bit = 1 * Radix + (2 * c + bit - Radix) /\ 2 * c + bit - Radix \in 0 .. Radix - 1
            /\ Radix \in Nat \ {0} /\ 1 \in Int
        BY <3>2, <3>4
      <4>2. (2 * c + bit) % Radix = 2 * c + bit - Radix
        BY <4>1, Division
      <4> QED
        BY <3>1, <3>2, <4>2
    <3> QED
      BY <3>2, <3>3, <3>4
  <2> QED
    BY <1>2, <2>1, ShiftInvHolds, PTL
<1> QED
  BY <1>1, <1>2
=============================================================================

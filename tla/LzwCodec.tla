------------------------------ MODULE LzwCodec ------------------------------
(***************************************************************************)
(* One chunk through the codec: lzw_compress_v2 and its kernel twin        *)
(* lzw_compress_hw (src/Server/lzw.cpp) turn it into 12-bit codes, packed  *)
(* two to three bytes, and Decompress (src/Decoder_cpp/Decoder.cpp) turns  *)
(* the bytes back into text.  The encoder's dictionary is LzwDict; the     *)
(* decoder rebuilds it from the codes alone.                               *)
(*                                                                         *)
(* Widths are constants: bytes of ByteBits bits, codes of half as many     *)
(* again, so that a small alphabet runs out of codes as 256 bytes do.      *)
(***************************************************************************)
EXTENDS Powers, Integers, SequencesExt

CONSTANTS Letter,     \* the bytes that occur in chunks
          Chunks,     \* the chunks to compress: non-empty sequences of letters
          MaxCode,    \* bound on the codes a chunk is given (keys are enumerated)
          ByteBits,   \* 8
          CodeLength, \* CODE_LENGTH, the bits the decoder reads per code
          CharSigned, \* whether char is: not in the encoders (aarch64), but in
                      \* the kernel that Vitis HLS synthesises
          FieldBits,  \* address bits of a key memory (9)
          Hash, Slots, ShiftBits, Miss \* as in LzwDict

Radix     == Power(2)[ByteBits]       \* number of byte values, first code
Half      == Power(2)[ByteBits \div 2]
CodeSpace == Radix * Half             \* codes of 12 bits
Byte      == 0 .. Radix - 1
Code      == 0 .. CodeSpace - 1

ASSUME WidthAssumption == /\ ByteBits \in Nat \ {0} /\ ByteBits % 2 = 0
                          /\ CodeLength \in Nat
                          /\ CharSigned \in BOOLEAN
                          /\ Letter \subseteq Byte
                          /\ Chunks \subseteq Seq(Letter) \ {<< >>}

\* Every chunk can be given a code per byte, and a key's three fields hold all of it.
ASSUME DictAssumption ==
  /\ MaxCode \in Nat /\ \A c \in Chunks : Radix + Len(c) <= MaxCode + 1
  /\ FieldBits \in Nat
  /\ CodeSpace * Radix <= Power(2)[FieldBits] * (Power(2)[FieldBits] * Power(2)[FieldBits])
  /\ Slots \in Nat /\ ShiftBits \in Nat \ {0}
  /\ Miss \notin Code

\* A byte read as a char, and the key of a prefix and a char: 20 bits of it count.
Char(b)   == IF CharSigned /\ b >= Radix \div 2 THEN b - Radix ELSE b
KeyOf(prefix, c) == (prefix * Radix + c) % (CodeSpace * Radix)

Prefix == Letter \cup {Char(b) % CodeSpace : b \in Letter}
                 \cup {code % CodeSpace : code \in Radix .. MaxCode}
Key    == {KeyOf(q, Char(b)) : q \in Prefix, b \in Letter}

\* The three address fields of a key: its low 9 bits, the next 9, the rest.
Field == LET word == Power(2)[FieldBits] IN
  [lower  |-> [k \in Key |-> k % word],
   middle |-> [k \in Key |-> (k \div word) % word],
   upper  |-> [k \in Key |-> ((k \div word) \div word) % word]]
Index == UNION {{Field[m][k] : k \in Key} : m \in DOMAIN Field}

VARIABLES chunk, tail,                  \* the input, and the byte stored after it
          hash_table, key_mem, value, fill, next_code, answer, collision,
          i, prefix_code, out_code,     \* the compression loop
          record,                       \* the packed bytes, header left out
          Input_position, Old, Symbol, Code_table, Output, \* Decompress
          pc

dict  == <<hash_table, key_mem, value, fill, next_code, answer, collision>>
loop  == <<i, prefix_code, out_code>>
input == <<chunk, tail>>
decoder == <<Input_position, Old, Symbol, Code_table, Output>>
vars == <<input, dict, loop, record, decoder, pc>>

Dict == INSTANCE LzwDict WITH FirstCode <- Radix

TypeOK == /\ Dict!TypeOK
          /\ chunk \in Chunks /\ tail \in Letter
          /\ i \in 0 .. Len(chunk)
          /\ prefix_code \in Code
          /\ out_code \in Seq(Code)
          /\ record \in Seq(Byte)
          /\ Code_table \in Seq(Seq(Byte)) /\ Output \in Seq(Byte)
          /\ Input_position \in Nat /\ Old \in 0 .. Power(2)[CodeLength] - 1 /\ Symbol \in Byte
          /\ pc \in {"compress", "returned", "packed", "decode", "done", "undefined"}

Init == /\ chunk \in Chunks
        /\ tail \in Letter
        /\ Dict!Init
        /\ i = 0
        /\ prefix_code = chunk[1]
        /\ out_code = << >>
        /\ record = << >>
        /\ Input_position = 0 /\ Old = 0 /\ Symbol = 0
        /\ Code_table = << >> /\ Output = << >>
        /\ pc = "compress"

-----------------------------------------------------------------------------
\* The loop reads s1[i + 1], which at the last byte is the one after the chunk.
next_char == Char(Append(chunk, tail)[i + 2])

\* Mutants: the pending prefix is never flushed; it is flushed one byte early, too.
AtLastNever == FALSE
AtLastEarly == i + 2 >= Len(chunk)

AtLast == i + 1 = Len(chunk)

Iterate == /\ pc = "compress"
           /\ i < Len(chunk)
           /\ Dict!Probe(KeyOf(prefix_code, next_char))
           /\ UNCHANGED <<input, record, decoder>>

\* The prefix and the next byte are a known string: it is the new prefix.
Extend == /\ Iterate
          /\ answer' # Miss
          /\ prefix_code' = answer'
          /\ out_code' = IF AtLast THEN Append(out_code, answer') ELSE out_code
          /\ i' = i + 1
          /\ UNCHANGED pc

\* Mutant: the prefix is replaced before it is emitted.
EmittedReset == next_char % CodeSpace

Emitted == prefix_code

\* They are not: the prefix is emitted, the string learnt.  (Of a prefix code only
\* the low 12 bits reach a key or a record.)
Emit == /\ Iterate
        /\ answer' = Miss
        /\ ~ collision'
        /\ out_code' = Append(out_code, Emitted)
        /\ prefix_code' = next_char % CodeSpace
        /\ i' = i + 1
        /\ UNCHANGED pc

\* There is no room to learn it: the function returns without writing a record.
Return == /\ Iterate
          /\ collision'
          /\ out_code' = Append(out_code, Emitted)
          /\ pc' = "returned"
          /\ UNCHANGED <<i, prefix_code>>

\* Mutant: the last byte is not masked.
PackThirdUnmasked(a, b) == b

PackThird(a, b) == b % Radix

\* Mutant: an odd last code takes three bytes as two do.
PackedSizeWhole(codes) == 3 * ((Len(codes) + 1) \div 2)

PackedSize(codes) == (3 * Len(codes) + 1) \div 2

\* Two codes in three bytes; an odd last code takes two, with zero bits after it.
Packed(codes) ==
  LET code(n) == IF n <= Len(codes) THEN codes[n] ELSE 0
  IN [n \in 1 .. PackedSize(codes) |->
        LET a == code(2 * ((n - 1) \div 3) + 1)
            b == code(2 * ((n - 1) \div 3) + 2)
        IN CASE n % 3 = 1 -> a \div Half
             [] n % 3 = 2 -> (a % Half) * Half + b \div Radix
             [] n % 3 = 0 -> PackThird(a, b)]

Pack == /\ pc = "compress"
        /\ i = Len(chunk)
        /\ record' = Packed(out_code)
        /\ pc' = "packed"
        /\ UNCHANGED <<input, dict, loop, decoder>>

-----------------------------------------------------------------------------
\* Bit n of the input; past its end get() returns EOF, which is all ones.
InputBit(n) ==
  LET at == n \div ByteBits
      byte == IF at < Len(record) THEN record[at + 1] ELSE Radix - 1
  IN (byte \div Power(2)[ByteBits - 1 - (n % ByteBits)]) % 2

Read_code ==
  LET code[n \in Nat] == IF n = 0 THEN 0 ELSE 2 * code[n - 1] + InputBit(Input_position + n - 1)
  IN code[CodeLength]

\* Code_table starts with the one-byte strings; the variable holds what follows.
TableSize == Radix + Len(Code_table)
Entry(code) == IF code < Radix THEN <<code>> ELSE Code_table[code - Radix + 1]

DecodeFirst == /\ pc = "packed"
               /\ Old' = Read_code
               /\ Symbol' = Read_code % Radix
               /\ Output' = <<Symbol'>>
               /\ Input_position' = CodeLength
               /\ pc' = "decode"
               /\ UNCHANGED <<input, dict, loop, record, Code_table>>

\* Mutant: the size is not reduced by one.
MoreByOne == Input_position \div ByteBits < Len(record)

More == Input_position \div ByteBits < Len(record) - 1

\* Mutant: the table entry is completed with the symbol of the string before.
LearntStale(symbols) == Append(Entry(Old), Symbol)

Learnt(symbols) == Append(Entry(Old), symbols[1])

DecodeNext ==
  /\ pc = "decode"
  /\ More
  /\ Old < TableSize
  /\ LET New == Read_code
         Symbols == IF New >= TableSize THEN Append(Entry(Old), Symbol) ELSE Entry(New)
     IN /\ Output' = Output \o Symbols
        /\ Symbol' = Symbols[1]
        /\ Code_table' = Append(Code_table, Learnt(Symbols))
        /\ Old' = New
  /\ Input_position' = Input_position + CodeLength
  /\ UNCHANGED <<input, dict, loop, record, pc>>

\* Code_table[Old] is read past its end: what follows is undefined.
DecodeUndefined == /\ pc = "decode"
                   /\ More
                   /\ Old >= TableSize
                   /\ pc' = "undefined"
                   /\ UNCHANGED <<input, dict, loop, record, decoder>>

DecodeEnd == /\ pc = "decode"
             /\ ~ More
             /\ pc' = "done"
             /\ UNCHANGED <<input, dict, loop, record, decoder>>

Decompress == DecodeFirst \/ DecodeNext \/ DecodeUndefined \/ DecodeEnd

Next == Extend \/ Emit \/ Return \/ Pack \/ Decompress

Spec == Init /\ [][Next]_vars
-----------------------------------------------------------------------------
\* The dictionary is inside what its shift and its 12-bit values can represent.
Fits == Dict!Reachable /\ next_code <= CodeSpace

\* And every byte read as a char keeps its value.
InRange == Fits /\ \A n \in 2 .. Len(chunk) + 1 : Char(Append(chunk, tail)[n]) >= 0

\* The string a code stands for in a dictionary: that of its key's prefix, which was
\* learnt before it, and its key's byte.
Strings(lookup) ==
  LET Keys(code) == {k \in Key : lookup[k] = code /\ k \div Radix < code}
      text[code \in Code] ==
        IF code < Radix THEN <<code>>
        ELSE IF Keys(code) = {} THEN << >>
        ELSE LET k == CHOOSE k \in Keys(code) : TRUE
             IN Append(text[k \div Radix], k % Radix)
  IN text

Text == Strings([k \in Key |-> Dict!Lookup(k)])

\* Loop invariant of the compressor: what is emitted, followed by the pending
\* prefix, spells exactly the bytes read so far, the current one included. (While the
\* dictionary fits and no char is negative: InRange.)
EmittedSpellsInput ==
  pc = "compress" /\ i < Len(chunk) /\ InRange =>
    FlattenSeq([n \in DOMAIN out_code |-> Text[out_code[n]]]) \o Text[prefix_code]
      = SubSeq(chunk, 1, i + 1)

\* The decoder, which never sees the dictionary, rebuilds it: every string it
\* adds is the one the encoder's dictionary has under the same code.
DecoderMirrorsDict ==
  InRange /\ pc \in {"decode", "done"} =>
    \A n \in DOMAIN Code_table : Code_table[n] = Text[Radix + n - 1]

\* A chunk that was compressed is decoded to itself, or, when the last lookup
\* hit with the byte stored after the chunk, to itself and that byte.
LosslessUpToTail ==
  /\ pc = "undefined" => ~ InRange
  /\ pc = "done" /\ InRange =>
       Output = IF answer = Miss THEN chunk ELSE Append(chunk, tail)

\* The decoder has then read the bytes of the record, all and no others: the next
\* header in the file is where it looks for it.
StaysInFrame ==
  pc = "done" => (Input_position + ByteBits - 1) \div ByteBits = Len(record)

\* A chunk never takes more codes than it has bytes, nor more than three bytes of
\* record for two of its own: what the 2048 bytes a record is built in and the
\* 32768 codes of out_code have to hold.
RecordIsBounded ==
  /\ pc # "returned" => Len(out_code) <= i
  /\ Len(record) <= (3 * Len(chunk) + 1) \div 2

\* There is one code per string learnt, and one more when the last lookup hit: the
\* decoder, which learns one string per code but the first, keeps in step.
OneCodePerString ==
  /\ pc \notin {"compress", "returned"} =>
       Len(out_code) = next_code - Radix + (IF answer = Miss THEN 0 ELSE 1)
  /\ pc = "done" => Len(Code_table) = Len(out_code) - 1

\* Whatever the width of the codes it reads, the decoder stops in the code in which it
\* meets the last byte of its record: at that byte or after it, by less than a code.
ReadsRecord ==
  pc = "done" => /\ Input_position >= ByteBits * (Len(record) - 1)
                 /\ Input_position < ByteBits * (Len(record) - 1) + CodeLength

\* Whatever the two widths, there is a code in the record per string learnt, and one more
\* when the last lookup hit; the decoder learns a string per code it reads but the first.
CodesCounted ==
  /\ pc \notin {"compress", "returned"} =>
       Len(out_code) = next_code - Radix + (IF answer = Miss THEN 0 ELSE 1)
  /\ pc \in {"decode", "done"} => Input_position = CodeLength * (Len(Code_table) + 1)

\* Reading one bit more than is packed, as the shipped decoder does, it takes the first
\* byte for its double or one more: the text it writes begins with that, cut to a byte,
\* and the upper half of the bytes sends it past the end of its table.
ShiftsFirstCode ==
  pc \in {"decode", "done", "undefined"} =>
    \E bit \in {0, 1} :
      /\ Output[1] = (2 * chunk[1] + bit) % Radix
      /\ Code_table = << >> => Old = 2 * chunk[1] + bit

\* lzw.cpp:34: "value is 12 bits".  The decoder takes from the record the codes
\* the encoder put there.
ReadsEmittedCodes == pc \in {"decode", "done"} => Old = out_code[Len(Code_table) + 1]
=============================================================================

------------------------- MODULE DigestStage_proofs -------------------------
(***************************************************************************)
(* Proofs about the digest stage, for any chunks and any sizes: digests    *)
(* are equal exactly when forms are, and then the chunks are, as far as    *)
(* the buffer had room for them.                                           *)
(*                                                                         *)
(* The argument: the padded message is told place by place, so that        *)
(* sha256_final's blocks make it (FinalOne, FinalTwo) and that it tells    *)
(* its message (PaddedTells); a form is written run by run and spells its  *)
(* chunk (RunsAre, FormAppend), and it is told by the chunk, as a run is   *)
(* as long as the chunk and LongestRun let it be (TracesTell); a message   *)
(* is cut into blocks (ShaInv), and what is stored is a digest of a form   *)
(* of a chunk (Stored).                                                    *)
(***************************************************************************)
EXTENDS DigestStage, RecursionTheorems, SequenceTheorems, TLAPS

-----------------------------------------------------------------------------
(* The padded message.                                                     *)

\* What messages, and what blocks, are made of.
Letter == Byte \cup Nat
Cell   == Letter \cup {Unset}

Mark        == Radix \div 2
At          == BlockSize - LengthSize
Zeros(l)    == CHOOSE z \in 0 .. BlockSize - 1 : (l + 1 + z + LengthSize) % BlockSize = 0
Digit(l, d) == ((8 * l) \div Power(Radix)[d]) % Radix

PaddedOf(m) == m \o <<Mark>> \o [u \in 1 .. Zeros(Len(m)) |-> 0]
                 \o [u \in 1 .. LengthSize |-> Digit(Len(m), LengthSize - u)]

PaddedLen(l) == l + 1 + Zeros(l) + LengthSize

\* The padded message, place by place.
PaddedAt(m, u) == IF u <= Len(m) THEN m[u]
                  ELSE IF u = Len(m) + 1 THEN Mark
                  ELSE IF u <= PaddedLen(Len(m)) - LengthSize THEN 0
                  ELSE Digit(Len(m), PaddedLen(Len(m)) - u)

\* The sizes are those of blocks with room for a length.
LEMMA Sizes == /\ BlockSize \in Nat \ {0} /\ LengthSize \in Nat \ {0}
               /\ At \in Nat \ {0} /\ At < BlockSize /\ BlockSize = At + LengthSize
BY DigestAssumption DEF At

\* Multiples of a number that differ by less are the same.
LEMMA Apart ==
  ASSUME NEW k \in Nat \ {0}, NEW a \in Int, NEW b \in Int, k * a < k * b + k
  PROVE  a <= b
<1> SUFFICES ASSUME a >= b + 1 PROVE FALSE
  OBVIOUS
<1>1. k * a = k * b + k + k * (a - b - 1) /\ k * (a - b - 1) \in Nat
  OBVIOUS
<1>2. k * a \in Int /\ k * b \in Int
  OBVIOUS
<1> QED
  BY <1>1, <1>2

\* As many zeros as fill a block: the one the message ends in when it has room for
\* the mark and the length, and the next one when not.
LEMMA ZerosAre ==
  ASSUME NEW q \in Nat, NEW d \in 0 .. BlockSize - 1, NEW l, l = BlockSize * q + d
  PROVE  /\ d < At => Zeros(l) = At - d - 1 /\ PaddedLen(l) = BlockSize * q + BlockSize
         /\ d >= At => /\ Zeros(l) = BlockSize - d - 1 + At
                       /\ PaddedLen(l) = BlockSize * q + 2 * BlockSize
         /\ l \in Nat /\ Zeros(l) \in Nat
<1> DEFINE Z == IF d < At THEN At - d - 1 ELSE BlockSize - d - 1 + At
           e == IF d < At THEN q + 1 ELSE q + 2
           Fits(z) == (l + 1 + z + LengthSize) % BlockSize = 0
<1>1. /\ BlockSize \in Nat \ {0} /\ LengthSize \in Nat \ {0} /\ At \in Nat \ {0}
      /\ BlockSize = At + LengthSize
  BY Sizes
<1>2. Z \in 0 .. BlockSize - 1 /\ e \in Nat /\ BlockSize * q \in Nat /\ l \in Nat
  BY <1>1
<1>3. l + 1 + Z + LengthSize = e * BlockSize + 0
  <2>1. BlockSize * (q + 1) = BlockSize * q + BlockSize
    BY <1>1
  <2>2. BlockSize * (q + 2) = BlockSize * q + BlockSize + BlockSize
    BY <1>1
  <2>3. CASE d < At
    BY <1>1, <1>2, <2>1, <2>3
  <2>4. CASE d >= At
    BY <1>1, <1>2, <2>2, <2>4
  <2> QED
    BY <1>1, <2>3, <2>4
<1>4. Fits(Z)
  <2>1. (e * BlockSize + 0) % BlockSize = 0
    BY <1>1, <1>2, Division
  <2> QED
    BY <1>3, <2>1
<1>5. ASSUME NEW z \in 0 .. BlockSize - 1, Fits(z) PROVE z = Z
  <2> DEFINE x == l + 1 + z + LengthSize
             y == x \div BlockSize
  <2>1. x \in Nat /\ x % BlockSize = 0
    BY <1>1, <1>2, <1>5
  <2>2. y \in Nat /\ x = BlockSize * y
    <3> HIDE DEF x
    <3> QED
      BY <1>1, <2>1
  <2>3. x - (l + 1 + Z + LengthSize) = z - Z
    BY <1>1, <1>2
  <2> HIDE DEF x, y, Z, e
  <2>4. BlockSize * y - BlockSize * e = z - Z /\ BlockSize * y \in Nat /\ BlockSize * e \in Nat
    BY <1>1, <1>2, <1>3, <2>2, <2>3
  <2>5. BlockSize * y < BlockSize * e + BlockSize /\ BlockSize * e < BlockSize * y + BlockSize
    BY <1>1, <1>2, <2>4
  <2>6. y <= e /\ e <= y
    BY <1>1, <1>2, <2>2, <2>5, Apart
  <2>7. y = e
    BY <1>2, <2>2, <2>6
  <2> QED
    BY <1>2, <2>4, <2>7
<1>6. Zeros(l) = Z
  <2> HIDE DEF Z, Fits
  <2>1. (CHOOSE z \in 0 .. BlockSize - 1 : Fits(z)) = Z
    BY <1>2, <1>4, <1>5
  <2> QED
    BY <2>1 DEF Zeros, Fits
<1>7. PaddedLen(l) = e * BlockSize
  BY <1>1, <1>2, <1>3, <1>6 DEF PaddedLen
<1>8. BlockSize * (q + 1) = BlockSize * q + BlockSize /\ BlockSize * (q + 2) = BlockSize * q + 2 * BlockSize
  BY <1>1
<1>9. e * BlockSize = BlockSize * e
  BY <1>1, <1>2
<1> QED
  BY <1>1, <1>2, <1>6, <1>7, <1>8, <1>9

\* Zeros come to a number for every length.
LEMMA ZerosNat == ASSUME NEW l \in Nat PROVE Zeros(l) \in Nat /\ PaddedLen(l) \in Nat
<1> DEFINE q == l \div BlockSize
           d == l % BlockSize
<1>1. q \in Nat /\ d \in 0 .. BlockSize - 1 /\ l = BlockSize * q + d
  <2>1. BlockSize \in Nat \ {0}
    BY Sizes
  <2> QED
    BY <2>1
<1> HIDE DEF q, d
<1>2. Zeros(l) \in Nat
  BY <1>1, ZerosAre
<1> QED
  BY <1>2, Sizes DEF PaddedLen

\* The numbers that are written in blocks.
LEMMA Written == Mark \in Nat /\ \A l, d \in Nat : Digit(l, d) \in Nat
<1>1. Radix \in Nat \ {0} /\ \A d \in Nat : Power(Radix)[d] \in Nat \ {0}
  BY DigestAssumption, PowerPositive
<1>2. ASSUME NEW l \in Nat, NEW d \in Nat PROVE Digit(l, d) \in Nat
  <2> DEFINE k == Power(Radix)[d]
             y == (8 * l) \div k
  <2>1. k \in Nat \ {0}
    BY <1>1
  <2> HIDE DEF k
  <2>2. y \in Nat
    BY <2>1
  <2> HIDE DEF y
  <2>3. y % Radix \in Nat
    BY <1>1, <2>2
  <2> QED
    BY <2>3 DEF Digit, k, y
<1> QED
  BY <1>1, <1>2 DEF Mark

\* Four sequences one after the other, the second of length 1.
Joined(f, a, b, c, e) ==
  /\ Len(f) = Len(a) + 1 + Len(c) + Len(e)
  /\ \A u \in 1 .. Len(a) + 1 + Len(c) + Len(e) :
       f[u] = IF u <= Len(a) THEN a[u]
              ELSE IF u = Len(a) + 1 THEN b[1]
              ELSE IF u <= Len(a) + 1 + Len(c) THEN c[u - Len(a) - 1]
              ELSE e[u - Len(a) - 1 - Len(c)]

\* Where an element of theirs comes.
LEMMA Four ==
  ASSUME NEW V, NEW a \in Seq(V), NEW b \in Seq(V), NEW c \in Seq(V), NEW e \in Seq(V),
         Len(b) = 1
  PROVE  a \o b \o c \o e \in Seq(V) /\ Joined(a \o b \o c \o e, a, b, c, e)
<1> DEFINE f == a \o b
           g == f \o c
<1>0. Len(a) \in Nat /\ Len(c) \in Nat /\ Len(e) \in Nat
  OBVIOUS
<1>1. /\ f \in Seq(V) /\ Len(f) = Len(a) + 1
      /\ \A u \in 1 .. Len(a) + 1 : f[u] = IF u <= Len(a) THEN a[u] ELSE b[1]
  <2>1. /\ f \in Seq(V) /\ Len(f) = Len(a) + Len(b)
        /\ \A u \in 1 .. Len(a) + Len(b) : f[u] = IF u <= Len(a) THEN a[u] ELSE b[u - Len(a)]
    BY ConcatProperties
  <2> HIDE DEF f
  <2>2. \A u \in 1 .. Len(a) + 1 : u <= Len(a) \/ u - Len(a) = 1
    BY <1>0
  <2> QED
    BY <2>1, <2>2
<1> HIDE DEF f
<1>2. /\ g \in Seq(V) /\ Len(g) = Len(f) + Len(c)
      /\ \A u \in 1 .. Len(f) + Len(c) : g[u] = IF u <= Len(f) THEN f[u] ELSE c[u - Len(f)]
  <2>1. f \in Seq(V)
    BY <1>1
  <2> QED
    BY <2>1, ConcatProperties
<1> HIDE DEF g
<1>3. /\ g \o e \in Seq(V) /\ Len(g \o e) = Len(g) + Len(e)
      /\ \A u \in 1 .. Len(g) + Len(e) : (g \o e)[u] = IF u <= Len(g) THEN g[u] ELSE e[u - Len(g)]
  <2>1. g \in Seq(V)
    BY <1>2
  <2> QED
    BY <2>1, ConcatProperties
<1>4. ASSUME NEW u \in 1 .. Len(a) + 1 + Len(c) + Len(e)
      PROVE  (g \o e)[u] = IF u <= Len(a) THEN a[u]
                           ELSE IF u = Len(a) + 1 THEN b[1]
                           ELSE IF u <= Len(a) + 1 + Len(c) THEN c[u - Len(a) - 1]
                           ELSE e[u - Len(a) - 1 - Len(c)]
  <2>1. (g \o e)[u] = IF u <= Len(g) THEN g[u] ELSE e[u - Len(g)]
    BY <1>0, <1>1, <1>2, <1>3
  <2>2. u <= Len(g) => g[u] = IF u <= Len(f) THEN f[u] ELSE c[u - Len(f)]
    BY <1>0, <1>1, <1>2
  <2>3. u <= Len(f) => f[u] = IF u <= Len(a) THEN a[u] ELSE b[1]
    BY <1>0, <1>1
  <2>4. u - Len(f) = u - Len(a) - 1 /\ u - Len(g) = u - Len(a) - 1 - Len(c)
    BY <1>0, <1>1, <1>2
  <2> QED
    BY <1>0, <1>1, <1>2, <2>1, <2>2, <2>3, <2>4
<1>5. g \o e \in Seq(V) /\ Len(g \o e) = Len(a) + 1 + Len(c) + Len(e)
  BY <1>0, <1>1, <1>2, <1>3
<1> QED
  BY <1>4, <1>5 DEF f, g, Joined

\* The padded message, as PaddedAt tells it.
LEMMA PaddedIs ==
  ASSUME NEW m \in Seq(Letter)
  PROVE  /\ PaddedOf(m) \in Seq(Cell)
         /\ Len(PaddedOf(m)) = PaddedLen(Len(m))
         /\ \A u \in 1 .. PaddedLen(Len(m)) : PaddedOf(m)[u] = PaddedAt(m, u)
<1> DEFINE l == Len(m)
           b == <<Mark>>
           c == [u \in 1 .. Zeros(l) |-> 0]
           e == [u \in 1 .. LengthSize |-> Digit(l, LengthSize - u)]
<1>1. l \in Nat /\ Zeros(l) \in Nat /\ LengthSize \in Nat
  BY Sizes, ZerosNat
<1>2. m \in Seq(Cell)
  BY DEF Cell
<1>3. b \in Seq(Cell) /\ Len(b) = 1 /\ b[1] = Mark
  BY Written DEF Cell, Letter
<1>4. c \in Seq(Cell) /\ Len(c) = Zeros(l) /\ \A u \in 1 .. Len(c) : c[u] = 0
  <2>1. 0 \in Cell
    BY DEF Cell, Letter
  <2> HIDE DEF l
  <2> QED
    BY <1>1, <2>1
<1>5. /\ e \in Seq(Cell) /\ Len(e) = LengthSize
      /\ \A u \in 1 .. LengthSize : e[u] = Digit(l, LengthSize - u)
  <2>1. \A u \in 1 .. LengthSize : Digit(l, LengthSize - u) \in Cell
    BY <1>1, Written DEF Cell, Letter
  <2> HIDE DEF l
  <2> QED
    BY <1>1, <2>1
<1>6. PaddedOf(m) = m \o b \o c \o e
  BY DEF PaddedOf
<1> HIDE DEF b, c, e
<1>7. PaddedOf(m) \in Seq(Cell) /\ Joined(PaddedOf(m), m, b, c, e)
  <2>1. b \in Seq(Cell) /\ c \in Seq(Cell) /\ e \in Seq(Cell) /\ Len(b) = 1
    BY <1>3, <1>4, <1>5
  <2> QED
    BY <1>2, <1>6, <2>1, Four
<1>8. PaddedLen(l) = l + 1 + Len(c) + Len(e)
  BY <1>4, <1>5 DEF PaddedLen
<1>9. ASSUME NEW u \in 1 .. PaddedLen(l) PROVE PaddedOf(m)[u] = PaddedAt(m, u)
  <2>1. u <= l => PaddedOf(m)[u] = m[u]
    BY <1>1, <1>7, <1>8 DEF Joined
  <2>2. u = l + 1 => PaddedOf(m)[u] = Mark
    BY <1>1, <1>3, <1>7, <1>8 DEF Joined
  <2>3. u > l + 1 /\ u <= l + 1 + Zeros(l) => PaddedOf(m)[u] = 0
    <3> SUFFICES ASSUME u > l + 1, u <= l + 1 + Zeros(l) PROVE PaddedOf(m)[u] = 0
      OBVIOUS
    <3>1. u - Len(m) - 1 \in 1 .. Len(c)
      BY <1>1, <1>4
    <3>2. PaddedOf(m)[u] = c[u - Len(m) - 1]
      BY <1>1, <1>4, <1>7, <1>8 DEF Joined
    <3> QED
      BY <1>4, <3>1, <3>2
  <2>4. u > l + 1 + Zeros(l) => PaddedOf(m)[u] = Digit(l, PaddedLen(l) - u)
    <3> SUFFICES ASSUME u > l + 1 + Zeros(l) PROVE PaddedOf(m)[u] = Digit(l, PaddedLen(l) - u)
      OBVIOUS
    <3>0. /\ u \in 1 .. Len(m) + 1 + Len(c) + Len(e)
          /\ ~ (u <= Len(m)) /\ u # Len(m) + 1 /\ ~ (u <= Len(m) + 1 + Len(c))
      BY <1>1, <1>4, <1>5, <1>8
    <3>1. PaddedOf(m)[u] = e[u - Len(m) - 1 - Len(c)]
      BY <1>7, <3>0 DEF Joined
    <3>2. /\ u - Len(m) - 1 - Len(c) \in 1 .. LengthSize
          /\ LengthSize - (u - Len(m) - 1 - Len(c)) = PaddedLen(l) - u
      BY <1>1, <1>4, <1>5, <1>8
    <3> QED
      BY <1>5, <3>1, <3>2
  <2>5. PaddedLen(l) - LengthSize = l + 1 + Zeros(l)
    BY <1>1 DEF PaddedLen
  <2> HIDE DEF l
  <2>6. u \in Nat
    BY <1>1 DEF PaddedLen
  <2> QED
    BY <1>1, <2>1, <2>2, <2>3, <2>4, <2>5, <2>6 DEF PaddedAt, l
<1> QED
  BY <1>7, <1>8, <1>9 DEF Joined

\* The padded message tells the message it is made from, when the bits of the message
\* can be counted in its last bytes.
LEMMA PaddedTells ==
  ASSUME NEW m \in Seq(Letter), NEW w \in Seq(Letter),
         8 * Len(m) < Power(Radix)[LengthSize], 8 * Len(w) < Power(Radix)[LengthSize],
         PaddedOf(m) = PaddedOf(w)
  PROVE  m = w
<1> DEFINE l == Len(m)
           k == Len(w)
           N == PaddedLen(l)
<1>1. /\ l \in Nat /\ k \in Nat /\ LengthSize \in Nat \ {0}
      /\ N \in Nat /\ Zeros(l) \in Nat /\ Zeros(k) \in Nat
  <2>1. l \in Nat /\ k \in Nat
    OBVIOUS
  <2> HIDE DEF l, k
  <2> QED
    BY <2>1, Sizes, ZerosNat
<1>2. /\ \A u \in 1 .. N : PaddedOf(m)[u] = PaddedAt(m, u)
      /\ N = PaddedLen(k)
      /\ \A u \in 1 .. N : PaddedOf(w)[u] = PaddedAt(w, u)
  BY PaddedIs
<1>3. \A u \in 1 .. N : PaddedAt(m, u) = PaddedAt(w, u)
  BY <1>2
<1>4. N - LengthSize = l + 1 + Zeros(l) /\ N - LengthSize = k + 1 + Zeros(k)
  <2>1. N = l + 1 + Zeros(l) + LengthSize
    BY DEF PaddedLen
  <2>2. N = k + 1 + Zeros(k) + LengthSize
    BY <1>2 DEF PaddedLen
  <2> HIDE DEF N
  <2> QED
    BY <1>1, <2>1, <2>2
<1>5. ASSUME NEW d \in 0 .. LengthSize - 1 PROVE Digit(l, d) = Digit(k, d)
  <2>1. N - d \in 1 .. N /\ N - (N - d) = d
    <3> HIDE DEF l, k, N
    <3> QED
      BY <1>1, <1>4
  <2>2. /\ ~ (N - d <= l) /\ N - d # l + 1 /\ ~ (N - d <= N - LengthSize)
        /\ ~ (N - d <= k) /\ N - d # k + 1
    <3> HIDE DEF l, k, N
    <3> QED
      BY <1>1, <1>4
  <2>3. PaddedAt(m, N - d) = Digit(l, d)
    BY <2>1, <2>2 DEF PaddedAt
  <2>4. PaddedAt(w, N - d) = Digit(k, d)
    BY <1>2, <2>1, <2>2 DEF PaddedAt
  <2> QED
    BY <1>3, <2>1, <2>3, <2>4
<1>6. l = k
  <2> DEFINE P == Power(Radix)
  <2>1. /\ \A d \in 0 .. LengthSize - 1 : ((8 * l) \div P[d]) % Radix = ((8 * k) \div P[d]) % Radix
        /\ LengthSize \in Nat
    BY <1>1, <1>5 DEF Digit
  <2>2. Radix \in Nat \ {0} /\ P[LengthSize] \in Nat
    BY <2>1, PowerPositive, DigestAssumption
  <2>3. 8 * l \in 0 .. P[LengthSize] - 1 /\ 8 * k \in 0 .. P[LengthSize] - 1
    <3>1. 8 * l < P[LengthSize] /\ 8 * k < P[LengthSize]
      OBVIOUS
    <3> HIDE DEF l, k, P
    <3> QED
      BY <1>1, <2>2, <3>1
  <2> HIDE DEF l, k
  <2>4. 8 * l = 8 * k
    BY <2>1, <2>2, <2>3, DigitsTell
  <2> QED
    BY <1>1, <2>4
<1>7. ASSUME NEW u \in 1 .. l PROVE m[u] = w[u]
  <2>1. u \in 1 .. N /\ u <= l
    <3>1. u \in Nat /\ u >= 1 /\ u <= l
      BY <1>1
    <3> HIDE DEF l, N
    <3> QED
      BY <1>1, <1>4, <3>1
  <2>2. PaddedAt(m, u) = m[u] /\ PaddedAt(w, u) = w[u]
    BY <1>6, <2>1 DEF PaddedAt
  <2> QED
    BY <1>3, <2>1, <2>2
<1> QED
  BY <1>6, <1>7

-----------------------------------------------------------------------------
(* The blocks that sha256_final makes.                                     *)

\* The blocks hold the first bytes of the message, a block each.
Blocks(st, m) ==
  /\ st \in Uniform(Cell, BlockSize)
  /\ BlockSize * Len(st) <= Len(m)
  /\ \A u \in 1 .. BlockSize * Len(st) : FlattenSeq(st)[u] = m[u]

\* One more block.
LEMMA BlockAppended ==
  ASSUME NEW st \in Uniform(Cell, BlockSize), NEW x \in [1 .. BlockSize -> Cell]
  PROVE  /\ Append(st, x) \in Uniform(Cell, BlockSize)
         /\ Len(Append(st, x)) = Len(st) + 1 /\ Len(st) \in Nat
         /\ FlattenSeq(Append(st, x)) \in Seq(Cell)
         /\ Len(FlattenSeq(Append(st, x))) = BlockSize * Len(st) + BlockSize
         /\ \A u \in 1 .. BlockSize * Len(st) : FlattenSeq(Append(st, x))[u] = FlattenSeq(st)[u]
         /\ \A v \in 1 .. BlockSize : FlattenSeq(Append(st, x))[BlockSize * Len(st) + v] = x[v]
<1> DEFINE f == FlattenSeq(st)
           l == Len(st)
<1>1. st \in Seq(Seq(Cell)) /\ BlockSize \in Nat \ {0}
  BY Sizes DEF Uniform
<1>2. x \in Seq(Cell) /\ Len(x) = BlockSize
  BY <1>1
<1>3. f \in Seq(Cell) /\ FlattenSeq(Append(st, x)) = f \o x
  BY <1>1, <1>2, FlattenAppend
<1>4. Len(f) = BlockSize * l /\ l \in Nat
  BY <1>1, UniformSpread DEF Spread
<1>5. Append(st, x) \in Uniform(Cell, BlockSize)
  BY <1>1, <1>2, UniformSpread, SpreadAppend
<1>6. Len(Append(st, x)) = l + 1
  BY <1>1
<1> HIDE DEF f, l
<1>7. /\ f \o x \in Seq(Cell)
      /\ Len(f \o x) = Len(f) + Len(x)
      /\ \A u \in 1 .. Len(f) + Len(x) : (f \o x)[u] = IF u <= Len(f) THEN f[u] ELSE x[u - Len(f)]
  BY <1>2, <1>3, ConcatProperties
<1>8. BlockSize * l \in Nat
  BY <1>1, <1>4
<1>9. ASSUME NEW u \in 1 .. BlockSize * l PROVE (f \o x)[u] = f[u]
  BY <1>1, <1>2, <1>4, <1>7, <1>8
<1>10. ASSUME NEW v \in 1 .. BlockSize PROVE (f \o x)[BlockSize * l + v] = x[v]
  <2> DEFINE u == BlockSize * l + v
  <2>1. u \in 1 .. Len(f) + Len(x) /\ ~ (u <= Len(f)) /\ u - Len(f) = v
    BY <1>1, <1>2, <1>4, <1>8
  <2> HIDE DEF u
  <2>2. (f \o x)[u] = x[v]
    BY <1>7, <2>1
  <2> QED
    BY <2>2 DEF u
<1>11. Len(f \o x) = BlockSize * l + BlockSize
  BY <1>2, <1>4, <1>7
<1> QED
  BY <1>3, <1>4, <1>5, <1>6, <1>7, <1>9, <1>10, <1>11 DEF f, l

\* The block after the blocks st holds the rest of the message, the mark and zeros up to
\* a place.
EndsIn(x, m, st, upto) ==
  \A v \in 1 .. upto :
    x[v] = IF BlockSize * Len(st) + v <= Len(m) THEN m[BlockSize * Len(st) + v]
           ELSE IF BlockSize * Len(st) + v = Len(m) + 1 THEN Mark
           ELSE 0

\* A block ends in the length of a message of l bytes.
EndsInLength(x, l) == \A v \in At + 1 .. BlockSize : x[v] = Digit(l, BlockSize - v)

\* Room is left for the length: one more block makes the padded message.
LEMMA FinalOne ==
  ASSUME NEW m \in Seq(Letter), NEW st, Blocks(st, m),
         NEW d \in 0 .. At - 1, Len(m) = BlockSize * Len(st) + d,
         NEW x \in [1 .. BlockSize -> Cell], EndsIn(x, m, st, At), EndsInLength(x, Len(m))
  PROVE  FlattenSeq(Append(st, x)) = PaddedOf(m)
<1> DEFINE f == FlattenSeq(Append(st, x))
           b == BlockSize * Len(st)
           l == Len(m)
           N == PaddedLen(l)
<1>1. /\ BlockSize \in Nat \ {0} /\ At \in Nat /\ LengthSize \in Nat
      /\ BlockSize = At + LengthSize /\ At < BlockSize
  BY Sizes
<1>2. st \in Uniform(Cell, BlockSize) /\ \A u \in 1 .. b : FlattenSeq(st)[u] = m[u]
  BY DEF Blocks
<1>3. /\ Len(st) \in Nat /\ f \in Seq(Cell) /\ Len(f) = b + BlockSize
      /\ \A u \in 1 .. b : f[u] = m[u]
      /\ \A v \in 1 .. BlockSize : f[b + v] = x[v]
  BY <1>2, BlockAppended
<1>4. b \in Nat /\ l = b + d /\ l \in Nat
  BY <1>1, <1>3
<1>5. N = b + BlockSize
  <2>1. d \in 0 .. BlockSize - 1 /\ d < At
    BY <1>1
  <2> QED
    BY <1>3, <2>1, ZerosAre
<1>6. /\ PaddedOf(m) \in Seq(Cell) /\ Len(PaddedOf(m)) = N
      /\ \A u \in 1 .. N : PaddedOf(m)[u] = PaddedAt(m, u)
  BY PaddedIs
<1>7. \A v \in 1 .. At : x[v] = IF b + v <= l THEN m[b + v] ELSE IF b + v = l + 1 THEN Mark ELSE 0
  BY DEF EndsIn
<1>8. \A v \in At + 1 .. BlockSize : x[v] = Digit(l, BlockSize - v)
  BY DEF EndsInLength
<1>9. \A u : PaddedAt(m, u) = IF u <= l THEN m[u] ELSE IF u = l + 1 THEN Mark
                              ELSE IF u <= N - LengthSize THEN 0 ELSE Digit(l, N - u)
  BY DEF PaddedAt
<1> HIDE DEF f, b, l, N
<1>10. ASSUME NEW u \in 1 .. N PROVE f[u] = PaddedAt(m, u)
  <2>1. CASE u <= b
    <3>1. u \in 1 .. b /\ u <= l
      BY <1>1, <1>4, <1>5, <2>1
    <3> QED
      BY <1>3, <1>9, <3>1
  <2>2. CASE u > b
    <3> DEFINE v == u - b
    <3>1. v \in 1 .. BlockSize /\ u = b + v
      BY <1>1, <1>4, <1>5, <2>2
    <3> HIDE DEF v
    <3>2. f[u] = x[v]
      BY <1>3, <3>1
    <3>3. CASE v <= At
      <4>1. v \in 1 .. At /\ u <= N - LengthSize
        BY <1>1, <1>4, <1>5, <3>1, <3>3
      <4> QED
        BY <1>7, <1>9, <3>1, <3>2, <4>1
    <3>4. CASE v > At
      <4>1. v \in At + 1 .. BlockSize /\ N - u = BlockSize - v
        BY <1>1, <1>4, <1>5, <3>1, <3>4
      <4>2. ~ (u <= N - LengthSize) /\ ~ (u <= l) /\ u # l + 1
        BY <1>1, <1>4, <1>5, <3>1, <3>4
      <4> QED
        BY <1>8, <1>9, <3>2, <4>1, <4>2
    <3> QED
      BY <1>1, <3>1, <3>3, <3>4
  <2> QED
    BY <1>4, <1>5, <2>1, <2>2
<1>11. f = PaddedOf(m)
  <2> DEFINE g == PaddedOf(m)
  <2>1. g \in Seq(Cell) /\ Len(g) = Len(f) /\ \A u \in 1 .. Len(f) : f[u] = g[u]
    BY <1>3, <1>5, <1>6, <1>10
  <2> HIDE DEF g
  <2>2. f = g
    BY <1>3, <2>1
  <2> QED
    BY <2>2 DEF g
<1> QED
  BY <1>11 DEF f

\* No room is left: the mark, and zeros, end one block, and the length ends the next.
LEMMA FinalTwo ==
  ASSUME NEW m \in Seq(Letter), NEW st, Blocks(st, m),
         NEW d \in At .. BlockSize - 1, Len(m) = BlockSize * Len(st) + d,
         NEW x \in [1 .. BlockSize -> Cell], EndsIn(x, m, st, BlockSize),
         NEW y \in [1 .. BlockSize -> Cell], \A v \in 1 .. At : y[v] = 0,
         EndsInLength(y, Len(m))
  PROVE  FlattenSeq(Append(Append(st, x), y)) = PaddedOf(m)
<1> DEFINE f == FlattenSeq(Append(Append(st, x), y))
           b == BlockSize * Len(st)
           c == BlockSize * (Len(st) + 1)
           l == Len(m)
           N == PaddedLen(l)
<1>1. /\ BlockSize \in Nat \ {0} /\ At \in Nat /\ LengthSize \in Nat
      /\ BlockSize = At + LengthSize /\ At < BlockSize
  BY Sizes
<1>2. st \in Uniform(Cell, BlockSize) /\ \A u \in 1 .. b : FlattenSeq(st)[u] = m[u]
  BY DEF Blocks
<1>3. /\ Append(st, x) \in Uniform(Cell, BlockSize) /\ Len(Append(st, x)) = Len(st) + 1
      /\ Len(st) \in Nat
      /\ \A u \in 1 .. b : FlattenSeq(Append(st, x))[u] = m[u]
      /\ \A v \in 1 .. BlockSize : FlattenSeq(Append(st, x))[b + v] = x[v]
  BY <1>2, BlockAppended
<1>4. /\ f \in Seq(Cell) /\ Len(f) = c + BlockSize
      /\ \A u \in 1 .. c : f[u] = FlattenSeq(Append(st, x))[u]
      /\ \A v \in 1 .. BlockSize : f[c + v] = y[v]
  <2> DEFINE z == Append(st, x)
             g == Append(z, y)
  <2>1. z \in Uniform(Cell, BlockSize) /\ BlockSize * Len(z) = c
    BY <1>3
  <2> HIDE DEF z, c
  <2>2. /\ FlattenSeq(g) \in Seq(Cell) /\ Len(FlattenSeq(g)) = c + BlockSize
        /\ \A u \in 1 .. c : FlattenSeq(g)[u] = FlattenSeq(z)[u]
        /\ \A v \in 1 .. BlockSize : FlattenSeq(g)[c + v] = y[v]
    BY <2>1, BlockAppended
  <2> QED
    BY <2>2 DEF z
<1>5. b \in Nat /\ c = b + BlockSize /\ l = b + d /\ l \in Nat
  BY <1>1, <1>3
<1>6. N = c + BlockSize
  <2>1. d \in 0 .. BlockSize - 1 /\ d >= At
    BY <1>1
  <2>2. N = b + 2 * BlockSize
    BY <1>3, <2>1, ZerosAre
  <2> HIDE DEF N, b, c
  <2> QED
    BY <1>1, <1>5, <2>2
<1>7. /\ PaddedOf(m) \in Seq(Cell) /\ Len(PaddedOf(m)) = N
      /\ \A u \in 1 .. N : PaddedOf(m)[u] = PaddedAt(m, u)
  BY PaddedIs
<1>8. \A v \in 1 .. BlockSize :
        x[v] = IF b + v <= l THEN m[b + v] ELSE IF b + v = l + 1 THEN Mark ELSE 0
  BY DEF EndsIn
<1>9. \A v \in At + 1 .. BlockSize : y[v] = Digit(l, BlockSize - v)
  BY DEF EndsInLength
<1>10. \A u : PaddedAt(m, u) = IF u <= l THEN m[u] ELSE IF u = l + 1 THEN Mark
                              ELSE IF u <= N - LengthSize THEN 0 ELSE Digit(l, N - u)
  BY DEF PaddedAt
<1> HIDE DEF f, b, c, l, N
<1>11. ASSUME NEW u \in 1 .. N PROVE f[u] = PaddedAt(m, u)
  <2>1. CASE u <= b
    <3>1. u \in 1 .. b /\ u \in 1 .. c /\ u <= l
      BY <1>1, <1>5, <1>6, <2>1
    <3> QED
      BY <1>3, <1>4, <1>10, <3>1
  <2>2. CASE u > b /\ u <= c
    <3> DEFINE v == u - b
    <3>1. v \in 1 .. BlockSize /\ u = b + v /\ u \in 1 .. c
      BY <1>1, <1>5, <1>6, <2>2
    <3> HIDE DEF v
    <3>2. f[u] = x[v]
      BY <1>3, <1>4, <3>1
    <3>3. u <= N - LengthSize
      BY <1>1, <1>5, <1>6, <3>1
    <3> QED
      BY <1>8, <1>10, <3>1, <3>2, <3>3
  <2>3. CASE u > c
    <3> DEFINE v == u - c
    <3>1. v \in 1 .. BlockSize /\ u = c + v
      BY <1>1, <1>5, <1>6, <2>3
    <3> HIDE DEF v
    <3>2. f[u] = y[v]
      BY <1>4, <3>1
    <3>3. ~ (u <= l) /\ u # l + 1
      BY <1>1, <1>5, <3>1
    <3>4. CASE v <= At
      <4>1. v \in 1 .. At /\ u <= N - LengthSize
        BY <1>1, <1>5, <1>6, <3>1, <3>4
      <4> QED
        BY <1>10, <3>2, <3>3, <4>1
    <3>5. CASE v > At
      <4>1. v \in At + 1 .. BlockSize /\ N - u = BlockSize - v /\ ~ (u <= N - LengthSize)
        BY <1>1, <1>5, <1>6, <3>1, <3>5
      <4> QED
        BY <1>9, <1>10, <3>2, <3>3, <4>1
    <3> QED
      BY <1>1, <3>1, <3>4, <3>5
  <2> QED
    BY <1>5, <1>6, <2>1, <2>2, <2>3
<1>12. f = PaddedOf(m)
  <2> DEFINE g == PaddedOf(m)
  <2>1. g \in Seq(Cell) /\ Len(g) = Len(f) /\ \A u \in 1 .. Len(f) : f[u] = g[u]
    BY <1>4, <1>6, <1>7, <1>11
  <2> HIDE DEF g
  <2>2. f = g
    BY <1>4, <2>1
  <2> QED
    BY <2>2 DEF g
<1> QED
  BY <1>12 DEF f
-----------------------------------------------------------------------------
(* The invariant.                                                          *)

\* Pairs of a byte and a run length.
IsForm(f) == /\ f \in Uniform(Letter, 2)
             /\ \A m \in 1 .. Len(f) : f[m][1] \in Byte /\ f[m][2] \in 1 .. LongestRun

\* The run that starts behind the first p bytes of a chunk c.
RunAt(c, p) ==
  Max({r \in 1 .. LongestRun : p + r <= Len(c) /\ \A u \in 1 .. r : c[p + u] = c[p + 1]})

\* How rle_compress wrote a form, p giving the bytes read after each pair: a pair was
\* written when bytes and room were left, and for the whole run.
Traced(f, c, p) ==
  /\ p \in [0 .. Len(f) -> Nat] /\ p[0] = 0
  /\ \A m \in 1 .. Len(f) : /\ 2 * (m - 1) < output_len - 2 /\ p[m - 1] < Len(c)
                             /\ f[m] = <<c[p[m - 1] + 1], RunAt(c, p[m - 1])>>
                             /\ p[m] = p[m - 1] + RunAt(c, p[m - 1])

IsTraced(f, c, k) == \E p : Traced(f, c, p) /\ p[Len(f)] = k

\* A form that fits spells the first k bytes of chunk l; those are all, or it is full.
Spells(f, l, k) == /\ IsForm(f) /\ 2 * Len(f) < output_len
                   /\ k \in 0 .. Len(chunks[l])
                   /\ R!Expand(f) = SubSeq(chunks[l], 1, k)
                   /\ IsTraced(f, chunks[l], k)
Whole(f, l, k) == k = Len(chunks[l]) \/ R!Full(f)

\* What is digested for a form.
Message(f)      == FlattenSeq(f)
Digested(st, f) == /\ st \in Uniform(Cell, BlockSize)
                   /\ FlattenSeq(st) = PaddedOf(Message(f))

\* What has been read of the message is in the blocks folded in and in the one being
\* filled, whatever is behind it there.
ShaInv == /\ datalen \in 0 .. BlockSize - 1
          /\ read = BlockSize * Len(state) + datalen /\ read <= Len(Message(output))
          /\ bitlen = 8 * (BlockSize * Len(state))
          /\ Blocks(state, Message(output))
          /\ \A u \in 1 .. datalen : data[u] = Message(output)[BlockSize * Len(state) + u]

\* What is stored for chunk l.
Stored(l) == /\ Digested(sha256_output[l], forms[l])
             /\ \E k \in Nat : Spells(forms[l], l, k) /\ Whole(forms[l], l, k)

Typed == /\ chunks \in Seq(Seq(Byte)) /\ n \in 1 .. Len(chunks) + 1
         /\ pc \in {"compress", "update", "final", "end"}
         /\ pc # "end" => n <= Len(chunks)
         /\ data \in [1 .. BlockSize -> Cell]
         /\ sha256_output \in Seq(Seq(Seq(Cell))) /\ Len(sha256_output) = n - 1
         /\ forms \in Seq(Seq(Seq(Letter))) /\ Len(forms) = n - 1

IInv == /\ Typed
        /\ pc # "end" => Spells(output, n, i)
        /\ pc \in {"update", "final"} => Whole(output, n, i)
        /\ pc = "update" => ShaInv
        /\ pc = "final" => Digested(state, output)
        /\ \A l \in 1 .. n - 1 : Stored(l)

-----------------------------------------------------------------------------
(* Run-length forms.                                                       *)

\* The runs a form stands for.
Runs(f) == [m \in DOMAIN f |-> [u \in 1 .. f[m][2] |-> f[m][1]]]

\* They are sequences of bytes.
LEMMA RunsAre ==
  ASSUME NEW f, IsForm(f)
  PROVE  /\ Runs(f) \in Seq(Seq(Byte)) /\ Len(Runs(f)) = Len(f) /\ f \in Seq(Seq(Letter))
         /\ Len(f) \in Nat /\ R!Expand(f) = FlattenSeq(Runs(f))
<1>1. f \in Seq(Seq(Letter)) /\ Len(f) \in Nat /\ DOMAIN f = 1 .. Len(f)
  BY DEF IsForm, Uniform
<1>2. \A m \in 1 .. Len(f) : [u \in 1 .. f[m][2] |-> f[m][1]] \in Seq(Byte)
  <2> SUFFICES ASSUME NEW m \in 1 .. Len(f) PROVE [u \in 1 .. f[m][2] |-> f[m][1]] \in Seq(Byte)
    OBVIOUS
  <2> DEFINE b == f[m][1]
             r == f[m][2]
  <2>1. b \in Byte /\ r \in Nat
    BY DigestAssumption DEF IsForm
  <2> HIDE DEF b, r
  <2>2. [u \in 1 .. r |-> b] \in Seq(Byte)
    BY <2>1
  <2> QED
    BY <2>2 DEF b, r
<1>3. Runs(f) \in Seq(Seq(Byte)) /\ Len(Runs(f)) = Len(f)
  BY <1>1, <1>2 DEF Runs
<1>4. R!Expand(f) = FlattenSeq(Runs(f))
  BY DEF R!Expand, R!FlattenSeq, FlattenSeq, Runs
<1> QED
  BY <1>1, <1>3, <1>4

\* The empty form stands for no bytes.
LEMMA FormEmpty == IsForm(<< >>) /\ R!Expand(<< >>) = << >>
<1>1. << >> \in Seq(Seq(Letter)) /\ Len(<< >>) = 0
  OBVIOUS
<1>2. IsForm(<< >>)
  BY <1>1 DEF IsForm, Uniform
<1>3. Runs(<< >>) = << >>
  BY DEF Runs
<1> QED
  BY <1>2, <1>3, RunsAre, FlattenEmpty

\* One more pair stands for one more run.
LEMMA FormAppend ==
  ASSUME NEW f, IsForm(f), NEW b \in Byte, NEW r \in 1 .. LongestRun
  PROVE  /\ IsForm(Append(f, <<b, r>>)) /\ Len(Append(f, <<b, r>>)) = Len(f) + 1
         /\ R!Expand(f) \in Seq(Byte)
         /\ R!Expand(Append(f, <<b, r>>)) = R!Expand(f) \o [u \in 1 .. r |-> b]
<1> DEFINE x == <<b, r>>
           g == Append(f, x)
           run == [u \in 1 .. r |-> b]
<1>1. Runs(f) \in Seq(Seq(Byte)) /\ Len(Runs(f)) = Len(f) /\ f \in Seq(Seq(Letter)) /\ Len(f) \in Nat
  BY RunsAre
<1>2. x \in Seq(Letter) /\ Len(x) = 2 /\ x[1] = b /\ x[2] = r
  <2>1. b \in Letter /\ r \in Letter
    BY DigestAssumption DEF Letter
  <2> QED
    BY <2>1
<1>3. run \in Seq(Byte)
  BY DigestAssumption
<1>4. /\ g \in Seq(Seq(Letter)) /\ Len(g) = Len(f) + 1 /\ DOMAIN g = 1 .. Len(f) + 1
      /\ g[Len(f) + 1] = x /\ \A m \in 1 .. Len(f) : g[m] = f[m]
  <2> HIDE DEF x
  <2> QED
    BY <1>1, <1>2
<1> HIDE DEF x, g
<1>5. IsForm(g)
  <2>1. ASSUME NEW m \in 1 .. Len(f) + 1
        PROVE  Len(g[m]) = 2 /\ g[m][1] \in Byte /\ g[m][2] \in 1 .. LongestRun
    <3>1. CASE m = Len(f) + 1
      BY <1>2, <1>4, <3>1
    <3>2. CASE m \in 1 .. Len(f)
      <4>1. Len(f[m]) = 2 /\ f[m][1] \in Byte /\ f[m][2] \in 1 .. LongestRun
        BY <3>2 DEF IsForm, Uniform
      <4> QED
        BY <1>4, <3>2, <4>1
    <3> QED
      BY <1>1, <3>1, <3>2
  <2> QED
    BY <1>4, <2>1 DEF IsForm, Uniform
<1>6. Runs(g) = Append(Runs(f), run)
  <2>1. /\ Runs(g) \in Seq(Seq(Byte)) /\ Len(Runs(g)) = Len(f) + 1
    BY <1>4, <1>5, RunsAre
  <2>2. \A m \in 1 .. Len(f) + 1 : Runs(g)[m] = [u \in 1 .. g[m][2] |-> g[m][1]]
    BY <1>4 DEF Runs
  <2>3. \A m \in 1 .. Len(f) : Runs(f)[m] = [u \in 1 .. f[m][2] |-> f[m][1]]
    <3>1. DOMAIN f = 1 .. Len(f)
      BY <1>1
    <3> QED
      BY <3>1 DEF Runs
  <2>4. Runs(g)[Len(f) + 1] = run
    <3>1. Len(f) + 1 \in 1 .. Len(f) + 1
      BY <1>1
    <3>2. Runs(g)[Len(f) + 1] = [u \in 1 .. g[Len(f) + 1][2] |-> g[Len(f) + 1][1]]
      BY <2>2, <3>1
    <3>3. g[Len(f) + 1][2] = r /\ g[Len(f) + 1][1] = b
      BY <1>2, <1>4
    <3> QED
      BY <3>2, <3>3
  <2>5. ASSUME NEW m \in 1 .. Len(f) PROVE Runs(g)[m] = Runs(f)[m]
    <3>1. m \in 1 .. Len(f) + 1 /\ g[m] = f[m]
      BY <1>1, <1>4
    <3>2. Runs(g)[m] = [u \in 1 .. g[m][2] |-> g[m][1]]
      BY <2>2, <3>1
    <3>3. Runs(f)[m] = [u \in 1 .. f[m][2] |-> f[m][1]]
      BY <2>3
    <3> QED
      BY <3>1, <3>2, <3>3
  <2> DEFINE v == Runs(f)
             w == Runs(g)
  <2>6. /\ v \in Seq(Seq(Byte)) /\ w \in Seq(Seq(Byte)) /\ Len(w) = Len(v) + 1 /\ w[Len(v) + 1] = run
        /\ \A m \in 1 .. Len(v) : w[m] = v[m]
    BY <1>1, <2>1, <2>4, <2>5
  <2> HIDE DEF v, w, run
  <2>7. w = Append(v, run)
    BY <1>3, <2>6
  <2> QED
    BY <2>7 DEF v, w
<1>7. FlattenSeq(Runs(f)) \in Seq(Byte) /\ FlattenSeq(Append(Runs(f), run)) = FlattenSeq(Runs(f)) \o run
  <2> HIDE DEF run
  <2> QED
    BY <1>1, <1>3, FlattenAppend
<1>8. R!Expand(f) = FlattenSeq(Runs(f)) /\ R!Expand(g) = FlattenSeq(Runs(g))
  BY <1>5, RunsAre
<1> QED
  BY <1>4, <1>5, <1>6, <1>7, <1>8 DEF g, x

\* The bytes of the next run.
LEMMA RunIs ==
  ASSUME n \in 1 .. Len(chunks), chunks \in Seq(Seq(Byte)), i \in 0 .. Len(chunks[n]), R!More
  PROVE  /\ R!run_length \in 1 .. LongestRun
         /\ i + R!run_length <= Len(chunks[n])
         /\ chunks[n][i + 1] \in Byte
         /\ \A u \in 1 .. R!run_length : chunks[n][i + u] = chunks[n][i + 1]
<1> DEFINE T == {r \in 1 .. LongestRun : R!IsRun(r)}
<1>1. chunks[n] \in Seq(Byte) /\ Len(chunks[n]) \in Nat /\ i < Len(chunks[n]) /\ i \in Nat
  BY DEF R!More
<1>2. 1 \in T
  BY <1>1, DigestAssumption DEF R!IsRun
<1>3. T \subseteq 1 .. LongestRun /\ LongestRun \in Nat /\ T # {}
  BY <1>2, DigestAssumption
<1>4. Max(T) \in T
  <2> HIDE DEF T
  <2> QED
    BY <1>3, MaxIs
<1>5. R!run_length = Max(T)
  BY DEF R!run_length, R!Max, Max
<1>6. R!run_length \in 1 .. LongestRun /\ R!IsRun(R!run_length)
  BY <1>4, <1>5
<1> QED
  BY <1>1, <1>6 DEF R!IsRun

\* Nothing is written before the first run.
LEMMA TraceEmpty == \A c : IsTraced(<< >>, c, 0)
<1> SUFFICES ASSUME NEW c PROVE IsTraced(<< >>, c, 0)
  OBVIOUS
<1> DEFINE p == [m \in 0 .. 0 |-> 0]
<1>1. Traced(<< >>, c, p) /\ p[Len(<< >>)] = 0
  BY DEF Traced
<1> QED
  BY <1>1 DEF IsTraced

\* A run is written.
LEMMA TraceAppend ==
  ASSUME NEW f, NEW V, f \in Seq(V), NEW c, NEW k \in Nat, IsTraced(f, c, k),
         2 * Len(f) < output_len - 2, k < Len(c), RunAt(c, k) \in Nat, NEW x \in V,
         x = <<c[k + 1], RunAt(c, k)>>
  PROVE  IsTraced(Append(f, x), c, k + RunAt(c, k))
<1>1. PICK p : Traced(f, c, p) /\ p[Len(f)] = k
  BY DEF IsTraced
<1> DEFINE g == Append(f, x)
           l == Len(f)
           o == k + RunAt(c, k)
           q == [m \in 0 .. l + 1 |-> IF m = l + 1 THEN o ELSE p[m]]
<1>2. l \in Nat /\ Len(g) = l + 1 /\ g[l + 1] = x /\ \A m \in 1 .. l : g[m] = f[m]
  OBVIOUS
<1>3. /\ p \in [0 .. l -> Nat] /\ p[0] = 0 /\ p[l] = k
      /\ \A m \in 1 .. l : /\ 2 * (m - 1) < output_len - 2 /\ p[m - 1] < Len(c)
                           /\ f[m] = <<c[p[m - 1] + 1], RunAt(c, p[m - 1])>>
                           /\ p[m] = p[m - 1] + RunAt(c, p[m - 1])
  BY <1>1 DEF Traced
<1>4. o \in Nat /\ o = k + RunAt(c, k)
  OBVIOUS
<1>5. 2 * l < output_len - 2
  OBVIOUS
<1> HIDE DEF g, l, o
<1>6. q \in [0 .. l + 1 -> Nat] /\ q[l + 1] = o /\ \A m \in 0 .. l : q[m] = p[m]
  BY <1>2, <1>3, <1>4
<1> HIDE DEF q
<1>7. ASSUME NEW m \in 1 .. l + 1
      PROVE  /\ 2 * (m - 1) < output_len - 2 /\ q[m - 1] < Len(c)
             /\ g[m] = <<c[q[m - 1] + 1], RunAt(c, q[m - 1])>>
             /\ q[m] = q[m - 1] + RunAt(c, q[m - 1])
  <2>1. CASE m = l + 1
    <3>1. m - 1 = l /\ l \in 0 .. l
      BY <1>2, <2>1
    <3>2. q[m - 1] = k /\ q[m] = o /\ g[m] = x
      BY <1>2, <1>3, <1>6, <2>1, <3>1
    <3> QED
      BY <1>4, <1>5, <3>1, <3>2
  <2>2. CASE m \in 1 .. l
    <3>1. m - 1 \in 0 .. l /\ m \in 0 .. l
      BY <1>2, <2>2
    <3>2. q[m - 1] = p[m - 1] /\ q[m] = p[m] /\ g[m] = f[m]
      BY <1>2, <1>6, <2>2, <3>1
    <3> QED
      BY <1>3, <2>2, <3>2
  <2> QED
    BY <1>2, <2>1, <2>2
<1>8. q[0] = 0
  BY <1>2, <1>3, <1>6
<1>9. Traced(g, c, q) /\ q[Len(g)] = o
  BY <1>2, <1>6, <1>7, <1>8 DEF Traced
<1> QED
  BY <1>9 DEF IsTraced, g, o

\* As long as both are written, two forms of the same chunk are the same.
LEMMA TracesAgree ==
  ASSUME NEW c, NEW f, NEW p, Traced(f, c, p), NEW g, NEW q, Traced(g, c, q),
         Len(f) \in Nat, Len(g) \in Nat
  PROVE  \A m \in Nat : m <= Len(f) /\ m <= Len(g) => p[m] = q[m]
<1> DEFINE T == {m \in Nat : m <= Len(f) /\ m <= Len(g) => p[m] = q[m]}
<1>1. 0 \in T
  BY DEF Traced
<1>2. ASSUME NEW m \in Nat, m \in T PROVE m + 1 \in T
  <2> SUFFICES ASSUME m + 1 <= Len(f), m + 1 <= Len(g) PROVE p[m + 1] = q[m + 1]
    OBVIOUS
  <2>1. m + 1 \in 1 .. Len(f) /\ m + 1 \in 1 .. Len(g) /\ (m + 1) - 1 = m
    OBVIOUS
  <2>2. p[m] = q[m]
    BY <1>2
  <2>3. p[m + 1] = p[m] + RunAt(c, p[m]) /\ q[m + 1] = q[m] + RunAt(c, q[m])
    BY <2>1 DEF Traced
  <2> QED
    BY <2>2, <2>3
<1> HIDE DEF T
<1>3. Nat \subseteq T
  BY <1>1, <1>2, Induct
<1> QED
  BY <1>3 DEF T

\* None of the two goes on where the other ends.
LEMMA TracesEnd ==
  ASSUME NEW c, NEW f, NEW p, Traced(f, c, p), NEW g, NEW q, Traced(g, c, q),
         Len(f) \in Nat, Len(g) \in Nat, p[Len(f)] = Len(c) \/ R!Full(f)
  PROVE  ~ (Len(f) < Len(g))
<1> SUFFICES ASSUME Len(f) < Len(g) PROVE FALSE
  OBVIOUS
<1>1. p[Len(f)] = q[Len(f)]
  BY TracesAgree
<1>2. Len(f) + 1 \in 1 .. Len(g) /\ (Len(f) + 1) - 1 = Len(f)
  OBVIOUS
<1>3. 2 * Len(f) < output_len - 2 /\ q[Len(f)] < Len(c)
  BY <1>2 DEF Traced
<1>4. ~ R!Full(f)
  BY <1>3, DigestAssumption DEF R!Full
<1>5. Len(f) \in 0 .. Len(g) /\ q[Len(f)] \in Nat
  BY DEF Traced
<1> QED
  BY <1>1, <1>3, <1>4, <1>5

\* The form of a chunk is told by the chunk.
LEMMA TracesTell ==
  ASSUME NEW V, NEW f \in Seq(V), NEW g \in Seq(V), NEW c, NEW k, NEW o,
         IsTraced(f, c, k), k = Len(c) \/ R!Full(f),
         IsTraced(g, c, o), o = Len(c) \/ R!Full(g)
  PROVE  f = g
<1>1. PICK p : Traced(f, c, p) /\ p[Len(f)] = k
  BY DEF IsTraced
<1>2. PICK q : Traced(g, c, q) /\ q[Len(g)] = o
  BY DEF IsTraced
<1>3. Len(f) \in Nat /\ Len(g) \in Nat
  OBVIOUS
<1>4. Len(f) = Len(g)
  <2>1. ~ (Len(f) < Len(g))
    BY <1>1, <1>2, <1>3, TracesEnd
  <2>2. ~ (Len(g) < Len(f))
    BY <1>1, <1>2, <1>3, TracesEnd
  <2> QED
    BY <1>3, <2>1, <2>2
<1>5. ASSUME NEW m \in 1 .. Len(f) PROVE f[m] = g[m]
  <2>1. m - 1 \in Nat /\ m - 1 <= Len(f) /\ m - 1 <= Len(g) /\ m \in 1 .. Len(g)
    BY <1>3, <1>4
  <2>2. p[m - 1] = q[m - 1]
    BY <1>1, <1>2, <1>3, <2>1, TracesAgree
  <2>3. f[m] = <<c[p[m - 1] + 1], RunAt(c, p[m - 1])>>
    BY <1>1 DEF Traced
  <2>4. g[m] = <<c[q[m - 1] + 1], RunAt(c, q[m - 1])>>
    BY <1>2, <2>1 DEF Traced
  <2> QED
    BY <2>2, <2>3, <2>4
<1> QED
  BY <1>4, <1>5

-----------------------------------------------------------------------------
(* One step per action.                                                    *)

\* What is stored does not change but in Store.
LEMMA StoredKept ==
  ASSUME UNCHANGED <<chunks, forms, sha256_output>>
  PROVE  \A l : Stored(l)' <=> Stored(l)
BY DEF Stored, Digested, Spells, Whole, R!Expand, R!Full

\* A form is the message that is digested: two bytes a pair, few enough to be counted.
LEMMA MessageIs ==
  ASSUME NEW f, IsForm(f)
  PROVE  /\ Message(f) \in Seq(Letter) /\ Len(Message(f)) \in Nat
         /\ 2 * Len(f) < output_len => 8 * Len(Message(f)) < Power(Radix)[LengthSize]
<1>1. f \in Uniform(Letter, 2) /\ f \in Seq(Seq(Letter)) /\ Len(f) \in Nat
  BY DEF IsForm, Uniform
<1>2. FlattenSeq(f) \in Seq(Letter)
  BY <1>1, FlattenAppend
<1>3. Len(FlattenSeq(f)) = 2 * Len(f)
  BY <1>1, UniformSpread DEF Spread
<1>4. LengthSize \in Nat /\ Power(Radix)[LengthSize] \in Nat
  BY DigestAssumption, PowerIs
<1>5. 2 * Len(f) < output_len => 8 * (2 * Len(f)) < Power(Radix)[LengthSize]
  BY <1>1, <1>4, DigestAssumption
<1> QED
  BY <1>2, <1>3, <1>5 DEF Message

\* Nothing is in the buffers before the first chunk.
LEMMA InitIInv == Init => IInv
<1> SUFFICES ASSUME Init PROVE IInv
  OBVIOUS
<1>1. chunks \in Seq(Seq(Byte)) /\ n = 1 /\ i = 0 /\ output = << >>
  BY DigestAssumption DEF Init, R!Init
<1>2. data \in [1 .. BlockSize -> Cell]
  BY DEF Init, S!Init, S!Garbage, Cell
<1>3. /\ pc \in {"compress", "end"}
      /\ pc # "end" => n \in 1 .. Len(chunks)
  BY <1>1 DEF Init
<1>4. Typed
  <2>1. << >> \in Seq(Seq(Seq(Cell))) /\ << >> \in Seq(Seq(Seq(Letter))) /\ Len(<< >>) = 0
    OBVIOUS
  <2>2. sha256_output = << >> /\ forms = << >> /\ n - 1 = 0 /\ n \in 1 .. Len(chunks) + 1
    BY <1>1 DEF Init
  <2> QED
    BY <1>1, <1>2, <1>3, <2>1, <2>2 DEF Typed
<1>5. ASSUME pc # "end" PROVE Spells(output, n, i)
  <2>1. chunks[n] \in Seq(Byte)
    BY <1>1, <1>3, <1>5
  <2>2. i \in 0 .. Len(chunks[n]) /\ SubSeq(chunks[n], 1, i) = << >>
    BY <1>1, <2>1
  <2>3. 2 * Len(output) < output_len
    BY <1>1, DigestAssumption
  <2> QED
    BY <1>1, <2>2, <2>3, FormEmpty, TraceEmpty DEF Spells
<1> QED
  BY <1>1, <1>3, <1>4, <1>5 DEF IInv

\* The form grows by a run of the chunk.
LEMMA CompressStep == ASSUME IInv, rle_compress PROVE IInv'
<1> DEFINE c == chunks[n]
           r == R!run_length
           b == c[i + 1]
<1>1. /\ chunks \in Seq(Seq(Byte)) /\ n \in 1 .. Len(chunks) /\ pc = "compress" /\ pc' = "compress"
      /\ Spells(output, n, i)
  BY DEF IInv, Typed, rle_compress
<1>2. /\ IsForm(output) /\ i \in 0 .. Len(c) /\ R!Expand(output) = SubSeq(c, 1, i)
      /\ c \in Seq(Byte) /\ Len(output) \in Nat
  BY <1>1, RunsAre DEF Spells
<1>3. R!More /\ output' = Append(output, <<b, r>>) /\ i' = i + r
  BY DEF rle_compress, R!WriteRun
<1>4. /\ r \in 1 .. LongestRun /\ i + r <= Len(c) /\ b \in Byte
      /\ \A u \in 1 .. r : c[i + u] = b
  BY <1>1, <1>2, <1>3, RunIs
<1>5. UNCHANGED <<chunks, n, sha256_output, forms, read, data, datalen, bitlen, state>>
  BY DEF rle_compress, done, ctx
<1>6. /\ IsForm(output') /\ Len(output') = Len(output) + 1
      /\ R!Expand(output') = R!Expand(output) \o [u \in 1 .. r |-> b]
  <2> HIDE DEF c, r, b
  <2> QED
    BY <1>2, <1>3, <1>4, FormAppend
<1>7. SubSeq(c, 1, i) \o [u \in 1 .. r |-> b] = SubSeq(c, 1, i + r)
  <2>1. r \in Nat
    BY <1>4, DigestAssumption
  <2> HIDE DEF c, r, b
  <2>2. i \in Nat /\ i <= Len(c) /\ i + r \in 0 .. Len(c) /\ i + r \in Nat
    BY <1>2, <1>4, <2>1
  <2> DEFINE x == SubSeq(c, 1, i)
             y == [u \in 1 .. r |-> b]
             z == SubSeq(c, 1, i + r)
  <2>3. x \in Seq(Byte) /\ Len(x) = i /\ \A u \in 1 .. i : x[u] = c[u]
    BY <1>2, <2>2
  <2>4. y \in Seq(Byte) /\ Len(y) = r /\ \A u \in 1 .. r : y[u] = c[i + u]
    BY <1>4, <2>1
  <2>5. z \in Seq(Byte) /\ Len(z) = i + r /\ \A u \in 1 .. i + r : z[u] = c[u]
    BY <1>2, <2>2
  <2> HIDE DEF x, y, z
  <2>6. /\ x \o y \in Seq(Byte) /\ Len(x \o y) = i + r
        /\ \A u \in 1 .. i + r : (x \o y)[u] = IF u <= i THEN x[u] ELSE y[u - i]
    BY <2>3, <2>4, ConcatProperties
  <2>7. ASSUME NEW u \in 1 .. i + r PROVE (x \o y)[u] = z[u]
    <3>1. CASE u <= i
      <4>1. u \in 1 .. i
        BY <2>2, <3>1
      <4> QED
        BY <2>3, <2>5, <2>6, <3>1, <4>1
    <3>2. CASE ~ (u <= i)
      <4>1. u - i \in 1 .. r /\ i + (u - i) = u
        BY <2>1, <2>2, <3>2
      <4> QED
        BY <2>4, <2>5, <2>6, <3>2, <4>1
    <3> QED
      BY <3>1, <3>2
  <2>8. x \o y = z
    <3> DEFINE w == x \o y
    <3>1. w \in Seq(Byte) /\ Len(w) = Len(z) /\ \A u \in 1 .. Len(z) : w[u] = z[u]
      BY <2>5, <2>6, <2>7
    <3> HIDE DEF w
    <3>2. w = z
      BY <2>5, <3>1
    <3> QED
      BY <3>2 DEF w
  <2> QED
    BY <2>8 DEF x, y, z
<1>8. 2 * Len(output') < output_len
  BY <1>2, <1>3, <1>6, DigestAssumption DEF R!More, R!out_index
<1>12. IsTraced(output', c, i')
  <2>1. r = RunAt(c, i)
    BY DEF R!run_length, R!IsRun, R!Max, Max, RunAt
  <2>2. /\ IsTraced(output, c, i) /\ 2 * Len(output) < output_len - 2 /\ i < Len(c)
        /\ i \in Nat /\ r \in Nat /\ output \in Seq(Seq(Letter))
    BY <1>1, <1>2, <1>3, <1>4, RunsAre, DigestAssumption DEF Spells, R!More, R!out_index
  <2> DEFINE x == <<c[i + 1], r>>
  <2>3. x \in Seq(Letter)
    <3>1. b \in Letter /\ r \in Letter
      BY <1>4, DigestAssumption DEF Letter
    <3> HIDE DEF r, c
    <3> QED
      BY <3>1
  <2>4. output' = Append(output, x)
    BY <1>3
  <2> HIDE DEF c, r
  <2>5. x = <<c[i + 1], RunAt(c, i)>>
    BY <2>1
  <2> HIDE DEF x
  <2>6. IsTraced(Append(output, x), c, i + RunAt(c, i))
    BY <2>1, <2>2, <2>3, <2>5, TraceAppend
  <2> QED
    BY <1>3, <2>1, <2>4, <2>6
<1>9. Spells(output, n, i)'
  <2>1. R!Expand(output)' = R!Expand(output')
    BY DEF R!Expand
  <2>2. i' \in 0 .. Len(c)
    BY <1>2, <1>3, <1>4, DigestAssumption
  <2>3. chunks'[n'] = c
    BY <1>5
  <2> HIDE DEF c, r, b
  <2> QED
    BY <1>2, <1>3, <1>6, <1>7, <1>8, <1>12, <2>1, <2>2, <2>3 DEF Spells
<1>10. Typed'
  BY <1>1, <1>5 DEF IInv, Typed
<1>11. \A l \in 1 .. n' - 1 : Stored(l)'
  BY <1>5, StoredKept DEF IInv
<1> QED
  BY <1>1, <1>9, <1>10, <1>11 DEF IInv

\* sha_ctx starts empty; its block keeps what is in it.
LEMMA ContextStep == ASSUME IInv, calculate_sha256 PROVE IInv'
<1>1. /\ chunks \in Seq(Seq(Byte)) /\ n \in 1 .. Len(chunks) /\ pc = "compress" /\ pc' = "update"
      /\ Spells(output, n, i)
  BY DEF IInv, Typed, calculate_sha256
<1>2. ~ R!More /\ UNCHANGED <<chunks, n, sha256_output, forms, i, output>>
  BY DEF calculate_sha256, done
<1>3. read' = 0 /\ datalen' = 0 /\ bitlen' = 0 /\ state' = << >> /\ data' \in {data, S!Garbage}
  BY DEF calculate_sha256, S!sha256_init
<1>4. IsForm(output) /\ Message(output) \in Seq(Letter) /\ Len(Message(output)) \in Nat /\ Len(output) \in Nat
  BY <1>1, MessageIs, RunsAre DEF Spells
<1>5. Whole(output, n, i)
  <2>1. i \in 0 .. Len(chunks[n]) /\ Len(chunks[n]) \in Nat
    BY <1>1 DEF Spells
  <2> QED
    BY <1>2, <1>4, <2>1, DigestAssumption DEF R!More, R!out_index, R!Full, Whole
<1>6. Whole(output, n, i)' /\ Spells(output, n, i)'
  BY <1>1, <1>2, <1>5 DEF Whole, Spells, R!Full, R!Expand
<1>7. ShaInv'
  <2>1. BlockSize \in Nat \ {0}
    BY Sizes
  <2>2. Blocks(<< >>, Message(output))
    <3>1. << >> \in Seq(Seq(Cell)) /\ Len(<< >>) = 0 /\ BlockSize * 0 = 0
      BY <2>1
    <3>2. << >> \in Uniform(Cell, BlockSize)
      BY <3>1 DEF Uniform
    <3> QED
      BY <1>4, <3>1, <3>2 DEF Blocks
  <2>3. Message(output)' = Message(output)
    BY <1>2 DEF Message
  <2>4. Blocks(state, Message(output))'
    BY <1>3, <2>2, <2>3
  <2>5. BlockSize * Len(state') = 0
    BY <1>3, <2>1
  <2> QED
    BY <1>3, <1>4, <2>1, <2>3, <2>4, <2>5 DEF ShaInv
<1>8. Typed'
  <2>1. data' \in [1 .. BlockSize -> Cell]
    BY <1>3 DEF IInv, Typed, S!Garbage, Cell
  <2> QED
    BY <1>1, <1>2, <2>1 DEF IInv, Typed
<1>9. \A l \in 1 .. n' - 1 : Stored(l)'
  BY <1>2, StoredKept DEF IInv
<1> QED
  BY <1>1, <1>6, <1>7, <1>8, <1>9 DEF IInv

\* A block is folded in when it is full, and is then the next bytes of the message.
LEMMA FoldedIn ==
  ASSUME NEW m \in Seq(Letter), NEW st, Blocks(st, m), NEW x \in [1 .. BlockSize -> Cell],
         BlockSize * Len(st) + BlockSize <= Len(m),
         \A v \in 1 .. BlockSize : x[v] = m[BlockSize * Len(st) + v]
  PROVE  Blocks(Append(st, x), m) /\ Len(Append(st, x)) = Len(st) + 1 /\ Len(st) \in Nat
<1> DEFINE z == Append(st, x)
           f == FlattenSeq(z)
           b == BlockSize * Len(st)
<1>1. BlockSize \in Nat \ {0} /\ Len(m) \in Nat
  BY Sizes
<1>2. st \in Uniform(Cell, BlockSize) /\ \A u \in 1 .. b : FlattenSeq(st)[u] = m[u]
  BY DEF Blocks
<1>3. /\ z \in Uniform(Cell, BlockSize) /\ Len(z) = Len(st) + 1 /\ Len(st) \in Nat
      /\ \A u \in 1 .. b : f[u] = m[u]
      /\ \A v \in 1 .. BlockSize : f[b + v] = x[v]
  BY <1>2, BlockAppended
<1>4. BlockSize * Len(z) = b + BlockSize /\ b \in Nat /\ b + BlockSize <= Len(m)
  BY <1>1, <1>3
<1>5. \A v \in 1 .. BlockSize : x[v] = m[b + v]
  OBVIOUS
<1> HIDE DEF f, b
<1>6. ASSUME NEW u \in 1 .. b + BlockSize PROVE f[u] = m[u]
  <2>1. CASE u <= b
    <3>1. u \in 1 .. b
      BY <1>1, <1>4, <2>1
    <3> QED
      BY <1>3, <3>1
  <2>2. CASE u > b
    <3> DEFINE v == u - b
    <3>1. v \in 1 .. BlockSize /\ u = b + v
      BY <1>1, <1>4, <2>2
    <3> HIDE DEF v
    <3> QED
      BY <1>3, <1>5, <3>1
  <2> QED
    BY <1>1, <1>4, <2>1, <2>2
<1>7. Blocks(z, m)
  <2> HIDE DEF z
  <2> QED
    BY <1>3, <1>4, <1>6 DEF Blocks, f
<1> QED
  BY <1>3, <1>7

\* A byte is read into the block, which is folded in when it is full.
LEMMA UpdateStep == ASSUME IInv, sha256_update PROVE IInv'
<1> DEFINE m == Message(output)
           b == BlockSize * Len(state)
           x == S!Filled
<1>1. /\ pc = "update" /\ pc' = "update" /\ n \in 1 .. Len(chunks)
      /\ Spells(output, n, i) /\ Whole(output, n, i) /\ ShaInv
      /\ data \in [1 .. BlockSize -> Cell]
  BY DEF IInv, Typed, sha256_update
<1>2. UNCHANGED <<chunks, n, sha256_output, forms, i, output>>
  BY DEF sha256_update, done
<1>3. m \in Seq(Letter) /\ Len(m) \in Nat
  BY <1>1, MessageIs DEF Spells
<1>4. BlockSize \in Nat \ {0}
  BY Sizes
<1>5. /\ datalen \in 0 .. BlockSize - 1 /\ read = b + datalen /\ read <= Len(m)
      /\ bitlen = 8 * b /\ Blocks(state, m)
      /\ \A u \in 1 .. datalen : data[u] = m[b + u]
  BY <1>1 DEF ShaInv
<1>6. Len(state) \in Nat /\ b \in Nat
  <2>1. Len(state) \in Nat
    BY <1>5 DEF Blocks, Uniform
  <2> QED
    BY <1>4, <2>1
<1>7. /\ read < Len(m) /\ read' = read + 1 /\ data' = x
      /\ x = [data EXCEPT ![datalen + 1] = m[read + 1]]
  BY DEF sha256_update, S!Update, S!Filled, Message
<1>8. /\ datalen + 1 = BlockSize => /\ state' = Append(state, x) /\ datalen' = 0
                                    /\ bitlen' = bitlen + 8 * BlockSize
      /\ datalen + 1 # BlockSize => /\ state' = state /\ datalen' = datalen + 1
                                    /\ bitlen' = bitlen
  BY DEF sha256_update, S!Update, S!BlockFull, S!Folded
<1>9. m' = m
  BY <1>2 DEF Message
<1> HIDE DEF m, x
<1>10. /\ x \in [1 .. BlockSize -> Cell]
       /\ \A u \in 1 .. datalen + 1 : x[u] = m[b + u]
  <2>1. read + 1 \in 1 .. Len(m) /\ read + 1 = b + (datalen + 1)
    <3> HIDE DEF b
    <3> QED
      BY <1>3, <1>5, <1>6, <1>7
  <2>2. m[read + 1] \in Cell
    BY <1>3, <2>1 DEF Cell
  <2>3. datalen + 1 \in 1 .. BlockSize
    BY <1>4, <1>5
  <2> HIDE DEF b
  <2>4. x \in [1 .. BlockSize -> Cell]
    BY <1>1, <1>7, <2>2
  <2>5. ASSUME NEW u \in 1 .. datalen + 1 PROVE x[u] = m[b + u]
    <3>0. u \in 1 .. BlockSize
      BY <1>4, <1>5
    <3>1. CASE u = datalen + 1
      BY <1>1, <1>7, <2>1, <2>3, <3>1
    <3>2. CASE u # datalen + 1
      <4>1. u \in 1 .. datalen
        BY <1>5, <3>2
      <4>2. x[u] = data[u]
        BY <1>1, <1>7, <3>0, <3>2
      <4> QED
        BY <1>5, <4>1, <4>2
    <3> QED
      BY <3>1, <3>2
  <2> QED
    BY <2>4, <2>5
<1>11. ShaInv'
  <2>1. CASE datalen + 1 = BlockSize
    <3>1. b + BlockSize <= Len(m) /\ b + BlockSize = read + 1
      <4> HIDE DEF b
      <4> QED
        BY <1>3, <1>4, <1>5, <1>6, <1>7, <2>1
    <3>2. \A v \in 1 .. BlockSize : x[v] = m[b + v]
      BY <1>10, <2>1
    <3>3. Blocks(Append(state, x), m) /\ Len(Append(state, x)) = Len(state) + 1
      BY <1>3, <1>5, <1>10, <3>1, <3>2, FoldedIn
    <3>4. BlockSize * Len(state') = b + BlockSize
      BY <1>4, <1>6, <1>8, <2>1, <3>3
    <3>5. Blocks(state', m') /\ datalen' = 0
      BY <1>8, <1>9, <2>1, <3>3
    <3> HIDE DEF b
    <3>6. bitlen' = 8 * (b + BlockSize)
      BY <1>4, <1>5, <1>6, <1>8, <2>1
    <3>7. read' = b + BlockSize /\ b + BlockSize + 0 = b + BlockSize
      BY <1>4, <1>6, <1>7, <3>1
    <3> QED
      BY <1>4, <1>9, <3>1, <3>4, <3>5, <3>6, <3>7 DEF ShaInv, m
  <2>2. CASE datalen + 1 # BlockSize
    <3>1. datalen + 1 \in 0 .. BlockSize - 1
      BY <1>4, <1>5, <2>2
    <3>2. state' = state /\ datalen' = datalen + 1 /\ bitlen' = bitlen
      BY <1>8, <2>2
    <3>3. read' = b + (datalen + 1) /\ read' <= Len(m)
      <4> HIDE DEF b
      <4> QED
        BY <1>3, <1>5, <1>6, <1>7
    <3>4. BlockSize * Len(state') = b
      BY <3>2
    <3> HIDE DEF b
    <3>5. \A u \in 1 .. datalen' : data'[u] = m'[b + u]
      BY <1>7, <1>9, <1>10, <3>2
    <3>6. Blocks(state', m')
      BY <1>5, <1>9, <3>2
    <3> QED
      BY <1>5, <1>9, <3>1, <3>2, <3>3, <3>4, <3>5, <3>6 DEF ShaInv, m
  <2> QED
    BY <2>1, <2>2
<1>12. Whole(output, n, i)' /\ Spells(output, n, i)'
  BY <1>1, <1>2 DEF Whole, Spells, R!Full, R!Expand
<1>13. Typed'
  BY <1>1, <1>2, <1>7, <1>10 DEF IInv, Typed
<1>14. \A l \in 1 .. n' - 1 : Stored(l)'
  BY <1>2, StoredKept DEF IInv
<1> QED
  BY <1>1, <1>11, <1>12, <1>13, <1>14 DEF IInv

\* The powers, and where the length is, are those of ShaPadding.
LEMMA SameSizes == S!Power(Radix) = Power(Radix) /\ S!LengthAt = At
BY DEF S!Power, Power, S!LengthAt, At

\* A marked block ends in the message, when the block holds the rest of it.
LEMMA MarkedEnds ==
  ASSUME NEW m \in Seq(Letter), NEW upto \in 1 .. BlockSize, NEW b, b = BlockSize * Len(state),
         b \in Nat, datalen \in 0 .. upto - 1, Len(m) = b + datalen,
         data \in [1 .. BlockSize -> Cell],
         \A u \in 1 .. datalen : data[u] = m[b + u]
  PROVE  /\ S!Marked(upto) \in [1 .. BlockSize -> Cell]
         /\ EndsIn(S!Marked(upto), m, state, upto)
<1> DEFINE x == S!Marked(upto)
<1>1. BlockSize \in Nat \ {0} /\ upto \in Nat /\ upto <= BlockSize /\ datalen \in Nat
  BY Sizes
<1>2. Mark \in Cell /\ 0 \in Cell
  BY Written DEF Cell, Letter
<1>3. x = [u \in 1 .. BlockSize |-> CASE u = datalen + 1              -> Mark
                                      [] u > datalen + 1 /\ u <= upto -> 0
                                      [] OTHER                        -> data[u]]
  BY DEF S!Marked, Mark
<1> HIDE DEF x
<1>4. ASSUME NEW u \in 1 .. BlockSize
      PROVE  /\ x[u] \in Cell
             /\ u <= datalen => x[u] = data[u]
             /\ u = datalen + 1 => x[u] = Mark
             /\ u > datalen + 1 /\ u <= upto => x[u] = 0
  <2>1. x[u] = CASE u = datalen + 1              -> Mark
                 [] u > datalen + 1 /\ u <= upto -> 0
                 [] OTHER                        -> data[u]
    BY <1>3
  <2>2. data[u] \in Cell
    OBVIOUS
  <2>3. CASE u = datalen + 1
    BY <1>1, <1>2, <2>1, <2>3
  <2>4. CASE u > datalen + 1 /\ u <= upto
    <3>1. x[u] = 0
      BY <1>1, <2>1, <2>4
    <3> QED
      BY <1>1, <1>2, <2>4, <3>1
  <2>5. CASE ~ (u = datalen + 1) /\ ~ (u > datalen + 1 /\ u <= upto)
    <3>1. x[u] = data[u]
      BY <1>1, <2>1, <2>5
    <3> QED
      BY <1>1, <2>2, <2>5, <3>1
  <2> QED
    BY <2>3, <2>4, <2>5
<1>5. x \in [1 .. BlockSize -> Cell]
  <2>1. \A u \in 1 .. BlockSize : x[u] \in Cell
    BY <1>4
  <2> QED
    BY <1>3, <2>1
<1>6. ASSUME NEW v \in 1 .. upto
      PROVE  x[v] = IF b + v <= Len(m) THEN m[b + v] ELSE IF b + v = Len(m) + 1 THEN Mark ELSE 0
  <2>1. v \in 1 .. BlockSize
    BY <1>1
  <2>2. CASE v <= datalen
    <3>1. v \in 1 .. datalen /\ b + v <= Len(m)
      BY <1>1, <2>2
    <3>2. x[v] = data[v]
      BY <1>4, <2>1, <2>2
    <3> QED
      BY <3>1, <3>2
  <2>3. CASE v = datalen + 1
    <3>1. ~ (b + v <= Len(m)) /\ b + v = Len(m) + 1
      BY <1>1, <2>3
    <3> QED
      BY <1>4, <2>1, <2>3, <3>1
  <2>4. CASE v > datalen + 1
    <3>1. ~ (b + v <= Len(m)) /\ b + v # Len(m) + 1 /\ v <= upto
      BY <1>1, <2>4
    <3>2. x[v] = 0
      BY <1>4, <2>1, <2>4, <3>1
    <3> QED
      BY <3>1, <3>2
  <2> QED
    BY <1>1, <2>2, <2>3, <2>4
<1>7. EndsIn(x, m, state, upto)
  BY <1>6 DEF EndsIn
<1> QED
  BY <1>5, <1>7 DEF x

\* The length in a block.
LEMMA LengthEnds ==
  ASSUME NEW x \in [1 .. BlockSize -> Cell], NEW l \in Nat
  PROVE  /\ S!WithLength(x, 8 * l) \in [1 .. BlockSize -> Cell]
         /\ EndsInLength(S!WithLength(x, 8 * l), l)
         /\ \A v \in 1 .. At : S!WithLength(x, 8 * l)[v] = x[v]
<1> DEFINE y == S!WithLength(x, 8 * l)
<1>1. BlockSize \in Nat \ {0} /\ At \in Nat /\ At < BlockSize
  BY Sizes
<1>2. y = [u \in 1 .. BlockSize |-> IF u <= At THEN x[u] ELSE Digit(l, BlockSize - u)]
  BY SameSizes DEF S!WithLength, Digit
<1> HIDE DEF y
<1>3. ASSUME NEW u \in 1 .. BlockSize
      PROVE  y[u] \in Cell /\ y[u] = IF u <= At THEN x[u] ELSE Digit(l, BlockSize - u)
  <2>1. Digit(l, BlockSize - u) \in Cell
    <3>1. BlockSize - u \in Nat
      BY <1>1
    <3> QED
      BY <3>1, Written DEF Cell, Letter
  <2>2. x[u] \in Cell
    OBVIOUS
  <2>3. y[u] = IF u <= At THEN x[u] ELSE Digit(l, BlockSize - u)
    BY <1>2
  <2> QED
    BY <2>1, <2>2, <2>3
<1>4. y \in [1 .. BlockSize -> Cell]
  <2>1. \A u \in 1 .. BlockSize : y[u] \in Cell
    BY <1>3
  <2> QED
    BY <1>2, <2>1
<1>5. \A v \in At + 1 .. BlockSize : y[v] = Digit(l, BlockSize - v)
  <2> SUFFICES ASSUME NEW v \in At + 1 .. BlockSize PROVE y[v] = Digit(l, BlockSize - v)
    OBVIOUS
  <2>1. v \in 1 .. BlockSize /\ ~ (v <= At)
    BY <1>1
  <2> QED
    BY <1>3, <2>1
<1>6. \A v \in 1 .. At : y[v] = x[v]
  <2> SUFFICES ASSUME NEW v \in 1 .. At PROVE y[v] = x[v]
    OBVIOUS
  <2>1. v \in 1 .. BlockSize /\ v <= At
    BY <1>1
  <2> QED
    BY <1>3, <2>1
<1> QED
  BY <1>4, <1>5, <1>6 DEF EndsInLength, y

\* The last one or two blocks make the padded message.
LEMMA FinalStep == ASSUME IInv, sha256_final PROVE IInv'
<1> DEFINE m == Message(output)
           b == BlockSize * Len(state)
           l == Len(m)
<1>1. /\ pc = "update" /\ pc' = "final" /\ n \in 1 .. Len(chunks)
      /\ Spells(output, n, i) /\ Whole(output, n, i) /\ ShaInv
      /\ data \in [1 .. BlockSize -> Cell]
  BY DEF IInv, Typed, sha256_final
<1>2. UNCHANGED <<chunks, n, sha256_output, forms, i, output>>
  BY DEF sha256_final, done
<1>3. m \in Seq(Letter) /\ l \in Nat
  BY <1>1, MessageIs DEF Spells
<1>4. /\ BlockSize \in Nat \ {0} /\ At \in Nat \ {0} /\ At < BlockSize
  BY Sizes
<1>5. /\ datalen \in 0 .. BlockSize - 1 /\ read = b + datalen
      /\ bitlen = 8 * b /\ Blocks(state, m)
      /\ \A u \in 1 .. datalen : data[u] = m[b + u]
  BY <1>1 DEF ShaInv
<1>6. state \in Uniform(Cell, BlockSize) /\ state \in Seq(Seq(Cell)) /\ Len(state) \in Nat /\ b \in Nat
  <2>1. state \in Uniform(Cell, BlockSize) /\ state \in Seq(Seq(Cell)) /\ Len(state) \in Nat
    BY <1>5 DEF Blocks, Uniform
  <2> QED
    BY <1>4, <2>1
<1>7. /\ read = l
      /\ bitlen' = bitlen + 8 * datalen
      /\ datalen < At => /\ data' = S!WithLength(S!Marked(At), bitlen')
                         /\ state' = Append(state, data')
      /\ ~ (datalen < At) =>
           /\ data' = S!WithLength(S!Cleared(S!Marked(BlockSize)), bitlen')
           /\ state' = state \o <<S!Marked(BlockSize), data'>>
  BY SameSizes DEF sha256_final, S!sha256_final, Message
<1>8. l = b + datalen /\ bitlen' = 8 * l
  <2> HIDE DEF b, l
  <2> QED
    BY <1>3, <1>5, <1>6, <1>7
<1>9. m' = m
  BY <1>2 DEF Message
<1>10. data' \in [1 .. BlockSize -> Cell] /\ Digested(state, output)'
  <2>1. CASE datalen < At
    <3> DEFINE x == S!Marked(At)
    <3>1. At \in 1 .. BlockSize /\ datalen \in 0 .. At - 1
      BY <1>4, <1>5, <2>1
    <3>2. x \in [1 .. BlockSize -> Cell] /\ EndsIn(x, m, state, At)
      <4> HIDE DEF m, x
      <4>1. Len(m) = b + datalen
        BY <1>8
      <4> QED
        BY <1>1, <1>3, <1>5, <1>6, <3>1, <4>1, MarkedEnds DEF x
    <3> HIDE DEF x
    <3>3. data' = S!WithLength(x, 8 * l) /\ state' = Append(state, data')
      BY <1>7, <1>8, <2>1 DEF x
    <3>4. /\ data' \in [1 .. BlockSize -> Cell] /\ EndsInLength(data', l)
          /\ \A v \in 1 .. At : data'[v] = x[v]
      BY <1>3, <3>2, <3>3, LengthEnds
    <3>5. EndsIn(data', m, state, At)
      BY <3>2, <3>4 DEF EndsIn
    <3>6. FlattenSeq(state') = PaddedOf(m)
      <4> HIDE DEF m
      <4>1. Len(m) = BlockSize * Len(state) + datalen /\ EndsInLength(data', Len(m))
        BY <1>8, <3>4
      <4>2. FlattenSeq(Append(state, data')) = PaddedOf(m)
        BY <1>3, <1>5, <3>1, <3>4, <3>5, <4>1, FinalOne
      <4> QED
        BY <3>3, <4>2
    <3>7. state' \in Uniform(Cell, BlockSize)
      BY <1>6, <3>3, <3>4, BlockAppended
    <3> QED
      BY <1>9, <3>4, <3>6, <3>7 DEF Digested
  <2>2. CASE ~ (datalen < At)
    <3> DEFINE x == S!Marked(BlockSize)
               c == S!Cleared(x)
    <3>1. BlockSize \in 1 .. BlockSize /\ datalen \in At .. BlockSize - 1
      BY <1>4, <1>5, <2>2
    <3>2. x \in [1 .. BlockSize -> Cell] /\ EndsIn(x, m, state, BlockSize)
      <4> HIDE DEF m, x
      <4>1. Len(m) = b + datalen
        BY <1>8
      <4> QED
        BY <1>1, <1>3, <1>5, <1>6, <3>1, <4>1, MarkedEnds DEF x
    <3> HIDE DEF x
    <3>3. c \in [1 .. BlockSize -> Cell] /\ \A v \in 1 .. At : c[v] = 0
      <4>1. c = [u \in 1 .. BlockSize |-> IF u <= At THEN 0 ELSE x[u]]
        BY SameSizes DEF S!Cleared
      <4>2. 0 \in Cell /\ \A u \in 1 .. BlockSize : x[u] \in Cell
        BY <3>2 DEF Cell, Letter
      <4>3. \A v \in 1 .. At : v \in 1 .. BlockSize /\ v <= At
        BY <1>4
      <4> QED
        BY <4>1, <4>2, <4>3
    <3>4. data' = S!WithLength(c, 8 * l) /\ state' = state \o <<x, data'>>
      BY <1>7, <1>8, <2>2 DEF x
    <3> HIDE DEF c
    <3>5. /\ data' \in [1 .. BlockSize -> Cell] /\ EndsInLength(data', l)
          /\ \A v \in 1 .. At : data'[v] = 0
      <4>1. /\ data' \in [1 .. BlockSize -> Cell] /\ EndsInLength(data', l)
            /\ \A v \in 1 .. At : data'[v] = c[v]
        BY <1>3, <3>3, <3>4, LengthEnds
      <4> QED
        BY <3>3, <4>1
    <3>6. state' = Append(Append(state, x), data')
      <4>1. x \in Seq(Cell) /\ data' \in Seq(Cell)
        BY <1>4, <3>2, <3>5
      <4> QED
        BY <1>6, <3>4, <4>1
    <3>7. FlattenSeq(state') = PaddedOf(m)
      <4> HIDE DEF m
      <4>1. Len(m) = BlockSize * Len(state) + datalen /\ EndsInLength(data', Len(m))
        BY <1>8, <3>5
      <4>2. FlattenSeq(Append(Append(state, x), data')) = PaddedOf(m)
        BY <1>3, <1>5, <3>1, <3>2, <3>5, <4>1, FinalTwo
      <4> QED
        BY <3>6, <4>2
    <3>8. state' \in Uniform(Cell, BlockSize)
      <4> DEFINE z == Append(state, x)
      <4>1. z \in Uniform(Cell, BlockSize)
        BY <1>6, <3>2, BlockAppended
      <4> HIDE DEF z
      <4>2. Append(z, data') \in Uniform(Cell, BlockSize)
        BY <3>5, <4>1, BlockAppended
      <4> QED
        BY <3>6, <4>2 DEF z
    <3> QED
      BY <1>9, <3>5, <3>7, <3>8 DEF Digested
  <2> QED
    BY <2>1, <2>2
<1>11. Whole(output, n, i)' /\ Spells(output, n, i)'
  BY <1>1, <1>2 DEF Whole, Spells, R!Full, R!Expand
<1>12. Typed'
  BY <1>1, <1>2, <1>10 DEF IInv, Typed
<1>13. \A u \in 1 .. n' - 1 : Stored(u)'
  BY <1>2, StoredKept DEF IInv
<1> QED
  BY <1>1, <1>10, <1>11, <1>12, <1>13 DEF IInv

\* The digest and the form are stored, and the next chunk starts with an empty form.
LEMMA StoreStep == ASSUME IInv, Store PROVE IInv'
<1>1. /\ chunks \in Seq(Seq(Byte)) /\ n \in 1 .. Len(chunks) /\ pc = "final"
      /\ Spells(output, n, i) /\ Whole(output, n, i) /\ Digested(state, output)
      /\ sha256_output \in Seq(Seq(Seq(Cell))) /\ Len(sha256_output) = n - 1
      /\ forms \in Seq(Seq(Seq(Letter))) /\ Len(forms) = n - 1
      /\ data \in [1 .. BlockSize -> Cell]
      /\ \A l \in 1 .. n - 1 : Stored(l)
  BY DEF IInv, Typed, Store
<1>2. /\ sha256_output' = Append(sha256_output, state) /\ forms' = Append(forms, output)
      /\ n' = n + 1 /\ i' = 0 /\ output' = << >> /\ chunks' = chunks /\ data' = data
      /\ pc' = IF n = Len(chunks) THEN "end" ELSE "compress"
  BY DEF Store, ctx
<1>3. n \in Nat /\ Len(chunks) \in Nat /\ n' - 1 = n /\ n >= 1
  BY <1>1, <1>2
<1>4. state \in Seq(Seq(Cell)) /\ output \in Seq(Seq(Letter))
  BY <1>1 DEF Digested, Spells, IsForm, Uniform
<1>5. /\ sha256_output' \in Seq(Seq(Seq(Cell))) /\ Len(sha256_output') = n
      /\ sha256_output'[n] = state
      /\ \A l \in 1 .. n - 1 : sha256_output'[l] = sha256_output[l]
  BY <1>1, <1>2, <1>3, <1>4
<1>6. /\ forms' \in Seq(Seq(Seq(Letter))) /\ Len(forms') = n
      /\ forms'[n] = output
      /\ \A l \in 1 .. n - 1 : forms'[l] = forms[l]
  BY <1>1, <1>2, <1>3, <1>4
<1>7. Typed'
  <2>1. n' \in 1 .. Len(chunks) + 1 /\ (pc' # "end" => n' <= Len(chunks))
        /\ pc' \in {"compress", "end"}
    BY <1>1, <1>2, <1>3
  <2> QED
    BY <1>1, <1>2, <1>3, <1>5, <1>6, <2>1 DEF Typed
<1>8. ASSUME pc' # "end" PROVE Spells(output, n, i)'
  <2>1. n' \in 1 .. Len(chunks)
    BY <1>1, <1>2, <1>3, <1>8
  <2> DEFINE c == chunks[n']
  <2>2. c \in Seq(Byte)
    BY <1>1, <2>1
  <2>3. chunks'[n'] = c
    BY <1>2
  <2> HIDE DEF c
  <2>4. i' \in 0 .. Len(c) /\ SubSeq(c, 1, i') = << >>
    BY <1>2, <2>2
  <2>5. 2 * Len(output') < output_len
    BY <1>2, DigestAssumption
  <2>6. IsForm(output') /\ R!Expand(output') = << >>
    BY <1>2, FormEmpty
  <2>7. R!Expand(output)' = R!Expand(output')
    BY DEF R!Expand
  <2> QED
    BY <1>2, <2>3, <2>4, <2>5, <2>6, <2>7, TraceEmpty DEF Spells
<1>9. ASSUME NEW l \in 1 .. n' - 1 PROVE Stored(l)'
  <2>1. R!Expand(forms[l])' = R!Expand(forms'[l])
    BY DEF R!Expand
  <2>2. R!Full(forms[l])' <=> R!Full(forms'[l])
    BY DEF R!Full
  <2>3. CASE l = n
    <3>1. forms'[l] = output /\ sha256_output'[l] = state /\ chunks'[l] = chunks[l]
      BY <1>2, <1>5, <1>6, <2>3
    <3>2. PICK k \in Nat : k = i
      BY <1>1 DEF Spells
    <3>3. Spells(forms[l], l, k)'
      BY <1>1, <2>1, <2>3, <3>1, <3>2 DEF Spells
    <3>4. Whole(forms[l], l, k)'
      BY <1>1, <2>2, <2>3, <3>1, <3>2 DEF Whole
    <3>5. Digested(sha256_output[l], forms[l])'
      BY <1>1, <3>1 DEF Digested
    <3> QED
      BY <3>2, <3>3, <3>4, <3>5 DEF Stored
  <2>4. CASE l # n
    <3>1. l \in 1 .. n - 1
      BY <1>3, <2>4
    <3>2. forms'[l] = forms[l] /\ sha256_output'[l] = sha256_output[l] /\ chunks'[l] = chunks[l]
      BY <1>2, <1>5, <1>6, <3>1
    <3>3. Stored(l)
      BY <1>1, <3>1
    <3> QED
      BY <2>1, <2>2, <3>2, <3>3 DEF Stored, Digested, Spells, Whole
  <2> QED
    BY <2>3, <2>4
<1> QED
  BY <1>2, <1>7, <1>8, <1>9 DEF IInv

\* Every step keeps the invariant.
LEMMA StepIInv == IInv /\ [Next]_vars => IInv'
<1> SUFFICES ASSUME IInv, [Next]_vars PROVE IInv'
  OBVIOUS
<1>1. CASE UNCHANGED vars
  <2>1. UNCHANGED <<chunks, n, sha256_output, forms, i, output, read, data, datalen, bitlen,
                    state, pc>>
    BY <1>1 DEF vars, done, ctx
  <2>2. \A l : Stored(l)' <=> Stored(l)
    BY <2>1, StoredKept
  <2>3. Typed'
    BY <2>1 DEF IInv, Typed
  <2>4. /\ Spells(output, n, i)' <=> Spells(output, n, i)
        /\ Whole(output, n, i)' <=> Whole(output, n, i)
    BY <2>1 DEF Spells, Whole, R!Expand, R!Full
  <2>5. ShaInv' <=> ShaInv
    BY <2>1 DEF ShaInv, Message
  <2>6. Digested(state, output)' <=> Digested(state, output)
    BY <2>1 DEF Digested
  <2> QED
    BY <2>1, <2>2, <2>3, <2>4, <2>5, <2>6 DEF IInv
<1> QED
  BY <1>1, CompressStep, ContextStep, UpdateStep, FinalStep, StoreStep DEF Next

\* The invariant, for any chunks and sizes.
THEOREM IInvHolds == Spec => []IInv
BY InitIInv, StepIInv, PTL DEF Spec

-----------------------------------------------------------------------------
(* What the stage promises.                                                *)

\* At every step the form fits and spells what has been read of the chunk.
THEOREM FormsSpell == Spec => []FormSpellsPrefix
<1>1. IInv => FormSpellsPrefix
  BY DEF IInv, Spells, FormSpellsPrefix, R!FormSpellsPrefix, R!out_index
<1> QED
  BY <1>1, IInvHolds, PTL

\* What is digested is the form, padded as SHA-256 defines it.
THEOREM DigestsPadded == Spec => []DigestsPaddedMessage
<1>1. IInv => DigestsPaddedMessage
  <2> SUFFICES ASSUME Digested(state, output) PROVE FlattenSeq(state) = S!Padded
    BY DEF IInv, DigestsPaddedMessage
  <2>1. S!Padded = PaddedOf(FlattenSeq(output))
    BY SameSizes DEF S!Padded, PaddedOf, Zeros, Digit, Mark
  <2> QED
    BY <2>1 DEF Digested, Message
<1> QED
  BY <1>1, IInvHolds, PTL

\* Digests of forms that fit are equal exactly when the forms are.
LEMMA DigestedTells ==
  ASSUME NEW f, NEW g, IsForm(f), IsForm(g), 2 * Len(f) < output_len, 2 * Len(g) < output_len,
         NEW s, NEW t, Digested(s, f), Digested(t, g)
  PROVE  s = t <=> f = g
<1>1. /\ s \in Uniform(Cell, BlockSize) /\ t \in Uniform(Cell, BlockSize)
      /\ FlattenSeq(s) = PaddedOf(Message(f)) /\ FlattenSeq(t) = PaddedOf(Message(g))
      /\ BlockSize \in Nat \ {0}
  BY Sizes DEF Digested
<1>2. ASSUME f = g PROVE s = t
  <2>1. FlattenSeq(s) = FlattenSeq(t)
    BY <1>1, <1>2
  <2> QED
    BY <1>1, <2>1, UniformTold
<1>3. ASSUME s = t PROVE f = g
  <2>1. PaddedOf(Message(f)) = PaddedOf(Message(g))
    BY <1>1, <1>3
  <2>2. Message(f) = Message(g)
    BY <2>1, MessageIs, PaddedTells
  <2>3. f \in Uniform(Letter, 2) /\ g \in Uniform(Letter, 2) /\ FlattenSeq(f) = FlattenSeq(g)
    BY <2>2 DEF IsForm, Message
  <2> QED
    BY <2>3, UniformTold
<1> QED
  BY <1>2, <1>3

\* What the invariant says of what is stored.
LEMMA StoredIs ==
  ASSUME IInv
  PROVE  /\ DOMAIN forms = 1 .. n - 1 /\ n - 1 <= Len(chunks) /\ n \in Nat /\ Len(chunks) \in Nat
         /\ chunks \in Seq(Seq(Byte))
         /\ \A l \in 1 .. n - 1 : Stored(l)
BY DEF IInv, Typed

\* Equal digests, equal forms, and the other way around; equal chunks, equal forms.
THEOREM DigestsTell == Spec => []DigestTellsForms
<1>1. IInv => DigestTellsForms
  <2> SUFFICES ASSUME IInv, NEW l \in DOMAIN forms, NEW m \in DOMAIN forms
               PROVE  /\ sha256_output[l] = sha256_output[m] <=> forms[l] = forms[m]
                      /\ chunks[l] = chunks[m] => forms[l] = forms[m]
    BY DEF DigestTellsForms
  <2>1. Stored(l) /\ Stored(m)
    BY StoredIs
  <2>2. /\ Digested(sha256_output[l], forms[l]) /\ Digested(sha256_output[m], forms[m])
        /\ IsForm(forms[l]) /\ IsForm(forms[m])
        /\ 2 * Len(forms[l]) < output_len /\ 2 * Len(forms[m]) < output_len
    BY <2>1 DEF Stored, Spells
  <2>3. ASSUME chunks[l] = chunks[m] PROVE forms[l] = forms[m]
    <3> DEFINE f == forms[l]
               g == forms[m]
               c == chunks[l]
    <3>1. f \in Seq(Seq(Letter)) /\ g \in Seq(Seq(Letter))
      BY <2>2 DEF IsForm, Uniform
    <3>2. PICK k \in Nat : IsTraced(f, c, k) /\ (k = Len(c) \/ R!Full(f))
      BY <2>1 DEF Stored, Spells, Whole
    <3>3. PICK o \in Nat : IsTraced(g, c, o) /\ (o = Len(c) \/ R!Full(g))
      BY <2>1, <2>3 DEF Stored, Spells, Whole
    <3> HIDE DEF f, g, c
    <3>4. f = g
      BY <3>1, <3>2, <3>3, TracesTell
    <3> QED
      BY <3>4 DEF f, g
  <2>4. sha256_output[l] = sha256_output[m] <=> forms[l] = forms[m]
    BY <2>2, DigestedTells
  <2> QED
    BY <2>3, <2>4
<1> QED
  BY <1>1, IInvHolds, PTL

\* The beginning of a chunk that a form spells.
LEMMA BeginningIs ==
  ASSUME NEW c \in Seq(Byte), NEW k, k \in 0 .. Len(c), NEW e, e = SubSeq(c, 1, k)
  PROVE  /\ Len(e) = k /\ IsPrefix(e, c)
         /\ k = Len(c) => e = c
<1>1. Len(c) \in Nat /\ k \in Nat /\ k <= Len(c)
  OBVIOUS
<1>2. e \in Seq(Byte) /\ Len(e) = k /\ \A u \in 1 .. k : e[u] = c[u]
  BY <1>1
<1>3. k = Len(c) => e = c
  BY <1>1, <1>2
<1>4. IsPrefix(e, c)
  BY <1>1, <1>2 DEF IsPrefix
<1> QED
  BY <1>2, <1>3, <1>4

\* Chunks that deduplication takes for the same are, as far as the buffer had room.
THEOREM EqualDigests == Spec => []EqualDigestsEqualPrefixes
<1>1. IInv /\ DigestTellsForms => EqualDigestsEqualPrefixes
  <2> SUFFICES ASSUME IInv, NEW l \in DOMAIN forms, NEW m \in DOMAIN forms, forms[l] = forms[m]
               PROVE  \/ chunks[l] = chunks[m]
                      \/ /\ R!Full(forms[l])
                         /\ IsPrefix(R!Expand(forms[l]), chunks[l])
                         /\ IsPrefix(R!Expand(forms[l]), chunks[m])
    BY DEF DigestTellsForms, EqualDigestsEqualPrefixes
  <2>1. Stored(l) /\ Stored(m) /\ l \in 1 .. Len(chunks) /\ m \in 1 .. Len(chunks)
    BY StoredIs
  <2>2. chunks[l] \in Seq(Byte) /\ chunks[m] \in Seq(Byte)
    BY <2>1, StoredIs
  <2>3. PICK k \in Nat : Spells(forms[l], l, k) /\ Whole(forms[l], l, k)
    BY <2>1 DEF Stored
  <2>4. PICK o \in Nat : Spells(forms[m], m, o) /\ Whole(forms[m], m, o)
    BY <2>1 DEF Stored
  <2> DEFINE f == forms[l]
             e == R!Expand(f)
  <2>5. /\ k \in 0 .. Len(chunks[l]) /\ e = SubSeq(chunks[l], 1, k)
        /\ k = Len(chunks[l]) \/ R!Full(f)
    BY <2>3 DEF Spells, Whole
  <2>6. /\ o \in 0 .. Len(chunks[m]) /\ e = SubSeq(chunks[m], 1, o)
        /\ o = Len(chunks[m]) \/ R!Full(f)
    BY <2>4 DEF Spells, Whole
  <2> HIDE DEF e, f
  <2>7. IsPrefix(e, chunks[l]) /\ Len(e) = k /\ (k = Len(chunks[l]) => e = chunks[l])
    <3> DEFINE c == chunks[l]
    <3>1. c \in Seq(Byte) /\ k \in 0 .. Len(c) /\ e = SubSeq(c, 1, k)
      BY <2>2, <2>5
    <3> HIDE DEF c
    <3>2. IsPrefix(e, c) /\ Len(e) = k /\ (k = Len(c) => e = c)
      BY <3>1, BeginningIs
    <3> QED
      BY <3>2 DEF c
  <2>8. IsPrefix(e, chunks[m]) /\ Len(e) = o /\ (o = Len(chunks[m]) => e = chunks[m])
    <3> DEFINE c == chunks[m]
    <3>1. c \in Seq(Byte) /\ o \in 0 .. Len(c) /\ e = SubSeq(c, 1, o)
      BY <2>2, <2>6
    <3> HIDE DEF c
    <3>2. IsPrefix(e, c) /\ Len(e) = o /\ (o = Len(c) => e = c)
      BY <3>1, BeginningIs
    <3> QED
      BY <3>2 DEF c
  <2> QED
    BY <2>5, <2>6, <2>7, <2>8 DEF e, f
<1> QED
  BY <1>1, IInvHolds, DigestsTell, PTL
=============================================================================

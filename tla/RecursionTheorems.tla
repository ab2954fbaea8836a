------------------------- MODULE RecursionTheorems -------------------------
(***************************************************************************)
(* What a definition by recursion on a number computes, and the            *)
(* concatenation of a sequence of sequences, which is one; with the facts  *)
(* about division, the digits of a number, and the greatest of a set of    *)
(* numbers that they are used with. Induction is on sets of numbers: a set *)
(* that holds 0 and every successor holds all.                             *)
(***************************************************************************)
EXTENDS Powers, Integers, SequencesExt, WellFoundedInduction, TLAPS

\* The order of the numbers.
Below == {ss \in Nat \X Nat : ss[1] < ss[2]}

\* Every set of numbers has a least one.
LEMMA BelowWellFounded == IsWellFoundedOn(Below, Nat)
BY NatLessThanWellFounded DEF OpToRel, Below

\* A set of numbers with a bound has a greatest one.
LEMMA MaxIs ==
  ASSUME NEW n \in Nat, NEW S, S \subseteq 1 .. n, S # {}
  PROVE  Max(S) \in S /\ \A y \in S : Max(S) >= y
<1> DEFINE B == {k \in Nat : \A y \in S : k >= y}
<1>1. B \subseteq Nat /\ n \in B
  OBVIOUS
<1>2. PICK x \in B : \A y \in B : ~ (<<y, x>> \in Below)
  <2> HIDE DEF B
  <2> QED
    BY <1>1, BelowWellFounded, WFMin
<1>3. x \in Nat /\ \A y \in S : x >= y
  OBVIOUS
<1>4. x \in S
  <2> SUFFICES ASSUME x \notin S PROVE FALSE
    OBVIOUS
  <2>1. PICK y \in S : TRUE
    OBVIOUS
  <2>2. x # 0 /\ x - 1 \in Nat
    BY <1>3, <2>1
  <2>3. \A z \in S : x - 1 >= z
    BY <1>3, <2>2
  <2>4. x - 1 \in B
    BY <2>2, <2>3
  <2>5. <<x - 1, x>> \in Below
    BY <1>3, <2>2 DEF Below
  <2> QED
    BY <1>2, <2>4, <2>5
<1> QED
  BY <1>3, <1>4 DEF Max

\* A set that holds 0 and, with every number, the next one, holds them all.
LEMMA Induct ==
  ASSUME NEW S, 0 \in S, \A n \in Nat : n \in S => n + 1 \in S
  PROVE  Nat \subseteq S
<1> DEFINE T == Nat \ S
<1>1. SUFFICES ASSUME T # {} PROVE FALSE
  OBVIOUS
<1>2. T \subseteq Nat
  OBVIOUS
<1>3. PICK x \in T : \A y \in T : ~ (<<y, x>> \in Below)
  BY <1>1, <1>2, BelowWellFounded, WFMin
<1>4. x \in Nat /\ x # 0 /\ x - 1 \in Nat
  OBVIOUS
<1>5. x - 1 \in T
  BY <1>4
<1>6. <<x - 1, x>> \in Below
  BY <1>4 DEF Below
<1> QED
  BY <1>3, <1>5, <1>6

\* h follows the recursion from a by g on the first n numbers.
Follows(h, n, V, a, g) == /\ h \in [0 .. n -> V]
                          /\ h[0] = a
                          /\ \A m \in 1 .. n : h[m] = g[<<m, h[m - 1]>>]

\* Functions that follow the recursion agree where both are defined.
LEMMA FollowersAgree ==
  ASSUME NEW V, NEW a, NEW g, NEW n \in Nat, NEW o \in Nat, n <= o,
         NEW h, NEW e, Follows(h, n, V, a, g), Follows(e, o, V, a, g)
  PROVE  \A m \in 0 .. n : h[m] = e[m]
<1> DEFINE S == {m \in Nat : m <= n => h[m] = e[m]}
<1>1. 0 \in S
  BY DEF Follows
<1>2. ASSUME NEW m \in Nat, m \in S PROVE m + 1 \in S
  <2> SUFFICES ASSUME m + 1 <= n PROVE h[m + 1] = e[m + 1]
    OBVIOUS
  <2>1. m + 1 \in 1 .. n /\ m + 1 \in 1 .. o /\ (m + 1) - 1 = m /\ h[m] = e[m]
    BY <1>2
  <2> QED
    BY <2>1 DEF Follows
<1>3. Nat \subseteq S
  <2> HIDE DEF S
  <2> QED
    BY <1>1, <1>2, Induct
<1> QED
  BY <1>3

\* There is one for every n.
LEMMA FollowerExists ==
  ASSUME NEW V, NEW a \in V, NEW g \in [Nat \X V -> V]
  PROVE  \A n \in Nat : \E h : Follows(h, n, V, a, g)
<1> DEFINE S == {n \in Nat : \E h : Follows(h, n, V, a, g)}
<1>1. 0 \in S
  <2>1. Follows([m \in 0 .. 0 |-> a], 0, V, a, g)
    BY DEF Follows
  <2> QED
    BY <2>1
<1>2. ASSUME NEW n \in Nat, n \in S PROVE n + 1 \in S
  <2>1. PICK h : Follows(h, n, V, a, g)
    BY <1>2
  <2> DEFINE e == [m \in 0 .. n + 1 |-> IF m = n + 1 THEN g[<<n + 1, h[n]>>] ELSE h[m]]
  <2>2. g[<<n + 1, h[n]>>] \in V /\ \A m \in 0 .. n : h[m] \in V
    BY <2>1 DEF Follows
  <2>3. e \in [0 .. n + 1 -> V]
    BY <2>2
  <2>4. e[0] = a
    BY <2>1 DEF Follows
  <2>5. ASSUME NEW m \in 1 .. n + 1 PROVE e[m] = g[<<m, e[m - 1]>>]
    <3>1. CASE m = n + 1
      <4>1. m - 1 = n /\ n \in 0 .. n + 1 /\ n + 1 \in 0 .. n + 1 /\ n # n + 1
        BY <3>1
      <4> QED
        BY <3>1, <4>1
    <3>2. CASE m \in 1 .. n
      <4>1. e[m] = h[m] /\ e[m - 1] = h[m - 1]
        BY <3>2
      <4> QED
        BY <2>1, <3>2, <4>1 DEF Follows
    <3> QED
      BY <3>1, <3>2
  <2>6. Follows(e, n + 1, V, a, g)
    BY <2>3, <2>4, <2>5 DEF Follows
  <2> QED
    BY <2>6
<1>3. Nat \subseteq S
  <2> HIDE DEF S
  <2> QED
    BY <1>1, <1>2, Induct
<1> QED
  BY <1>3

\* A function that is a at 0 and that g takes from each number to the next.
Recursive(V, a, g) ==
  \E f \in [Nat -> V] : f[0] = a /\ \A n \in Nat : f[n + 1] = g[<<n + 1, f[n]>>]

\* There is one, whatever a and g are.
LEMMA Recursion ==
  ASSUME NEW V, NEW a, NEW g, a \in V, g \in [Nat \X V -> V]
  PROVE  Recursive(V, a, g)
<1> DEFINE H(n) == CHOOSE h : Follows(h, n, V, a, g)
           f == [n \in Nat |-> H(n)[n]]
<1>1. \A n \in Nat : Follows(H(n), n, V, a, g)
  BY FollowerExists
<1> HIDE DEF H
<1>2. f \in [Nat -> V]
  BY <1>1 DEF Follows
<1>3. f[0] = a
  BY <1>1 DEF Follows
<1>4. ASSUME NEW n \in Nat PROVE f[n + 1] = g[<<n + 1, f[n]>>]
  <2>1. /\ n <= n + 1 /\ n \in 0 .. n /\ n + 1 \in 1 .. n + 1 /\ n + 1 \in Nat
        /\ (n + 1) - 1 = n
    OBVIOUS
  <2>2. H(n)[n] = H(n + 1)[n]
    BY <1>1, <2>1, FollowersAgree
  <2> QED
    BY <1>1, <2>1, <2>2 DEF Follows
<1> QED
  BY <1>2, <1>3, <1>4 DEF Recursive

-----------------------------------------------------------------------------
\* Dividing and taking the remainder split a number in one way only.
LEMMA Division ==
  ASSUME NEW n \in Nat \ {0}, NEW q \in Int, NEW r \in 0 .. n - 1
  PROVE  (q * n + r) \div n = q /\ (q * n + r) % n = r
<1> DEFINE a == q * n + r
<1>1. a \in Int
  OBVIOUS
<1> HIDE DEF a
<1>2. a = n * (a \div n) + (a % n) /\ a % n \in 0 .. n - 1
  BY <1>1
<1>0. a \div n \in Int
  BY <1>1
<1>3. a = n * q + r
  BY DEF a
<1> DEFINE e == q - (a \div n)
<1>4. e \in Int /\ n * e = (a % n) - r
  <2>1. n * (q - (a \div n)) = n * q - n * (a \div n)
    BY <1>0
  <2> QED
    BY <1>0, <1>2, <1>3, <2>1
<1> HIDE DEF e
<1>5. n * e < n /\ n * e > - n
  BY <1>2, <1>4
<1>6. e = 0
  <2>1. CASE e >= 1
    <3>1. n * e >= n
      BY <1>4, <2>1
    <3> QED
      BY <1>4, <1>5, <3>1
  <2>2. CASE e <= -1
    <3>1. n * e <= - n
      BY <1>4, <2>2
    <3> QED
      BY <1>4, <1>5, <3>1
  <2> QED
    BY <1>4, <2>1, <2>2
<1>7. a \div n = q
  BY <1>0, <1>6 DEF e
<1>8. a % n = r
  <2>1. a = n * q + (a % n)
    BY <1>2, <1>7
  <2> QED
    BY <1>2, <1>3, <2>1
<1> QED
  BY <1>7, <1>8 DEF a

\* A multiple of the divisor makes no difference to a remainder.
LEMMA Congruence ==
  ASSUME NEW n \in Nat \ {0}, NEW q \in Int, NEW y \in Int
  PROVE  (q * n + y) % n = y % n
<1>1. y = n * (y \div n) + (y % n) /\ y % n \in 0 .. n - 1 /\ y \div n \in Int
  OBVIOUS
<1> DEFINE d == y \div n
           r == y % n
<1>2. d \in Int /\ r \in 0 .. n - 1 /\ y = n * d + r
  BY <1>1
<1> HIDE DEF d, r
<1>3. q * n + y = (q + d) * n + r
  BY <1>2
<1>4. ((q + d) * n + r) % n = r
  BY <1>2, Division
<1> QED
  BY <1>3, <1>4 DEF r

-----------------------------------------------------------------------------
\* What Power computes.
LEMMA PowerIs ==
  ASSUME NEW b \in Nat
  PROVE  /\ Power(b) \in [Nat -> Nat]
         /\ Power(b)[0] = 1
         /\ \A n \in Nat : Power(b)[n + 1] = b * Power(b)[n]
<1> DEFINE Pow(e) == e = [n \in Nat |-> IF n = 0 THEN 1 ELSE b * e[n - 1]]
           g == [nv \in Nat \X Nat |-> b * nv[2]]
           pow == CHOOSE e : Pow(e)
<1>1. \E f \in [Nat -> Nat] : f[0] = 1 /\ \A n \in Nat : f[n + 1] = b * f[n]
  <2>1. g \in [Nat \X Nat -> Nat] /\ \A n, v \in Nat : g[<<n, v>>] = b * v
    OBVIOUS
  <2> HIDE DEF g
  <2>2. Recursive(Nat, 1, g)
    BY <2>1, Recursion
  <2>3. PICK f \in [Nat -> Nat] : f[0] = 1 /\ \A n \in Nat : f[n + 1] = g[<<n + 1, f[n]>>]
    BY <2>2 DEF Recursive
  <2>4. ASSUME NEW n \in Nat PROVE f[n + 1] = b * f[n]
    <3>1. n + 1 \in Nat /\ f[n] \in Nat
      OBVIOUS
    <3>2. f[n + 1] = g[<<n + 1, f[n]>>]
      BY <2>3
    <3> QED
      BY <2>1, <3>1, <3>2
  <2> QED
    BY <2>3, <2>4
<1>2. PICK f \in [Nat -> Nat] : f[0] = 1 /\ \A n \in Nat : f[n + 1] = b * f[n]
  BY <1>1
<1>3. Pow(f)
  <2>1. ASSUME NEW n \in Nat PROVE f[n] = IF n = 0 THEN 1 ELSE b * f[n - 1]
    <3>1. CASE n # 0
      <4>1. n - 1 \in Nat /\ (n - 1) + 1 = n
        BY <3>1
      <4> QED
        BY <1>2, <3>1, <4>1
    <3> QED
      BY <1>2, <3>1
  <2> QED
    BY <2>1
<1>4. Pow(pow)
  <2> HIDE DEF Pow
  <2> QED
    BY <1>3
<1>5. Power(b) = pow
  BY DEF Power
<1> HIDE DEF pow
<1>6. pow[0] = 1 /\ \A n \in Nat : pow[n + 1] = b * pow[n]
  <2>1. \A n \in Nat : pow[n] = IF n = 0 THEN 1 ELSE b * pow[n - 1]
    BY <1>4
  <2>2. ASSUME NEW n \in Nat PROVE pow[n + 1] = b * pow[n]
    <3>1. n + 1 \in Nat /\ n + 1 # 0 /\ (n + 1) - 1 = n
      OBVIOUS
    <3> QED
      BY <2>1, <3>1
  <2> QED
    BY <2>1, <2>2
<1>7. DOMAIN pow = Nat /\ pow = [n \in Nat |-> pow[n]]
  BY <1>4
<1> DEFINE T == {n \in Nat : pow[n] \in Nat}
<1>8. Nat \subseteq T
  <2>1. 0 \in T /\ \A n \in Nat : n \in T => n + 1 \in T
    BY <1>6
  <2> HIDE DEF T
  <2> QED
    BY <2>1, Induct
<1> QED
  BY <1>5, <1>6, <1>7, <1>8

\* Powers of a positive number are positive.
LEMMA PowerPositive ==
  ASSUME NEW b \in Nat \ {0}
  PROVE  \A n \in Nat : Power(b)[n] \in Nat \ {0}
<1> DEFINE T == {n \in Nat : Power(b)[n] # 0}
<1>1. 0 \in T
  <2>1. Power(b)[0] = 1
    BY PowerIs
  <2> QED
    BY <2>1
<1>2. \A n \in Nat : n \in T => n + 1 \in T
  <2> SUFFICES ASSUME NEW n \in Nat, Power(b)[n] # 0 PROVE Power(b)[n + 1] # 0
    OBVIOUS
  <2>1. Power(b)[n] \in Nat /\ Power(b)[n + 1] = b * Power(b)[n]
    BY PowerIs
  <2> QED
    BY <2>1
<1>3. Nat \subseteq T
  <2> HIDE DEF T
  <2> QED
    BY <1>1, <1>2, Induct
<1> QED
  BY <1>3, PowerIs

\* A sum of exponents is a product of powers.
LEMMA PowerSum ==
  ASSUME NEW b \in Nat, NEW m \in Nat
  PROVE  \A n \in Nat : Power(b)[m + n] = Power(b)[m] * Power(b)[n]
<1> DEFINE T == {n \in Nat : Power(b)[m + n] = Power(b)[m] * Power(b)[n]}
<1>0. \A n \in Nat : Power(b)[n] \in Nat /\ Power(b)[n + 1] = b * Power(b)[n]
  BY PowerIs
<1>1. 0 \in T
  <2>1. m + 0 = m /\ Power(b)[0] = 1
    BY PowerIs
  <2> QED
    BY <1>0, <2>1
<1>2. ASSUME NEW n \in Nat, n \in T PROVE n + 1 \in T
  <2>1. m + (n + 1) = (m + n) + 1 /\ m + n \in Nat
    OBVIOUS
  <2> DEFINE x == Power(b)[m]
             y == Power(b)[n]
  <2>2. Power(b)[m + n] = x * y /\ x \in Nat /\ y \in Nat
    BY <1>0, <1>2
  <2>3. Power(b)[m + (n + 1)] = b * (x * y) /\ Power(b)[n + 1] = b * y
    BY <1>0, <2>1, <2>2
  <2> HIDE DEF x, y
  <2>4. b * (x * y) = x * (b * y)
    BY <2>2
  <2> QED
    BY <2>3, <2>4 DEF x
<1>3. Nat \subseteq T
  <2> HIDE DEF T
  <2> QED
    BY <1>1, <1>2, Induct
<1> QED
  BY <1>3

-----------------------------------------------------------------------------
\* The concatenation of the first n sequences is that of the first n - 1 and the nth.
LEMMA FlattenIs ==
  ASSUME NEW S, NEW s \in Seq(Seq(S)), NEW f \in [Nat -> Seq(S)],
         f[0] = << >>, \A n \in 1 .. Len(s) : f[n] = f[n - 1] \o s[n]
  PROVE  FlattenSeq(s) = f[Len(s)]
<1>0. Len(s) \in Nat /\ \A n \in 1 .. Len(s) : s[n] \in Seq(S)
  OBVIOUS
<1>1. CASE Len(s) = 0
  BY <1>1 DEF FlattenSeq
<1>2. CASE Len(s) # 0
  <2> DEFINE IsFlatten(e) == e = [n \in 1 .. Len(s) |-> IF n = 1 THEN s[n] ELSE e[n - 1] \o s[n]]
             flatten == CHOOSE e : IsFlatten(e)
             f0 == [n \in 1 .. Len(s) |-> f[n]]
  <2>0. Len(s) \in Nat /\ 1 \in 1 .. Len(s)
    BY <1>0, <1>2
  <2>1. FlattenSeq(s) = flatten[Len(s)]
    BY <1>2 DEF FlattenSeq
  <2>2. IsFlatten(f0)
    <3>1. ASSUME NEW n \in 1 .. Len(s)
          PROVE f[n] = IF n = 1 THEN s[n] ELSE f0[n - 1] \o s[n]
      <4>1. CASE n = 1
        <5>1. s[1] \in Seq(S)
          BY <1>0, <2>0
        <5>2. f[1] = f[1 - 1] \o s[1]
          BY <2>0, Zenon
        <5>3. << >> \o s[1] = s[1]
          BY <5>1
        <5>4. f[1 - 1] = << >>
          <6>1. 1 - 1 = 0
            OBVIOUS
          <6> QED
            BY <6>1
        <5> QED
          BY <4>1, <5>2, <5>3, <5>4, Zenon
      <4>2. CASE n # 1
        <5>1. n - 1 \in 1 .. Len(s)
          BY <2>0, <4>2
        <5> QED
          BY <4>2, <5>1
      <4> QED
        BY <4>1, <4>2
    <3> QED
      BY <3>1
  <2>3. IsFlatten(flatten)
    <3> HIDE DEF IsFlatten
    <3> QED
      BY <2>2
  <2>4. \A n \in 1 .. Len(s) : flatten[n] = IF n = 1 THEN s[n] ELSE flatten[n - 1] \o s[n]
    <3> HIDE DEF flatten
    <3> QED
      BY <2>3
  <2> HIDE DEF flatten, f0, IsFlatten
  <2> DEFINE T == {n \in Nat : n \in 1 .. Len(s) => flatten[n] = f[n]}
  <2>5. 0 \in T
    OBVIOUS
  <2>6. ASSUME NEW n \in Nat, n \in T PROVE n + 1 \in T
    <3> SUFFICES ASSUME n + 1 \in 1 .. Len(s) PROVE flatten[n + 1] = f[n + 1]
      OBVIOUS
    <3>0. (n + 1) - 1 = n
      OBVIOUS
    <3>1. f[n + 1] = f[n] \o s[n + 1] /\ s[n + 1] \in Seq(S)
      BY <1>0, <3>0, Zenon
    <3>2. CASE n = 0
      <4>1. << >> \o s[1] = s[1]
        BY <3>1, <3>2
      <4>2. flatten[1] = s[1]
        BY <2>0, <2>4
      <4>3. n + 1 = 1
        BY <3>2
      <4> QED
        BY <3>1, <3>2, <4>1, <4>2, <4>3
    <3>3. CASE n # 0
      <4>1. n \in 1 .. Len(s) /\ flatten[n] = f[n] /\ n + 1 # 1
        <5>1. n \in 1 .. Len(s) /\ n + 1 # 1
          BY <1>0, <3>3
        <5> QED
          BY <2>6, <5>1
      <4>2. flatten[n + 1] = flatten[(n + 1) - 1] \o s[n + 1]
        BY <2>4, <4>1, Zenon
      <4> QED
        BY <3>0, <3>1, <4>1, <4>2
    <3> QED
      BY <3>2, <3>3
  <2>7. Nat \subseteq T
    <3> HIDE DEF T
    <3> QED
      BY <2>5, <2>6, Induct
  <2> QED
    BY <2>0, <2>1, <2>7
<1> QED
  BY <1>1, <1>2

\* No sequences make the empty one.
LEMMA FlattenEmpty == FlattenSeq(<< >>) = << >>
BY DEF FlattenSeq

\* A sequence appended is concatenated.
LEMMA FlattenAppend ==
  ASSUME NEW S, NEW s \in Seq(Seq(S)), NEW x \in Seq(S)
  PROVE  /\ FlattenSeq(s) \in Seq(S)
         /\ FlattenSeq(Append(s, x)) = FlattenSeq(s) \o x
<1> DEFINE t == Append(s, x)
           g == [nv \in Nat \X Seq(S) |-> IF nv[1] \in 1 .. Len(t) THEN nv[2] \o t[nv[1]]
                                          ELSE nv[2]]
<1>1. /\ t \in Seq(Seq(S)) /\ Len(s) \in Nat /\ Len(t) = Len(s) + 1
      /\ t[Len(s) + 1] = x /\ \A n \in 1 .. Len(s) : t[n] = s[n]
  OBVIOUS
<1>0. Len(t) \in Nat /\ << >> \in Seq(S)
  BY <1>1
<1> HIDE DEF t
<1>2. g \in [Nat \X Seq(S) -> Seq(S)]
  BY <1>1
<1>3. \A n \in Nat, v \in Seq(S) : g[<<n, v>>] = IF n \in 1 .. Len(t) THEN v \o t[n] ELSE v
  OBVIOUS
<1> HIDE DEF g
<1>4. PICK f \in [Nat -> Seq(S)] :
        f[0] = << >> /\ \A n \in Nat : f[n + 1] = g[<<n + 1, f[n]>>]
  <2> DEFINE a == << >>
             V == Seq(S)
  <2>1. a \in V /\ g \in [Nat \X V -> V]
    BY <1>0, <1>2
  <2> HIDE DEF a, V
  <2>2. Recursive(V, a, g)
    BY <2>1, Recursion, Zenon
  <2> QED
    BY <2>2 DEF Recursive, a, V
<1>6. \A n \in 1 .. Len(t) : f[n] = f[n - 1] \o t[n]
  <2> SUFFICES ASSUME NEW n \in 1 .. Len(t) PROVE f[n] = f[n - 1] \o t[n]
    OBVIOUS
  <2>1. n \in Nat /\ n - 1 \in Nat /\ (n - 1) + 1 = n
    BY <1>0
  <2>2. f[n] = g[<<n, f[n - 1]>>] /\ f[n - 1] \in Seq(S)
    BY <1>4, <2>1
  <2> QED
    BY <1>3, <2>1, <2>2
<1>7. FlattenSeq(t) = f[Len(s) + 1]
  BY <1>1, <1>4, <1>6, FlattenIs
<1>8. FlattenSeq(s) = f[Len(s)]
  <2>1. ASSUME NEW n \in 1 .. Len(s) PROVE f[n] = f[n - 1] \o s[n]
    <3>1. n \in 1 .. Len(t) /\ t[n] = s[n]
      BY <1>1
    <3> QED
      BY <1>6, <3>1
  <2> QED
    BY <1>4, <2>1, FlattenIs
<1>9. f[Len(s) + 1] = f[Len(s)] \o x
  <2>1. Len(s) + 1 \in 1 .. Len(t) /\ (Len(s) + 1) - 1 = Len(s)
    BY <1>1
  <2> QED
    BY <1>1, <1>6, <2>1
<1> QED
  BY <1>1, <1>7, <1>8, <1>9 DEF t

\* A product of numbers, and the next one.
LEMMA TimesNext ==
  ASSUME NEW k \in Nat, NEW l \in Nat
  PROVE  k * (l + 1) = k * l + k /\ k * l \in Nat
OBVIOUS

\* Sequences of sequences over S that are all of the length k.
Uniform(S, k) == {s \in Seq(Seq(S)) : \A n \in 1 .. Len(s) : Len(s[n]) = k}

\* The place of each element of each in the concatenation.
Spread(s, k) ==
  /\ Len(FlattenSeq(s)) = k * Len(s)
  /\ \A n \in 1 .. Len(s), u \in 1 .. k : FlattenSeq(s)[k * (n - 1) + u] = s[n][u]

\* One more sequence of that length.
LEMMA SpreadAppend ==
  ASSUME NEW S, NEW k \in Nat, NEW s \in Uniform(S, k), NEW x \in Seq(S), Len(x) = k,
         Spread(s, k)
  PROVE  Append(s, x) \in Uniform(S, k) /\ Spread(Append(s, x), k)
<1> DEFINE t == Append(s, x)
           f == FlattenSeq(s)
           l == Len(s)
<1>1. s \in Seq(Seq(S)) /\ \A n \in 1 .. l : Len(s[n]) = k
  BY DEF Uniform
<1>2. /\ t \in Seq(Seq(S)) /\ l \in Nat /\ Len(t) = l + 1
      /\ t[l + 1] = x /\ \A n \in 1 .. l : t[n] = s[n]
  BY <1>1
<1>4. f \in Seq(S) /\ FlattenSeq(t) = f \o x
  BY <1>1, FlattenAppend
<1>5. Len(f) = k * l /\ \A n \in 1 .. l, u \in 1 .. k : f[k * (n - 1) + u] = s[n][u]
  BY DEF Spread
<1> HIDE DEF t, f, l
<1>3. t \in Uniform(S, k)
  <2>1. \A n \in 1 .. l + 1 : Len(t[n]) = k
    <3> SUFFICES ASSUME NEW n \in 1 .. l + 1 PROVE Len(t[n]) = k
      OBVIOUS
    <3>1. CASE n = l + 1
      BY <1>2, <3>1
    <3>2. CASE n \in 1 .. l
      <4>1. t[n] = s[n] /\ Len(s[n]) = k
        BY <1>1, <1>2, <3>2
      <4> QED
        BY <4>1
    <3> QED
      BY <1>2, <3>1, <3>2
  <2>2. Len(t) = l + 1
    BY <1>2
  <2> QED
    BY <1>2, <2>1, <2>2 DEF Uniform
<1>6. Len(FlattenSeq(t)) = k * Len(t)
  <2>1. k * (l + 1) = k * l + k /\ k * l \in Nat
    BY <1>2, TimesNext
  <2>2. ASSUME NEW g \in Seq(S), NEW y \in Seq(S) PROVE Len(g \o y) = Len(g) + Len(y)
    OBVIOUS
  <2>3. Len(f \o x) = k * (l + 1)
    BY <1>4, <1>5, <2>1, <2>2
  <2> QED
    BY <1>2, <1>4, <2>3
<1>7. ASSUME NEW n \in 1 .. l + 1, NEW u \in 1 .. k
      PROVE  FlattenSeq(t)[k * (n - 1) + u] = t[n][u]
  <2>1. k * l \in Nat /\ k * (n - 1) \in Nat /\ n - 1 \in Nat
    BY <1>2
  <2>2. CASE n = l + 1
    <3>1. k * (n - 1) + u = Len(f) + u /\ u \in 1 .. Len(x)
      BY <1>2, <1>5, <2>2
    <3> QED
      BY <1>2, <1>4, <2>2, <3>1
  <2>3. CASE n \in 1 .. l
    <3>1. k * l = k * (n - 1) + k * (l - n) + k /\ k * (l - n) \in Nat
      BY <1>2, <2>3
    <3>2. k * (n - 1) + u \in 1 .. Len(f)
      BY <1>5, <2>1, <3>1
    <3>3. (f \o x)[k * (n - 1) + u] = f[k * (n - 1) + u]
      BY <1>4, <3>2
    <3>4. f[k * (n - 1) + u] = s[n][u] /\ t[n] = s[n]
      BY <1>2, <1>5, <2>3
    <3> QED
      BY <1>4, <3>3, <3>4
  <2> QED
    BY <1>2, <2>2, <2>3
<1>8. Spread(t, k)
  BY <1>2, <1>6, <1>7 DEF Spread
<1> QED
  BY <1>3, <1>8 DEF t

\* In sequences of one length, every element has its place.
LEMMA UniformSpread ==
  ASSUME NEW S, NEW k \in Nat, NEW s \in Uniform(S, k)
  PROVE  Spread(s, k)
<1> DEFINE T == {n \in Nat : \A t \in Uniform(S, k) : Len(t) = n => Spread(t, k)}
<1>1. 0 \in T
  <2> SUFFICES ASSUME NEW t \in Uniform(S, k), Len(t) = 0 PROVE Spread(t, k)
    OBVIOUS
  <2>1. t = << >>
    BY DEF Uniform
  <2>2. k * 0 = 0 /\ Len(FlattenSeq(t)) = 0
    BY <2>1, FlattenEmpty
  <2> QED
    BY <2>2 DEF Spread
<1>2. ASSUME NEW n \in Nat, n \in T PROVE n + 1 \in T
  <2> SUFFICES ASSUME NEW t \in Uniform(S, k), Len(t) = n + 1 PROVE Spread(t, k)
    OBVIOUS
  <2> DEFINE e == [m \in 1 .. n |-> t[m]]
             x == t[n + 1]
  <2>1. t \in Seq(Seq(S)) /\ \A m \in 1 .. n + 1 : t[m] \in Seq(S) /\ Len(t[m]) = k
    BY DEF Uniform
  <2>2. e \in Seq(Seq(S)) /\ Len(e) = n /\ x \in Seq(S) /\ Len(x) = k
    BY <2>1
  <2>3. e \in Uniform(S, k)
    BY <2>1, <2>2 DEF Uniform
  <2>4. t = Append(e, x)
    BY <2>1, <2>2
  <2>5. Spread(e, k)
    BY <1>2, <2>2, <2>3
  <2> HIDE DEF e, x
  <2> QED
    BY <2>2, <2>3, <2>4, <2>5, SpreadAppend
<1> HIDE DEF T
<1>3. Nat \subseteq T
  BY <1>1, <1>2, Induct
<1>4. Len(s) \in Nat
  BY DEF Uniform
<1> QED
  BY <1>3, <1>4 DEF T

\* A factor that is not 0 can be cancelled.
LEMMA Cancel ==
  ASSUME NEW k \in Nat \ {0}, NEW a \in Nat, NEW b \in Nat, k * a = k * b
  PROVE  a = b
<1>1. ASSUME NEW x \in Nat, NEW y \in Nat, x < y PROVE k * x # k * y
  <2>1. k * y = k * x + k * (y - x) /\ k * x \in Nat
    BY <1>1
  <2>2. y - x >= 1 /\ k * (y - x) = k * (y - x - 1) + k /\ k * (y - x - 1) \in Nat
    BY <1>1
  <2> QED
    BY <2>1, <2>2
<1> QED
  BY <1>1

\* What sequences of one length are is told by their concatenation.
LEMMA UniformTold ==
  ASSUME NEW S, NEW k \in Nat \ {0}, NEW s \in Uniform(S, k), NEW t \in Uniform(S, k),
         FlattenSeq(s) = FlattenSeq(t)
  PROVE  s = t
<1>1. Spread(s, k) /\ Spread(t, k)
  BY UniformSpread
<1>2. /\ s \in Seq(Seq(S)) /\ Len(s) \in Nat /\ t \in Seq(Seq(S)) /\ Len(t) \in Nat
      /\ \A n \in 1 .. Len(s) : s[n] \in Seq(S) /\ Len(s[n]) = k
      /\ \A n \in 1 .. Len(t) : t[n] \in Seq(S) /\ Len(t[n]) = k
  BY DEF Uniform
<1>3. Len(s) = Len(t)
  <2>1. k * Len(s) = k * Len(t)
    BY <1>1 DEF Spread
  <2> QED
    BY <1>2, <2>1, Cancel
<1>4. ASSUME NEW n \in 1 .. Len(s) PROVE s[n] = t[n]
  <2>1. \A u \in 1 .. k : s[n][u] = t[n][u]
    BY <1>1, <1>3 DEF Spread
  <2> DEFINE q == s[n]
             r == t[n]
  <2>2. q \in Seq(S) /\ r \in Seq(S) /\ Len(q) = k /\ Len(r) = k
    BY <1>2, <1>3
  <2>3. \A u \in 1 .. k : q[u] = r[u]
    BY <2>1
  <2> HIDE DEF q, r
  <2>4. q = r
    BY <2>2, <2>3
  <2> QED
    BY <2>4 DEF q, r
<1> QED
  BY <1>2, <1>3, <1>4

-----------------------------------------------------------------------------
\* Dividing twice is dividing by the product.
LEMMA DivideTwice ==
  ASSUME NEW a \in Nat, NEW b \in Nat \ {0}, NEW c \in Nat \ {0}
  PROVE  (a \div b) \div c = a \div (b * c)
<1> DEFINE x == a \div b
           r == a % b
           y == x \div c
           z == x % c
<1>1. x \in Nat /\ r \in 0 .. b - 1 /\ a = b * x + r
  OBVIOUS
<1> HIDE DEF x, r
<1>2. y \in Nat /\ z \in 0 .. c - 1 /\ x = c * y + z
  BY <1>1
<1> HIDE DEF y, z
<1>3. a = y * (b * c) + (b * z + r)
  BY <1>1, <1>2
<1>4. b * z + r \in 0 .. b * c - 1 /\ b * c \in Nat \ {0}
  <2>1. b * (c - 1) = b * z + b * (c - 1 - z) /\ b * (c - 1 - z) \in Nat /\ b * z \in Nat
    BY <1>2
  <2>2. b * c = b * (c - 1) + b
    OBVIOUS
  <2> QED
    BY <1>1, <2>1, <2>2
<1>5. (y * (b * c) + (b * z + r)) \div (b * c) = y
  BY <1>2, <1>4, Division
<1>6. a \div (b * c) = y
  BY <1>3, <1>5
<1> QED
  BY <1>6 DEF x, y

\* Numbers of n digits with the same digits are the same.
LEMMA DigitsTell ==
  ASSUME NEW b \in Nat \ {0}
  PROVE  \A n \in Nat : \A x, y \in 0 .. Power(b)[n] - 1 :
           (\A d \in 0 .. n - 1 : (x \div Power(b)[d]) % b = (y \div Power(b)[d]) % b) => x = y
<1> DEFINE Same(x, y, n) ==
             \A d \in 0 .. n - 1 : (x \div Power(b)[d]) % b = (y \div Power(b)[d]) % b
           T == {n \in Nat : \A x, y \in 0 .. Power(b)[n] - 1 : Same(x, y, n) => x = y}
<1>0. /\ Power(b)[0] = 1
      /\ \A n \in Nat : Power(b)[n] \in Nat \ {0} /\ Power(b)[n + 1] = b * Power(b)[n]
  BY PowerIs, PowerPositive
<1>1. 0 \in T
  BY <1>0
<1>2. ASSUME NEW n \in Nat, n \in T PROVE n + 1 \in T
  <2> SUFFICES ASSUME NEW x \in 0 .. Power(b)[n + 1] - 1, NEW y \in 0 .. Power(b)[n + 1] - 1,
                      Same(x, y, n + 1)
               PROVE  x = y
    OBVIOUS
  <2>1. x % b = y % b
    <3>1. (x \div Power(b)[0]) % b = (y \div Power(b)[0]) % b
      OBVIOUS
    <3>2. x \div 1 = x /\ y \div 1 = y
      BY <1>0
    <3> QED
      BY <1>0, <3>1, <3>2
  <2>2. \A v \in Nat : v < Power(b)[n + 1] => v \div b \in 0 .. Power(b)[n] - 1
    <3> SUFFICES ASSUME NEW v \in Nat, v < Power(b)[n + 1] PROVE v \div b \in 0 .. Power(b)[n] - 1
      OBVIOUS
    <3> DEFINE q == v \div b
               m == Power(b)[n]
    <3>1. q \in Nat /\ v >= b * q
      OBVIOUS
    <3>2. m \in Nat /\ v < b * m
      BY <1>0
    <3> HIDE DEF q, m
    <3>3. q < m
      <4> SUFFICES ASSUME q >= m PROVE FALSE
        BY <3>1, <3>2
      <4>1. b * q = b * m + b * (q - m) /\ b * (q - m) \in Nat /\ b * q \in Nat /\ b * m \in Nat
        BY <3>1, <3>2
      <4> QED
        BY <3>1, <3>2, <4>1
    <3>4. q \in 0 .. m - 1
      BY <3>1, <3>2, <3>3
    <3> QED
      BY <3>4 DEF q, m
  <2>3. x \in Nat /\ y \in Nat /\ x < Power(b)[n + 1] /\ y < Power(b)[n + 1]
    BY <1>0
  <2>4. ASSUME NEW v \in Nat, NEW d \in Nat
        PROVE  (v \div b) \div Power(b)[d] = v \div Power(b)[d + 1]
    <3> DEFINE m == Power(b)[d]
    <3>1. m \in Nat \ {0} /\ Power(b)[d + 1] = b * m
      BY <1>0
    <3> HIDE DEF m
    <3>2. (v \div b) \div m = v \div (b * m)
      BY <3>1, DivideTwice
    <3> QED
      BY <3>1, <3>2 DEF m
  <2>5. Same(x \div b, y \div b, n)
    <3> SUFFICES ASSUME NEW d \in 0 .. n - 1
                 PROVE  ((x \div b) \div Power(b)[d]) % b = ((y \div b) \div Power(b)[d]) % b
      OBVIOUS
    <3>1. d + 1 \in 0 .. (n + 1) - 1 /\ d \in Nat
      OBVIOUS
    <3>2. (x \div Power(b)[d + 1]) % b = (y \div Power(b)[d + 1]) % b
      BY <3>1
    <3> QED
      BY <2>3, <2>4, <3>1, <3>2
  <2>6. x \div b = y \div b
    <3>1. x \div b \in 0 .. Power(b)[n] - 1 /\ y \div b \in 0 .. Power(b)[n] - 1
      BY <2>2, <2>3
    <3> HIDE DEF Same
    <3> QED
      BY <1>2, <2>5, <3>1
  <2>7. x = b * (x \div b) + (x % b) /\ y = b * (y \div b) + (y % b)
    BY <2>3
  <2> QED
    BY <2>1, <2>6, <2>7
<1> HIDE DEF T
<1>3. Nat \subseteq T
  BY <1>1, <1>2, Induct
<1> QED
  BY <1>3 DEF T
=============================================================================

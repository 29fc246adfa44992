-------------------------- MODULE StaticTrieProofs --------------------------
(***************************************************************************)
(* The built trie: BASE and CHECK are read from the digits as they were    *)
(* encoded, each key has an id of its own, is found under it and decoded   *)
(* from it, other words are refused, and a predictive search misses none.  *)
(***************************************************************************)
EXTENDS StaticTrie, TrieWordsProofs

-----------------------------------------------------------------------------
(* Loops, and numbers by rank. *)

Stepped(k, first, F, g) == g = [n \in 0 .. k |-> IF n = 0 THEN first ELSE F[n][g[n - 1]]]

\* Steps on a set can be made one after another.
LEMMA StepsMade ==
    ASSUME NEW k \in Nat, NEW S, NEW first \in S, NEW F \in [1 .. k -> [S -> S]]
    PROVE  \E g \in [0 .. k -> S] : Stepped(k, first, F, g)
<1> DEFINE Loop(m, g) == g = [n \in 0 .. m |-> IF n = 0 THEN first ELSE F[n][g[n - 1]]]
           R == {m \in 0 .. k : \E g \in [0 .. m -> S] : Loop(m, g)}
<1>1. 0 \in R
  <2> DEFINE g == [n \in 0 .. 0 |-> first]
  <2>1. g \in [0 .. 0 -> S] /\ Loop(0, g)
    OBVIOUS
  <2> HIDE DEF Loop, g
  <2> QED
    BY <2>1
<1>2. ASSUME NEW m \in 0 .. k - 1, m \in R
      PROVE  m + 1 \in R
  <2>1. PICK g \in [0 .. m -> S] : Loop(m, g)
    BY <1>2
  <2> DEFINE h == [n \in 0 .. m + 1 |-> IF n = m + 1 THEN F[m + 1][g[m]] ELSE g[n]]
  <2>2. g[m] \in S /\ F[m + 1][g[m]] \in S
    OBVIOUS
  <2>3. h \in [0 .. m + 1 -> S]
    BY <2>2
  <2>4. ASSUME NEW n \in 0 .. m + 1
        PROVE  h[n] = IF n = 0 THEN first ELSE F[n][h[n - 1]]
    <3>1. CASE n = m + 1
      <4>1. n # 0 /\ n - 1 = m /\ h[n - 1] = g[m] /\ h[n] = F[m + 1][g[m]]
        BY <3>1
      <4> HIDE DEF h
      <4> QED
        BY <4>1
    <3>2. CASE n # m + 1
      <4>1. n \in 0 .. m /\ h[n] = g[n] /\ (n # 0 => h[n - 1] = g[n - 1])
        BY <3>2
      <4>2. g[n] = IF n = 0 THEN first ELSE F[n][g[n - 1]]
        BY <2>1, <4>1
      <4> HIDE DEF h
      <4> QED
        BY <4>1, <4>2
    <3> QED
      BY <3>1, <3>2
  <2>5. h = [n \in 0 .. m + 1 |-> h[n]]
    OBVIOUS
  <2>6. Loop(m + 1, h)
    <3> HIDE DEF h
    <3> QED
      BY <2>4, <2>5
  <2>7. m + 1 \in 0 .. k
    OBVIOUS
  <2> HIDE DEF Loop, h
  <2> QED
    BY <2>3, <2>6, <2>7
<1>3. \A m \in 0 .. k : m \in R
  <2>1. \A m \in 0 .. k - 1 : m \in R => m + 1 \in R
    BY <1>2
  <2> HIDE DEF R
  <2> QED
    BY ONLY k \in Nat, <1>1, <2>1, Rounds
<1>4. \E g \in [0 .. k -> S] : Loop(k, g)
  <2>1. k \in 0 .. k
    OBVIOUS
  <2> HIDE DEF Loop
  <2> QED
    BY <1>3, <2>1
<1> QED
  BY <1>4 DEF Stepped

\* A step function on a set can be repeated.
LEMMA LoopMade ==
    ASSUME NEW k \in Nat, NEW S, NEW first \in S, NEW F \in [S -> S]
    PROVE  \E g \in [0 .. k -> S] : g = [n \in 0 .. k |-> IF n = 0 THEN first ELSE F[g[n - 1]]]
<1> DEFINE G == [n \in 1 .. k |-> F]
<1>1. G \in [1 .. k -> [S -> S]]
  OBVIOUS
<1> HIDE DEF G
<1>2. PICK g \in [0 .. k -> S] : Stepped(k, first, G, g)
  BY <1>1, StepsMade
<1>3. ASSUME NEW n \in 0 .. k
      PROVE  g[n] = IF n = 0 THEN first ELSE F[g[n - 1]]
  <2>1. n # 0 => G[n] = F
    BY DEF G
  <2>2. g[n] = IF n = 0 THEN first ELSE G[n][g[n - 1]]
    BY <1>2 DEF Stepped
  <2> QED
    BY <2>1, <2>2
<1>4. g = [n \in 0 .. k |-> g[n]]
  OBVIOUS
<1>5. g = [n \in 0 .. k |-> IF n = 0 THEN first ELSE F[g[n - 1]]]
  BY <1>3, <1>4
<1> QED
  BY <1>5

Lower(S, x) == {y \in S : y < x}

\* The number of smaller ones runs through 0 .. Cardinality(S) - 1.
LEMMA RankFacts ==
    ASSUME NEW S \in SUBSET Nat, IsFiniteSet(S)
    PROVE  /\ Cardinality(S) \in Nat
           /\ \A x \in S : Cardinality(Lower(S, x)) \in 0 .. Cardinality(S) - 1
           /\ \A x, y \in S : Cardinality(Lower(S, x)) = Cardinality(Lower(S, y)) => x = y
           /\ \A n \in 0 .. Cardinality(S) - 1 : \E x \in S : Cardinality(Lower(S, x)) = n
<1> DEFINE c == Cardinality(S)
           f == [x \in S |-> Cardinality(Lower(S, x))]
<1>0. c \in Nat
  BY FS_CardinalityType
<1>1. ASSUME NEW x \in S
      PROVE  IsFiniteSet(Lower(S, x)) /\ f[x] \in 0 .. c - 1
  <2>1. Lower(S, x) \in SUBSET S /\ x \notin Lower(S, x)
    BY DEF Lower
  <2>2. Lower(S, x) # S
    BY <2>1
  <2>3. IsFiniteSet(Lower(S, x)) /\ Cardinality(Lower(S, x)) <= c /\ Cardinality(Lower(S, x)) # c
    BY <2>1, <2>2, FS_Subset
  <2>4. Cardinality(Lower(S, x)) \in Nat
    BY <2>3, FS_CardinalityType
  <2> QED
    BY <1>0, <2>3, <2>4
<1>2. ASSUME NEW x \in S, NEW y \in S, x < y
      PROVE  f[x] # f[y]
  <2> DEFINE A == Lower(S, x)
             B == Lower(S, y)
  <2>1. A \in SUBSET B /\ x \in B /\ x \notin A
    <3>1. x \in Nat /\ y \in Nat /\ \A z \in S : z \in Nat /\ (z < x => z < y)
      BY <1>2
    <3>2. A \in SUBSET B
      BY <3>1 DEF Lower
    <3>3. x \in B /\ x \notin A
      BY <1>2, <3>1 DEF Lower
    <3> QED
      BY <3>2, <3>3
  <2>2. IsFiniteSet(B)
    BY <1>1
  <2>3. Cardinality(A) # Cardinality(B)
    <3> HIDE DEF A, B
    <3> QED
      BY <2>1, <2>2, FS_Subset
  <2> QED
    BY <2>3
<1>3. \A x, y \in S : f[x] = f[y] => x = y
  <2> SUFFICES ASSUME NEW x \in S, NEW y \in S, f[x] = f[y]
               PROVE  x = y
    OBVIOUS
  <2>1. ~(x < y) /\ ~(y < x)
    BY <1>2
  <2> QED
    BY <2>1
<1>4. f \in Injection(S, 0 .. c - 1)
  BY <1>1, <1>3 DEF Injection, IsInjective
<1>5. IsFiniteSet(0 .. c - 1) /\ Cardinality(0 .. c - 1) = c
  <2>1. IsFiniteSet(0 .. c - 1) /\ Cardinality(0 .. c - 1) = IF 0 > c - 1 THEN 0 ELSE (c - 1) - 0 + 1
    BY <1>0, FS_Interval
  <2> QED
    BY <1>0, <2>1
<1>6. f \in Surjection(S, 0 .. c - 1)
  <2> HIDE DEF f, c
  <2> QED
    BY <1>4, <1>5, FS_Injection DEF c
<1>7. \A n \in 0 .. c - 1 : \E x \in S : f[x] = n
  BY <1>6 DEF Surjection
<1>8. \A x \in S : f[x] = Cardinality(Lower(S, x))
  OBVIOUS
<1> HIDE DEF f
<1> QED
  BY <1>0, <1>1, <1>3, <1>7, <1>8

\* Rising(S) has each number of S at its rank.
LEMMA RisingFacts ==
    ASSUME NEW S \in SUBSET Nat, IsFiniteSet(S)
    PROVE  /\ Cardinality(S) \in Nat /\ DOMAIN Rising(S) = 0 .. Cardinality(S) - 1
           /\ \A r \in DOMAIN Rising(S) : Rising(S)[r] \in S
           /\ \A x \in S : Cardinality(Lower(S, x)) \in DOMAIN Rising(S) /\ Rising(S)[Cardinality(Lower(S, x))] = x
<1> DEFINE At1(r) == CHOOSE x \in S : Cardinality(Lower(S, x)) = r
<1>1. Rising(S) = [r \in 0 .. Cardinality(S) - 1 |-> At1(r)]
  BY DEF Rising, Lower
<1>2. \A r \in 0 .. Cardinality(S) - 1 : At1(r) \in S /\ Cardinality(Lower(S, At1(r))) = r
  BY RankFacts
<1> HIDE DEF At1
<1>3. ASSUME NEW x \in S
      PROVE  Cardinality(Lower(S, x)) \in 0 .. Cardinality(S) - 1 /\ At1(Cardinality(Lower(S, x))) = x
  <2>1. Cardinality(Lower(S, x)) \in 0 .. Cardinality(S) - 1
    BY RankFacts
  <2>2. /\ At1(Cardinality(Lower(S, x))) \in S
        /\ Cardinality(Lower(S, At1(Cardinality(Lower(S, x))))) = Cardinality(Lower(S, x))
    BY <2>1, <1>2
  <2>3. At1(Cardinality(Lower(S, x))) = x
    <3> DEFINE z == At1(Cardinality(Lower(S, x)))
    <3> HIDE DEF z
    <3>1. z \in S /\ Cardinality(Lower(S, z)) = Cardinality(Lower(S, x))
      BY <2>2 DEF z
    <3>2. z = x
      BY <3>1, RankFacts
    <3> QED
      BY <3>2 DEF z
  <2> QED
    BY <2>1, <2>3
<1>4. Cardinality(S) \in Nat
  BY RankFacts
<1> QED
  BY <1>1, <1>2, <1>3, <1>4

-----------------------------------------------------------------------------
(* The digits of numbers. *)

\* A number is its low digit and the rest.
LEMMA DigitFacts ==
    ASSUME NEW n \in Nat
    PROVE  /\ n % BlockSize \in Chars /\ n \div BlockSize \in Nat
           /\ n = (n % BlockSize) + BlockSize * (n \div BlockSize)
           /\ n # 0 => n \div BlockSize < n
           /\ n < BlockSize => n \div BlockSize = 0 /\ n % BlockSize = n
<1>1. BlockSize \in Nat /\ BlockSize > 1
  BY BlockAssumption
<1>2. n % BlockSize \in Chars /\ n \div BlockSize \in Nat
  BY <1>1 DEF Chars
<1>3. n = (n % BlockSize) + BlockSize * (n \div BlockSize)
  BY <1>1
<1>4. ASSUME n # 0
      PROVE  n \div BlockSize < n
  <2> DEFINE q == n \div BlockSize
             r == n % BlockSize
  <2>1. q \in Nat /\ r \in Nat /\ n = r + BlockSize * q
    BY <1>1, <1>2, <1>3 DEF Chars
  <2> HIDE DEF q, r
  <2>2. BlockSize * q >= 2 * q
    BY <1>1, <2>1
  <2>3. BlockSize * q \in Nat
    BY <1>1, <2>1
  <2>4. q < n
    BY <1>4, <2>1, <2>2, <2>3
  <2> QED
    BY <2>4 DEF q
<1>5. ASSUME n < BlockSize
      PROVE  n \div BlockSize = 0 /\ n % BlockSize = n
  BY <1>1, <1>5
<1> QED
  BY <1>2, <1>3, <1>4, <1>5

LEMMA DigitsUnique ==
    ASSUME NEW r \in Chars, NEW q \in Nat
    PROVE  /\ r + BlockSize * q \in Nat
           /\ (r + BlockSize * q) % BlockSize = r /\ (r + BlockSize * q) \div BlockSize = q
  BY BlockAssumption DEF Chars

\* The exclusive or of digits, as a function on pairs of numbers.
XorStep(f) ==
    [p \in Nat \X Nat |->
        IF p = <<0, 0>> THEN 0
        ELSE XorLow[<<p[1] % BlockSize, p[2] % BlockSize>>]
             + BlockSize * f[<<p[1] \div BlockSize, p[2] \div BlockSize>>]]

XorLoop(n, g) == g = [d \in 0 .. n |-> IF d = 0 THEN [p \in Nat \X Nat |-> 0] ELSE XorStep(g[d - 1])]

LEMMA XorStepType ==
    ASSUME NEW f \in [Nat \X Nat -> Nat]
    PROVE  XorStep(f) \in [Nat \X Nat -> Nat]
<1>1. ASSUME NEW x \in Nat, NEW y \in Nat
      PROVE  XorLow[<<x % BlockSize, y % BlockSize>>] + BlockSize * f[<<x \div BlockSize, y \div BlockSize>>] \in Nat
  <2>1. x % BlockSize \in Chars /\ y % BlockSize \in Chars /\ x \div BlockSize \in Nat /\ y \div BlockSize \in Nat
    BY DigitFacts
  <2> DEFINE r == XorLow[<<x % BlockSize, y % BlockSize>>]
             q == f[<<x \div BlockSize, y \div BlockSize>>]
  <2>2. r \in Chars /\ q \in Nat
    BY <2>1, XorAssumption
  <2> HIDE DEF r, q
  <2>3. r + BlockSize * q \in Nat
    BY <2>2, DigitsUnique
  <2> QED
    BY <2>3 DEF r, q
<1>2. \A p \in Nat \X Nat : p[1] \in Nat /\ p[2] \in Nat
  OBVIOUS
<1> QED
  BY <1>1, <1>2 DEF XorStep

LEMMA XorMade ==
    ASSUME NEW n \in Nat
    PROVE  \E g \in [0 .. n -> [Nat \X Nat -> Nat]] :
               XorLoop(n, g) /\ \A a, b \in Nat : XorDigits(n, a, b) = g[n][<<a, b>>]
<1> DEFINE S == [Nat \X Nat -> Nat]
           zero == [p \in Nat \X Nat |-> 0]
           F == [f \in S |-> XorStep(f)]
           g == CHOOSE h : XorLoop(n, h)
<1>1. zero \in S /\ F \in [S -> S]
  BY XorStepType
<1>2. \E h \in [0 .. n -> S] : h = [d \in 0 .. n |-> IF d = 0 THEN zero ELSE F[h[d - 1]]]
  <2> HIDE DEF S, zero, F
  <2> QED
    BY <1>1, LoopMade
<1>3. PICK h \in [0 .. n -> S] : h = [d \in 0 .. n |-> IF d = 0 THEN zero ELSE F[h[d - 1]]]
  BY <1>2
<1>4. XorLoop(n, h)
  <2>1. ASSUME NEW d \in 0 .. n
        PROVE  h[d] = IF d = 0 THEN zero ELSE XorStep(h[d - 1])
    <3>1. CASE d = 0
      BY <3>1, <1>3
    <3>2. CASE d # 0
      <4>1. h[d - 1] \in S
        BY <3>2
      <4>2. h[d] = F[h[d - 1]]
        BY <3>2, <1>3
      <4> QED
        BY <3>2, <4>1, <4>2
    <3> QED
      BY <3>1, <3>2
  <2>2. h = [d \in 0 .. n |-> h[d]]
    OBVIOUS
  <2> HIDE DEF zero, S
  <2> QED
    BY <2>1, <2>2 DEF XorLoop, zero
<1>5. XorLoop(n, g)
  BY <1>4
<1>6. g \in [0 .. n -> S]
  <2> HIDE DEF g, S
  <2> DEFINE R == {d \in 0 .. n : g[d] \in S}
  <2>1. 0 \in R
    BY <1>1, <1>5 DEF XorLoop
  <2>2. ASSUME NEW d \in 0 .. n - 1, d \in R
        PROVE  d + 1 \in R
    <3>1. g[d + 1] = XorStep(g[d])
      BY <1>5 DEF XorLoop
    <3>2. g[d + 1] \in S
      BY <2>2, <3>1, XorStepType DEF S
    <3> QED
      BY <3>2
  <2>3. \A d \in 0 .. n : d \in R
    <3> HIDE DEF R
    <3> QED
      BY <2>1, <2>2, Rounds
  <2>4. DOMAIN g = 0 .. n /\ g = [d \in DOMAIN g |-> g[d]]
    BY <1>5 DEF XorLoop
  <2> QED
    BY <2>3, <2>4
<1>7. \A a, b \in Nat : XorDigits(n, a, b) = g[n][<<a, b>>]
  BY DEF XorDigits, XorLoop, XorStep
<1> HIDE DEF g
<1> QED
  BY <1>5, <1>6, <1>7

\* Taken twice, the exclusive or with b gives back a number of no more digits than
\* there are rounds.
LEMMA XorTwice ==
    ASSUME NEW n \in Nat, NEW a \in 0 .. n, NEW b \in Nat
    PROVE  XorDigits(n, a, b) \in Nat /\ XorDigits(n, XorDigits(n, a, b), b) = a
<1>1. PICK g \in [0 .. n -> [Nat \X Nat -> Nat]] :
               XorLoop(n, g) /\ \A x, y \in Nat : XorDigits(n, x, y) = g[n][<<x, y>>]
  BY XorMade
<1>t. \A d \in 0 .. n : \A x, y \in Nat : g[d][<<x, y>>] \in Nat
  OBVIOUS
<1> DEFINE Twice(d) == \A x, y \in Nat : x <= d => g[d][<<g[d][<<x, y>>], y>>] = x
           R == {d \in 0 .. n : Twice(d)}
<1>2. 0 \in R
  <2>1. g[0] = [p \in Nat \X Nat |-> 0]
    BY <1>1 DEF XorLoop
  <2>2. \A x, y \in Nat : g[0][<<x, y>>] = 0
    BY <2>1
  <2> QED
    BY <2>2
<1>3. ASSUME NEW d \in 0 .. n - 1, d \in R
      PROVE  d + 1 \in R
  <2>1. g[d + 1] = XorStep(g[d]) /\ d + 1 \in 0 .. n /\ d \in 0 .. n
    BY <1>1 DEF XorLoop
  <2>z. \A e \in 0 .. n : g[e][<<0, 0>>] = 0
    <3> TAKE e \in 0 .. n
    <3>1. g[e] = IF e = 0 THEN [p \in Nat \X Nat |-> 0] ELSE XorStep(g[e - 1])
      BY <1>1 DEF XorLoop
    <3> QED
      BY <3>1 DEF XorStep
  <2>2. \A x, y \in Nat : ~(x = 0 /\ y = 0) =>
            g[d + 1][<<x, y>>] = XorLow[<<x % BlockSize, y % BlockSize>>] + BlockSize * g[d][<<x \div BlockSize, y \div BlockSize>>]
    BY <2>1 DEF XorStep
  <2>3. ASSUME NEW x \in Nat, NEW y \in Nat, x <= d + 1
        PROVE  g[d + 1][<<g[d + 1][<<x, y>>], y>>] = x
    <3>1. CASE x = 0 /\ y = 0
      BY <3>1, <2>1, <2>z
    <3>2. CASE ~(x = 0 /\ y = 0)
      <4> DEFINE xr == x % BlockSize
                 xq == x \div BlockSize
                 yr == y % BlockSize
                 yq == y \div BlockSize
                 l == XorLow[<<xr, yr>>]
                 h == g[d][<<xq, yq>>]
                 z == g[d + 1][<<x, y>>]
      <4>1. /\ xr \in Chars /\ xq \in Nat /\ yr \in Chars /\ yq \in Nat
            /\ x = xr + BlockSize * xq /\ (x # 0 => xq < x)
        BY DigitFacts
      <4>2. z = l + BlockSize * h
        BY <3>2, <2>2
      <4>3. l \in Chars /\ XorLow[<<l, yr>>] = xr
        BY <4>1, XorAssumption
      <4>4. xq <= d
        <5>1. x = 0 => xq = 0
          <6>1. BlockSize \in Nat /\ BlockSize > 1
            BY BlockAssumption
          <6> QED
            BY <6>1
        <5> HIDE DEF xq, xr
        <5> QED
          BY <2>3, <4>1, <5>1
      <4>5. h \in Nat /\ g[d][<<h, yq>>] = xq
        <5>1. h \in Nat
          BY <1>t, <2>1, <4>1
        <5> HIDE DEF xq, yq
        <5>2. g[d][<<g[d][<<xq, yq>>], yq>>] = xq
          BY <1>3, <4>1, <4>4
        <5> QED
          BY <5>1, <5>2
      <4>6. z \in Nat /\ z % BlockSize = l /\ z \div BlockSize = h
        <5> HIDE DEF l, h, z
        <5> QED
          BY <4>2, <4>3, <4>5, DigitsUnique
      <4>7. CASE ~(z = 0 /\ y = 0)
        <5>1. g[d + 1][<<z, y>>] = XorLow[<<z % BlockSize, yr>>] + BlockSize * g[d][<<z \div BlockSize, yq>>]
          <6> HIDE DEF z
          <6> QED
            BY <2>2, <4>6, <4>7
        <5>2. g[d + 1][<<z, y>>] = xr + BlockSize * xq
          <6> HIDE DEF xr, xq, yr, yq, l, h, z
          <6> QED
            BY <5>1, <4>3, <4>5, <4>6
        <5> HIDE DEF xr, xq
        <5> QED
          BY <5>2, <4>1
      <4>8. CASE z = 0 /\ y = 0
        <5>1. z % BlockSize = 0 /\ z \div BlockSize = 0 /\ yr = 0 /\ yq = 0
          <6>1. 0 % BlockSize = 0 /\ 0 \div BlockSize = 0
            BY BlockAssumption
          <6> HIDE DEF z
          <6> QED
            BY <4>8, <6>1
        <5>2. l = 0 /\ h = 0
          BY <4>6, <5>1
        <5> HIDE DEF xr, xq, yr, yq, l, h, z
        <5>3. xr = 0
          BY <4>3, <5>1, <5>2, XorZeroAssumption
        <5>4. xq = 0
          BY <2>z, <2>1, <4>5, <5>1, <5>2
        <5>5. x = 0
          <6>1. BlockSize * 0 = 0
            BY BlockAssumption
          <6> QED
            BY <4>1, <5>3, <5>4, <6>1
        <5> QED
          BY <3>2, <4>8, <5>5
      <4> QED
        BY <4>7, <4>8
    <3> QED
      BY <3>1, <3>2
  <2> QED
    BY <2>1, <2>3
<1>4. \A d \in 0 .. n : d \in R
  <2> HIDE DEF R
  <2> QED
    BY <1>2, <1>3, Rounds
<1>5. n \in 0 .. n /\ a \in Nat /\ a <= n
  OBVIOUS
<1>6. Twice(n)
  BY <1>4, <1>5
<1>7. g[n][<<g[n][<<a, b>>], b>>] = a /\ g[n][<<a, b>>] \in Nat
  BY <1>5, <1>6, <1>t
<1> QED
  BY <1>1, <1>5, <1>7

-----------------------------------------------------------------------------
(* The levels of the digits. *)

Lists == UNION {[0 .. m - 1 -> Nat] : m \in Nat}

Flags(v) == [i \in DOMAIN v |-> HasNextDigit(v[i])]

\* The values that have a next digit, by rank, without their low digit.
LEMMA HigherFacts ==
    ASSUME NEW m \in Nat, NEW v \in [0 .. m - 1 -> Nat]
    PROVE  /\ Higher(v) \in Lists
           /\ \A i \in 0 .. m - 1 : HasNextDigit(v[i]) =>
                 /\ Rank(Flags(v), i) \in DOMAIN Higher(v)
                 /\ Higher(v)[Rank(Flags(v), i)] = v[i] \div BlockSize
           /\ \A r \in DOMAIN Higher(v) : \E i \in 0 .. m - 1 :
                 HasNextDigit(v[i]) /\ Higher(v)[r] = v[i] \div BlockSize
<1> DEFINE S == {i \in 0 .. m - 1 : HasNextDigit(v[i])}
           c == Cardinality(S)
           up == Rising(S)
<1>1. S \in SUBSET Nat /\ IsFiniteSet(S)
  <2>1. IsFiniteSet(0 .. m - 1) /\ S \in SUBSET (0 .. m - 1)
    <3>1. 0 \in Int /\ m - 1 \in Int
      OBVIOUS
    <3>2. IsFiniteSet(0 .. m - 1)
      BY <3>1, FS_Interval
    <3> QED
      BY <3>2
  <2>2. 0 .. m - 1 \in SUBSET Nat
    OBVIOUS
  <2> HIDE DEF S
  <2> QED
    BY <2>1, <2>2, FS_Subset
<1>2. /\ c \in Nat /\ DOMAIN up = 0 .. c - 1
      /\ \A r \in DOMAIN up : up[r] \in S
      /\ \A x \in S : Cardinality(Lower(S, x)) \in DOMAIN up /\ up[Cardinality(Lower(S, x))] = x
  <2> HIDE DEF S
  <2> QED
    BY <1>1, RisingFacts
<1>3. Higher(v) = [r \in DOMAIN up |-> v[up[r]] \div BlockSize]
  <2>1. DOMAIN v = 0 .. m - 1
    OBVIOUS
  <2> QED
    BY <2>1 DEF Higher
<1> HIDE DEF up, c
<1>4. \A r \in DOMAIN up : v[up[r]] \in Nat /\ v[up[r]] \div BlockSize \in Nat /\ HasNextDigit(v[up[r]]) /\ up[r] \in 0 .. m - 1
  <2> TAKE r \in DOMAIN up
  <2>1. up[r] \in S
    BY <1>2
  <2>2. up[r] \in 0 .. m - 1 /\ HasNextDigit(v[up[r]])
    BY <2>1
  <2>3. v[up[r]] \in Nat
    BY <2>2
  <2> QED
    BY <2>2, <2>3, DigitFacts
<1>5. Higher(v) \in [0 .. c - 1 -> Nat]
  BY <1>2, <1>3, <1>4
<1>6. Higher(v) \in Lists
  BY <1>2, <1>5 DEF Lists
<1>7. ASSUME NEW i \in 0 .. m - 1, HasNextDigit(v[i])
      PROVE  /\ Rank(Flags(v), i) \in DOMAIN Higher(v)
             /\ Higher(v)[Rank(Flags(v), i)] = v[i] \div BlockSize
  <2>1. i \in S
    BY <1>7
  <2>2. {j \in 0 .. i - 1 : Flags(v)[j]} = Lower(S, i)
    <3>1. \A j \in 0 .. i - 1 : j \in 0 .. m - 1 /\ Flags(v)[j] = HasNextDigit(v[j])
      BY DEF Flags
    <3>2. \A j \in 0 .. m - 1 : j < i <=> j \in 0 .. i - 1
      OBVIOUS
    <3> QED
      BY <3>1, <3>2 DEF Lower
  <2>3. Rank(Flags(v), i) = Cardinality(Lower(S, i))
    BY <2>2 DEF Rank
  <2>4. Cardinality(Lower(S, i)) \in DOMAIN up /\ up[Cardinality(Lower(S, i))] = i
    BY <1>2, <2>1
  <2> HIDE DEF S
  <2> QED
    BY <1>3, <2>3, <2>4
<1>8. ASSUME NEW r \in DOMAIN Higher(v)
      PROVE  \E i \in 0 .. m - 1 : HasNextDigit(v[i]) /\ Higher(v)[r] = v[i] \div BlockSize
  BY <1>3, <1>4
<1> QED
  BY <1>6, <1>7, <1>8

CutLoop(k, values, g) == g = [j \in 0 .. k |-> IF j = 0 THEN values ELSE Higher(g[j - 1])]

LEMMA CutMade ==
    ASSUME NEW k \in Nat, NEW values \in Lists
    PROVE  \E g : CutLoop(k, values, g)
<1> DEFINE F == [v \in Lists |-> Higher(v)]
<1>1. F \in [Lists -> Lists]
  <2>1. ASSUME NEW v \in Lists
        PROVE  Higher(v) \in Lists
    <3>1. PICK m \in Nat : v \in [0 .. m - 1 -> Nat]
      BY DEF Lists
    <3> QED
      BY <3>1, HigherFacts
  <2> QED
    BY <2>1
<1>2. \E g \in [0 .. k -> Lists] : g = [j \in 0 .. k |-> IF j = 0 THEN values ELSE F[g[j - 1]]]
  <2> HIDE DEF F
  <2> QED
    BY <1>1, LoopMade
<1>3. PICK g \in [0 .. k -> Lists] : g = [j \in 0 .. k |-> IF j = 0 THEN values ELSE F[g[j - 1]]]
  BY <1>2
<1>4. ASSUME NEW j \in 0 .. k
      PROVE  g[j] = IF j = 0 THEN values ELSE Higher(g[j - 1])
  <2>1. CASE j = 0
    BY <2>1, <1>3
  <2>2. CASE j # 0
    <3>1. g[j - 1] \in Lists
      BY <2>2
    <3>2. g[j] = F[g[j - 1]]
      BY <2>2, <1>3
    <3> QED
      BY <2>2, <3>1, <3>2
  <2> QED
    BY <2>1, <2>2
<1>5. g = [j \in 0 .. k |-> g[j]]
  OBVIOUS
<1>6. CutLoop(k, values, g)
  BY <1>4, <1>5 DEF CutLoop
<1> QED
  BY <1>6

\* Finitely many numbers have a largest.
LEMMA LargestFacts ==
    ASSUME NEW m \in Nat \ {0}, NEW values \in [0 .. m - 1 -> Nat]
    PROVE  LET most == Max({values[i] : i \in DOMAIN values})
           IN  most \in Nat /\ \A i \in 0 .. m - 1 : values[i] <= most
<1> DEFINE T == {values[i] : i \in DOMAIN values}
           R == {n \in 0 .. m : \E b \in Nat : \A i \in 0 .. n - 1 : values[i] <= b}
<1>1. 0 \in R
  OBVIOUS
<1>2. ASSUME NEW n \in 0 .. m - 1, n \in R
      PROVE  n + 1 \in R
  <2>1. PICK b \in Nat : \A i \in 0 .. n - 1 : values[i] <= b
    BY <1>2
  <2>2. values[n] \in Nat /\ b + values[n] \in Nat
    OBVIOUS
  <2>3. \A i \in 0 .. n + 1 - 1 : values[i] <= b + values[n]
    <3> TAKE i \in 0 .. n + 1 - 1
    <3>1. i \in 0 .. n - 1 \/ i = n
      OBVIOUS
    <3>2. values[i] \in Nat
      OBVIOUS
    <3> QED
      BY <2>1, <2>2, <3>1, <3>2
  <2>4. n + 1 \in 0 .. m
    OBVIOUS
  <2> QED
    BY <2>2, <2>3, <2>4
<1>3. m \in 0 .. m /\ \A n \in 0 .. m : n \in R
  <2>1. m \in Nat /\ m \in 0 .. m
    OBVIOUS
  <2> HIDE DEF R
  <2> QED
    BY <1>1, <1>2, <2>1, Rounds
<1>4. PICK b \in Nat : \A i \in 0 .. m - 1 : values[i] <= b
  BY <1>3
<1>5. T \in SUBSET (0 .. b) /\ T # {}
  <2>1. \A i \in DOMAIN values : values[i] \in 0 .. b
    BY <1>4
  <2>2. 0 \in DOMAIN values
    OBVIOUS
  <2> QED
    BY <2>1, <2>2
<1>6. \A i \in 0 .. m - 1 : values[i] \in T
  OBVIOUS
<1> HIDE DEF T
<1>7. Max(T) \in T /\ \A y \in T : y <= Max(T)
  BY <1>5, MaxFacts
<1>8. Max(T) \in Nat /\ \A i \in 0 .. m - 1 : values[i] <= Max(T)
  <2>1. Max(T) \in Nat
    <3>1. 0 .. b \in SUBSET Nat
      OBVIOUS
    <3> DEFINE z == Max(T)
    <3>2. z \in T
      BY <1>7
    <3> HIDE DEF z
    <3>3. z \in Nat
      BY <3>1, <3>2, <1>5
    <3> QED
      BY <3>3 DEF z
  <2> QED
    BY ONLY <1>6, <1>7, <2>1
<1> QED
  BY <1>8 DEF T

\* What the levels are: cut[j] has what is left of the values in level j.
Cuts(cut, k, values) ==
    /\ cut \in [0 .. k -> Lists] /\ cut[0] = values
    /\ \A j \in 1 .. k : cut[j] = Higher(cut[j - 1])
    /\ \A i \in DOMAIN cut[k] : ~HasNextDigit(cut[k][i])

LEMMA LevelsFacts ==
    ASSUME NEW m \in Nat \ {0}, NEW values \in [0 .. m - 1 -> Nat]
    PROVE  \E k \in Nat : \E cut : /\ Cuts(cut, k, values)
                                 /\ Levels(values) = [j \in 0 .. k |->
                                        [bytes |-> [i \in DOMAIN cut[j] |-> cut[j][i] % BlockSize],
                                         nexts |-> Flags(cut[j])]]
<1> DEFINE most == Max({values[i] : i \in DOMAIN values})
           Cut == CHOOSE g : CutLoop(most, values, g)
           Last1(j) == \A i \in DOMAIN Cut[j] : ~HasNextDigit(Cut[j][i])
           k == Min({j \in 0 .. most : Last1(j)})
<1>1. most \in Nat /\ \A i \in 0 .. m - 1 : values[i] <= most
  BY LargestFacts
<1>2. Levels(values) = [j \in 0 .. k |->
            [bytes |-> [i \in DOMAIN Cut[j] |-> Cut[j][i] % BlockSize], nexts |-> Flags(Cut[j])]]
  BY DEF Levels, Flags, CutLoop
<1> HIDE DEF most
<1>3. values \in Lists
  BY DEF Lists
<1>4. CutLoop(most, values, Cut)
  BY <1>1, <1>3, CutMade
<1> HIDE DEF Cut
<1>5. Cut[0] = values /\ DOMAIN Cut = 0 .. most /\ \A j \in 1 .. most : Cut[j] = Higher(Cut[j - 1])
  BY <1>1, <1>4 DEF CutLoop
<1>6. ASSUME NEW j \in 0 .. most
      PROVE  Cut[j] \in Lists /\ \A i \in DOMAIN Cut[j] : Cut[j][i] \in Nat /\ Cut[j][i] <= most - j
  <2> DEFINE Small(x) == Cut[x] \in Lists /\ \A i \in DOMAIN Cut[x] : Cut[x][i] \in Nat /\ Cut[x][i] <= most - x
             R == {x \in 0 .. most : Small(x)}
  <2>1. 0 \in R
    <3>1. \A i \in DOMAIN values : values[i] \in Nat /\ values[i] <= most - 0
      BY <1>1
    <3> QED
      BY <1>1, <1>3, <1>5, <3>1
  <2>2. ASSUME NEW x \in 0 .. most - 1, x \in R
        PROVE  x + 1 \in R
    <3>1. Cut[x + 1] = Higher(Cut[x]) /\ x + 1 \in 0 .. most
      <4>1. x + 1 \in 1 .. most /\ (x + 1) - 1 = x
        BY <1>1
      <4>2. Cut[x + 1] = Higher(Cut[(x + 1) - 1])
        BY <1>5, <4>1
      <4> QED
        BY <4>1, <4>2
    <3>2. PICK l \in Nat : Cut[x] \in [0 .. l - 1 -> Nat]
      BY <2>2 DEF Lists
    <3>3. /\ Higher(Cut[x]) \in Lists
          /\ \A r \in DOMAIN Higher(Cut[x]) : \E i \in 0 .. l - 1 :
                HasNextDigit(Cut[x][i]) /\ Higher(Cut[x])[r] = Cut[x][i] \div BlockSize
      BY <3>2, HigherFacts
    <3>4. ASSUME NEW r \in DOMAIN Higher(Cut[x])
          PROVE  Higher(Cut[x])[r] \in Nat /\ Higher(Cut[x])[r] <= most - (x + 1)
      <4>1. PICK i \in 0 .. l - 1 : HasNextDigit(Cut[x][i]) /\ Higher(Cut[x])[r] = Cut[x][i] \div BlockSize
        BY <3>3
      <4> DEFINE y == Cut[x][i]
      <4>2. y \in Nat /\ y <= most - x
        BY <2>2, <3>2
      <4>3. y # 0
        BY <4>1, BlockAssumption DEF HasNextDigit
      <4> HIDE DEF y
      <4>4. y \div BlockSize \in Nat /\ y \div BlockSize < y
        BY <4>2, <4>3, DigitFacts
      <4>5. y \div BlockSize <= most - (x + 1)
        BY ONLY <1>1, <4>2, <4>4, x \in 0 .. most - 1
      <4> QED
        BY <4>1, <4>4, <4>5 DEF y
    <3>5. Small(x + 1)
      BY <3>1, <3>3, <3>4
    <3> HIDE DEF Small
    <3> QED
      BY <3>1, <3>5
  <2>3. \A x \in 0 .. most : x \in R
    <3> HIDE DEF R
    <3> QED
      BY <1>1, <2>1, <2>2, Rounds
  <2> QED
    BY <2>3
<1>7. Last1(most)
  <2> TAKE i \in DOMAIN Cut[most]
  <2>1. Cut[most][i] \in Nat /\ Cut[most][i] <= most - most
    BY <1>1, <1>6
  <2> QED
    BY <1>1, <2>1, BlockAssumption DEF HasNextDigit
<1>8. k \in 0 .. most /\ Last1(k)
  <2> DEFINE S == {j \in 0 .. most : Last1(j)}
  <2> HIDE DEF Last1
  <2>1. S \in SUBSET Nat /\ most \in S
    BY <1>1, <1>7
  <2> HIDE DEF S
  <2>2. Min(S) \in S
    BY <2>1, MinFacts
  <2> QED
    BY <2>2 DEF S
<1> HIDE DEF k
<1> DEFINE cut == [j \in 0 .. k |-> Cut[j]]
<1>9. \A j \in 0 .. k : cut[j] = Cut[j] /\ j \in 0 .. most
  BY <1>1, <1>8
<1>10. cut \in [0 .. k -> Lists]
  BY <1>6, <1>9
<1>11. 0 \in 0 .. k /\ k \in 0 .. k /\ \A j \in 1 .. k : j \in 0 .. k /\ j - 1 \in 0 .. k /\ j \in 1 .. most
  BY <1>1, <1>8
<1>12. Levels(values) = [j \in 0 .. k |->
            [bytes |-> [i \in DOMAIN cut[j] |-> cut[j][i] % BlockSize], nexts |-> Flags(cut[j])]]
  BY <1>2, <1>9
<1> HIDE DEF cut
<1>13. Cuts(cut, k, values)
  BY <1>5, <1>8, <1>9, <1>10, <1>11 DEF Cuts
<1>14. k \in Nat
  BY <1>8
<1> QED
  BY <1>12, <1>13, <1>14

ReadLoop(bv, k, g) ==
    g = [n \in 0 .. k |->
            LET level == bv.levels[k - n]
            IN  [i \in DOMAIN level.bytes |->
                    level.bytes[i] + IF n > 0 /\ level.nexts[i]
                                     THEN BlockSize * g[n - 1][Rank(level.nexts, i)] ELSE 0]]

Read(v, n, h) ==
    [i \in DOMAIN v |-> (v[i] % BlockSize) + IF n > 0 /\ Flags(v)[i] THEN BlockSize * h[Rank(Flags(v), i)] ELSE 0]

\* One round of the reading gives back what the level was cut from.
LEMMA ReadRound ==
    ASSUME NEW v \in Lists, NEW n \in Nat, NEW h,
           n > 0 => h = Higher(v),
           n = 0 => \A i \in DOMAIN v : ~HasNextDigit(v[i])
    PROVE  Read(v, n, h) = v
<1>1. PICK m \in Nat : v \in [0 .. m - 1 -> Nat]
  BY DEF Lists
<1>2. ASSUME NEW i \in 0 .. m - 1
      PROVE  (v[i] % BlockSize) + (IF n > 0 /\ Flags(v)[i] THEN BlockSize * h[Rank(Flags(v), i)] ELSE 0) = v[i]
  <2>1. v[i] \in Nat /\ i \in DOMAIN v
    BY <1>1
  <2>2. Flags(v)[i] = HasNextDigit(v[i])
    BY <2>1 DEF Flags
  <2>3. CASE HasNextDigit(v[i])
    <3>1. n > 0 /\ h = Higher(v)
      BY <2>1, <2>3
    <3>2. h[Rank(Flags(v), i)] = v[i] \div BlockSize
      BY <1>1, <2>3, <3>1, HigherFacts
    <3>3. v[i] = (v[i] % BlockSize) + BlockSize * (v[i] \div BlockSize)
      BY <2>1, DigitFacts
    <3> QED
      BY <2>2, <2>3, <3>1, <3>2, <3>3
  <2>4. CASE ~HasNextDigit(v[i])
    <3>1. v[i] < BlockSize
      BY <2>1, <2>4, BlockAssumption DEF HasNextDigit
    <3>2. v[i] % BlockSize = v[i]
      BY <2>1, <3>1, DigitFacts
    <3> QED
      BY <2>1, <2>2, <2>4, <3>2
  <2> QED
    BY <2>3, <2>4
<1>3. v = [i \in DOMAIN v |-> v[i]] /\ DOMAIN v = 0 .. m - 1
  BY <1>1
<1> QED
  BY <1>2, <1>3 DEF Read

\* Digit by digit, a value is read as it was when the levels were made.
LEMMA AccessFacts ==
    ASSUME NEW m \in Nat \ {0}, NEW values \in [0 .. m - 1 -> Nat],
           NEW bv, bv.levels = Levels(values), NEW i \in 0 .. m - 1
    PROVE  Access(bv, i) = values[i] /\ bv.levels[0].bytes[i] = values[i] % BlockSize
<1>1. PICK k \in Nat : \E cut : /\ Cuts(cut, k, values)
                              /\ Levels(values) = [j \in 0 .. k |->
                                    [bytes |-> [x \in DOMAIN cut[j] |-> cut[j][x] % BlockSize], nexts |-> Flags(cut[j])]]
  BY LevelsFacts
<1>2. PICK cut : /\ Cuts(cut, k, values)
                 /\ Levels(values) = [j \in 0 .. k |->
                        [bytes |-> [x \in DOMAIN cut[j] |-> cut[j][x] % BlockSize], nexts |-> Flags(cut[j])]]
  BY <1>1
<1>3. /\ DOMAIN bv.levels = 0 .. k
      /\ \A j \in 0 .. k : bv.levels[j].bytes = [x \in DOMAIN cut[j] |-> cut[j][x] % BlockSize]
      /\ \A j \in 0 .. k : bv.levels[j].nexts = Flags(cut[j])
  BY <1>2
<1>4. Max(0 .. k) = k
  <2>1. 0 .. k \in SUBSET (0 .. k) /\ 0 .. k # {} /\ k \in 0 .. k
    OBVIOUS
  <2> DEFINE S == 0 .. k
  <2>2. S \in SUBSET (0 .. k) /\ S # {} /\ k \in S /\ \A y \in S : y \in Nat /\ y <= k
    BY <2>1
  <2> HIDE DEF S
  <2>3. Max(S) \in S /\ k <= Max(S)
    BY <2>2, MaxFacts
  <2> DEFINE z == Max(S)
  <2> HIDE DEF z
  <2>4. z \in Nat /\ z <= k /\ k <= z
    BY <2>2, <2>3 DEF z
  <2>5. z = k
    BY <2>4
  <2> QED
    BY <2>5 DEF S, z
<1> DEFINE D == CHOOSE g : ReadLoop(bv, k, g)
           all == [n \in 0 .. k |-> cut[k - n]]
<1>5. Access(bv, i) = D[k][i]
  <2> DEFINE last == Max(DOMAIN bv.levels)
  <2>1. Access(bv, i) = (CHOOSE g : ReadLoop(bv, last, g))[last][i]
    BY DEF Access, ReadLoop
  <2>2. last = k
    BY <1>3, <1>4
  <2> HIDE DEF last
  <2> QED
    BY <2>1, <2>2
<1>6. \A j \in 0 .. k : cut[j] \in Lists
  BY <1>2 DEF Cuts
<1>7. ASSUME NEW n \in 0 .. k, NEW g, n > 0 => g[n - 1] = cut[k - (n - 1)]
      PROVE  (LET level == bv.levels[k - n]
              IN  [x \in DOMAIN level.bytes |->
                    level.bytes[x] + IF n > 0 /\ level.nexts[x]
                                     THEN BlockSize * g[n - 1][Rank(level.nexts, x)] ELSE 0]) = cut[k - n]
  <2> DEFINE v == cut[k - n]
             h == g[n - 1]
             level == bv.levels[k - n]
  <2>1. k - n \in 0 .. k /\ n \in Nat
    OBVIOUS
  <2>2. v \in Lists
    BY <1>6, <2>1
  <2>3. level.bytes = [x \in DOMAIN v |-> v[x] % BlockSize] /\ level.nexts = Flags(v)
    BY <1>3, <2>1
  <2>4. n > 0 => h = Higher(v)
    <3>1. n > 0 => (k - n) + 1 \in 1 .. k /\ ((k - n) + 1) - 1 = k - n /\ k - (n - 1) = (k - n) + 1
      OBVIOUS
    <3>2. \A j \in 1 .. k : cut[j] = Higher(cut[j - 1])
      BY <1>2 DEF Cuts
    <3>3. n > 0 => cut[(k - n) + 1] = Higher(cut[((k - n) + 1) - 1])
      BY ONLY <3>1, <3>2
    <3> QED
      BY <1>7, <3>1, <3>3
  <2>5. n = 0 => \A x \in DOMAIN v : ~HasNextDigit(v[x])
    <3>1. n = 0 => k - n = k
      OBVIOUS
    <3> QED
      BY <1>2, <3>1 DEF Cuts
  <2> HIDE DEF v, h, level
  <2>6. Read(v, n, h) = v
    BY <2>1, <2>2, <2>4, <2>5, ReadRound
  <2>7. DOMAIN level.bytes = DOMAIN v /\ \A x \in DOMAIN v : level.bytes[x] = v[x] % BlockSize
    BY <2>3
  <2>8. [x \in DOMAIN level.bytes |-> level.bytes[x] + IF n > 0 /\ level.nexts[x] THEN BlockSize * h[Rank(level.nexts, x)] ELSE 0] = v
    BY <2>3, <2>6, <2>7 DEF Read
  <2> QED
    BY <2>8 DEF v, h, level
<1>8. ReadLoop(bv, k, all)
  <2>1. ASSUME NEW n \in 0 .. k
        PROVE  all[n] = LET level == bv.levels[k - n]
                        IN  [x \in DOMAIN level.bytes |->
                                level.bytes[x] + IF n > 0 /\ level.nexts[x]
                                                 THEN BlockSize * all[n - 1][Rank(level.nexts, x)] ELSE 0]
    <3>1. n > 0 => all[n - 1] = cut[k - (n - 1)]
      OBVIOUS
    <3>2. all[n] = cut[k - n]
      OBVIOUS
    <3> HIDE DEF all
    <3> QED
      BY <1>7, <3>1, <3>2
  <2>2. all = [n \in 0 .. k |-> all[n]]
    OBVIOUS
  <2> HIDE DEF all
  <2> QED
    BY <2>1, <2>2 DEF ReadLoop
<1>9. ReadLoop(bv, k, D)
  BY <1>8
<1> HIDE DEF D, all
<1>10. \A n \in 0 .. k : D[n] = cut[k - n]
  <2> DEFINE R == {n \in 0 .. k : D[n] = cut[k - n]}
  <2>0. ASSUME NEW n \in 0 .. k, n > 0 => D[n - 1] = cut[k - (n - 1)]
        PROVE  D[n] = cut[k - n]
    <3>1. D[n] = LET level == bv.levels[k - n]
                 IN  [x \in DOMAIN level.bytes |->
                        level.bytes[x] + IF n > 0 /\ level.nexts[x]
                                         THEN BlockSize * D[n - 1][Rank(level.nexts, x)] ELSE 0]
      BY <1>9 DEF ReadLoop
    <3> QED
      BY <1>7, <2>0, <3>1
  <2>1. 0 \in R
    BY <2>0
  <2>2. ASSUME NEW n \in 0 .. k - 1, n \in R
        PROVE  n + 1 \in R
    <3>1. n + 1 \in 0 .. k /\ (n + 1) - 1 = n
      OBVIOUS
    <3>2. D[n + 1] = cut[k - (n + 1)]
      BY <2>0, <2>2, <3>1
    <3> QED
      BY <3>1, <3>2
  <2>3. \A n \in 0 .. k : n \in R
    <3> HIDE DEF R
    <3> QED
      BY <2>1, <2>2, Rounds
  <2> QED
    BY <2>3
<1>11. D[k] = values /\ cut[0] = values /\ DOMAIN values = 0 .. m - 1
  <2>1. k \in 0 .. k /\ k - k = 0
    OBVIOUS
  <2>2. D[k] = cut[0]
    BY <1>10, <2>1
  <2> QED
    BY <1>2, <2>2 DEF Cuts
<1>12. bv.levels[0].bytes[i] = values[i] % BlockSize
  <2>1. 0 \in 0 .. k
    OBVIOUS
  <2>2. bv.levels[0].bytes = [x \in DOMAIN cut[0] |-> cut[0][x] % BlockSize]
    BY <1>3, <2>1
  <2>3. bv.levels[0].bytes = [x \in 0 .. m - 1 |-> values[x] % BlockSize]
    BY <1>11, <2>2
  <2> QED
    BY <2>3
<1> QED
  BY <1>5, <1>11, <1>12

-----------------------------------------------------------------------------
(* The encoded array. *)

LEMMA XorType ==
    ASSUME NEW n \in Nat, NEW a \in Nat, NEW b \in Nat
    PROVE  XorDigits(n, a, b) \in Nat
<1>1. PICK g \in [0 .. n -> [Nat \X Nat -> Nat]] : \A x, y \in Nat : XorDigits(n, x, y) = g[n][<<x, y>>]
  BY XorMade
<1>2. g[n] \in [Nat \X Nat -> Nat] /\ <<a, b>> \in Nat \X Nat
  OBVIOUS
<1> QED
  BY <1>1, <1>2

LEMMA Halving ==
    ASSUME NEW n \in Nat, NEW i \in 0 .. n - 1
    PROVE  /\ 2 * i \in 0 .. 2 * n - 1 /\ (2 * i) \div 2 = i /\ (2 * i) % 2 = 0
           /\ 2 * i + 1 \in 0 .. 2 * n - 1 /\ (2 * i + 1) \div 2 = i /\ (2 * i + 1) % 2 = 1
  OBVIOUS

UnitsOK(units, n) ==
    units.size = n /\ units.base \in [0 .. n - 1 -> Nat] /\ units.check \in [0 .. n - 1 -> 0 .. n - 1]

\* What the encoding of units and lv gives back of unit i.
LEMMA EncodeFacts ==
    ASSUME NEW units, NEW n \in Nat \ {0}, UnitsOK(units, n),
           NEW lv \in SUBSET (0 .. n - 1), NEW bv, bv = Encode(units, lv), NEW i \in 0 .. n - 1
    PROVE  /\ i \notin lv /\ units.base[i] <= n => Base(bv, i) = units.base[i]
           /\ Check(bv, i) = units.check[i]
           /\ LeafAt(bv, i) = (i \in lv)
           /\ i \in lv => Link(bv, i) = units.base[i]
<1> DEFINE values == [v \in 0 .. 2 * n - 1 |-> Value(units, lv, v)]
           nth == Rising(lv)
<1>1. /\ bv.size = n /\ bv.levels = Levels(values)
      /\ bv.links = [r \in DOMAIN nth |-> units.base[nth[r]] \div BlockSize]
      /\ bv.leaves = [x \in 0 .. n - 1 |-> x \in lv]
  BY DEF Encode, UnitsOK
<1>2. ASSUME NEW v \in 0 .. 2 * n - 1
      PROVE  Value(units, lv, v) \in Nat
  <2> DEFINE x == v \div 2
  <2>1. x \in 0 .. n - 1 /\ x \in Nat /\ n \in Nat
    OBVIOUS
  <2> HIDE DEF x
  <2>2. units.base[x] \in Nat /\ units.check[x] \in Nat
    <3>1. units.base[x] \in Nat /\ units.check[x] \in 0 .. n - 1
      BY <2>1 DEF UnitsOK
    <3> QED
      BY <3>1
  <2>3. /\ XorDigits(n, units.base[x], x) \in Nat /\ XorDigits(n, units.check[x], x) \in Nat
        /\ units.base[x] % BlockSize \in Nat
    <3>1. units.base[x] % BlockSize \in Nat
      <4>1. units.base[x] % BlockSize \in Chars
        BY <2>2, DigitFacts
      <4> QED
        BY <4>1 DEF Chars
    <3> QED
      BY <2>1, <2>2, <3>1, XorType
  <2> QED
    BY <2>3 DEF Value, x, UnitsOK
<1>3. values \in [0 .. 2 * n - 1 -> Nat] /\ 2 * n \in Nat \ {0}
  BY <1>2
<1>4. /\ 2 * i \in 0 .. 2 * n - 1 /\ (2 * i) \div 2 = i /\ (2 * i) % 2 = 0
      /\ 2 * i + 1 \in 0 .. 2 * n - 1 /\ (2 * i + 1) \div 2 = i /\ (2 * i + 1) % 2 = 1
      /\ i \in Nat /\ n \in Nat
  <2>1. n \in Nat /\ i \in Nat
    OBVIOUS
  <2> QED
    BY <2>1, Halving
<1>5. /\ values[2 * i] = IF i \in lv THEN units.base[i] % BlockSize ELSE XorDigits(n, units.base[i], i)
      /\ values[2 * i + 1] = XorDigits(n, units.check[i], i)
  <2>1. /\ values[2 * i] = Value(units, lv, 2 * i)
        /\ values[2 * i + 1] = Value(units, lv, 2 * i + 1)
    BY ONLY <1>4 DEF values
  <2>2. Value(units, lv, 2 * i) = IF i \in lv THEN units.base[i] % BlockSize ELSE XorDigits(n, units.base[i], i)
    BY <1>4 DEF Value, UnitsOK
  <2>3. Value(units, lv, 2 * i + 1) = XorDigits(n, units.check[i], i)
    BY <1>4 DEF Value, UnitsOK
  <2> QED
    BY <2>1, <2>2, <2>3
<1> HIDE DEF values
<1>6. /\ Access(bv, 2 * i) = values[2 * i] /\ bv.levels[0].bytes[2 * i] = values[2 * i] % BlockSize
      /\ Access(bv, 2 * i + 1) = values[2 * i + 1]
  <2> DEFINE m == 2 * n
             e == 2 * i
             o == 2 * i + 1
  <2>1. m \in Nat \ {0} /\ e \in 0 .. m - 1 /\ o \in 0 .. m - 1 /\ values \in [0 .. m - 1 -> Nat]
    BY ONLY <1>3, <1>4
  <2> HIDE DEF m, e, o
  <2>2. Access(bv, e) = values[e] /\ bv.levels[0].bytes[e] = values[e] % BlockSize /\ Access(bv, o) = values[o]
    BY <1>1, <2>1, AccessFacts
  <2> QED
    BY <2>2 DEF e, o
<1>7. units.base[i] \in Nat /\ units.check[i] \in 0 .. n
  <2>1. units.base[i] \in Nat /\ units.check[i] \in 0 .. n - 1
    BY DEF UnitsOK
  <2>2. 0 .. n - 1 \subseteq 0 .. n
    OBVIOUS
  <2> QED
    BY <2>1, <2>2
<1>8. ASSUME i \notin lv, units.base[i] <= n
      PROVE  Base(bv, i) = units.base[i]
  <2>1. units.base[i] \in 0 .. n
    BY <1>7, <1>8
  <2>2. Base(bv, i) = XorDigits(n, XorDigits(n, units.base[i], i), i)
    BY <1>1, <1>5, <1>6, <1>8 DEF Base
  <2> QED
    BY <1>4, <2>1, <2>2, XorTwice
<1>9. Check(bv, i) = units.check[i]
  <2>1. Check(bv, i) = XorDigits(n, XorDigits(n, units.check[i], i), i)
    BY <1>1, <1>5, <1>6 DEF Check
  <2> QED
    BY <1>4, <1>7, <2>1, XorTwice
<1>10. LeafAt(bv, i) = (i \in lv)
  BY <1>1 DEF LeafAt
<1>11. ASSUME i \in lv
       PROVE  Link(bv, i) = units.base[i]
  <2> DEFINE b == units.base[i]
  <2>1. lv \in SUBSET Nat /\ IsFiniteSet(lv)
    <3>1. IsFiniteSet(0 .. n - 1)
      <4>1. 0 \in Int /\ n - 1 \in Int
        OBVIOUS
      <4> QED
        BY <4>1, FS_Interval
    <3>2. 0 .. n - 1 \in SUBSET Nat
      OBVIOUS
    <3> QED
      BY <3>1, <3>2, FS_Subset
  <2>2. Cardinality(Lower(lv, i)) \in DOMAIN nth /\ nth[Cardinality(Lower(lv, i))] = i
    BY <1>11, <2>1, RisingFacts
  <2>3. {j \in 0 .. i - 1 : bv.leaves[j]} = Lower(lv, i)
    <3>1. \A j \in 0 .. i - 1 : j \in 0 .. n - 1 /\ bv.leaves[j] = (j \in lv)
      BY <1>1
    <3>2. \A j \in 0 .. n - 1 : j < i <=> j \in 0 .. i - 1
      OBVIOUS
    <3> QED
      BY <3>1, <3>2 DEF Lower
  <2>4. Rank(bv.leaves, i) = Cardinality(Lower(lv, i))
    BY <2>3 DEF Rank
  <2>5. bv.links[Rank(bv.leaves, i)] = b \div BlockSize
    <3> HIDE DEF nth
    <3> QED
      BY <1>1, <2>2, <2>4
  <2>6. bv.levels[0].bytes[2 * i] = b % BlockSize
    <3>1. bv.levels[0].bytes[2 * i] = (b % BlockSize) % BlockSize
      BY <1>5, <1>6, <1>11
    <3>2. b \in Nat
      BY <1>7
    <3> HIDE DEF b
    <3>3. b % BlockSize \in Nat /\ b % BlockSize < BlockSize
      <4>1. b % BlockSize \in Chars
        BY <3>2, DigitFacts
      <4> QED
        BY <4>1, BlockAssumption DEF Chars
    <3> QED
      BY <3>1, <3>3, DigitFacts
  <2>7. b \in Nat /\ b = (b % BlockSize) + BlockSize * (b \div BlockSize)
    BY <1>7, DigitFacts
  <2> HIDE DEF b
  <2>8. Link(bv, i) = b
    BY <2>5, <2>6, <2>7 DEF Link
  <2> QED
    BY <2>8 DEF b
<1> QED
  BY <1>8, <1>9, <1>10, <1>11

-----------------------------------------------------------------------------
(* The builder within the trie, and what its digits are made from. *)

\* BASE of a node with children is the number of a unit.
BasesInv == \A n \in Inner : arr.base[n] < arr.size

\* The block of the children of a node is there, and so is the unit at its BASE.
LEMMA NodeBase ==
    ASSUME BuilderInv, NEW c \in calls, ArrangeNode(c),
           NEW beg, beg = (IF EndsHere(c) THEN c.beg + 1 ELSE c.beg),
           NEW edges, edges = Edges(c, beg),
           NEW base, base = Xcheck(arr, BlockOf(c.npos), edges)
    PROVE  base \in Nat /\ base < arr'.size /\ arr.size <= arr'.size /\ arr'.size \in Nat
<1> DEFINE room  == IF arr.size <= base THEN Expand(arr) ELSE arr
           b     == Tied([room EXCEPT !.base[c.npos] = base], base, edges, c.npos)
           C     == Children(base, edges)
<1>1. c.beg + 1 < c.end /\ arr' = b
  BY DEF ArrangeNode
<1>2. /\ ArrayInv(arr) /\ BlocksWhole(arr) /\ CallOK(c, arr.useds)
      /\ keys \in KeyLists /\ code \in Bijection(Chars, Chars)
  BY DEF BuilderInv, CallsInv
<1>3. c.npos \in arr.useds \ {taboo_npos}
  BY <1>2 DEF CallOK
<1>4. edges \in SUBSET Chars /\ edges # {}
  BY <1>1, <1>2, EdgesFacts
<1>5. ArrayInv(b) /\ arr.size <= b.size /\ base \in Nat /\ b.useds = arr.useds \cup C
  <2>1. ArrayInv(arr) /\ BlocksWhole(arr) /\ code \in Bijection(Chars, Chars)
    BY <1>2
  <2> HIDE DEF ArrayInv, BlocksWhole, Free, Child, Tied, Xcheck, Expand, BlockOf, Chars
  <2> QED
    BY <2>1, <1>4, <1>3, NodeUnits
<1> HIDE DEF room, b
<1>6. PICK ch \in edges : TRUE
  BY <1>4
<1> DEFINE child == Child(base, ch)
<1>7. child \in b.useds
  BY <1>5 DEF Children
<1>8. child \in 0 .. b.size - 1 /\ WellFormed(b) /\ b.size \in Nat
  BY <1>5, <1>7 DEF ArrayInv, WellFormed, Array
<1>9. BlockOf(child) = BlockOf(base)
  BY <1>2, <1>4, <1>5, ChildFacts
<1> HIDE DEF child
<1>10. BlockOf(base) \in 0 .. BlockOf(b.size) - 1
  BY <1>8, <1>9, UnitBlock
<1>11. BlockOf(b.size) \in Nat
  BY <1>8, Division
<1>12. base < b.size
  <2> SUFFICES ASSUME b.size <= base PROVE FALSE
    BY <1>5, <1>8
  <2>1. BlockOf(b.size) <= BlockOf(base)
    BY <1>5, <1>8, BlockOrder
  <2> QED
    BY <2>1, <1>10, <1>11
<1> QED
  BY <1>1, <1>5, <1>8, <1>12

LEMMA BasesStep ==
    ASSUME BuilderInv, WordsInv, BasesInv, BuilderNext
    PROVE  BasesInv'
<1>1. /\ ArrayInv(arr) /\ arr.size \in Nat /\ arr \in Array(arr.size)
      /\ arr.useds \subseteq 0 .. arr.size - 1 /\ Free(arr) \cap arr.useds = {}
      /\ arr.base \in [0 .. arr.size - 1 -> Nat]
  <2>1. ArrayInv(arr)
    BY DEF BuilderInv
  <2> QED
    BY <2>1, ArrFacts DEF Array
<1>2. \A n \in Inner : n \in 0 .. arr.size - 1 /\ n \notin Free(arr) \cup {taboo_npos} /\ n \notin leaves
  BY <1>1 DEF Inner
<1>3. ASSUME NEW c \in calls, ArrangeEnd(c) \/ ArrangeSuffix(c)
      PROVE  BasesInv'
  <2>1. /\ c.npos \in arr.useds \ {taboo_npos} /\ c.npos \notin Inner
        /\ \A d \in calls : d.npos = c.npos => d = c
    BY CallFacts
  <2>2. leaves' = leaves \cup {c.npos} /\ calls' = calls \ {c}
    BY <1>3 DEF ArrangeEnd, ArrangeSuffix
  <2>3. arr' = [arr EXCEPT !.base[c.npos] = 0] \/ arr' = arr
    BY <1>3 DEF ArrangeEnd, ArrangeSuffix
  <2>4. arr'.useds = arr.useds /\ arr'.size = arr.size /\ \A n \in Inner : arr'.base[n] = arr.base[n]
    BY <1>1, <1>2, <2>1, <2>3 DEF Array
  <2>5. Inner' = Inner
    BY <2>1, <2>2, <2>4 DEF Inner
  <2> QED
    BY <2>4, <2>5 DEF BasesInv
<1>4. ASSUME NEW c \in calls, ArrangeNode(c)
      PROVE  BasesInv'
  <2>a. PICK beg : beg = (IF EndsHere(c) THEN c.beg + 1 ELSE c.beg)
    OBVIOUS
  <2>b. PICK edges : edges = Edges(c, beg)
    OBVIOUS
  <2>c. PICK base : base = Xcheck(arr, BlockOf(c.npos), edges)
    OBVIOUS
  <2>d. PICK C : C = Children(base, edges)
    OBVIOUS
  <2>e. PICK more : more = ChildCalls(c, beg, base)
    OBVIOUS
  <2>1. /\ leaves' = leaves /\ calls' = (calls \ {c}) \cup more
        /\ arr'.useds = arr.useds \cup C
        /\ \A i \in (0 .. arr.size - 1) \ (Free(arr) \cup {taboo_npos}) : i # c.npos => arr'.base[i] = arr.base[i]
        /\ arr'.base[c.npos] = base
    BY <1>4, <2>a, <2>b, <2>c, <2>d, <2>e, NodeStep
  <2>2. base \in Nat /\ base < arr'.size /\ arr.size <= arr'.size /\ arr'.size \in Nat
    BY <1>4, <2>a, <2>b, <2>c, NodeBase
  <2>3. \A n \in C : \E d \in more : n = d.npos
    <3>1. ASSUME NEW ch \in edges
          PROVE  \E d \in more : Child(base, ch) = d.npos
      <4> DEFINE With == {i \in beg .. c.end - 1 : Key(i)[c.kpos + 1] = ch}
                 d == [beg |-> Min(With), end |-> Max(With) + 1, kpos |-> c.kpos + 1, npos |-> Child(base, ch)]
      <4>1. d \in more
        BY <2>b, <2>e DEF ChildCalls
      <4>2. d.npos = Child(base, ch)
        OBVIOUS
      <4> QED
        BY <4>1, <4>2
    <3> QED
      BY <2>d, <3>1 DEF Children
  <2>4. ASSUME NEW n \in Inner'
        PROVE  arr'.base[n] < arr'.size
    <3>1. /\ n \in arr.useds \cup C /\ n # taboo_npos /\ n \notin leaves
          /\ \A d \in (calls \ {c}) \cup more : n # d.npos
      BY <2>1 DEF Inner
    <3>2. n \in arr.useds
      BY <2>3, <3>1
    <3>3. CASE n = c.npos
      BY <3>3, <2>1, <2>2
    <3>4. CASE n # c.npos
      <4>1. n \in Inner
        BY <3>1, <3>2, <3>4 DEF Inner
      <4>2. arr'.base[n] = arr.base[n] /\ arr.base[n] < arr.size /\ arr.base[n] \in Nat
        BY <1>1, <1>2, <2>1, <3>4, <4>1 DEF BasesInv
      <4> QED
        BY <4>2, <2>2, <1>1
    <3> QED
      BY <3>3, <3>4
  <2> QED
    BY <2>4 DEF BasesInv
<1>5. ASSUME FinishBlock \/ CompleteSuffixes
      PROVE  BasesInv'
  <2>1. leaves' = leaves /\ calls' = calls
    BY <1>5 DEF FinishBlock, CompleteSuffixes
  <2>2. /\ arr'.useds = arr.useds /\ arr'.size = arr.size
        /\ \A n \in Inner : arr'.base[n] = arr.base[n]
    <3>1. CASE FinishBlock
      <4>1. arr.base[taboo_npos] # taboo_npos /\ arr' = CloseBlock(arr, BlockOf(arr.base[taboo_npos]))
        BY <3>1 DEF FinishBlock
      <4>2. arr.base[taboo_npos] \in Free(arr)
        BY <1>1, <4>1, ArrFacts DEF ArrayInv, LinksOK
      <4>3. BlockOf(arr.base[taboo_npos]) \in 0 .. BlockOf(arr.size) - 1
        BY <1>1, <4>2, ArrFacts, UnitBlock
      <4>4. arr'.size = arr.size /\ arr'.useds = arr.useds /\ Keeps(arr, arr')
        BY <1>1, <4>1, <4>3, CloseAll
      <4> QED
        BY <1>2, <4>4 DEF Keeps
    <3>2. CASE CompleteSuffixes
      <4> DEFINE Stored(i) == \E s \in suffixes : s.npos = i
                 done == CompleteTail(suffixes, bin_mode)
      <4>1. arr' = [arr EXCEPT !.base = [i \in DOMAIN @ |-> IF Stored(i) THEN done.tpos[i] ELSE @[i]]]
        BY <3>2 DEF CompleteSuffixes
      <4>2. \A n \in Inner : ~Stored(n)
        BY <1>2 DEF BuilderInv, SuffixesInv
      <4> HIDE DEF done, Stored
      <4>3. arr'.useds = arr.useds /\ arr'.size = arr.size
            /\ \A n \in 0 .. arr.size - 1 : ~Stored(n) => arr'.base[n] = arr.base[n]
        BY <4>1, <1>1 DEF Array
      <4> QED
        BY <4>2, <4>3, <1>2
    <3> QED
      BY <1>5, <3>1, <3>2
  <2>3. Inner' = Inner
    BY <2>1, <2>2 DEF Inner
  <2> QED
    BY <2>2, <2>3 DEF BasesInv
<1> QED
  BY <1>3, <1>4, <1>5 DEF BuilderNext, Arrange

\* The digits are made from the array and the leaves of the builder.
Encoded == tvec.ready => bcvec = Encode(arr, leaves)

TrieInv == BuilderInv /\ WordsInv /\ AllClosed /\ BasesInv /\ Encoded

LEMMA EncodedStep ==
    ASSUME BuilderInv, Encoded, Next
    PROVE  Encoded'
<1>1. CASE Arrange /\ UNCHANGED bcvec
  <2>1. calls # {} /\ tvec' = tvec
    BY <1>1 DEF Arrange, ArrangeEnd, ArrangeSuffix, ArrangeNode
  <2>2. ~tvec.ready
    BY <2>1 DEF BuilderInv, TailBuilt
  <2> QED
    BY <2>1, <2>2 DEF Encoded
<1>2. CASE FinishBlock
  BY <1>2 DEF FinishBlock, Encoded
<1>3. CASE Complete
  <2>1. bcvec' = Encode(arr', leaves) /\ leaves' = leaves
    BY <1>3 DEF Complete, CompleteSuffixes
  <2> QED
    BY <2>1 DEF Encoded
<1> QED
  BY <1>1, <1>2, <1>3 DEF Next

\* The trie takes the steps of the builder and only adds the digits, so what is proved of
\* the builder holds in it: StaticTypeOK, FreeListSound and NodesKeepTheirUnits too.
THEOREM TrieIsBuilt == Spec => BuilderSpec
<1>1. TrieInit => Init
  BY DEF TrieInit
<1>2. [Next]_vars => [BuilderNext]_builderVars
  <2>1. Next => BuilderNext
    BY DEF Next, BuilderNext, Complete
  <2>2. UNCHANGED vars => UNCHANGED builderVars
    BY DEF vars
  <2> QED
    BY <2>1, <2>2
<1> QED
  BY <1>1, <1>2, PTL DEF Spec, BuilderSpec

\* The invariant of the builder holds in the trie, every node with children has the
\* number of a unit for BASE, and the digits are those of the finished array.
THEOREM TrieInvariant == Spec => []TrieInv
<1>1. TrieInit => TrieInv
  <2> SUFFICES ASSUME TrieInit PROVE TrieInv
    OBVIOUS
  <2>1. Init
    BY DEF TrieInit
  <2>2. BuilderInv /\ WordsInv
    BY <2>1, InitInv, WordsInit
  <2>3. tvec.ready = FALSE
    BY <2>1 DEF Init, NotBuilt
  <2>4. Inner = {}
    <3>1. arr.useds = {0, taboo_npos}
      BY <2>1 DEF Init, FirstArray, UseUnit
    <3>2. \E c \in calls : c.npos = 0
      BY <2>1 DEF Init
    <3> QED
      BY <3>1, <3>2 DEF Inner
  <2> QED
    BY <2>2, <2>3, <2>4 DEF TrieInv, AllClosed, BasesInv, Encoded
<1>2. TrieInv /\ [Next]_vars => TrieInv'
  <2> SUFFICES ASSUME TrieInv, [Next]_vars PROVE TrieInv'
    OBVIOUS
  <2>0. BuilderInv /\ WordsInv /\ AllClosed /\ BasesInv /\ Encoded
    BY DEF TrieInv
  <2>1. CASE UNCHANGED vars
    <3>1. UNCHANGED builderVars /\ UNCHANGED bcvec
      BY <2>1 DEF vars
    <3>2. BuilderInv' /\ WordsInv'
      BY <2>0, <3>1, WordsStutter
    <3>3. AllClosed' /\ BasesInv' /\ Encoded'
      BY <2>0, <3>1 DEF builderVars, AllClosed, BasesInv, Encoded, Inner
    <3> QED
      BY <3>2, <3>3 DEF TrieInv
  <2>2. CASE Next
    <3>1. BuilderNext
      BY <2>2 DEF Next, BuilderNext, Complete
    <3>2. BuilderInv' /\ WordsInv'
      BY <2>0, <3>1, NextInv, LeafWords, NodeWords, FinishWords DEF BuilderNext, Arrange
    <3>3. AllClosed' /\ BasesInv' /\ Encoded'
      BY <2>0, <2>2, <3>1, ClosedStep, BasesStep, EncodedStep
    <3> QED
      BY <3>2, <3>3 DEF TrieInv
  <2> QED
    BY <2>1, <2>2
<1> QED
  BY <1>1, <1>2, PTL DEF Spec
-----------------------------------------------------------------------------
(* What the queries read. *)

Finished == TrieInv /\ tvec.ready

\* A unit of a node.
Nodes == arr.useds \ {taboo_npos}

\* The queries see the builder's array.
LEMMA FinishedFacts ==
    ASSUME Finished
    PROVE  /\ Settled /\ arr.size \in Nat \ {0} /\ Nodes \subseteq Units /\ Units \subseteq Nat
           /\ 0 \in Nodes /\ leaves \subseteq terms /\ terms \subseteq Nodes
           /\ keys \in KeyLists /\ code \in Bijection(Chars, Chars)
           /\ arr.base \in [Units -> Nat] /\ arr.check \in [Units -> Units]
           /\ \A n \in Units : n \notin Nodes => arr.check[n] = n
           /\ Inner = Nodes \ leaves
           /\ \A n \in Inner : arr.base[n] \in Units
           /\ bcvec = Encode(arr, leaves)
<1>1. Settled
  BY DEF Finished, TrieInv, Settled
<1>2. /\ arr.size \in Nat /\ arr.useds \subseteq Units
      /\ arr.base \in [Units -> Nat] /\ arr.check \in [Units -> Units]
      /\ \A n \in Units : n \notin arr.useds \ {taboo_npos} => arr.check[n] = n
      /\ 0 \in arr.useds \ {taboo_npos}
      /\ Inner = arr.useds \ ({taboo_npos} \cup leaves)
  BY <1>1, SettledFacts
<1>3. leaves \subseteq terms /\ terms \subseteq Nodes
  BY <1>1 DEF Settled, BuilderInv, NodesInv, Nodes
<1>4. keys \in KeyLists /\ code \in Bijection(Chars, Chars)
  BY <1>1 DEF Settled, BuilderInv
<1>5. bcvec = Encode(arr, leaves) /\ \A n \in Inner : arr.base[n] < arr.size
  BY DEF Finished, TrieInv, Encoded, BasesInv
<1>6. arr.size # 0
  BY <1>2 DEF Units
<1>7. \A n \in Inner : arr.base[n] \in Units
  BY <1>2, <1>5 DEF Units
<1> QED
  BY <1>1, <1>2, <1>3, <1>4, <1>5, <1>6, <1>7 DEF Nodes, Units

LEMMA ReadFacts ==
    ASSUME Finished, NEW n \in Units
    PROVE  /\ IsLeafNode(n) = (n \in leaves)
           /\ Check(bcvec, n) = arr.check[n]
           /\ n \in Inner => Base(bcvec, n) = arr.base[n]
           /\ n \in leaves => Link(bcvec, n) = arr.base[n]
<1> DEFINE size == arr.size
<1>1. /\ size \in Nat \ {0} /\ Units = 0 .. size - 1 /\ leaves \in SUBSET Units
      /\ arr.base \in [Units -> Nat] /\ arr.check \in [Units -> Units]
      /\ Inner = Nodes \ leaves /\ \A i \in Inner : arr.base[i] \in Units
      /\ bcvec = Encode(arr, leaves)
  BY FinishedFacts DEF Units
<1>2. UnitsOK(arr, size)
  BY <1>1 DEF UnitsOK
<1> HIDE DEF size
<1>3. /\ n \notin leaves /\ arr.base[n] <= size => Base(bcvec, n) = arr.base[n]
      /\ Check(bcvec, n) = arr.check[n]
      /\ LeafAt(bcvec, n) = (n \in leaves)
      /\ n \in leaves => Link(bcvec, n) = arr.base[n]
  <2>1. n \in 0 .. size - 1 /\ leaves \in SUBSET (0 .. size - 1)
    BY <1>1
  <2>2. bcvec = Encode(arr, leaves) /\ size \in Nat \ {0}
    BY <1>1
  <2> QED
    BY ONLY <1>2, <2>1, <2>2, EncodeFacts
<1>4. ASSUME n \in Inner
      PROVE  n \notin leaves /\ arr.base[n] <= size
  <2>1. n \notin leaves /\ arr.base[n] \in 0 .. size - 1
    BY <1>1, <1>4
  <2> QED
    BY <1>1, <2>1
<1> QED
  BY <1>3, <1>4 DEF IsLeafNode

\* The child of a node with children is a unit, and a node if it points back.
LEMMA ChildUnit ==
    ASSUME Finished, NEW n \in Inner, NEW ch \in Chars
    PROVE  /\ Child(arr.base[n], ch) \in Units /\ n \in Nodes /\ n \in Units /\ n \notin leaves
           /\ arr.check[Child(arr.base[n], ch)] = n => Child(arr.base[n], ch) \in Nodes
           /\ ChildOf(n, ch) = Child(arr.base[n], ch)
<1> DEFINE base == arr.base[n]
           child == Child(base, ch)
<1>1. /\ n \in Nodes /\ n \in Units /\ n \notin leaves /\ base \in Units /\ Units \subseteq Nat
      /\ code \in Bijection(Chars, Chars) /\ Nodes \subseteq Units
      /\ \A i \in Units : i \notin Nodes => arr.check[i] = i
  BY FinishedFacts
<1>2. WellFormed(arr) /\ arr.size \in Nat
  BY FinishedFacts DEF Settled, BuilderInv, ArrayInv, WellFormed
<1> HIDE DEF base
<1>3. child \in Nat /\ BlockOf(child) = BlockOf(base)
  BY <1>1, ChildFacts
<1> HIDE DEF child
<1>4. BlockOf(base) \in 0 .. BlockOf(arr.size) - 1
  <2>1. base \in 0 .. arr.size - 1
    BY <1>1 DEF Units
  <2> QED
    BY ONLY <1>2, <2>1, UnitBlock
<1>5. BlockOf(arr.size) \in Nat
  BY <1>2, Division
<1>6. child \in Units
  <2> SUFFICES ASSUME arr.size <= child PROVE FALSE
    BY <1>2, <1>3 DEF Units
  <2>1. BlockOf(arr.size) <= BlockOf(child)
    BY <1>2, <1>3, BlockOrder
  <2> QED
    BY <2>1, <1>3, <1>4, <1>5
<1>7. arr.check[child] = n => child \in Nodes
  BY <1>1, <1>6
<1>8. ChildOf(n, ch) = child
  <2>1. Base(bcvec, n) = base
    BY <1>1, ReadFacts DEF base
  <2> QED
    BY <2>1 DEF ChildOf, child
<1> QED
  BY <1>1, <1>6, <1>7, <1>8 DEF child, base

Standing == [npos : Nodes, kpos : Nat, lost : BOOLEAN]
Start == [npos |-> 0, kpos |-> 0, lost |-> FALSE]

\* A step of the lookup.
LEMMA DescendFacts ==
    ASSUME Finished, NEW at \in Standing, NEW ch \in Chars
    PROVE  LET child == Child(arr.base[at.npos], ch)
           IN  /\ Descend(at, ch) \in Standing
               /\ Descend(at, ch) = IF at.lost \/ at.npos \in leaves THEN at
                                    ELSE IF arr.check[child] = at.npos
                                         THEN [npos |-> child, kpos |-> at.kpos + 1, lost |-> FALSE]
                                         ELSE [npos |-> at.npos, kpos |-> at.kpos, lost |-> TRUE]
<1> DEFINE child == Child(arr.base[at.npos], ch)
<1>1. at.npos \in Units /\ at.npos \in Nodes /\ at.kpos \in Nat /\ at.lost \in BOOLEAN /\ IsLeafNode(at.npos) = (at.npos \in leaves)
      /\ at = [npos |-> at.npos, kpos |-> at.kpos, lost |-> at.lost]
  BY FinishedFacts, ReadFacts DEF Standing
<1>2. CASE at.lost \/ at.npos \in leaves
  BY <1>1, <1>2 DEF Descend
<1>3. CASE ~(at.lost \/ at.npos \in leaves)
  <2>1. at.npos \in Inner
    BY <1>1, <1>3, FinishedFacts
  <2>2. /\ child \in Units /\ ChildOf(at.npos, ch) = child
        /\ arr.check[child] = at.npos => child \in Nodes
    BY <2>1, ChildUnit
  <2>3. IsChild(child, at.npos) = (arr.check[child] = at.npos)
    BY <2>2, ReadFacts DEF IsChild
  <2>6. Descend(at, ch) = IF arr.check[child] = at.npos
                          THEN [npos |-> child, kpos |-> at.kpos + 1, lost |-> FALSE]
                          ELSE [npos |-> at.npos, kpos |-> at.kpos, lost |-> TRUE]
    BY <1>1, <1>3, <2>2, <2>3 DEF Descend
  <2> HIDE DEF child
  <2>7. Descend(at, ch) \in Standing
    BY <1>1, <2>2, <2>6 DEF Standing
  <2> QED
    BY <1>3, <2>6, <2>7 DEF child
<1> QED
  BY <1>2, <1>3

-----------------------------------------------------------------------------
(* Where a lookup goes. *)

\* The first k characters of word lead to n.
LeadsTo(word, k, n) == \E p \in [0 .. k -> Units] : Along(word, k, p) /\ p[k] = n

LEMMA LeadsStart ==
    ASSUME Finished, NEW word
    PROVE  LeadsTo(word, 0, 0)
<1> DEFINE p == [j \in 0 .. 0 |-> 0]
<1>1. 0 \in Units
  BY FinishedFacts
<1>2. p \in [0 .. 0 -> Units] /\ p[0] = 0
  BY <1>1
<1> HIDE DEF p
<1>3. Along(word, 0, p)
  BY <1>2 DEF Along
<1> QED
  BY <1>2, <1>3 DEF LeadsTo

LEMMA LeadsOn ==
    ASSUME Finished, NEW word, NEW k \in Nat, NEW n \in Inner, LeadsTo(word, k, n),
           NEW child \in Units, child = Child(arr.base[n], word[k + 1]), arr.check[child] = n
    PROVE  LeadsTo(word, k + 1, child)
<1>1. PICK p \in [0 .. k -> Units] : Along(word, k, p) /\ p[k] = n
  BY DEF LeadsTo
<1>2. n \notin leaves
  BY FinishedFacts
<1> DEFINE q == [j \in 0 .. k + 1 |-> IF j = k + 1 THEN child ELSE p[j]]
<1>3. q \in [0 .. k + 1 -> Units] /\ q[k + 1] = child /\ \A j \in 0 .. k : q[j] = p[j]
  OBVIOUS
<1> HIDE DEF q
<1>4. ASSUME NEW j \in 1 .. k + 1
      PROVE  /\ q[j - 1] \notin leaves
             /\ q[j] = Child(arr.base[q[j - 1]], word[j])
             /\ arr.check[q[j]] = q[j - 1]
  <2>1. CASE j = k + 1
    <3>1. k \in 0 .. k /\ j - 1 = k
      BY <2>1
    <3>2. q[j - 1] = n /\ q[j] = child
      BY <2>1, <3>1, <1>1, <1>3
    <3> QED
      BY <2>1, <3>2, <1>2
  <2>2. CASE j # k + 1
    <3>1. j \in 1 .. k /\ j - 1 \in 0 .. k /\ j \in 0 .. k
      BY <2>2
    <3>2. q[j - 1] = p[j - 1] /\ q[j] = p[j]
      BY <3>1, <1>3
    <3> QED
      BY <3>1, <3>2, <1>1 DEF Along
  <2> QED
    BY <2>1, <2>2
<1>5. q[0] = 0
  BY <1>1, <1>3 DEF Along
<1>6. Along(word, k + 1, q)
  BY <1>3, <1>4, <1>5 DEF Along
<1> QED
  BY <1>3, <1>6 DEF LeadsTo

\* The last step of a path.
LEMMA LeadsBack ==
    ASSUME Finished, NEW word, NEW k \in Nat, NEW n, LeadsTo(word, k + 1, n)
    PROVE  /\ n \in Nodes /\ arr.check[n] \in Inner /\ LeadsTo(word, k, arr.check[n])
           /\ n = Child(arr.base[arr.check[n]], word[k + 1])
<1>1. PICK p \in [0 .. k + 1 -> Units] : Along(word, k + 1, p) /\ p[k + 1] = n
  BY DEF LeadsTo
<1> DEFINE m == p[k]
           q == [j \in 0 .. k |-> p[j]]
<1>2. k + 1 \in 1 .. k + 1 /\ (k + 1) - 1 = k /\ k \in 0 .. k + 1 /\ k + 1 \in 0 .. k + 1 /\ k + 1 \in Nat
  OBVIOUS
<1>3. n \in Nodes /\ m \in Nodes
  BY <1>1, <1>2, AlongUsed, FinishedFacts DEF Nodes
<1>4. m \notin leaves /\ n = Child(arr.base[m], word[k + 1]) /\ arr.check[n] = m
  BY <1>1, <1>2 DEF Along
<1>5. m \in Inner
  BY <1>3, <1>4, FinishedFacts
<1>6. q \in [0 .. k -> Units] /\ q[0] = 0 /\ q[k] = m
  BY <1>1 DEF Along
<1>7. Along(word, k, q)
  <2>1. ASSUME NEW j \in 1 .. k
        PROVE  /\ q[j - 1] \notin leaves
               /\ q[j] = Child(arr.base[q[j - 1]], word[j])
               /\ arr.check[q[j]] = q[j - 1]
    <3>1. q[j - 1] = p[j - 1] /\ q[j] = p[j] /\ j \in 1 .. k + 1
      OBVIOUS
    <3> HIDE DEF q
    <3> QED
      BY <3>1, <1>1 DEF Along
  <2> HIDE DEF q
  <2> QED
    BY <1>6, <2>1 DEF Along
<1>8. LeadsTo(word, k, m)
  <2> HIDE DEF q
  <2> QED
    BY <1>6, <1>7 DEF LeadsTo
<1> QED
  BY <1>3, <1>4, <1>5, <1>8

LEMMA LeadsZero ==
    ASSUME NEW word, NEW n, LeadsTo(word, 0, n)
    PROVE  n = 0
BY DEF LeadsTo, Along

\* A word leads to one node at each length.
LEMMA LeadsUnique ==
    ASSUME Finished, NEW word, NEW k \in Nat, NEW n, NEW m, LeadsTo(word, k, n), LeadsTo(word, k, m)
    PROVE  n = m
<1> DEFINE S == {j \in 0 .. k : \A x, y \in Nodes : LeadsTo(word, j, x) /\ LeadsTo(word, j, y) => x = y}
<1>1. 0 \in S
  BY LeadsZero
<1>2. ASSUME NEW j \in 0 .. k - 1, j \in S
      PROVE  j + 1 \in S
  <2>1. ASSUME NEW x \in Nodes, NEW y \in Nodes, LeadsTo(word, j + 1, x), LeadsTo(word, j + 1, y)
        PROVE  x = y
    <3>1. /\ arr.check[x] \in Inner /\ LeadsTo(word, j, arr.check[x]) /\ x = Child(arr.base[arr.check[x]], word[j + 1])
          /\ arr.check[y] \in Inner /\ LeadsTo(word, j, arr.check[y]) /\ y = Child(arr.base[arr.check[y]], word[j + 1])
      <4>1. j \in Nat
        OBVIOUS
      <4> QED
        BY <4>1, <2>1, LeadsBack
    <3>2. arr.check[x] \in Nodes /\ arr.check[y] \in Nodes
      BY <3>1, FinishedFacts
    <3>3. arr.check[x] = arr.check[y]
      BY <1>2, <3>1, <3>2
    <3> QED
      BY <3>1, <3>3
  <2>2. j + 1 \in 0 .. k
    OBVIOUS
  <2> QED
    BY <2>1, <2>2
<1>3. \A j \in 0 .. k : j \in S
  <2>1. \A j \in 0 .. k - 1 : j \in S => j + 1 \in S
    BY <1>2
  <2> HIDE DEF S
  <2> QED
    BY ONLY k \in Nat, <1>1, <2>1, Rounds
<1>4. k \in S
  <2>1. k \in 0 .. k
    OBVIOUS
  <2> HIDE DEF S
  <2> QED
    BY <1>3, <2>1
<1>5. n \in Nodes /\ m \in Nodes
  <2>1. CASE k = 0
    BY <2>1, LeadsZero, FinishedFacts
  <2>2. CASE k # 0
    <3>1. k - 1 \in Nat /\ (k - 1) + 1 = k
      BY <2>2
    <3>2. LeadsTo(word, (k - 1) + 1, n) /\ LeadsTo(word, (k - 1) + 1, m)
      BY <3>1
    <3> QED
      BY <3>1, <3>2, LeadsBack
  <2> QED
    BY <2>1, <2>2
<1> QED
  BY <1>4, <1>5

\* Words that begin alike lead alike.
LEMMA LeadsAlike ==
    ASSUME NEW word, NEW other, NEW k \in Nat, \A j \in 1 .. k : word[j] = other[j],
           NEW n, LeadsTo(word, k, n)
    PROVE  LeadsTo(other, k, n)
<1>1. PICK p \in [0 .. k -> Units] : Along(word, k, p) /\ p[k] = n
  BY DEF LeadsTo
<1>2. Along(other, k, p)
  BY <1>1 DEF Along
<1> QED
  BY <1>1, <1>2 DEF LeadsTo

\* A path goes through the nodes before its end.
LEMMA LeadsThrough ==
    ASSUME Finished, NEW word, NEW k \in Nat, NEW n, LeadsTo(word, k, n), NEW j \in 0 .. k
    PROVE  \E m \in Nodes : LeadsTo(word, j, m) /\ (j < k => m \in Inner)
<1> DEFINE S == {d \in 0 .. k : \E m \in Nodes : LeadsTo(word, k - d, m) /\ (d > 0 => m \in Inner)}
<1>1. 0 \in S
  <2>1. n \in Nodes
    <3>1. CASE k = 0
      BY <3>1, LeadsZero, FinishedFacts
    <3>2. CASE k # 0
      <4>1. k - 1 \in Nat /\ (k - 1) + 1 = k
        BY <3>2
      <4>2. LeadsTo(word, (k - 1) + 1, n)
        BY <4>1
      <4> QED
        BY <4>1, <4>2, LeadsBack
    <3> QED
      BY <3>1, <3>2
  <2>2. k - 0 = k
    OBVIOUS
  <2> QED
    BY <2>1, <2>2
<1>2. ASSUME NEW d \in 0 .. k - 1, d \in S
      PROVE  d + 1 \in S
  <2>1. PICK m \in Nodes : LeadsTo(word, k - d, m)
    BY <1>2
  <2>2. k - (d + 1) \in Nat /\ (k - (d + 1)) + 1 = k - d /\ d + 1 \in 0 .. k
    OBVIOUS
  <2>3. LeadsTo(word, (k - (d + 1)) + 1, m)
    BY <2>1, <2>2
  <2>4. arr.check[m] \in Inner /\ LeadsTo(word, k - (d + 1), arr.check[m])
    BY <2>2, <2>3, LeadsBack
  <2>5. arr.check[m] \in Nodes
    BY <2>4, FinishedFacts
  <2> QED
    BY <2>2, <2>4, <2>5
<1>3. \A d \in 0 .. k : d \in S
  <2>1. \A d \in 0 .. k - 1 : d \in S => d + 1 \in S
    BY <1>2
  <2> HIDE DEF S
  <2> QED
    BY ONLY k \in Nat, <1>1, <2>1, Rounds
<1>4. k - j \in S
  <2>1. k - j \in 0 .. k
    OBVIOUS
  <2> HIDE DEF S
  <2> QED
    BY <1>3, <2>1
<1>5. k - (k - j) = j /\ (j < k => k - j > 0)
  OBVIOUS
<1> QED
  BY <1>4, <1>5

LEMMA ReachedMade ==
    ASSUME Finished, NEW word \in Seq(Chars)
    PROVE  \E g \in [0 .. Len(word) -> Standing] :
               /\ g[0] = Start /\ Reached(word) = g[Len(word)]
               /\ \A n \in 1 .. Len(word) : g[n] = Descend(g[n - 1], word[n])
<1> DEFINE k == Len(word)
           Loop(g) == g = [n \in 0 .. k |-> IF n = 0 THEN Start ELSE Descend(g[n - 1], word[n])]
           D == CHOOSE g : Loop(g)
           F == [n \in 1 .. k |-> [at \in Standing |-> Descend(at, word[n])]]
<1>1. k \in Nat /\ \A n \in 1 .. k : word[n] \in Chars
  <2> HIDE DEF Chars
  <2> QED
    OBVIOUS
<1>2. Start \in Standing
  <2>1. 0 \in Nodes
    BY FinishedFacts
  <2> QED
    BY <2>1 DEF Start, Standing
<1>3. Reached(word) = D[k]
  BY DEF Reached, Start
<1> HIDE DEF k
<1>4. F \in [1 .. k -> [Standing -> Standing]]
  BY <1>1, DescendFacts
<1>5. PICK g \in [0 .. k -> Standing] : Stepped(k, Start, F, g)
  <2> HIDE DEF F
  <2> QED
    BY <1>1, <1>2, <1>4, StepsMade
<1>6. ASSUME NEW n \in 0 .. k
      PROVE  g[n] = IF n = 0 THEN Start ELSE Descend(g[n - 1], word[n])
  <2>1. g[n] = IF n = 0 THEN Start ELSE F[n][g[n - 1]]
    <3> HIDE DEF F
    <3> QED
      BY <1>5 DEF Stepped
  <2>2. n # 0 => g[n - 1] \in Standing /\ n \in 1 .. k
    BY <1>1
  <2> QED
    BY <2>1, <2>2
<1>7. Loop(g)
  <2>1. g = [n \in 0 .. k |-> g[n]]
    OBVIOUS
  <2> QED
    BY <1>6, <2>1
<1>8. Loop(D)
  <2> HIDE DEF Loop
  <2> QED
    BY <1>7
<1> HIDE DEF D, F
<1>9. ASSUME NEW n \in 0 .. k
      PROVE  D[n] = IF n = 0 THEN Start ELSE Descend(D[n - 1], word[n])
  BY <1>8
<1> DEFINE S == {n \in 0 .. k : D[n] = g[n]}
<1>10. 0 \in S
  BY <1>1, <1>6, <1>9
<1>11. \A n \in 0 .. k - 1 : n \in S => n + 1 \in S
  <2> SUFFICES ASSUME NEW n \in 0 .. k - 1, n \in S
               PROVE  n + 1 \in S
    OBVIOUS
  <2>1. n + 1 \in 0 .. k /\ n + 1 # 0 /\ (n + 1) - 1 = n
    BY <1>1
  <2> HIDE DEF Loop
  <2>2. D[n + 1] = Descend(D[n], word[n + 1])
    BY <1>9, <2>1
  <2>3. g[n + 1] = Descend(g[n], word[n + 1])
    BY <1>6, <2>1
  <2> QED
    BY <2>1, <2>2, <2>3
<1>12. k \in S
  <2>1. k \in 0 .. k
    BY <1>1
  <2> HIDE DEF S
  <2> QED
    BY ONLY <1>1, <2>1, <1>10, <1>11, Rounds
<1>13. \A n \in 1 .. k : g[n] = Descend(g[n - 1], word[n])
  BY <1>6
<1>14. g[0] = Start
  BY <1>1, <1>6
<1> HIDE DEF Loop
<1> QED
  BY <1>3, <1>12, <1>13, <1>14 DEF k

\* The lookup stops at a leaf, at the end of the word, or where no child follows.
LEMMA ReachedFacts ==
    ASSUME Finished, NEW word \in Seq(Chars), NEW at, at = Reached(word)
    PROVE  /\ at \in Standing /\ at.kpos \in 0 .. Len(word) /\ LeadsTo(word, at.kpos, at.npos)
           /\ ~at.lost => at.npos \in leaves \/ at.kpos = Len(word)
           /\ at.lost => /\ at.npos \in Inner /\ at.kpos < Len(word)
                         /\ arr.check[Child(arr.base[at.npos], word[at.kpos + 1])] # at.npos
<1> DEFINE k == Len(word)
<1>1. k \in Nat /\ \A n \in 1 .. k : word[n] \in Chars
  <2> HIDE DEF Chars
  <2> QED
    OBVIOUS
<1> HIDE DEF k
<1>2. PICK g \in [0 .. k -> Standing] : /\ g[0] = Start /\ at = g[k]
                                  /\ \A n \in 1 .. k : g[n] = Descend(g[n - 1], word[n])
  BY ReachedMade DEF k
<1> DEFINE Ok(n, x) ==
              /\ x.kpos \in 0 .. n /\ LeadsTo(word, x.kpos, x.npos)
              /\ ~x.lost => x.npos \in leaves \/ x.kpos = n
              /\ x.lost => /\ x.npos \in Inner /\ x.kpos < n
                           /\ arr.check[Child(arr.base[x.npos], word[x.kpos + 1])] # x.npos
           S == {n \in 0 .. k : Ok(n, g[n])}
<1>3. 0 \in S
  BY <1>1, <1>2, LeadsStart DEF Start
<1>4. ASSUME NEW n \in 0 .. k - 1, n \in S
      PROVE  n + 1 \in S
  <2> DEFINE x == g[n]
             ch == word[n + 1]
             child == Child(arr.base[x.npos], ch)
  <2>1. n + 1 \in 1 .. k /\ n + 1 \in 0 .. k /\ (n + 1) - 1 = n /\ n \in Nat /\ n \in 0 .. k
    BY <1>1
  <2>2. x \in Standing /\ ch \in Chars /\ g[n + 1] = Descend(x, ch)
    BY <1>1, <1>2, <2>1
  <2>3. Ok(n, x)
    BY <1>4
  <2> HIDE DEF x, ch
  <2>4. Descend(x, ch) = IF x.lost \/ x.npos \in leaves THEN x
                         ELSE IF arr.check[child] = x.npos
                              THEN [npos |-> child, kpos |-> x.kpos + 1, lost |-> FALSE]
                              ELSE [npos |-> x.npos, kpos |-> x.kpos, lost |-> TRUE]
    BY <2>2, DescendFacts
  <2>5. CASE x.lost \/ x.npos \in leaves
    <3>1. g[n + 1] = x
      BY <2>2, <2>4, <2>5
    <3>2. Ok(n + 1, x)
      BY <2>1, <2>3, <2>5
    <3> QED
      BY <2>1, <3>1, <3>2
  <2>6. CASE ~(x.lost \/ x.npos \in leaves)
    <3>1. x.npos \in Inner /\ x.kpos = n
      BY <2>2, <2>3, <2>6, FinishedFacts DEF Standing
    <3>2. child \in Units
      BY <2>2, <3>1, ChildUnit
    <3>3. child = Child(arr.base[x.npos], word[n + 1])
      BY DEF ch
    <3> HIDE DEF child
    <3>4. CASE arr.check[child] = x.npos
      <4>1. g[n + 1] = [npos |-> child, kpos |-> n + 1, lost |-> FALSE]
        BY <2>2, <2>4, <2>6, <3>1, <3>4
      <4>2. LeadsTo(word, n + 1, child)
        BY <2>1, <2>3, <3>1, <3>2, <3>3, <3>4, LeadsOn
      <4>3. Ok(n + 1, g[n + 1])
        BY <2>1, <4>1, <4>2
      <4> QED
        BY <2>1, <4>3
    <3>5. CASE arr.check[child] # x.npos
      <4>1. g[n + 1] = [npos |-> x.npos, kpos |-> n, lost |-> TRUE]
        BY <2>2, <2>4, <2>6, <3>1, <3>5
      <4>2. Ok(n + 1, g[n + 1])
        BY <2>1, <2>3, <3>1, <3>3, <3>5, <4>1
      <4> QED
        BY <2>1, <4>2
    <3> QED
      BY <3>4, <3>5
  <2> QED
    BY <2>5, <2>6
<1>5. k \in S
  <2>1. k \in 0 .. k /\ \A n \in 0 .. k - 1 : n \in S => n + 1 \in S
    BY <1>1, <1>4
  <2> HIDE DEF S
  <2> QED
    BY ONLY <1>1, <2>1, <1>3, Rounds
<1>6. at \in Standing /\ Ok(k, at)
  <2>1. k \in 0 .. k
    BY <1>1
  <2> HIDE DEF Ok
  <2> QED
    BY <1>2, <1>5, <2>1
<1> QED
  BY <1>6 DEF k

\* A path to a leaf or along the whole word is the one the lookup takes.
LEMMA ReachedIs ==
    ASSUME Finished, NEW word \in Seq(Chars), NEW k \in 0 .. Len(word), NEW n, LeadsTo(word, k, n),
           n \in leaves \/ k = Len(word), NEW at, at = Reached(word)
    PROVE  ~at.lost /\ at.kpos = k /\ at.npos = n
<1>0. Len(word) \in Nat /\ k \in Nat
  OBVIOUS
<1>1. /\ at \in Standing /\ at.kpos \in 0 .. Len(word) /\ LeadsTo(word, at.kpos, at.npos)
      /\ ~at.lost => at.npos \in leaves \/ at.kpos = Len(word)
      /\ at.lost => /\ at.npos \in Inner /\ at.kpos < Len(word)
                    /\ arr.check[Child(arr.base[at.npos], word[at.kpos + 1])] # at.npos
  BY ReachedFacts
<1> DEFINE a == at.kpos
<1>2. a \in Nat /\ a <= Len(word)
  BY <1>0, <1>1
<1>3. \A x \in Inner : x \notin leaves
  BY FinishedFacts
<1>4. CASE a < k
  <2>1. a \in 0 .. k /\ a + 1 \in 0 .. k
    BY <1>0, <1>2, <1>4
  <2>2. PICK m \in Nodes : LeadsTo(word, a, m) /\ m \in Inner
    BY <1>0, <1>4, <2>1, LeadsThrough
  <2>3. m = at.npos
    BY <1>1, <1>2, <2>2, LeadsUnique
  <2>4. a # Len(word)
    BY <1>0, <1>2, <1>4
  <2>5. at.lost
    BY <1>1, <1>3, <2>2, <2>3, <2>4
  <2>6. PICK c \in Nodes : LeadsTo(word, a + 1, c)
    BY <1>0, <2>1, LeadsThrough
  <2>7. c = Child(arr.base[arr.check[c]], word[a + 1]) /\ LeadsTo(word, a, arr.check[c])
    BY <1>2, <2>6, LeadsBack
  <2>8. arr.check[c] = at.npos
    BY <1>1, <1>2, <2>7, LeadsUnique
  <2> QED
    BY <1>1, <2>5, <2>7, <2>8
<1>5. CASE k < a
  <2>1. PICK m \in Nodes : LeadsTo(word, k, m) /\ m \in Inner
    BY <1>0, <1>1, <1>2, <1>5, LeadsThrough
  <2>2. m = n
    BY <1>0, <2>1, LeadsUnique
  <2> QED
    BY <1>0, <1>2, <1>3, <1>5, <2>1, <2>2
<1>6. CASE a = k
  <2>1. at.npos = n
    BY <1>0, <1>1, <1>6, LeadsUnique
  <2> QED
    BY <1>0, <1>1, <1>3, <1>6, <2>1
<1> QED
  BY <1>0, <1>2, <1>4, <1>5, <1>6

-----------------------------------------------------------------------------
(* What a lookup answers. *)

\* lookup() answers the id of the node that accepts the word, if any.
LEMMA LookupFacts ==
    ASSUME Finished, NEW word \in Seq(Chars)
    PROVE  /\ \A n : AcceptsAt(word, n) => Lookup(word) = npos_to_id(n)
           /\ Lookup(word) = NotFound \/ \E n \in Units : AcceptsAt(word, n)
<1> DEFINE at == Reached(word)
           End(n, k) == IF n \in leaves THEN Match(tvec, SubSeq(word, k + 1, Len(word)), arr.base[n])
                        ELSE k = Len(word) /\ n \in terms
           found == /\ ~at.lost
                    /\ IF IsLeafNode(at.npos) THEN Match(tvec, Rest(word, at), Link(bcvec, at.npos))
                       ELSE at.npos \in terms
<1>0. Len(word) \in Nat
  OBVIOUS
<1>1. Lookup(word) = IF found THEN npos_to_id(at.npos) ELSE NotFound
  BY DEF Lookup
<1>2. /\ at \in Standing /\ at.kpos \in 0 .. Len(word) /\ LeadsTo(word, at.kpos, at.npos)
      /\ ~at.lost => at.npos \in leaves \/ at.kpos = Len(word)
      /\ at.lost => at.npos \in Inner
  BY ReachedFacts
<1>3. at.npos \in Units /\ at.npos \in Nodes /\ Inner = Nodes \ leaves
  BY <1>2, FinishedFacts DEF Standing
<1>4. /\ IsLeafNode(at.npos) = (at.npos \in leaves)
      /\ at.npos \in leaves => Link(bcvec, at.npos) = arr.base[at.npos]
  BY <1>3, ReadFacts
<1>5. \A n, k : (\E p \in [0 .. k -> Units] : Along(word, k, p) /\ p[k] = n /\ End(n, k)) <=> LeadsTo(word, k, n) /\ End(n, k)
  BY DEF LeadsTo
<1>6. \A n : AcceptsAt(word, n) <=> \E k \in 0 .. Len(word) : LeadsTo(word, k, n) /\ End(n, k)
  BY <1>5 DEF AcceptsAt
<1>7. found <=> ~at.lost /\ End(at.npos, at.kpos)
  BY <1>2, <1>3, <1>4 DEF Rest
<1> HIDE DEF at, found
<1>8. ASSUME NEW n, AcceptsAt(word, n)
      PROVE  Lookup(word) = npos_to_id(n)
  <2>1. PICK k \in 0 .. Len(word) : LeadsTo(word, k, n) /\ End(n, k)
    BY <1>6, <1>8
  <2>2. n \in leaves \/ k = Len(word)
    BY <2>1
  <2>3. ~at.lost /\ at.kpos = k /\ at.npos = n
    BY <2>1, <2>2, ReachedIs DEF at
  <2> HIDE DEF End
  <2> QED
    BY <1>1, <1>7, <2>1, <2>3
<1>9. ASSUME Lookup(word) # NotFound
      PROVE  \E n \in Units : AcceptsAt(word, n)
  <2>1. End(at.npos, at.kpos)
    BY <1>1, <1>7, <1>9
  <2> HIDE DEF End
  <2> QED
    BY <1>2, <1>3, <1>6, <2>1
<1> QED
  BY <1>8, <1>9

LEMMA KeySetIs ==
    ASSUME Finished
    PROVE  /\ \A i \in KeyAt : Key(i) \in KeySet
           /\ \A k \in KeySet : \E i \in KeyAt : k = Key(i)
           /\ KeySet \subseteq Seq(Chars)
<1>1. keys \in Seq(Seq(Chars) \ {<<>>})
  BY FinishedFacts, KeyAssumption
<1>2. Len(keys) \in Nat /\ DOMAIN keys = 1 .. Len(keys) /\ \A j \in 1 .. Len(keys) : keys[j] \in Seq(Chars)
  <2> DEFINE T == Seq(Chars) \ {<<>>}
  <2>1. keys \in Seq(T)
    BY <1>1
  <2>2. \A x \in T : x \in Seq(Chars)
    OBVIOUS
  <2> HIDE DEF T
  <2> QED
    BY <2>1, <2>2
<1>3. KeySet = {keys[j] : j \in 1 .. Len(keys)}
  BY <1>2 DEF KeySet, ToSet
<1>4. \A i \in KeyAt : i + 1 \in 1 .. Len(keys)
  BY <1>2 DEF KeyAt
<1>5. \A j \in 1 .. Len(keys) : j - 1 \in KeyAt /\ (j - 1) + 1 = j
  BY <1>2 DEF KeyAt
<1>6. ASSUME NEW k \in KeySet
      PROVE  \E i \in KeyAt : k = Key(i)
  <2>1. PICK j \in 1 .. Len(keys) : k = keys[j]
    BY <1>3
  <2>2. k = Key(j - 1)
    BY <1>5, <2>1 DEF Key
  <2> QED
    BY <1>5, <2>2
<1> QED
  BY <1>2, <1>3, <1>4, <1>6 DEF Key

LEMMA FinishedOthers ==
    ASSUME Finished, NEW w \in Seq(Chars), w \notin KeySet
    PROVE  Lookup(w) = NotFound \/ (bin_mode /\ \E k \in KeySet : IsStrictPrefix(k \o <<NUL>>, w))
<1> SUFFICES ASSUME Lookup(w) # NotFound
             PROVE  bin_mode /\ \E k \in KeySet : IsStrictPrefix(k \o <<NUL>>, w)
  OBVIOUS
<1>1. PICK n \in Units : AcceptsAt(w, n)
  BY LookupFacts
<1>2. tvec.ready /\ OthersAreRefused
  BY FinishedFacts, SettledOthers DEF Finished
<1>3. (\E i \in KeyAt : w = Key(i)) \/ GoesOnWithNul(w)
  BY <1>1, <1>2 DEF OthersAreRefused
<1> QED
  BY <1>3, KeySetIs DEF GoesOnWithNul

\* In the built trie a word that is no key is not found, whatever stands in its
\* units, digits and tail, but for the words that go on with NUL behind a key in
\* bin mode: the checks of CHECK, of the terminal flag and of the tail are enough.
THEOREM OtherWordsRefused == Spec => []OtherWordsAreRefused
<1>1. TrieInv => OtherWordsAreRefused
  <2> SUFFICES ASSUME TrieInv, tvec.ready, NEW w \in Probes \ KeySet
               PROVE  Lookup(w) = NotFound \/ (bin_mode /\ \E k \in KeySet : IsStrictPrefix(k \o <<NUL>>, w))
    BY DEF OtherWordsAreRefused
  <2>1. w \in Seq(Chars) /\ w \notin KeySet /\ Finished
    BY ProbesAssumption DEF Finished
  <2> QED
    BY <2>1, FinishedOthers
<1> QED
  BY <1>1, TrieInvariant, PTL

\* The ids of the terminal nodes are their ranks.
LEMMA IdFacts ==
    ASSUME Finished
    PROVE  /\ \A n \in terms : npos_to_id(n) \in 0 .. Cardinality(terms) - 1 /\ id_to_npos(npos_to_id(n)) = n
           /\ \A n, m \in terms : npos_to_id(n) = npos_to_id(m) => n = m
           /\ \A id \in 0 .. Cardinality(terms) - 1 : \E n \in terms : npos_to_id(n) = id
           /\ IsFiniteSet(terms)
<1>1. terms \in SUBSET Nat /\ IsFiniteSet(terms)
  <2> DEFINE top == arr.size - 1
  <2>1. terms \subseteq 0 .. top /\ top \in Int
    BY FinishedFacts DEF Units
  <2> HIDE DEF top
  <2>2. IsFiniteSet(0 .. top)
    <3>1. 0 \in Int
      OBVIOUS
    <3> QED
      BY <2>1, <3>1, FS_Interval
  <2>3. \A n \in 0 .. top : n \in Nat
    OBVIOUS
  <2> QED
    BY <2>1, <2>2, <2>3, FS_Subset
<1>2. \A n : npos_to_id(n) = Cardinality(Lower(terms, n))
  BY DEF npos_to_id, Lower
<1>3. /\ \A n \in terms : npos_to_id(n) \in 0 .. Cardinality(terms) - 1
      /\ \A n, m \in terms : npos_to_id(n) = npos_to_id(m) => n = m
      /\ \A id \in 0 .. Cardinality(terms) - 1 : \E n \in terms : npos_to_id(n) = id
  BY <1>1, <1>2, RankFacts
<1>4. ASSUME NEW n \in terms
      PROVE  id_to_npos(npos_to_id(n)) = n
  <2>1. \A t \in terms : npos_to_id(t) = npos_to_id(n) => t = n
    BY <1>3
  <2> QED
    BY <2>1 DEF id_to_npos
<1> QED
  BY <1>1, <1>3, <1>4

\* Each key has an id, and each id below their number is that of a key.
LEMMA KeyIds ==
    ASSUME Finished
    PROVE  {Lookup(k) : k \in KeySet} = 0 .. Cardinality(KeySet) - 1
<1>1. PICK node \in [KeyAt -> terms] :
         /\ \A i, j \in KeyAt : node[i] = node[j] => i = j
         /\ \A n \in terms : \E i \in KeyAt : node[i] = n
         /\ \A i \in KeyAt : AcceptsAt(Key(i), node[i])
  BY FinishedFacts, SettledKeys DEF KeysAreFound, Finished
<1>2. \A i \in KeyAt : Key(i) \in KeySet /\ Key(i) \in Seq(Chars) /\ Lookup(Key(i)) = npos_to_id(node[i])
  BY <1>1, KeySetIs, LookupFacts
<1> DEFINE nth == [n \in terms |-> CHOOSE i \in KeyAt : node[i] = n]
           key == [n \in terms |-> Key(nth[n])]
<1>3. \A n \in terms : nth[n] \in KeyAt /\ node[nth[n]] = n
  BY <1>1
<1> HIDE DEF nth
<1>4. key \in [terms -> KeySet]
  BY <1>2, <1>3
<1>5. \A n, m \in terms : key[n] = key[m] => n = m
  <2> SUFFICES ASSUME NEW n \in terms, NEW m \in terms, Key(nth[n]) = Key(nth[m])
               PROVE  n = m
    OBVIOUS
  <2>1. nth[n] = nth[m]
    BY <1>3, FinishedFacts, KeysDiffer
  <2> QED
    BY <1>3, <2>1
<1>6. \A k \in KeySet : \E n \in terms : key[n] = k
  <2> SUFFICES ASSUME NEW k \in KeySet
               PROVE  \E n \in terms : Key(nth[n]) = k
    OBVIOUS
  <2>1. PICK i \in KeyAt : k = Key(i)
    BY KeySetIs
  <2>2. nth[node[i]] = i
    BY <1>1, <1>3
  <2> QED
    BY <1>1, <2>1, <2>2
<1> HIDE DEF key
<1>7. key \in Bijection(terms, KeySet)
  BY <1>4, <1>5, <1>6 DEF Bijection, Injection, Surjection, IsInjective
<1>8. Cardinality(KeySet) = Cardinality(terms)
  <2>1. ExistsBijection(terms, KeySet)
    BY <1>7 DEF ExistsBijection
  <2> QED
    BY <2>1, IdFacts, FS_Bijection
<1>9. \A k \in KeySet : \E n \in terms : Lookup(k) = npos_to_id(n)
  <2> SUFFICES ASSUME NEW k \in KeySet
               PROVE  \E n \in terms : Lookup(k) = npos_to_id(n)
    OBVIOUS
  <2>1. PICK i \in KeyAt : k = Key(i)
    BY KeySetIs
  <2> QED
    BY <1>1, <1>2, <2>1
<1>10. \A n \in terms : \E k \in KeySet : Lookup(k) = npos_to_id(n)
  BY <1>1, <1>2
<1>11. {Lookup(k) : k \in KeySet} \subseteq 0 .. Cardinality(terms) - 1
  BY <1>9, IdFacts
<1>12. 0 .. Cardinality(terms) - 1 \subseteq {Lookup(k) : k \in KeySet}
  <2> SUFFICES ASSUME NEW id \in 0 .. Cardinality(terms) - 1
               PROVE  id \in {Lookup(k) : k \in KeySet}
    OBVIOUS
  <2>1. PICK n \in terms : npos_to_id(n) = id
    BY IdFacts
  <2> QED
    BY <1>10, <2>1
<1> QED
  BY <1>8, <1>11, <1>12

-----------------------------------------------------------------------------
(* Where the keys end. *)

\* The first k elements of a sequence.
LEMMA FirstFacts ==
    ASSUME NEW a \in Seq(Nat), NEW k \in 0 .. Len(a)
    PROVE  /\ SubSeq(a, 1, k) \in Seq(Nat) /\ Len(SubSeq(a, 1, k)) = k
           /\ \A j \in 1 .. k : SubSeq(a, 1, k)[j] = a[j]
           /\ SubSeq(a, 1, k) \o SubSeq(a, k + 1, Len(a)) = a
<1>0. Len(a) \in Nat /\ k \in Nat /\ k <= Len(a)
  OBVIOUS
<1> DEFINE first == SubSeq(a, 1, k)
           rest == SubSeq(a, k + 1, Len(a))
<1>1. first \in Seq(Nat) /\ Len(first) = k /\ \A j \in 1 .. k : first[j] = a[j]
  <2>1. CASE k = 0
    <3>1. first = <<>>
      BY <2>1
    <3> QED
      BY <2>1, <3>1
  <2>2. CASE k # 0
    <3>1. 1 \in 1 .. Len(a) /\ k \in 1 .. Len(a) /\ 1 <= k /\ (k - 1) + 1 = k
      BY <1>0, <2>2
    <3>2. /\ first \in Seq(Nat) /\ Len(first) = (k - 1) + 1
          /\ \A j \in 1 .. (k - 1) + 1 : first[j] = a[(1 + j) - 1]
      BY <3>1, SubSeqFacts
    <3>3. \A j \in 1 .. k : (1 + j) - 1 = j
      OBVIOUS
    <3> HIDE DEF first
    <3> QED
      BY <3>1, <3>2, <3>3
  <2> QED
    BY <2>1, <2>2
<1>2. rest \in Seq(Nat) /\ Len(rest) = Len(a) - k /\ \A j \in 1 .. Len(a) - k : rest[j] = a[k + j]
  BY <1>0, RestFacts
<1> HIDE DEF first, rest
<1>3. /\ first \o rest \in Seq(Nat) /\ Len(first \o rest) = k + (Len(a) - k)
      /\ \A j \in 1 .. k : (first \o rest)[j] = first[j]
      /\ \A j \in 1 .. Len(a) - k : (first \o rest)[k + j] = rest[j]
  <2>1. first \in Seq(Nat) /\ rest \in Seq(Nat) /\ Len(first) = k /\ Len(rest) = Len(a) - k
    BY <1>1, <1>2
  <2>2. /\ first \o rest \in Seq(Nat) /\ Len(first \o rest) = Len(first) + Len(rest)
        /\ \A j \in 1 .. Len(first) : (first \o rest)[j] = first[j]
        /\ \A j \in 1 .. Len(rest) : (first \o rest)[Len(first) + j] = rest[j]
    BY ONLY <2>1, ConcatFacts
  <2> QED
    BY ONLY <2>1, <2>2
<1>4. ASSUME NEW j \in 1 .. Len(a)
      PROVE  (first \o rest)[j] = a[j]
  <2>1. CASE j <= k
    BY <1>0, <1>1, <1>3, <2>1
  <2>2. CASE j > k
    <3>1. PICK m \in 1 .. Len(a) - k : j = k + m
      <4>1. j - k \in 1 .. Len(a) - k /\ j = k + (j - k)
        BY <1>0, <2>2
      <4> QED
        BY <4>1
    <3>2. rest[m] = a[k + m] /\ (first \o rest)[k + m] = rest[m]
      BY <1>2, <1>3
    <3> QED
      BY <3>1, <3>2
  <2>3. j <= k \/ j > k
    BY <1>0
  <2> QED
    BY <2>1, <2>2, <2>3
<1>5. Len(first \o rest) = Len(a)
  BY <1>0, <1>3
<1>6. first \o rest = a
  BY <1>3, <1>4, <1>5, SameSeq
<1> QED
  BY <1>1, <1>6 DEF first, rest

LEMMA KeyTypes ==
    ASSUME Finished, NEW i \in KeyAt
    PROVE  /\ Key(i) \in Seq(Chars) /\ Key(i) \in Seq(Nat) /\ Len(Key(i)) \in Nat
           /\ \A j \in 1 .. Len(Key(i)) : Key(i)[j] \in Chars /\ Key(i)[j] \in Alphabet
<1>1. Key(i) \in Seq(Chars) /\ Len(Key(i)) \in Nat
  BY FinishedFacts, KeyFacts DEF KeyAt
<1>2. Key(i) \in Seq(Nat)
  BY <1>1, CharsAreNumbers
<1>3. ASSUME NEW j \in 1 .. Len(Key(i))
      PROVE  Key(i)[j] \in Chars /\ Key(i)[j] \in Alphabet
  <2>1. Key(i)[j] \in Chars
    <3> HIDE DEF Chars
    <3> QED
      BY <1>1
  <2>2. i + 1 \in DOMAIN keys
    <3>1. Len(keys) \in Nat /\ DOMAIN keys = 1 .. Len(keys)
      BY FinishedFacts, KeyAssumption
    <3> QED
      BY <3>1 DEF KeyAt
  <2>3. Key(i)[j] \in ToSet(keys[i + 1])
    <3>1. DOMAIN Key(i) = 1 .. Len(Key(i))
      <4> HIDE DEF Chars
      <4> QED
        BY <1>1
    <3> QED
      BY <3>1 DEF ToSet, Key
  <2> QED
    BY <2>1, <2>2, <2>3 DEF Alphabet
<1> QED
  BY <1>1, <1>2, <1>3

\* The node of a key, and what the tail holds for it.
LEMMA KeyShape ==
    ASSUME Finished, NEW i \in KeyAt, NEW k \in 0 .. Len(Key(i)), NEW n, Reaches(i, k, n), EndsAt(i, k, n),
           NEW rest, rest = SubSeq(Key(i), k + 1, Len(Key(i)))
    PROVE  /\ LeadsTo(Key(i), k, n) /\ n \in terms /\ (n \in leaves \/ k = Len(Key(i)))
           /\ n \in leaves => DecodeTail(tvec, arr.base[n]) = rest
           /\ n \in leaves /\ k < Len(Key(i)) => arr.base[n] # 0 /\ Run(tvec, arr.base[n]) = rest
           /\ n \in leaves /\ arr.base[n] # 0 => k < Len(Key(i))
           /\ Lookup(Key(i)) = npos_to_id(n)
<1>1. n \in terms /\ Settled
  BY FinishedFacts DEF EndsAt
<1>2. LeadsTo(Key(i), k, n)
  <2>1. PICK p \in [0 .. k -> arr.useds \ {taboo_npos}] : Path(i, k, p) /\ p[k] = n
    BY DEF Reaches
  <2>2. p \in [0 .. k -> Units] /\ Along(Key(i), k, p)
    BY <1>1, <2>1, SettledFacts DEF Along, Path
  <2> QED
    BY <2>1, <2>2 DEF LeadsTo
<1>3. Lookup(Key(i)) = npos_to_id(n)
  <2>1. Placed(i, n)
    BY DEF Placed
  <2>2. AcceptsAt(Key(i), n)
    BY <1>1, <2>1, PlacedAccepted
  <2> QED
    BY <2>2, KeyTypes, LookupFacts
<1>4. Len(Key(i)) \in Nat /\ k \in Nat /\ Key(i) \in Seq(Nat)
  BY KeyTypes
<1>5. /\ rest \in Seq(Nat) /\ Len(rest) = Len(Key(i)) - k
  BY <1>4, RestFacts
<1>6. CASE k = Len(Key(i)) /\ n \in Inner
  BY <1>1, <1>2, <1>3, <1>6, FinishedFacts
<1>7. CASE k = Len(Key(i)) /\ n \in leaves /\ \A s \in suffixes : s.npos # n
  <2>1. arr.base[n] = 0
    BY <1>1, <1>7 DEF Settled, BuilderInv, NodesInv
  <2>2. rest = <<>>
    BY <1>4, <1>5, <1>7
  <2>3. DecodeTail(tvec, arr.base[n]) = rest
    BY <2>1, <2>2 DEF DecodeTail
  <2> QED
    BY <1>1, <1>2, <1>3, <1>4, <1>7, <2>1, <2>3
<1>8. CASE n \in leaves /\ [str |-> rest, npos |-> n] \in suffixes
  <2>1. PICK s \in suffixes : s.str = rest /\ s.npos = n
    BY <1>8
  <2>2. rest # <<>> /\ SuffixesReadBack /\ tvec.ready
    BY <1>1, <2>1, ReadBack DEF Settled, BuilderInv, SuffixesInv
  <2>3. k < Len(Key(i))
    BY <1>4, <1>5, <2>2
  <2>4. Match(tvec, rest, arr.base[n])
    BY <1>5, <2>1, <2>2 DEF SuffixesReadBack
  <2>5. Run(tvec, arr.base[n]) = rest
    BY <2>2, <2>4 DEF Match
  <2>6. arr.base[n] # 0
    <3>1. Reads(tvec, arr.base[n], rest)
      BY <1>1, <2>1 DEF Settled, BuilderInv, TailBuilt
    <3> QED
      BY <3>1 DEF Reads
  <2>7. DecodeTail(tvec, arr.base[n]) = rest
    BY <2>5, <2>6 DEF DecodeTail
  <2> QED
    BY <1>1, <1>2, <1>3, <1>8, <2>3, <2>5, <2>6, <2>7
<1> QED
  BY <1>6, <1>7, <1>8 DEF EndsAt

-----------------------------------------------------------------------------
(* Decoding. *)

LEMMA ConsFacts ==
    ASSUME NEW a \in Seq(Nat), NEW k \in 0 .. Len(a), NEW j \in 1 .. k
    PROVE  <<a[j]>> \o SubSeq(a, j + 1, k) = SubSeq(a, j, k)
<1>0. /\ Len(a) \in Nat /\ k \in Nat /\ j \in Nat /\ k <= Len(a) /\ j <= k /\ 1 <= j
      /\ j \in 1 .. Len(a) /\ k \in 1 .. Len(a) /\ a[j] \in Nat
  OBVIOUS
<1> DEFINE first == <<a[j]>>
           rest == SubSeq(a, j + 1, k)
           all == SubSeq(a, j, k)
<1>1. first \in Seq(Nat) /\ Len(first) = 1 /\ first[1] = a[j]
  BY <1>0
<1>2. all \in Seq(Nat) /\ Len(all) = (k - j) + 1 /\ \A x \in 1 .. (k - j) + 1 : all[x] = a[(j + x) - 1]
  BY <1>0, SubSeqFacts
<1>3. rest \in Seq(Nat) /\ Len(rest) = k - j /\ \A x \in 1 .. k - j : rest[x] = a[j + x]
  <2>1. CASE j = k
    <3>1. rest = <<>>
      BY <1>0, <2>1
    <3> QED
      BY <1>0, <2>1, <3>1
  <2>2. CASE j < k
    <3> DEFINE lo == j + 1
    <3>1. lo \in 1 .. Len(a) /\ lo <= k /\ (k - lo) + 1 = k - j
      BY <1>0, <2>2
    <3>2. \A x \in 1 .. k - j : (lo + x) - 1 = j + x
      BY <1>0
    <3> HIDE DEF lo
    <3>3. /\ SubSeq(a, lo, k) \in Seq(Nat) /\ Len(SubSeq(a, lo, k)) = (k - lo) + 1
          /\ \A x \in 1 .. (k - lo) + 1 : SubSeq(a, lo, k)[x] = a[(lo + x) - 1]
      BY ONLY a \in Seq(Nat), <1>0, <3>1, SubSeqFacts
    <3>4. rest = SubSeq(a, lo, k)
      BY DEF lo
    <3> HIDE DEF rest
    <3> QED
      BY <3>1, <3>2, <3>3, <3>4
  <2> QED
    BY <1>0, <2>1, <2>2
<1> HIDE DEF first, rest, all
<1>4. /\ first \o rest \in Seq(Nat) /\ Len(first \o rest) = 1 + (k - j)
      /\ (first \o rest)[1] = a[j]
      /\ \A x \in 1 .. k - j : (first \o rest)[1 + x] = a[j + x]
  <2>1. /\ first \o rest \in Seq(Nat) /\ Len(first \o rest) = Len(first) + Len(rest)
        /\ \A x \in 1 .. Len(first) : (first \o rest)[x] = first[x]
        /\ \A x \in 1 .. Len(rest) : (first \o rest)[Len(first) + x] = rest[x]
    BY <1>1, <1>3, ConcatFacts
  <2> DEFINE both == first \o rest
  <2>2. 1 \in 1 .. Len(first) /\ \A x \in 1 .. k - j : x \in 1 .. Len(rest)
    BY <1>1, <1>3
  <2>3. both[1] = a[j]
    BY <1>1, <2>1, <2>2
  <2>4. \A x \in 1 .. k - j : both[1 + x] = a[j + x]
    BY <1>1, <1>3, <2>1, <2>2
  <2>5. both \in Seq(Nat) /\ Len(both) = 1 + (k - j)
    BY <1>1, <1>3, <2>1
  <2> HIDE DEF both
  <2>6. /\ both \in Seq(Nat) /\ Len(both) = 1 + (k - j) /\ both[1] = a[j]
        /\ \A x \in 1 .. k - j : both[1 + x] = a[j + x]
    BY <2>3, <2>4, <2>5
  <2> QED
    BY <2>6 DEF both
<1>5. ASSUME NEW y \in 1 .. Len(all)
      PROVE  (first \o rest)[y] = all[y]
  <2>1. CASE y = 1
    <3>1. 1 \in 1 .. (k - j) + 1 /\ (j + 1) - 1 = j
      BY <1>0
    <3>2. all[1] = a[j]
      BY <1>2, <3>1
    <3> QED
      BY <1>4, <2>1, <3>2
  <2>2. CASE y # 1
    <3>1. PICK x \in 1 .. k - j : y = 1 + x
      <4>1. y - 1 \in 1 .. k - j /\ y = 1 + (y - 1)
        BY <1>0, <1>2, <2>2
      <4> QED
        BY <4>1
    <3>2. 1 + x \in 1 .. (k - j) + 1 /\ (j + (1 + x)) - 1 = j + x
      BY <1>0
    <3>3. all[1 + x] = a[j + x]
      BY <1>2, <3>2
    <3> QED
      BY <1>4, <3>1, <3>3
  <2> QED
    BY <2>1, <2>2
<1>6. Len(first \o rest) = Len(all)
  BY <1>0, <1>2, <1>4
<1>7. first \o rest = all
  BY <1>2, <1>4, <1>5, <1>6, SameSeq
<1> QED
  BY <1>7 DEF first, rest, all

\* The character of a unit is found from its place and the BASE of its parent.
LEMMA ParentChar ==
    ASSUME Finished, NEW m \in Inner, NEW ch \in Chars, NEW n, n = Child(arr.base[m], ch)
    PROVE  CharAt(XorLow[<<Base(bcvec, m) % BlockSize, n % BlockSize>>]) = ch
<1> DEFINE b == arr.base[m] % BlockSize
           c == code[ch]
<1>1. /\ m \in Units /\ arr.base[m] \in Nat /\ code \in Bijection(Chars, Chars)
      /\ Base(bcvec, m) = arr.base[m]
  <2>1. m \in Units /\ arr.base[m] \in Units /\ Units \subseteq Nat /\ code \in Bijection(Chars, Chars)
    BY FinishedFacts, ChildUnit
  <2> QED
    BY <2>1, ReadFacts
<1>2. n % BlockSize = XorLow[<<b, c>>]
  BY <1>1, ChildFacts
<1>3. b \in Chars
  <2> DEFINE x == arr.base[m]
  <2>1. x \in Nat
    BY <1>1
  <2> HIDE DEF x
  <2>2. x % BlockSize \in 0 .. BlockSize - 1
    BY <2>1, Division
  <2> QED
    BY <2>2 DEF x, Chars
<1>4. c \in Chars /\ \A d \in Chars : code[d] = c => d = ch
  BY <1>1 DEF Bijection, Injection, Surjection, IsInjective
<1> HIDE DEF b, c
<1>5. XorLow[<<b, XorLow[<<b, c>>]>>] = c
  <2>1. XorLow[<<b, c>>] \in Chars /\ XorLow[<<c, b>>] \in Chars
    <3>1. <<b, c>> \in Chars \X Chars /\ <<c, b>> \in Chars \X Chars
      BY <1>3, <1>4
    <3> QED
      BY <3>1, XorAssumption
  <2>2. XorLow[<<b, c>>] = XorLow[<<c, b>>] /\ XorLow[<<XorLow[<<c, b>>], b>>] = c
    BY <1>3, <1>4, XorAssumption
  <2>3. XorLow[<<b, XorLow[<<b, c>>]>>] = XorLow[<<XorLow[<<b, c>>], b>>]
    BY <1>3, <2>1, XorAssumption
  <2> QED
    BY <2>2, <2>3
<1>6. CharAt(c) = ch
  BY <1>4 DEF CharAt, c
<1> QED
  BY <1>1, <1>2, <1>5, <1>6 DEF b

LEMMA LongestFacts ==
    ASSUME Finished
    PROVE  max_length \in Nat /\ \A i \in KeyAt : Len(Key(i)) <= max_length
<1> DEFINE values == [i \in 0 .. Len(keys) - 1 |-> Len(keys[i + 1])]
<1>1. Len(keys) \in Nat \ {0} /\ DOMAIN keys = 1 .. Len(keys)
  BY FinishedFacts, KeyAssumption
<1>2. \A i \in KeyAt : Len(Key(i)) \in Nat
  BY KeyTypes
<1>3. values \in [0 .. Len(keys) - 1 -> Nat]
  BY <1>2 DEF KeyAt, Key
<1>4. {values[i] : i \in DOMAIN values} = {Len(keys[i]) : i \in DOMAIN keys}
  <2>1. \A i \in 0 .. Len(keys) - 1 : i + 1 \in 1 .. Len(keys) /\ values[i] = Len(keys[i + 1])
    BY <1>1
  <2>2. \A j \in 1 .. Len(keys) : j - 1 \in 0 .. Len(keys) - 1 /\ (j - 1) + 1 = j
    BY <1>1
  <2>3. DOMAIN values = 0 .. Len(keys) - 1
    OBVIOUS
  <2> HIDE DEF values
  <2>4. ASSUME NEW j \in 1 .. Len(keys)
        PROVE  \E i \in 0 .. Len(keys) - 1 : values[i] = Len(keys[j])
    <3>1. values[j - 1] = Len(keys[(j - 1) + 1])
      BY <2>1, <2>2
    <3> QED
      BY <2>2, <3>1
  <2>5. {values[i] : i \in DOMAIN values} \subseteq {Len(keys[j]) : j \in DOMAIN keys}
    BY <1>1, <2>1, <2>3
  <2>6. {Len(keys[j]) : j \in DOMAIN keys} \subseteq {values[i] : i \in DOMAIN values}
    BY <1>1, <2>3, <2>4
  <2> QED
    BY <2>5, <2>6
<1>5. \A i \in 0 .. Len(keys) - 1 : values[i] = Len(Key(i))
  BY DEF Key
<1> HIDE DEF values
<1>6. LET most == Max({values[i] : i \in DOMAIN values})
      IN  most \in Nat /\ \A i \in 0 .. Len(keys) - 1 : values[i] <= most
  BY <1>1, <1>3, LargestFacts
<1> QED
  BY <1>4, <1>5, <1>6 DEF max_length, KeyAt

LEMMA KeyNode ==
    ASSUME Finished, NEW i \in KeyAt
    PROVE  \E n \in terms : \E k \in 0 .. Len(Key(i)) : Reaches(i, k, n) /\ EndsAt(i, k, n)
<1>1. calls = {}
  BY FinishedFacts DEF Settled, BuilderInv, TailBuilt
<1>2. \E n \in terms : Placed(i, n)
  BY <1>1, FinishedFacts DEF Settled, WordsInv, KeysPlaced
<1> QED
  BY <1>2 DEF Placed

\* One round of decode(), and all of them.
UpStep(at) ==
    IF at.npos = 0 THEN at
    ELSE LET parent == Check(bcvec, at.npos)
             cd == XorLow[<<Base(bcvec, parent) % BlockSize, at.npos % BlockSize>>]
         IN  [npos |-> parent, decoded |-> <<CharAt(cd)>> \o at.decoded]

UpLoop(npos, g) ==
    g = [n \in 0 .. max_length |-> IF n = 0 THEN [npos |-> npos, decoded |-> <<>>] ELSE UpStep(g[n - 1])]

Upward(npos) == CHOOSE g : UpLoop(npos, g)

LEMMA DecodeIs ==
    ASSUME NEW id, NEW npos, npos = id_to_npos(id)
    PROVE  Decode(id) = Upward(npos)[max_length].decoded
                        \o (IF IsLeafNode(npos) THEN DecodeTail(tvec, Link(bcvec, npos)) ELSE <<>>)
BY DEF Decode, Upward, UpLoop, UpStep

\* The way up from a node reads the characters that lead to it, and ends at the root
\* within max_length rounds.
LEMMA UpFacts ==
    ASSUME Finished, NEW word \in Seq(Chars), NEW k \in 0 .. Len(word), k <= max_length,
           NEW n, LeadsTo(word, k, n)
    PROVE  Upward(n)[max_length].decoded = SubSeq(word, 1, k) /\ Upward(n)[max_length].npos = 0
<1>0. Len(word) \in Nat /\ k \in Nat /\ k <= Len(word) /\ max_length \in Nat /\ word \in Seq(Nat)
  BY LongestFacts, CharsAreNumbers
<1> DEFINE top == max_length
<1> HIDE DEF top
<1>1. PICK p \in [0 .. k -> Units] : Along(word, k, p) /\ p[k] = n
  BY DEF LeadsTo
<1> DEFINE J(m) == IF m < k THEN k - m ELSE 0
           At2(j) == [npos |-> p[j], decoded |-> SubSeq(word, j + 1, k)]
           u == [m \in 0 .. top |-> At2(J(m))]
<1>2. /\ \A m \in 0 .. top : J(m) \in 0 .. k
      /\ J(0) = k /\ J(top) = 0 /\ top \in Nat /\ top = max_length
      /\ \A m \in 1 .. top : m - 1 \in 0 .. top /\ (J(m - 1) = 0 => J(m) = 0)
                             /\ (J(m - 1) # 0 => J(m) = J(m - 1) - 1)
  BY <1>0 DEF top
<1>3. ASSUME NEW j \in 1 .. k
      PROVE  UpStep(At2(j)) = At2(j - 1)
  <2>1. j - 1 \in 0 .. k /\ j \in 0 .. k /\ j \in Nat /\ (j - 1) + 1 = j /\ j \in 1 .. Len(word)
    BY <1>0
  <2>2. /\ p[j - 1] \notin leaves /\ p[j] = Child(arr.base[p[j - 1]], word[j])
        /\ arr.check[p[j]] = p[j - 1] /\ p[j] \in Units
    BY <1>1, <2>1 DEF Along
  <2>3. p[j - 1] \in Nodes
    BY <1>0, <1>1, <2>1, FinishedFacts, AlongUsed DEF Nodes
  <2>4. p[j - 1] \in Inner
    BY <2>2, <2>3, FinishedFacts
  <2>5. p[j] # 0
    <3>1. arr.check[0] = taboo_npos
      BY FinishedFacts, SettledFacts
    <3> QED
      BY <2>2, <2>3, <3>1 DEF Nodes
  <2>6. Check(bcvec, p[j]) = p[j - 1]
    BY <2>2, ReadFacts
  <2>7. word[j] \in Chars
    <3> HIDE DEF Chars
    <3> QED
      BY <2>1
  <2>8. CharAt(XorLow[<<Base(bcvec, p[j - 1]) % BlockSize, p[j] % BlockSize>>]) = word[j]
    BY <2>2, <2>4, <2>7, ParentChar
  <2>9. <<word[j]>> \o SubSeq(word, j + 1, k) = SubSeq(word, j, k)
    BY <1>0, ConsFacts
  <2>10. At2(j).npos = p[j] /\ At2(j).decoded = SubSeq(word, j + 1, k)
    OBVIOUS
  <2>11. UpStep(At2(j)) = [npos |-> p[j - 1], decoded |-> SubSeq(word, j, k)]
    <3> HIDE DEF At2
    <3> QED
      BY <2>5, <2>6, <2>8, <2>9, <2>10 DEF UpStep
  <2> QED
    BY <2>1, <2>11
<1>4. UpStep(At2(0)) = At2(0)
  <2>1. p[0] = 0
    BY <1>1 DEF Along
  <2>2. At2(0).npos = 0
    BY <2>1
  <2> HIDE DEF At2
  <2> QED
    BY <2>2 DEF UpStep
<1>5. At2(k) = [npos |-> n, decoded |-> <<>>]
  <2>1. SubSeq(word, k + 1, k) = <<>>
    BY <1>0
  <2> QED
    BY <1>1, <2>1
<1>6. ASSUME NEW m \in 0 .. top
      PROVE  u[m] = IF m = 0 THEN [npos |-> n, decoded |-> <<>>] ELSE UpStep(u[m - 1])
  <2>1. u[m] = At2(J(m)) /\ (m # 0 => u[m - 1] = At2(J(m - 1)))
    BY <1>2
  <2> HIDE DEF At2, J, u
  <2>2. CASE m = 0
    BY <1>2, <1>5, <2>1, <2>2
  <2>3. CASE m # 0
    <3>1. m \in 1 .. top /\ m - 1 \in 0 .. top
      BY <1>2, <2>3
    <3>2. CASE J(m - 1) = 0
      BY <1>2, <1>4, <2>1, <2>3, <3>1, <3>2
    <3>3. CASE J(m - 1) # 0
      <4> DEFINE j == J(m - 1)
      <4>1. j \in 1 .. k /\ J(m) = j - 1
        BY <1>0, <1>2, <3>1, <3>3
      <4> HIDE DEF j
      <4>2. UpStep(At2(j)) = At2(j - 1)
        BY <1>3, <4>1
      <4> QED
        BY <2>1, <2>3, <4>1, <4>2 DEF j
    <3> QED
      BY <3>2, <3>3
  <2> QED
    BY <2>2, <2>3
<1>7. UpLoop(n, u)
  <2>1. u = [m \in 0 .. top |-> u[m]]
    OBVIOUS
  <2> HIDE DEF u
  <2>2. u = [m \in 0 .. top |-> IF m = 0 THEN [npos |-> n, decoded |-> <<>>] ELSE UpStep(u[m - 1])]
    BY <1>6, <2>1
  <2> QED
    BY <2>2 DEF UpLoop, top
<1> DEFINE D == Upward(n)
<1>8. UpLoop(n, D)
  BY <1>7 DEF Upward
<1> HIDE DEF D, u
<1>9. ASSUME NEW m \in 0 .. top
      PROVE  D[m] = IF m = 0 THEN [npos |-> n, decoded |-> <<>>] ELSE UpStep(D[m - 1])
  BY <1>8 DEF UpLoop, top
<1> DEFINE S == {m \in 0 .. top : D[m] = u[m]}
<1>10. 0 \in S
  BY <1>2, <1>6, <1>9
<1>11. \A m \in 0 .. top - 1 : m \in S => m + 1 \in S
  <2> SUFFICES ASSUME NEW m \in 0 .. top - 1, m \in S
               PROVE  m + 1 \in S
    OBVIOUS
  <2>1. m + 1 \in 0 .. top /\ m + 1 # 0 /\ (m + 1) - 1 = m
    BY <1>2
  <2>2. D[m + 1] = UpStep(D[m]) /\ u[m + 1] = UpStep(u[m])
    <3> HIDE DEF S
    <3>1. \A j \in 0 .. top : j # 0 => D[j] = UpStep(D[j - 1]) /\ u[j] = UpStep(u[j - 1])
      BY <1>6, <1>9
    <3> QED
      BY ONLY <2>1, <3>1
  <2>3. D[m] = u[m]
    OBVIOUS
  <2>4. D[m + 1] = u[m + 1]
    BY ONLY <2>2, <2>3
  <2> QED
    BY <2>1, <2>4
<1>12. top \in S
  <2>1. top \in 0 .. top
    BY <1>2
  <2> HIDE DEF S
  <2> QED
    BY ONLY <1>2, <2>1, <1>10, <1>11, Rounds
<1>13. u[top].decoded = SubSeq(word, 1, k) /\ u[top].npos = 0
  <2>1. top \in 0 .. top /\ J(top) = 0 /\ J(top) + 1 = 1
    BY <1>2
  <2>2. u[top] = At2(J(top))
    BY <2>1 DEF u
  <2>3. At2(J(top)).decoded = SubSeq(word, J(top) + 1, k) /\ At2(J(top)).npos = p[J(top)]
    OBVIOUS
  <2> HIDE DEF J, At2
  <2>4. u[top].decoded = SubSeq(word, J(top) + 1, k) /\ u[top].npos = p[J(top)]
    BY <2>2, <2>3
  <2>5. p[0] = 0
    BY <1>1 DEF Along
  <2> QED
    BY <2>1, <2>4, <2>5
<1> QED
  BY <1>12, <1>13 DEF D, top

LEMMA KeyDecoded ==
    ASSUME Finished, NEW i \in KeyAt
    PROVE  Decode(Lookup(Key(i))) = Key(i)
<1> DEFINE key == Key(i)
<1>1. key \in Seq(Chars) /\ key \in Seq(Nat) /\ Len(key) \in Nat /\ Len(key) <= max_length /\ max_length \in Nat
  BY KeyTypes, LongestFacts
<1>2. PICK n \in terms : \E k \in 0 .. Len(key) : Reaches(i, k, n) /\ EndsAt(i, k, n)
  BY KeyNode
<1>3. PICK k \in 0 .. Len(key) : Reaches(i, k, n) /\ EndsAt(i, k, n)
  BY <1>2
<1> DEFINE rest == SubSeq(key, k + 1, Len(key))
<1>4. /\ LeadsTo(key, k, n) /\ (n \in leaves \/ k = Len(key))
      /\ n \in leaves => DecodeTail(tvec, arr.base[n]) = rest
      /\ Lookup(key) = npos_to_id(n)
  BY <1>3, KeyShape
<1> HIDE DEF key
<1>5. id_to_npos(Lookup(key)) = n
  BY <1>4, IdFacts
<1>6. Upward(n)[max_length].decoded = SubSeq(key, 1, k)
  <2>1. k <= max_length
    BY <1>1
  <2> QED
    BY <1>1, <1>4, <2>1, UpFacts
<1>7. (IF IsLeafNode(n) THEN DecodeTail(tvec, Link(bcvec, n)) ELSE <<>>) = rest
  <2>1. n \in Units
    BY FinishedFacts
  <2>2. CASE n \in leaves
    BY <1>4, <2>1, <2>2, ReadFacts
  <2>3. CASE n \notin leaves
    <3>1. rest = <<>>
      BY <1>1, <1>4, <2>3
    <3> QED
      BY <2>1, <2>3, <3>1, ReadFacts
  <2> QED
    BY <2>2, <2>3
<1>8. SubSeq(key, 1, k) \o rest = key
  BY <1>1, FirstFacts
<1>9. Decode(Lookup(key)) = SubSeq(key, 1, k) \o rest
  BY <1>5, <1>6, <1>7, DecodeIs
<1> QED
  BY <1>8, <1>9 DEF key

\* In the built trie the ids 0 .. n - 1 are those of the n keys, each key is found
\* under its id and decoded from it: lookup() and decode() are inverse, through the
\* digits of BASE and CHECK, the links of the leaves and the shared tails.
THEOREM KeysHaveIds == Spec => []EveryKeyIsFound
<1>1. TrieInv => EveryKeyIsFound
  <2> SUFFICES ASSUME TrieInv, tvec.ready
               PROVE  /\ {Lookup(k) : k \in KeySet} = 0 .. Cardinality(KeySet) - 1
                      /\ \A k \in KeySet : Decode(Lookup(k)) = k
    BY DEF EveryKeyIsFound
  <2>1. Finished
    BY DEF Finished
  <2>2. \A k \in KeySet : Decode(Lookup(k)) = k
    BY <2>1, KeySetIs, KeyDecoded
  <2> QED
    BY <2>1, <2>2, KeyIds
<1> QED
  BY <1>1, TrieInvariant, PTL

-----------------------------------------------------------------------------
(* The nodes below a node. *)

\* Without the last element, and a sequence with one more.
LEMMA AppendFacts ==
    ASSUME NEW a \in Seq(Chars), NEW ch \in Chars
    PROVE  /\ Append(a, ch) \in Seq(Chars) /\ Len(Append(a, ch)) = Len(a) + 1 /\ Len(a) \in Nat
           /\ \A j \in 1 .. Len(a) : Append(a, ch)[j] = a[j]
           /\ Append(a, ch)[Len(a) + 1] = ch
<1> HIDE DEF Chars
<1> QED
  OBVIOUS

LEMMA GrowFacts ==
    ASSUME NEW a \in Seq(Nat), NEW lo \in 0 .. Len(a), NEW hi \in lo .. Len(a) - 1
    PROVE  Append(SubSeq(a, lo + 1, hi), a[hi + 1]) = SubSeq(a, lo + 1, hi + 1)
<1>0. /\ Len(a) \in Nat /\ lo \in Nat /\ hi \in Nat /\ lo <= hi /\ hi + 1 <= Len(a)
      /\ lo + 1 \in 1 .. Len(a) /\ hi + 1 \in 1 .. Len(a) /\ lo + 1 <= hi + 1 /\ a[hi + 1] \in Nat
  OBVIOUS
<1> DEFINE x == SubSeq(a, lo + 1, hi)
           y == SubSeq(a, lo + 1, hi + 1)
           last == a[hi + 1]
<1>1. x \in Seq(Nat) /\ Len(x) = hi - lo /\ \A j \in 1 .. hi - lo : x[j] = a[lo + j]
  <2>1. CASE lo = hi
    <3>1. x = <<>>
      BY <1>0, <2>1
    <3> QED
      BY <1>0, <2>1, <3>1
  <2>2. CASE lo < hi
    <3> DEFINE b == lo + 1
    <3>1. b \in 1 .. Len(a) /\ hi \in 1 .. Len(a) /\ b <= hi /\ (hi - b) + 1 = hi - lo
      BY <1>0, <2>2
    <3>2. \A j \in 1 .. hi - lo : (b + j) - 1 = lo + j
      BY <1>0
    <3> HIDE DEF b
    <3>3. /\ SubSeq(a, b, hi) \in Seq(Nat) /\ Len(SubSeq(a, b, hi)) = (hi - b) + 1
          /\ \A j \in 1 .. (hi - b) + 1 : SubSeq(a, b, hi)[j] = a[(b + j) - 1]
      BY ONLY a \in Seq(Nat), <1>0, <3>1, SubSeqFacts
    <3>4. x = SubSeq(a, b, hi)
      BY DEF b
    <3> HIDE DEF x
    <3> QED
      BY <3>1, <3>2, <3>3, <3>4
  <2> QED
    BY <1>0, <2>1, <2>2
<1>2. y \in Seq(Nat) /\ Len(y) = (hi - lo) + 1 /\ \A j \in 1 .. (hi - lo) + 1 : y[j] = a[lo + j]
  <2> DEFINE b == lo + 1
             e == hi + 1
  <2>1. b \in 1 .. Len(a) /\ e \in 1 .. Len(a) /\ b <= e /\ (e - b) + 1 = (hi - lo) + 1
    BY <1>0
  <2>2. \A j \in 1 .. (hi - lo) + 1 : (b + j) - 1 = lo + j
    BY <1>0
  <2> HIDE DEF b, e
  <2>3. /\ SubSeq(a, b, e) \in Seq(Nat) /\ Len(SubSeq(a, b, e)) = (e - b) + 1
        /\ \A j \in 1 .. (e - b) + 1 : SubSeq(a, b, e)[j] = a[(b + j) - 1]
    BY ONLY a \in Seq(Nat), <2>1, SubSeqFacts
  <2>4. y = SubSeq(a, b, e)
    BY DEF b, e
  <2> HIDE DEF y
  <2> QED
    BY <2>1, <2>2, <2>3, <2>4
<1> DEFINE z == Append(x, last)
<1>3. lo + (hi - lo + 1) = hi + 1
  BY <1>0
<1>4. last \in Nat
  BY <1>0
<1>5. y[(hi - lo) + 1] = last
  BY <1>0, <1>2, <1>3
<1> HIDE DEF x, y, last
<1>6. /\ z \in Seq(Nat) /\ Len(z) = (hi - lo) + 1
      /\ \A j \in 1 .. hi - lo : z[j] = x[j]
      /\ z[(hi - lo) + 1] = last
  BY <1>1, <1>4
<1> HIDE DEF z
<1>7. ASSUME NEW j \in 1 .. Len(z)
      PROVE  z[j] = y[j]
  <2>1. CASE j \in 1 .. hi - lo
    BY <1>0, <1>1, <1>2, <1>6, <2>1
  <2>2. CASE j = (hi - lo) + 1
    BY <1>5, <1>6, <2>2
  <2> QED
    BY <1>0, <1>6, <2>1, <2>2
<1>8. z = y
  BY ONLY <1>2, <1>6, <1>7, SameSeq
<1> QED
  BY <1>8 DEF x, y, z, last

\* The characters below a node are those of its children.
LEMMA FollowingFacts ==
    ASSUME Finished, NEW at, at.npos \in Nodes, NEW ch
    PROVE  ch \in Following(at) <=> /\ ch \in Alphabet /\ ch \in Chars /\ at.npos \in Inner
                                    /\ arr.check[Child(arr.base[at.npos], ch)] = at.npos
<1>1. at.npos \in Units /\ Inner = Nodes \ leaves
  BY FinishedFacts
<1>2. ch \in Alphabet => ch \in Chars
  <2> SUFFICES ASSUME ch \in Alphabet
               PROVE  ch \in Chars
    OBVIOUS
  <2>1. PICK i \in DOMAIN keys : ch \in ToSet(keys[i])
    BY DEF Alphabet
  <2>2. keys[i] \in Seq(Chars)
    <3>1. keys \in Seq(Seq(Chars) \ {<<>>})
      BY FinishedFacts, KeyAssumption
    <3> HIDE DEF Chars
    <3> QED
      BY <3>1
  <2> HIDE DEF Chars
  <2> QED
    BY <2>1, <2>2 DEF ToSet
<1>3. IsLeafNode(at.npos) = (at.npos \in leaves)
  BY <1>1, ReadFacts
<1>4. ASSUME at.npos \in Inner, ch \in Chars
      PROVE  IsChild(ChildOf(at.npos, ch), at.npos) = (arr.check[Child(arr.base[at.npos], ch)] = at.npos)
  BY <1>4, ChildUnit, ReadFacts DEF IsChild
<1>5. ch \in Following(at) <=> ch \in Alphabet /\ ~IsLeafNode(at.npos) /\ IsChild(ChildOf(at.npos, ch), at.npos)
  BY DEF Following
<1>6. at.npos \in Inner <=> ~IsLeafNode(at.npos)
  BY <1>1, <1>3
<1> QED
  BY <1>2, <1>4, <1>5, <1>6

Rooms == [npos : Nodes, rest : Seq(Chars)]
DownStep(Y) ==
    UNION {{[npos |-> ChildOf(at.npos, ch), rest |-> Append(at.rest, ch)] : ch \in Following(at)} : at \in Y}
DownLoop(npos, g) ==
    g = [n \in 0 .. max_length |-> IF n = 0 THEN {[npos |-> npos, rest |-> <<>>]} ELSE DownStep(g[n - 1])]
Downward(npos) == CHOOSE g : DownLoop(npos, g)

LEMMA BelowIs ==
    ASSUME NEW npos
    PROVE  Below(npos) = UNION {Downward(npos)[n] : n \in 0 .. max_length}
BY DEF Below, Downward, DownLoop, DownStep

LEMMA DownHas ==
    ASSUME NEW Y, NEW at \in Y, NEW ch \in Following(at)
    PROVE  [npos |-> ChildOf(at.npos, ch), rest |-> Append(at.rest, ch)] \in DownStep(Y)
BY DEF DownStep

LEMMA DownStepType ==
    ASSUME Finished, NEW Y \in SUBSET Rooms
    PROVE  DownStep(Y) \in SUBSET Rooms
<1> SUFFICES ASSUME NEW at \in Y, NEW ch \in Following(at)
             PROVE  [npos |-> ChildOf(at.npos, ch), rest |-> Append(at.rest, ch)] \in Rooms
  BY DEF DownStep
<1>1. at.npos \in Nodes /\ at.rest \in Seq(Chars)
  BY DEF Rooms
<1>2. ch \in Chars /\ at.npos \in Inner /\ arr.check[Child(arr.base[at.npos], ch)] = at.npos
  BY <1>1, FollowingFacts
<1>3. ChildOf(at.npos, ch) \in Nodes
  BY <1>2, ChildUnit
<1>4. Append(at.rest, ch) \in Seq(Chars)
  BY <1>1, <1>2, AppendFacts
<1> QED
  BY <1>3, <1>4 DEF Rooms

LEMMA DownMade ==
    ASSUME Finished, NEW m \in Nodes
    PROVE  /\ Downward(m)[0] = {[npos |-> m, rest |-> <<>>]}
           /\ \A d \in 1 .. max_length : Downward(m)[d] = DownStep(Downward(m)[d - 1])
<1> DEFINE top == max_length
           S == SUBSET Rooms
           first == {[npos |-> m, rest |-> <<>>]}
           F == [Y \in S |-> DownStep(Y)]
<1>1. top \in Nat
  BY LongestFacts
<1>2. first \in S
  <2>1. <<>> \in Seq(Chars)
    <3> HIDE DEF Chars
    <3> QED
      OBVIOUS
  <2> QED
    BY <2>1 DEF Rooms
<1> HIDE DEF S
<1>3. F \in [S -> S]
  BY DownStepType DEF S
<1> HIDE DEF F, first, top
<1>4. PICK g \in [0 .. top -> S] : g = [n \in 0 .. top |-> IF n = 0 THEN first ELSE F[g[n - 1]]]
  BY <1>1, <1>2, <1>3, LoopMade
<1>5. ASSUME NEW n \in 0 .. top
      PROVE  g[n] = IF n = 0 THEN first ELSE DownStep(g[n - 1])
  <2>1. g[n] = IF n = 0 THEN first ELSE F[g[n - 1]]
    BY <1>4
  <2>2. n # 0 => g[n - 1] \in S
    <3>1. n # 0 => n - 1 \in 0 .. top
      BY <1>1
    <3> QED
      BY <3>1
  <2>3. n # 0 => F[g[n - 1]] = DownStep(g[n - 1])
    BY <2>2 DEF F
  <2> QED
    BY <2>1, <2>3
<1>6. DownLoop(m, g)
  <2>1. g = [n \in 0 .. top |-> g[n]]
    OBVIOUS
  <2>2. g = [n \in 0 .. top |-> IF n = 0 THEN first ELSE DownStep(g[n - 1])]
    BY <1>5, <2>1
  <2> QED
    BY <2>2 DEF DownLoop, top, first
<1>7. DownLoop(m, Downward(m))
  BY <1>6 DEF Downward
<1> DEFINE D == Downward(m)
<1> HIDE DEF D
<1>8. D = [n \in 0 .. top |-> IF n = 0 THEN first ELSE DownStep(D[n - 1])]
  BY <1>7 DEF DownLoop, top, first, D
<1>9. 0 \in 0 .. top /\ \A d \in 1 .. top : d \in 0 .. top /\ d # 0
  BY <1>1
<1>10. D[0] = first /\ \A d \in 1 .. top : D[d] = DownStep(D[d - 1])
  BY <1>8, <1>9
<1> QED
  BY <1>10 DEF D, first, top

\* Below a node are the nodes its characters lead to.
LEMMA BelowLeads ==
    ASSUME Finished, NEW w \in Seq(Chars), NEW m \in Nodes, LeadsTo(w, Len(w), m), NEW x \in Below(m)
    PROVE  /\ x.npos \in Nodes /\ x.rest \in Seq(Chars)
           /\ LeadsTo(w \o x.rest, Len(w) + Len(x.rest), x.npos)
<1> DEFINE top == max_length
           D == Downward(m)
           Ok(y) == /\ y.npos \in Nodes /\ y.rest \in Seq(Chars)
                    /\ LeadsTo(w \o y.rest, Len(w) + Len(y.rest), y.npos)
           S == {d \in 0 .. top : \A y \in D[d] : Ok(y)}
<1>1. top \in Nat
  BY LongestFacts
<1>2. /\ D[0] = {[npos |-> m, rest |-> <<>>]}
      /\ \A d \in 1 .. top : D[d] = DownStep(D[d - 1])
  BY DownMade
<1>3. PICK d \in 0 .. top : x \in D[d]
  BY BelowIs
<1> HIDE DEF top, D
<1>4. Len(w) \in Nat /\ \A y \in Seq(Chars) :
         /\ w \o y \in Seq(Chars) /\ Len(y) \in Nat /\ Len(w \o y) = Len(w) + Len(y)
         /\ \A j \in 1 .. Len(w) : (w \o y)[j] = w[j]
         /\ \A j \in 1 .. Len(y) : (w \o y)[Len(w) + j] = y[j]
  <2> HIDE DEF Chars
  <2> QED
    OBVIOUS
<1>5. 0 \in S
  <2> DEFINE y == [npos |-> m, rest |-> <<>>]
  <2>1. <<>> \in Seq(Chars) /\ w \o <<>> = w /\ Len(w) + Len(<<>>) = Len(w)
    <3> HIDE DEF Chars
    <3> QED
      BY <1>4
  <2>2. Ok(y)
    BY <2>1
  <2> HIDE DEF Ok
  <2> QED
    BY <1>1, <1>2, <2>2
<1>6. ASSUME NEW e \in 0 .. top - 1, e \in S
      PROVE  e + 1 \in S
  <2>1. e + 1 \in 1 .. top /\ e + 1 \in 0 .. top /\ (e + 1) - 1 = e
    BY <1>1
  <2>2. D[e + 1] = DownStep(D[e])
    BY <1>2, <2>1
  <2> SUFFICES ASSUME NEW y \in D[e + 1]
               PROVE  Ok(y)
    BY <2>1
  <2>3. PICK at \in D[e] : \E ch \in Following(at) : y = [npos |-> ChildOf(at.npos, ch), rest |-> Append(at.rest, ch)]
    BY <2>2 DEF DownStep
  <2>4. PICK ch \in Following(at) : y = [npos |-> ChildOf(at.npos, ch), rest |-> Append(at.rest, ch)]
    BY <2>3
  <2>5. Ok(at)
    BY <1>6
  <2> DEFINE n == at.npos
             a == at.rest
             b == Append(a, ch)
             child == Child(arr.base[n], ch)
             k == Len(w) + Len(a)
  <2>6. ch \in Chars /\ n \in Inner /\ arr.check[child] = n
    BY <2>5, FollowingFacts
  <2>7. child \in Units /\ child \in Nodes /\ y.npos = child /\ y.rest = b
    BY <2>4, <2>6, ChildUnit
  <2> HIDE DEF child
  <2>8. a \in Seq(Chars) /\ LeadsTo(w \o a, k, n)
    BY <2>5
  <2> HIDE DEF n, a, Ok
  <2>9. /\ b \in Seq(Chars) /\ Len(b) = Len(a) + 1 /\ Len(a) \in Nat
        /\ \A j \in 1 .. Len(a) : b[j] = a[j]
        /\ b[Len(a) + 1] = ch
    BY <2>6, <2>8, AppendFacts
  <2> HIDE DEF b
  <2>10. k \in Nat /\ Len(w) + Len(b) = k + 1
    BY <1>4, <2>9
  <2>11. \A j \in 1 .. k : (w \o a)[j] = (w \o b)[j]
    <3> SUFFICES ASSUME NEW j \in 1 .. k
                 PROVE  (w \o a)[j] = (w \o b)[j]
      OBVIOUS
    <3>1. CASE j \in 1 .. Len(w)
      BY <1>4, <2>8, <2>9, <3>1
    <3>2. CASE j \notin 1 .. Len(w)
      <4>1. PICK i \in 1 .. Len(a) : j = Len(w) + i
        <5>1. j - Len(w) \in 1 .. Len(a) /\ j = Len(w) + (j - Len(w))
          BY <1>4, <2>9, <3>2
        <5> QED
          BY <5>1
      <4>2. i \in 1 .. Len(b)
        BY <2>9
      <4>3. (w \o a)[j] = a[i] /\ (w \o b)[j] = b[i]
        BY <1>4, <2>8, <2>9, <4>1, <4>2
      <4> QED
        BY <2>9, <4>3
    <3> QED
      BY <3>1, <3>2
  <2>12. (w \o b)[k + 1] = ch
    <3>1. Len(a) + 1 \in 1 .. Len(b) /\ Len(w) + (Len(a) + 1) = k + 1
      BY <1>4, <2>9
    <3>2. (w \o b)[Len(w) + (Len(a) + 1)] = b[Len(a) + 1]
      BY <1>4, <2>9, <3>1
    <3> QED
      BY <2>9, <3>1, <3>2
  <2> HIDE DEF k
  <2>13. LeadsTo(w \o b, k, n)
    BY ONLY <2>8, <2>10, <2>11, LeadsAlike
  <2>14. child = Child(arr.base[n], (w \o b)[k + 1]) /\ arr.check[child] = n
    BY <2>6, <2>12 DEF child
  <2>15. LeadsTo(w \o b, k + 1, child)
    BY <2>6, <2>7, <2>10, <2>13, <2>14, LeadsOn
  <2> QED
    BY <2>7, <2>9, <2>10, <2>15 DEF Ok
<1>7. d \in S
  <2> HIDE DEF S
  <2> QED
    BY ONLY <1>1, <1>3, <1>5, <1>6, Rounds
<1> QED
  BY <1>3, <1>7

\* Every node on the path of a word is below the nodes before it.
LEMMA BelowHas ==
    ASSUME Finished, NEW word \in Seq(Chars), \A j \in 1 .. Len(word) : word[j] \in Alphabet,
           NEW lo \in 0 .. Len(word), NEW k \in lo .. Len(word), k <= max_length,
           NEW m, LeadsTo(word, lo, m), NEW n, LeadsTo(word, k, n)
    PROVE  [npos |-> n, rest |-> SubSeq(word, lo + 1, k)] \in Below(m)
<1> DEFINE top == k - lo
           D == Downward(m)
           Entry(q, e) == [npos |-> q, rest |-> SubSeq(word, lo + 1, e)]
           S == {d \in 0 .. top : \A q : LeadsTo(word, lo + d, q) => Entry(q, lo + d) \in D[d]}
<1>1. /\ top \in Nat /\ lo \in Nat /\ k \in Nat /\ k <= Len(word) /\ Len(word) \in Nat
      /\ max_length \in Nat /\ top <= max_length /\ lo + top = k
  BY LongestFacts
<1>2. m \in Nodes
  BY <1>1, LeadsThrough, LeadsUnique
<1>3. /\ D[0] = {[npos |-> m, rest |-> <<>>]}
      /\ \A d \in 1 .. max_length : D[d] = DownStep(D[d - 1])
  BY <1>2, DownMade
<1>4. Below(m) = UNION {D[d] : d \in 0 .. max_length}
  BY BelowIs
<1> HIDE DEF top, D
<1>5. 0 \in S
  <2> SUFFICES ASSUME NEW q, LeadsTo(word, lo + 0, q)
               PROVE  Entry(q, lo + 0) \in D[0]
    BY <1>1
  <2>1. lo + 0 = lo
    BY <1>1
  <2>2. q = m
    BY <1>1, <2>1, LeadsUnique
  <2>3. SubSeq(word, lo + 1, lo + 0) = <<>>
    BY <1>1
  <2> QED
    BY <1>3, <2>2, <2>3
<1>6. ASSUME NEW d \in 0 .. top - 1, d \in S
      PROVE  d + 1 \in S
  <2>1. /\ d + 1 \in 0 .. top /\ d + 1 \in 1 .. max_length /\ (d + 1) - 1 = d
        /\ lo + (d + 1) = (lo + d) + 1 /\ lo + d \in Nat
        /\ lo + d \in lo .. Len(word) - 1 /\ (lo + d) + 1 \in 1 .. Len(word)
    BY <1>1
  <2> DEFINE e == lo + d
  <2> SUFFICES ASSUME NEW q, LeadsTo(word, e + 1, q)
               PROVE  Entry(q, e + 1) \in D[d + 1]
    BY <2>1
  <2> DEFINE p == arr.check[q]
             ch == word[e + 1]
  <2>2. q \in Nodes /\ p \in Inner /\ LeadsTo(word, e, p) /\ q = Child(arr.base[p], ch)
    BY <2>1, LeadsBack
  <2>3. Entry(p, e) \in D[d]
    BY <1>6, <2>2
  <2>4. ch \in Alphabet
    BY <2>1
  <2>5. p \in Nodes
    BY <2>2, FinishedFacts
  <2> HIDE DEF ch, p
  <2>6. arr.check[Child(arr.base[p], ch)] = p
    BY <2>2 DEF p
  <2> DEFINE at == Entry(p, e)
  <2>7. at.npos = p /\ at.rest = SubSeq(word, lo + 1, e)
    OBVIOUS
  <2>8. ch \in Chars
    <3> HIDE DEF Chars
    <3> QED
      BY <2>1 DEF ch
  <2>9. ch \in Following(at)
    <3> HIDE DEF at
    <3> QED
      BY <2>2, <2>4, <2>5, <2>6, <2>7, <2>8, FollowingFacts
  <2>10. ChildOf(p, ch) = q
    BY <2>2, <2>8, ChildUnit
  <2>11. Append(SubSeq(word, lo + 1, e), ch) = SubSeq(word, lo + 1, e + 1)
    BY <1>1, <2>1, CharsAreNumbers, GrowFacts DEF ch
  <2>12. Entry(q, e + 1) = [npos |-> ChildOf(at.npos, ch), rest |-> Append(at.rest, ch)]
    BY <2>7, <2>10, <2>11
  <2>13. Entry(q, e + 1) \in DownStep(D[d])
    <3>1. at \in D[d]
      BY <2>3
    <3> HIDE DEF Entry, at
    <3>2. [npos |-> ChildOf(at.npos, ch), rest |-> Append(at.rest, ch)] \in DownStep(D[d])
      BY ONLY <3>1, <2>9, DownHas
    <3> QED
      BY <2>12, <3>2
  <2> QED
    BY <1>3, <2>1, <2>13
<1>7. top \in S
  <2>1. top \in 0 .. top
    BY <1>1
  <2> HIDE DEF S
  <2> QED
    BY ONLY <1>1, <2>1, <1>5, <1>6, Rounds
<1>8. Entry(n, k) \in D[top] /\ top \in 0 .. max_length
  <2>1. \A q : LeadsTo(word, lo + top, q) => Entry(q, lo + top) \in D[top]
    BY <1>7
  <2>2. LeadsTo(word, lo + top, n)
    BY <1>1
  <2> HIDE DEF Entry
  <2> QED
    BY <1>1, <2>1, <2>2
<1> QED
  BY <1>4, <1>8

-----------------------------------------------------------------------------
(* What a predictive search answers. *)

LEMMA PrefixFacts ==
    ASSUME NEW a \in Seq(Nat), NEW b \in Seq(Nat)
    PROVE  IsPrefix(a, b) <=> Len(a) <= Len(b) /\ \A j \in 1 .. Len(a) : a[j] = b[j]
<1>1. Len(a) \in Nat /\ Len(b) \in Nat /\ Len(a) \in 0 .. Len(a)
  OBVIOUS
<1>2. ASSUME Len(a) <= Len(b)
      PROVE  SubSeq(a, 1, Len(a)) = SubSeq(b, 1, Len(a)) <=> \A j \in 1 .. Len(a) : a[j] = b[j]
  <2> DEFINE x == SubSeq(a, 1, Len(a))
             y == SubSeq(b, 1, Len(a))
  <2>1. x \in Seq(Nat) /\ Len(x) = Len(a) /\ \A j \in 1 .. Len(a) : x[j] = a[j]
    BY <1>1, FirstFacts
  <2>2. y \in Seq(Nat) /\ Len(y) = Len(a) /\ \A j \in 1 .. Len(a) : y[j] = b[j]
    <3>1. Len(a) \in 0 .. Len(b)
      BY <1>1, <1>2
    <3> QED
      BY <3>1, FirstFacts
  <2> HIDE DEF x, y
  <2>3. (\A j \in 1 .. Len(a) : a[j] = b[j]) => x = y
    BY <2>1, <2>2, SameSeq
  <2> QED
    BY <2>1, <2>2, <2>3 DEF x, y
<1> QED
  BY <1>2 DEF IsPrefix

\* Sequences that agree up to k are compared by what follows.
LEMMA RestPrefix ==
    ASSUME NEW a \in Seq(Nat), NEW b \in Seq(Nat), NEW k \in Nat, k <= Len(a), k <= Len(b),
           \A j \in 1 .. k : a[j] = b[j]
    PROVE  IsPrefix(SubSeq(a, k + 1, Len(a)), SubSeq(b, k + 1, Len(b))) <=> IsPrefix(a, b)
<1> DEFINE x == SubSeq(a, k + 1, Len(a))
           y == SubSeq(b, k + 1, Len(b))
<1>1. x \in Seq(Nat) /\ Len(x) = Len(a) - k /\ \A j \in 1 .. Len(a) - k : x[j] = a[k + j]
  BY RestFacts
<1>2. y \in Seq(Nat) /\ Len(y) = Len(b) - k /\ \A j \in 1 .. Len(b) - k : y[j] = b[k + j]
  BY RestFacts
<1>3. Len(a) \in Nat /\ Len(b) \in Nat
  OBVIOUS
<1> HIDE DEF x, y
<1>4. IsPrefix(x, y) <=> Len(x) <= Len(y) /\ \A j \in 1 .. Len(x) : x[j] = y[j]
  BY <1>1, <1>2, PrefixFacts
<1>5. IsPrefix(a, b) <=> Len(a) <= Len(b) /\ \A j \in 1 .. Len(a) : a[j] = b[j]
  BY PrefixFacts
<1>6. Len(x) <= Len(y) <=> Len(a) <= Len(b)
  BY <1>1, <1>2, <1>3
<1>7. ASSUME Len(a) <= Len(b), \A j \in 1 .. Len(a) : a[j] = b[j], NEW j \in 1 .. Len(x)
      PROVE  x[j] = y[j]
  <2>1. j \in 1 .. Len(a) - k /\ j \in 1 .. Len(b) - k /\ k + j \in 1 .. Len(a)
    BY <1>1, <1>3, <1>7
  <2> QED
    BY <1>1, <1>2, <1>7, <2>1
<1>8. ASSUME Len(a) <= Len(b), \A j \in 1 .. Len(x) : x[j] = y[j], NEW j \in 1 .. Len(a)
      PROVE  a[j] = b[j]
  <2>1. CASE j <= k
    BY <2>1, <1>3
  <2>2. CASE j > k
    <3>1. PICK m \in 1 .. Len(a) - k : j = k + m
      <4>1. j - k \in 1 .. Len(a) - k /\ j = k + (j - k)
        BY <1>3, <2>2
      <4> QED
        BY <4>1
    <3>2. m \in 1 .. Len(b) - k /\ m \in 1 .. Len(x)
      BY <1>1, <1>3, <1>8
    <3> QED
      BY <1>1, <1>2, <1>8, <3>1, <3>2
  <2> QED
    BY <2>1, <2>2, <1>3
<1> QED
  BY <1>4, <1>5, <1>6, <1>7, <1>8 DEF x, y

LEMMA SameFirst ==
    ASSUME NEW a \in Seq(Nat), NEW b \in Seq(Nat), NEW k \in Nat, k <= Len(a), k <= Len(b),
           \A j \in 1 .. k : a[j] = b[j]
    PROVE  SubSeq(a, 1, k) = SubSeq(b, 1, k)
<1>1. k \in 0 .. Len(a) /\ k \in 0 .. Len(b)
  OBVIOUS
<1> DEFINE x == SubSeq(a, 1, k)
           y == SubSeq(b, 1, k)
<1>2. x \in Seq(Nat) /\ Len(x) = k /\ \A j \in 1 .. k : x[j] = a[j]
  BY <1>1, FirstFacts
<1>3. y \in Seq(Nat) /\ Len(y) = k /\ \A j \in 1 .. k : y[j] = b[j]
  BY <1>1, FirstFacts
<1> HIDE DEF x, y
<1>4. x = y
  BY <1>2, <1>3, SameSeq
<1> QED
  BY <1>4 DEF x, y

\* The rest of a sequence in two parts.
LEMMA MiddleFacts ==
    ASSUME NEW a \in Seq(Nat), NEW lo \in 0 .. Len(a), NEW k \in lo .. Len(a)
    PROVE  SubSeq(a, lo + 1, k) \o SubSeq(a, k + 1, Len(a)) = SubSeq(a, lo + 1, Len(a))
<1>1. Len(a) \in Nat /\ lo \in Nat /\ k \in Nat /\ lo <= k /\ k <= Len(a) /\ lo <= Len(a) /\ k \in 0 .. Len(a)
  OBVIOUS
<1> DEFINE p == SubSeq(a, 1, k)
           x == SubSeq(a, lo + 1, k)
           y == SubSeq(a, k + 1, Len(a))
           z == SubSeq(a, lo + 1, Len(a))
<1>2. p \in Seq(Nat) /\ Len(p) = k /\ \A j \in 1 .. k : p[j] = a[j]
  BY <1>1, FirstFacts
<1>3. y \in Seq(Nat) /\ Len(y) = Len(a) - k /\ \A j \in 1 .. Len(a) - k : y[j] = a[k + j]
  BY <1>1, RestFacts
<1>4. z \in Seq(Nat) /\ Len(z) = Len(a) - lo /\ \A j \in 1 .. Len(a) - lo : z[j] = a[lo + j]
  BY <1>1, RestFacts
<1>5. x = SubSeq(p, lo + 1, Len(p))
  BY <1>1, <1>2
<1> HIDE DEF p, y, z
<1>6. x \in Seq(Nat) /\ Len(x) = k - lo /\ \A j \in 1 .. k - lo : x[j] = p[lo + j]
  BY <1>1, <1>2, <1>5, RestFacts
<1> HIDE DEF x
<1>7. /\ x \o y \in Seq(Nat) /\ Len(x \o y) = Len(z)
      /\ \A j \in 1 .. Len(x) : (x \o y)[j] = x[j]
      /\ \A j \in 1 .. Len(y) : (x \o y)[Len(x) + j] = y[j]
  <2>1. /\ x \o y \in Seq(Nat) /\ Len(x \o y) = Len(x) + Len(y)
        /\ \A j \in 1 .. Len(x) : (x \o y)[j] = x[j]
        /\ \A j \in 1 .. Len(y) : (x \o y)[Len(x) + j] = y[j]
    BY ONLY <1>3, <1>6, ConcatFacts
  <2>2. Len(x) + Len(y) = Len(z)
    BY ONLY <1>1, <1>3, <1>4, <1>6
  <2> QED
    BY ONLY <2>1, <2>2
<1>8. ASSUME NEW j \in 1 .. Len(x \o y)
      PROVE  (x \o y)[j] = z[j]
  <2>1. j \in 1 .. Len(a) - lo
    BY <1>4, <1>7
  <2>2. CASE j \in 1 .. k - lo
    <3>1. lo + j \in 1 .. k
      BY <1>1, <2>2
    <3>2. (x \o y)[j] = x[j] /\ x[j] = p[lo + j] /\ p[lo + j] = a[lo + j] /\ z[j] = a[lo + j]
      BY <1>2, <1>4, <1>6, <1>7, <2>1, <2>2, <3>1
    <3> QED
      BY ONLY <3>2
  <2>3. CASE j \notin 1 .. k - lo
    <3>1. PICK m \in 1 .. Len(a) - k : j = (k - lo) + m
      <4>1. j - (k - lo) \in 1 .. Len(a) - k /\ j = (k - lo) + (j - (k - lo))
        BY <1>1, <2>1, <2>3
      <4> QED
        BY <4>1
    <3>2. lo + j = k + m
      BY <1>1, <3>1
    <3>3. (x \o y)[j] = y[m]
      BY <1>3, <1>6, <1>7, <3>1
    <3> QED
      BY <1>3, <1>4, <2>1, <3>1, <3>2, <3>3
  <2> QED
    BY <2>2, <2>3
<1>9. x \o y = z
  BY ONLY <1>4, <1>7, <1>8, SameSeq
<1> QED
  BY <1>9 DEF x, y, z

LEMMA ConcatAssociates ==
    ASSUME NEW a \in Seq(Nat), NEW b \in Seq(Nat), NEW c \in Seq(Nat)
    PROVE  a \o (b \o c) = (a \o b) \o c
OBVIOUS

\* A terminal node that a word leads to is that of a key which agrees so far.
LEMMA NodeKey ==
    ASSUME Finished, NEW word \in Seq(Chars), NEW k \in 0 .. Len(word), NEW n \in terms, LeadsTo(word, k, n)
    PROVE  \E i \in KeyAt :
               LET rest == SubSeq(Key(i), k + 1, Len(Key(i)))
               IN  /\ k <= Len(Key(i)) /\ \A j \in 1 .. k : word[j] = Key(i)[j]
                   /\ n \in leaves \/ k = Len(Key(i))
                   /\ n \in leaves => DecodeTail(tvec, arr.base[n]) = rest
                   /\ n \in leaves /\ arr.base[n] # 0 => Run(tvec, arr.base[n]) = rest
                   /\ Lookup(Key(i)) = npos_to_id(n)
<1>1. PICK i \in KeyAt : Placed(i, n)
  BY FinishedFacts DEF Settled, WordsInv, TermsPlaced
<1>2. PICK m \in 0 .. Len(Key(i)) : Reaches(i, m, n) /\ EndsAt(i, m, n)
  BY <1>1 DEF Placed
<1>3. PICK q \in [0 .. k -> Units] : Along(word, k, q) /\ q[k] = n
  BY DEF LeadsTo
<1>4. k = m /\ \A j \in 1 .. k : word[j] = Key(i)[j]
  BY <1>2, <1>3, FinishedFacts, SamePath
<1>5. k <= Len(Key(i))
  BY <1>4, KeyTypes
<1> DEFINE rest == SubSeq(Key(i), m + 1, Len(Key(i)))
<1>6. /\ n \in leaves \/ m = Len(Key(i))
      /\ n \in leaves => DecodeTail(tvec, arr.base[n]) = rest
      /\ n \in leaves /\ m < Len(Key(i)) => arr.base[n] # 0 /\ Run(tvec, arr.base[n]) = rest
      /\ n \in leaves /\ arr.base[n] # 0 => m < Len(Key(i))
      /\ Lookup(Key(i)) = npos_to_id(n)
  BY <1>2, KeyShape
<1> QED
  BY <1>4, <1>5, <1>6

Entries(w, kpos, found) == {[id |-> npos_to_id(k.npos), key |-> SubSeq(w, 1, kpos) \o k.rest] : k \in found}

LEMMA SearchFacts ==
    ASSUME NEW w, NEW at, at = Reached(w), NEW tpos, tpos = Link(bcvec, at.npos)
    PROVE  /\ at.lost => PredictiveSearch(w) = Entries(w, at.kpos, {})
           /\ ~at.lost /\ Rest(w, at) = <<>> => PredictiveSearch(w) = Entries(w, at.kpos, KeysUnder(at.npos))
           /\ ~at.lost /\ Rest(w, at) # <<>> =>
                 PredictiveSearch(w) = Entries(w, at.kpos, IF tpos = 0 \/ ~PrefixMatch(tvec, Rest(w, at), tpos) THEN {}
                                                           ELSE {[npos |-> at.npos, rest |-> DecodeTail(tvec, tpos)]})
BY DEF PredictiveSearch, Entries

\* A key with the prefix is reported, under its id.
LEMMA KeyReported ==
    ASSUME Finished, NEW w \in Seq(Chars), NEW i \in KeyAt, IsPrefix(w, Key(i))
    PROVE  [id |-> Lookup(Key(i)), key |-> Key(i)] \in PredictiveSearch(w)
<1> DEFINE key == Key(i)
           L == Len(w)
           at == Reached(w)
<1>1. key \in Seq(Chars) /\ key \in Seq(Nat) /\ Len(key) \in Nat /\ Len(key) <= max_length /\ max_length \in Nat
  BY KeyTypes, LongestFacts
<1>2. w \in Seq(Nat) /\ L \in Nat
  BY CharsAreNumbers
<1>3. L <= Len(key) /\ \A j \in 1 .. L : w[j] = key[j]
  BY <1>1, <1>2, PrefixFacts
<1>4. PICK n \in terms : \E k \in 0 .. Len(key) : Reaches(i, k, n) /\ EndsAt(i, k, n)
  BY KeyNode
<1>5. PICK k \in 0 .. Len(key) : Reaches(i, k, n) /\ EndsAt(i, k, n)
  BY <1>4
<1> DEFINE rest == SubSeq(key, k + 1, Len(key))
<1>6. /\ LeadsTo(key, k, n) /\ (n \in leaves \/ k = Len(key))
      /\ n \in leaves => DecodeTail(tvec, arr.base[n]) = rest
      /\ n \in leaves /\ k < Len(key) => arr.base[n] # 0 /\ Run(tvec, arr.base[n]) = rest
      /\ Lookup(key) = npos_to_id(n)
  BY <1>5, KeyShape
<1>7. /\ n \in Units
      /\ IsLeafNode(n) = (n \in leaves)
      /\ n \in leaves => Link(bcvec, n) = arr.base[n]
  <2>1. n \in Units
    BY FinishedFacts
  <2> QED
    BY <2>1, ReadFacts
<1>a. \A j \in 1 .. Len(key) : key[j] \in Alphabet
  BY KeyTypes
<1> HIDE DEF key, L
<1>8. \A y : SubSeq(key, 1, at.kpos) = SubSeq(w, 1, at.kpos) /\ SubSeq(w, 1, at.kpos) \o y.rest = key
             => [id |-> npos_to_id(n), key |-> key] = [id |-> npos_to_id(n), key |-> SubSeq(w, 1, at.kpos) \o y.rest]
  OBVIOUS
<1>9. ASSUME NEW Y, NEW y \in Y, y.npos = n, SubSeq(w, 1, at.kpos) \o y.rest = key
      PROVE  [id |-> Lookup(key), key |-> key] \in Entries(w, at.kpos, Y)
  BY <1>6, <1>9 DEF Entries
<1> HIDE DEF at
<1>10. CASE L <= k
  <2>1. L \in 0 .. k /\ k \in Nat /\ L \in 0 .. Len(key) /\ k \in L .. Len(key) /\ k <= max_length /\ L \in 0 .. Len(w)
    BY <1>1, <1>2, <1>3, <1>10 DEF L
  <2>2. PICK m \in Nodes : LeadsTo(key, L, m)
    BY <1>6, <2>1, LeadsThrough
  <2>3. LeadsTo(w, L, m)
    BY <1>2, <1>3, <2>2, LeadsAlike
  <2>4. ~at.lost /\ at.kpos = L /\ at.npos = m
    BY <2>1, <2>3, ReachedIs DEF at, L
  <2>5. Rest(w, at) = <<>>
    BY <1>2, <2>4 DEF Rest, L
  <2>6. PredictiveSearch(w) = Entries(w, at.kpos, KeysUnder(m))
    BY <2>4, <2>5, SearchFacts DEF at
  <2> DEFINE y == [npos |-> n, rest |-> SubSeq(key, L + 1, k)]
  <2>7. y \in Below(m)
    BY <1>1, <1>6, <1>a, <2>1, <2>2, BelowHas
  <2>8. SubSeq(w, 1, at.kpos) = SubSeq(key, 1, L)
    BY <1>1, <1>2, <1>3, <2>4, SameFirst DEF L
  <2>9. SubSeq(key, 1, L) \o SubSeq(key, L + 1, Len(key)) = key
    BY <1>1, <2>1, FirstFacts
  <2>10. y.npos = n /\ y.rest = SubSeq(key, L + 1, k)
    OBVIOUS
  <2> HIDE DEF y
  <2>11. CASE n \in leaves
    <3> DEFINE z == EndsAtLeaf(y)
    <3>1. IsLeafNode(y.npos)
      BY <1>7, <2>10, <2>11
    <3>2. z \in KeysUnder(m)
      BY <2>7, <3>1 DEF KeysUnder
    <3>3. z.npos = n /\ z.rest = SubSeq(key, L + 1, k) \o rest
      BY <1>6, <1>7, <2>10, <2>11 DEF EndsAtLeaf
    <3>4. SubSeq(key, L + 1, k) \o rest = SubSeq(key, L + 1, Len(key))
      BY <1>1, <2>1, MiddleFacts
    <3> HIDE DEF z, rest
    <3>5. SubSeq(w, 1, at.kpos) \o z.rest = key
      BY <2>8, <2>9, <3>3, <3>4
    <3> QED
      BY <1>9, <2>6, <3>2, <3>3, <3>5 DEF key
  <2>12. CASE n \notin leaves
    <3>1. k = Len(key)
      BY <1>6, <2>12
    <3>2. ~IsLeafNode(y.npos) /\ y.npos \in terms
      BY <1>7, <2>10, <2>12
    <3>3. y \in KeysUnder(m)
      BY <2>7, <3>2 DEF KeysUnder
    <3>4. SubSeq(w, 1, at.kpos) \o y.rest = key
      BY <2>8, <2>9, <2>10, <3>1
    <3> QED
      BY <1>9, <2>6, <2>10, <3>3, <3>4 DEF key
  <2> QED
    BY <2>11, <2>12
<1>11. CASE k < L
  <2>1. k \in Nat /\ k <= Len(key) /\ k < Len(key) /\ k <= Len(w) /\ k \in 0 .. Len(w) /\ \A j \in 1 .. k : w[j] = key[j]
    BY <1>1, <1>2, <1>3, <1>11 DEF L
  <2>2. n \in leaves /\ arr.base[n] # 0 /\ Run(tvec, arr.base[n]) = rest /\ DecodeTail(tvec, arr.base[n]) = rest
    BY <1>1, <1>6, <2>1
  <2>3. LeadsTo(w, k, n)
    BY <1>6, <2>1, LeadsAlike
  <2>4. ~at.lost /\ at.kpos = k /\ at.npos = n
    BY <2>1, <2>2, <2>3, ReachedIs DEF at
  <2> DEFINE x == SubSeq(w, k + 1, Len(w))
  <2>5. Rest(w, at) = x
    BY <2>4 DEF Rest
  <2>6. x # <<>>
    <3>1. Len(x) = Len(w) - k
      BY <1>2, <2>1, RestFacts
    <3> HIDE DEF x
    <3> QED
      BY <1>2, <1>11, <2>1, <3>1 DEF L
  <2>7. IsPrefix(x, rest)
    BY <1>1, <1>2, <2>1, RestPrefix DEF key
  <2> HIDE DEF x, rest
  <2>8. PrefixMatch(tvec, x, arr.base[n])
    BY <2>2, <2>6, <2>7 DEF PrefixMatch
  <2>9. Link(bcvec, at.npos) = arr.base[n]
    BY <1>7, <2>2, <2>4
  <2> DEFINE z == [npos |-> n, rest |-> rest]
  <2>10. PredictiveSearch(w) = Entries(w, at.kpos, {z})
    <3> DEFINE tpos == arr.base[n]
    <3>1. ~(tpos = 0 \/ ~PrefixMatch(tvec, Rest(w, at), tpos))
      BY <2>2, <2>5, <2>8
    <3>2. PredictiveSearch(w) = Entries(w, at.kpos, IF tpos = 0 \/ ~PrefixMatch(tvec, Rest(w, at), tpos) THEN {}
                                                    ELSE {[npos |-> at.npos, rest |-> DecodeTail(tvec, tpos)]})
      <4>1. Rest(w, at) # <<>>
        BY <2>5, <2>6
      <4> QED
        BY <2>4, <2>9, <4>1, SearchFacts DEF at
    <3> HIDE DEF tpos
    <3>3. PredictiveSearch(w) = Entries(w, at.kpos, {[npos |-> at.npos, rest |-> DecodeTail(tvec, tpos)]})
      BY ONLY <3>1, <3>2
    <3> QED
      BY <2>2, <2>4, <3>3 DEF tpos
  <2>11. SubSeq(w, 1, at.kpos) \o z.rest = key
    <3>1. SubSeq(w, 1, at.kpos) = SubSeq(key, 1, k)
      BY <1>1, <1>2, <2>1, <2>4, SameFirst
    <3>2. SubSeq(key, 1, k) \o rest = key
      BY <1>1, FirstFacts DEF rest
    <3> QED
      BY <3>1, <3>2
  <2>12. z \in {z} /\ z.npos = n
    OBVIOUS
  <2> HIDE DEF z
  <2> QED
    BY <1>9, <2>10, <2>11, <2>12 DEF key
<1> QED
  BY <1>1, <1>2, <1>10, <1>11

\* What is reported is a key with the prefix, or one that the prefix goes on from.
LEMMA ReportedIsKey ==
    ASSUME Finished, NEW w \in Seq(Chars), NEW e \in PredictiveSearch(w)
    PROVE  \E i \in KeyAt : /\ e = [id |-> Lookup(Key(i)), key |-> Key(i)]
                            /\ IsPrefix(w, Key(i)) \/ IsStrictPrefix(Key(i), w)
<1> DEFINE L == Len(w)
           at == Reached(w)
<1>1. w \in Seq(Nat) /\ L \in Nat
  BY CharsAreNumbers
<1>2. /\ at \in Standing /\ at.kpos \in 0 .. L /\ LeadsTo(w, at.kpos, at.npos)
      /\ ~at.lost => at.npos \in leaves \/ at.kpos = L
  BY ReachedFacts
<1> DEFINE k == at.kpos
           n == at.npos
           tpos == Link(bcvec, n)
           rest == Rest(w, at)
<1>3. /\ at.lost => PredictiveSearch(w) = Entries(w, k, {})
      /\ ~at.lost /\ rest = <<>> => PredictiveSearch(w) = Entries(w, k, KeysUnder(n))
      /\ ~at.lost /\ rest # <<>> =>
            PredictiveSearch(w) = Entries(w, k, IF tpos = 0 \/ ~PrefixMatch(tvec, rest, tpos) THEN {}
                                                ELSE {[npos |-> n, rest |-> DecodeTail(tvec, tpos)]})
  BY SearchFacts
<1>4. \A Y : e \in Entries(w, k, Y) =>
                \E y \in Y : e = [id |-> npos_to_id(y.npos), key |-> SubSeq(w, 1, k) \o y.rest]
  BY DEF Entries
<1>5. n \in Nodes /\ n \in Units /\ k \in 0 .. L /\ k \in Nat /\ LeadsTo(w, k, n) /\ (~at.lost => n \in leaves \/ k = L)
  BY <1>2, FinishedFacts DEF Standing
<1>6. rest = SubSeq(w, k + 1, L)
  BY DEF Rest
<1>7. rest \in Seq(Nat) /\ Len(rest) = L - k
  BY <1>1, <1>5, <1>6, RestFacts
<1> HIDE DEF at, k, n, tpos, rest
<1>8. ~at.lost
  <2> HIDE DEF L
  <2> QED
    BY <1>3, <1>4
<1>9. CASE rest = <<>>
  <2>1. k = L
    BY <1>1, <1>5, <1>7, <1>9
  <2>2. PICK x \in KeysUnder(n) : e = [id |-> npos_to_id(x.npos), key |-> SubSeq(w, 1, k) \o x.rest]
    BY <1>3, <1>4, <1>8, <1>9
  <2>3. PICK y \in Below(n) : \/ IsLeafNode(y.npos) /\ x = EndsAtLeaf(y)
                              \/ ~IsLeafNode(y.npos) /\ y.npos \in terms /\ x = y
    BY DEF KeysUnder
  <2> DEFINE word == w \o y.rest
             l == Len(w) + Len(y.rest)
             m == y.npos
  <2>4. m \in Nodes /\ y.rest \in Seq(Chars) /\ LeadsTo(word, l, m)
    BY <1>5, <2>1, BelowLeads
  <2>5. word \in Seq(Chars) /\ Len(word) = l /\ l \in Nat /\ y.rest \in Seq(Nat) /\ word \in Seq(Nat)
    <3>1. y.rest \in Seq(Nat)
      BY <2>4, CharsAreNumbers
    <3>2. word \in Seq(Chars)
      <4> HIDE DEF Chars
      <4> QED
        BY <2>4
    <3>3. word \in Seq(Nat)
      BY <3>2, CharsAreNumbers
    <3> QED
      BY <1>1, <3>1, <3>2, <3>3
  <2>6. m \in Units /\ IsLeafNode(m) = (m \in leaves) /\ (m \in leaves => Link(bcvec, m) = arr.base[m])
    BY <2>4, FinishedFacts, ReadFacts
  <2>7. m \in terms
    BY <2>3, <2>6, FinishedFacts
  <2>8. PICK i \in KeyAt :
            /\ l <= Len(Key(i)) /\ \A j \in 1 .. l : word[j] = Key(i)[j]
            /\ m \in leaves \/ l = Len(Key(i))
            /\ m \in leaves => DecodeTail(tvec, arr.base[m]) = SubSeq(Key(i), l + 1, Len(Key(i)))
            /\ Lookup(Key(i)) = npos_to_id(m)
    <3>1. l \in 0 .. Len(word)
      BY <2>5
    <3> HIDE DEF word, l, m
    <3>2. PICK i \in KeyAt :
              LET suffix == SubSeq(Key(i), l + 1, Len(Key(i)))
              IN  /\ l <= Len(Key(i)) /\ \A j \in 1 .. l : word[j] = Key(i)[j]
                  /\ m \in leaves \/ l = Len(Key(i))
                  /\ m \in leaves => DecodeTail(tvec, arr.base[m]) = suffix
                  /\ m \in leaves /\ arr.base[m] # 0 => Run(tvec, arr.base[m]) = suffix
                  /\ Lookup(Key(i)) = npos_to_id(m)
      BY <2>4, <2>5, <2>7, <3>1, NodeKey
    <3> QED
      BY <3>2
  <2> DEFINE key == Key(i)
             tail == SubSeq(key, l + 1, Len(key))
  <2>9. key \in Seq(Nat) /\ Len(key) \in Nat
    BY KeyTypes
  <2>10. SubSeq(word, 1, l) = SubSeq(key, 1, l)
    <3> HIDE DEF word, l
    <3> QED
      BY <2>5, <2>8, <2>9, SameFirst
  <2>11. SubSeq(key, 1, l) \o tail = key
    <3>1. l \in 0 .. Len(key)
      <4> HIDE DEF l
      <4> QED
        BY <2>5, <2>8, <2>9
    <3> HIDE DEF l, key
    <3> QED
      BY <2>9, <3>1, FirstFacts
  <2>12. SubSeq(word, 1, l) = word
    <3> HIDE DEF word
    <3> QED
      BY <2>5
  <2>13. tail \in Seq(Nat) /\ Len(tail) = Len(key) - l
    <3> HIDE DEF l
    <3> QED
      BY <2>5, <2>8, <2>9, RestFacts
  <2>14. x.npos = m /\ x.rest = y.rest \o tail
    <3>1. CASE IsLeafNode(m)
      <4>1. m \in leaves /\ DecodeTail(tvec, Link(bcvec, m)) = tail /\ x = EndsAtLeaf(y)
        BY <2>3, <2>6, <2>8, <3>1
      <4> HIDE DEF tail
      <4> QED
        BY <4>1 DEF EndsAtLeaf
    <3>2. CASE ~IsLeafNode(m)
      <4>1. tail = <<>>
        <5>1. Len(tail) = 0
          <6>1. l = Len(key)
            BY <2>6, <2>8, <3>2
          <6> HIDE DEF tail, l, key
          <6> QED
            BY <2>9, <2>13, <6>1
        <5> HIDE DEF tail
        <5> QED
          BY <2>13, <5>1
      <4>2. y.rest \o <<>> = y.rest
        BY <2>5
      <4> HIDE DEF tail
      <4> QED
        BY <2>3, <3>2, <4>1, <4>2
    <3> QED
      BY <3>1, <3>2
  <2>15. SubSeq(w, 1, k) = w
    BY <1>1, <2>1
  <2>16. w \o (y.rest \o tail) = (w \o y.rest) \o tail
    <3> HIDE DEF tail
    <3> QED
      BY <1>1, <2>5, <2>13, ConcatAssociates
  <2>17. e = [id |-> Lookup(key), key |-> key]
    <3> HIDE DEF tail, key, l, m, k
    <3>1. e = [id |-> npos_to_id(m), key |-> w \o (y.rest \o tail)]
      BY <2>2, <2>14, <2>15
    <3>2. w \o (y.rest \o tail) = key
      BY <2>10, <2>11, <2>12, <2>16
    <3> QED
      BY <2>8, <3>1, <3>2 DEF key
  <2>18. IsPrefix(w, key)
    <3>1. \A j \in 1 .. Len(w) : word[j] = w[j] /\ j \in 1 .. l
      BY <1>1, <2>5
    <3>2. Len(w) <= l /\ l <= Len(key)
      BY <1>1, <2>5, <2>8
    <3> HIDE DEF word
    <3>3. \A j \in 1 .. Len(w) : w[j] = key[j]
      BY <2>8, <3>1
    <3>4. Len(w) <= Len(key)
      BY <1>1, <2>5, <2>9, <3>2
    <3> HIDE DEF key, l
    <3> QED
      BY <1>1, <2>9, <3>3, <3>4, PrefixFacts
  <2> QED
    BY <2>17, <2>18
<1>10. CASE rest # <<>>
  <2>1. tpos # 0 /\ PrefixMatch(tvec, rest, tpos)
    BY <1>3, <1>4, <1>8, <1>10
  <2>2. e = [id |-> npos_to_id(n), key |-> SubSeq(w, 1, k) \o DecodeTail(tvec, tpos)]
    <3> DEFINE y == [npos |-> n, rest |-> DecodeTail(tvec, tpos)]
    <3>1. PredictiveSearch(w) = Entries(w, k, {y})
      BY <1>3, <1>8, <1>10, <2>1
    <3> HIDE DEF y
    <3>2. e \in Entries(w, k, {y})
      BY <3>1
    <3>3. \E x \in {y} : e = [id |-> npos_to_id(x.npos), key |-> SubSeq(w, 1, k) \o x.rest]
      BY ONLY <3>2 DEF Entries
    <3>4. e = [id |-> npos_to_id(y.npos), key |-> SubSeq(w, 1, k) \o y.rest]
      BY <3>3
    <3> QED
      BY <3>4 DEF y
  <2>3. k # L
    BY <1>1, <1>5, <1>7, <1>10
  <2>4. n \in leaves /\ n \in terms /\ tpos = arr.base[n]
    BY <1>5, <1>8, <2>3, FinishedFacts, ReadFacts DEF tpos
  <2>5. PICK i \in KeyAt :
            /\ k <= Len(Key(i)) /\ \A j \in 1 .. k : w[j] = Key(i)[j]
            /\ DecodeTail(tvec, tpos) = SubSeq(Key(i), k + 1, Len(Key(i)))
            /\ Run(tvec, tpos) = SubSeq(Key(i), k + 1, Len(Key(i)))
            /\ Lookup(Key(i)) = npos_to_id(n)
    BY <1>5, <2>1, <2>4, NodeKey
  <2> DEFINE key == Key(i)
             suffix == SubSeq(key, k + 1, Len(key))
  <2>6. key \in Seq(Nat) /\ Len(key) \in Nat
    BY KeyTypes
  <2>7. k <= Len(key) /\ k <= Len(w) /\ \A j \in 1 .. k : w[j] = key[j]
    BY <1>1, <1>5, <2>5
  <2>8. SubSeq(w, 1, k) = SubSeq(key, 1, k) /\ SubSeq(key, 1, k) \o suffix = key
    <3> HIDE DEF key
    <3>1. k \in 0 .. Len(key)
      BY <1>5, <2>6, <2>7
    <3> QED
      BY <1>1, <1>5, <2>6, <2>7, <3>1, SameFirst, FirstFacts
  <2>9. e = [id |-> Lookup(key), key |-> key]
    BY <2>2, <2>5, <2>8
  <2>10. IsPrefix(suffix, rest) \/ IsPrefix(rest, suffix)
    BY <2>1, <2>5 DEF PrefixMatch
  <2>11. CASE IsPrefix(rest, suffix)
    <3> HIDE DEF key
    <3>1. IsPrefix(w, key)
      BY <1>1, <1>5, <1>6, <2>6, <2>7, <2>11, RestPrefix
    <3> QED
      BY <2>9, <3>1 DEF key
  <2>12. CASE IsPrefix(suffix, rest)
    <3> HIDE DEF key
    <3>1. IsPrefix(key, w)
      BY <1>1, <1>5, <1>6, <2>6, <2>7, <2>12, RestPrefix
    <3>2. IsPrefix(w, key) \/ IsStrictPrefix(key, w)
      BY <3>1 DEF IsStrictPrefix
    <3> QED
      BY <2>9, <3>2 DEF key
  <2> QED
    BY <2>10, <2>11, <2>12
<1> QED
  BY <1>9, <1>10

\* A predictive search of the built trie reports every key with the prefix under its
\* id, and nothing else but keys the prefix goes on from: the walk below the node and
\* the comparison with the tail miss no key and invent none.
THEOREM KeysReported == Spec => []PredictiveFindsItsKeys
<1>1. TrieInv => PredictiveFindsItsKeys
  <2> SUFFICES ASSUME TrieInv, tvec.ready, NEW w \in Probes
               PROVE  LET found == PredictiveSearch(w)
                          Entry(k) == [id |-> Lookup(k), key |-> k]
                      IN  /\ {Entry(k) : k \in {k \in KeySet : IsPrefix(w, k)}} \subseteq found
                          /\ found \subseteq {Entry(k) : k \in {k \in KeySet : IsPrefix(w, k) \/ IsStrictPrefix(k, w)}}
    BY DEF PredictiveFindsItsKeys
  <2>1. Finished
    BY DEF Finished
  <2>2. w \in Seq(Chars)
    BY ProbesAssumption
  <2>3. ASSUME NEW k \in KeySet, IsPrefix(w, k)
        PROVE  [id |-> Lookup(k), key |-> k] \in PredictiveSearch(w)
    BY <2>1, <2>2, <2>3, KeySetIs, KeyReported
  <2>4. ASSUME NEW e \in PredictiveSearch(w)
        PROVE  \E k \in KeySet : e = [id |-> Lookup(k), key |-> k] /\ (IsPrefix(w, k) \/ IsStrictPrefix(k, w))
    BY <2>1, <2>2, KeySetIs, ReportedIsKey
  <2> QED
    BY <2>3, <2>4
<1> QED
  BY <1>1, TrieInvariant, PTL
=============================================================================

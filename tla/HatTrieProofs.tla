---------------------------- MODULE HatTrieProofs ----------------------------
(***************************************************************************)
(* The hat-trie for every alphabet, set of keys, hash and threshold: its   *)
(* tables stay sound through rehashes, squeezes and bursts, its tree stays *)
(* a tree without empty nodes, the iterator visits every key below a       *)
(* prefix once, and the whole implements a map.                            *)
(***************************************************************************)
EXTENDS HatTrie, FiniteSetTheorems, WellFoundedInduction, TLAPS

-----------------------------------------------------------------------------
(* Loops, and functions defined by recursion on numbers. *)

LEMMA Rounds ==
    ASSUME NEW k \in Nat, NEW S, 0 \in S,
           \A n \in 0 .. k - 1 : n \in S => n + 1 \in S
    PROVE  \A n \in 0 .. k : n \in S
<1> DEFINE Upto(n) == 0 .. n
           Failing == {Upto(n) : n \in {m \in 0 .. k : m \notin S}}
<1> SUFFICES ASSUME NEW n0 \in 0 .. k, n0 \notin S
             PROVE  FALSE
  OBVIOUS
<1>1. Failing \subseteq FiniteSubsetsOf(Nat) /\ Failing # {}
  <2>1. ASSUME NEW n \in {m \in 0 .. k : m \notin S}
        PROVE  Upto(n) \in FiniteSubsetsOf(Nat)
    BY FS_Interval DEF FiniteSubsetsOf
  <2> QED
    BY <2>1
<1>2. PICK s \in Failing : \A t \in Failing : <<t, s>> \notin StrictSubsetOrdering(Nat)
  <2> HIDE DEF Failing
  <2> QED
    BY <1>1, FS_StrictSubsetOrderingWellFounded, WFMin
<1>3. PICK m \in 0 .. k : m \notin S /\ s = Upto(m)
  OBVIOUS
<1>4. m # 0 /\ m - 1 \in 0 .. k /\ m - 1 \notin S
  BY <1>3
<1>5. Upto(m - 1) \in Failing
  BY <1>4
<1>6. <<Upto(m - 1), Upto(m)>> \in StrictSubsetOrdering(Nat)
  <2>1. Upto(m - 1) \subseteq Upto(m) /\ m \in Upto(m) /\ m \notin Upto(m - 1)
    BY <1>4
  <2> QED
    BY <2>1 DEF StrictSubsetOrdering
<1> QED
  BY <1>2, <1>3, <1>5, <1>6

\* A set with 0 and the successor of each of its numbers has them all.
LEMMA AllRounds ==
    ASSUME NEW S, 0 \in S, \A n \in Nat : n \in S => n + 1 \in S
    PROVE  \A n \in Nat : n \in S
<1> TAKE k \in Nat
<1>1. \A n \in 0 .. k : n \in S
  BY Rounds
<1> QED
  BY <1>1

\* g goes on from first by the step function F.
Repeats(g, S, first, F) == g \in [Nat -> S] /\ g[0] = first /\ \A n \in Nat : g[n + 1] = F[<<n, g[n]>>]

\* A step function on a set can be repeated for ever.
LEMMA Repeated ==
    ASSUME NEW S, NEW first \in S, NEW F \in [Nat \X S -> S]
    PROVE  \E g : Repeats(g, S, first, F)
<1> DEFINE Run(k, g) == g[0] = first /\ \A n \in 0 .. k - 1 : g[n + 1] = F[<<n, g[n]>>]
<1>1. \A k \in Nat : \E g \in [0 .. k -> S] : Run(k, g)
  <2> DEFINE R == {k \in Nat : \E g \in [0 .. k -> S] : Run(k, g)}
  <2>1. 0 \in R
    <3>1. [n \in 0 .. 0 |-> first] \in [0 .. 0 -> S] /\ Run(0, [n \in 0 .. 0 |-> first])
      OBVIOUS
    <3> HIDE DEF Run
    <3> QED
      BY <3>1
  <2>2. ASSUME NEW k \in Nat, k \in R
        PROVE  k + 1 \in R
    <3>1. PICK g \in [0 .. k -> S] : Run(k, g)
      BY <2>2
    <3> DEFINE h == [n \in 0 .. k + 1 |-> IF n = k + 1 THEN F[<<k, g[k]>>] ELSE g[n]]
    <3>2. g[k] \in S /\ F[<<k, g[k]>>] \in S
      OBVIOUS
    <3>3. h \in [0 .. k + 1 -> S]
      BY <3>2
    <3>4. Run(k + 1, h)
      <4>1. h[0] = first
        BY <3>1
      <4>2. ASSUME NEW n \in 0 .. k + 1 - 1
            PROVE  h[n + 1] = F[<<n, h[n]>>]
        <5>1. n \in 0 .. k /\ n # k + 1 /\ h[n] = g[n]
          OBVIOUS
        <5>2. CASE n = k
          <6>1. h[n + 1] = F[<<k, g[k]>>]
            BY <5>2
          <6> HIDE DEF h
          <6> QED
            BY <5>1, <5>2, <6>1
        <5>3. CASE n # k
          <6>1. h[n + 1] = g[n + 1] /\ n \in 0 .. k - 1
            BY <5>1, <5>3
          <6> HIDE DEF h
          <6> QED
            BY <3>1, <5>1, <6>1
        <5> QED
          BY <5>2, <5>3
      <4> HIDE DEF h
      <4> QED
        BY <4>1, <4>2
    <3> HIDE DEF Run, h
    <3> QED
      BY <3>3, <3>4
  <2> HIDE DEF R
  <2>3. \A k \in Nat : k \in R
    BY <2>1, <2>2, AllRounds
  <2> QED
    BY <2>3 DEF R
<1>2. ASSUME NEW k \in Nat, NEW m \in Nat, k <= m,
             NEW g \in [0 .. k -> S], NEW h \in [0 .. m -> S], Run(k, g), Run(m, h)
      PROVE  \A n \in 0 .. k : g[n] = h[n]
  <2> DEFINE R == {n \in 0 .. k : g[n] = h[n]}
  <2>1. 0 \in R
    BY <1>2
  <2>2. ASSUME NEW n \in 0 .. k - 1, n \in R
        PROVE  n + 1 \in R
    <3>1. g[n + 1] = F[<<n, g[n]>>] /\ h[n + 1] = F[<<n, h[n]>>]
      BY <1>2
    <3>2. g[n] = h[n] /\ n + 1 \in 0 .. k
      BY <2>2
    <3> QED
      BY <3>1, <3>2
  <2> HIDE DEF R
  <2>3. \A n \in 0 .. k : n \in R
    BY <2>1, <2>2, Rounds
  <2> QED
    BY <2>3 DEF R
<1> DEFINE G(k) == CHOOSE g \in [0 .. k -> S] : Run(k, g)
           f == [n \in Nat |-> G(n)[n]]
<1>3. \A k \in Nat : G(k) \in [0 .. k -> S] /\ Run(k, G(k))
  <2> HIDE DEF Run
  <2> QED
    BY <1>1
<1>4. f \in [Nat -> S]
  <2> HIDE DEF G
  <2> QED
    BY <1>3
<1>5. f[0] = first
  <2> HIDE DEF G
  <2> QED
    BY <1>3
<1>6. ASSUME NEW n \in Nat
      PROVE  f[n + 1] = F[<<n, f[n]>>]
  <2>1. n + 1 \in Nat /\ n <= n + 1 /\ n \in 0 .. n /\ n \in 0 .. n + 1 - 1
    OBVIOUS
  <2>2. G(n)[n] = G(n + 1)[n]
    <3>1. G(n) \in [0 .. n -> S] /\ G(n + 1) \in [0 .. n + 1 -> S]
          /\ Run(n, G(n)) /\ Run(n + 1, G(n + 1))
      BY <1>3, <2>1
    <3> HIDE DEF G, Run
    <3>2. \A m \in 0 .. n : G(n)[m] = G(n + 1)[m]
      BY <1>2, <2>1, <3>1
    <3> QED
      BY <2>1, <3>2
  <2>3. G(n + 1)[n + 1] = F[<<n, G(n + 1)[n]>>]
    <3> HIDE DEF G
    <3> QED
      BY <1>3, <2>1
  <2> HIDE DEF G
  <2> QED
    BY <2>1, <2>2, <2>3
<1> HIDE DEF f
<1> QED
  BY <1>4, <1>5, <1>6 DEF Repeats

\* The least number of a set.
LEMMA MinFacts ==
    ASSUME NEW S \in SUBSET Nat, S # {}
    PROVE  Min(S) \in S /\ \A y \in S : Min(S) <= y
<1>1. \E x \in S : \A y \in S : x <= y
  <2> SUFFICES ASSUME ~ \E x \in S : \A y \in S : x <= y
               PROVE  FALSE
    OBVIOUS
  <2>1. PICK x0 \in S : TRUE
    OBVIOUS
  <2> DEFINE T == {n \in 0 .. x0 : \A y \in S : n <= y}
  <2>2. 0 \in T
    BY <2>1
  <2>3. ASSUME NEW n \in 0 .. x0 - 1, n \in T
        PROVE  n + 1 \in T
    BY <2>1, <2>3
  <2>4. \A n \in 0 .. x0 : n \in T
    <3> HIDE DEF T
    <3> QED
      BY <2>1, <2>2, <2>3, Rounds
  <2> QED
    BY <2>1, <2>4
<1> QED
  BY <1>1 DEF Min

\* The greatest number of a bounded set.
LEMMA MaxFacts ==
    ASSUME NEW k \in Nat, NEW S \in SUBSET (0 .. k), S # {}
    PROVE  Max(S) \in S /\ \A y \in S : y <= Max(S)
<1>1. \E x \in S : \A y \in S : y <= x
  <2> SUFFICES ASSUME ~ \E x \in S : \A y \in S : y <= x
               PROVE  FALSE
    OBVIOUS
  <2> DEFINE T == {n \in 0 .. k : \A y \in S : y <= k - n}
  <2>2. 0 \in T
    OBVIOUS
  <2>3. ASSUME NEW n \in 0 .. k - 1, n \in T
        PROVE  n + 1 \in T
    <3>1. k - n \notin S
      BY <2>3
    <3> QED
      BY <2>3, <3>1
  <2>4. \A n \in 0 .. k : n \in T
    <3> HIDE DEF T
    <3> QED
      BY <2>2, <2>3, Rounds
  <2>5. PICK y \in S : TRUE
    OBVIOUS
  <2>6. y <= k - k /\ 0 \in S /\ \A x \in S : x <= 0
    BY <2>4, <2>5
  <2> QED
    BY <2>6
<1> QED
  BY <1>1 DEF Max

-----------------------------------------------------------------------------
(* The growth policy. *)

LEMMA Powers ==
    /\ PowerOfTwo \in [Nat -> Nat]
    /\ PowerOfTwo[0] = 1
    /\ \A k \in Nat : PowerOfTwo[k + 1] = 2 * PowerOfTwo[k] /\ PowerOfTwo[k] > k
<1> DEFINE F == [x \in Nat \X Nat |-> 2 * x[2]]
           Is(g) == g = [k \in Nat |-> IF k = 0 THEN 1 ELSE 2 * g[k - 1]]
<1>1. \E g : Is(g)
  <2>1. F \in [Nat \X Nat -> Nat]
    OBVIOUS
  <2>2. PICK g \in [Nat -> Nat] : g[0] = 1 /\ \A n \in Nat : g[n + 1] = F[<<n, g[n]>>]
    <3> HIDE DEF F
    <3>1. \E g : Repeats(g, Nat, 1, F)
      BY <2>1, Repeated
    <3> QED
      BY <3>1 DEF Repeats
  <2>3. ASSUME NEW k \in Nat
        PROVE  g[k] = IF k = 0 THEN 1 ELSE 2 * g[k - 1]
    <3>1. CASE k = 0
      BY <2>2, <3>1
    <3>2. CASE k # 0
      <4>1. k - 1 \in Nat /\ k - 1 + 1 = k
        BY <3>2
      <4>2. g[k] = F[<<k - 1, g[k - 1]>>] /\ g[k - 1] \in Nat
        BY <2>2, <4>1
      <4> QED
        BY <3>2, <4>1, <4>2
    <3> QED
      BY <3>1, <3>2
  <2>4. g = [k \in Nat |-> IF k = 0 THEN 1 ELSE 2 * g[k - 1]]
    BY <2>3
  <2> QED
    BY <2>4
<1>2. Is(PowerOfTwo)
  <2> HIDE DEF Is
  <2>1. Is(CHOOSE g : Is(g))
    BY <1>1
  <2> QED
    BY <2>1 DEF PowerOfTwo, Is
<1>3. PowerOfTwo[0] = 1
  BY <1>2
<1>4. \A k \in Nat : PowerOfTwo[k + 1] = 2 * PowerOfTwo[k]
  <2> TAKE k \in Nat
  <2>1. k + 1 \in Nat /\ k + 1 # 0 /\ k + 1 - 1 = k
    OBVIOUS
  <2> QED
    BY <1>2, <2>1
<1>5. \A k \in Nat : PowerOfTwo[k] \in Nat /\ PowerOfTwo[k] > k
  <2> DEFINE R == {k \in Nat : PowerOfTwo[k] \in Nat /\ PowerOfTwo[k] > k}
  <2>1. 0 \in R
    BY <1>3
  <2>2. ASSUME NEW k \in Nat, k \in R
        PROVE  k + 1 \in R
    <3>1. PowerOfTwo[k + 1] = 2 * PowerOfTwo[k] /\ PowerOfTwo[k] \in Nat /\ PowerOfTwo[k] > k
      BY <1>4, <2>2
    <3> QED
      BY <3>1
  <2> HIDE DEF R
  <2>3. \A k \in Nat : k \in R
    BY <2>1, <2>2, AllRounds
  <2> QED
    BY <2>3 DEF R
<1>6. PowerOfTwo = [k \in Nat |-> PowerOfTwo[k]]
  BY <1>2
<1> QED
  BY <1>3, <1>4, <1>5, <1>6

\* Rounding up to a power of two, once and again.
LEMMA RoundUpFacts ==
    ASSUME NEW n \in Nat
    PROVE  /\ RoundUp(n) \in Nat /\ RoundUp(n) >= n
           /\ RoundUp(RoundUp(n)) = RoundUp(n)
           /\ n = 0 => RoundUp(n) = 0
<1>1. CASE n = 0
  BY <1>1 DEF RoundUp
<1>2. CASE n # 0
  <2> DEFINE P(m) == {p \in {PowerOfTwo[k] : k \in 0 .. m} : p >= m}
  <2>1. ASSUME NEW m \in Nat, m # 0
        PROVE  RoundUp(m) \in P(m) /\ P(m) \subseteq Nat /\ \A p \in P(m) : RoundUp(m) <= p
    <3>1. PowerOfTwo[m] \in P(m) /\ P(m) \subseteq Nat
      BY Powers
    <3>2. RoundUp(m) = Min(P(m))
      BY <2>1 DEF RoundUp
    <3> HIDE DEF P
    <3> QED
      BY <3>1, <3>2, MinFacts
  <2> DEFINE r == RoundUp(n)
  <2>2. r \in Nat /\ r >= n /\ r # 0
    BY <1>2, <2>1
  <2>3. PICK k \in 0 .. n : r = PowerOfTwo[k]
    BY <1>2, <2>1
  <2>4. r \in P(r)
    <3>1. k \in 0 .. r
      BY <2>2, <2>3
    <3> HIDE DEF r
    <3> QED
      BY <2>2, <2>3, <3>1
  <2>5. RoundUp(r) \in P(r) /\ RoundUp(r) <= r
    <3> HIDE DEF r, P
    <3> QED
      BY <2>1, <2>2, <2>4
  <2>6. RoundUp(r) >= r /\ RoundUp(r) \in Nat
    <3> HIDE DEF r
    <3> QED
      BY <2>2, <2>1, <2>5
  <2>7. RoundUp(r) = r
    <3> HIDE DEF r
    <3> QED
      BY <2>5, <2>6, <2>2
  <2> QED
    BY <2>2, <2>7, <1>2
<1> QED
  BY <1>1, <1>2

-----------------------------------------------------------------------------
(* Loops over entries. *)

\* m names the positions of I that r takes from es, each once and in no other way.
Takes(r, es, I, m) ==
    /\ r \in Seq(Entry)
    /\ m \in [1 .. Len(r) -> I]
    /\ \A j \in 1 .. Len(r) : r[j] = es[m[j]]
    /\ \A i, j \in 1 .. Len(r) : m[i] = m[j] => i = j
    /\ \A i \in I : \E j \in 1 .. Len(r) : m[j] = i

\* One more entry taken.
LEMMA TakesOneMore ==
    ASSUME NEW es \in Seq(Entry), NEW r, NEW I, NEW m, Takes(r, es, I, m),
           NEW n \in DOMAIN es, n \notin I
    PROVE  \E l : Takes(Append(r, es[n]), es, I \cup {n}, l)
<1> DEFINE s == Append(r, es[n])
           k == Len(r) + 1
           l == [j \in 1 .. k |-> IF j = k THEN n ELSE m[j]]
<1>0. es[n] \in Entry /\ r \in Seq(Entry) /\ m \in [1 .. Len(r) -> I]
  BY DEF Takes
<1>1. /\ s \in Seq(Entry) /\ Len(s) = k
      /\ s[k] = es[n] /\ \A j \in 1 .. Len(r) : s[j] = r[j]
  BY <1>0
<1>2. l \in [1 .. k -> I \cup {n}]
  BY <1>0
<1>3. l[k] = n /\ \A j \in 1 .. Len(r) : l[j] = m[j] /\ l[j] \in I
  BY <1>0
<1> HIDE DEF s, l
<1>4. \A j \in 1 .. k : j = k \/ j \in 1 .. Len(r)
  BY <1>0
<1>5. \A j \in 1 .. k : s[j] = es[l[j]]
  BY <1>1, <1>3, <1>4 DEF Takes
<1>6. \A i, j \in 1 .. k : l[i] = l[j] => i = j
  BY <1>3, <1>4 DEF Takes
<1>7. k \in 1 .. k /\ \A j \in 1 .. Len(r) : j \in 1 .. k
  BY <1>0
<1>8. \A i \in I \cup {n} : \E j \in 1 .. k : l[j] = i
  BY <1>3, <1>7 DEF Takes
<1>9. Takes(s, es, I \cup {n}, l)
  BY <1>1, <1>2, <1>5, <1>6, <1>8 DEF Takes
<1> QED
  BY <1>9 DEF s

\* A loop that lets positions through takes the entries there, in their order.
LEMMA OnlyTakes ==
    ASSUME NEW es \in Seq(Entry), NEW I \in SUBSET DOMAIN es
    PROVE  \E m : Takes(Only[es][I], es, I, m)
<1> DEFINE k == Len(es)
           F == [x \in Nat \X Seq(Entry) |->
                    IF x[1] + 1 \in I THEN Append(x[2], es[x[1] + 1]) ELSE x[2]]
           Is(g) == g = [n \in 0 .. k |-> IF n = 0 THEN <<>>
                                          ELSE IF n \in I THEN Append(g[n - 1], es[n]) ELSE g[n - 1]]
           Upto == CHOOSE g : Is(g)
<1>0. k \in Nat /\ DOMAIN es = 1 .. k /\ I \in SUBSET Nat
  OBVIOUS
<1>1. \E g : Is(g)
  <2>1. F \in [Nat \X Seq(Entry) -> Seq(Entry)] /\ <<>> \in Seq(Entry)
    <3>1. ASSUME NEW n \in Nat, NEW r \in Seq(Entry)
          PROVE  (IF n + 1 \in I THEN Append(r, es[n + 1]) ELSE r) \in Seq(Entry)
      <4>1. n + 1 \in I => es[n + 1] \in Entry
        BY <1>0
      <4> QED
        BY <4>1
    <3> QED
      BY <3>1
  <2>2. PICK f : Repeats(f, Seq(Entry), <<>>, F)
    <3> HIDE DEF F
    <3> QED
      BY <2>1, Repeated
  <2> DEFINE g == [n \in 0 .. k |-> f[n]]
  <2>3. ASSUME NEW n \in 0 .. k
        PROVE  f[n] = IF n = 0 THEN <<>>
                      ELSE IF n \in I THEN Append(f[n - 1], es[n]) ELSE f[n - 1]
    <3>1. CASE n = 0
      BY <2>2, <3>1 DEF Repeats
    <3>2. CASE n # 0
      <4>1. n - 1 \in Nat /\ n - 1 + 1 = n
        BY <1>0, <3>2
      <4>2. f[n] = F[<<n - 1, f[n - 1]>>] /\ f[n - 1] \in Seq(Entry)
        BY <2>2, <4>1 DEF Repeats
      <4> QED
        BY <3>2, <4>1, <4>2
    <3> QED
      BY <3>1, <3>2
  <2>4. \A n \in 0 .. k : n # 0 => g[n - 1] = f[n - 1]
    BY <1>0
  <2>5. Is(g)
    BY <2>3, <2>4
  <2> QED
    BY <2>5
<1>2. Is(Upto)
  <2> HIDE DEF Is
  <2> QED
    BY <1>1
<1>3. Only[es][I] = Upto[k]
  <2>1. Only[es][I] = Taken(es, I)[k]
    BY <1>0 DEF Only
  <2> QED
    BY <2>1 DEF Taken
<1>4. Upto[0] = <<>> /\ \A n \in 0 .. k - 1 :
          Upto[n + 1] = IF n + 1 \in I THEN Append(Upto[n], es[n + 1]) ELSE Upto[n]
  <2> HIDE DEF Upto
  <2>1. \A x \in 0 .. k : Upto[x] = IF x = 0 THEN <<>>
                                   ELSE IF x \in I THEN Append(Upto[x - 1], es[x]) ELSE Upto[x - 1]
    BY <1>2
  <2>2. Upto[0] = <<>>
    BY <1>0, <2>1
  <2>3. ASSUME NEW n \in 0 .. k - 1
        PROVE  Upto[n + 1] = IF n + 1 \in I THEN Append(Upto[n], es[n + 1]) ELSE Upto[n]
    <3> DEFINE x == n + 1
    <3>1. x \in 0 .. k /\ x # 0 /\ x - 1 = n
      BY <1>0
    <3> HIDE DEF x
    <3>2. Upto[x] = IF x = 0 THEN <<>>
                    ELSE IF x \in I THEN Append(Upto[x - 1], es[x]) ELSE Upto[x - 1]
      BY <2>1, <3>1, Zenon
    <3>3. Upto[x] = IF x \in I THEN Append(Upto[n], es[x]) ELSE Upto[n]
      BY <3>1, <3>2
    <3> QED
      BY <3>3 DEF x
  <2> QED
    BY <2>2, <2>3
<1> HIDE DEF Upto, Is
<1> DEFINE R == {n \in 0 .. k : \E m : Takes(Upto[n], es, I \cap (1 .. n), m)}
<1>5. 0 \in R
  <2>1. I \cap (1 .. 0) = {}
    OBVIOUS
  <2>2. Takes(<<>>, es, {}, <<>>)
    BY DEF Takes
  <2> QED
    BY <1>0, <1>4, <2>1, <2>2
<1>6. ASSUME NEW n \in 0 .. k - 1, n \in R
      PROVE  n + 1 \in R
  <2>1. PICK m : Takes(Upto[n], es, I \cap (1 .. n), m)
    BY <1>6
  <2>2. n + 1 \in 0 .. k /\ n + 1 \in DOMAIN es /\ n + 1 \notin I \cap (1 .. n)
    BY <1>0
  <2>3. CASE n + 1 \in I
    <3>1. I \cap (1 .. n + 1) = (I \cap (1 .. n)) \cup {n + 1}
      BY <1>0, <2>3
    <3>2. Upto[n + 1] = Append(Upto[n], es[n + 1])
      BY <1>4, <2>3
    <3>3. \E l : Takes(Upto[n + 1], es, I \cap (1 .. n + 1), l)
      <4> DEFINE r == Upto[n]
                 J == I \cap (1 .. n)
      <4>1. Takes(r, es, J, m) /\ n + 1 \notin J /\ n + 1 \in DOMAIN es
        BY <2>1, <2>2
      <4> HIDE DEF r, J
      <4>2. \E l : Takes(Append(r, es[n + 1]), es, J \cup {n + 1}, l)
        BY <4>1, TakesOneMore
      <4> QED
        BY <3>1, <3>2, <4>2 DEF r, J
    <3> QED
      BY <2>2, <3>3
  <2>4. CASE n + 1 \notin I
    <3>1. I \cap (1 .. n + 1) = I \cap (1 .. n)
      BY <1>0, <2>4
    <3>2. Upto[n + 1] = Upto[n]
      BY <1>4, <2>4
    <3> QED
      BY <2>1, <2>2, <3>1, <3>2
  <2> QED
    BY <2>3, <2>4
<1>7. k \in R
  <2> HIDE DEF R
  <2>1. \A n \in 0 .. k : n \in R
    BY <1>0, <1>5, <1>6, Rounds
  <2> QED
    BY <1>0, <2>1
<1>8. I \cap (1 .. k) = I
  BY <1>0
<1> QED
  BY <1>3, <1>7, <1>8

-----------------------------------------------------------------------------
(* Iteration: every element of every part, once. *)

CellsUpto(s, n) == {c \in (1 .. n) \X Nat : c[2] \in DOMAIN s[c[1]]}

\* m names the cells of s whose entries r lists, each once and in no other way.
Lists(E, r, s, C, m) ==
    /\ r \in Seq(E)
    /\ m \in [1 .. Len(r) -> C]
    /\ \A i \in 1 .. Len(r) : r[i] = s[m[i][1]][m[i][2]]
    /\ \A i, j \in 1 .. Len(r) : m[i] = m[j] => i = j
    /\ \A c \in C : \E i \in 1 .. Len(r) : m[i] = c

\* One more sequence appended.
LEMMA ListsOneMore ==
    ASSUME NEW E, NEW s \in Seq(Seq(E)), NEW n \in Nat, n + 1 \in DOMAIN s,
           NEW r, NEW m, Lists(E, r, s, CellsUpto(s, n), m)
    PROVE  \E l : Lists(E, r \o s[n + 1], s, CellsUpto(s, n + 1), l)
<1> DEFINE q == s[n + 1]
           a == Len(r)
           k == a + Len(q)
           l == [i \in 1 .. k |-> IF i <= a THEN m[i] ELSE <<n + 1, i - a>>]
<1>0. q \in Seq(E) /\ r \in Seq(E) /\ a \in Nat /\ Len(q) \in Nat /\ k \in Nat
      /\ m \in [1 .. a -> CellsUpto(s, n)]
  BY DEF Lists
<1>1. r \o q \in Seq(E) /\ Len(r \o q) = k
  BY <1>0
<1>2. \A i \in 1 .. a : i \in 1 .. k /\ (r \o q)[i] = r[i]
  BY <1>0
<1>3. \A i \in 1 .. Len(q) : a + i \in 1 .. k /\ (r \o q)[a + i] = q[i]
  BY <1>0
<1>4. \A i \in 1 .. k : i \in 1 .. a \/ (i - a \in 1 .. Len(q) /\ a + (i - a) = i /\ ~(i <= a))
  BY <1>0
<1>5. \A i \in 1 .. a : l[i] = m[i] /\ m[i] \in CellsUpto(s, n)
  <2> TAKE i \in 1 .. a
  <2>1. m[i] \in CellsUpto(s, n) /\ i \in 1 .. k /\ i <= a
    <3>1. i \in 1 .. k
      BY <1>2
    <3> HIDE DEF a, k
    <3>2. m[i] \in CellsUpto(s, n) /\ i <= a
      BY <1>0
    <3> QED
      BY <3>1, <3>2
  <2>2. l[i] = IF i <= a THEN m[i] ELSE <<n + 1, i - a>>
    <3> HIDE DEF a, k
    <3> QED
      BY <2>1
  <2> QED
    BY <2>1, <2>2
<1>6. \A i \in 1 .. k : ~(i <= a) => l[i] = <<n + 1, i - a>>
  OBVIOUS
<1>7. \A c \in CellsUpto(s, n) : c \in CellsUpto(s, n + 1) /\ c[1] # n + 1
  BY DEF CellsUpto
<1>8. \A j \in 1 .. Len(q) : <<n + 1, j>> \in CellsUpto(s, n + 1)
  BY <1>0 DEF CellsUpto
<1>9. l \in [1 .. k -> CellsUpto(s, n + 1)]
  <2>1. \A i \in 1 .. k : l[i] \in CellsUpto(s, n + 1)
    <3> HIDE DEF l, k, q, a
    <3> TAKE i \in 1 .. k
    <3>1. CASE i \in 1 .. a
      BY <1>5, <1>7, <3>1, Zenon
    <3>2. CASE ~(i \in 1 .. a)
      <4>1. i - a \in 1 .. Len(q) /\ ~(i <= a)
        BY <1>4, <3>2, Zenon
      <4> QED
        BY <1>6, <1>8, <4>1, Zenon
    <3> QED
      BY <3>1, <3>2
  <2> QED
    BY <2>1
<1> HIDE DEF l
<1>10. ASSUME NEW i \in 1 .. k
       PROVE  (r \o q)[i] = s[l[i][1]][l[i][2]]
  <2>1. CASE i \in 1 .. a
    BY <2>1, <1>2, <1>5 DEF Lists
  <2>2. CASE i \notin 1 .. a
    <3>1. (r \o q)[i] = q[i - a]
      BY <2>2, <1>3, <1>4
    <3>2. l[i] = <<n + 1, i - a>>
      BY <2>2, <1>4, <1>6
    <3> QED
      BY <3>1, <3>2
  <2> QED
    BY <2>1, <2>2
<1>11. ASSUME NEW i \in 1 .. k, NEW j \in 1 .. k, l[i] = l[j]
       PROVE  i = j
  <2>1. CASE i \in 1 .. a /\ j \in 1 .. a
    BY <2>1, <1>5, <1>11 DEF Lists
  <2>2. CASE i \in 1 .. a /\ j \notin 1 .. a
    <3>1. l[j] = <<n + 1, j - a>> /\ l[i] \in CellsUpto(s, n)
      BY <2>2, <1>4, <1>5, <1>6
    <3> QED
      BY <3>1, <1>7, <1>11
  <2>3. CASE i \notin 1 .. a /\ j \in 1 .. a
    <3>1. l[i] = <<n + 1, i - a>> /\ l[j] \in CellsUpto(s, n)
      BY <2>3, <1>4, <1>5, <1>6
    <3> QED
      BY <3>1, <1>7, <1>11
  <2>4. CASE i \notin 1 .. a /\ j \notin 1 .. a
    <3>1. l[i] = <<n + 1, i - a>> /\ l[j] = <<n + 1, j - a>>
      BY <2>4, <1>4, <1>6
    <3>2. i - a = j - a
      BY <3>1, <1>11
    <3> QED
      BY <3>2, <1>0
  <2> QED
    BY <2>1, <2>2, <2>3, <2>4
<1>12. ASSUME NEW c \in CellsUpto(s, n + 1)
       PROVE  \E i \in 1 .. k : l[i] = c
  <2>1. CASE c \in CellsUpto(s, n)
    <3>1. PICK i \in 1 .. a : m[i] = c
      BY <2>1 DEF Lists
    <3> QED
      BY <3>1, <1>2, <1>5
  <2>2. CASE c \notin CellsUpto(s, n)
    <3>1. c[1] = n + 1 /\ c[2] \in 1 .. Len(q) /\ c = <<c[1], c[2]>>
      BY <2>2, <1>0 DEF CellsUpto
    <3>2. a + c[2] \in 1 .. k /\ ~(a + c[2] <= a) /\ (a + c[2]) - a = c[2]
      BY <3>1, <1>0
    <3>3. l[a + c[2]] = <<n + 1, c[2]>>
      BY <3>2, <1>6
    <3> QED
      BY <3>1, <3>2, <3>3
  <2> QED
    BY <2>1, <2>2
<1> HIDE DEF k
<1>13. Lists(E, r \o q, s, CellsUpto(s, n + 1), l)
  BY <1>1, <1>9, <1>10, <1>11, <1>12 DEF Lists
<1> QED
  BY <1>13

\* A flattened sequence lists every cell once.
LEMMA FlattenLists ==
    ASSUME NEW E, NEW s \in Seq(Seq(E))
    PROVE  \E m : Lists(E, FlattenSeq(s), s, CellsUpto(s, Len(s)), m)
<1> DEFINE k == Len(s)
           F == [x \in Nat \X Seq(E) |-> IF x[1] + 1 \in DOMAIN s THEN x[2] \o s[x[1] + 1] ELSE x[2]]
           Is(g) == g = [i \in 1 .. k |-> IF i = 1 THEN s[i] ELSE g[i - 1] \o s[i]]
           flatten == CHOOSE g : Is(g)
<1>0. k \in Nat /\ DOMAIN s = 1 .. k /\ \A i \in 1 .. k : s[i] \in Seq(E)
  OBVIOUS
<1>1. CASE k = 0
  <2>1. FlattenSeq(s) = <<>> /\ CellsUpto(s, k) = {}
    BY <1>1 DEF FlattenSeq, CellsUpto
  <2>2. Lists(E, <<>>, s, {}, <<>>)
    BY DEF Lists
  <2> QED
    BY <2>1, <2>2
<1>2. CASE k # 0
  <2>1. F \in [Nat \X Seq(E) -> Seq(E)] /\ <<>> \in Seq(E)
    <3>1. ASSUME NEW n \in Nat, NEW r \in Seq(E)
          PROVE  (IF n + 1 \in DOMAIN s THEN r \o s[n + 1] ELSE r) \in Seq(E)
      BY <1>0
    <3> QED
      BY <3>1
  <2>2. PICK f : Repeats(f, Seq(E), <<>>, F)
    <3> HIDE DEF F
    <3> QED
      BY <2>1, Repeated
  <2>3. f[0] = <<>> /\ \A n \in Nat : f[n] \in Seq(E)
    BY <2>2 DEF Repeats
  <2>4. ASSUME NEW n \in 0 .. k - 1
        PROVE  f[n + 1] = f[n] \o s[n + 1] /\ n + 1 \in DOMAIN s
    <3>1. n \in Nat /\ n + 1 \in DOMAIN s
      BY <1>0
    <3>2. f[n + 1] = F[<<n, f[n]>>]
      BY <2>2, <3>1 DEF Repeats
    <3> QED
      BY <2>3, <3>1, <3>2
  <2> DEFINE g == [i \in 1 .. k |-> f[i]]
  <2>5. ASSUME NEW i \in 1 .. k
        PROVE  f[i] = IF i = 1 THEN s[i] ELSE f[i - 1] \o s[i]
    <3>1. i - 1 \in 0 .. k - 1 /\ i - 1 + 1 = i
      BY <1>0
    <3>2. f[i] = f[i - 1] \o s[i]
      BY <2>4, <3>1
    <3>3. i = 1 => f[i] = s[i]
      <4> HAVE i = 1
      <4>1. s[i] \in Seq(E)
        BY <1>0
      <4>2. i - 1 = 0
        OBVIOUS
      <4>3. f[i] = <<>> \o s[i]
        BY <2>3, <3>2, <4>2, Zenon
      <4> HIDE DEF k
      <4> QED
        BY <4>1, <4>3
    <3>4. CASE i = 1
      BY <3>3, <3>4, Zenon
    <3>5. CASE i # 1
      BY <3>2, <3>5, Zenon
    <3> QED
      BY <3>4, <3>5, Zenon
  <2>6. \A i \in 1 .. k : i # 1 => g[i - 1] = f[i - 1]
    BY <1>0
  <2>7. Is(g)
    BY <2>5, <2>6
  <2>8. Is(flatten)
    <3> HIDE DEF Is, g
    <3> QED
      BY <2>7
  <2> HIDE DEF flatten
  <2>9. flatten[k] = f[k]
    <3>1. \A i \in 1 .. k : flatten[i] = IF i = 1 THEN s[i] ELSE flatten[i - 1] \o s[i]
      BY <2>8
    <3> DEFINE R == {n \in 0 .. k : n = 0 \/ flatten[n] = f[n]}
    <3>2. ASSUME NEW n \in 0 .. k - 1, n \in R
          PROVE  n + 1 \in R
      <4> DEFINE i == n + 1
      <4>1. i \in 1 .. k /\ i - 1 = n /\ i \in 0 .. k
        BY <1>0
      <4> HIDE DEF i
      <4>2. flatten[i] = IF i = 1 THEN s[i] ELSE flatten[i - 1] \o s[i]
        BY <3>1, <4>1, Zenon
      <4>3. f[i] = IF i = 1 THEN s[i] ELSE f[i - 1] \o s[i]
        BY <2>5, <4>1, Zenon
      <4>4. i # 1 => flatten[i - 1] = f[i - 1]
        BY <3>2, <4>1 DEF i
      <4>5. flatten[i] = f[i]
        BY <4>2, <4>3, <4>4
      <4> QED
        BY <4>1, <4>5 DEF i
    <3>3. 0 \in R
      BY <1>0
    <3> HIDE DEF R
    <3>4. \A n \in 0 .. k : n \in R
      BY <1>0, <3>2, <3>3, Rounds
    <3> QED
      BY <1>0, <1>2, <3>4 DEF R
  <2>10. FlattenSeq(s) = f[k]
    <3>1. FlattenSeq(s) = flatten[k]
      BY <1>2 DEF FlattenSeq, flatten
    <3> QED
      BY <2>9, <3>1
  <2> HIDE DEF k
  <2> DEFINE R == {n \in 0 .. k : \E m : Lists(E, f[n], s, CellsUpto(s, n), m)}
  <2>11. 0 \in R
    <3>1. CellsUpto(s, 0) = {}
      BY DEF CellsUpto
    <3>2. Lists(E, <<>>, s, {}, <<>>)
      BY DEF Lists
    <3>3. \E m : Lists(E, f[0], s, CellsUpto(s, 0), m)
      BY <2>3, <3>1, <3>2
    <3> QED
      BY <1>0, <3>3
  <2>12. ASSUME NEW n \in 0 .. k - 1, n \in R
         PROVE  n + 1 \in R
    <3>1. PICK m : Lists(E, f[n], s, CellsUpto(s, n), m)
      BY <2>12
    <3>2. n \in Nat /\ n + 1 \in 0 .. k
      BY <1>0
    <3>4. n + 1 \in DOMAIN s /\ f[n + 1] = f[n] \o s[n + 1]
      BY <2>4
    <3>3. \E l : Lists(E, f[n] \o s[n + 1], s, CellsUpto(s, n + 1), l)
      BY <3>1, <3>2, <3>4, ListsOneMore
    <3> QED
      BY <3>2, <3>3, <3>4
  <2> HIDE DEF R
  <2>13. \A n \in 0 .. k : n \in R
    BY <1>0, <2>11, <2>12, Rounds
  <2>14. k \in R
    BY <1>0, <2>13
  <2> QED
    BY <2>10, <2>14 DEF R, k
<1> QED
  BY <1>1, <1>2

-----------------------------------------------------------------------------
(* Sound tables. *)

Tables == [buckets : Seq(Seq(Entry)), values : Seq(Vals \cup {NoValue}), nb : Nat, threshold : Nat]

Cells(t) == UNION {ToSet(t.buckets[b]) : b \in DOMAIN t.buckets}

KeysOnce(t) ==
    \A b \in DOMAIN t.buckets : \A i, j \in DOMAIN t.buckets[b] :
        t.buckets[b][i].key = t.buckets[b][j].key => i = j

OwnPositions(t) == \A e, f \in Cells(t) : e.pos = f.pos => e = f

LivePositions(t) == \A e \in Cells(t) : e.pos \in DOMAIN t.values /\ t.values[e.pos] \in Vals

Counted(t) == IsFiniteSet(Cells(t)) /\ t.nb = Cardinality(Cells(t))

\* A table between two rehashes, whatever its load.
Filed(t) ==
    /\ t \in Tables
    /\ Len(t.buckets) > 0
    /\ KeysOnce(t)
    /\ KeysInTheirBuckets(t)
    /\ OwnPositions(t)
    /\ LivePositions(t)
    /\ Counted(t)
    /\ Len(t.values) <= MaxIndex

Loaded(t) ==
    /\ RoundUp(Len(t.buckets)) = Len(t.buckets)
    /\ t.threshold \in {0, Len(t.buckets) * MaxLoad}
    /\ t.nb <= Len(t.buckets) * MaxLoad

Sound(t) == Filed(t) /\ Loaded(t)

\* What a table maps k to.
Maps(t, k, v) == \E e \in Cells(t) : e.key = k /\ t.values[e.pos] = v

SameContents(t, u) == \A k, v : Maps(t, k, v) <=> Maps(u, k, v)

\* A key belongs to a bucket there is.
LEMMA BucketRange ==
    ASSUME NEW k \in DOMAIN Hash, NEW n \in Nat \ {0}
    PROVE  BucketFor(k, n) \in 1 .. n
<1>1. Hash[k] \in Nat
  BY ArrayHashAssumption
<1>2. Hash[k] % n \in 0 .. n - 1
  BY <1>1
<1> QED
  BY <1>2 DEF BucketFor

\* The cells are what lies in the buckets.
LEMMA CellsAre ==
    ASSUME NEW t, t.buckets \in Seq(Seq(Entry))
    PROVE  /\ \A b \in DOMAIN t.buckets : \A i \in DOMAIN t.buckets[b] :
                  t.buckets[b][i] \in Cells(t) /\ t.buckets[b][i] \in Entry
           /\ \A e \in Cells(t) : \E b \in DOMAIN t.buckets : \E i \in DOMAIN t.buckets[b] : e = t.buckets[b][i]
           /\ Cells(t) \subseteq Entry
<1>1. \A b \in DOMAIN t.buckets : t.buckets[b] \in Seq(Entry)
  OBVIOUS
<1>2. \A b \in DOMAIN t.buckets : \A i \in DOMAIN t.buckets[b] : t.buckets[b][i] \in Entry
  BY <1>1
<1>3. \A b \in DOMAIN t.buckets : \A i \in DOMAIN t.buckets[b] : t.buckets[b][i] \in Cells(t)
  BY DEF Cells, ToSet
<1>4. \A e \in Cells(t) : \E b \in DOMAIN t.buckets : \E i \in DOMAIN t.buckets[b] : e = t.buckets[b][i]
  BY DEF Cells, ToSet
<1> QED
  BY <1>2, <1>3, <1>4

\* The entries are the cells of the buckets.
LEMMA EntriesAreCells ==
    ASSUME NEW t, t.buckets \in Seq(Seq(Entry))
    PROVE  /\ Entries(t) \in Seq(Entry)
           /\ \A i \in DOMAIN Entries(t) : Entries(t)[i] \in Cells(t)
           /\ \A e \in Cells(t) : \E i \in DOMAIN Entries(t) : Entries(t)[i] = e
<1> DEFINE s == t.buckets
           C == CellsUpto(s, Len(s))
<1>1. PICK m : Lists(Entry, Entries(t), s, C, m)
  BY FlattenLists DEF Entries
<1>2. Entries(t) \in Seq(Entry) /\ DOMAIN Entries(t) = 1 .. Len(Entries(t))
  BY <1>1 DEF Lists
<1>3. \A c \in C : c[1] \in DOMAIN s /\ c[2] \in DOMAIN s[c[1]]
  BY DEF CellsUpto
<1>4. \A b \in DOMAIN s : \A j \in DOMAIN s[b] : <<b, j>> \in C
  BY DEF CellsUpto
<1>5. ASSUME NEW i \in DOMAIN Entries(t)
      PROVE  Entries(t)[i] \in Cells(t)
  <2>1. m[i] \in C /\ Entries(t)[i] = s[m[i][1]][m[i][2]]
    BY <1>1, <1>2 DEF Lists
  <2> HIDE DEF C
  <2> QED
    BY <1>3, <2>1, CellsAre
<1>6. ASSUME NEW e \in Cells(t)
      PROVE  \E i \in DOMAIN Entries(t) : Entries(t)[i] = e
  <2>0. PICK b \in DOMAIN s : \E j \in DOMAIN s[b] : e = s[b][j]
    BY CellsAre
  <2>1. PICK j \in DOMAIN s[b] : e = s[b][j]
    BY <2>0
  <2>2. PICK i \in 1 .. Len(Entries(t)) : m[i] = <<b, j>>
    BY <1>1, <1>4 DEF Lists
  <2>3. Entries(t)[i] = s[b][j]
    BY <1>1, <2>2 DEF Lists
  <2> QED
    BY <1>2, <2>1, <2>2, <2>3
<1> QED
  BY <1>2, <1>5, <1>6

\* Keys that are once in the bucket they belong to are once in the table.
LEMMA EntriesOnce ==
    ASSUME NEW t, t.buckets \in Seq(Seq(Entry)), KeysOnce(t), KeysInTheirBuckets(t)
    PROVE  /\ \A i, j \in DOMAIN Entries(t) : Entries(t)[i].key = Entries(t)[j].key => i = j
           /\ \A e, f \in Cells(t) : e.key = f.key => e = f
           /\ IsFiniteSet(Cells(t))
           /\ Cardinality(Cells(t)) = Len(Entries(t))
<1> DEFINE s == t.buckets
           C == CellsUpto(s, Len(s))
           es == Entries(t)
<1>1. PICK m : Lists(Entry, es, s, C, m)
  BY FlattenLists DEF Entries
<1>2. es \in Seq(Entry) /\ DOMAIN es = 1 .. Len(es) /\ Len(es) \in Nat
  BY <1>1 DEF Lists
<1>3. \A c \in C : c[1] \in DOMAIN s /\ c[2] \in DOMAIN s[c[1]] /\ c = <<c[1], c[2]>>
  BY DEF CellsUpto
<1>4. \A b \in DOMAIN s : \A i \in DOMAIN s[b] : BucketFor(s[b][i].key, Len(s)) = b
  <2> TAKE b \in DOMAIN s
  <2>1. \A e \in ToSet(s[b]) : BucketFor(e.key, Len(s)) = b
    BY DEF KeysInTheirBuckets
  <2> QED
    BY <2>1, Zenon DEF ToSet
<1>5. ASSUME NEW i \in DOMAIN es, NEW j \in DOMAIN es, es[i].key = es[j].key
      PROVE  i = j
  <2>1. /\ m[i] \in C /\ es[i] = s[m[i][1]][m[i][2]]
        /\ m[j] \in C /\ es[j] = s[m[j][1]][m[j][2]]
    BY <1>1, <1>2 DEF Lists
  <2> HIDE DEF C, es
  <2>2. m[i][1] = m[j][1]
    BY <1>3, <1>4, <1>5, <2>1
  <2>3. m[i][2] = m[j][2]
    BY <1>3, <1>5, <2>1, <2>2 DEF KeysOnce
  <2>4. m[i] = m[j]
    BY <1>3, <2>1, <2>2, <2>3
  <2> QED
    BY <1>1, <1>2, <2>4 DEF Lists
<1>6. ASSUME NEW e \in Cells(t), NEW f \in Cells(t), e.key = f.key
      PROVE  e = f
  BY <1>5, <1>6, EntriesAreCells
<1>7. ExistsBijection(1 .. Len(es), Cells(t))
  <2>1. es \in [1 .. Len(es) -> Cells(t)]
    BY <1>2, EntriesAreCells
  <2>2. \A i, j \in 1 .. Len(es) : es[i] = es[j] => i = j
    BY <1>2, <1>5
  <2>3. \A e \in Cells(t) : \E i \in 1 .. Len(es) : es[i] = e
    BY <1>2, EntriesAreCells
  <2> HIDE DEF es
  <2>4. es \in Bijection(1 .. Len(es), Cells(t))
    BY <2>1, <2>2, <2>3 DEF Bijection, Injection, Surjection, IsInjective
  <2> QED
    BY <2>4 DEF ExistsBijection
<1>8. IsFiniteSet(Cells(t)) /\ Cardinality(Cells(t)) = Len(es)
  BY <1>2, <1>7, FS_NatBijection, FS_CountingElements
<1> QED
  BY <1>5, <1>6, <1>8

\* A key is looked up where its entry is.
LEMMA LookupFacts ==
    ASSUME NEW t, Filed(t), NEW k \in DOMAIN Hash
    PROVE  /\ Has(t, k) <=> \E e \in Cells(t) : e.key = k
           /\ Has(t, k) => \E e \in Cells(t) : e.key = k /\ EntriesOf(t, k) = {e} /\ (CHOOSE f \in EntriesOf(t, k) : TRUE) = e
           /\ \A v : (Has(t, k) /\ ValueOf(t, k) = v) <=> Maps(t, k, v)
           /\ ValueOf(t, k) = NoValue <=> ~Has(t, k)
<1> DEFINE n == Len(t.buckets)
           b == BucketFor(k, n)
<1>0. /\ t.buckets \in Seq(Seq(Entry)) /\ n \in Nat \ {0} /\ DOMAIN t.buckets = 1 .. n
      /\ KeysOnce(t) /\ KeysInTheirBuckets(t) /\ t.buckets # <<>>
  BY DEF Filed, Tables
<1>1. b \in DOMAIN t.buckets /\ t.buckets[b] \in Seq(Entry)
  BY <1>0, BucketRange
<1>2. EntriesOf(t, k) = {e \in ToSet(t.buckets[b]) : e.key = k}
  BY <1>0 DEF EntriesOf
<1>3. ASSUME NEW e \in Cells(t), e.key = k
      PROVE  EntriesOf(t, k) = {e}
  <2>0. PICK c \in DOMAIN t.buckets : \E i \in DOMAIN t.buckets[c] : e = t.buckets[c][i]
    BY <1>0, CellsAre
  <2>1. PICK i \in DOMAIN t.buckets[c] : e = t.buckets[c][i]
    BY <2>0
  <2>2. c = b
    BY <1>0, <1>3, <2>1 DEF KeysInTheirBuckets, ToSet
  <2>3. e \in EntriesOf(t, k)
    BY <1>2, <1>3, <2>1, <2>2 DEF ToSet
  <2>4. ASSUME NEW f \in EntriesOf(t, k)
        PROVE  f = e
    <3>1. f.key = e.key /\ f \in Cells(t)
      BY <1>1, <1>2, <1>3, <2>4 DEF Cells
    <3> QED
      BY <1>0, <3>1, EntriesOnce
  <2> QED
    BY <2>3, <2>4
<1>4. ASSUME NEW e \in EntriesOf(t, k)
      PROVE  e \in Cells(t) /\ e.key = k
  BY <1>1, <1>2 DEF Cells
<1>5. Has(t, k) <=> \E e \in Cells(t) : e.key = k
  BY <1>3, <1>4 DEF Has
<1>6. ASSUME NEW e \in Cells(t), e.key = k
      PROVE  (CHOOSE f \in EntriesOf(t, k) : TRUE) = e
  BY <1>3, <1>6
<1>7. ASSUME NEW e \in Cells(t), e.key = k
      PROVE  ValueOf(t, k) = t.values[e.pos] /\ ValueOf(t, k) # NoValue
  <2>1. Has(t, k)
    BY <1>5, <1>7
  <2>2. ValueOf(t, k) = t.values[(CHOOSE f \in EntriesOf(t, k) : TRUE).pos]
    BY <2>1 DEF ValueOf
  <2>3. ValueOf(t, k) = t.values[e.pos]
    BY <1>6, <1>7, <2>2
  <2> QED
    BY <2>3, HatTrieAssumption DEF Filed, LivePositions
<1>8. ~Has(t, k) => ValueOf(t, k) = NoValue
  BY DEF ValueOf
<1>9. ASSUME NEW v
      PROVE  (Has(t, k) /\ ValueOf(t, k) = v) <=> Maps(t, k, v)
  BY <1>5, <1>7 DEF Maps
<1>10. Has(t, k) => \E e \in Cells(t) : e.key = k /\ EntriesOf(t, k) = {e} /\ (CHOOSE f \in EntriesOf(t, k) : TRUE) = e
  BY <1>3, <1>5, <1>6
<1> QED
  BY <1>5, <1>7, <1>8, <1>9, <1>10

\* Squeezing renumbers the positions and keeps what the table maps.
LEMMA SqueezeKeeps ==
    ASSUME NEW t, Filed(t)
    PROVE  /\ Filed(Squeezed(t)) /\ SameContents(Squeezed(t), t)
           /\ Len(Squeezed(t).values) = t.nb /\ Squeezed(t).nb = t.nb
           /\ Len(Squeezed(t).buckets) = Len(t.buckets) /\ Squeezed(t).threshold = t.threshold
           /\ t.nb <= MaxIndex
<1> DEFINE es == Entries(t)
           Rank(e) == CHOOSE i \in DOMAIN es : es[i] = e
           Moved(e) == [e EXCEPT !.pos = Rank(e)]
           u == Squeezed(t)
<1>0. /\ t \in Tables /\ t.buckets \in Seq(Seq(Entry)) /\ KeysOnce(t) /\ KeysInTheirBuckets(t)
      /\ Len(t.buckets) \in Nat /\ DOMAIN t.buckets = 1 .. Len(t.buckets)
  BY DEF Filed, Tables
<1>1. es \in Seq(Entry) /\ DOMAIN es = 1 .. Len(es) /\ Len(es) \in Nat /\ Len(es) = t.nb
  BY <1>0, EntriesAreCells, EntriesOnce DEF Filed, Counted
<1>2. ASSUME NEW e \in Cells(t)
      PROVE  Rank(e) \in DOMAIN es /\ es[Rank(e)] = e /\ Rank(e) \in Nat
  <2>1. \E i \in DOMAIN es : es[i] = e
    BY <1>0, EntriesAreCells
  <2>2. Rank(e) \in DOMAIN es /\ es[Rank(e)] = e
    BY <2>1
  <2> QED
    BY <2>2, <1>1
<1> HIDE DEF Rank
<1>3. ASSUME NEW e \in Cells(t)
      PROVE  Moved(e) \in Entry /\ Moved(e).key = e.key /\ Moved(e).pos = Rank(e)
  <2>1. e \in Entry
    BY <1>0, CellsAre
  <2> QED
    BY <1>2, <2>1 DEF Entry
<1> HIDE DEF Moved
<1>4. /\ u.values = [i \in DOMAIN es |-> t.values[es[i].pos]]
      /\ u.buckets = [b \in DOMAIN t.buckets |-> [i \in DOMAIN t.buckets[b] |-> Moved(t.buckets[b][i])]]
      /\ u.nb = t.nb /\ u.threshold = t.threshold
      /\ u = [buckets |-> u.buckets, values |-> u.values, nb |-> t.nb, threshold |-> t.threshold]
  <2> DEFINE V == [i \in DOMAIN es |-> t.values[es[i].pos]]
             B == [b \in DOMAIN t.buckets |-> [i \in DOMAIN t.buckets[b] |-> Moved(t.buckets[b][i])]]
  <2>1. u = [t EXCEPT !.values = V, !.buckets = B]
    BY Zenon DEF Squeezed, Moved, Rank
  <2> HIDE DEF V, B, u, es
  <2>2. /\ u.values = V /\ u.buckets = B /\ u.nb = t.nb /\ u.threshold = t.threshold
        /\ u = [buckets |-> u.buckets, values |-> u.values, nb |-> t.nb, threshold |-> t.threshold]
    BY <1>0, <2>1 DEF Tables
  <2> QED
    BY <2>2 DEF V, B
<1> HIDE DEF u
<1>5. u.values \in Seq(Vals \cup {NoValue}) /\ Len(u.values) = t.nb /\ DOMAIN u.values = DOMAIN es
  <2>1. \A i \in DOMAIN es : t.values[es[i].pos] \in Vals
    BY <1>0, EntriesAreCells DEF Filed, LivePositions
  <2> HIDE DEF es
  <2> QED
    BY <1>1, <1>4, <2>1
<1>6. ASSUME NEW b \in DOMAIN t.buckets
      PROVE  /\ u.buckets[b] \in Seq(Entry)
             /\ DOMAIN u.buckets[b] = DOMAIN t.buckets[b]
             /\ \A i \in DOMAIN t.buckets[b] : u.buckets[b][i] = Moved(t.buckets[b][i])
  <2>1. u.buckets[b] = [i \in DOMAIN t.buckets[b] |-> Moved(t.buckets[b][i])]
    BY <1>4
  <2>2. t.buckets[b] \in Seq(Entry) /\ DOMAIN t.buckets[b] = 1 .. Len(t.buckets[b]) /\ Len(t.buckets[b]) \in Nat
    BY <1>0
  <2>3. \A i \in DOMAIN t.buckets[b] : Moved(t.buckets[b][i]) \in Entry
    BY <1>0, <1>3, CellsAre
  <2> QED
    BY <2>1, <2>2, <2>3
<1>7. u.buckets \in Seq(Seq(Entry)) /\ Len(u.buckets) = Len(t.buckets) /\ DOMAIN u.buckets = DOMAIN t.buckets
  <2> DEFINE w == u.buckets
             n == Len(t.buckets)
  <2>1. w = [b \in 1 .. n |-> w[b]] /\ n \in Nat
    BY <1>0, <1>4
  <2>2. \A b \in 1 .. n : w[b] \in Seq(Entry)
    BY <1>0, <1>6
  <2> HIDE DEF w, n
  <2>3. w \in Seq(Seq(Entry)) /\ Len(w) = n /\ DOMAIN w = 1 .. n
    BY <2>1, <2>2
  <2> QED
    BY <1>0, <2>3 DEF w, n
<1>8. \A e \in Cells(t) : Moved(e) \in Cells(u)
  <2> TAKE e \in Cells(t)
  <2>1. PICK b \in DOMAIN t.buckets : \E i \in DOMAIN t.buckets[b] : e = t.buckets[b][i]
    BY <1>0, CellsAre
  <2> QED
    BY <1>6, <1>7, <2>1, CellsAre
<1>9. \A f \in Cells(u) : \E e \in Cells(t) : f = Moved(e)
  <2> TAKE f \in Cells(u)
  <2>1. PICK b \in DOMAIN u.buckets : \E i \in DOMAIN u.buckets[b] : f = u.buckets[b][i]
    BY <1>7, CellsAre
  <2> QED
    BY <1>0, <1>6, <1>7, <2>1, CellsAre
<1>10. KeysOnce(u)
  <2> SUFFICES ASSUME NEW b \in DOMAIN u.buckets, NEW i \in DOMAIN u.buckets[b], NEW j \in DOMAIN u.buckets[b],
                      u.buckets[b][i].key = u.buckets[b][j].key
               PROVE  i = j
    BY DEF KeysOnce
  <2>1. b \in DOMAIN t.buckets /\ i \in DOMAIN t.buckets[b] /\ j \in DOMAIN t.buckets[b]
    BY <1>6, <1>7
  <2>2. t.buckets[b][i] \in Cells(t) /\ t.buckets[b][j] \in Cells(t)
    BY <1>0, <2>1, CellsAre
  <2>3. u.buckets[b][i] = Moved(t.buckets[b][i]) /\ u.buckets[b][j] = Moved(t.buckets[b][j])
    BY <1>6, <2>1
  <2>4. t.buckets[b][i].key = t.buckets[b][j].key
    BY <1>3, <2>2, <2>3
  <2> QED
    BY <1>0, <2>1, <2>4 DEF KeysOnce
<1>11. KeysInTheirBuckets(u)
  <2> SUFFICES ASSUME NEW b \in DOMAIN u.buckets, NEW i \in DOMAIN u.buckets[b]
               PROVE  BucketFor(u.buckets[b][i].key, Len(u.buckets)) = b
    BY DEF KeysInTheirBuckets, ToSet
  <2>1. b \in DOMAIN t.buckets /\ i \in DOMAIN t.buckets[b] /\ t.buckets[b][i] \in Cells(t)
    BY <1>0, <1>6, <1>7, CellsAre
  <2>2. u.buckets[b][i].key = t.buckets[b][i].key
    BY <1>3, <1>6, <2>1
  <2> QED
    BY <1>0, <1>7, <2>1, <2>2 DEF KeysInTheirBuckets, ToSet
<1>12. OwnPositions(u)
  <2> SUFFICES ASSUME NEW e \in Cells(t), NEW f \in Cells(t), Moved(e).pos = Moved(f).pos
               PROVE  Moved(e) = Moved(f)
    BY <1>9 DEF OwnPositions
  <2>1. Rank(e) = Rank(f)
    BY <1>3
  <2>2. e = f
    BY <1>2, <2>1
  <2> QED
    BY <2>2
<1>13. \A e \in Cells(t) : Moved(e).pos \in DOMAIN u.values /\ u.values[Moved(e).pos] = t.values[e.pos]
  <2> TAKE e \in Cells(t)
  <2>1. Moved(e).pos = Rank(e) /\ Rank(e) \in DOMAIN es /\ es[Rank(e)] = e
    BY <1>2, <1>3
  <2> HIDE DEF es
  <2> QED
    BY <1>4, <1>5, <2>1
<1>14. LivePositions(u)
  BY <1>9, <1>13 DEF LivePositions, Filed
<1>15. Counted(u)
  <2> DEFINE f == [e \in Cells(t) |-> Moved(e)]
  <2>1. f \in [Cells(t) -> Cells(u)]
    BY <1>8
  <2>2. \A e, g \in Cells(t) : f[e] = f[g] => e = g
    <3> TAKE e, g \in Cells(t)
    <3> HAVE f[e] = f[g]
    <3>1. Moved(e) = Moved(g)
      OBVIOUS
    <3>2. e.key = g.key
      BY <1>3, <3>1
    <3> QED
      BY <1>0, <3>2, EntriesOnce
  <2>3. \A g \in Cells(u) : \E e \in Cells(t) : f[e] = g
    BY <1>9
  <2> HIDE DEF f
  <2>4. f \in Bijection(Cells(t), Cells(u))
    BY <2>1, <2>2, <2>3 DEF Bijection, Injection, Surjection, IsInjective
  <2>5. ExistsBijection(Cells(t), Cells(u))
    BY <2>4 DEF ExistsBijection
  <2>6. IsFiniteSet(Cells(t)) /\ t.nb = Cardinality(Cells(t))
    BY DEF Filed, Counted
  <2>7. IsFiniteSet(Cells(u)) /\ Cardinality(Cells(u)) = t.nb
    BY <2>5, <2>6, FS_Bijection
  <2> QED
    BY <1>4, <2>7 DEF Counted
<1>16. SameContents(u, t)
  <2> SUFFICES ASSUME NEW k, NEW v
               PROVE  Maps(u, k, v) <=> Maps(t, k, v)
    BY DEF SameContents
  <2>1. ASSUME Maps(t, k, v)
        PROVE  Maps(u, k, v)
    BY <2>1, <1>3, <1>8, <1>13 DEF Maps
  <2>2. ASSUME Maps(u, k, v)
        PROVE  Maps(t, k, v)
    BY <2>2, <1>3, <1>9, <1>13 DEF Maps
  <2> QED
    BY <2>1, <2>2
<1>17. u \in Tables /\ Len(u.buckets) > 0
  BY <1>0, <1>4, <1>5, <1>7 DEF Tables, Filed
<1>18. t.nb <= MaxIndex
  <2> DEFINE f == [e \in Cells(t) |-> e.pos]
  <2>1. f \in [Cells(t) -> 1 .. MaxIndex]
    <3>1. \A e \in Cells(t) : e.pos \in 1 .. MaxIndex
      <4>1. t.values \in Seq(Vals \cup {NoValue}) /\ Len(t.values) <= MaxIndex /\ MaxIndex \in Nat
        BY <1>0, ArrayHashAssumption DEF Tables, Filed
      <4>2. DOMAIN t.values \subseteq 1 .. MaxIndex
        BY <4>1
      <4> QED
        BY <4>2 DEF Filed, LivePositions
    <3> QED
      BY <3>1
  <2>2. \A e, g \in Cells(t) : f[e] = f[g] => e = g
    BY DEF Filed, OwnPositions
  <2> HIDE DEF f
  <2>3. f \in Injection(Cells(t), 1 .. MaxIndex)
    BY <2>1, <2>2 DEF Injection, IsInjective
  <2>4. IsFiniteSet(1 .. MaxIndex) /\ Cardinality(1 .. MaxIndex) = MaxIndex
    BY FS_Interval, ArrayHashAssumption
  <2>5. Cardinality(Cells(t)) <= Cardinality(1 .. MaxIndex)
    BY <2>3, <2>4, FS_Injection
  <2> QED
    BY <2>4, <2>5 DEF Filed, Counted
<1>19. Filed(u)
  BY <1>5, <1>10, <1>11, <1>12, <1>14, <1>15, <1>17, <1>18 DEF Filed
<1> QED
  BY <1>4, <1>5, <1>7, <1>16, <1>18, <1>19 DEF u

\* A sound table without left-over values, or with them, is sound.
LEMMA ClearKeeps ==
    ASSUME NEW t, Filed(t)
    PROVE  /\ Filed(ClearOldErased(t)) /\ SameContents(ClearOldErased(t), t)
           /\ ClearOldErased(t).nb = t.nb /\ Len(ClearOldErased(t).values) = t.nb
           /\ Len(ClearOldErased(t).buckets) = Len(t.buckets) /\ ClearOldErased(t).threshold = t.threshold
           /\ Loaded(t) => Loaded(ClearOldErased(t))
<1>1. CASE t.nb = Len(t.values)
  BY <1>1 DEF ClearOldErased, SameContents
<1>2. CASE t.nb # Len(t.values)
  <2>1. ClearOldErased(t) = Squeezed(t)
    BY <1>2 DEF ClearOldErased
  <2> QED
    BY <2>1, SqueezeKeeps DEF Loaded
<1> QED
  BY <1>1, <1>2

Once(es) == \A i, j \in DOMAIN es : es[i].key = es[j].key => i = j

\* What is let through and what is not.
LEMMA OnlyFacts ==
    ASSUME NEW es \in Seq(Entry), NEW I \in SUBSET DOMAIN es
    PROVE  /\ Only[es][I] \in Seq(Entry)
           /\ \A j \in DOMAIN Only[es][I] : \E i \in I : Only[es][I][j] = es[i]
           /\ \A i \in I : \E j \in DOMAIN Only[es][I] : Only[es][I][j] = es[i]
           /\ Once(es) => Once(Only[es][I])
           /\ Len(Only[es][I]) <= Len(es)
<1> DEFINE r == Only[es][I]
<1>1. PICK m : Takes(r, es, I, m)
  BY OnlyTakes
<1> HIDE DEF r
<1>2. r \in Seq(Entry) /\ DOMAIN r = 1 .. Len(r) /\ Len(r) \in Nat
  BY <1>1 DEF Takes
<1>3. \A j \in DOMAIN r : m[j] \in I /\ r[j] = es[m[j]]
  BY <1>1, <1>2 DEF Takes
<1>4. \A i \in I : \E j \in DOMAIN r : r[j] = es[i]
  BY <1>1, <1>2, <1>3 DEF Takes
<1>5. ASSUME Once(es), NEW i \in DOMAIN r, NEW j \in DOMAIN r, r[i].key = r[j].key
      PROVE  i = j
  <2>1. es[m[i]].key = es[m[j]].key /\ m[i] \in DOMAIN es /\ m[j] \in DOMAIN es
    BY <1>3, <1>5
  <2>2. m[i] = m[j]
    BY <1>5, <2>1 DEF Once
  <2> QED
    BY <1>1, <1>2, <2>2 DEF Takes
<1>6. Len(r) <= Len(es)
  <2>1. DOMAIN es = 1 .. Len(es) /\ Len(es) \in Nat
    OBVIOUS
  <2>2. m \in Injection(1 .. Len(r), 1 .. Len(es))
    BY <1>1, <2>1 DEF Takes, Injection, IsInjective
  <2>3. /\ IsFiniteSet(1 .. Len(es)) /\ Cardinality(1 .. Len(es)) = Len(es)
        /\ IsFiniteSet(1 .. Len(r)) /\ Cardinality(1 .. Len(r)) = Len(r)
    <3>1. \A l \in Nat : IsFiniteSet(1 .. l) /\ Cardinality(1 .. l) = l
      BY FS_Interval
    <3> QED
      BY <1>2, <2>1, <3>1
  <2> QED
    BY <2>2, <2>3, FS_Injection
<1> QED
  BY <1>2, <1>3, <1>4, <1>5, <1>6 DEF r, Once

\* A function on 1 .. n is a sequence of its values.
LEMMA ListMade ==
    ASSUME NEW S, NEW n \in Nat, NEW w \in [1 .. n -> S]
    PROVE  w \in Seq(S) /\ Len(w) = n /\ DOMAIN w = 1 .. n
  OBVIOUS

\* Entries put into the buckets they belong to.
LEMMA BucketedFacts ==
    ASSUME NEW es \in Seq(Entry), Once(es), NEW n \in Nat \ {0}, NEW t, t.buckets = Bucketed[es][n]
    PROVE  /\ t.buckets \in Seq(Seq(Entry)) /\ Len(t.buckets) = n
           /\ KeysOnce(t) /\ KeysInTheirBuckets(t)
           /\ Cells(t) = {es[i] : i \in DOMAIN es}
<1> DEFINE I(b) == {i \in DOMAIN es : BucketFor(es[i].key, n) = b}
           w == t.buckets
<1>0. \A i \in DOMAIN es : es[i].key \in DOMAIN Hash
  <2>1. \A i \in DOMAIN es : es[i] \in Entry
    OBVIOUS
  <2> QED
    BY <2>1 DEF Entry
<1>1. w = [b \in 1 .. n |-> Only[es][I(b)]]
  BY DEF Bucketed
<1>2. ASSUME NEW b \in 1 .. n
      PROVE  /\ w[b] \in Seq(Entry)
             /\ \A j \in DOMAIN w[b] : \E i \in I(b) : w[b][j] = es[i]
             /\ \A i, j \in DOMAIN w[b] : w[b][i].key = w[b][j].key => i = j
             /\ \A i \in I(b) : \E j \in DOMAIN w[b] : w[b][j] = es[i]
  <2> HIDE DEF w
  <2>1. w[b] = Only[es][I(b)] /\ I(b) \in SUBSET DOMAIN es
    BY <1>1
  <2> DEFINE r == w[b]
             J == I(b)
  <2>0. r = Only[es][J] /\ J \in SUBSET DOMAIN es
    BY <2>1
  <2> HIDE DEF J, r
  <2>2. /\ r \in Seq(Entry) /\ Once(r)
        /\ \A j \in DOMAIN r : \E i \in J : r[j] = es[i]
        /\ \A i \in J : \E j \in DOMAIN r : r[j] = es[i]
    BY <2>0, OnlyFacts
  <2> QED
    BY <2>2 DEF r, J, Once
<1>3. w \in Seq(Seq(Entry)) /\ Len(w) = n /\ DOMAIN w = 1 .. n
  <2>1. w = [b \in 1 .. n |-> w[b]]
    BY <1>1
  <2> HIDE DEF w
  <2>2. \A b \in 1 .. n : w[b] \in Seq(Entry)
    BY <1>2
  <2>3. w \in [1 .. n -> Seq(Entry)]
    BY <2>1, <2>2, Zenon
  <2>4. n \in Nat
    OBVIOUS
  <2> QED
    BY <2>3, <2>4, ListMade, Zenon
<1>4. KeysOnce(t)
  BY <1>2, <1>3 DEF KeysOnce
<1>5. KeysInTheirBuckets(t)
  <2> SUFFICES ASSUME NEW b \in 1 .. n, NEW j \in DOMAIN w[b]
               PROVE  BucketFor(w[b][j].key, n) = b
    BY <1>3 DEF KeysInTheirBuckets, ToSet
  <2>1. PICK i \in I(b) : w[b][j] = es[i]
    BY <1>2
  <2> QED
    BY <2>1
<1>6. \A e \in Cells(t) : e \in {es[i] : i \in DOMAIN es}
  <2> TAKE e \in Cells(t)
  <2>0. \A d \in Cells(t) : \E b \in DOMAIN t.buckets : \E j \in DOMAIN t.buckets[b] : d = t.buckets[b][j]
    BY <1>3, CellsAre
  <2>1. PICK b \in DOMAIN w : \E j \in DOMAIN w[b] : e = w[b][j]
    BY <2>0
  <2>2. PICK j \in DOMAIN w[b] : e = w[b][j]
    BY <2>1
  <2>3. PICK i \in I(b) : w[b][j] = es[i]
    BY <1>2, <1>3
  <2> QED
    BY <2>2, <2>3
<1>7. \A i \in DOMAIN es : es[i] \in Cells(t)
  <2> TAKE i \in DOMAIN es
  <2> DEFINE b == BucketFor(es[i].key, n)
  <2>1. b \in 1 .. n
    BY <1>0, BucketRange
  <2>2. i \in I(b)
    OBVIOUS
  <2> HIDE DEF b
  <2>3. PICK j \in DOMAIN w[b] : w[b][j] = es[i]
    BY <1>2, <2>1, <2>2
  <2> QED
    BY <1>3, <2>1, <2>3, CellsAre
<1> HIDE DEF w
<1> QED
  BY <1>3, <1>4, <1>5, <1>6, <1>7 DEF w

\* Rehashing keeps what a table maps; its buckets hold the load.
LEMMA RehashKeeps ==
    ASSUME NEW t, Sound(t), NEW count \in Nat \ {0}, t.nb <= RoundUp(count) * MaxLoad
    PROVE  /\ Sound(Rehash(t, count)) /\ SameContents(Rehash(t, count), t)
           /\ Rehash(t, count).nb = t.nb /\ Len(Rehash(t, count).buckets) = RoundUp(count)
<1> DEFINE n == RoundUp(count)
           u == IF ShouldClear(t, 90) THEN ClearOldErased(t) ELSE t
           es == Entries(u)
           B == Bucketed[es][n]
           T == n * MaxLoad
           r == [u EXCEPT !.buckets = B, !.threshold = T]
<1>0. n \in Nat \ {0} /\ RoundUp(n) = n /\ n * MaxLoad \in Nat
  BY RoundUpFacts, ArrayHashAssumption
<1>1. Filed(u) /\ SameContents(u, t) /\ u.nb = t.nb
  BY ClearKeeps DEF Sound, SameContents
<1>2. CASE n = Len(t.buckets)
  <2>1. Rehash(t, count) = t
    BY <1>2 DEF Rehash
  <2> QED
    BY <1>2, <2>1 DEF SameContents
<1>3. CASE n # Len(t.buckets)
  <2>1. Rehash(t, count) = r
    BY <1>3, Zenon DEF Rehash
  <2> HIDE DEF u, n
  <2>2. u \in Tables /\ u.buckets \in Seq(Seq(Entry))
    BY <1>1 DEF Filed, Tables
  <2>3. es \in Seq(Entry) /\ Once(es) /\ {es[i] : i \in DOMAIN es} = Cells(u)
    BY <1>1, <2>2, EntriesAreCells, EntriesOnce DEF Once, Filed
  <2> HIDE DEF es
  <2> HIDE DEF B, T
  <2>4. /\ r.buckets = B /\ r.threshold = T /\ r.values = u.values /\ r.nb = u.nb
        /\ r = [buckets |-> B, values |-> u.values, nb |-> u.nb, threshold |-> T]
    <3>1. DOMAIN u = {"buckets", "values", "nb", "threshold"}
      BY <2>2 DEF Tables
    <3>2. u = [f \in {"buckets", "values", "nb", "threshold"} |-> u[f]]
      BY <2>2 DEF Tables
    <3>3. r = [f \in {"buckets", "values", "nb", "threshold"} |->
                 IF f = "threshold" THEN T ELSE IF f = "buckets" THEN B ELSE u[f]]
      BY <3>1, <3>2
    <3> HIDE DEF r
    <3> QED
      BY <3>3
  <2> HIDE DEF r
  <2>5. /\ r.buckets \in Seq(Seq(Entry)) /\ Len(r.buckets) = n
        /\ KeysOnce(r) /\ KeysInTheirBuckets(r)
        /\ Cells(r) = Cells(u)
    <3>1. r.buckets = Bucketed[es][n]
      BY <2>4 DEF B
    <3>2. /\ r.buckets \in Seq(Seq(Entry)) /\ Len(r.buckets) = n
          /\ KeysOnce(r) /\ KeysInTheirBuckets(r)
          /\ Cells(r) = {es[i] : i \in DOMAIN es}
      BY <1>0, <2>3, <3>1, BucketedFacts, Zenon
    <3> QED
      BY <2>3, <3>2
  <2>6. r \in Tables
    BY <1>0, <2>2, <2>4, <2>5 DEF Tables, T
  <2>7. Filed(r)
    <3>1. OwnPositions(r) /\ LivePositions(r)
      BY <1>1, <2>4, <2>5 DEF Filed, OwnPositions, LivePositions
    <3>2. Counted(r)
      BY <1>1, <2>4, <2>5 DEF Filed, Counted
    <3>3. Len(r.buckets) > 0 /\ Len(r.values) <= MaxIndex
      BY <1>0, <1>1, <2>4, <2>5 DEF Filed
    <3> QED
      BY <2>5, <2>6, <3>1, <3>2, <3>3 DEF Filed
  <2>8. Loaded(r)
    <3>1. r.nb <= n * MaxLoad
      BY <1>1, <2>4 DEF n
    <3> QED
      BY <1>0, <2>4, <2>5, <3>1 DEF Loaded, T
  <2>9. SameContents(r, t)
    <3> SUFFICES ASSUME NEW k, NEW v
                 PROVE  Maps(r, k, v) <=> Maps(t, k, v)
      BY DEF SameContents
    <3>1. Maps(r, k, v) <=> Maps(u, k, v)
      BY <2>4, <2>5 DEF Maps
    <3> QED
      BY <1>1, <3>1 DEF SameContents
  <2> QED
    BY <1>1, <2>1, <2>4, <2>5, <2>7, <2>8, <2>9 DEF Sound, n
<1> QED
  BY <1>2, <1>3

\* A table that grew has room for one more key.
LEMMA GrowKeeps ==
    ASSUME NEW t, Sound(t)
    PROVE  /\ Sound(GrowOnHighLoad(t)) /\ SameContents(GrowOnHighLoad(t), t)
           /\ GrowOnHighLoad(t).nb = t.nb
           /\ t.nb < Len(GrowOnHighLoad(t).buckets) * MaxLoad
<1> DEFINE n == Len(t.buckets)
           count == NextBucketCount(n)
<1>0. n \in Nat \ {0} /\ t.nb \in Nat /\ t.threshold \in Nat /\ t.threshold \in {0, n * MaxLoad} /\ t.nb <= n * MaxLoad
      /\ MaxLoad \in Nat \ {0} /\ GrowthFactor \in {2, 4}
  BY ArrayHashAssumption DEF Sound, Filed, Loaded, Tables
<1>1. CASE t.nb >= t.threshold
  <2>1. GrowOnHighLoad(t) = Rehash(t, count)
    BY <1>1 DEF GrowOnHighLoad
  <2>2. count \in Nat \ {0} /\ count > n
    BY <1>0 DEF NextBucketCount
  <2> HIDE DEF n, count
  <2>3. RoundUp(count) \in Nat /\ RoundUp(count) > n
    BY <1>0, <2>2, RoundUpFacts
  <2>4. n * MaxLoad < RoundUp(count) * MaxLoad /\ n * MaxLoad \in Nat /\ RoundUp(count) * MaxLoad \in Nat
    <3> DEFINE m == RoundUp(count) - n
    <3>1. m \in Nat \ {0} /\ RoundUp(count) = n + m
      BY <1>0, <2>3
    <3>2. m * MaxLoad \in Nat \ {0}
      BY <1>0, <3>1
    <3> HIDE DEF m
    <3> QED
      BY <1>0, <3>1, <3>2
  <2>5. t.nb <= RoundUp(count) * MaxLoad /\ t.nb < RoundUp(count) * MaxLoad
    BY <1>0, <2>4
  <2> QED
    BY <2>1, <2>2, <2>5, RehashKeeps
<1>2. CASE ~(t.nb >= t.threshold)
  <2>1. GrowOnHighLoad(t) = t
    BY <1>2 DEF GrowOnHighLoad
  <2> QED
    BY <1>0, <1>2, <2>1 DEF SameContents
<1> QED
  BY <1>1, <1>2

\* After the squeeze, too, the positions are used up by live keys only.
LEMMA RoomKeeps ==
    ASSUME NEW t, Sound(t)
    PROVE  /\ Sound(WithRoom(t)) /\ SameContents(WithRoom(t), t) /\ WithRoom(t).nb = t.nb
           /\ t.nb < Len(WithRoom(t).buckets) * MaxLoad
           /\ IndexFull(t) => t.nb >= MaxIndex
<1> DEFINE g == GrowOnHighLoad(t)
<1>1. Sound(g) /\ SameContents(g, t) /\ g.nb = t.nb /\ t.nb < Len(g.buckets) * MaxLoad
  BY GrowKeeps
<1>2. t.nb \in Nat /\ MaxIndex \in Nat /\ Len(g.values) \in Nat
  BY <1>1, ArrayHashAssumption DEF Sound, Filed, Tables
<1> HIDE DEF g
<1>3. CASE Len(g.values) >= MaxIndex
  <2>1. WithRoom(t) = ClearOldErased(g)
    BY <1>3 DEF WithRoom, g
  <2>2. /\ Filed(ClearOldErased(g)) /\ SameContents(ClearOldErased(g), g) /\ Loaded(ClearOldErased(g))
        /\ ClearOldErased(g).nb = g.nb /\ Len(ClearOldErased(g).values) = g.nb
        /\ Len(ClearOldErased(g).buckets) = Len(g.buckets)
    BY <1>1, ClearKeeps DEF Sound
  <2>3. IndexFull(t) => t.nb >= MaxIndex
    BY <1>1, <1>2, <2>1, <2>2 DEF IndexFull
  <2>4. SameContents(WithRoom(t), t)
    BY <1>1, <2>1, <2>2 DEF SameContents
  <2> QED
    BY <1>1, <2>1, <2>2, <2>3, <2>4 DEF Sound
<1>4. CASE ~(Len(g.values) >= MaxIndex)
  <2>1. WithRoom(t) = g
    BY <1>4 DEF WithRoom, g
  <2> QED
    BY <1>1, <1>4, <2>1 DEF IndexFull
<1> QED
  BY <1>3, <1>4

\* A record of a table, field by field.
LEMMA TableFields ==
    ASSUME NEW t \in Tables
    PROVE  /\ t = [buckets |-> t.buckets, values |-> t.values, nb |-> t.nb, threshold |-> t.threshold]
           /\ t.buckets \in Seq(Seq(Entry)) /\ t.values \in Seq(Vals \cup {NoValue})
           /\ t.nb \in Nat /\ t.threshold \in Nat
           /\ DOMAIN t.buckets = 1 .. Len(t.buckets) /\ Len(t.buckets) \in Nat
           /\ DOMAIN t.values = 1 .. Len(t.values) /\ Len(t.values) \in Nat
<1>1. /\ t = [buckets |-> t.buckets, values |-> t.values, nb |-> t.nb, threshold |-> t.threshold]
      /\ t.buckets \in Seq(Seq(Entry)) /\ t.values \in Seq(Vals \cup {NoValue})
      /\ t.nb \in Nat /\ t.threshold \in Nat
  BY DEF Tables
<1> DEFINE B == t.buckets
           V == t.values
<1> HIDE DEF B, V
<1>2. B \in Seq(Seq(Entry)) /\ V \in Seq(Vals \cup {NoValue})
  BY <1>1 DEF B, V
<1>3. DOMAIN B = 1 .. Len(B) /\ Len(B) \in Nat /\ DOMAIN V = 1 .. Len(V) /\ Len(V) \in Nat
  BY <1>2
<1> QED
  BY <1>1, <1>3 DEF B, V

\* An entry appended to its bucket.
LEMMA AppendedKeeps ==
    ASSUME NEW t, Filed(t), Loaded(t), t.nb < Len(t.buckets) * MaxLoad, Len(t.values) < MaxIndex,
           NEW k \in DOMAIN Hash, NEW v \in Vals, \A e \in Cells(t) : e.key # k
    PROVE  /\ Sound(Appended(t, k, v)) /\ Appended(t, k, v).nb = t.nb + 1
           /\ \A q, w : Maps(Appended(t, k, v), q, w) <=> Maps(t, q, w) \/ (q = k /\ w = v)
           /\ \A e \in Cells(Appended(t, k, v)) : e.key = k \/ \E f \in Cells(t) : f.key = e.key
<1> DEFINE n == Len(t.buckets)
           b == BucketFor(k, n)
           x == [key |-> k, pos |-> Len(t.values) + 1]
           B == [t.buckets EXCEPT ![b] = Append(t.buckets[b], x)]
           V == Append(t.values, v)
           u == Appended(t, k, v)
<1>0. /\ t \in Tables /\ n \in Nat \ {0} /\ KeysOnce(t) /\ KeysInTheirBuckets(t)
      /\ t = [buckets |-> t.buckets, values |-> t.values, nb |-> t.nb, threshold |-> t.threshold]
      /\ t.buckets \in Seq(Seq(Entry)) /\ t.values \in Seq(Vals \cup {NoValue})
      /\ t.nb \in Nat /\ t.threshold \in Nat
      /\ DOMAIN t.buckets = 1 .. n
      /\ DOMAIN t.values = 1 .. Len(t.values) /\ Len(t.values) \in Nat
  BY TableFields DEF Filed
<1>1. b \in 1 .. n
  BY <1>0, BucketRange
<1>2. x \in Entry /\ x.key = k /\ x.pos = Len(t.values) + 1
  BY <1>0 DEF Entry
<1>3. u = [buckets |-> B, values |-> V, nb |-> t.nb + 1, threshold |-> t.threshold]
  <2>1. u = [t EXCEPT !.values = V, !.buckets = B, !.nb = t.nb + 1]
    BY DEF Appended
  <2> HIDE DEF u, V, B
  <2> QED
    BY <1>0, <2>1
<1> HIDE DEF u, x, b
<1>4. V \in Seq(Vals \cup {NoValue}) /\ Len(V) = Len(t.values) + 1 /\ DOMAIN V = 1 .. Len(t.values) + 1
      /\ V[Len(t.values) + 1] = v /\ \A i \in DOMAIN t.values : V[i] = t.values[i]
  <2> DEFINE s == t.values
  <2>1. s \in Seq(Vals \cup {NoValue})
    BY <1>0
  <2> HIDE DEF s
  <2> QED
    BY <2>1 DEF s
<1> HIDE DEF V
<1>5. ASSUME NEW c \in 1 .. n
      PROVE  t.buckets[c] \in Seq(Entry) /\ DOMAIN t.buckets[c] = 1 .. Len(t.buckets[c]) /\ Len(t.buckets[c]) \in Nat
  <2>1. t.buckets[c] \in Seq(Entry)
    BY <1>0
  <2> QED
    BY <2>1
<1> DEFINE m == Len(t.buckets[b]) + 1
<1>6. ASSUME NEW c \in 1 .. n
      PROVE  /\ B[c] \in Seq(Entry)
             /\ c # b => B[c] = t.buckets[c]
             /\ c = b => DOMAIN B[c] = 1 .. m /\ B[c][m] = x /\ \A i \in DOMAIN t.buckets[c] : B[c][i] = t.buckets[c][i]
  <2>1. CASE c # b
    BY <1>0, <1>5, <2>1
  <2>2. CASE c = b
    <3> DEFINE s == t.buckets[b]
    <3>1. B[c] = Append(s, x) /\ s \in Seq(Entry)
      BY <1>0, <1>1, <1>5, <2>2
    <3> HIDE DEF s, B
    <3> QED
      BY <3>1, <1>2, <2>2 DEF s
  <2> QED
    BY <2>1, <2>2
<1>7. B \in Seq(Seq(Entry)) /\ Len(B) = n /\ DOMAIN B = 1 .. n
  <2>1. B = [c \in 1 .. n |-> B[c]] /\ n \in Nat
    BY <1>0
  <2> HIDE DEF B, n
  <2> QED
    BY <1>6, <2>1
<1> HIDE DEF B
<1>8. u \in Tables /\ u.buckets = B /\ u.values = V /\ u.nb = t.nb + 1 /\ u.threshold = t.threshold
  BY <1>0, <1>3, <1>4, <1>7 DEF Tables
<1>9. m \in Nat /\ m \in 1 .. m /\ m \notin DOMAIN t.buckets[b] /\ (\A i \in 1 .. m : i = m \/ i \in DOMAIN t.buckets[b])
      /\ \A i \in DOMAIN t.buckets[b] : i \in 1 .. m
  BY <1>1, <1>5
<1> HIDE DEF m
<1>a. /\ \A c \in 1 .. n : \A i \in DOMAIN t.buckets[c] : t.buckets[c][i] \in Cells(t)
      /\ \A e \in Cells(t) : \E c \in 1 .. n : \E i \in DOMAIN t.buckets[c] : e = t.buckets[c][i]
  <2>1. t.buckets \in Seq(Seq(Entry)) /\ DOMAIN t.buckets = 1 .. n
    BY <1>0
  <2> HIDE DEF n
  <2> QED
    <3>1. \A c \in DOMAIN t.buckets : \A i \in DOMAIN t.buckets[c] : t.buckets[c][i] \in Cells(t)
      BY <2>1, CellsAre
    <3>2. \A e \in Cells(t) : \E c \in DOMAIN t.buckets : \E i \in DOMAIN t.buckets[c] : e = t.buckets[c][i]
      BY <2>1, CellsAre
    <3> QED
      BY <2>1, <3>1, <3>2
<1>b. /\ \A c \in 1 .. n : \A i \in DOMAIN B[c] : B[c][i] \in Cells(u)
      /\ \A e \in Cells(u) : \E c \in 1 .. n : \E i \in DOMAIN B[c] : e = B[c][i]
  <2>1. u.buckets \in Seq(Seq(Entry)) /\ DOMAIN u.buckets = 1 .. n /\ u.buckets = B
    BY <1>7, <1>8
  <2> HIDE DEF n
  <2> QED
    <3>1. \A c \in DOMAIN u.buckets : \A i \in DOMAIN u.buckets[c] : u.buckets[c][i] \in Cells(u)
      BY <2>1, CellsAre
    <3>2. \A e \in Cells(u) : \E c \in DOMAIN u.buckets : \E i \in DOMAIN u.buckets[c] : e = u.buckets[c][i]
      BY <2>1, CellsAre
    <3> QED
      BY <2>1, <3>1, <3>2
<1>10. ASSUME NEW e \in Cells(u)
       PROVE  e = x \/ e \in Cells(t)
  <2>1. PICK c \in 1 .. n : \E i \in DOMAIN B[c] : e = B[c][i]
    BY <1>b
  <2>2. PICK i \in DOMAIN B[c] : e = B[c][i]
    BY <2>1
  <2>3. e = x \/ (i \in DOMAIN t.buckets[c] /\ e = t.buckets[c][i])
    BY <1>6, <1>9, <2>2
  <2> QED
    BY <1>a, <2>3
<1>11. x \in Cells(u)
  BY <1>1, <1>6, <1>9, <1>b
<1>12. ASSUME NEW e \in Cells(t)
       PROVE  e \in Cells(u)
  <2>1. PICK c \in 1 .. n : \E i \in DOMAIN t.buckets[c] : e = t.buckets[c][i]
    BY <1>a
  <2>2. PICK i \in DOMAIN t.buckets[c] : e = t.buckets[c][i]
    BY <2>1
  <2>3. i \in DOMAIN B[c] /\ e = B[c][i]
    BY <1>6, <1>9, <2>2
  <2> QED
    BY <1>b, <2>3
<1>13. Cells(u) = Cells(t) \cup {x} /\ x \notin Cells(t)
  BY <1>2, <1>10, <1>11, <1>12
<1>14. KeysOnce(u)
  <2> SUFFICES ASSUME NEW c \in 1 .. n, NEW i \in DOMAIN B[c], NEW j \in DOMAIN B[c], B[c][i].key = B[c][j].key
               PROVE  i = j
    BY <1>7, <1>8 DEF KeysOnce
  <2>1. CASE c # b
    BY <1>0, <1>6, <2>1 DEF KeysOnce
  <2>2. CASE c = b
    <3>1. \A l \in DOMAIN t.buckets[b] : t.buckets[b][l].key # k
      BY <1>0, <1>1, CellsAre
    <3>2. CASE i = m /\ j = m
      BY <3>2
    <3>3. CASE i # m /\ j = m
      BY <1>2, <1>6, <1>9, <2>2, <3>1, <3>3
    <3>4. CASE i = m /\ j # m
      BY <1>2, <1>6, <1>9, <2>2, <3>1, <3>4
    <3>5. CASE i # m /\ j # m
      <4>1. i \in DOMAIN t.buckets[b] /\ j \in DOMAIN t.buckets[b] /\ t.buckets[b][i].key = t.buckets[b][j].key
        BY <1>6, <1>9, <2>2, <3>5
      <4> QED
        BY <1>0, <1>1, <4>1 DEF KeysOnce
    <3> QED
      BY <3>2, <3>3, <3>4, <3>5
  <2> QED
    BY <2>1, <2>2
<1>15. KeysInTheirBuckets(u)
  <2> SUFFICES ASSUME NEW c \in 1 .. n, NEW i \in DOMAIN B[c]
               PROVE  BucketFor(B[c][i].key, n) = c
    BY <1>7, <1>8 DEF KeysInTheirBuckets, ToSet
  <2>1. CASE c = b /\ i = m
    BY <1>2, <1>6, <2>1 DEF b
  <2>2. CASE ~(c = b /\ i = m)
    <3>1. i \in DOMAIN t.buckets[c] /\ B[c][i] = t.buckets[c][i]
      BY <1>6, <1>9, <2>2
    <3>2. \A d \in 1 .. n : \A j \in DOMAIN t.buckets[d] : BucketFor(t.buckets[d][j].key, n) = d
      BY <1>0 DEF KeysInTheirBuckets, ToSet
    <3> QED
      BY <3>1, <3>2
  <2> QED
    BY <2>1, <2>2
<1>16. \A e \in Cells(t) : e.pos \in DOMAIN t.values /\ t.values[e.pos] \in Vals
  BY DEF Filed, LivePositions
<1>17. OwnPositions(u)
  <2>1. \A e \in Cells(t) : e.pos # x.pos
    BY <1>0, <1>2, <1>16
  <2> QED
    BY <1>13, <2>1 DEF OwnPositions, Filed
<1>18. LivePositions(u)
  <2>1. x.pos \in DOMAIN u.values /\ u.values[x.pos] \in Vals
    BY <1>0, <1>2, <1>4, <1>8
  <2>2. \A e \in Cells(t) : e.pos \in DOMAIN u.values /\ u.values[e.pos] \in Vals
    BY <1>0, <1>4, <1>8, <1>16
  <2> QED
    BY <1>13, <2>1, <2>2 DEF LivePositions
<1>19. Counted(u)
  <2>1. IsFiniteSet(Cells(t)) /\ t.nb = Cardinality(Cells(t))
    BY DEF Filed, Counted
  <2>2. IsFiniteSet(Cells(u)) /\ Cardinality(Cells(u)) = Cardinality(Cells(t)) + 1
    BY <1>13, <2>1, FS_AddElement
  <2> QED
    BY <1>8, <2>1, <2>2 DEF Counted
<1>20. Filed(u)
  <2>1. Len(u.buckets) > 0 /\ Len(u.values) <= MaxIndex
    BY <1>0, <1>4, <1>7, <1>8, ArrayHashAssumption
  <2> QED
    BY <1>8, <1>14, <1>15, <1>17, <1>18, <1>19, <2>1 DEF Filed
<1>21. Loaded(u)
  <2> DEFINE l == n * MaxLoad
  <2>1. l \in Nat /\ t.nb < l
    BY <1>0, ArrayHashAssumption
  <2> HIDE DEF l
  <2>2. t.nb + 1 <= l
    BY <1>0, <2>1
  <2> QED
    BY <1>7, <1>8, <2>2 DEF Loaded, l
<1>22. \A q, w : Maps(u, q, w) <=> Maps(t, q, w) \/ (q = k /\ w = v)
  <2> TAKE q, w
  <2>1. u.values[x.pos] = v /\ x.key = k /\ \A e \in Cells(t) : u.values[e.pos] = t.values[e.pos]
    BY <1>2, <1>4, <1>8, <1>16
  <2> QED
    BY <1>13, <2>1 DEF Maps
<1> QED
  BY <1>2, <1>8, <1>13, <1>20, <1>21, <1>22 DEF Sound, u

\* Emplacing an absent key adds it and nothing else, unless every position is taken.
LEMMA EmplaceKeeps ==
    ASSUME NEW t, Sound(t), ~IndexFull(t), NEW k \in DOMAIN Hash, NEW v \in Vals, ~Has(t, k)
    PROVE  /\ Sound(Emplace(t, k, v)) /\ Emplace(t, k, v).nb = t.nb + 1
           /\ \A q, w : Maps(Emplace(t, k, v), q, w) <=> Maps(t, q, w) \/ (q = k /\ w = v)
<1> DEFINE g == WithRoom(t)
<1>1. Sound(g) /\ SameContents(g, t) /\ g.nb = t.nb /\ t.nb < Len(g.buckets) * MaxLoad
  BY RoomKeeps
<1>2. Len(g.values) < MaxIndex
  <2>1. Len(g.values) \in Nat /\ MaxIndex \in Nat
    BY <1>1, TableFields, ArrayHashAssumption DEF Sound, Filed
  <2> QED
    BY <2>1 DEF IndexFull
<1> HIDE DEF g
<1>3. \A e \in Cells(g) : e.key # k
  <2> SUFFICES ASSUME NEW e \in Cells(g), e.key = k
               PROVE  FALSE
    OBVIOUS
  <2>1. Maps(g, k, g.values[e.pos])
    BY DEF Maps
  <2>2. Maps(t, k, g.values[e.pos])
    BY <1>1, <2>1 DEF SameContents
  <2> QED
    BY <2>2, LookupFacts DEF Sound, Maps
<1>4. Emplace(t, k, v) = Appended(g, k, v)
  BY DEF Emplace, g
<1>5. /\ Sound(Appended(g, k, v)) /\ Appended(g, k, v).nb = g.nb + 1
      /\ \A q, w : Maps(Appended(g, k, v), q, w) <=> Maps(g, q, w) \/ (q = k /\ w = v)
  BY <1>1, <1>2, <1>3, AppendedKeeps DEF Sound
<1> QED
  BY <1>1, <1>4, <1>5 DEF SameContents

Without(bucket, k) == Only[bucket][{i \in DOMAIN bucket : bucket[i].key # k}]

\* The table t without its cell x.
Removed(t, x) ==
    LET b == BucketFor(x.key, Len(t.buckets))
    IN  [buckets   |-> [t.buckets EXCEPT ![b] = Without(t.buckets[b], x.key)],
         values    |-> [t.values EXCEPT ![x.pos] = NoValue],
         nb        |-> t.nb - 1,
         threshold |-> t.threshold]

\* Erasing a key takes out its entry and nothing else.
LEMMA RemovedKeeps ==
    ASSUME NEW t, Sound(t), NEW x \in Cells(t)
    PROVE  /\ Sound(Removed(t, x)) /\ Removed(t, x).nb = t.nb - 1
           /\ \A q, w : Maps(Removed(t, x), q, w) <=> Maps(t, q, w) /\ q # x.key
<1> DEFINE n == Len(t.buckets)
           k == x.key
           b == BucketFor(k, n)
           old == t.buckets[b]
           I == {i \in DOMAIN old : old[i].key # k}
           B == [t.buckets EXCEPT ![b] = Without(old, k)]
           V == [t.values EXCEPT ![x.pos] = NoValue]
           u == Removed(t, x)
<1>0. /\ t \in Tables /\ n \in Nat \ {0} /\ KeysOnce(t) /\ KeysInTheirBuckets(t)
      /\ t.buckets \in Seq(Seq(Entry)) /\ t.values \in Seq(Vals \cup {NoValue})
      /\ t.nb \in Nat /\ t.threshold \in Nat
      /\ DOMAIN t.buckets = 1 .. n
      /\ DOMAIN t.values = 1 .. Len(t.values) /\ Len(t.values) \in Nat
  BY TableFields DEF Filed, Sound
<1>a. k \in DOMAIN Hash
  <2>1. x \in Entry
    BY <1>0, CellsAre
  <2> QED
    BY <2>1 DEF Entry
<1>1. b \in 1 .. n
  BY <1>0, <1>a, BucketRange
<1>2. x.pos \in DOMAIN t.values /\ \A e \in Cells(t) : e.pos \in DOMAIN t.values /\ t.values[e.pos] \in Vals
  BY DEF Filed, Sound, LivePositions
<1>3. u = [buckets |-> B, values |-> V, nb |-> t.nb - 1, threshold |-> t.threshold]
  BY DEF Removed
<1> HIDE DEF b, u
<1>4. V \in Seq(Vals \cup {NoValue}) /\ Len(V) = Len(t.values) /\ DOMAIN V = DOMAIN t.values
      /\ \A i \in DOMAIN t.values : i # x.pos => V[i] = t.values[i]
  <2> DEFINE s == t.values
             p == x.pos
  <2>1. s \in Seq(Vals \cup {NoValue}) /\ p \in DOMAIN s
    BY <1>0, <1>2
  <2> HIDE DEF s, p
  <2> QED
    BY <2>1 DEF s, p
<1> HIDE DEF V
<1> DEFINE new == Without(old, k)
<1>5. \A c \in 1 .. n : t.buckets[c] \in Seq(Entry)
  BY <1>0
<1>6. /\ new \in Seq(Entry)
      /\ \A j \in DOMAIN new : \E i \in I : new[j] = old[i]
      /\ \A i \in I : \E j \in DOMAIN new : new[j] = old[i]
      /\ Once(new)
  <2>1. old \in Seq(Entry) /\ Once(old) /\ I \in SUBSET DOMAIN old
    BY <1>0, <1>1, <1>5 DEF KeysOnce, Once
  <2>2. new = Only[old][I]
    BY DEF Without
  <2> HIDE DEF old, I, new
  <2> QED
    BY <2>1, <2>2, OnlyFacts
<1> HIDE DEF new
<1>7. B[b] = new /\ \A c \in 1 .. n : c # b => B[c] = t.buckets[c]
  BY <1>0, <1>1 DEF new
<1>8. B \in Seq(Seq(Entry)) /\ Len(B) = n /\ DOMAIN B = 1 .. n
  <2>1. B = [c \in 1 .. n |-> B[c]] /\ n \in Nat
    BY <1>0
  <2>2. \A c \in 1 .. n : B[c] \in Seq(Entry)
    BY <1>5, <1>6, <1>7
  <2> HIDE DEF B, n
  <2> QED
    BY <2>1, <2>2
<1> HIDE DEF B
<1> HIDE DEF n
<1>9. u.buckets = B /\ u.values = V /\ u.nb = t.nb - 1 /\ u.threshold = t.threshold
  BY <1>3
<1>10. /\ \A c \in 1 .. n : \A i \in DOMAIN t.buckets[c] : t.buckets[c][i] \in Cells(t)
       /\ \A e \in Cells(t) : \E c \in 1 .. n : \E i \in DOMAIN t.buckets[c] : e = t.buckets[c][i]
  <2>1. \A c \in DOMAIN t.buckets : \A i \in DOMAIN t.buckets[c] : t.buckets[c][i] \in Cells(t)
    BY <1>0, CellsAre
  <2>2. \A e \in Cells(t) : \E c \in DOMAIN t.buckets : \E i \in DOMAIN t.buckets[c] : e = t.buckets[c][i]
    BY <1>0, CellsAre
  <2> QED
    BY <1>0, <2>1, <2>2
<1>11. /\ \A c \in 1 .. n : \A i \in DOMAIN B[c] : B[c][i] \in Cells(u)
       /\ \A e \in Cells(u) : \E c \in 1 .. n : \E i \in DOMAIN B[c] : e = B[c][i]
  <2>0. u.buckets \in Seq(Seq(Entry)) /\ DOMAIN u.buckets = 1 .. n
    BY <1>8, <1>9
  <2>1. \A c \in DOMAIN u.buckets : \A i \in DOMAIN u.buckets[c] : u.buckets[c][i] \in Cells(u)
    BY <2>0, CellsAre
  <2>2. \A e \in Cells(u) : \E c \in DOMAIN u.buckets : \E i \in DOMAIN u.buckets[c] : e = u.buckets[c][i]
    BY <2>0, CellsAre
  <2> QED
    BY <1>9, <2>0, <2>1, <2>2
<1>12. ASSUME NEW e \in Cells(t), NEW f \in Cells(t), e.key = f.key
       PROVE  e = f
  BY <1>0, <1>12, EntriesOnce
<1>13. ASSUME NEW c \in 1 .. n, NEW i \in DOMAIN t.buckets[c], t.buckets[c][i].key = k
       PROVE  c = b
  BY <1>0, <1>13 DEF KeysInTheirBuckets, ToSet, b, n
<1>14. ASSUME NEW e \in Cells(u)
       PROVE  e \in Cells(t) /\ e.key # k
  <2>1. PICK c \in 1 .. n : \E i \in DOMAIN B[c] : e = B[c][i]
    BY <1>11
  <2>2. PICK i \in DOMAIN B[c] : e = B[c][i]
    BY <2>1
  <2>3. CASE c = b
    <3>1. PICK j \in I : e = old[j]
      BY <1>6, <1>7, <2>2, <2>3
    <3> QED
      BY <1>1, <1>10, <3>1
  <2>4. CASE c # b
    BY <1>7, <1>10, <1>13, <2>2, <2>4
  <2> QED
    BY <2>3, <2>4
<1>15. ASSUME NEW e \in Cells(t), e.key # k
       PROVE  e \in Cells(u)
  <2>1. PICK c \in 1 .. n : \E i \in DOMAIN t.buckets[c] : e = t.buckets[c][i]
    BY <1>10
  <2>2. PICK i \in DOMAIN t.buckets[c] : e = t.buckets[c][i]
    BY <2>1
  <2>3. CASE c = b
    <3>1. i \in I /\ e = old[i]
      BY <1>15, <2>2, <2>3
    <3>2. \E j \in DOMAIN B[b] : B[b][j] = e
      BY <1>6, <1>7, <3>1
    <3> QED
      BY <1>1, <1>11, <3>2
  <2>4. CASE c # b
    BY <1>7, <1>11, <2>2, <2>4
  <2> QED
    BY <2>3, <2>4
<1>16. Cells(u) = Cells(t) \ {x}
  BY <1>12, <1>14, <1>15
<1>17. Counted(u) /\ u.nb \in Nat
  <2>1. IsFiniteSet(Cells(t)) /\ t.nb = Cardinality(Cells(t))
    BY DEF Sound, Filed, Counted
  <2>2. IsFiniteSet(Cells(u)) /\ Cardinality(Cells(u)) = Cardinality(Cells(t)) - 1
    BY <1>16, <2>1, FS_RemoveElement
  <2>3. Cardinality(Cells(u)) \in Nat
    BY <2>2, FS_CardinalityType
  <2> QED
    BY <1>9, <2>1, <2>2, <2>3 DEF Counted
<1>18. u \in Tables
  BY <1>0, <1>3, <1>4, <1>8, <1>9, <1>17 DEF Tables
<1>19. KeysOnce(u)
  <2> SUFFICES ASSUME NEW c \in 1 .. n, NEW i \in DOMAIN B[c], NEW j \in DOMAIN B[c], B[c][i].key = B[c][j].key
               PROVE  i = j
    BY <1>8, <1>9 DEF KeysOnce
  <2>1. CASE c = b
    <3>1. Once(B[b])
      BY <1>6, <1>7
    <3> QED
      BY <2>1, <3>1, Zenon DEF Once
  <2>2. CASE c # b
    <3>1. B[c] = t.buckets[c]
      BY <1>7, <2>2
    <3>2. \A d \in 1 .. n : \A l, h \in DOMAIN t.buckets[d] : t.buckets[d][l].key = t.buckets[d][h].key => l = h
      BY <1>0 DEF KeysOnce
    <3> QED
      BY <3>1, <3>2
  <2> QED
    BY <2>1, <2>2
<1>20. KeysInTheirBuckets(u)
  <2> SUFFICES ASSUME NEW c \in 1 .. n, NEW i \in DOMAIN B[c]
               PROVE  BucketFor(B[c][i].key, n) = c
    BY <1>8, <1>9 DEF KeysInTheirBuckets, ToSet
  <2>0. \A d \in 1 .. n : \A j \in DOMAIN t.buckets[d] : BucketFor(t.buckets[d][j].key, n) = d
    <3> TAKE d \in 1 .. n
    <3>1. d \in DOMAIN t.buckets /\ Len(t.buckets) = n
      BY <1>0 DEF n
    <3>2. \A e \in ToSet(t.buckets[d]) : BucketFor(e.key, n) = d
      BY <1>0, <3>1, Zenon DEF KeysInTheirBuckets
    <3> QED
      BY <3>2, Zenon DEF ToSet
  <2>1. CASE c = b
    <3>1. PICK j \in I : B[b][i] = old[j]
      BY <1>6, <1>7, <2>1
    <3> QED
      BY <1>1, <2>0, <2>1, <3>1
  <2>2. CASE c # b
    BY <1>7, <2>0, <2>2
  <2> QED
    BY <2>1, <2>2
<1>21. OwnPositions(u)
  BY <1>16 DEF OwnPositions, Sound, Filed
<1>22. \A e \in Cells(u) : e.pos \in DOMAIN V /\ V[e.pos] = t.values[e.pos]
  <2>1. \A e \in Cells(u) : e \in Cells(t) /\ e.pos # x.pos
    BY <1>16 DEF OwnPositions, Sound, Filed
  <2> QED
    BY <1>2, <1>4, <2>1
<1>23. LivePositions(u)
  BY <1>2, <1>9, <1>16, <1>22 DEF LivePositions
<1>24. Filed(u)
  <2>1. Len(u.buckets) > 0 /\ Len(u.values) <= MaxIndex
    BY <1>0, <1>4, <1>8, <1>9 DEF Sound, Filed
  <2> QED
    BY <1>17, <1>18, <1>19, <1>20, <1>21, <1>23, <2>1 DEF Filed
<1>25. Loaded(u)
  <2> DEFINE l == n * MaxLoad
  <2>1. l \in Nat /\ t.nb <= l
    BY <1>0, ArrayHashAssumption DEF Sound, Loaded
  <2> HIDE DEF l
  <2>2. t.nb - 1 <= l
    BY <1>0, <2>1
  <2> QED
    BY <1>8, <1>9, <2>2 DEF Loaded, Sound, l, n
<1>26. \A q, w : Maps(u, q, w) <=> Maps(t, q, w) /\ q # k
  <2> TAKE q, w
  <2>1. \A e \in Cells(u) : u.values[e.pos] = t.values[e.pos]
    BY <1>9, <1>22
  <2> QED
    BY <1>14, <1>15, <2>1 DEF Maps
<1> QED
  BY <1>9, <1>24, <1>25, <1>26 DEF Sound, u

\* A key erased, squeezed before or not.
LEMMA EraseKeeps ==
    ASSUME NEW t, Sound(t), NEW k \in DOMAIN Hash, Has(t, k)
    PROVE  /\ Sound(EraseKey(t, k)) /\ EraseKey(t, k).nb = t.nb - 1
           /\ \A q, w : Maps(EraseKey(t, k), q, w) <=> Maps(t, q, w) /\ q # k
<1> DEFINE u == IF ShouldClear(t, 60) THEN ClearOldErased(t) ELSE t
           gone == CHOOSE e \in EntriesOf(u, k) : TRUE
           b == BucketFor(k, Len(u.buckets))
           r == EraseKey(t, k)
<1>1. Sound(u) /\ SameContents(u, t) /\ u.nb = t.nb
  BY ClearKeeps DEF Sound, SameContents
<1>2. r = [u EXCEPT !.buckets[b] = Only[@][{i \in DOMAIN @ : @[i].key # k}],
                    !.values[gone.pos] = NoValue, !.nb = @ - 1]
  BY Zenon DEF EraseKey
<1> HIDE DEF u, r
<1>3. Has(u, k)
  <2>1. PICK v : Maps(t, k, v)
    BY LookupFacts DEF Sound
  <2>2. Maps(u, k, v)
    BY <1>1, <2>1 DEF SameContents
  <2> QED
    BY <1>1, <2>2, LookupFacts DEF Sound, Maps
<1>4. PICK x \in Cells(u) : x.key = k /\ gone = x
  BY <1>1, <1>3, LookupFacts DEF Sound
<1> HIDE DEF gone
<1>5. r = Removed(u, x)
  <2> DEFINE X == [u.buckets EXCEPT ![b] = Without(u.buckets[b], k)]
             Y == [u.values EXCEPT ![gone.pos] = NoValue]
  <2>1. u = [buckets |-> u.buckets, values |-> u.values, nb |-> u.nb, threshold |-> u.threshold]
    BY <1>1, TableFields DEF Sound, Filed
  <2>2. r = [u EXCEPT !.buckets = X, !.values = Y, !.nb = u.nb - 1]
    BY <1>2 DEF Without
  <2> HIDE DEF X, Y
  <2>3. r = [buckets |-> X, values |-> Y, nb |-> u.nb - 1, threshold |-> u.threshold]
    BY <2>1, <2>2
  <2> QED
    BY <1>4, <2>3 DEF X, Y, Removed
<1>6. Sound(r) /\ r.nb = u.nb - 1 /\ \A q, w : Maps(r, q, w) <=> Maps(u, q, w) /\ q # k
  BY <1>1, <1>4, <1>5, RemovedKeeps
<1> QED
  BY <1>1, <1>6 DEF r, SameContents

\* Another value for a key of the table.
LEMMA SetValueKeeps ==
    ASSUME NEW t, Sound(t), NEW k \in DOMAIN Hash, Has(t, k), NEW v \in Vals
    PROVE  /\ Sound(SetValue(t, k, v)) /\ SetValue(t, k, v).nb = t.nb
           /\ \A q, w : Maps(SetValue(t, k, v), q, w) <=> (q # k /\ Maps(t, q, w)) \/ (q = k /\ w = v)
<1> DEFINE u == SetValue(t, k, v)
           p == (CHOOSE e \in EntriesOf(t, k) : TRUE).pos
           V == [t.values EXCEPT ![p] = v]
<1>0. /\ t \in Tables /\ t.values \in Seq(Vals \cup {NoValue})
      /\ t = [buckets |-> t.buckets, values |-> t.values, nb |-> t.nb, threshold |-> t.threshold]
      /\ t.buckets \in Seq(Seq(Entry)) /\ t.nb \in Nat /\ t.threshold \in Nat
      /\ KeysOnce(t) /\ KeysInTheirBuckets(t)
  BY TableFields DEF Sound, Filed
<1>1. PICK x \in Cells(t) : x.key = k /\ p = x.pos
  BY LookupFacts DEF Sound
<1>2. p \in DOMAIN t.values /\ \A e \in Cells(t) : e.pos \in DOMAIN t.values /\ t.values[e.pos] \in Vals
  BY <1>1 DEF Sound, Filed, LivePositions
<1>3. u = [t EXCEPT !.values = V]
  BY DEF SetValue
<1> HIDE DEF p, u
<1>4. V \in Seq(Vals \cup {NoValue}) /\ Len(V) = Len(t.values) /\ DOMAIN V = DOMAIN t.values
      /\ V[p] = v /\ \A i \in DOMAIN t.values : i # p => V[i] = t.values[i]
  <2> DEFINE s == t.values
  <2>1. s \in Seq(Vals \cup {NoValue}) /\ p \in DOMAIN s
    BY <1>0, <1>2
  <2> HIDE DEF s
  <2> QED
    BY <2>1 DEF s
<1> HIDE DEF V
<1>5. u = [buckets |-> t.buckets, values |-> V, nb |-> t.nb, threshold |-> t.threshold]
  BY <1>0, <1>3
<1>6. u.buckets = t.buckets /\ u.values = V /\ u.nb = t.nb /\ u.threshold = t.threshold
  BY <1>5
<1>7. u \in Tables
  BY <1>0, <1>4, <1>5 DEF Tables
<1>8. Cells(u) = Cells(t) /\ KeysOnce(u) /\ KeysInTheirBuckets(u)
  BY <1>0, <1>6 DEF Cells, KeysOnce, KeysInTheirBuckets
<1>9. OwnPositions(u) /\ Counted(u) /\ Loaded(u)
  <2>1. OwnPositions(u)
    BY <1>8 DEF OwnPositions, Sound, Filed
  <2>2. Counted(u)
    BY <1>6, <1>8 DEF Counted, Sound, Filed
  <2>3. Loaded(u)
    BY <1>6 DEF Loaded, Sound
  <2> QED
    BY <2>1, <2>2, <2>3
<1>10. LivePositions(u)
  <2>1. \A i \in DOMAIN t.values : V[i] = v \/ V[i] = t.values[i]
    BY <1>4
  <2> QED
    BY <1>2, <1>4, <1>6, <1>8, <2>1 DEF LivePositions
<1>11. Filed(u)
  BY <1>4, <1>6, <1>7, <1>8, <1>9, <1>10 DEF Filed, Sound
<1>12. \A e \in Cells(t) : u.values[e.pos] = IF e.key = k THEN v ELSE t.values[e.pos]
  <2> TAKE e \in Cells(t)
  <2>1. CASE e.key = k
    <3>1. e = x
      BY <1>0, <1>1, <2>1, EntriesOnce
    <3> QED
      BY <1>1, <1>4, <1>6, <2>1, <3>1
  <2>2. CASE e.key # k
    <3>1. e.pos # p
      BY <1>1, <2>2 DEF Sound, Filed, OwnPositions
    <3> QED
      BY <1>2, <1>4, <1>6, <2>2, <3>1
  <2> QED
    BY <2>1, <2>2
<1>13. \A q, w : Maps(u, q, w) <=> (q # k /\ Maps(t, q, w)) \/ (q = k /\ w = v)
  BY <1>1, <1>8, <1>12 DEF Maps
<1> QED
  BY <1>6, <1>9, <1>11, <1>13 DEF Sound, u

\* A table made for a sequence of pairs maps the keys to their values.
LEMMA FilledKeeps ==
    ASSUME NEW n \in Nat \ {0}, NEW pairs \in Seq([key : DOMAIN Hash, value : Vals]), Once(pairs),
           Len(pairs) <= MaxIndex, Len(pairs) <= RoundUp(n) * MaxLoad
    PROVE  /\ Sound(Filled(n, pairs)) /\ Filled(n, pairs).nb = Len(pairs)
           /\ \A q, w : Maps(Filled(n, pairs), q, w) <=> \E i \in DOMAIN pairs : pairs[i].key = q /\ pairs[i].value = w
<1> DEFINE m == RoundUp(n)
           es == [i \in DOMAIN pairs |-> [key |-> pairs[i].key, pos |-> i]]
           V == [i \in DOMAIN pairs |-> pairs[i].value]
           B == Bucketed[es][m]
           u == Filled(n, pairs)
<1>0. /\ m \in Nat \ {0} /\ RoundUp(m) = m /\ m * MaxLoad \in Nat
      /\ DOMAIN pairs = 1 .. Len(pairs) /\ Len(pairs) \in Nat
  BY RoundUpFacts, ArrayHashAssumption
<1>1. u = [buckets |-> B, values |-> V, nb |-> Len(pairs), threshold |-> m * MaxLoad]
  BY DEF Filled
<1> HIDE DEF u, B, m
<1>2. \A i \in DOMAIN pairs : pairs[i].key \in DOMAIN Hash /\ pairs[i].value \in Vals
  <2> DEFINE P == [key : DOMAIN Hash, value : Vals]
  <2>1. pairs \in Seq(P)
    OBVIOUS
  <2> HIDE DEF P
  <2>2. \A i \in DOMAIN pairs : pairs[i] \in P
    BY <2>1
  <2> QED
    BY <2>2 DEF P
<1>3. V \in Seq(Vals \cup {NoValue}) /\ Len(V) = Len(pairs) /\ DOMAIN V = DOMAIN pairs
      /\ \A i \in DOMAIN pairs : V[i] = pairs[i].value
  BY <1>0, <1>2
<1>4. es \in Seq(Entry) /\ Len(es) = Len(pairs) /\ DOMAIN es = DOMAIN pairs
      /\ \A i \in DOMAIN pairs : es[i].key = pairs[i].key /\ es[i].pos = i
  BY <1>0, <1>2 DEF Entry
<1> HIDE DEF V, es
<1>5. u.buckets = B /\ u.values = V /\ u.nb = Len(pairs) /\ u.threshold = m * MaxLoad
  BY <1>1
<1>6. Once(es)
  BY <1>4 DEF Once
<1>7. /\ u.buckets \in Seq(Seq(Entry)) /\ Len(u.buckets) = m
      /\ KeysOnce(u) /\ KeysInTheirBuckets(u)
      /\ Cells(u) = {es[i] : i \in DOMAIN es}
  <2>1. u.buckets = Bucketed[es][m]
    BY <1>5 DEF B
  <2> QED
    BY <1>0, <1>4, <1>6, <2>1, BucketedFacts, Zenon
<1>8. u \in Tables
  BY <1>0, <1>1, <1>3, <1>5, <1>7 DEF Tables
<1>9. OwnPositions(u)
  BY <1>4, <1>7 DEF OwnPositions
<1>10. LivePositions(u)
  BY <1>2, <1>3, <1>4, <1>5, <1>7 DEF LivePositions
<1>11. Counted(u)
  <2>1. IsFiniteSet(Cells(u)) /\ Cardinality(Cells(u)) = Len(Entries(u))
    BY <1>7, EntriesOnce
  <2>2. es \in Bijection(1 .. Len(pairs), Cells(u))
    BY <1>0, <1>4, <1>6, <1>7 DEF Bijection, Injection, Surjection, IsInjective, Once
  <2>3. ExistsBijection(1 .. Len(pairs), Cells(u))
    BY <2>2 DEF ExistsBijection
  <2>4. Cardinality(Cells(u)) = Len(pairs)
    BY <1>0, <2>3, FS_NatBijection, FS_CountingElements
  <2> QED
    BY <1>5, <2>1, <2>4 DEF Counted
<1>12. Filed(u)
  BY <1>0, <1>3, <1>5, <1>7, <1>8, <1>9, <1>10, <1>11 DEF Filed
<1>13. Loaded(u)
  <2>1. Len(pairs) <= m * MaxLoad
    BY DEF m
  <2> QED
    BY <1>0, <1>5, <1>7, <2>1 DEF Loaded
<1>14. \A q, w : Maps(u, q, w) <=> \E i \in DOMAIN pairs : pairs[i].key = q /\ pairs[i].value = w
  <2> TAKE q, w
  <2>1. Maps(u, q, w) <=> \E i \in DOMAIN es : es[i].key = q /\ u.values[es[i].pos] = w
    BY <1>7 DEF Maps
  <2> QED
    BY <1>3, <1>4, <1>5, <2>1
<1> QED
  BY <1>5, <1>12, <1>13, <1>14 DEF Sound, u

\* A table without keys.
LEMMA EmptyKeeps ==
    ASSUME NEW n \in Nat \ {0}
    PROVE  /\ Sound(EmptyTable(n)) /\ EmptyTable(n).nb = 0
           /\ \A q, w : ~Maps(EmptyTable(n), q, w)
           /\ \A k \in DOMAIN Hash : ~Has(EmptyTable(n), k)
<1> DEFINE u == EmptyTable(n)
           m == RoundUp(n)
           B == [b \in 1 .. m |-> <<>>]
<1>0. m \in Nat \ {0} /\ RoundUp(m) = m /\ m * MaxLoad \in Nat
  BY RoundUpFacts, ArrayHashAssumption
<1>1. u = [buckets |-> B, values |-> <<>>, nb |-> 0, threshold |-> m * MaxLoad]
  BY DEF EmptyTable
<1> HIDE DEF u, m
<1>2. B \in Seq(Seq(Entry)) /\ Len(B) = m /\ DOMAIN B = 1 .. m /\ \A b \in 1 .. m : B[b] = <<>>
  BY <1>0
<1> HIDE DEF B
<1>3. u.buckets = B /\ u.values = <<>> /\ u.nb = 0 /\ u.threshold = m * MaxLoad
  BY <1>1
<1>4. Cells(u) = {}
  BY <1>2, <1>3 DEF Cells, ToSet
<1>5. u \in Tables
  BY <1>0, <1>1, <1>2 DEF Tables
<1>6. KeysOnce(u) /\ KeysInTheirBuckets(u)
  BY <1>2, <1>3 DEF KeysOnce, KeysInTheirBuckets, ToSet
<1>7. OwnPositions(u) /\ LivePositions(u) /\ Counted(u)
  BY <1>3, <1>4, FS_EmptySet DEF OwnPositions, LivePositions, Counted
<1>8. Filed(u)
  BY <1>0, <1>2, <1>3, <1>5, <1>6, <1>7, ArrayHashAssumption DEF Filed
<1>9. Loaded(u)
  BY <1>0, <1>2, <1>3 DEF Loaded
<1> QED
  BY <1>3, <1>4, <1>8, <1>9, LookupFacts DEF Maps, Sound, u

\* A table written and read back.
LEMMA DeserializedKeeps ==
    ASSUME NEW t, Sound(t)
    PROVE  Sound(Deserialized(t)) /\ SameContents(Deserialized(t), t) /\ Deserialized(t).nb = t.nb
<1> DEFINE s == Squeezed(t)
           u == Deserialized(t)
<1>1. /\ Filed(s) /\ SameContents(s, t) /\ s.nb = t.nb /\ Len(s.buckets) = Len(t.buckets)
  BY SqueezeKeeps DEF Sound
<1>2. u = [s EXCEPT !.threshold = 0]
  BY DEF Deserialized
<1> HIDE DEF s, u
<1>3. /\ s.buckets \in Seq(Seq(Entry)) /\ s.values \in Seq(Vals \cup {NoValue})
      /\ s.nb \in Nat /\ s.threshold \in Nat
      /\ s = [buckets |-> s.buckets, values |-> s.values, nb |-> s.nb, threshold |-> s.threshold]
  BY <1>1, TableFields DEF Filed
<1>4. u = [buckets |-> s.buckets, values |-> s.values, nb |-> s.nb, threshold |-> 0]
  BY <1>2, <1>3
<1>5. u.buckets = s.buckets /\ u.values = s.values /\ u.nb = s.nb /\ u.threshold = 0
  BY <1>4
<1>6. u \in Tables
  BY <1>3, <1>4 DEF Tables
<1>7. Cells(u) = Cells(s) /\ KeysOnce(u) /\ KeysInTheirBuckets(u)
  BY <1>1, <1>5 DEF Cells, KeysOnce, KeysInTheirBuckets, Filed
<1>8. OwnPositions(u) /\ LivePositions(u)
  BY <1>1, <1>5, <1>7 DEF OwnPositions, LivePositions, Filed
<1>9. Counted(u)
  BY <1>1, <1>5, <1>7 DEF Counted, Filed
<1>10. Filed(u)
  BY <1>1, <1>5, <1>6, <1>7, <1>8, <1>9 DEF Filed
<1>11. Loaded(u)
  BY <1>1, <1>5 DEF Loaded, Sound
<1>12. \A q, w : Maps(u, q, w) <=> Maps(s, q, w)
  BY <1>5, <1>7 DEF Maps
<1> QED
  BY <1>1, <1>5, <1>10, <1>11, <1>12 DEF Sound, SameContents, u

\* A quotient rounded up.
LEMMA Ceiling ==
    ASSUME NEW a \in Nat
    PROVE  CeilDiv(a, MaxLoad) \in Nat /\ a <= CeilDiv(a, MaxLoad) * MaxLoad /\ (a > 0 => CeilDiv(a, MaxLoad) > 0)
<1> DEFINE l == MaxLoad
           x == a + l - 1
           d == x \div l
<1>1. l \in Nat \ {0}
  BY ArrayHashAssumption
<1> HIDE DEF l
<1>2. x \in Nat
  BY <1>1
<1> HIDE DEF x
<1>3. d \in Nat /\ x = l * d + (x % l) /\ x % l \in 0 .. l - 1
  BY <1>1, <1>2
<1>4. d * l = l * d /\ l * d \in Nat
  BY <1>1, <1>3
<1> HIDE DEF d
<1>5. a <= d * l
  BY <1>1, <1>2, <1>3, <1>4 DEF x
<1>6. a > 0 => d > 0
  <2>1. d = 0 => d * l = 0
    BY <1>1
  <2> QED
    BY <1>3, <1>5, <2>1
<1> QED
  BY <1>3, <1>5, <1>6 DEF CeilDiv, d, x, l

\* CeilDiv(nb, max load) buckets hold the load.
LEMMA ShrinkKeeps ==
    ASSUME NEW t, Sound(t), t.nb > 0
    PROVE  Sound(ShrinkToFit(t)) /\ SameContents(ShrinkToFit(t), t) /\ ShrinkToFit(t).nb = t.nb
<1> DEFINE u == ClearOldErased(t)
           n == CeilDiv(t.nb, MaxLoad)
<1>1. Sound(u) /\ SameContents(u, t) /\ u.nb = t.nb
  BY ClearKeeps DEF Sound
<1>2. t.nb \in Nat
  BY TableFields DEF Sound, Filed
<1>3. n \in Nat \ {0} /\ t.nb <= n * MaxLoad
  BY <1>2, Ceiling
<1>4. ShrinkToFit(t) = Rehash(u, n)
  BY DEF ShrinkToFit
<1> HIDE DEF u, n
<1>5. t.nb <= RoundUp(n) * MaxLoad
  <2> DEFINE r == RoundUp(n)
  <2>1. r \in Nat /\ r >= n /\ MaxLoad \in Nat
    BY <1>3, RoundUpFacts, ArrayHashAssumption
  <2> HIDE DEF r
  <2>2. PICK d \in Nat : r = n + d
    <3>1. r - n \in Nat /\ r = n + (r - n)
      BY <1>3, <2>1
    <3> QED
      BY <3>1
  <2>3. n * MaxLoad \in Nat /\ d * MaxLoad \in Nat /\ r * MaxLoad = n * MaxLoad + d * MaxLoad
    BY <1>3, <2>1, <2>2
  <2> QED
    BY <1>2, <1>3, <2>3 DEF r
<1>6. Sound(Rehash(u, n)) /\ SameContents(Rehash(u, n), u) /\ Rehash(u, n).nb = u.nb
  BY <1>1, <1>3, <1>5, RehashKeeps
<1> QED
  BY <1>1, <1>4, <1>6 DEF SameContents

\* What the invariant says of a table is what the property asks.
LEMMA SoundTables ==
    ASSUME NEW t, Sound(t)
    PROVE  TableSound(t)
<1> DEFINE es == Entries(t)
<1>0. t \in Tables /\ t.buckets \in Seq(Seq(Entry)) /\ KeysOnce(t) /\ KeysInTheirBuckets(t) /\ t.nb \in Nat
  BY TableFields DEF Sound, Filed
<1>1. \A i \in DOMAIN es : es[i] \in Cells(t)
  BY <1>0, EntriesAreCells
<1>2. \A i, j \in DOMAIN es : es[i].key = es[j].key => i = j
  BY <1>0, EntriesOnce
<1>3. t.nb = Len(es)
  BY <1>0, EntriesOnce DEF Sound, Filed, Counted
<1>4. PositionsAreOwn(t)
  <2> HIDE DEF es
  <2>1. \A i \in DOMAIN es : es[i].pos \in DOMAIN t.values
    BY <1>1 DEF Sound, Filed, LivePositions
  <2>2. \A i, j \in DOMAIN es : i # j => es[i].key # es[j].key /\ es[i].pos # es[j].pos
    BY <1>1, <1>2 DEF Sound, Filed, OwnPositions
  <2> QED
    BY <2>1, <2>2 DEF PositionsAreOwn, es
<1> QED
  BY <1>0, <1>3, <1>4 DEF TableSound, Sound, Filed, Loaded

-----------------------------------------------------------------------------
(* Paths. *)

LEMMA PrefixMeans ==
    ASSUME NEW S, NEW p \in Seq(S), NEW q \in Seq(S)
    PROVE  IsPrefix(p, q) <=> Len(p) <= Len(q) /\ \A i \in 1 .. Len(p) : p[i] = q[i]
<1>0. Len(p) \in Nat /\ Len(q) \in Nat
  OBVIOUS
<1>1. CASE ~(Len(p) <= Len(q))
  BY <1>1 DEF IsPrefix
<1>2. CASE Len(p) <= Len(q)
  <2>1. /\ SubSeq(p, 1, Len(p)) = p
        /\ SubSeq(q, 1, Len(p)) \in Seq(S) /\ Len(SubSeq(q, 1, Len(p))) = Len(p)
        /\ \A i \in 1 .. Len(p) : SubSeq(q, 1, Len(p))[i] = q[i]
    BY <1>0, <1>2
  <2> DEFINE r == SubSeq(q, 1, Len(p))
  <2>2. IsPrefix(p, q) <=> p = r
    BY <1>2, <2>1 DEF IsPrefix
  <2>3. r \in Seq(S) /\ Len(r) = Len(p) /\ \A i \in 1 .. Len(p) : r[i] = q[i]
    BY <2>1
  <2> HIDE DEF r
  <2>4. p = r <=> \A i \in 1 .. Len(p) : p[i] = r[i]
    BY <1>0, <2>3
  <2> QED
    BY <1>2, <2>2, <2>3, <2>4
<1> QED
  BY <1>1, <1>2

\* Prefixes are ordered, and longer ones are longer.
LEMMA PrefixOrder ==
    ASSUME NEW S, NEW p \in Seq(S), NEW q \in Seq(S)
    PROVE  /\ IsPrefix(p, p) /\ IsPrefix(<<>>, p)
           /\ IsPrefix(p, q) /\ Len(p) = Len(q) => p = q
           /\ IsPrefix(p, q) /\ IsPrefix(q, p) => p = q
           /\ IsPrefix(p, q) => p = SubSeq(q, 1, Len(p)) /\ Len(p) <= Len(q)
           /\ IsPrefix(p, q) /\ p # q => Len(p) < Len(q)
           /\ p # <<>> => Len(p) > 0
<1>0. Len(p) \in Nat /\ Len(q) \in Nat /\ <<>> \in Seq(S) /\ Len(<<>>) = 0
  OBVIOUS
<1>1. IsPrefix(p, p) /\ IsPrefix(<<>>, p)
  <2>1. IsPrefix(p, p)
    BY DEF IsPrefix
  <2>2. SubSeq(<<>>, 1, 0) = <<>> /\ SubSeq(p, 1, 0) = <<>>
    OBVIOUS
  <2> QED
    BY <1>0, <2>1, <2>2 DEF IsPrefix
<1>2. ASSUME IsPrefix(p, q), Len(p) = Len(q)
      PROVE  p = q
  <2>1. \A i \in 1 .. Len(p) : p[i] = q[i]
    BY <1>2, PrefixMeans
  <2> QED
    BY <1>2, <2>1
<1>3. IsPrefix(p, q) => Len(p) <= Len(q)
  BY PrefixMeans
<1>4. IsPrefix(q, p) => Len(q) <= Len(p)
  BY PrefixMeans
<1>5. IsPrefix(p, q) => p = SubSeq(q, 1, Len(p))
  <2>1. SubSeq(p, 1, Len(p)) = p
    OBVIOUS
  <2> QED
    BY <2>1 DEF IsPrefix
<1>6. p # <<>> => Len(p) > 0
  BY <1>0
<1> QED
  BY <1>0, <1>1, <1>2, <1>3, <1>4, <1>5, <1>6

\* Prefixes of prefixes, and of one sequence.
LEMMA PrefixChain ==
    ASSUME NEW S, NEW p \in Seq(S), NEW q \in Seq(S), NEW r \in Seq(S)
    PROVE  /\ IsPrefix(p, q) /\ IsPrefix(q, r) => IsPrefix(p, r)
           /\ IsPrefix(p, r) /\ IsPrefix(q, r) /\ Len(p) <= Len(q) => IsPrefix(p, q)
<1>0. Len(p) \in Nat /\ Len(q) \in Nat /\ Len(r) \in Nat
  OBVIOUS
<1>1. /\ IsPrefix(p, q) <=> Len(p) <= Len(q) /\ \A i \in 1 .. Len(p) : p[i] = q[i]
      /\ IsPrefix(p, r) <=> Len(p) <= Len(r) /\ \A i \in 1 .. Len(p) : p[i] = r[i]
      /\ IsPrefix(q, r) <=> Len(q) <= Len(r) /\ \A i \in 1 .. Len(q) : q[i] = r[i]
  BY PrefixMeans
<1> QED
  BY <1>0, <1>1

\* The first elements of a sequence.
LEMMA CutFacts ==
    ASSUME NEW S, NEW q \in Seq(S), NEW i \in 0 .. Len(q)
    PROVE  /\ SubSeq(q, 1, i) \in Seq(S) /\ Len(SubSeq(q, 1, i)) = i
           /\ IsPrefix(SubSeq(q, 1, i), q)
           /\ \A j \in 1 .. i : SubSeq(q, 1, i)[j] = q[j]
<1>1. SubSeq(q, 1, i) \in Seq(S) /\ Len(SubSeq(q, 1, i)) = i /\ \A j \in 1 .. i : SubSeq(q, 1, i)[j] = q[j]
  OBVIOUS
<1> DEFINE p == SubSeq(q, 1, i)
<1> HIDE DEF p
<1>2. p \in Seq(S) /\ Len(p) = i /\ \A j \in 1 .. i : p[j] = q[j]
  BY <1>1 DEF p
<1>3. IsPrefix(p, q)
  BY <1>2, PrefixMeans
<1> QED
  BY <1>1, <1>3 DEF p

\* The first of the first elements.
LEMMA CutOfCut ==
    ASSUME NEW S, NEW q \in Seq(S), NEW i \in 0 .. Len(q), NEW j \in 0 .. i
    PROVE  SubSeq(SubSeq(q, 1, i), 1, j) = SubSeq(q, 1, j) /\ IsPrefix(SubSeq(q, 1, j), SubSeq(q, 1, i))
<1> DEFINE p == SubSeq(q, 1, i)
           r == SubSeq(q, 1, j)
           t == SubSeq(p, 1, j)
<1>1. /\ p \in Seq(S) /\ Len(p) = i /\ \A l \in 1 .. i : p[l] = q[l]
      /\ r \in Seq(S) /\ Len(r) = j /\ \A l \in 1 .. j : r[l] = q[l]
  OBVIOUS
<1> HIDE DEF p
<1>2. t \in Seq(S) /\ Len(t) = j /\ \A l \in 1 .. j : t[l] = p[l]
  BY <1>1
<1> HIDE DEF r, t
<1>3. t = r
  BY <1>1, <1>2
<1>4. IsPrefix(r, p)
  BY <1>1, PrefixMeans
<1> QED
  BY <1>3, <1>4 DEF p, r, t

\* A sequence but its last element.
LEMMA FrontFacts ==
    ASSUME NEW S, NEW q \in Seq(S), q # <<>>
    PROVE  /\ Front(q) \in Seq(S) /\ Len(Front(q)) = Len(q) - 1 /\ Len(q) \in Nat \ {0}
           /\ IsPrefix(Front(q), q) /\ Last(q) \in S /\ q = Append(Front(q), Last(q))
           /\ \A p \in Seq(S) : IsPrefix(p, q) /\ p # q => IsPrefix(p, Front(q))
<1>0. Len(q) \in Nat \ {0} /\ Len(q) - 1 \in 0 .. Len(q)
  OBVIOUS
<1>1. Front(q) \in Seq(S) /\ Len(Front(q)) = Len(q) - 1 /\ IsPrefix(Front(q), q)
      /\ \A j \in 1 .. Len(q) - 1 : Front(q)[j] = q[j]
  BY <1>0, CutFacts DEF Front
<1>2. Last(q) \in S
  BY <1>0 DEF Last
<1> DEFINE f == Front(q)
           l == Last(q)
<1>3. l = q[Len(q)]
  BY DEF Last
<1> HIDE DEF f, l
<1>4. q = Append(f, l)
  BY <1>0, <1>1, <1>2, <1>3 DEF f
<1>5. ASSUME NEW p \in Seq(S), IsPrefix(p, q), p # q
      PROVE  IsPrefix(p, f)
  <2>1. Len(p) < Len(q) /\ Len(p) \in Nat
    BY <1>5, PrefixOrder
  <2>2. f \in Seq(S) /\ IsPrefix(f, q) /\ Len(p) <= Len(f)
    BY <1>0, <1>1, <2>1 DEF f
  <2> QED
    BY <1>5, <2>2, PrefixChain
<1> QED
  BY <1>0, <1>1, <1>2, <1>4, <1>5 DEF f, l

\* A sequence with one more element.
LEMMA AppendFacts ==
    ASSUME NEW S, NEW p \in Seq(S), NEW c \in S
    PROVE  /\ Append(p, c) \in Seq(S) /\ Len(Append(p, c)) = Len(p) + 1 /\ Append(p, c) # <<>>
           /\ Front(Append(p, c)) = p /\ Last(Append(p, c)) = c
           /\ IsPrefix(p, Append(p, c)) /\ ~IsPrefix(Append(p, c), p)
           /\ \A q \in Seq(S) : IsPrefix(p, q) /\ Len(p) < Len(q) =>
                 q[Len(p) + 1] \in S /\ IsPrefix(Append(p, q[Len(p) + 1]), q)
           /\ \A q \in Seq(S) : IsPrefix(Append(p, c), q) =>
                 IsPrefix(p, q) /\ Len(p) < Len(q) /\ q[Len(p) + 1] = c
<1> DEFINE a == Append(p, c)
<1>0. Len(p) \in Nat
  OBVIOUS
<1>1. a \in Seq(S) /\ Len(a) = Len(p) + 1 /\ a # <<>> /\ a[Len(p) + 1] = c /\ \A i \in 1 .. Len(p) : a[i] = p[i]
  OBVIOUS
<1> HIDE DEF a
<1>2. Front(a) = p /\ Last(a) = c
  <2> DEFINE f == Front(a)
  <2>1. f \in Seq(S) /\ Len(f) = Len(p) /\ \A i \in 1 .. Len(p) : f[i] = a[i]
    BY <1>0, <1>1, CutFacts DEF Front
  <2> HIDE DEF f
  <2>2. f = p
    BY <1>0, <1>1, <2>1
  <2> QED
    BY <1>1, <2>2 DEF Last, f
<1>3. IsPrefix(p, a)
  BY <1>0, <1>1, PrefixMeans
<1>4. ~IsPrefix(a, p)
  BY <1>0, <1>1, PrefixMeans
<1>5. ASSUME NEW q \in Seq(S), IsPrefix(p, q), Len(p) < Len(q)
      PROVE  q[Len(p) + 1] \in S /\ IsPrefix(Append(p, q[Len(p) + 1]), q)
  <2>1. q[Len(p) + 1] \in S /\ Len(q) \in Nat /\ \A i \in 1 .. Len(p) : p[i] = q[i]
    BY <1>0, <1>5, PrefixMeans
  <2> DEFINE b == Append(p, q[Len(p) + 1])
  <2>2. b \in Seq(S) /\ Len(b) = Len(p) + 1 /\ b[Len(p) + 1] = q[Len(p) + 1] /\ \A i \in 1 .. Len(p) : b[i] = p[i]
    BY <2>1
  <2> HIDE DEF b
  <2>3. \A i \in 1 .. Len(p) + 1 : b[i] = q[i]
    BY <1>0, <2>1, <2>2
  <2>4. IsPrefix(b, q)
    BY <1>0, <1>5, <2>1, <2>2, <2>3, PrefixMeans
  <2> QED
    BY <2>1, <2>4 DEF b
<1>6. ASSUME NEW q \in Seq(S), IsPrefix(a, q)
      PROVE  IsPrefix(p, q) /\ Len(p) < Len(q) /\ q[Len(p) + 1] = c
  <2>1. Len(a) <= Len(q) /\ \A i \in 1 .. Len(a) : a[i] = q[i]
    BY <1>1, <1>6, PrefixMeans
  <2>2. Len(q) \in Nat /\ Len(p) + 1 \in 1 .. Len(a)
    BY <1>0, <1>1
  <2>3. IsPrefix(p, q)
    BY <1>1, <1>3, <1>6, PrefixChain
  <2> QED
    BY <1>0, <1>1, <2>1, <2>2, <2>3
<1> QED
  BY <1>1, <1>2, <1>3, <1>4, <1>5, <1>6 DEF a

\* What follows a prefix.
LEMMA SuffixFacts ==
    ASSUME NEW S, NEW p \in Seq(S)
    PROVE  /\ \A s \in Seq(S) : p \o s \in Seq(S) /\ IsPrefix(p, p \o s) /\ SuffixAfter(p \o s, p) = s
                                /\ Len(p \o s) = Len(p) + Len(s) /\ (p \o s = p => s = <<>>)
           /\ \A q \in Seq(S) : IsPrefix(p, q) =>
                 q = p \o SuffixAfter(q, p) /\ SuffixAfter(q, p) \in Seq(S)
                 /\ (SuffixAfter(q, p) = <<>> => p = q)
<1>0. Len(p) \in Nat
  OBVIOUS
<1>1. ASSUME NEW s \in Seq(S)
      PROVE  p \o s \in Seq(S) /\ IsPrefix(p, p \o s) /\ SuffixAfter(p \o s, p) = s
             /\ Len(p \o s) = Len(p) + Len(s) /\ (p \o s = p => s = <<>>)
  <2> DEFINE r == p \o s
             t == SubSeq(r, Len(p) + 1, Len(r))
  <2>0. Len(s) \in Nat
    OBVIOUS
  <2>1. /\ r \in Seq(S) /\ Len(r) = Len(p) + Len(s)
        /\ \A i \in 1 .. Len(p) : r[i] = p[i]
        /\ \A i \in 1 .. Len(s) : r[Len(p) + i] = s[i]
    BY <1>0, <2>0
  <2> HIDE DEF r
  <2>2. IsPrefix(p, r)
    BY <1>0, <2>0, <2>1, PrefixMeans
  <2>3. t \in Seq(S) /\ Len(t) = Len(s) /\ \A i \in 1 .. Len(s) : t[i] = r[Len(p) + i]
    BY <1>0, <2>0, <2>1
  <2> HIDE DEF t
  <2>4. t = s
    BY <2>0, <2>1, <2>3
  <2>5. r = p => s = <<>>
    BY <1>0, <2>0, <2>1
  <2> QED
    BY <2>1, <2>2, <2>4, <2>5 DEF r, t, SuffixAfter
<1>2. ASSUME NEW q \in Seq(S), IsPrefix(p, q)
      PROVE  q = p \o SuffixAfter(q, p) /\ SuffixAfter(q, p) \in Seq(S)
             /\ (SuffixAfter(q, p) = <<>> => p = q)
  <2> DEFINE s == SubSeq(q, Len(p) + 1, Len(q))
  <2>1. Len(q) \in Nat /\ Len(p) <= Len(q) /\ \A i \in 1 .. Len(p) : p[i] = q[i]
    BY <1>0, <1>2, PrefixMeans
  <2>2. s \in Seq(S) /\ Len(s) = Len(q) - Len(p) /\ \A i \in 1 .. Len(q) - Len(p) : s[i] = q[Len(p) + i]
    BY <1>0, <2>1
  <2> HIDE DEF s
  <2> DEFINE r == p \o s
  <2>3. /\ r \in Seq(S) /\ Len(r) = Len(q)
        /\ \A i \in 1 .. Len(p) : r[i] = p[i]
        /\ \A i \in Len(p) + 1 .. Len(q) : r[i] = s[i - Len(p)]
    BY <1>0, <2>1, <2>2
  <2> HIDE DEF r
  <2>4. \A i \in 1 .. Len(q) : r[i] = q[i]
    <3> TAKE i \in 1 .. Len(q)
    <3>1. CASE i <= Len(p)
      BY <1>0, <2>1, <2>3, <3>1
    <3>2. CASE i > Len(p)
      <4> DEFINE j == i - Len(p)
      <4>1. j \in 1 .. Len(q) - Len(p) /\ Len(p) + j = i /\ i \in Len(p) + 1 .. Len(q)
        BY <1>0, <2>1, <3>2
      <4>2. r[i] = s[j]
        BY <2>3, <4>1
      <4> HIDE DEF j
      <4>3. s[j] = q[Len(p) + j]
        BY <2>2, <4>1
      <4> QED
        BY <4>1, <4>2, <4>3
    <3> QED
      BY <1>0, <3>1, <3>2
  <2>5. r = q
    <3>1. r = [i \in 1 .. Len(q) |-> r[i]]
      BY <2>3
    <3>2. q = [i \in 1 .. Len(q) |-> q[i]]
      OBVIOUS
    <3> QED
      BY <2>4, <3>1, <3>2
  <2>6. s = <<>> => p = q
    BY <1>0, <2>1, <2>2
  <2> QED
    BY <2>2, <2>5, <2>6 DEF r, s, SuffixAfter
<1> QED
  BY <1>1, <1>2

-----------------------------------------------------------------------------
(* The tree. *)

LeafSound(p, node) ==
    /\ node = HashNode(node.table)
    /\ Sound(node.table)
    /\ \A e \in Cells(node.table) : e.key \in Seq(Chars) /\ p \o e.key \in ShortKeys

InnerSound(p, node) ==
    /\ node = TrieNode(node.value)
    /\ node.value \in Vals \cup {NoValue}
    /\ node.value # NoValue => p \in ShortKeys

\* Every path but the empty one goes on from a trie node.
Closed(ns) ==
    \A p \in DOMAIN ns : p \in Seq(Chars) /\ (p # <<>> => Front(p) \in DOMAIN ns /\ ~IsHash(ns, Front(p)))

Tree(ns) ==
    /\ IsFiniteSet(DOMAIN ns)
    /\ Closed(ns)
    /\ \A p \in DOMAIN ns : LeafSound(p, ns[p]) \/ InnerSound(p, ns[p])

NoneEmpty(ns) == \A p \in DOMAIN ns : ~IsEmptyNode(ns, p)

\* The node of p maps k to v.
HoldsAt(ns, p, k, v) ==
    IF IsHash(ns, p) THEN IsPrefix(p, k) /\ Maps(ns[p].table, SuffixAfter(k, p), v)
    ELSE p = k /\ ns[p].value = v /\ v # NoValue

Holds(ns, k, v) == \E p \in DOMAIN ns : HoldsAt(ns, p, k, v)

\* Keys are paths, and their suffixes have hashes.
LEMMA KeyFacts ==
    ASSUME NEW k \in Keys
    PROVE  /\ k \in Seq(Chars)
           /\ \A p \in Seq(Chars) : IsPrefix(p, k) => SuffixAfter(k, p) \in DOMAIN Hash
           /\ \A p, s \in Seq(Chars) : p \o s = k => s \in DOMAIN Hash
<1>1. k \in Seq(Chars)
  BY HatTrieAssumption
<1>2. ASSUME NEW p \in Seq(Chars), IsPrefix(p, k)
      PROVE  SuffixAfter(k, p) \in DOMAIN Hash
  <2>1. Len(p) <= Len(k) /\ Len(p) \in Nat /\ Len(k) \in Nat
    BY <1>1, <1>2, PrefixMeans
  <2>2. Len(p) + 1 \in 1 .. Len(k) + 1
    BY <2>1
  <2>3. \A i \in 1 .. Len(k) + 1 : SubSeq(k, i, Len(k)) \in DOMAIN Hash
    <3>1. SubSeq(k, 1, Len(k)) = k /\ Len(k) \in 0 .. Len(k)
      BY <1>1
    <3>2. k \in Prefixes(k)
      BY <3>1 DEF Prefixes
    <3> QED
      BY <3>2, HatTrieAssumption
  <2> QED
    BY <2>2, <2>3 DEF SuffixAfter
<1>3. ASSUME NEW p \in Seq(Chars), NEW s \in Seq(Chars), p \o s = k
      PROVE  s \in DOMAIN Hash
  <2>1. IsPrefix(p, k) /\ SuffixAfter(k, p) = s
    <3>1. IsPrefix(p, p \o s) /\ SuffixAfter(p \o s, p) = s
      BY SuffixFacts
    <3> QED
      BY <1>3, <3>1
  <2> QED
    BY <1>2, <2>1
<1> QED
  BY <1>1, <1>2, <1>3

\* A node is a leaf or an inner node.
LEMMA NodeKinds ==
    ASSUME NEW ns, Tree(ns), NEW p \in DOMAIN ns
    PROVE  /\ p \in Seq(Chars)
           /\ IsHash(ns, p) => LeafSound(p, ns[p]) /\ ns[p].value = NoValue /\ ~HasValue(ns, p)
           /\ ~IsHash(ns, p) => InnerSound(p, ns[p]) /\ ns[p].kind = "trie"
<1>1. p \in Seq(Chars)
  BY DEF Tree, Closed
<1>2. LeafSound(p, ns[p]) => ns[p].kind = "hash" /\ ns[p].value = NoValue
  BY DEF LeafSound, HashNode
<1>3. InnerSound(p, ns[p]) => ns[p].kind = "trie"
  BY DEF InnerSound, TrieNode
<1> QED
  BY <1>1, <1>2, <1>3 DEF Tree, IsHash, HasValue

\* Every prefix of a path is a path, and goes on from a trie node.
LEMMA PrefixesThere ==
    ASSUME NEW ns, Closed(ns), NEW q \in DOMAIN ns, NEW p \in Seq(Chars), IsPrefix(p, q)
    PROVE  p \in DOMAIN ns /\ (p # q => ~IsHash(ns, p))
<1> DEFINE k == Len(q)
           Cut(n) == SubSeq(q, 1, k - n)
           R == {n \in 0 .. k : Cut(n) \in DOMAIN ns /\ (n # 0 => ~IsHash(ns, Cut(n)))}
<1>0. q \in Seq(Chars) /\ k \in Nat
  BY DEF Closed
<1>1. 0 \in R
  <2>1. k - 0 = k /\ SubSeq(q, 1, k) = q
    BY <1>0
  <2>2. Cut(0) \in DOMAIN ns
    BY <2>1
  <2> HIDE DEF Cut
  <2> QED
    BY <1>0, <2>2
<1>2. ASSUME NEW n \in 0 .. k - 1, n \in R
      PROVE  n + 1 \in R
  <2>1. n \in 0 .. k /\ k - n \in 0 .. k /\ k - n # 0 /\ k - (n + 1) = (k - n) - 1 /\ k - (n + 1) \in 0 .. k - n
        /\ n + 1 \in 0 .. k
    BY <1>0
  <2>2. Cut(n) \in DOMAIN ns /\ Cut(n) \in Seq(Chars) /\ Len(Cut(n)) = k - n
    BY <1>0, <1>2, <2>1, CutFacts
  <2>3. Cut(n) # <<>>
    <3>1. Len(<<>>) = 0
      OBVIOUS
    <3> HIDE DEF Cut
    <3> QED
      BY <2>1, <2>2, <3>1
  <2>4. Front(Cut(n)) = SubSeq(Cut(n), 1, (k - n) - 1)
    BY <2>2 DEF Front
  <2>5. SubSeq(Cut(n), 1, (k - n) - 1) = Cut(n + 1)
    <3> DEFINE i == k - n
               j == k - (n + 1)
    <3>1. i \in 0 .. Len(q) /\ j \in 0 .. i /\ j = i - 1
      BY <2>1
    <3> HIDE DEF i, j
    <3>2. SubSeq(SubSeq(q, 1, i), 1, j) = SubSeq(q, 1, j)
      BY <1>0, <3>1, CutOfCut
    <3> QED
      BY <3>1, <3>2 DEF i, j
  <2>6. Cut(n + 1) \in DOMAIN ns /\ ~IsHash(ns, Cut(n + 1))
    <3> HIDE DEF Cut
    <3> QED
      BY <2>2, <2>3, <2>4, <2>5 DEF Closed
  <2> HIDE DEF Cut
  <2> QED
    BY <2>1, <2>6
<1>3. \A n \in 0 .. k : n \in R
  <2> HIDE DEF R
  <2> QED
    BY <1>0, <1>1, <1>2, Rounds
<1>4. Len(p) \in Nat /\ Len(p) <= k /\ p = SubSeq(q, 1, Len(p)) /\ (p # q => Len(p) < k)
  BY <1>0, PrefixOrder
<1>5. k - Len(p) \in 0 .. k /\ k - (k - Len(p)) = Len(p)
  BY <1>0, <1>4
<1>6. Cut(k - Len(p)) = p
  BY <1>4, <1>5
<1>7. p \in DOMAIN ns /\ (k - Len(p) # 0 => ~IsHash(ns, p))
  <2> HIDE DEF Cut
  <2> QED
    BY <1>3, <1>5, <1>6
<1> QED
  BY <1>0, <1>4, <1>7

\* Where the descent along a key ends.
LEMMA StopFacts ==
    ASSUME NEW ns, Closed(ns), NEW key \in Seq(Chars)
    PROVE  /\ Stop(ns, key) \in Seq(Chars) /\ IsPrefix(Stop(ns, key), key)
           /\ Stop(ns, key) = key \/ Stop(ns, key) \notin DOMAIN ns \/ IsHash(ns, Stop(ns, key))
           /\ \A p \in Seq(Chars) : IsPrefix(p, Stop(ns, key)) /\ p # Stop(ns, key) => p \in DOMAIN ns /\ ~IsHash(ns, p)
           /\ \A p \in DOMAIN ns : IsPrefix(p, key) => IsPrefix(p, Stop(ns, key))
<1> DEFINE k == Len(key)
           Cut(i) == SubSeq(key, 1, i)
           Ends(i) == i = k \/ Cut(i) \notin DOMAIN ns \/ IsHash(ns, Cut(i))
           E == {i \in 0 .. k : Ends(i)}
           m == Min(E)
           s == Stop(ns, key)
<1>0. k \in Nat /\ E \in SUBSET Nat /\ k \in E
  OBVIOUS
<1>1. m \in E /\ \A i \in E : m <= i
  <2> HIDE DEF E
  <2> QED
    BY <1>0, MinFacts
<1>2. s = Cut(m)
  BY DEF Stop
<1>3. m \in 0 .. k /\ Ends(m) /\ \A i \in 0 .. m - 1 : ~Ends(i)
  <2>1. m \in 0 .. k /\ Ends(m)
    BY <1>1
  <2> HIDE DEF m
  <2>2. ASSUME NEW i \in 0 .. m - 1, Ends(i)
        PROVE  FALSE
    <3>1. i \in 0 .. k
      BY <1>0, <2>1
    <3>2. i \in E
      BY <2>2, <3>1
    <3> HIDE DEF E
    <3> QED
      BY <1>1, <2>1, <3>2
  <2> QED
    BY <2>1, <2>2
<1> HIDE DEF m, s, E
<1>4. Cut(k) = key
  OBVIOUS
<1>5. s \in Seq(Chars) /\ IsPrefix(s, key) /\ Len(s) = m
  BY <1>2, <1>3, CutFacts
<1>6. s = key \/ s \notin DOMAIN ns \/ IsHash(ns, s)
  BY <1>2, <1>3, <1>4
<1>7. ASSUME NEW p \in Seq(Chars), IsPrefix(p, s), p # s
      PROVE  p \in DOMAIN ns /\ ~IsHash(ns, p)
  <2>1. Len(p) \in Nat /\ Len(p) < m
    BY <1>5, <1>7, PrefixOrder
  <2>2. IsPrefix(p, key)
    BY <1>5, <1>7, PrefixChain
  <2>3. p = Cut(Len(p))
    BY <2>2, PrefixOrder
  <2>4. Len(p) \in 0 .. m - 1
    BY <1>3, <2>1
  <2>5. ~Ends(Len(p))
    BY <1>3, <2>4
  <2> QED
    BY <2>3, <2>5
<1>8. ASSUME NEW p \in DOMAIN ns, IsPrefix(p, key)
      PROVE  IsPrefix(p, s)
  <2>0. p \in Seq(Chars) /\ Len(p) \in Nat
    BY DEF Closed
  <2>1. CASE Len(p) <= Len(s)
    BY <1>5, <1>8, <2>0, <2>1, PrefixChain
  <2>2. CASE Len(p) > Len(s)
    <3>1. IsPrefix(s, p) /\ s # p
      BY <1>3, <1>5, <1>8, <2>0, <2>2, PrefixChain
    <3>2. s \in DOMAIN ns /\ ~IsHash(ns, s)
      BY <1>5, <3>1, PrefixesThere
    <3>3. s = key
      BY <1>6, <3>2
    <3> QED
      BY <1>0, <1>8, <2>0, <2>2, <3>3, PrefixOrder
  <2> QED
    BY <1>3, <1>5, <2>0, <2>1, <2>2
<1> QED
  BY <1>5, <1>6, <1>7, <1>8 DEF s

\* A key is held where its descent stops, and nowhere else.
LEMMA HeldAtStop ==
    ASSUME NEW ns, Tree(ns), NEW k \in Seq(Chars), NEW p \in DOMAIN ns, NEW v, HoldsAt(ns, p, k, v)
    PROVE  p = Stop(ns, k)
<1> DEFINE s == Stop(ns, k)
<1>1. /\ s \in Seq(Chars) /\ IsPrefix(s, k)
      /\ \A q \in Seq(Chars) : IsPrefix(q, s) /\ q # s => q \in DOMAIN ns /\ ~IsHash(ns, q)
      /\ \A q \in DOMAIN ns : IsPrefix(q, k) => IsPrefix(q, s)
  BY StopFacts DEF Tree
<1> HIDE DEF s
<1>2. p \in Seq(Chars)
  BY NodeKinds
<1>3. IsPrefix(p, k)
  BY PrefixOrder DEF HoldsAt
<1>4. IsPrefix(p, s)
  BY <1>1, <1>3
<1>5. CASE IsHash(ns, p)
  BY <1>1, <1>2, <1>4, <1>5 DEF s
<1>6. CASE ~IsHash(ns, p)
  <2>1. p = k
    BY <1>6 DEF HoldsAt
  <2>2. p = s
    BY <1>1, <1>2, <1>4, <2>1, PrefixOrder
  <2> QED
    BY <2>2 DEF s
<1> QED
  BY <1>5, <1>6

\* What a search finds is what the tree holds.
LEMMA FindFacts ==
    ASSUME NEW ns, Tree(ns), NEW k \in Keys
    PROVE  /\ Find(ns, k) \in Vals \cup {NoValue}
           /\ \A v : (Find(ns, k) = v /\ v # NoValue) <=> Holds(ns, k, v)
<1> DEFINE s == Stop(ns, k)
<1>0. k \in Seq(Chars)
  BY KeyFacts
<1>1. /\ s \in Seq(Chars) /\ IsPrefix(s, k)
      /\ s = k \/ s \notin DOMAIN ns \/ IsHash(ns, s)
  BY <1>0, StopFacts DEF Tree
<1>2. \A v : Holds(ns, k, v) <=> s \in DOMAIN ns /\ HoldsAt(ns, s, k, v)
  BY <1>0, HeldAtStop DEF Holds
<1>3. Find(ns, k) = IF s \notin DOMAIN ns THEN NoValue
                    ELSE IF IsHash(ns, s) THEN ValueOf(ns[s].table, SuffixAfter(k, s)) ELSE ns[s].value
  BY DEF Find
<1> HIDE DEF s
<1>4. CASE s \notin DOMAIN ns
  BY <1>2, <1>3, <1>4
<1>5. CASE s \in DOMAIN ns /\ IsHash(ns, s)
  <2> DEFINE t == ns[s].table
             x == SuffixAfter(k, s)
  <2>1. Sound(t)
    BY <1>5, NodeKinds DEF LeafSound
  <2>2. x \in DOMAIN Hash
    BY <1>1, KeyFacts
  <2> HIDE DEF t, x
  <2>3. \A v : (Has(t, x) /\ ValueOf(t, x) = v) <=> Maps(t, x, v)
    BY <2>1, <2>2, LookupFacts DEF Sound
  <2>4. ValueOf(t, x) = NoValue <=> ~Has(t, x)
    BY <2>1, <2>2, LookupFacts DEF Sound
  <2>5. \A v : Maps(t, x, v) => v \in Vals
    BY <2>1 DEF Maps, Sound, Filed, LivePositions
  <2>6. Find(ns, k) = ValueOf(t, x)
    BY <1>3, <1>5 DEF t, x
  <2>7. \A v : Holds(ns, k, v) <=> Maps(t, x, v)
    BY <1>1, <1>2, <1>5 DEF HoldsAt, t, x
  <2>8. Find(ns, k) \in Vals \cup {NoValue}
    BY <2>3, <2>4, <2>5, <2>6
  <2> QED
    BY <2>3, <2>4, <2>6, <2>7, <2>8
<1>6. CASE s \in DOMAIN ns /\ ~IsHash(ns, s)
  <2>1. Find(ns, k) = ns[s].value /\ s = k
    BY <1>1, <1>3, <1>6
  <2>2. ns[s].value \in Vals \cup {NoValue}
    BY <1>6, NodeKinds DEF InnerSound
  <2>3. \A v : Holds(ns, k, v) <=> ns[s].value = v /\ v # NoValue
    BY <1>2, <1>6, <2>1 DEF HoldsAt
  <2> QED
    BY <2>1, <2>2, <2>3
<1> QED
  BY <1>4, <1>5, <1>6

\* The tree m is ns with the node at p replaced, or added as a leaf.
NodeIsSet(ns, p, node, m) ==
    /\ Tree(m) /\ DOMAIN m = DOMAIN ns \cup {p} /\ m[p] = node
    /\ p \notin DOMAIN ns \/ IsHash(ns, p) => Children(m, p) = {}
    /\ Children(ns, p) \subseteq Children(m, p)
    /\ \A q \in DOMAIN ns \ {p} : ~IsEmptyNode(ns, q) => ~IsEmptyNode(m, q)
    /\ \A k, v : Holds(m, k, v) <=> HoldsAt(m, p, k, v) \/ \E q \in DOMAIN ns \ {p} : HoldsAt(ns, q, k, v)

\* A node replaced, or a leaf added, without children of its own.
LEMMA SetNodeKeeps ==
    ASSUME NEW ns, Tree(ns), NEW p \in Seq(Chars), NEW node,
           p \in DOMAIN ns \/ p = <<>> \/ (Front(p) \in DOMAIN ns /\ ~IsHash(ns, Front(p))),
           LeafSound(p, node) \/ InnerSound(p, node),
           p \notin DOMAIN ns \/ IsHash(ns, p) \/ node.kind # "hash"
    PROVE  NodeIsSet(ns, p, node, SetNode(ns, p, node))
<1> DEFINE m == SetNode(ns, p, node)
<1>1. /\ DOMAIN m = DOMAIN ns \cup {p} /\ m[p] = node
      /\ \A q \in DOMAIN ns \ {p} : m[q] = ns[q]
  BY DEF SetNode
<1> HIDE DEF m
<1>2. \A q \in DOMAIN ns \ {p} : (IsHash(m, q) <=> IsHash(ns, q)) /\ (HasValue(m, q) <=> HasValue(ns, q))
  BY <1>1 DEF IsHash, HasValue
<1>3. \A q \in DOMAIN ns : q \in Seq(Chars) /\ (q # <<>> => Front(q) \in DOMAIN ns /\ ~IsHash(ns, Front(q)))
  BY DEF Tree, Closed
<1>4. \A q \in Seq(Chars) : q # <<>> => Front(q) # q
  <2> TAKE q \in Seq(Chars)
  <2> HAVE q # <<>>
  <2>1. Len(Front(q)) = Len(q) - 1 /\ Len(q) \in Nat
    BY FrontFacts
  <2> QED
    BY <2>1
<1>5. \A q \in DOMAIN m : q # p => q \in DOMAIN ns
  BY <1>1
<1>6. Closed(m)
  <2> SUFFICES ASSUME NEW q \in DOMAIN m
               PROVE  q \in Seq(Chars) /\ (q # <<>> => Front(q) \in DOMAIN m /\ ~IsHash(m, Front(q)))
    BY DEF Closed
  <2>1. CASE q = p
    <3>1. q # <<>> => Front(q) \in DOMAIN ns \ {p} /\ ~IsHash(ns, Front(q))
      BY <1>3, <1>4, <2>1
    <3> QED
      BY <1>1, <1>2, <2>1, <3>1
  <2>2. CASE q # p /\ Front(q) # p
    BY <1>1, <1>2, <1>3, <1>5, <2>2
  <2>3. CASE q # p /\ Front(q) = p
    <3>1. q # <<>> => p \in DOMAIN ns /\ ~IsHash(ns, p)
      BY <1>3, <1>5, <2>3
    <3>2. q # <<>> => ~IsHash(m, p)
      BY <1>1, <3>1 DEF IsHash
    <3> QED
      BY <1>1, <1>3, <1>5, <2>3, <3>1, <3>2
  <2> QED
    BY <2>1, <2>2, <2>3
<1>7. Tree(m)
  <2>1. IsFiniteSet(DOMAIN m)
    BY <1>1, FS_AddElement DEF Tree
  <2>2. \A q \in DOMAIN m : LeafSound(q, m[q]) \/ InnerSound(q, m[q])
    BY <1>1, <1>5 DEF Tree
  <2> QED
    BY <1>6, <2>1, <2>2 DEF Tree
<1>8. ASSUME p \notin DOMAIN ns \/ IsHash(ns, p)
      PROVE  Children(m, p) = {}
  <2> SUFFICES ASSUME NEW c \in Chars, Append(p, c) \in DOMAIN m
               PROVE  FALSE
    BY DEF Children
  <2>1. Append(p, c) # <<>> /\ Front(Append(p, c)) = p /\ Append(p, c) # p
    <3>1. Len(Append(p, c)) = Len(p) + 1 /\ Len(p) \in Nat
      BY AppendFacts
    <3> QED
      BY <3>1, AppendFacts
  <2> QED
    BY <1>3, <1>5, <1>8, <2>1
<1>9. \A q : Children(ns, q) \subseteq Children(m, q)
  BY <1>1 DEF Children
<1>10. \A q \in DOMAIN ns \ {p} : ~IsEmptyNode(ns, q) => ~IsEmptyNode(m, q)
  BY <1>1, <1>2, <1>9 DEF IsEmptyNode
<1>11. \A k, v : Holds(m, k, v) <=> HoldsAt(m, p, k, v) \/ \E q \in DOMAIN ns \ {p} : HoldsAt(ns, q, k, v)
  <2> TAKE k, v
  <2>1. \A q \in DOMAIN ns \ {p} : HoldsAt(m, q, k, v) <=> HoldsAt(ns, q, k, v)
    BY <1>1, <1>2 DEF HoldsAt
  <2> QED
    BY <1>1, <1>5, <2>1 DEF Holds
<1>12. m = SetNode(ns, p, node)
  BY DEF m
<1> QED
  BY <1>1, <1>7, <1>8, <1>9, <1>10, <1>11, <1>12 DEF NodeIsSet

\* A subtree cut off.
LEMMA CutKeeps ==
    ASSUME NEW ns, Tree(ns), NEW p \in Seq(Chars)
    PROVE  /\ Tree(CutBelow(ns, p))
           /\ DOMAIN CutBelow(ns, p) = {q \in DOMAIN ns : ~IsPrefix(p, q)}
           /\ \A q \in DOMAIN CutBelow(ns, p) : CutBelow(ns, p)[q] = ns[q]
           /\ \A q \in DOMAIN CutBelow(ns, p) :
                  ~IsEmptyNode(ns, q) /\ (p = <<>> \/ q # Front(p)) => ~IsEmptyNode(CutBelow(ns, p), q)
           /\ \A k, v : Holds(CutBelow(ns, p), k, v) <=> \E q \in DOMAIN ns : ~IsPrefix(p, q) /\ HoldsAt(ns, q, k, v)
<1> DEFINE m == CutBelow(ns, p)
<1>1. DOMAIN m = {q \in DOMAIN ns : ~IsPrefix(p, q)} /\ \A q \in DOMAIN m : m[q] = ns[q]
  BY DEF CutBelow
<1> HIDE DEF m
<1>2. \A q \in DOMAIN m : q \in DOMAIN ns /\ (IsHash(m, q) <=> IsHash(ns, q)) /\ (HasValue(m, q) <=> HasValue(ns, q))
  BY <1>1 DEF IsHash, HasValue
<1>3. Closed(m)
  <2> SUFFICES ASSUME NEW q \in DOMAIN m
               PROVE  q \in Seq(Chars) /\ (q # <<>> => Front(q) \in DOMAIN m /\ ~IsHash(m, Front(q)))
    BY DEF Closed
  <2>1. q \in Seq(Chars) /\ (q # <<>> => Front(q) \in DOMAIN ns /\ ~IsHash(ns, Front(q)))
    BY <1>2 DEF Tree, Closed
  <2>2. q # <<>> => ~IsPrefix(p, Front(q))
    <3> HAVE q # <<>>
    <3>1. Front(q) \in Seq(Chars) /\ IsPrefix(Front(q), q)
      BY <2>1, FrontFacts
    <3> QED
      BY <1>1, <2>1, <3>1, PrefixChain
  <2> QED
    BY <1>1, <1>2, <2>1, <2>2
<1>4. Tree(m)
  <2>1. IsFiniteSet(DOMAIN m)
    BY <1>1, FS_Subset DEF Tree
  <2> QED
    BY <1>1, <1>2, <1>3, <2>1 DEF Tree
<1>5. ASSUME NEW q \in DOMAIN m, ~IsEmptyNode(ns, q), p = <<>> \/ q # Front(p)
      PROVE  ~IsEmptyNode(m, q)
  <2>0. q \in Seq(Chars) /\ ~IsPrefix(p, q)
    BY <1>1, <1>4 DEF Tree, Closed
  <2>1. Children(m, q) = Children(ns, q)
    <3> SUFFICES ASSUME NEW c \in Chars, Append(q, c) \in DOMAIN ns
                 PROVE  ~IsPrefix(p, Append(q, c))
      BY <1>1 DEF Children
    <3>1. ASSUME IsPrefix(p, Append(q, c))
          PROVE  FALSE
      <4> DEFINE a == Append(q, c)
      <4>1. a \in Seq(Chars) /\ a # <<>> /\ Front(a) = q
        BY <2>0, AppendFacts
      <4>2. p # a
        BY <1>5, <2>0, <3>1, <4>1, PrefixOrder
      <4> HIDE DEF a
      <4>3. IsPrefix(p, Front(a))
        BY <3>1, <4>1, <4>2, FrontFacts DEF a
      <4> QED
        BY <2>0, <4>1, <4>3
    <3> QED
      BY <3>1
  <2> QED
    BY <1>1, <1>2, <1>5, <2>1 DEF IsEmptyNode
<1>6. \A k, v : Holds(m, k, v) <=> \E q \in DOMAIN ns : ~IsPrefix(p, q) /\ HoldsAt(ns, q, k, v)
  <2> TAKE k, v
  <2>1. \A q \in DOMAIN m : HoldsAt(m, q, k, v) <=> HoldsAt(ns, q, k, v)
    BY <1>1, <1>2 DEF HoldsAt
  <2> QED
    BY <1>1, <2>1 DEF Holds
<1> QED
  BY <1>1, <1>4, <1>5, <1>6 DEF m

\* clear_empty_nodes takes the node and the ancestors that held nothing else.
LEMMA ClearNodesKeeps ==
    ASSUME NEW ns, Tree(ns), NEW p \in DOMAIN ns, Children(ns, p) = {},
           \A q \in DOMAIN ns \ {p} : ~IsEmptyNode(ns, q)
    PROVE  /\ Tree(ClearEmptyNodes(ns, p)) /\ NoneEmpty(ClearEmptyNodes(ns, p))
           /\ \A k, v : Holds(ClearEmptyNodes(ns, p), k, v) <=> \E q \in DOMAIN ns \ {p} : HoldsAt(ns, q, k, v)
<1> DEFINE k == Len(p)
           Cut(i) == SubSeq(p, 1, i)
           Topmost(i) == Cut(i) = <<>> \/ HasValue(ns, Front(Cut(i))) \/ Children(ns, Front(Cut(i))) # {Last(Cut(i))}
           T == {i \in 0 .. k : Topmost(i)}
           top == Max(T)
           cut == Cut(top)
           m == CutBelow(ns, cut)
<1>0. p \in Seq(Chars) /\ k \in Nat
  BY NodeKinds
<1>1. ClearEmptyNodes(ns, p) = m
  BY DEF ClearEmptyNodes
<1>2. Cut(0) = <<>> /\ 0 \in 0 .. k
  BY <1>0
<1>3. T \in SUBSET (0 .. k) /\ T # {}
  BY <1>2
<1>4. top \in T /\ \A i \in T : i <= top
  <2> HIDE DEF T
  <2> QED
    BY <1>0, <1>3, MaxFacts
<1>5. /\ top \in 0 .. k /\ Topmost(top)
      /\ \A i \in 0 .. k : i > top => ~Topmost(i)
  <2>1. top \in 0 .. k /\ Topmost(top)
    BY <1>4
  <2> HIDE DEF top
  <2>2. ASSUME NEW i \in 0 .. k, i > top, Topmost(i)
        PROVE  FALSE
    <3>1. i \in T
      BY <2>2
    <3> HIDE DEF T
    <3> QED
      BY <1>4, <2>1, <2>2, <3>1
  <2> QED
    BY <2>1, <2>2
<1> HIDE DEF top, T, m
<1>6. cut \in Seq(Chars) /\ Len(cut) = top /\ IsPrefix(cut, p)
  BY <1>0, <1>5, CutFacts
<1>7. /\ Tree(m)
      /\ DOMAIN m = {q \in DOMAIN ns : ~IsPrefix(cut, q)} /\ \A q \in DOMAIN m : m[q] = ns[q]
      /\ \A q \in DOMAIN m : ~IsEmptyNode(ns, q) /\ (cut = <<>> \/ q # Front(cut)) => ~IsEmptyNode(m, q)
      /\ \A l, v : Holds(m, l, v) <=> \E q \in DOMAIN ns : ~IsPrefix(cut, q) /\ HoldsAt(ns, q, l, v)
  <2> DEFINE x == cut
  <2>1. x \in Seq(Chars)
    BY <1>6
  <2> HIDE DEF x
  <2>2. /\ Tree(CutBelow(ns, x))
        /\ DOMAIN CutBelow(ns, x) = {q \in DOMAIN ns : ~IsPrefix(x, q)}
        /\ \A q \in DOMAIN CutBelow(ns, x) : CutBelow(ns, x)[q] = ns[q]
        /\ \A q \in DOMAIN CutBelow(ns, x) :
               ~IsEmptyNode(ns, q) /\ (x = <<>> \/ q # Front(x)) => ~IsEmptyNode(CutBelow(ns, x), q)
        /\ \A l, v : Holds(CutBelow(ns, x), l, v) <=> \E q \in DOMAIN ns : ~IsPrefix(x, q) /\ HoldsAt(ns, q, l, v)
    BY <2>1, CutKeeps, Zenon
  <2> QED
    BY <2>2 DEF x, m
<1> HIDE DEF Cut
\* Below the cut, everything lies on the way to p.
<1>8. ASSUME NEW i \in 1 .. k, i > top
      PROVE  Front(Cut(i)) = Cut(i - 1) /\ Last(Cut(i)) = p[i] /\ ~HasValue(ns, Cut(i - 1)) /\ Children(ns, Cut(i - 1)) = {p[i]}
  <2>1. i \in 0 .. Len(p) /\ i - 1 \in 0 .. i /\ i \in 1 .. i
    BY <1>0
  <2>2. Cut(i) \in Seq(Chars) /\ Len(Cut(i)) = i /\ \A j \in 1 .. i : Cut(i)[j] = p[j]
    BY <1>0, <2>1, CutFacts DEF Cut
  <2>3. SubSeq(Cut(i), 1, i - 1) = Cut(i - 1)
    <3> DEFINE j == i - 1
    <3>1. j \in 0 .. i
      BY <2>1
    <3> HIDE DEF j
    <3>2. SubSeq(SubSeq(p, 1, i), 1, j) = SubSeq(p, 1, j)
      BY <1>0, <2>1, <3>1, CutOfCut
    <3> QED
      BY <3>2 DEF j, Cut
  <2>4. Front(Cut(i)) = Cut(i - 1) /\ Last(Cut(i)) = p[i] /\ Cut(i) # <<>>
    <3>1. Len(<<>>) = 0
      OBVIOUS
    <3> QED
      BY <2>1, <2>2, <2>3, <3>1 DEF Front, Last
  <2>5. ~Topmost(i)
    BY <1>5, <1>8, <2>1
  <2> QED
    BY <2>4, <2>5
<1>9. ASSUME NEW q \in DOMAIN ns, IsPrefix(cut, q)
      PROVE  IsPrefix(q, p)
  <2> DEFINE n == Len(q) - top
             CutQ(j) == SubSeq(q, 1, top + j)
             R == {j \in 0 .. n : IsPrefix(CutQ(j), p)}
  <2>0. q \in Seq(Chars) /\ Len(q) \in Nat /\ n \in Nat
    <3>1. q \in Seq(Chars) /\ Len(q) \in Nat
      BY NodeKinds
    <3>2. top <= Len(q)
      BY <1>6, <1>9, <3>1, PrefixOrder
    <3> QED
      BY <1>5, <3>1, <3>2
  <2>1. 0 \in R
    <3>1. CutQ(0) = SubSeq(q, 1, top)
      BY <1>5
    <3>2. SubSeq(q, 1, top) = cut
      BY <1>6, <1>9, <2>0, PrefixOrder
    <3> HIDE DEF CutQ
    <3>3. IsPrefix(CutQ(0), p)
      BY <1>6, <3>1, <3>2
    <3>4. 0 \in 0 .. n
      BY <2>0
    <3> HIDE DEF n
    <3> QED
      BY <3>3, <3>4
  <2>2. ASSUME NEW j \in 0 .. n - 1, j \in R
        PROVE  j + 1 \in R
    <3> DEFINE l == top + j
               r == SubSeq(q, 1, l)
               c == q[l + 1]
    <3>1. l \in 0 .. Len(q) /\ l < Len(q) /\ l + 1 \in 1 .. Len(q) /\ top + (j + 1) = l + 1 /\ l >= top /\ l + 1 \in 0 .. Len(q)
      BY <1>5, <2>0
    <3>2. IsPrefix(r, p)
      BY <2>2
    <3> HIDE DEF l
    <3>3. r \in Seq(Chars) /\ Len(r) = l /\ IsPrefix(r, q) /\ c \in Chars
      BY <2>0, <3>1, CutFacts
    <3>4. Append(r, c) = SubSeq(q, 1, l + 1)
      <4> DEFINE s == SubSeq(q, 1, l + 1)
      <4>1. s \in Seq(Chars) /\ Len(s) = l + 1 /\ \A i \in 1 .. l + 1 : s[i] = q[i]
        BY <2>0, <3>1, CutFacts
      <4>2. \A i \in 1 .. l : r[i] = q[i]
        BY <2>0, <3>1, CutFacts
      <4> HIDE DEF s, r
      <4> DEFINE a == Append(r, c)
      <4>3. a \in Seq(Chars) /\ Len(a) = l + 1 /\ a[l + 1] = c /\ \A i \in 1 .. l : a[i] = r[i]
        BY <3>3
      <4> HIDE DEF a
      <4>4. a = s
        BY <3>1, <4>1, <4>2, <4>3
      <4> QED
        BY <4>4 DEF a, s
    <3> HIDE DEF r
    <3>5. Append(r, c) \in DOMAIN ns
      <4>1. Append(r, c) \in Seq(Chars)
        BY <3>3, AppendFacts
      <4>2. IsPrefix(Append(r, c), q)
        BY <2>0, <3>1, <3>4, CutFacts
      <4> QED
        BY <4>1, <4>2, PrefixesThere DEF Tree
    <3>6. l <= k /\ r = Cut(l)
      BY <1>0, <3>2, <3>3, PrefixOrder DEF Cut
    <3>7. l # k
      <4> SUFFICES ASSUME l = k
                   PROVE  FALSE
        OBVIOUS
      <4>1. r = p
        BY <1>0, <3>2, <3>3, PrefixOrder
      <4> HIDE DEF c
      <4> QED
        BY <3>3, <3>5, <4>1 DEF Children
    <3>8. l + 1 \in 1 .. k /\ l + 1 > top /\ l + 1 - 1 = l
      BY <1>0, <1>5, <3>1, <3>6, <3>7
    <3>9. Children(ns, r) = {p[l + 1]}
      <4> DEFINE i == l + 1
      <4>1. i \in 1 .. k /\ i > top /\ i - 1 = l
        BY <2>0, <3>1, <3>8
      <4> HIDE DEF i
      <4>2. Children(ns, Cut(i - 1)) = {p[i]}
        BY <1>8, <4>1
      <4> QED
        BY <3>6, <4>1, <4>2 DEF i
    <3>10. c = p[l + 1]
      <4> HIDE DEF c
      <4>1. c \in Children(ns, r)
        BY <3>3, <3>5 DEF Children
      <4> QED
        BY <3>9, <4>1
    <3>11. IsPrefix(Append(r, p[l + 1]), p)
      BY <1>0, <3>2, <3>3, <3>8, AppendFacts
    <3>12. CutQ(j + 1) = SubSeq(q, 1, l + 1)
      BY <3>1
    <3>13. IsPrefix(CutQ(j + 1), p)
      <4> HIDE DEF CutQ, c
      <4> QED
        BY <3>4, <3>10, <3>11, <3>12
    <3>14. j + 1 \in 0 .. n
      BY <2>0
    <3> HIDE DEF CutQ, n
    <3> QED
      BY <3>13, <3>14
  <2>3. \A j \in 0 .. n : j \in R
    <3> HIDE DEF R
    <3> QED
      BY <2>0, <2>1, <2>2, Rounds
  <2>4. n \in 0 .. n /\ top + n = Len(q)
    BY <1>5, <2>0
  <2>5. IsPrefix(CutQ(n), p)
    BY <2>3, <2>4
  <2>6. CutQ(n) = q
    BY <2>0, <2>4
  <2> QED
    BY <2>5, <2>6
<1>10. ASSUME NEW q \in DOMAIN ns, IsPrefix(cut, q), q # p, NEW l, NEW v, HoldsAt(ns, q, l, v)
       PROVE  FALSE
  <2>1. IsPrefix(q, p) /\ q \in Seq(Chars) /\ Len(q) \in Nat
    BY <1>9, <1>10, NodeKinds
  <2>2. ~IsHash(ns, q)
    BY <1>10, <2>1, PrefixesThere DEF Tree
  <2>3. Len(q) < k /\ q = Cut(Len(q))
    BY <1>0, <1>10, <2>1, PrefixOrder DEF Cut
  <2>4. top <= Len(q)
    BY <1>6, <1>10, <2>1, PrefixOrder
  <2> DEFINE i == Len(q) + 1
  <2>5. i \in 1 .. k /\ i > top /\ i - 1 = Len(q)
    BY <1>0, <1>5, <2>1, <2>3, <2>4
  <2> HIDE DEF i
  <2>6. ~HasValue(ns, q)
    BY <1>8, <2>3, <2>5
  <2> QED
    BY <1>10, <2>2, <2>6 DEF HoldsAt, HasValue
<1>11. NoneEmpty(m)
  <2> SUFFICES ASSUME NEW q \in DOMAIN m
               PROVE  ~IsEmptyNode(m, q)
    BY DEF NoneEmpty
  <2>1. q \in DOMAIN ns \ {p} /\ ~IsPrefix(cut, q) /\ q \in Seq(Chars)
    BY <1>6, <1>7, NodeKinds
  <2>2. CASE cut = <<>> \/ q # Front(cut)
    BY <1>7, <2>1, <2>2
  <2>3. CASE cut # <<>> /\ q = Front(cut)
    <3>1. cut \in DOMAIN ns
      BY <1>6, PrefixesThere DEF Tree
    <3>2. ~IsHash(ns, q)
      BY <2>3, <3>1 DEF Tree, Closed
    <3>3. ~IsHash(m, q) /\ (HasValue(ns, q) <=> HasValue(m, q))
      BY <1>7, <2>1, <3>2 DEF IsHash, HasValue
    <3>4. CASE HasValue(ns, q)
      BY <3>3, <3>4 DEF IsEmptyNode
    <3>5. CASE ~HasValue(ns, q)
      <4>1. Children(ns, q) # {Last(cut)}
        BY <1>5, <2>3, <3>5
      <4>2. Last(cut) \in Chars /\ cut = Append(q, Last(cut))
        BY <1>6, <2>3, FrontFacts
      <4>3. Last(cut) \in Children(ns, q)
        BY <3>1, <4>2 DEF Children
      <4>4. PICK c \in Children(ns, q) : c # Last(cut)
        BY <4>1, <4>3
      <4>5. c \in Chars /\ Append(q, c) \in DOMAIN ns
        BY <4>4 DEF Children
      <4>6. ~IsPrefix(cut, Append(q, c))
        <5>1. Append(q, c) \in Seq(Chars) /\ Len(Append(q, c)) = Len(q) + 1 /\ Last(Append(q, c)) = c
          BY <2>1, <4>5, AppendFacts
        <5>2. Len(cut) = Len(q) + 1
          BY <2>1, <4>2, AppendFacts
        <5>3. IsPrefix(cut, Append(q, c)) => cut = Append(q, c)
          BY <1>6, <5>1, <5>2, PrefixOrder
        <5> QED
          BY <4>4, <5>1, <5>3
      <4>7. c \in Children(m, q)
        BY <1>7, <4>5, <4>6 DEF Children
      <4> QED
        BY <3>3, <4>7 DEF IsEmptyNode
    <3> QED
      BY <3>4, <3>5
  <2> QED
    BY <2>2, <2>3
<1>12. \A l, v : Holds(m, l, v) <=> \E q \in DOMAIN ns \ {p} : HoldsAt(ns, q, l, v)
  <2> TAKE l, v
  <2>1. ASSUME Holds(m, l, v)
        PROVE  \E q \in DOMAIN ns \ {p} : HoldsAt(ns, q, l, v)
    BY <1>6, <1>7, <2>1
  <2>2. ASSUME NEW q \in DOMAIN ns \ {p}, HoldsAt(ns, q, l, v)
        PROVE  Holds(m, l, v)
    BY <1>7, <1>10, <2>2
  <2> QED
    BY <2>1, <2>2
<1> QED
  BY <1>1, <1>7, <1>11, <1>12

\* Nothing but the nodes left empty goes.
LEMMA CleanedKeeps ==
    ASSUME NEW ns, Tree(ns), NEW p \in DOMAIN ns, \A q \in DOMAIN ns \ {p} : ~IsEmptyNode(ns, q)
    PROVE  /\ Tree(Cleaned(ns, p)) /\ NoneEmpty(Cleaned(ns, p))
           /\ \A k, v : Holds(Cleaned(ns, p), k, v) <=> Holds(ns, k, v)
<1>1. CASE ~IsEmptyNode(ns, p)
  <2>1. Cleaned(ns, p) = ns
    BY <1>1 DEF Cleaned
  <2> QED
    BY <1>1, <2>1 DEF NoneEmpty
<1>2. CASE IsEmptyNode(ns, p)
  <2>1. Cleaned(ns, p) = ClearEmptyNodes(ns, p)
    BY <1>2 DEF Cleaned
  <2>2. Children(ns, p) = {}
    <3>1. CASE IsHash(ns, p)
      <4> SUFFICES ASSUME NEW c \in Chars, Append(p, c) \in DOMAIN ns
                   PROVE  FALSE
        BY DEF Children
      <4>1. p \in Seq(Chars)
        BY NodeKinds
      <4>2. Append(p, c) # <<>> /\ Front(Append(p, c)) = p
        BY <4>1, AppendFacts
      <4> QED
        BY <3>1, <4>2 DEF Tree, Closed
    <3>2. CASE ~IsHash(ns, p)
      BY <1>2, <3>2 DEF IsEmptyNode
    <3> QED
      BY <3>1, <3>2
  <2>3. ASSUME NEW k, NEW v, HoldsAt(ns, p, k, v)
        PROVE  FALSE
    <3>1. CASE IsHash(ns, p)
      <4> DEFINE t == ns[p].table
      <4>1. Sound(t) /\ t.nb = 0
        BY <1>2, <3>1, NodeKinds DEF IsEmptyNode, LeafSound
      <4>2. \E e \in Cells(t) : TRUE
        BY <2>3, <3>1 DEF HoldsAt, Maps
      <4> HIDE DEF t
      <4>3. IsFiniteSet(Cells(t)) /\ Cardinality(Cells(t)) = 0
        BY <4>1 DEF Sound, Filed, Counted
      <4> QED
        BY <4>2, <4>3, FS_EmptySet
    <3>2. CASE ~IsHash(ns, p)
      BY <1>2, <2>3, <3>2 DEF HoldsAt, IsEmptyNode, HasValue
    <3> QED
      BY <3>1, <3>2
  <2>4. /\ Tree(ClearEmptyNodes(ns, p)) /\ NoneEmpty(ClearEmptyNodes(ns, p))
        /\ \A k, v : Holds(ClearEmptyNodes(ns, p), k, v) <=> \E q \in DOMAIN ns \ {p} : HoldsAt(ns, q, k, v)
    BY <2>2, ClearNodesKeeps
  <2>5. \A k, v : Holds(ns, k, v) <=> \E q \in DOMAIN ns \ {p} : HoldsAt(ns, q, k, v)
    BY <2>3 DEF Holds
  <2> QED
    BY <2>1, <2>4, <2>5
<1> QED
  BY <1>1, <1>2

\* The first character and the rest.
LEMMA HeadTailFacts ==
    ASSUME NEW S
    PROVE  /\ \A s \in Seq(S) : s # <<>> => Head(s) \in S /\ Tail(s) \in Seq(S) /\ s = <<Head(s)>> \o Tail(s)
           /\ \A c \in S : \A q \in Seq(S) :
                  /\ <<c>> \o q \in Seq(S) /\ <<c>> \o q # <<>>
                  /\ Head(<<c>> \o q) = c /\ Tail(<<c>> \o q) = q
           /\ \A p \in Seq(S) : \A c \in S : \A q \in Seq(S) : Append(p, c) \o q = p \o (<<c>> \o q)
<1>1. ASSUME NEW s \in Seq(S), s # <<>>
      PROVE  Head(s) \in S /\ Tail(s) \in Seq(S) /\ s = <<Head(s)>> \o Tail(s)
  <2> DEFINE h == Head(s)
             t == Tail(s)
  <2>1. h \in S /\ t \in Seq(S) /\ Len(t) = Len(s) - 1 /\ h = s[1] /\ Len(s) \in Nat \ {0}
        /\ \A i \in 1 .. Len(s) - 1 : t[i] = s[i + 1]
    BY <1>1
  <2> HIDE DEF h, t
  <2> DEFINE r == <<h>> \o t
  <2>2. r \in Seq(S) /\ Len(r) = Len(s) /\ r[1] = h /\ \A i \in 2 .. Len(s) : r[i] = t[i - 1]
    BY <2>1
  <2> HIDE DEF r
  <2>3. \A i \in 1 .. Len(s) : r[i] = s[i]
    <3> TAKE i \in 1 .. Len(s)
    <3>1. CASE i = 1
      BY <2>1, <2>2, <3>1
    <3>2. CASE i # 1
      <4> DEFINE j == i - 1
      <4>1. j \in 1 .. Len(s) - 1 /\ j + 1 = i /\ i \in 2 .. Len(s)
        BY <2>1, <3>2
      <4>2. r[i] = t[j]
        BY <2>2, <4>1
      <4> HIDE DEF j
      <4>3. t[j] = s[j + 1]
        BY <2>1, <4>1
      <4> QED
        BY <4>1, <4>2, <4>3
    <3> QED
      BY <3>1, <3>2
  <2>4. r = s
    BY <2>1, <2>2, <2>3
  <2> QED
    BY <2>1, <2>4 DEF h, t, r
<1>2. ASSUME NEW c \in S, NEW q \in Seq(S)
      PROVE  /\ <<c>> \o q \in Seq(S) /\ <<c>> \o q # <<>>
             /\ Head(<<c>> \o q) = c /\ Tail(<<c>> \o q) = q
  <2> DEFINE r == <<c>> \o q
  <2>1. Len(q) \in Nat /\ r \in Seq(S) /\ Len(r) = Len(q) + 1 /\ r[1] = c /\ \A i \in 1 .. Len(q) : r[i + 1] = q[i]
    OBVIOUS
  <2> HIDE DEF r
  <2>2. r # <<>> /\ Head(r) = c
    BY <2>1
  <2> DEFINE t == Tail(r)
  <2>3. t \in Seq(S) /\ Len(t) = Len(q) /\ \A i \in 1 .. Len(q) : t[i] = r[i + 1]
    BY <2>1, <2>2
  <2> HIDE DEF t
  <2>4. t = q
    BY <2>1, <2>3
  <2> QED
    BY <2>1, <2>2, <2>4 DEF r, t
<1>3. ASSUME NEW p \in Seq(S), NEW c \in S, NEW q \in Seq(S)
      PROVE  Append(p, c) \o q = p \o (<<c>> \o q)
  OBVIOUS
<1> QED
  BY <1>1, <1>2, <1>3

\* Suffixes one character further down.
LEMMA SuffixSteps ==
    ASSUME NEW p \in Seq(Chars), NEW k \in Seq(Chars), NEW c \in Chars
    PROVE  /\ IsPrefix(Append(p, c), k) =>
                  IsPrefix(p, k) /\ SuffixAfter(k, p) = <<c>> \o SuffixAfter(k, Append(p, c))
                  /\ SuffixAfter(k, Append(p, c)) \in Seq(Chars)
           /\ IsPrefix(p, k) /\ SuffixAfter(k, p) # <<>> /\ Head(SuffixAfter(k, p)) = c =>
                  IsPrefix(Append(p, c), k)
<1> DEFINE a == Append(p, c)
           s == SuffixAfter(k, p)
<1>0. a \in Seq(Chars)
  BY AppendFacts
<1>1. ASSUME IsPrefix(a, k)
      PROVE  IsPrefix(p, k) /\ s = <<c>> \o SuffixAfter(k, a) /\ SuffixAfter(k, a) \in Seq(Chars)
  <2>1. IsPrefix(p, k)
    BY <1>1, AppendFacts
  <2> DEFINE x == SuffixAfter(k, a)
  <2>2. k = a \o x /\ x \in Seq(Chars)
    BY <1>0, <1>1, SuffixFacts
  <2>3. a \o x = p \o (<<c>> \o x) /\ <<c>> \o x \in Seq(Chars)
    BY <2>2, HeadTailFacts
  <2> DEFINE y == <<c>> \o x
  <2>4. SuffixAfter(p \o y, p) = y
    <3>1. y \in Seq(Chars)
      BY <2>3
    <3> HIDE DEF y
    <3> QED
      BY <3>1, SuffixFacts
  <2> QED
    BY <2>1, <2>2, <2>3, <2>4
<1>2. ASSUME IsPrefix(p, k), s # <<>>, Head(s) = c
      PROVE  IsPrefix(a, k)
  <2>1. k = p \o s /\ s \in Seq(Chars)
    BY <1>2, SuffixFacts
  <2>2. s = <<c>> \o Tail(s) /\ Tail(s) \in Seq(Chars)
    BY <1>2, <2>1, HeadTailFacts
  <2> DEFINE x == Tail(s)
  <2>3. k = a \o x /\ x \in Seq(Chars)
    BY <2>1, <2>2, HeadTailFacts
  <2> HIDE DEF a, x
  <2>4. IsPrefix(a, a \o x)
    BY <1>0, <2>3, SuffixFacts
  <2> QED
    BY <2>3, <2>4
<1> QED
  BY <1>1, <1>2

\* The hash node a burst makes for one first character.
LEMMA NodeForFacts ==
    ASSUME NEW t, Sound(t), NEW p \in Seq(Chars), NEW c \in Chars,
           \A e \in Cells(t) : e.key \in Seq(Chars) /\ p \o e.key \in ShortKeys,
           \E e \in Cells(t) : e.key # <<>> /\ Head(e.key) = c
    PROVE  /\ LeafSound(Append(p, c), NodeFor(t, c)) /\ NodeFor(t, c).table.nb > 0
           /\ \A q \in Seq(Chars) : \A w : Maps(NodeFor(t, c).table, q, w) <=> Maps(t, <<c>> \o q, w)
<1> DEFINE all == Entries(t)
           I == {i \in DOMAIN all : all[i].key # <<>> /\ Head(all[i].key) = c}
           es == EntriesStarting(t, c)
           Pair(e) == [key |-> Tail(e.key), value |-> t.values[e.pos]]
           pairs == [i \in DOMAIN es |-> Pair(es[i])]
           x == Len(es) + InitBuckets \div 2
           n == CeilDiv(x, MaxLoad)
           u == Filled(n, pairs)
           P == [key : DOMAIN Hash, value : Vals]
<1>0. t \in Tables /\ t.buckets \in Seq(Seq(Entry)) /\ KeysOnce(t) /\ KeysInTheirBuckets(t) /\ t.nb \in Nat
  BY TableFields DEF Sound, Filed
<1>1. /\ all \in Seq(Entry) /\ Once(all) /\ Len(all) = t.nb /\ t.nb <= MaxIndex
      /\ \A i \in DOMAIN all : all[i] \in Cells(t)
      /\ \A e \in Cells(t) : \E i \in DOMAIN all : all[i] = e
  <2>1. Len(all) = t.nb
    BY <1>0, EntriesOnce DEF Sound, Filed, Counted
  <2>2. t.nb <= MaxIndex
    BY SqueezeKeeps DEF Sound
  <2>3. Once(all)
    BY <1>0, EntriesOnce DEF Once
  <2> QED
    BY <1>0, <2>1, <2>2, <2>3, EntriesAreCells
<1>2. es = Only[all][I]
  BY DEF EntriesStarting
<1> HIDE DEF all, es
<1>3. /\ es \in Seq(Entry) /\ Once(es) /\ Len(es) <= Len(all)
      /\ \A j \in DOMAIN es : \E i \in I : es[j] = all[i]
      /\ \A i \in I : \E j \in DOMAIN es : es[j] = all[i]
  <2>1. I \in SUBSET DOMAIN all
    OBVIOUS
  <2> HIDE DEF I
  <2> QED
    BY <1>1, <1>2, <2>1, OnlyFacts
<1>4. DOMAIN es = 1 .. Len(es) /\ Len(es) \in Nat
  BY <1>3
<1>5. \A j \in DOMAIN es : es[j] \in Cells(t) /\ es[j].key # <<>> /\ Head(es[j].key) = c
  BY <1>1, <1>3
<1>6. ASSUME NEW e \in Cells(t), e.key # <<>>, Head(e.key) = c
      PROVE  \E j \in DOMAIN es : es[j] = e
  BY <1>1, <1>3, <1>6
<1> HIDE DEF I
<1>7. ASSUME NEW e \in Cells(t), e.key # <<>>, Head(e.key) = c
      PROVE  /\ Tail(e.key) \in Seq(Chars) /\ e.key = <<c>> \o Tail(e.key)
             /\ Append(p, c) \o Tail(e.key) = p \o e.key /\ Pair(e) \in P
             /\ Pair(e).key = Tail(e.key) /\ Pair(e).value = t.values[e.pos]
  <2>1. e.key \in Seq(Chars) /\ p \o e.key \in Keys
    BY DEF ShortKeys
  <2>2. Tail(e.key) \in Seq(Chars) /\ e.key = <<c>> \o Tail(e.key)
    BY <1>7, <2>1, HeadTailFacts
  <2>3. Append(p, c) \o Tail(e.key) = p \o (<<c>> \o Tail(e.key))
    <3> DEFINE y == Tail(e.key)
    <3>1. y \in Seq(Chars)
      BY <2>2
    <3> HIDE DEF y
    <3>2. Append(p, c) \o y = p \o (<<c>> \o y)
      BY <3>1, HeadTailFacts
    <3> QED
      BY <3>2 DEF y
  <2>4. Append(p, c) \in Seq(Chars) /\ Append(p, c) \o Tail(e.key) = p \o e.key
    BY <2>2, <2>3, AppendFacts
  <2>5. Tail(e.key) \in DOMAIN Hash
    BY <2>1, <2>2, <2>4, KeyFacts
  <2>6. t.values[e.pos] \in Vals
    BY DEF Sound, Filed, LivePositions
  <2> QED
    BY <2>2, <2>4, <2>5, <2>6
<1> HIDE DEF Pair, P
<1>8. pairs \in Seq(P) /\ Len(pairs) = Len(es) /\ DOMAIN pairs = DOMAIN es /\ \A i \in DOMAIN es : pairs[i] = Pair(es[i])
  <2>1. \A i \in DOMAIN es : Pair(es[i]) \in P
    BY <1>5, <1>7
  <2> QED
    BY <1>4, <2>1
<1> HIDE DEF pairs
<1>9. Once(pairs)
  <2> SUFFICES ASSUME NEW i \in DOMAIN es, NEW j \in DOMAIN es, pairs[i].key = pairs[j].key
               PROVE  i = j
    BY <1>8 DEF Once
  <2>0. pairs[i].key = Tail(es[i].key) /\ pairs[j].key = Tail(es[j].key)
    <3>1. \A e \in Cells(t) : e.key # <<>> /\ Head(e.key) = c => Pair(e).key = Tail(e.key)
      BY <1>7
    <3>2. pairs[i] = Pair(es[i]) /\ pairs[j] = Pair(es[j])
      BY <1>8
    <3> QED
      BY <1>5, <3>1, <3>2
  <2>1. Tail(es[i].key) = Tail(es[j].key)
    BY <2>0
  <2>2. es[i].key = <<c>> \o Tail(es[i].key) /\ es[j].key = <<c>> \o Tail(es[j].key)
    BY <1>5, <1>7
  <2>3. es[i].key = es[j].key
    BY <2>1, <2>2
  <2> QED
    BY <1>3, <2>3 DEF Once
<1>10. Len(es) > 0
  <2>1. \E j \in DOMAIN es : TRUE
    BY <1>6
  <2> QED
    BY <1>4, <2>1
<1>11. n \in Nat \ {0} /\ Len(es) <= RoundUp(n) * MaxLoad
  <2>1. InitBuckets \div 2 \in Nat
    BY HatTrieAssumption
  <2>2. x \in Nat /\ x > 0 /\ x >= Len(es)
    BY <1>4, <1>10, <2>1
  <2> HIDE DEF x
  <2>3. n \in Nat \ {0} /\ x <= n * MaxLoad
    BY <2>2, Ceiling
  <2> HIDE DEF n
  <2> DEFINE r == RoundUp(n)
  <2>4. r \in Nat /\ r >= n /\ MaxLoad \in Nat
    BY <2>3, RoundUpFacts, ArrayHashAssumption
  <2> HIDE DEF r
  <2>5. PICK d \in Nat : r = n + d
    <3>1. r - n \in Nat /\ r = n + (r - n)
      BY <2>3, <2>4
    <3> QED
      BY <3>1
  <2>6. n * MaxLoad \in Nat /\ d * MaxLoad \in Nat /\ r * MaxLoad = n * MaxLoad + d * MaxLoad
    BY <2>3, <2>4, <2>5
  <2>7. Len(es) <= r * MaxLoad
    BY <1>4, <2>2, <2>3, <2>6
  <2> QED
    BY <2>3, <2>7 DEF r
<1> HIDE DEF x, n
<1>12. Len(pairs) <= MaxIndex /\ Len(pairs) <= RoundUp(n) * MaxLoad
  BY <1>0, <1>1, <1>3, <1>4, <1>8, <1>11, ArrayHashAssumption
<1>13. /\ Sound(u) /\ u.nb = Len(pairs)
       /\ \A q, w : Maps(u, q, w) <=> \E i \in DOMAIN pairs : pairs[i].key = q /\ pairs[i].value = w
  <2>1. n \in Nat \ {0}
    BY <1>11
  <2>2. pairs \in Seq([key : DOMAIN Hash, value : Vals])
    BY <1>8 DEF P
  <2>3. Len(pairs) <= MaxIndex
    BY <1>12
  <2>4. Len(pairs) <= RoundUp(n) * MaxLoad
    BY <1>12
  <2>5. /\ Sound(Filled(n, pairs)) /\ Filled(n, pairs).nb = Len(pairs)
        /\ \A q, w : Maps(Filled(n, pairs), q, w) <=> \E i \in DOMAIN pairs : pairs[i].key = q /\ pairs[i].value = w
    BY <1>9, <2>1, <2>2, <2>3, <2>4, FilledKeeps, Zenon
  <2> QED
    BY <2>5, Zenon DEF u
<1>14. NodeFor(t, c) = HashNode(u)
  BY Zenon DEF NodeFor, es, pairs, Pair, n, x
<1> HIDE DEF u
<1>15. NodeFor(t, c).table = u /\ NodeFor(t, c) = HashNode(NodeFor(t, c).table)
  BY <1>14 DEF HashNode
<1>16. ASSUME NEW e \in Cells(u)
       PROVE  e.key \in Seq(Chars) /\ Append(p, c) \o e.key \in ShortKeys
  <2>1. Maps(u, e.key, u.values[e.pos])
    BY DEF Maps
  <2>2. PICK i \in DOMAIN pairs : pairs[i].key = e.key
    BY <1>13, <2>1
  <2>3. es[i] \in Cells(t) /\ es[i].key # <<>> /\ Head(es[i].key) = c /\ pairs[i] = Pair(es[i])
    BY <1>5, <1>8, <2>2
  <2>4. e.key = Tail(es[i].key)
    BY <1>7, <2>2, <2>3
  <2>5. Tail(es[i].key) \in Seq(Chars) /\ Append(p, c) \o Tail(es[i].key) = p \o es[i].key /\ p \o es[i].key \in ShortKeys
    BY <1>7, <2>3
  <2> QED
    BY <2>4, <2>5
<1>17. ASSUME NEW q \in Seq(Chars), NEW w
       PROVE  Maps(u, q, w) <=> Maps(t, <<c>> \o q, w)
  <2>1. ASSUME Maps(u, q, w)
        PROVE  Maps(t, <<c>> \o q, w)
    <3>1. PICK i \in DOMAIN es : pairs[i].key = q /\ pairs[i].value = w
      BY <1>8, <1>13, <2>1
    <3>0. es[i] \in Cells(t) /\ es[i].key # <<>> /\ Head(es[i].key) = c /\ pairs[i] = Pair(es[i])
      BY <1>5, <1>8
    <3>3. es[i].key = <<c>> \o Tail(es[i].key) /\ Pair(es[i]).key = Tail(es[i].key)
          /\ Pair(es[i]).value = t.values[es[i].pos]
      BY <1>7, <3>0
    <3>4. Tail(es[i].key) = q /\ t.values[es[i].pos] = w
      BY <3>0, <3>1, <3>3
    <3>2. es[i] \in Cells(t) /\ es[i].key = <<c>> \o q /\ t.values[es[i].pos] = w
      BY <3>0, <3>3, <3>4
    <3> QED
      BY <3>2 DEF Maps
  <2>2. ASSUME Maps(t, <<c>> \o q, w)
        PROVE  Maps(u, q, w)
    <3>1. PICK e \in Cells(t) : e.key = <<c>> \o q /\ t.values[e.pos] = w
      BY <2>2 DEF Maps
    <3>2. e.key # <<>> /\ Head(e.key) = c /\ Tail(e.key) = q
      BY <3>1, HeadTailFacts
    <3>3. PICK j \in DOMAIN es : es[j] = e
      BY <1>6, <3>2
    <3>4. pairs[j].key = q /\ pairs[j].value = w
      BY <1>7, <1>8, <3>1, <3>2, <3>3
    <3> QED
      BY <1>8, <1>13, <3>4
  <2> QED
    BY <2>1, <2>2
<1> QED
  BY <1>8, <1>10, <1>13, <1>15, <1>16, <1>17 DEF LeafSound

\* A burst keeps what the tree holds.
LEMMA BurstKeeps ==
    ASSUME NEW ns, Tree(ns), NoneEmpty(ns), NEW p \in DOMAIN ns, IsHash(ns, p)
    PROVE  /\ Tree(BurstNodes(ns, p)) /\ NoneEmpty(BurstNodes(ns, p))
           /\ \A k \in Seq(Chars) : \A v : Holds(BurstNodes(ns, p), k, v) <=> Holds(ns, k, v)
<1> DEFINE old == ns[p].table
           new == {Head(e.key) : e \in {e \in ToSet(Entries(old)) : e.key # <<>>}}
           m == BurstNodes(ns, p)
<1>0. p \in Seq(Chars) /\ LeafSound(p, ns[p])
  BY NodeKinds
<1>1. /\ DOMAIN m = DOMAIN ns \cup {Append(p, c) : c \in new}
      /\ m[p] = TrieNode(ValueOf(old, <<>>))
      /\ \A q \in DOMAIN ns : q # p => m[q] = ns[q]
      /\ \A q \in DOMAIN m : q \notin DOMAIN ns => m[q] = NodeFor(old, Last(q))
  BY DEF BurstNodes
<1>2. /\ Sound(old) /\ \A e \in Cells(old) : e.key \in Seq(Chars) /\ p \o e.key \in ShortKeys
  BY <1>0 DEF LeafSound
<1>3. ToSet(Entries(old)) = Cells(old)
  <2>1. old.buckets \in Seq(Seq(Entry))
    BY <1>2, TableFields DEF Sound, Filed
  <2> HIDE DEF old
  <2> QED
    BY <2>1, EntriesAreCells DEF ToSet
<1>4. \E e \in Cells(old) : TRUE
  <2>1. IsFiniteSet(Cells(old)) /\ old.nb = Cardinality(Cells(old)) /\ old.nb # 0
    <3>1. ~IsEmptyNode(ns, p)
      BY DEF NoneEmpty
    <3> QED
      BY <1>2, <3>1 DEF IsEmptyNode, Sound, Filed, Counted
  <2> QED
    BY <2>1, FS_EmptySet
<1> HIDE DEF old, m
<1>5. \A c \in new : c \in Chars /\ \E e \in Cells(old) : e.key # <<>> /\ Head(e.key) = c
  BY <1>2, <1>3, HeadTailFacts
<1>6. \A e \in Cells(old) : e.key # <<>> => Head(e.key) \in new
  BY <1>3
<1> HIDE DEF new
<1>7. <<>> \in DOMAIN Hash
  <2>1. PICK e \in Cells(old) : TRUE
    BY <1>4
  <2>2. p \o e.key \in Keys /\ p \o e.key \in Seq(Chars)
    BY <1>2, HatTrieAssumption DEF ShortKeys
  <2> DEFINE k == p \o e.key
  <2> HIDE DEF k
  <2>3. k \in Keys /\ k \in Seq(Chars) /\ IsPrefix(k, k)
    BY <2>2, PrefixOrder DEF k
  <2>4. SuffixAfter(k, k) \in DOMAIN Hash
    BY <2>3, KeyFacts
  <2>5. SuffixAfter(k, k) = <<>>
    BY <2>3 DEF SuffixAfter
  <2> QED
    BY <2>4, <2>5
<1>8. \A v : ValueOf(old, <<>>) = v /\ v # NoValue <=> Maps(old, <<>>, v)
  <2>1. \A v : (Has(old, <<>>) /\ ValueOf(old, <<>>) = v) <=> Maps(old, <<>>, v)
    BY <1>2, <1>7, LookupFacts DEF Sound
  <2>2. ValueOf(old, <<>>) = NoValue <=> ~Has(old, <<>>)
    BY <1>2, <1>7, LookupFacts DEF Sound
  <2> QED
    BY <2>1, <2>2
<1>9. \A v : Maps(old, <<>>, v) => v \in Vals /\ p \in ShortKeys
  <2> TAKE v
  <2> HAVE Maps(old, <<>>, v)
  <2>1. PICK e \in Cells(old) : e.key = <<>> /\ old.values[e.pos] = v
    BY DEF Maps
  <2>2. p \o <<>> = p
    BY <1>0
  <2>3. p \o e.key \in ShortKeys
    BY <1>2
  <2> QED
    BY <1>2, <2>1, <2>2, <2>3 DEF Sound, Filed, LivePositions
<1>10. InnerSound(p, m[p]) /\ ~IsHash(m, p) /\ m[p].value = ValueOf(old, <<>>)
  <2>1. m[p].value = ValueOf(old, <<>>) /\ m[p] = TrieNode(m[p].value) /\ m[p].kind = "trie"
    BY <1>1 DEF TrieNode
  <2>2. m[p].value \in Vals \cup {NoValue}
    BY <1>8, <1>9, <2>1
  <2>3. m[p].value # NoValue => p \in ShortKeys
    BY <1>8, <1>9, <2>1
  <2> QED
    BY <2>1, <2>2, <2>3 DEF InnerSound, IsHash
<1>11. ASSUME NEW c \in new
       PROVE  /\ Append(p, c) \in Seq(Chars) /\ Append(p, c) \notin DOMAIN ns /\ Append(p, c) \in DOMAIN m
              /\ Front(Append(p, c)) = p /\ Append(p, c) # p /\ c \in Chars
              /\ LeafSound(Append(p, c), m[Append(p, c)]) /\ m[Append(p, c)].table.nb > 0
              /\ IsHash(m, Append(p, c))
              /\ \A q \in Seq(Chars) : \A w : Maps(m[Append(p, c)].table, q, w) <=> Maps(old, <<c>> \o q, w)
  <2> DEFINE a == Append(p, c)
  <2>0. c \in Chars /\ \E e \in Cells(old) : e.key # <<>> /\ Head(e.key) = c
    BY <1>5
  <2>1. a \in Seq(Chars) /\ a # <<>> /\ Front(a) = p /\ Last(a) = c /\ Len(a) = Len(p) + 1
    BY <1>0, <2>0, AppendFacts
  <2>2. a \in DOMAIN m
    BY <1>1
  <2> HIDE DEF a
  <2>3. a \notin DOMAIN ns
    BY <2>1 DEF Tree, Closed
  <2>4. a # p
    <3>1. Len(p) \in Nat
      BY <1>0
    <3> QED
      BY <2>1, <3>1
  <2>5. m[a] = NodeFor(old, c)
    BY <1>1, <2>1, <2>2, <2>3
  <2>6. /\ LeafSound(Append(p, c), NodeFor(old, c)) /\ NodeFor(old, c).table.nb > 0
        /\ \A q \in Seq(Chars) : \A w : Maps(NodeFor(old, c).table, q, w) <=> Maps(old, <<c>> \o q, w)
    BY <1>0, <1>2, <2>0, NodeForFacts
  <2>7. LeafSound(a, m[a]) => m[a].kind = "hash"
    BY DEF LeafSound, HashNode
  <2>8. IsHash(m, a)
    BY <2>2, <2>5, <2>6, <2>7 DEF IsHash, a
  <2> QED
    BY <2>0, <2>1, <2>2, <2>3, <2>4, <2>5, <2>6, <2>8 DEF a
<1>12. \A q \in DOMAIN m : q = p \/ (q \in DOMAIN ns /\ q # p) \/ \E c \in new : q = Append(p, c)
  BY <1>1
<1>13. \A q \in DOMAIN ns \ {p} : (IsHash(m, q) <=> IsHash(ns, q)) /\ (HasValue(m, q) <=> HasValue(ns, q))
                                   /\ q \in DOMAIN m /\ m[q] = ns[q]
  BY <1>1 DEF IsHash, HasValue
<1>14. Closed(m)
  <2> SUFFICES ASSUME NEW q \in DOMAIN m
               PROVE  q \in Seq(Chars) /\ (q # <<>> => Front(q) \in DOMAIN m /\ ~IsHash(m, Front(q)))
    BY DEF Closed
  <2>1. CASE q \in DOMAIN ns
    <3>1. q \in Seq(Chars) /\ (q # <<>> => Front(q) \in DOMAIN ns /\ ~IsHash(ns, Front(q)))
      BY <2>1 DEF Tree, Closed
    <3> QED
      BY <1>1, <1>10, <1>13, <3>1
  <2>2. CASE q \notin DOMAIN ns
    <3>1. PICK c \in new : q = Append(p, c)
      BY <1>12, <2>2
    <3> QED
      BY <1>1, <1>10, <1>11, <3>1
  <2> QED
    BY <2>1, <2>2
<1>15. Tree(m)
  <2>1. IsFiniteSet(DOMAIN m)
    <3>1. IsFiniteSet(new)
      <4>1. IsFiniteSet({e \in ToSet(Entries(old)) : e.key # <<>>})
        BY <1>2, <1>3, FS_Subset DEF Sound, Filed, Counted
      <4>2. \A T : IsFiniteSet(T) => IsFiniteSet({Head(e.key) : e \in T})
        <5> TAKE T
        <5> HAVE IsFiniteSet(T)
        <5> DEFINE f == [e \in T |-> Head(e.key)]
        <5>1. f \in Surjection(T, {f[e] : e \in T})
          BY DEF Surjection
        <5>2. IsFiniteSet({f[e] : e \in T})
          BY <5>1, FS_Surjection
        <5>3. {f[e] : e \in T} = {Head(e.key) : e \in T}
          OBVIOUS
        <5> QED
          BY <5>2, <5>3
      <4> QED
        BY <4>1, <4>2 DEF new
    <3>2. IsFiniteSet({Append(p, c) : c \in new})
      <4> DEFINE f == [c \in new |-> Append(p, c)]
      <4>1. f \in Surjection(new, {f[c] : c \in new})
        BY DEF Surjection
      <4>2. IsFiniteSet({f[c] : c \in new})
        BY <3>1, <4>1, FS_Surjection
      <4>3. {f[c] : c \in new} = {Append(p, c) : c \in new}
        OBVIOUS
      <4> QED
        BY <4>2, <4>3
    <3> QED
      BY <1>1, <3>2, FS_Union DEF Tree
  <2>2. ASSUME NEW q \in DOMAIN m
        PROVE  LeafSound(q, m[q]) \/ InnerSound(q, m[q])
    <3>1. CASE q = p
      BY <1>10, <3>1
    <3>2. CASE q \in DOMAIN ns /\ q # p
      BY <1>1, <3>2 DEF Tree
    <3>3. CASE \E c \in new : q = Append(p, c)
      BY <1>11, <3>3
    <3> QED
      BY <1>12, <3>1, <3>2, <3>3
  <2> QED
    BY <1>14, <2>1, <2>2 DEF Tree
<1>16. NoneEmpty(m)
  <2> SUFFICES ASSUME NEW q \in DOMAIN m
               PROVE  ~IsEmptyNode(m, q)
    BY DEF NoneEmpty
  <2>1. CASE q = p
    <3>1. PICK e \in Cells(old) : TRUE
      BY <1>4
    <3>2. CASE e.key = <<>>
      <4>1. Maps(old, <<>>, old.values[e.pos])
        BY <3>2 DEF Maps
      <4>2. HasValue(m, p)
        BY <1>1, <1>8, <1>10, <4>1 DEF HasValue
      <4> QED
        BY <1>10, <2>1, <4>2 DEF IsEmptyNode
    <3>3. CASE e.key # <<>>
      <4>1. Head(e.key) \in Children(m, p)
        BY <1>6, <1>11, <3>3 DEF Children
      <4> QED
        BY <1>10, <2>1, <4>1 DEF IsEmptyNode
    <3> QED
      BY <3>2, <3>3
  <2>2. CASE q \in DOMAIN ns /\ q # p
    <3>1. Children(ns, q) \subseteq Children(m, q)
      BY <1>1 DEF Children
    <3> QED
      BY <1>13, <2>2, <3>1 DEF IsEmptyNode, NoneEmpty
  <2>3. CASE \E c \in new : q = Append(p, c)
    <3>1. PICK c \in new : q = Append(p, c)
      BY <2>3
    <3>2. IsHash(m, Append(p, c)) /\ m[Append(p, c)].table.nb > 0
      BY <1>11
    <3>3. IsHash(m, q) /\ m[q].table.nb # 0
      BY <3>1, <3>2
    <3> QED
      BY <3>3 DEF IsEmptyNode
  <2> QED
    BY <1>12, <2>1, <2>2, <2>3
<1>17. ASSUME NEW k \in Seq(Chars), NEW v
       PROVE  Holds(m, k, v) <=> Holds(ns, k, v)
  <2> DEFINE s == SuffixAfter(k, p)
  <2>1. HoldsAt(ns, p, k, v) <=> IsPrefix(p, k) /\ Maps(old, s, v)
    BY DEF HoldsAt, old
  <2>2. HoldsAt(m, p, k, v) <=> p = k /\ Maps(old, <<>>, v)
    BY <1>8, <1>10 DEF HoldsAt
  <2>3. \A c \in new : HoldsAt(m, Append(p, c), k, v) <=>
            IsPrefix(Append(p, c), k) /\ Maps(m[Append(p, c)].table, SuffixAfter(k, Append(p, c)), v)
    BY <1>11 DEF HoldsAt
  <2>4. \A c \in new : HoldsAt(m, Append(p, c), k, v) <=> IsPrefix(Append(p, c), k) /\ Maps(old, s, v)
    <3> TAKE c \in new
    <3> DEFINE a == Append(p, c)
               x == SuffixAfter(k, a)
    <3>1. IsPrefix(a, k) => s = <<c>> \o x /\ x \in Seq(Chars)
      <4>1. c \in Chars /\ p \in Seq(Chars)
        BY <1>0, <1>11
      <4> QED
        BY <4>1, SuffixSteps
    <3>2. IsPrefix(a, k) => (Maps(m[a].table, x, v) <=> Maps(old, <<c>> \o x, v))
      BY <1>11, <3>1
    <3> HIDE DEF s, x, a
    <3> QED
      BY <2>3, <3>1, <3>2 DEF a, x
  <2>5. p = k => IsPrefix(p, k) /\ s = <<>>
    <3>1. p = k => IsPrefix(p, k)
      BY PrefixOrder
    <3>2. SubSeq(k, Len(k) + 1, Len(k)) = <<>>
      OBVIOUS
    <3> QED
      BY <3>1, <3>2 DEF SuffixAfter
  <2>6. IsPrefix(p, k) => s \in Seq(Chars) /\ (s = <<>> => p = k)
    BY <1>0, SuffixFacts
  <2>7. \A c \in new : IsPrefix(Append(p, c), k) => IsPrefix(p, k)
    BY <1>0, <1>11, AppendFacts
  <2>8. \A c \in new : IsPrefix(p, k) /\ s # <<>> /\ Head(s) = c => IsPrefix(Append(p, c), k)
    BY <1>0, <1>11, SuffixSteps
  <2>9. Maps(old, s, v) /\ s # <<>> => Head(s) \in new
    BY <1>6 DEF Maps
  <2> HIDE DEF s
  <2>10. HoldsAt(ns, p, k, v) <=> HoldsAt(m, p, k, v) \/ \E c \in new : HoldsAt(m, Append(p, c), k, v)
    <3>1. ASSUME HoldsAt(ns, p, k, v)
          PROVE  HoldsAt(m, p, k, v) \/ \E c \in new : HoldsAt(m, Append(p, c), k, v)
      BY <2>1, <2>2, <2>4, <2>6, <2>8, <2>9, <3>1
    <3>2. ASSUME HoldsAt(m, p, k, v)
          PROVE  HoldsAt(ns, p, k, v)
      BY <2>1, <2>2, <2>5, <3>2
    <3>3. ASSUME NEW c \in new, HoldsAt(m, Append(p, c), k, v)
          PROVE  HoldsAt(ns, p, k, v)
      BY <2>1, <2>4, <2>7, <3>3
    <3> QED
      BY <3>1, <3>2, <3>3
  <2>11. \A q \in DOMAIN ns \ {p} : HoldsAt(m, q, k, v) <=> HoldsAt(ns, q, k, v)
    BY <1>13 DEF HoldsAt
  <2>12. Holds(ns, k, v) <=> HoldsAt(ns, p, k, v) \/ \E q \in DOMAIN ns \ {p} : HoldsAt(ns, q, k, v)
    BY DEF Holds
  <2>13. Holds(m, k, v) <=> HoldsAt(m, p, k, v) \/ (\E c \in new : HoldsAt(m, Append(p, c), k, v))
                            \/ \E q \in DOMAIN ns \ {p} : HoldsAt(m, q, k, v)
    BY <1>1, <1>11, <1>12, <1>13 DEF Holds
  <2> QED
    BY <2>10, <2>11, <2>12, <2>13
<1> QED
  BY <1>15, <1>16, <1>17 DEF m

-----------------------------------------------------------------------------
(* The iterator: stops in the order of their paths. *)

IsStop(ns, p) == p \in DOMAIN ns /\ (IsHash(ns, p) \/ HasValue(ns, p))

\* p and q part at one path, p to a smaller character.
Apart(p, q) ==
    \E u \in Seq(Chars) : \E c, d \in Chars :
        c < d /\ IsPrefix(Append(u, c), p) /\ IsPrefix(Append(u, d), q)

Before(p, q) == (IsPrefix(p, q) /\ p # q) \/ Apart(p, q)

\* Paths apart stay apart further down.
LEMMA ApartFacts ==
    ASSUME NEW p \in Seq(Chars), NEW q \in Seq(Chars)
    PROVE  /\ Apart(p, q) => ~IsPrefix(p, q) /\ ~IsPrefix(q, p) /\ p # q
           /\ \A r \in Seq(Chars) : Apart(p, q) /\ IsPrefix(p, r) => Apart(r, q)
           /\ \A r \in Seq(Chars) : Apart(p, q) /\ IsPrefix(q, r) => Apart(p, r)
           /\ \A r \in Seq(Chars) : Apart(p, q) /\ IsPrefix(r, p) => Apart(r, q) \/ IsPrefix(r, q)
           /\ \A r \in Seq(Chars) : Apart(p, q) /\ IsPrefix(r, q) => Apart(p, r) \/ IsPrefix(r, p)
<1>1. ASSUME NEW r \in Seq(Chars), Apart(p, q), IsPrefix(p, r)
      PROVE  Apart(r, q)
  <2>1. PICK u \in Seq(Chars) : \E c, d \in Chars : c < d /\ IsPrefix(Append(u, c), p) /\ IsPrefix(Append(u, d), q)
    BY <1>1 DEF Apart
  <2>2. PICK c \in Chars : \E d \in Chars : c < d /\ IsPrefix(Append(u, c), p) /\ IsPrefix(Append(u, d), q)
    BY <2>1
  <2> DEFINE a == Append(u, c)
  <2>3. a \in Seq(Chars) /\ IsPrefix(a, p)
    BY <2>2
  <2> HIDE DEF a
  <2>4. IsPrefix(a, r)
    BY <1>1, <2>3, PrefixChain
  <2> QED
    BY <2>2, <2>4 DEF Apart, a
<1>2. ASSUME NEW r \in Seq(Chars), Apart(p, q), IsPrefix(q, r)
      PROVE  Apart(p, r)
  <2>1. PICK u \in Seq(Chars) : \E c, d \in Chars : c < d /\ IsPrefix(Append(u, c), p) /\ IsPrefix(Append(u, d), q)
    BY <1>2 DEF Apart
  <2>2. PICK d \in Chars : \E c \in Chars : c < d /\ IsPrefix(Append(u, c), p) /\ IsPrefix(Append(u, d), q)
    BY <2>1
  <2> DEFINE a == Append(u, d)
  <2>3. a \in Seq(Chars) /\ IsPrefix(a, q)
    BY <2>2
  <2> HIDE DEF a
  <2>4. IsPrefix(a, r)
    BY <1>2, <2>3, PrefixChain
  <2> QED
    BY <2>2, <2>4 DEF Apart, a
<1>3. \A u \in Seq(Chars) : \A c, d \in Chars : \A r \in Seq(Chars) :
          c < d /\ IsPrefix(Append(u, c), r) => ~IsPrefix(Append(u, d), r)
  <2> TAKE u \in Seq(Chars)
  <2> TAKE c, d \in Chars
  <2> TAKE r \in Seq(Chars)
  <2>1. IsPrefix(Append(u, c), r) => r[Len(u) + 1] = c
    BY AppendFacts
  <2>2. IsPrefix(Append(u, d), r) => r[Len(u) + 1] = d
    BY AppendFacts
  <2>3. c \in Nat /\ d \in Nat
    BY HatTrieAssumption
  <2> QED
    BY <2>1, <2>2, <2>3
<1>4. \A r \in Seq(Chars) : ~Apart(r, r)
  BY <1>3 DEF Apart
<1>5. Apart(p, q) => ~IsPrefix(p, q) /\ ~IsPrefix(q, p) /\ p # q
  BY <1>1, <1>2, <1>4
<1>6. ASSUME NEW r \in Seq(Chars), NEW u \in Seq(Chars), NEW c \in Chars, NEW s \in Seq(Chars),
             IsPrefix(Append(u, c), s), IsPrefix(r, s)
      PROVE  IsPrefix(Append(u, c), r) \/ IsPrefix(r, u)
  <2> DEFINE a == Append(u, c)
  <2>1. a \in Seq(Chars) /\ IsPrefix(u, a) /\ Len(a) = Len(u) + 1 /\ Len(u) \in Nat /\ Len(r) \in Nat
    BY AppendFacts
  <2>2. IsPrefix(a, s) /\ IsPrefix(u, s)
    <3>1. IsPrefix(a, s)
      BY <1>6
    <3> HIDE DEF a
    <3> QED
      BY <2>1, <3>1, PrefixChain
  <2> HIDE DEF a
  <2>3. Len(a) <= Len(r) \/ Len(r) <= Len(u)
    BY <2>1
  <2>4. IsPrefix(a, r) \/ IsPrefix(r, u)
    BY <1>6, <2>1, <2>2, <2>3, PrefixChain
  <2> QED
    BY <2>4 DEF a
<1>7. ASSUME NEW r \in Seq(Chars), Apart(p, q), IsPrefix(r, p)
      PROVE  Apart(r, q) \/ IsPrefix(r, q)
  <2>1. PICK u \in Seq(Chars) : \E c, d \in Chars : c < d /\ IsPrefix(Append(u, c), p) /\ IsPrefix(Append(u, d), q)
    BY <1>7 DEF Apart
  <2>2. PICK c \in Chars : \E d \in Chars : c < d /\ IsPrefix(Append(u, c), p) /\ IsPrefix(Append(u, d), q)
    BY <2>1
  <2>3. IsPrefix(Append(u, c), r) \/ IsPrefix(r, u)
    BY <1>6, <1>7, <2>2
  <2>4. CASE IsPrefix(Append(u, c), r)
    BY <2>2, <2>4 DEF Apart
  <2>5. CASE IsPrefix(r, u)
    <3>1. IsPrefix(u, q)
      BY <2>2, AppendFacts
    <3> QED
      BY <2>5, <3>1, PrefixChain
  <2> QED
    BY <2>3, <2>4, <2>5
<1>8. ASSUME NEW r \in Seq(Chars), Apart(p, q), IsPrefix(r, q)
      PROVE  Apart(p, r) \/ IsPrefix(r, p)
  <2>1. PICK u \in Seq(Chars) : \E c, d \in Chars : c < d /\ IsPrefix(Append(u, c), p) /\ IsPrefix(Append(u, d), q)
    BY <1>8 DEF Apart
  <2>2. PICK d \in Chars : \E c \in Chars : c < d /\ IsPrefix(Append(u, c), p) /\ IsPrefix(Append(u, d), q)
    BY <2>1
  <2>3. IsPrefix(Append(u, d), r) \/ IsPrefix(r, u)
    BY <1>6, <1>8, <2>2
  <2>4. CASE IsPrefix(Append(u, d), r)
    BY <2>2, <2>4 DEF Apart
  <2>5. CASE IsPrefix(r, u)
    <3>1. IsPrefix(u, p)
      BY <2>2, AppendFacts
    <3> QED
      BY <2>5, <3>1, PrefixChain
  <2> QED
    BY <2>3, <2>4, <2>5
<1> QED
  BY <1>1, <1>2, <1>5, <1>7, <1>8

\* Order of paths apart.
LEMMA ApartChain ==
    ASSUME NEW p \in Seq(Chars), NEW q \in Seq(Chars), NEW r \in Seq(Chars), Apart(p, q), Apart(q, r)
    PROVE  Apart(p, r)
<1>1. PICK u \in Seq(Chars) : \E c, d \in Chars : c < d /\ IsPrefix(Append(u, c), p) /\ IsPrefix(Append(u, d), q)
  BY DEF Apart
<1>2. PICK c \in Chars : \E d \in Chars : c < d /\ IsPrefix(Append(u, c), p) /\ IsPrefix(Append(u, d), q)
  BY <1>1
<1>3. PICK d \in Chars : c < d /\ IsPrefix(Append(u, c), p) /\ IsPrefix(Append(u, d), q)
  BY <1>2
<1>4. PICK w \in Seq(Chars) : \E e, f \in Chars : e < f /\ IsPrefix(Append(w, e), q) /\ IsPrefix(Append(w, f), r)
  BY DEF Apart
<1>5. PICK e \in Chars : \E f \in Chars : e < f /\ IsPrefix(Append(w, e), q) /\ IsPrefix(Append(w, f), r)
  BY <1>4
<1>6. PICK f \in Chars : e < f /\ IsPrefix(Append(w, e), q) /\ IsPrefix(Append(w, f), r)
  BY <1>5
<1>7. IsPrefix(u, q) /\ Len(u) < Len(q) /\ q[Len(u) + 1] = d
  BY <1>3, AppendFacts
<1>8. IsPrefix(w, q) /\ Len(w) < Len(q) /\ q[Len(w) + 1] = e
  BY <1>6, AppendFacts
<1>9. Len(u) \in Nat /\ Len(w) \in Nat /\ c \in Nat /\ d \in Nat /\ e \in Nat /\ f \in Nat
  BY HatTrieAssumption
<1>10. CASE Len(u) = Len(w)
  <2>1. u = w
    BY <1>7, <1>8, <1>9, <1>10, PrefixChain, PrefixOrder
  <2>2. c < f
    BY <1>3, <1>6, <1>7, <1>8, <1>9, <1>10
  <2> QED
    BY <1>3, <1>6, <2>1, <2>2 DEF Apart
<1>11. CASE Len(u) < Len(w)
  <2> DEFINE a == Append(u, d)
             b == Append(w, f)
  <2>1. a \in Seq(Chars) /\ Len(a) <= Len(w) /\ IsPrefix(a, q) /\ b \in Seq(Chars) /\ IsPrefix(w, b) /\ IsPrefix(b, r)
    BY <1>3, <1>6, <1>9, <1>11, AppendFacts
  <2> HIDE DEF a, b
  <2>2. IsPrefix(a, w)
    BY <1>8, <2>1, PrefixChain
  <2>3. IsPrefix(a, r)
    <3>1. IsPrefix(a, b)
      BY <2>1, <2>2, PrefixChain
    <3> QED
      BY <2>1, <3>1, PrefixChain
  <2> QED
    BY <1>3, <2>3 DEF Apart, a
<1>12. CASE Len(w) < Len(u)
  <2> DEFINE a == Append(w, e)
             b == Append(u, c)
  <2>1. a \in Seq(Chars) /\ Len(a) <= Len(u) /\ IsPrefix(a, q) /\ b \in Seq(Chars) /\ IsPrefix(u, b) /\ IsPrefix(b, p)
    BY <1>3, <1>6, <1>9, <1>12, AppendFacts
  <2> HIDE DEF a, b
  <2>2. IsPrefix(a, u)
    BY <1>7, <2>1, PrefixChain
  <2>3. IsPrefix(a, p)
    <3>1. IsPrefix(a, b)
      BY <2>1, <2>2, PrefixChain
    <3> QED
      BY <2>1, <3>1, PrefixChain
  <2> QED
    BY <1>6, <2>3 DEF Apart, a
<1> QED
  BY <1>9, <1>10, <1>11, <1>12

\* The order in which an iterator comes to the stops.
LEMMA BeforeFacts ==
    ASSUME NEW p \in Seq(Chars), NEW q \in Seq(Chars)
    PROVE  /\ ~Before(p, p) /\ ~(Before(p, q) /\ Before(q, p))
           /\ \A r \in Seq(Chars) : Before(p, q) /\ Before(q, r) => Before(p, r)
<1>1. \A x \in Seq(Chars) : ~Before(x, x)
  BY ApartFacts DEF Before
<1>2. ASSUME NEW r \in Seq(Chars), Before(p, q), Before(q, r)
      PROVE  Before(p, r)
  <2>1. CASE Apart(p, q) /\ Apart(q, r)
    BY <2>1, ApartChain DEF Before
  <2>2. CASE Apart(p, q) /\ IsPrefix(q, r)
    BY <2>2, ApartFacts DEF Before
  <2>3. CASE IsPrefix(p, q) /\ Apart(q, r)
    <3>1. Apart(p, r) \/ IsPrefix(p, r)
      BY <2>3, ApartFacts
    <3>2. p # r
      BY <2>3, ApartFacts
    <3> QED
      BY <3>1, <3>2 DEF Before
  <2>4. CASE IsPrefix(p, q) /\ IsPrefix(q, r) /\ p # q
    <3>1. IsPrefix(p, r)
      BY <2>4, PrefixChain
    <3>2. p # r
      BY <2>4, PrefixOrder
    <3> QED
      BY <3>1, <3>2 DEF Before
  <2> QED
    BY <1>2, <2>1, <2>2, <2>3, <2>4 DEF Before
<1>3. ~(Before(p, q) /\ Before(q, p))
  <2>1. Before(p, q) /\ Before(q, p) => Before(p, p)
    BY <1>2
  <2> QED
    BY <1>1, <2>1
<1> QED
  BY <1>1, <1>2, <1>3

\* Paths branch at the node above them.
LEMMA Branches ==
    ASSUME NEW ns, Tree(ns), NEW p \in DOMAIN ns, NEW q \in DOMAIN ns, IsPrefix(p, q), p # q
    PROVE  \E c \in Children(ns, p) : IsPrefix(Append(p, c), q)
<1>1. p \in Seq(Chars) /\ q \in Seq(Chars)
  BY NodeKinds
<1> DEFINE c == q[Len(p) + 1]
<1>2. c \in Chars /\ IsPrefix(Append(p, c), q)
  <2>1. Len(p) < Len(q)
    BY <1>1, PrefixOrder
  <2> QED
    BY <1>1, <2>1, AppendFacts
<1> HIDE DEF c
<1>3. Append(p, c) \in DOMAIN ns
  <2>1. Append(p, c) \in Seq(Chars)
    BY <1>1, <1>2
  <2> QED
    BY <1>2, <2>1, PrefixesThere DEF Tree
<1> QED
  BY <1>2, <1>3 DEF Children

\* A path has no more characters than the tree has other nodes.
LEMMA Depth ==
    ASSUME NEW ns, Tree(ns), NEW p \in DOMAIN ns
    PROVE  Cardinality(DOMAIN ns) \in Nat /\ Len(p) < Cardinality(DOMAIN ns)
<1> DEFINE k == Len(p)
           f == [i \in 0 .. k |-> SubSeq(p, 1, i)]
<1>1. p \in Seq(Chars) /\ k \in Nat
  BY NodeKinds
<1>2. \A i \in 0 .. k : SubSeq(p, 1, i) \in DOMAIN ns /\ Len(SubSeq(p, 1, i)) = i
  <2> TAKE i \in 0 .. k
  <2>1. SubSeq(p, 1, i) \in Seq(Chars) /\ Len(SubSeq(p, 1, i)) = i /\ IsPrefix(SubSeq(p, 1, i), p)
    BY <1>1, CutFacts
  <2> QED
    BY <2>1, PrefixesThere DEF Tree
<1>3. f \in Injection(0 .. k, DOMAIN ns)
  <2>1. f \in [0 .. k -> DOMAIN ns]
    BY <1>2
  <2>2. \A i, j \in 0 .. k : f[i] = f[j] => i = j
    BY <1>2
  <2> HIDE DEF f, k
  <2> QED
    BY <2>1, <2>2 DEF Injection, IsInjective
<1> HIDE DEF f
<1>4. IsFiniteSet(0 .. k) /\ Cardinality(0 .. k) = k + 1
  <2>1. \A l \in Nat : IsFiniteSet(0 .. l) /\ Cardinality(0 .. l) = IF 0 > l THEN 0 ELSE l - 0 + 1
    BY FS_Interval
  <2> HIDE DEF k
  <2> QED
    BY <1>1, <2>1
<1>5. Cardinality(0 .. k) <= Cardinality(DOMAIN ns)
  <2>1. IsFiniteSet(DOMAIN ns)
    BY DEF Tree
  <2> HIDE DEF k
  <2> QED
    BY <1>3, <2>1, FS_Injection
<1>6. Cardinality(DOMAIN ns) \in Nat
  BY FS_CardinalityType DEF Tree
<1> HIDE DEF k
<1>7. k < Cardinality(DOMAIN ns)
  BY <1>1, <1>4, <1>5, <1>6
<1> QED
  BY <1>6, <1>7 DEF k

\* What one step down the first children does.
LEMMA FirstChild ==
    ASSUME NEW ns, Tree(ns), NEW p \in DOMAIN ns, Children(ns, p) # {}
    PROVE  /\ Append(p, Min(Children(ns, p))) \in DOMAIN ns
           /\ \A q \in DOMAIN ns : IsPrefix(p, q) /\ p # q =>
                  IsPrefix(Append(p, Min(Children(ns, p))), q) \/ Apart(Append(p, Min(Children(ns, p))), q)
<1> DEFINE C == Children(ns, p)
           m == Min(C)
<1>1. C \in SUBSET Nat /\ C \subseteq Chars
  BY HatTrieAssumption DEF Children
<1>2. m \in C /\ \A c \in C : m <= c
  <2>1. C # {}
    OBVIOUS
  <2> HIDE DEF C
  <2> QED
    BY <1>1, <2>1, MinFacts
<1> HIDE DEF m
<1>3. Append(p, m) \in DOMAIN ns
  BY <1>2 DEF Children
<1>4. p \in Seq(Chars)
  BY NodeKinds
<1>5. ASSUME NEW q \in DOMAIN ns, IsPrefix(p, q), p # q
      PROVE  IsPrefix(Append(p, m), q) \/ Apart(Append(p, m), q)
  <2>1. PICK c \in C : IsPrefix(Append(p, c), q)
    BY <1>5, Branches
  <2>2. CASE c = m
    BY <2>1, <2>2
  <2>3. CASE c # m
    <3>1. m < c /\ m \in Chars /\ c \in Chars
      BY <1>1, <1>2, <2>3
    <3>2. IsPrefix(Append(p, m), Append(p, m))
      <4> DEFINE a == Append(p, m)
      <4>1. a \in Seq(Chars)
        BY <1>4, <3>1
      <4> HIDE DEF a
      <4> QED
        BY <4>1, PrefixOrder DEF a
    <3> QED
      BY <1>4, <2>1, <3>1, <3>2 DEF Apart
  <2> QED
    BY <2>2, <2>3
<1> QED
  BY <1>3, <1>5 DEF m

\* g goes down the first children from path to a stop.
Descends(ns, path, g) ==
    g = [n \in Nat |-> IF n = 0 THEN path
                       ELSE IF IsHash(ns, g[n - 1]) \/ HasValue(ns, g[n - 1]) THEN g[n - 1]
                       ELSE Append(g[n - 1], Min(Children(ns, g[n - 1])))]

\* The first stop at or below a node is before all others there.
LEMMA FirstStopFacts ==
    ASSUME NEW ns, Tree(ns), NoneEmpty(ns), NEW path \in DOMAIN ns
    PROVE  /\ IsStop(ns, FirstStop(ns, path)) /\ IsPrefix(path, FirstStop(ns, path))
           /\ \A q \in DOMAIN ns : IsStop(ns, q) /\ IsPrefix(path, q) /\ q # FirstStop(ns, path) =>
                  Before(FirstStop(ns, path), q)
<1> DEFINE Nodes == DOMAIN ns
           F == [x \in Nat \X Nodes |-> IF IsStop(ns, x[2]) THEN x[2] ELSE Append(x[2], Min(Children(ns, x[2])))]
           Down == CHOOSE g : Descends(ns, path, g)
           k == Cardinality(Nodes)
<1>1. ASSUME NEW p \in Nodes, ~IsStop(ns, p)
      PROVE  Children(ns, p) # {}
  BY <1>1 DEF IsStop, NoneEmpty, IsEmptyNode
<1>2. \E g : Repeats(g, Nodes, path, F)
  <2>1. F \in [Nat \X Nodes -> Nodes]
    <3>1. ASSUME NEW p \in Nodes, ~IsStop(ns, p)
          PROVE  Append(p, Min(Children(ns, p))) \in Nodes
      BY <1>1, <3>1, FirstChild
    <3> QED
      BY <3>1
  <2> HIDE DEF F, Nodes
  <2>2. path \in Nodes
    BY DEF Nodes
  <2> QED
    BY <2>1, <2>2, Repeated
<1>3. PICK f : Repeats(f, Nodes, path, F)
  BY <1>2
<1>4. f \in [Nat -> Nodes] /\ f[0] = path
      /\ \A n \in Nat : f[n + 1] = IF IsStop(ns, f[n]) THEN f[n] ELSE Append(f[n], Min(Children(ns, f[n])))
  BY <1>3 DEF Repeats
<1>5. Descends(ns, path, f)
  <2>1. ASSUME NEW n \in Nat
        PROVE  f[n] = IF n = 0 THEN path
                      ELSE IF IsHash(ns, f[n - 1]) \/ HasValue(ns, f[n - 1]) THEN f[n - 1]
                      ELSE Append(f[n - 1], Min(Children(ns, f[n - 1])))
    <3>1. CASE n = 0
      BY <1>4, <3>1
    <3>2. CASE n # 0
      <4> DEFINE m == n - 1
      <4>1. m \in Nat /\ m + 1 = n
        BY <3>2
      <4> HIDE DEF m
      <4>2. f[m + 1] = (IF IsStop(ns, f[m]) THEN f[m] ELSE Append(f[m], Min(Children(ns, f[m])))) /\ f[m] \in Nodes
        BY <1>4, <4>1
      <4>3. f[n] = IF IsHash(ns, f[m]) \/ HasValue(ns, f[m]) THEN f[m] ELSE Append(f[m], Min(Children(ns, f[m])))
        BY <4>1, <4>2 DEF IsStop
      <4> QED
        BY <3>2, <4>3 DEF m
    <3> QED
      BY <3>1, <3>2
  <2> QED
    BY <1>4, <2>1 DEF Descends
<1>6. Descends(ns, path, Down)
  BY <1>5
<1>7. FirstStop(ns, path) = Down[k]
  BY DEF FirstStop, Descends
<1> HIDE DEF Down, F
<1>8. Down[0] = path
      /\ \A n \in Nat : Down[n + 1] = IF IsHash(ns, Down[n]) \/ HasValue(ns, Down[n]) THEN Down[n]
                                      ELSE Append(Down[n], Min(Children(ns, Down[n])))
  <2>1. \A x \in Nat : Down[x] = IF x = 0 THEN path
                       ELSE IF IsHash(ns, Down[x - 1]) \/ HasValue(ns, Down[x - 1]) THEN Down[x - 1]
                       ELSE Append(Down[x - 1], Min(Children(ns, Down[x - 1])))
    BY <1>6 DEF Descends
  <2>2. ASSUME NEW n \in Nat
        PROVE  Down[n + 1] = IF IsHash(ns, Down[n]) \/ HasValue(ns, Down[n]) THEN Down[n]
                             ELSE Append(Down[n], Min(Children(ns, Down[n])))
    <3> DEFINE x == n + 1
    <3>1. x \in Nat /\ x # 0 /\ x - 1 = n
      OBVIOUS
    <3> HIDE DEF x
    <3>2. Down[x] = IF x = 0 THEN path
                       ELSE IF IsHash(ns, Down[x - 1]) \/ HasValue(ns, Down[x - 1]) THEN Down[x - 1]
                       ELSE Append(Down[x - 1], Min(Children(ns, Down[x - 1])))
      BY <2>1, <3>1
    <3> QED
      BY <3>1, <3>2 DEF x
  <2> QED
    BY <2>1, <2>2
<1> DEFINE Good(n) == /\ Down[n] \in Nodes /\ IsPrefix(path, Down[n])
                      /\ \A q \in Nodes : IsStop(ns, q) /\ IsPrefix(path, q) => IsPrefix(Down[n], q) \/ Apart(Down[n], q)
                      /\ IsStop(ns, Down[n]) \/ Len(Down[n]) >= n
           R == {n \in Nat : Good(n)}
<1>9. 0 \in R
  <2>1. path \in Seq(Chars)
    BY NodeKinds
  <2>2. IsPrefix(path, path) /\ Len(path) >= 0
    BY <2>1, PrefixOrder
  <2> QED
    BY <1>8, <2>2
<1>10. ASSUME NEW n \in Nat, n \in R
       PROVE  n + 1 \in R
  <2> DEFINE p == Down[n]
             a == Append(p, Min(Children(ns, p)))
  <2>0. Good(n)
    BY <1>10
  <2>1. CASE IsStop(ns, p)
    <3>1. Down[n + 1] = p
      BY <1>8, <2>1 DEF IsStop
    <3> QED
      BY <2>0, <2>1, <3>1
  <2>2. CASE ~IsStop(ns, p)
    <3>1. Down[n + 1] = a
      BY <1>8, <2>0, <2>2 DEF IsStop
    <3>2. Children(ns, p) # {}
      BY <1>1, <2>0, <2>2
    <3>3. a \in Nodes /\ \A q \in Nodes : IsPrefix(p, q) /\ p # q => IsPrefix(a, q) \/ Apart(a, q)
      BY <2>0, <3>2, FirstChild
    <3>4. p \in Seq(Chars) /\ a \in Seq(Chars) /\ path \in Seq(Chars) /\ \A q \in Nodes : q \in Seq(Chars)
      BY <2>0, <3>3, NodeKinds
    <3>5. Min(Children(ns, p)) \in Chars
      <4>1. Children(ns, p) \in SUBSET Nat /\ Children(ns, p) \subseteq Chars
        BY HatTrieAssumption DEF Children
      <4> QED
        BY <3>2, <4>1, MinFacts
    <3>6. IsPrefix(p, a) /\ Len(a) = Len(p) + 1
      BY <3>4, <3>5, AppendFacts
    <3> HIDE DEF a, p
    <3>7. IsPrefix(path, a)
      BY <2>0, <3>4, <3>6, PrefixChain DEF p
    <3>8. \A q \in Nodes : IsStop(ns, q) /\ IsPrefix(path, q) => IsPrefix(a, q) \/ Apart(a, q)
      <4> TAKE q \in Nodes
      <4> HAVE IsStop(ns, q) /\ IsPrefix(path, q)
      <4>1. IsPrefix(p, q) \/ Apart(p, q)
        BY <2>0 DEF p
      <4>2. p # q
        BY <2>2
      <4>3. Apart(p, q) => Apart(a, q)
        BY <3>4, <3>6, ApartFacts
      <4> QED
        BY <3>3, <4>1, <4>2, <4>3
    <3>9. Len(a) >= n + 1
      <4>1. Len(p) >= n /\ Len(p) \in Nat
        BY <2>0, <2>2, <3>4 DEF p
      <4> QED
        BY <3>6, <4>1
    <3> QED
      BY <3>1, <3>3, <3>7, <3>8, <3>9
  <2> QED
    BY <2>1, <2>2
<1>11. k \in Nat /\ \A p \in Nodes : Len(p) < k
  BY Depth
<1>12. Good(k)
  <2>1. \A n \in Nat : n \in R
    <3> HIDE DEF R
    <3> QED
      BY <1>9, <1>10, AllRounds
  <2> HIDE DEF k
  <2> QED
    BY <1>11, <2>1
<1> DEFINE s == Down[k]
<1>13. IsStop(ns, s)
  <2>1. s \in Nodes /\ (IsStop(ns, s) \/ Len(s) >= k)
    BY <1>12
  <2>2. Len(s) < k /\ Len(s) \in Nat
    <3>1. s \in Seq(Chars)
      BY <2>1, NodeKinds
    <3> QED
      BY <1>11, <2>1, <3>1
  <2> HIDE DEF s, k
  <2> QED
    BY <1>11, <2>1, <2>2
<1>14. IsPrefix(path, s) /\ \A q \in Nodes : IsStop(ns, q) /\ IsPrefix(path, q) /\ q # s => Before(s, q)
  BY <1>12 DEF Before
<1> HIDE DEF s
<1> QED
  BY <1>7, <1>13, <1>14 DEF s

\* The end of an iteration is no path.
LEMMA EndIsNoPath == EndStop \notin Seq(Chars)
<1> SUFFICES ASSUME EndStop \in Seq(Chars)
             PROVE  FALSE
  OBVIOUS
<1>1. Len(EndStop) = 1 /\ EndStop[1] = 0
  BY DEF EndStop
<1>2. EndStop[1] \in Chars
  <2> DEFINE e == EndStop
  <2>1. e \in Seq(Chars) /\ Len(e) = 1
    BY <1>1
  <2> HIDE DEF e
  <2> QED
    BY <2>1 DEF e
<1> QED
  BY <1>1, <1>2, HatTrieAssumption

\* What lies later than a path hangs from a later sibling of a node on it.
LEMMA LaterFacts ==
    ASSUME NEW ns, Tree(ns), NEW path \in DOMAIN ns
    PROVE  /\ \A i \in 1 .. Len(path) : \A c \in LaterSiblings(ns, SubSeq(path, 1, i)) :
                  LET b == Append(Front(SubSeq(path, 1, i)), c) IN b \in DOMAIN ns /\ Apart(path, b)
           /\ \A q \in DOMAIN ns : Apart(path, q) =>
                  \E i \in 1 .. Len(path) : \E c \in LaterSiblings(ns, SubSeq(path, 1, i)) :
                      IsPrefix(Append(Front(SubSeq(path, 1, i)), c), q)
<1>0. path \in Seq(Chars)
  BY NodeKinds
<1>1. ASSUME NEW i \in 1 .. Len(path), NEW c \in LaterSiblings(ns, SubSeq(path, 1, i))
      PROVE  LET b == Append(Front(SubSeq(path, 1, i)), c) IN b \in DOMAIN ns /\ Apart(path, b)
  <2> DEFINE a == SubSeq(path, 1, i)
             u == Front(a)
             b == Append(u, c)
  <2>1. a \in Seq(Chars) /\ Len(a) = i /\ IsPrefix(a, path)
    BY <1>0, CutFacts
  <2>2. c \in Children(ns, u) /\ c > Last(a)
    BY DEF LaterSiblings
  <2> HIDE DEF a
  <2>3. a # <<>>
    BY <2>1
  <2>4. u \in Seq(Chars) /\ a = Append(u, Last(a)) /\ Last(a) \in Chars
    BY <2>1, <2>3, FrontFacts
  <2>5. c \in Chars /\ b \in DOMAIN ns
    BY <2>2 DEF Children
  <2>6. b \in Seq(Chars) /\ IsPrefix(b, b)
    <3>1. b \in Seq(Chars)
      BY <2>4, <2>5
    <3> HIDE DEF b
    <3> QED
      BY <3>1, PrefixOrder
  <2>7. Last(a) < c
    BY <2>2, <2>4, <2>5, HatTrieAssumption
  <2>8. Apart(path, b)
    BY <2>1, <2>4, <2>5, <2>6, <2>7 DEF Apart
  <2> QED
    BY <2>5, <2>8 DEF a
<1>2. ASSUME NEW q \in DOMAIN ns, Apart(path, q)
      PROVE  \E i \in 1 .. Len(path) : \E c \in LaterSiblings(ns, SubSeq(path, 1, i)) :
                 IsPrefix(Append(Front(SubSeq(path, 1, i)), c), q)
  <2>1. PICK u \in Seq(Chars) : \E c, d \in Chars : c < d /\ IsPrefix(Append(u, c), path) /\ IsPrefix(Append(u, d), q)
    BY <1>2 DEF Apart
  <2>2. PICK c \in Chars : \E d \in Chars : c < d /\ IsPrefix(Append(u, c), path) /\ IsPrefix(Append(u, d), q)
    BY <2>1
  <2>3. PICK d \in Chars : c < d /\ IsPrefix(Append(u, c), path) /\ IsPrefix(Append(u, d), q)
    BY <2>2
  <2> DEFINE i == Len(u) + 1
             a == Append(u, c)
             b == Append(u, d)
  <2>4. /\ a \in Seq(Chars) /\ Len(a) = i /\ Front(a) = u /\ Last(a) = c
        /\ b \in Seq(Chars) /\ IsPrefix(b, q)
    BY <2>3, AppendFacts
  <2>5. i \in 1 .. Len(path)
    <3>1. Len(u) < Len(path) /\ Len(u) \in Nat
      BY <1>0, <2>3, AppendFacts
    <3> QED
      BY <1>0, <3>1
  <2>6. SubSeq(path, 1, i) = a
    <3>1. IsPrefix(a, path)
      BY <2>3
    <3> HIDE DEF a, i
    <3> QED
      BY <1>0, <2>4, <3>1, PrefixOrder
  <2>7. b \in DOMAIN ns
    <3> HIDE DEF b
    <3> QED
      BY <2>4, PrefixesThere DEF Tree
  <2>8. d \in Children(ns, u)
    BY <2>7 DEF Children
  <2>9. d \in LaterSiblings(ns, a)
    <3>1. d > Last(a)
      BY <2>3, <2>4, HatTrieAssumption
    <3> HIDE DEF a
    <3> QED
      BY <2>4, <2>8, <3>1 DEF LaterSiblings
  <2> HIDE DEF i, a
  <2>10. IsPrefix(Append(Front(SubSeq(path, 1, i)), d), q)
    BY <2>4, <2>6
  <2> QED
    BY <2>5, <2>6, <2>9, <2>10
<1> QED
  BY <1>1, <1>2

\* After names the first stop later than everything below a node.
LEMMA AfterFacts ==
    ASSUME NEW ns, Tree(ns), NoneEmpty(ns), NEW path \in DOMAIN ns
    PROVE  /\ After(ns, path) = EndStop => \A q \in DOMAIN ns : ~Apart(path, q)
           /\ After(ns, path) # EndStop =>
                  /\ IsStop(ns, After(ns, path)) /\ Apart(path, After(ns, path))
                  /\ \A q \in DOMAIN ns : IsStop(ns, q) /\ Apart(path, q) /\ q # After(ns, path) =>
                         Before(After(ns, path), q)
<1> DEFINE Cut(i) == SubSeq(path, 1, i)
           climbs == {i \in 1 .. Len(path) : LaterSiblings(ns, Cut(i)) # {}}
           m == Max(climbs)
           near == Cut(m)
           L == LaterSiblings(ns, near)
           c == Min(L)
           b == Append(Front(near), c)
           s == FirstStop(ns, b)
<1>0. path \in Seq(Chars) /\ Len(path) \in Nat
  BY NodeKinds
<1>1. After(ns, path) = IF climbs = {} THEN EndStop ELSE s
  BY DEF After
<1>2. CASE climbs = {}
  <2>1. \A q \in DOMAIN ns : ~Apart(path, q)
    BY <1>2, LaterFacts
  <2> QED
    BY <1>1, <1>2, <2>1
<1>3. CASE climbs # {}
  <2>1. m \in climbs /\ \A i \in climbs : i <= m
    <3>1. climbs \in SUBSET (0 .. Len(path))
      OBVIOUS
    <3> HIDE DEF climbs
    <3> QED
      BY <1>0, <1>3, <3>1, MaxFacts
  <2>2. m \in 1 .. Len(path) /\ L # {}
    BY <2>1
  <2> HIDE DEF m
  <2>3. c \in L /\ \A d \in L : c <= d
    <3>1. L \in SUBSET Nat
      BY HatTrieAssumption DEF LaterSiblings, Children
    <3> HIDE DEF L
    <3> QED
      BY <2>2, <3>1, MinFacts
  <2>4. b \in DOMAIN ns /\ Apart(path, b)
    <3> HIDE DEF c
    <3> QED
      BY <2>2, <2>3, LaterFacts
  <2>5. c \in Chars /\ L \subseteq Chars
    BY <2>3 DEF LaterSiblings, Children
  <2>6. near \in Seq(Chars) /\ Len(near) = m /\ near # <<>>
    <3>1. near \in Seq(Chars) /\ Len(near) = m
      BY <1>0, <2>2, CutFacts
    <3> HIDE DEF near
    <3> QED
      BY <2>2, <3>1
  <2>7. Front(near) \in Seq(Chars) /\ Len(Front(near)) = m - 1
    <3> HIDE DEF near
    <3> QED
      BY <2>6, FrontFacts
  <2>8. b \in Seq(Chars) /\ IsPrefix(b, b)
    <3>1. b \in Seq(Chars)
      BY <2>4, NodeKinds
    <3> HIDE DEF b
    <3> QED
      BY <3>1, PrefixOrder
  <2> HIDE DEF s
  <2>9. /\ IsStop(ns, s) /\ IsPrefix(b, s)
        /\ \A q \in DOMAIN ns : IsStop(ns, q) /\ IsPrefix(b, q) /\ q # s => Before(s, q)
    <3> HIDE DEF b
    <3> QED
      BY <2>4, FirstStopFacts DEF s
  <2>10. s \in Seq(Chars) /\ s # EndStop /\ Apart(path, s)
    <3>1. s \in Seq(Chars)
      BY <2>9, NodeKinds DEF IsStop
    <3> HIDE DEF b
    <3> QED
      BY <1>0, <2>4, <2>8, <2>9, <3>1, EndIsNoPath, ApartFacts
  <2>11. ASSUME NEW q \in DOMAIN ns, IsStop(ns, q), Apart(path, q), q # s
         PROVE  Before(s, q)
    <3>0. q \in Seq(Chars)
      BY NodeKinds
    <3>1. PICK i \in 1 .. Len(path) : \E d \in LaterSiblings(ns, Cut(i)) : IsPrefix(Append(Front(Cut(i)), d), q)
      BY <2>11, LaterFacts
    <3>2. PICK d \in LaterSiblings(ns, Cut(i)) : IsPrefix(Append(Front(Cut(i)), d), q)
      BY <3>1
    <3>3. i \in climbs /\ d \in Chars
      BY DEF LaterSiblings, Children
    <3>4. i <= m
      BY <2>1, <3>3
    <3>5. CASE i = m /\ d = c
      <4>1. IsPrefix(b, q)
        BY <3>2, <3>5
      <4> QED
        BY <2>9, <2>11, <4>1
    <3>6. CASE i = m /\ d # c
      <4>1. d \in L
        BY <3>6
      <4>2. c <= d
        BY <2>3, <4>1
      <4>3. c < d
        <5>1. c \in Nat /\ d \in Nat /\ d # c
          BY <2>5, <3>3, <3>6, HatTrieAssumption
        <5> HIDE DEF c
        <5> QED
          BY <4>2, <5>1
      <4>4. IsPrefix(Append(Front(near), d), q)
        BY <3>2, <3>6
      <4> HIDE DEF c, near
      <4>5. Apart(b, q)
        BY <2>5, <2>7, <2>8, <3>3, <4>3, <4>4 DEF Apart
      <4>6. Apart(s, q)
        <5> HIDE DEF b
        <5> QED
          BY <2>8, <2>9, <2>10, <3>0, <4>5, ApartFacts
      <4> QED
        BY <4>6 DEF Before
    <3>7. CASE i # m
      <4> DEFINE a == Cut(i)
                 x == Append(Front(a), d)
      <4>1. i \in 1 .. m - 1
        BY <2>2, <3>4, <3>7
      <4>2. a \in Seq(Chars) /\ Len(a) = i /\ IsPrefix(a, path)
        BY <1>0, CutFacts
      <4>3. IsPrefix(near, path)
        BY <1>0, <2>2, CutFacts
      <4>4. Front(near) \in Seq(Chars) /\ IsPrefix(Front(near), near) /\ Len(Front(near)) = m - 1
        <5> HIDE DEF near
        <5> QED
          BY <2>6, FrontFacts
      <4>5. x \in DOMAIN ns /\ Apart(path, x)
        BY LaterFacts
      <4>6. IsPrefix(a, Front(near))
        <5>1. IsPrefix(Front(near), path)
          <6> HIDE DEF near
          <6> QED
            BY <1>0, <2>6, <4>3, <4>4, PrefixChain
        <5>2. Len(a) <= Len(Front(near))
          BY <2>2, <4>1, <4>2, <4>4
        <5> HIDE DEF near, a
        <5> QED
          BY <1>0, <4>2, <4>4, <5>1, <5>2, PrefixChain
      <4>7. IsPrefix(a, b)
        <5>1. IsPrefix(Front(near), b)
          <6> HIDE DEF near, c
          <6> QED
            BY <2>5, <4>4, AppendFacts
        <5> HIDE DEF near, a, b
        <5> QED
          BY <2>8, <4>2, <4>4, <4>6, <5>1, PrefixChain
      <4>8. Apart(a, x) /\ x \in Seq(Chars)
        <5>1. x \in Seq(Chars)
          BY <4>5, NodeKinds
        <5>2. Apart(a, x) \/ IsPrefix(a, x)
          <6> HIDE DEF a, x
          <6> QED
            BY <1>0, <4>2, <4>5, <5>1, ApartFacts
        <5>3. ~IsPrefix(a, x)
          <6>1. a # <<>>
            <7> HIDE DEF a
            <7> QED
              BY <4>2
          <6>2. Last(a) \in Chars /\ a = Append(Front(a), Last(a)) /\ Front(a) \in Seq(Chars)
            <7> HIDE DEF a
            <7> QED
              BY <4>2, <6>1, FrontFacts
          <6>3. d > Last(a)
            BY DEF LaterSiblings
          <6>4. d # Last(a)
            BY <3>3, <6>2, <6>3, HatTrieAssumption
          <6> DEFINE u == Front(a)
          <6>5. u \in Seq(Chars)
            BY <6>2
          <6>6. Len(Append(u, Last(a))) = Len(Append(u, d)) /\ Append(u, Last(a)) # Append(u, d)
                /\ Append(u, Last(a)) \in Seq(Chars) /\ Append(u, d) \in Seq(Chars)
            <7> HIDE DEF u
            <7> QED
              BY <3>3, <6>2, <6>4, <6>5, AppendFacts
          <6>7. a # x /\ Len(a) = Len(x)
            BY <6>2, <6>6
          <6> HIDE DEF a, x
          <6> QED
            BY <4>2, <5>1, <6>7, PrefixOrder
        <5> QED
          BY <5>1, <5>2, <5>3
      <4>9. IsPrefix(x, q)
        BY <3>2
      <4> HIDE DEF a, x, b
      <4>10. Apart(a, q)
        BY <3>0, <4>2, <4>8, <4>9, ApartFacts
      <4>11. IsPrefix(a, s)
        BY <2>8, <2>9, <2>10, <4>2, <4>7, PrefixChain
      <4>12. Apart(s, q)
        BY <2>10, <3>0, <4>2, <4>10, <4>11, ApartFacts
      <4> QED
        BY <4>12 DEF Before
    <3> QED
      BY <3>5, <3>6, <3>7
  <2> HIDE DEF climbs
  <2> QED
    BY <1>1, <1>3, <2>9, <2>10, <2>11
<1> QED
  BY <1>2, <1>3

\* NextStop names the first stop after a stop.
LEMMA NextStopFacts ==
    ASSUME NEW ns, Tree(ns), NoneEmpty(ns), NEW p \in DOMAIN ns
    PROVE  /\ NextStop(ns, p) = EndStop => \A q \in DOMAIN ns : IsStop(ns, q) => ~Before(p, q)
           /\ NextStop(ns, p) # EndStop =>
                  /\ IsStop(ns, NextStop(ns, p)) /\ Before(p, NextStop(ns, p))
                  /\ \A q \in DOMAIN ns : IsStop(ns, q) /\ Before(p, q) /\ q # NextStop(ns, p) =>
                         Before(NextStop(ns, p), q)
<1>0. p \in Seq(Chars) /\ \A q \in DOMAIN ns : q \in Seq(Chars)
  BY NodeKinds
<1>1. CASE Children(ns, p) = {}
  <2>1. \A q \in DOMAIN ns : Before(p, q) => Apart(p, q)
    BY <1>1, Branches DEF Before
  <2>2. NextStop(ns, p) = After(ns, p)
    BY <1>1 DEF NextStop
  <2> DEFINE x == After(ns, p)
  <2>3. /\ x = EndStop => \A q \in DOMAIN ns : ~Apart(p, q)
        /\ x # EndStop =>
               /\ IsStop(ns, x) /\ Apart(p, x)
               /\ \A q \in DOMAIN ns : IsStop(ns, q) /\ Apart(p, q) /\ q # x => Before(x, q)
    BY AfterFacts
  <2> HIDE DEF x
  <2>4. x # EndStop => Before(p, x)
    BY <2>3 DEF Before
  <2> QED
    BY <2>1, <2>2, <2>3, <2>4 DEF x
<1>2. CASE Children(ns, p) # {}
  <2> DEFINE b == Append(p, Min(Children(ns, p)))
             s == FirstStop(ns, b)
  <2>1. NextStop(ns, p) = s
    BY <1>2 DEF NextStop
  <2>2. b \in DOMAIN ns /\ \A q \in DOMAIN ns : IsPrefix(p, q) /\ p # q => IsPrefix(b, q) \/ Apart(b, q)
    BY <1>2, FirstChild
  <2>3. IsPrefix(p, b) /\ p # b
    <3>1. Min(Children(ns, p)) \in Chars
      <4>1. Children(ns, p) \in SUBSET Nat /\ Children(ns, p) \subseteq Chars
        BY HatTrieAssumption DEF Children
      <4> QED
        BY <1>2, <4>1, MinFacts
    <3>2. IsPrefix(p, b) /\ ~IsPrefix(b, p)
      BY <1>0, <3>1, AppendFacts
    <3> QED
      BY <1>0, <3>2, PrefixOrder
  <2> HIDE DEF b
  <2>4. /\ IsStop(ns, s) /\ IsPrefix(b, s)
        /\ \A q \in DOMAIN ns : IsStop(ns, q) /\ IsPrefix(b, q) /\ q # s => Before(s, q)
    BY <2>2, FirstStopFacts
  <2> HIDE DEF s
  <2>5. b \in Seq(Chars) /\ s \in Seq(Chars) /\ s # EndStop /\ s \in DOMAIN ns
    BY <1>0, <2>2, <2>4, EndIsNoPath DEF IsStop
  <2>6. IsPrefix(p, s) /\ p # s
    BY <1>0, <2>3, <2>4, <2>5, PrefixChain, PrefixOrder
  <2>7. ASSUME NEW q \in DOMAIN ns, IsStop(ns, q), Before(p, q), q # s
        PROVE  Before(s, q)
    <3>1. CASE Apart(p, q)
      <4>1. Apart(s, q)
        BY <1>0, <2>5, <2>6, <3>1, ApartFacts
      <4> QED
        BY <4>1 DEF Before
    <3>2. CASE IsPrefix(p, q) /\ p # q
      <4>1. CASE IsPrefix(b, q)
        BY <2>4, <2>7, <4>1
      <4>2. CASE Apart(b, q)
        <5>1. Apart(s, q)
          BY <1>0, <2>4, <2>5, <4>2, ApartFacts
        <5> QED
          BY <5>1 DEF Before
      <4> QED
        BY <2>2, <3>2, <4>1, <4>2
    <3> QED
      BY <2>7, <3>1, <3>2 DEF Before
  <2>8. Before(p, s)
    BY <2>6 DEF Before
  <2> QED
    BY <2>1, <2>4, <2>5, <2>7, <2>8
<1> QED
  BY <1>1, <1>2

\* The next stop is the end of a subtree exactly when it lies outside.
LEMMA SubtreeEnd ==
    ASSUME NEW ns, Tree(ns), NoneEmpty(ns), NEW path \in DOMAIN ns,
           NEW p \in DOMAIN ns, IsStop(ns, p), IsPrefix(path, p)
    PROVE  /\ NextStop(ns, p) \in {After(ns, path), EndStop} =>
                  \A q \in DOMAIN ns : IsStop(ns, q) /\ IsPrefix(path, q) => ~Before(p, q)
           /\ NextStop(ns, p) \notin {After(ns, path), EndStop} =>
                  /\ IsStop(ns, NextStop(ns, p)) /\ IsPrefix(path, NextStop(ns, p)) /\ Before(p, NextStop(ns, p))
                  /\ \A q \in DOMAIN ns : IsStop(ns, q) /\ Before(p, q) /\ q # NextStop(ns, p) =>
                         Before(NextStop(ns, p), q)
<1> DEFINE x == NextStop(ns, p)
           a == After(ns, path)
<1>0. p \in Seq(Chars) /\ path \in Seq(Chars) /\ \A q \in DOMAIN ns : q \in Seq(Chars)
  BY NodeKinds
<1>1. /\ x = EndStop => \A q \in DOMAIN ns : IsStop(ns, q) => ~Before(p, q)
      /\ x # EndStop =>
             /\ IsStop(ns, x) /\ Before(p, x)
             /\ \A q \in DOMAIN ns : IsStop(ns, q) /\ Before(p, q) /\ q # x => Before(x, q)
  BY NextStopFacts
<1>2. /\ a = EndStop => \A q \in DOMAIN ns : ~Apart(path, q)
      /\ a # EndStop =>
             /\ IsStop(ns, a) /\ Apart(path, a)
             /\ \A q \in DOMAIN ns : IsStop(ns, q) /\ Apart(path, q) /\ q # a => Before(a, q)
  BY AfterFacts
<1> HIDE DEF x, a
<1>3. x # EndStop => x \in DOMAIN ns /\ x \in Seq(Chars)
  BY <1>0, <1>1 DEF IsStop
<1>4. a # EndStop => a \in DOMAIN ns /\ a \in Seq(Chars) /\ ~IsPrefix(path, a)
  BY <1>0, <1>2, ApartFacts DEF IsStop
<1>5. ASSUME x # EndStop, ~IsPrefix(path, x)
      PROVE  Apart(path, x) /\ x = a
  <2>1. x \in Seq(Chars) /\ x \in DOMAIN ns /\ IsStop(ns, x) /\ Before(p, x)
    BY <1>1, <1>3, <1>5
  <2>2. Apart(p, x)
    <3>1. IsPrefix(p, x) => IsPrefix(path, x)
      BY <1>0, <2>1, PrefixChain
    <3> QED
      BY <1>5, <2>1, <3>1 DEF Before
  <2>3. Apart(path, x)
    BY <1>0, <1>5, <2>1, <2>2, ApartFacts
  <2>4. a # EndStop /\ (x = a \/ Before(a, x))
    BY <1>2, <2>1, <2>3
  <2>5. a \in DOMAIN ns /\ a \in Seq(Chars) /\ IsStop(ns, a) /\ Apart(path, a)
    BY <1>2, <1>4, <2>4
  <2>6. Apart(p, a)
    BY <1>0, <2>5, ApartFacts
  <2>7. a = x \/ Before(x, a)
    BY <1>1, <1>5, <2>5, <2>6 DEF Before
  <2>8. ~(Before(a, x) /\ Before(x, a))
    BY <2>1, <2>5, BeforeFacts
  <2> QED
    BY <2>3, <2>4, <2>7, <2>8
<1>6. ASSUME x \in {a, EndStop}, NEW q \in DOMAIN ns, IsStop(ns, q), IsPrefix(path, q), Before(p, q)
      PROVE  FALSE
  <2>1. x # EndStop
    BY <1>1, <1>6
  <2>2. x = a /\ a # EndStop /\ ~IsPrefix(path, x)
    BY <1>4, <1>6, <2>1
  <2>3. Apart(path, x) /\ x \in Seq(Chars)
    BY <1>3, <1>5, <2>2
  <2>4. Apart(q, x)
    BY <1>0, <1>6, <2>3, ApartFacts
  <2>5. Before(x, q)
    BY <1>1, <1>6, <2>1, <2>2
  <2>6. Before(q, x)
    BY <2>4 DEF Before
  <2> QED
    BY <1>0, <2>3, <2>5, <2>6, BeforeFacts
<1>7. ASSUME x \notin {a, EndStop}
      PROVE  IsPrefix(path, x)
  BY <1>5, <1>7
<1> QED
  BY <1>1, <1>6, <1>7 DEF x, a

\* The stops of a subtree.
Below(ns, path) == {q \in DOMAIN ns : IsStop(ns, q) /\ IsPrefix(path, q)}

\* The stops still to come.
ToCome(ns, path, s) == {q \in Below(ns, path) : Before(Last(s), q)}

\* s visits stops in their order and has left out none.
Visited(ns, path, s) ==
    /\ s \in Seq(Below(ns, path)) /\ s # <<>>
    /\ \A i, j \in DOMAIN s : i < j => Before(s[i], s[j])
    /\ \A q \in Below(ns, path) : (\E i \in DOMAIN s : s[i] = q) \/ q \in ToCome(ns, path, s)

\* The iterator moves on to the next stop of the subtree, or has seen all.
LEMMA VisitOneMore ==
    ASSUME NEW ns, Tree(ns), NoneEmpty(ns), NEW path \in DOMAIN ns, NEW s, Visited(ns, path, s)
    PROVE  /\ NextStop(ns, Last(s)) \in {After(ns, path), EndStop} => ToCome(ns, path, s) = {}
           /\ NextStop(ns, Last(s)) \notin {After(ns, path), EndStop} =>
                  /\ Visited(ns, path, Append(s, NextStop(ns, Last(s))))
                  /\ ToCome(ns, path, Append(s, NextStop(ns, Last(s)))) \subseteq ToCome(ns, path, s)
                  /\ NextStop(ns, Last(s)) \in ToCome(ns, path, s)
                  /\ NextStop(ns, Last(s)) \notin ToCome(ns, path, Append(s, NextStop(ns, Last(s))))
<1> DEFINE p == Last(s)
           x == NextStop(ns, p)
           B == Below(ns, path)
           r == Append(s, x)
<1>0. /\ s \in Seq(B) /\ Len(s) \in Nat \ {0} /\ DOMAIN s = 1 .. Len(s) /\ p \in B
  <2>1. s \in Seq(B) /\ s # <<>>
    BY DEF Visited
  <2> HIDE DEF B
  <2>2. Len(s) \in Nat \ {0}
    BY <2>1
  <2> QED
    BY <2>1, <2>2 DEF Last
<1>1. p \in DOMAIN ns /\ IsStop(ns, p) /\ IsPrefix(path, p)
  BY <1>0 DEF Below
<1>2. /\ x \in {After(ns, path), EndStop} =>
             \A q \in DOMAIN ns : IsStop(ns, q) /\ IsPrefix(path, q) => ~Before(p, q)
      /\ x \notin {After(ns, path), EndStop} =>
             /\ IsStop(ns, x) /\ IsPrefix(path, x) /\ Before(p, x)
             /\ \A q \in DOMAIN ns : IsStop(ns, q) /\ Before(p, q) /\ q # x => Before(x, q)
  <2> HIDE DEF p
  <2> QED
    BY <1>1, SubtreeEnd
<1>3. x \in {After(ns, path), EndStop} => ToCome(ns, path, s) = {}
  BY <1>2 DEF ToCome, Below
<1>4. ASSUME x \notin {After(ns, path), EndStop}
      PROVE  /\ Visited(ns, path, r) /\ ToCome(ns, path, r) \subseteq ToCome(ns, path, s)
             /\ x \in ToCome(ns, path, s) /\ x \notin ToCome(ns, path, r)
  <2> HIDE DEF x, p
  <2>1. x \in B /\ Before(p, x) /\ \A q \in B : Before(p, q) /\ q # x => Before(x, q)
    BY <1>2, <1>4 DEF Below, IsStop
  <2>2. \A q \in B : q \in Seq(Chars)
    BY NodeKinds DEF Below
  <2> HIDE DEF B
  <2>3. /\ r \in Seq(B) /\ r # <<>> /\ Len(r) = Len(s) + 1 /\ r[Len(s) + 1] = x /\ Last(r) = x
        /\ \A i \in 1 .. Len(s) : r[i] = s[i]
        /\ DOMAIN r = 1 .. Len(s) + 1
    BY <1>0, <2>1 DEF Last
  <2> HIDE DEF r
  <2>4. ToCome(ns, path, s) = {q \in B : Before(p, q)} /\ ToCome(ns, path, r) = {q \in B : Before(x, q)}
    BY <2>3 DEF ToCome, p, B
  <2>5. \A q \in B : Before(x, q) => Before(p, q)
    BY <1>0, <2>1, <2>2, BeforeFacts
  <2>6. ~Before(x, x)
    BY <2>1, <2>2, BeforeFacts
  <2>7. \A i \in 1 .. Len(s) : Before(s[i], x)
    <3> TAKE i \in 1 .. Len(s)
    <3>1. s[i] \in B /\ (i = Len(s) \/ i < Len(s))
      <4>1. s[i] \in B
        BY <1>0
      <4> DEFINE l == Len(s)
      <4>2. l \in Nat /\ i \in 1 .. l
        BY <1>0
      <4> HIDE DEF l
      <4>3. i = l \/ i < l
        BY <4>2
      <4> QED
        BY <4>1, <4>3 DEF l
    <3>2. i < Len(s) => Before(s[i], p)
      <4>1. Len(s) \in DOMAIN s /\ i \in DOMAIN s
        BY <1>0
      <4>2. i < Len(s) => Before(s[i], s[Len(s)])
        BY <4>1 DEF Visited
      <4> QED
        BY <4>2 DEF p, Last
    <3>3. i = Len(s) => s[i] = p
      BY DEF p, Last
    <3> QED
      BY <1>0, <2>1, <2>2, <3>1, <3>2, <3>3, BeforeFacts
  <2>8. \A i, j \in DOMAIN r : i < j => Before(r[i], r[j])
    <3> SUFFICES ASSUME NEW i \in DOMAIN r, NEW j \in DOMAIN r, i < j
                 PROVE  Before(r[i], r[j])
      OBVIOUS
    <3>1. i \in 1 .. Len(s)
      BY <1>0, <2>3
    <3>2. CASE j = Len(s) + 1
      BY <2>3, <2>7, <3>1, <3>2
    <3>3. CASE j # Len(s) + 1
      <4>1. j \in 1 .. Len(s)
        BY <1>0, <2>3, <3>3
      <4>2. Before(s[i], s[j])
        BY <1>0, <3>1, <4>1 DEF Visited
      <4> QED
        BY <2>3, <3>1, <4>1, <4>2
    <3> QED
      BY <3>2, <3>3
  <2>9. \A q \in B : (\E i \in DOMAIN r : r[i] = q) \/ q \in ToCome(ns, path, r)
    <3> TAKE q \in B
    <3>1. (\E i \in DOMAIN s : s[i] = q) \/ q \in ToCome(ns, path, s)
      BY DEF Visited, B
    <3>2. CASE \E i \in DOMAIN s : s[i] = q
      <4>1. PICK i \in DOMAIN s : s[i] = q
        BY <3>2
      <4>2. i \in DOMAIN r /\ r[i] = q
        BY <1>0, <2>3, <4>1
      <4> QED
        BY <4>2
    <3>3. CASE q = x
      <4>1. Len(s) + 1 \in DOMAIN r
        BY <1>0, <2>3
      <4> QED
        BY <2>3, <3>3, <4>1
    <3>4. CASE q \in ToCome(ns, path, s) /\ q # x
      BY <2>1, <2>4, <3>4
    <3> QED
      BY <3>1, <3>2, <3>3, <3>4
  <2> QED
    BY <2>1, <2>3, <2>4, <2>5, <2>6, <2>8, <2>9 DEF Visited, B
<1> QED
  BY <1>3, <1>4 DEF p, x, r

\* g visits the stops of a subtree one by one.
Visits(ns, path, g) ==
    g = [n \in Nat |-> IF n = 0 THEN <<FirstStop(ns, path)>>
                       ELSE IF NextStop(ns, Last(g[n - 1])) \in {After(ns, path), EndStop} THEN g[n - 1]
                       ELSE Append(g[n - 1], NextStop(ns, Last(g[n - 1])))]

\* An iteration over a subtree visits all its stops, in their order.
LEMMA StopsBelowFacts ==
    ASSUME NEW ns, Tree(ns), NoneEmpty(ns), NEW path \in DOMAIN ns
    PROVE  /\ Visited(ns, path, StopsBelow(ns, path))
           /\ \A q \in Below(ns, path) : \E i \in DOMAIN StopsBelow(ns, path) : StopsBelow(ns, path)[i] = q
<1> DEFINE S == {s \in Seq(Below(ns, path)) : Visited(ns, path, s)}
           Next1(s) == NextStop(ns, Last(s))
           Ends(s) == Next1(s) \in {After(ns, path), EndStop}
           F == [x \in Nat \X S |-> IF Ends(x[2]) THEN x[2] ELSE Append(x[2], Next1(x[2]))]
           first == <<FirstStop(ns, path)>>
           Visit == CHOOSE g : Visits(ns, path, g)
           k == Cardinality(DOMAIN ns)
           Rest(s) == ToCome(ns, path, s)
<1>1. \A s : s \in S <=> Visited(ns, path, s)
  BY DEF Visited
<1> HIDE DEF S
<1>2. first \in S
  <2> DEFINE f == FirstStop(ns, path)
  <2>1. IsStop(ns, f) /\ IsPrefix(path, f) /\ \A q \in DOMAIN ns : IsStop(ns, q) /\ IsPrefix(path, q) /\ q # f => Before(f, q)
    BY FirstStopFacts
  <2> HIDE DEF f
  <2>2. f \in Below(ns, path) /\ \A q \in Below(ns, path) : q # f => Before(f, q)
    BY <2>1 DEF Below, IsStop
  <2>3. <<f>> \in Seq(Below(ns, path)) /\ <<f>> # <<>> /\ DOMAIN <<f>> = {1} /\ <<f>>[1] = f /\ Last(<<f>>) = f
    BY <2>2 DEF Last
  <2>4. \A i, j \in DOMAIN <<f>> : i < j => Before(<<f>>[i], <<f>>[j])
    BY <2>3
  <2>5. Visited(ns, path, <<f>>)
    BY <2>2, <2>3, <2>4 DEF Visited, ToCome
  <2> QED
    BY <1>1, <2>5 DEF f
<1>3. ASSUME NEW s \in S
      PROVE  /\ Ends(s) => Rest(s) = {}
             /\ ~Ends(s) => /\ Append(s, Next1(s)) \in S /\ Rest(Append(s, Next1(s))) \subseteq Rest(s)
                            /\ Next1(s) \in Rest(s) /\ Next1(s) \notin Rest(Append(s, Next1(s)))
  BY <1>1, VisitOneMore
<1>4. \E g : Repeats(g, S, first, F)
  <2>1. F \in [Nat \X S -> S]
    <3> HIDE DEF Ends, Next1
    <3> QED
      BY <1>3
  <2> HIDE DEF F, first
  <2> QED
    BY <1>2, <2>1, Repeated
<1>5. PICK f : Repeats(f, S, first, F)
  BY <1>4
<1>6. f \in [Nat -> S] /\ f[0] = first
      /\ \A n \in Nat : f[n + 1] = IF Ends(f[n]) THEN f[n] ELSE Append(f[n], Next1(f[n]))
  <2> HIDE DEF Ends, Next1, first
  <2> QED
    BY <1>5 DEF Repeats
<1>7. Visits(ns, path, f)
  <2> HIDE DEF first
  <2>1. ASSUME NEW n \in Nat
        PROVE  f[n] = IF n = 0 THEN first
                      ELSE IF Ends(f[n - 1]) THEN f[n - 1] ELSE Append(f[n - 1], Next1(f[n - 1]))
    <3>1. CASE n = 0
      BY <1>6, <3>1
    <3>2. CASE n # 0
      <4> DEFINE m == n - 1
      <4>1. m \in Nat /\ m + 1 = n
        BY <3>2
      <4> HIDE DEF m, Ends, Next1
      <4>2. f[m + 1] = IF Ends(f[m]) THEN f[m] ELSE Append(f[m], Next1(f[m]))
        BY <1>6, <4>1
      <4> QED
        BY <3>2, <4>1, <4>2 DEF m
    <3> QED
      BY <3>1, <3>2
  <2>2. f = [n \in Nat |-> IF n = 0 THEN first
                           ELSE IF Ends(f[n - 1]) THEN f[n - 1] ELSE Append(f[n - 1], Next1(f[n - 1]))]
    <3> HIDE DEF Ends, Next1
    <3> QED
      BY <1>6, <2>1
  <2> QED
    BY <2>2, Zenon DEF Visits, first, Ends, Next1
<1>8. Visits(ns, path, Visit)
  BY <1>7
<1>9. StopsBelow(ns, path) = Visit[k]
  BY DEF StopsBelow, Visits
<1> HIDE DEF Visit, F
<1>10. Visit[0] = first
       /\ \A n \in Nat : Visit[n + 1] = IF Ends(Visit[n]) THEN Visit[n] ELSE Append(Visit[n], Next1(Visit[n]))
  <2>1. \A x \in Nat : Visit[x] = IF x = 0 THEN first
                       ELSE IF Ends(Visit[x - 1]) THEN Visit[x - 1] ELSE Append(Visit[x - 1], Next1(Visit[x - 1]))
    BY <1>8 DEF Visits
  <2> HIDE DEF first, Ends, Next1
  <2>2. ASSUME NEW n \in Nat
        PROVE  Visit[n + 1] = IF Ends(Visit[n]) THEN Visit[n] ELSE Append(Visit[n], Next1(Visit[n]))
    <3> DEFINE x == n + 1
    <3>1. x \in Nat /\ x # 0 /\ x - 1 = n
      OBVIOUS
    <3> HIDE DEF x
    <3>2. Visit[x] = IF x = 0 THEN first
                       ELSE IF Ends(Visit[x - 1]) THEN Visit[x - 1] ELSE Append(Visit[x - 1], Next1(Visit[x - 1]))
      BY <2>1, <3>1
    <3> QED
      BY <3>1, <3>2 DEF x
  <2> QED
    BY <2>1, <2>2
<1> HIDE DEF first, Ends, Next1
<1>11. k \in Nat /\ IsFiniteSet(DOMAIN ns) /\ \A s : IsFiniteSet(Rest(s)) /\ Cardinality(Rest(s)) \in Nat /\ Rest(s) \subseteq DOMAIN ns
  <2>1. IsFiniteSet(DOMAIN ns) /\ \A s : Rest(s) \subseteq DOMAIN ns
    BY DEF Tree, ToCome, Below
  <2>2. \A s : IsFiniteSet(Rest(s))
    <3> HIDE DEF Rest
    <3> QED
      BY <2>1, FS_Subset
  <2> HIDE DEF Rest
  <2> QED
    BY <2>1, <2>2, FS_CardinalityType
<1> HIDE DEF k, Rest
<1> DEFINE Good(n) == Visit[n] \in S /\ (Rest(Visit[n]) = {} \/ Cardinality(Rest(Visit[n])) + n <= k)
           R == {n \in Nat : Good(n)}
<1>12. 0 \in R
  <2>1. Cardinality(Rest(first)) <= k
    BY <1>11, FS_Subset DEF k
  <2>2. Cardinality(Rest(first)) + 0 <= k
    BY <1>11, <2>1
  <2> QED
    BY <1>2, <1>10, <2>2
<1>13. ASSUME NEW n \in Nat, n \in R
       PROVE  n + 1 \in R
  <2> DEFINE s == Visit[n]
             r == Append(s, Next1(s))
  <2>1. s \in S /\ (Rest(s) = {} \/ Cardinality(Rest(s)) + n <= k)
    BY <1>13
  <2> HIDE DEF s
  <2>2. CASE Ends(s)
    <3>1. Visit[n + 1] = s /\ Rest(s) = {}
      BY <1>3, <1>10, <2>1, <2>2 DEF s
    <3> QED
      BY <2>1, <3>1
  <2>3. CASE ~Ends(s)
    <3>1. Visit[n + 1] = r /\ r \in S /\ Rest(r) \subseteq Rest(s) /\ Next1(s) \in Rest(s) /\ Next1(s) \notin Rest(r)
      BY <1>3, <1>10, <2>1, <2>3 DEF s
    <3>2. Rest(s) # {} /\ Rest(r) # Rest(s)
      BY <3>1
    <3> HIDE DEF r
    <3>3. Cardinality(Rest(r)) < Cardinality(Rest(s))
      <4>1. \A T : T \in SUBSET Rest(s) => Cardinality(T) <= Cardinality(Rest(s)) /\ (Cardinality(T) = Cardinality(Rest(s)) => T = Rest(s))
        BY <1>11, FS_Subset
      <4>2. Cardinality(Rest(r)) <= Cardinality(Rest(s)) /\ Cardinality(Rest(r)) # Cardinality(Rest(s))
        BY <3>1, <3>2, <4>1
      <4> QED
        BY <1>11, <4>2
    <3>4. Cardinality(Rest(r)) + (n + 1) <= k
      BY <1>11, <2>1, <3>2, <3>3
    <3> QED
      BY <3>1, <3>4
  <2> QED
    BY <2>2, <2>3
<1>14. Good(k)
  <2>1. \A n \in Nat : n \in R
    <3> HIDE DEF R
    <3> QED
      BY <1>12, <1>13, AllRounds
  <2> QED
    BY <1>11, <2>1
<1> DEFINE s == StopsBelow(ns, path)
<1>15. Visited(ns, path, s) /\ (Rest(s) = {} \/ Cardinality(Rest(s)) + k <= k)
  BY <1>1, <1>9, <1>14
<1> HIDE DEF s
<1>16. Rest(s) = {}
  <2>1. Cardinality(Rest(s)) + k <= k => Cardinality(Rest(s)) = 0
    BY <1>11
  <2> QED
    BY <1>11, <1>15, <2>1, FS_EmptySet
<1>17. \A q \in Below(ns, path) : \E i \in DOMAIN s : s[i] = q
  BY <1>15, <1>16 DEF Visited, Rest
<1> QED
  BY <1>15, <1>17 DEF s

-----------------------------------------------------------------------------
(* Calls that reorganise every table. *)

\* Other tables with the same contents, in the same nodes.
LEMMA TablesKeep ==
    ASSUME NEW ns, Tree(ns), NoneEmpty(ns), NEW m, DOMAIN m = DOMAIN ns,
           \A p \in DOMAIN ns : IsHash(ns, p) =>
               /\ m[p] = HashNode(m[p].table) /\ Sound(m[p].table)
               /\ SameContents(m[p].table, ns[p].table) /\ m[p].table.nb = ns[p].table.nb,
           \A p \in DOMAIN ns : ~IsHash(ns, p) => m[p] = TrieNode(ns[p].value)
    PROVE  /\ Tree(m) /\ NoneEmpty(m)
           /\ \A k, v : Holds(m, k, v) <=> Holds(ns, k, v)
<1>1. \A p \in DOMAIN ns :
          /\ IsHash(m, p) <=> IsHash(ns, p)
          /\ HasValue(m, p) <=> HasValue(ns, p)
          /\ ~IsHash(ns, p) => m[p].value = ns[p].value
  <2> TAKE p \in DOMAIN ns
  <2>1. CASE IsHash(ns, p)
    <3>1. m[p].kind = "hash" /\ m[p].value = NoValue
      <4> DEFINE t == m[p].table
      <4>1. m[p] = HashNode(t)
        BY <2>1
      <4> HIDE DEF t
      <4> QED
        BY <4>1 DEF HashNode
    <3>2. ~HasValue(ns, p)
      BY <2>1, NodeKinds
    <3> QED
      BY <2>1, <3>1, <3>2 DEF IsHash, HasValue
  <2>2. CASE ~IsHash(ns, p)
    <3>1. m[p].kind = "trie" /\ m[p].value = ns[p].value
      BY <2>2 DEF TrieNode
    <3> QED
      BY <2>2, <3>1 DEF IsHash, HasValue
  <2> QED
    BY <2>1, <2>2
<1>2. ASSUME NEW p \in DOMAIN ns
      PROVE  LeafSound(p, m[p]) \/ InnerSound(p, m[p])
  <2>1. CASE IsHash(ns, p)
    <3>1. ASSUME NEW e \in Cells(m[p].table)
          PROVE  e.key \in Seq(Chars) /\ p \o e.key \in ShortKeys
      <4>1. \E v : Maps(m[p].table, e.key, v)
        BY DEF Maps
      <4>2. \E v : Maps(ns[p].table, e.key, v)
        BY <2>1, <4>1 DEF SameContents
      <4>3. PICK f \in Cells(ns[p].table) : f.key = e.key
        BY <4>2 DEF Maps
      <4>4. f.key \in Seq(Chars) /\ p \o f.key \in ShortKeys
        BY <2>1, NodeKinds DEF LeafSound
      <4> QED
        BY <4>3, <4>4
    <3> QED
      BY <2>1, <3>1 DEF LeafSound
  <2>2. CASE ~IsHash(ns, p)
    <3>1. InnerSound(p, ns[p])
      BY <2>2, NodeKinds
    <3>2. m[p] = TrieNode(m[p].value) /\ m[p].value = ns[p].value
      BY <1>1, <2>2
    <3> QED
      BY <3>1, <3>2 DEF InnerSound
  <2> QED
    BY <2>1, <2>2
<1>3. Tree(m)
  <2>1. IsFiniteSet(DOMAIN m) /\ Closed(m)
    BY <1>1 DEF Tree, Closed
  <2> QED
    BY <1>2, <2>1 DEF Tree
<1>4. NoneEmpty(m)
  <2>1. \A p \in DOMAIN ns : Children(m, p) = Children(ns, p)
    BY DEF Children
  <2> QED
    BY <1>1, <2>1 DEF NoneEmpty, IsEmptyNode
<1>5. ASSUME NEW k, NEW v, NEW p \in DOMAIN ns
      PROVE  HoldsAt(m, p, k, v) <=> HoldsAt(ns, p, k, v)
  <2>1. CASE IsHash(ns, p)
    <3>1. Maps(m[p].table, SuffixAfter(k, p), v) <=> Maps(ns[p].table, SuffixAfter(k, p), v)
      BY <2>1 DEF SameContents
    <3> QED
      BY <1>1, <2>1, <3>1 DEF HoldsAt
  <2>2. CASE ~IsHash(ns, p)
    BY <1>1, <2>2 DEF HoldsAt
  <2> QED
    BY <2>1, <2>2
<1> QED
  BY <1>3, <1>4, <1>5 DEF Holds

\* Written and read again, the tree has the same nodes and holds the same.
LEMMA ReloadedKeeps ==
    ASSUME NEW ns, Tree(ns), NoneEmpty(ns)
    PROVE  /\ Tree(Reloaded(ns)) /\ NoneEmpty(Reloaded(ns))
           /\ \A k, v : Holds(Reloaded(ns), k, v) <=> Holds(ns, k, v)
<1> DEFINE stops == IF <<>> \in DOMAIN ns THEN ToSet(StopsBelow(ns, <<>>)) ELSE {}
           m == Reloaded(ns)
<1>1. DOMAIN m = UNION {Prefixes(s) : s \in stops}
      /\ \A p \in DOMAIN m : m[p] = IF IsHash(ns, p) THEN HashNode(Deserialized(ns[p].table)) ELSE TrieNode(ns[p].value)
  BY DEF Reloaded
<1> HIDE DEF m
<1>2. \A q : q \in DOMAIN ns => q \in Seq(Chars)
  BY NodeKinds
<1>3. stops = {q \in DOMAIN ns : IsStop(ns, q)}
  <2>1. CASE <<>> \in DOMAIN ns
    <3> DEFINE s == StopsBelow(ns, <<>>)
    <3>1. Visited(ns, <<>>, s) /\ \A q \in Below(ns, <<>>) : \E i \in DOMAIN s : s[i] = q
      BY <2>1, StopsBelowFacts
    <3> HIDE DEF s
    <3>2. s \in Seq(Below(ns, <<>>))
      BY <3>1 DEF Visited
    <3>3. Below(ns, <<>>) = {q \in DOMAIN ns : IsStop(ns, q)}
      BY <1>2, PrefixOrder DEF Below
    <3>4. ToSet(s) = Below(ns, <<>>)
      <4> DEFINE B == Below(ns, <<>>)
      <4>1. s \in Seq(B) /\ \A q \in B : \E i \in DOMAIN s : s[i] = q
        BY <3>1, <3>2
      <4> HIDE DEF B
      <4> QED
        BY <4>1 DEF ToSet, B
    <3> QED
      BY <2>1, <3>3, <3>4 DEF s
  <2>2. CASE <<>> \notin DOMAIN ns
    <3>1. \A q \in DOMAIN ns : FALSE
      <4> TAKE q \in DOMAIN ns
      <4>1. <<>> \in Seq(Chars) /\ IsPrefix(<<>>, q)
        BY <1>2, PrefixOrder
      <4> QED
        BY <2>2, <4>1, PrefixesThere DEF Tree
    <3> QED
      BY <2>2, <3>1
  <2> QED
    BY <2>1, <2>2
<1> HIDE DEF stops
<1>4. \A s \in stops : \A p : p \in Prefixes(s) => p \in DOMAIN ns
  <2> TAKE s \in stops
  <2> TAKE p
  <2> HAVE p \in Prefixes(s)
  <2>1. PICK i \in 0 .. Len(s) : p = SubSeq(s, 1, i)
    BY DEF Prefixes
  <2>2. s \in DOMAIN ns /\ s \in Seq(Chars)
    BY <1>2, <1>3
  <2>3. p \in Seq(Chars) /\ IsPrefix(p, s)
    BY <2>1, <2>2, CutFacts
  <2> QED
    BY <2>2, <2>3, PrefixesThere DEF Tree
<1>5. \A p \in DOMAIN ns : \E s \in stops : p \in Prefixes(s)
  <2> TAKE p \in DOMAIN ns
  <2> DEFINE s == FirstStop(ns, p)
  <2>1. IsStop(ns, s) /\ IsPrefix(p, s)
    BY FirstStopFacts
  <2> HIDE DEF s
  <2>2. s \in stops /\ s \in Seq(Chars) /\ p \in Seq(Chars)
    BY <1>2, <1>3, <2>1 DEF IsStop
  <2>3. p = SubSeq(s, 1, Len(p)) /\ Len(p) <= Len(s)
    BY <2>1, <2>2, PrefixOrder
  <2>4. Len(p) \in 0 .. Len(s)
    BY <2>2, <2>3
  <2>5. p \in Prefixes(s)
    BY <2>3, <2>4 DEF Prefixes
  <2> QED
    BY <2>2, <2>5
<1>6. DOMAIN m = DOMAIN ns
  BY <1>1, <1>4, <1>5
<1>7. ASSUME NEW p \in DOMAIN ns, IsHash(ns, p)
      PROVE  /\ m[p] = HashNode(m[p].table) /\ Sound(m[p].table)
             /\ SameContents(m[p].table, ns[p].table) /\ m[p].table.nb = ns[p].table.nb
  <2> DEFINE t == ns[p].table
             u == Deserialized(t)
  <2>1. Sound(t)
    BY <1>7, NodeKinds DEF LeafSound
  <2>2. m[p] = HashNode(u)
    BY <1>1, <1>6, <1>7
  <2> HIDE DEF t
  <2>3. Sound(u) /\ SameContents(u, t) /\ u.nb = t.nb
    BY <2>1, DeserializedKeeps
  <2> HIDE DEF u
  <2>4. m[p].table = u
    BY <2>2 DEF HashNode
  <2> QED
    BY <2>2, <2>3, <2>4 DEF t
<1>8. \A p \in DOMAIN ns : ~IsHash(ns, p) => m[p] = TrieNode(ns[p].value)
  BY <1>1, <1>6
<1>9. Tree(m) /\ NoneEmpty(m) /\ \A k, v : Holds(m, k, v) <=> Holds(ns, k, v)
  BY <1>6, <1>7, <1>8, TablesKeep
<1> QED
  BY <1>9 DEF m

\* shrink_to_fit of every table.
LEMMA ShrunkKeeps ==
    ASSUME NEW ns, Tree(ns), NoneEmpty(ns), NEW m,
           m = [p \in DOMAIN ns |-> IF IsHash(ns, p) THEN HashNode(ShrinkToFit(ns[p].table)) ELSE ns[p]]
    PROVE  /\ Tree(m) /\ NoneEmpty(m)
           /\ \A k, v : Holds(m, k, v) <=> Holds(ns, k, v)
<1>1. DOMAIN m = DOMAIN ns
  OBVIOUS
<1>2. ASSUME NEW p \in DOMAIN ns, IsHash(ns, p)
      PROVE  /\ m[p] = HashNode(m[p].table) /\ Sound(m[p].table)
             /\ SameContents(m[p].table, ns[p].table) /\ m[p].table.nb = ns[p].table.nb
  <2> DEFINE t == ns[p].table
             u == ShrinkToFit(t)
  <2>1. Sound(t)
    BY <1>2, NodeKinds DEF LeafSound
  <2>2. m[p] = HashNode(u)
    BY <1>2
  <2>3. t.nb > 0
    <3>1. t.nb # 0
      BY <1>2 DEF NoneEmpty, IsEmptyNode
    <3>2. t \in Tables
      BY <2>1 DEF Sound, Filed
    <3> HIDE DEF t
    <3>3. t.nb \in Nat
      BY <3>2, TableFields
    <3> QED
      BY <3>1, <3>3
  <2> HIDE DEF t
  <2>4. Sound(u) /\ SameContents(u, t) /\ u.nb = t.nb
    BY <2>1, <2>3, ShrinkKeeps
  <2> HIDE DEF u
  <2>5. m[p].table = u
    BY <2>2 DEF HashNode
  <2> QED
    BY <2>2, <2>4, <2>5 DEF t
<1>3. \A p \in DOMAIN ns : ~IsHash(ns, p) => m[p] = TrieNode(ns[p].value)
  <2> TAKE p \in DOMAIN ns
  <2> HAVE ~IsHash(ns, p)
  <2>1. ns[p] = TrieNode(ns[p].value)
    BY NodeKinds DEF InnerSound
  <2>2. m[p] = ns[p]
    OBVIOUS
  <2> QED
    BY <2>1, <2>2
<1> HIDE DEF Sound
<1> QED
  BY <1>1, <1>2, <1>3, TablesKeep

-----------------------------------------------------------------------------
(* The keys with a prefix. *)

\* r lists some short keys, each once.
KeyList(r) == r \in Seq(ShortKeys) /\ \A i, j \in DOMAIN r : r[i] = r[j] => i = j

HeldBelow(ns, prefix, k) == IsPrefix(prefix, k) /\ \E v : Holds(ns, k, v)

\* An element of a table's entries after the path of its node.
LEMMA KeysOfFacts ==
    ASSUME NEW es \in Seq(Entry), Once(es), NEW p \in Seq(Chars),
           \A i \in DOMAIN es : es[i].key \in Seq(Chars) /\ p \o es[i].key \in ShortKeys
    PROVE  /\ KeyList(KeysOf(es, p)) /\ Len(KeysOf(es, p)) = Len(es) /\ DOMAIN KeysOf(es, p) = DOMAIN es
           /\ \A i \in DOMAIN es : KeysOf(es, p)[i] = p \o es[i].key /\ SuffixAfter(KeysOf(es, p)[i], p) = es[i].key
<1> DEFINE r == KeysOf(es, p)
<1>1. DOMAIN es = 1 .. Len(es) /\ Len(es) \in Nat
  OBVIOUS
<1>2. r = [i \in 1 .. Len(es) |-> p \o es[i].key]
  BY <1>1 DEF KeysOf
<1>3. r \in Seq(ShortKeys) /\ Len(r) = Len(es) /\ DOMAIN r = DOMAIN es
  <2>1. \A i \in 1 .. Len(es) : p \o es[i].key \in ShortKeys
    BY <1>1
  <2> QED
    BY <1>1, <1>2, <2>1
<1>4. \A i \in DOMAIN es : r[i] = p \o es[i].key
  BY <1>1, <1>2
<1> HIDE DEF r
<1>5. \A i \in DOMAIN es : SuffixAfter(r[i], p) = es[i].key
  <2> TAKE i \in DOMAIN es
  <2> DEFINE x == es[i].key
  <2>1. x \in Seq(Chars) /\ r[i] = p \o x
    BY <1>4
  <2> HIDE DEF x
  <2>2. SuffixAfter(p \o x, p) = x
    BY <2>1, SuffixFacts
  <2> QED
    BY <2>1, <2>2 DEF x
<1>6. \A i, j \in DOMAIN r : r[i] = r[j] => i = j
  <2> TAKE i, j \in DOMAIN r
  <2> HAVE r[i] = r[j]
  <2>1. es[i].key = es[j].key
    BY <1>3, <1>5
  <2> QED
    BY <1>3, <2>1 DEF Once
<1> QED
  BY <1>3, <1>4, <1>5, <1>6 DEF KeyList, r

\* es lists the entries of a hash node, each once: keys the node maps.
ListsLeaf(p, node, es) ==
    /\ es \in Seq(Entry) /\ Once(es)
    /\ \A i \in DOMAIN es : es[i].key \in Seq(Chars) /\ p \o es[i].key \in ShortKeys /\ es[i] \in Cells(node.table)
    /\ \A e \in Cells(node.table) : \E i \in DOMAIN es : es[i] = e

\* The entries of a hash node are such a list.
LEMMA LeafEntryList ==
    ASSUME NEW p \in Seq(Chars), NEW node, LeafSound(p, node)
    PROVE  ListsLeaf(p, node, Entries(node.table))
<1> DEFINE t == node.table
           es == Entries(t)
<1>1. Sound(t) /\ \A e \in Cells(t) : e.key \in Seq(Chars) /\ p \o e.key \in ShortKeys
  BY DEF LeafSound
<1> HIDE DEF t
<1>2. t.buckets \in Seq(Seq(Entry)) /\ KeysOnce(t) /\ KeysInTheirBuckets(t)
  BY <1>1, TableFields DEF Sound, Filed
<1>3. es \in Seq(Entry) /\ (\A i \in DOMAIN es : es[i] \in Cells(t)) /\ \A e \in Cells(t) : \E i \in DOMAIN es : es[i] = e
  BY <1>2, EntriesAreCells
<1>4. Once(es)
  BY <1>2, EntriesOnce DEF Once
<1> HIDE DEF es
<1>5. \A i \in DOMAIN es : es[i].key \in Seq(Chars) /\ p \o es[i].key \in ShortKeys
  BY <1>1, <1>3
<1>6. es = Entries(node.table)
  BY DEF es, t
<1> QED
  BY <1>3, <1>4, <1>5, <1>6 DEF t, ListsLeaf

\* A path and a suffix.
LEMMA SuffixOf ==
    ASSUME NEW p \in Seq(Chars), NEW s \in Seq(Chars)
    PROVE  IsPrefix(p, p \o s) /\ SuffixAfter(p \o s, p) = s /\ p \o s \in Seq(Chars)
BY SuffixFacts

\* The keys of a leaf are those of its entries.
LEMMA HeldInLeaf ==
    ASSUME NEW ns, Tree(ns), NEW p \in DOMAIN ns, IsHash(ns, p), NEW k \in Seq(Chars)
    PROVE  (\E v : HoldsAt(ns, p, k, v)) <=> \E e \in Cells(ns[p].table) : p \o e.key = k
<1>1. p \in Seq(Chars) /\ LeafSound(p, ns[p])
  BY NodeKinds
<1>2. ASSUME NEW v, HoldsAt(ns, p, k, v)
      PROVE  \E e \in Cells(ns[p].table) : p \o e.key = k
  <2>1. IsPrefix(p, k) /\ Maps(ns[p].table, SuffixAfter(k, p), v)
    BY <1>2 DEF HoldsAt
  <2>2. PICK e \in Cells(ns[p].table) : e.key = SuffixAfter(k, p)
    BY <2>1 DEF Maps
  <2>3. k = p \o SuffixAfter(k, p)
    BY <1>1, <2>1, SuffixFacts
  <2> QED
    BY <2>2, <2>3
<1>3. ASSUME NEW e \in Cells(ns[p].table), p \o e.key = k
      PROVE  HoldsAt(ns, p, k, ns[p].table.values[e.pos])
  <2>1. e.key \in Seq(Chars)
    BY <1>1 DEF LeafSound
  <2> DEFINE x == e.key
  <2>2. IsPrefix(p, k) /\ SuffixAfter(k, p) = e.key
    <3>1. x \in Seq(Chars) /\ p \o x = k
      BY <1>3, <2>1
    <3> HIDE DEF x
    <3>2. IsPrefix(p, p \o x) /\ SuffixAfter(p \o x, p) = x
      BY <1>1, <3>1, SuffixOf
    <3> QED
      BY <3>1, <3>2 DEF x
  <2> QED
    BY <2>2 DEF HoldsAt, Maps
<1> QED
  BY <1>2, <1>3

\* The keys an iterator finds at a stop.
LEMMA KeysAtFacts ==
    ASSUME NEW ns, Tree(ns), NEW p, IsStop(ns, p)
    PROVE  /\ KeyList(KeysAt(ns, p))
           /\ \A k \in Seq(Chars) : (\E i \in DOMAIN KeysAt(ns, p) : KeysAt(ns, p)[i] = k) <=> \E v : HoldsAt(ns, p, k, v)
<1>0. p \in DOMAIN ns /\ p \in Seq(Chars)
  BY NodeKinds DEF IsStop
<1>1. CASE IsHash(ns, p)
  <2> DEFINE node == ns[p]
             es == Entries(node.table)
             r == KeysAt(ns, p)
  <2>1. LeafSound(p, node)
    BY <1>0, <1>1, NodeKinds
  <2>2. /\ es \in Seq(Entry) /\ Once(es)
        /\ \A i \in DOMAIN es : es[i].key \in Seq(Chars) /\ p \o es[i].key \in ShortKeys /\ es[i] \in Cells(node.table)
        /\ \A e \in Cells(node.table) : \E i \in DOMAIN es : es[i] = e
    <3>1. es = Entries(node.table)
      OBVIOUS
    <3> HIDE DEF node, es
    <3> QED
      <4>1. ListsLeaf(p, node, es)
        BY <1>0, <2>1, <3>1, LeafEntryList
      <4> QED
        BY <4>1 DEF ListsLeaf
  <2>3. r = KeysOf(es, p)
    BY <1>1 DEF KeysAt
  <2> HIDE DEF es, r
  <2>4. KeyList(r) /\ DOMAIN r = DOMAIN es /\ \A i \in DOMAIN es : r[i] = p \o es[i].key
    BY <1>0, <2>2, <2>3, KeysOfFacts
  <2>5. \A k \in Seq(Chars) : (\E i \in DOMAIN r : r[i] = k) <=> \E e \in Cells(ns[p].table) : p \o e.key = k
    <3> TAKE k \in Seq(Chars)
    <3>1. ASSUME NEW i \in DOMAIN r, r[i] = k
          PROVE  \E e \in Cells(ns[p].table) : p \o e.key = k
      BY <2>2, <2>4, <3>1
    <3>2. ASSUME NEW e \in Cells(ns[p].table), p \o e.key = k
          PROVE  \E i \in DOMAIN r : r[i] = k
      BY <2>2, <2>4, <3>2
    <3> QED
      BY <3>1, <3>2
  <2>6. \A k \in Seq(Chars) : (\E v : HoldsAt(ns, p, k, v)) <=> \E e \in Cells(ns[p].table) : p \o e.key = k
    BY <1>0, <1>1, HeldInLeaf
  <2> QED
    BY <2>4, <2>5, <2>6 DEF r
<1>2. CASE ~IsHash(ns, p)
  <2>1. KeysAt(ns, p) = <<p>>
    BY <1>2 DEF KeysAt
  <2>2. ns[p].value # NoValue /\ p \in ShortKeys
    BY <1>0, <1>2, NodeKinds DEF IsStop, HasValue, InnerSound
  <2>3. KeyList(<<p>>)
    BY <2>2 DEF KeyList
  <2>4. \A k \in Seq(Chars) : (\E v : HoldsAt(ns, p, k, v)) <=> k = p
    BY <1>2, <2>2 DEF HoldsAt
  <2> QED
    BY <2>1, <2>3, <2>4
<1> QED
  BY <1>1, <1>2

\* An iteration over a subtree finds every key below it, and each once.
LEMMA KeysBelowFacts ==
    ASSUME NEW ns, Tree(ns), NoneEmpty(ns), NEW path \in DOMAIN ns
    PROVE  /\ KeyList(KeysBelow(ns, path))
           /\ \A k \in Seq(Chars) : (\E i \in DOMAIN KeysBelow(ns, path) : KeysBelow(ns, path)[i] = k) <=>
                  \E p \in DOMAIN ns : IsPrefix(path, p) /\ \E v : HoldsAt(ns, p, k, v)
<1> DEFINE stops == StopsBelow(ns, path)
           s == [i \in DOMAIN stops |-> KeysAt(ns, stops[i])]
           r == KeysBelow(ns, path)
           C == CellsUpto(s, Len(s))
<1>1. Visited(ns, path, stops) /\ \A q \in Below(ns, path) : \E i \in DOMAIN stops : stops[i] = q
  BY StopsBelowFacts
<1>2. r = FlattenSeq(s)
  BY DEF KeysBelow
<1> HIDE DEF stops
<1>3. /\ DOMAIN stops = 1 .. Len(stops) /\ Len(stops) \in Nat
      /\ \A i \in DOMAIN stops : stops[i] \in Below(ns, path)
      /\ \A i, j \in DOMAIN stops : i < j => Before(stops[i], stops[j])
  <2>1. stops \in Seq(Below(ns, path)) /\ \A i, j \in DOMAIN stops : i < j => Before(stops[i], stops[j])
    BY <1>1 DEF Visited
  <2> QED
    BY <2>1
<1>4. \A i \in DOMAIN stops : IsStop(ns, stops[i]) /\ stops[i] \in DOMAIN ns /\ stops[i] \in Seq(Chars) /\ IsPrefix(path, stops[i])
  BY <1>3, NodeKinds DEF Below
<1>5. \A i, j \in DOMAIN stops : stops[i] = stops[j] => i = j
  <2> SUFFICES ASSUME NEW i \in DOMAIN stops, NEW j \in DOMAIN stops, stops[i] = stops[j], i # j
               PROVE  FALSE
    OBVIOUS
  <2>1. i < j \/ j < i
    BY <1>3
  <2>2. Before(stops[i], stops[i])
    BY <1>3, <2>1
  <2> QED
    BY <1>4, <2>2, BeforeFacts
<1>6. \A i \in DOMAIN stops : s[i] = KeysAt(ns, stops[i]) /\ KeyList(s[i])
          /\ \A k \in Seq(Chars) : (\E j \in DOMAIN s[i] : s[i][j] = k) <=> \E v : HoldsAt(ns, stops[i], k, v)
  <2> TAKE i \in DOMAIN stops
  <2>1. s[i] = KeysAt(ns, stops[i])
    OBVIOUS
  <2> QED
    BY <1>4, <2>1, KeysAtFacts
<1>7. s \in Seq(Seq(ShortKeys)) /\ Len(s) = Len(stops) /\ DOMAIN s = DOMAIN stops
  <2>1. \A i \in 1 .. Len(stops) : KeysAt(ns, stops[i]) \in Seq(ShortKeys)
    BY <1>3, <1>6 DEF KeyList
  <2> QED
    BY <1>3, <2>1
<1> HIDE DEF s, r
<1>8. PICK m : Lists(ShortKeys, r, s, C, m)
  BY <1>2, <1>7, FlattenLists
<1>9. r \in Seq(ShortKeys) /\ DOMAIN r = 1 .. Len(r)
  BY <1>8 DEF Lists
<1>10. \A i \in DOMAIN r : m[i] \in C /\ r[i] = s[m[i][1]][m[i][2]]
  BY <1>8, <1>9 DEF Lists
<1>11. \A i, j \in DOMAIN r : m[i] = m[j] => i = j
  BY <1>8, <1>9 DEF Lists
<1>12. \A c \in C : \E i \in DOMAIN r : m[i] = c
  BY <1>8, <1>9 DEF Lists
<1>13. \A c \in C : c[1] \in DOMAIN stops /\ c[2] \in DOMAIN s[c[1]] /\ c = <<c[1], c[2]>>
  BY <1>3, <1>7 DEF CellsUpto
<1>14. \A i \in DOMAIN stops : \A j \in DOMAIN s[i] : <<i, j>> \in C
  <2> TAKE i \in DOMAIN stops
  <2> TAKE j \in DOMAIN s[i]
  <2>1. s[i] \in Seq(ShortKeys)
    BY <1>6 DEF KeyList
  <2>2. j \in Nat /\ i \in 1 .. Len(s)
    BY <1>3, <1>7, <2>1
  <2> QED
    BY <2>2 DEF CellsUpto
<1> HIDE DEF C
<1>15. \A i \in DOMAIN r : r[i] \in Seq(Chars) /\ \E v : HoldsAt(ns, stops[m[i][1]], r[i], v)
  <2> TAKE i \in DOMAIN r
  <2>1. r[i] \in Seq(Chars)
    BY <1>9, KeyFacts DEF ShortKeys
  <2> DEFINE a == m[i][1]
             b == m[i][2]
  <2>2. a \in DOMAIN stops /\ b \in DOMAIN s[a] /\ r[i] = s[a][b]
    BY <1>10, <1>13
  <2> HIDE DEF a, b
  <2>3. \E v : HoldsAt(ns, stops[a], r[i], v)
    BY <1>6, <2>1, <2>2
  <2> QED
    BY <2>1, <2>3 DEF a
<1>16. ASSUME NEW i \in DOMAIN r, NEW j \in DOMAIN r, r[i] = r[j]
       PROVE  i = j
  <2> DEFINE a == m[i][1]
             b == m[i][2]
             c == m[j][1]
             d == m[j][2]
  <2>1. /\ m[i] \in C /\ a \in DOMAIN stops /\ b \in DOMAIN s[a] /\ r[i] = s[a][b] /\ m[i] = <<a, b>>
        /\ m[j] \in C /\ c \in DOMAIN stops /\ d \in DOMAIN s[c] /\ r[j] = s[c][d] /\ m[j] = <<c, d>>
    BY <1>10, <1>13
  <2>2. PICK v : HoldsAt(ns, stops[a], r[i], v)
    BY <1>15
  <2>3. PICK w : HoldsAt(ns, stops[c], r[j], w)
    BY <1>15
  <2> HIDE DEF a, b, c, d
  <2>4. r[i] \in Seq(Chars)
    BY <1>15
  <2>5. stops[a] = Stop(ns, r[i]) /\ stops[c] = Stop(ns, r[i])
    <3>1. stops[a] \in DOMAIN ns /\ stops[c] \in DOMAIN ns /\ HoldsAt(ns, stops[c], r[i], w)
      BY <1>4, <1>16, <2>1, <2>3
    <3> QED
      BY <2>2, <2>4, <3>1, HeldAtStop
  <2>6. a = c
    BY <1>5, <2>1, <2>5
  <2>7. b = d
    <3>1. KeyList(s[a])
      BY <1>6, <2>1
    <3>2. b \in DOMAIN s[a] /\ d \in DOMAIN s[a] /\ s[a][b] = s[a][d]
      BY <1>16, <2>1, <2>6
    <3> QED
      BY <3>1, <3>2 DEF KeyList
  <2> QED
    BY <1>11, <2>1, <2>6, <2>7
<1>17. ASSUME NEW k \in Seq(Chars), NEW p \in DOMAIN ns, IsPrefix(path, p), NEW v, HoldsAt(ns, p, k, v)
       PROVE  \E i \in DOMAIN r : r[i] = k
  <2>1. IsStop(ns, p)
    BY <1>17 DEF IsStop, HoldsAt, HasValue
  <2>2. PICK a \in DOMAIN stops : stops[a] = p
    BY <1>1, <1>17, <2>1 DEF Below
  <2>3. PICK b \in DOMAIN s[a] : s[a][b] = k
    BY <1>6, <1>17, <2>2
  <2>4. PICK i \in DOMAIN r : m[i] = <<a, b>>
    BY <1>12, <1>14
  <2> QED
    BY <1>10, <2>3, <2>4
<1>18. ASSUME NEW k \in Seq(Chars), NEW i \in DOMAIN r, r[i] = k
       PROVE  \E p \in DOMAIN ns : IsPrefix(path, p) /\ \E v : HoldsAt(ns, p, k, v)
  <2> DEFINE a == m[i][1]
  <2>1. a \in DOMAIN stops
    BY <1>10, <1>13
  <2>2. \E v : HoldsAt(ns, stops[a], k, v)
    BY <1>15, <1>18
  <2> HIDE DEF a
  <2> QED
    BY <1>4, <2>1, <2>2
<1>19. KeyList(r)
  BY <1>9, <1>16 DEF KeyList
<1> QED
  BY <1>17, <1>18, <1>19 DEF r

\* A key with a prefix is held below the stop of the prefix, or there.
LEMMA HeldWithPrefix ==
    ASSUME NEW ns, Tree(ns), NEW prefix \in Seq(Chars), NEW q \in DOMAIN ns, NEW k \in Seq(Chars), NEW v,
           HoldsAt(ns, q, k, v), IsPrefix(prefix, k)
    PROVE  IsPrefix(Stop(ns, prefix), q) /\ (Stop(ns, prefix) # prefix => q = Stop(ns, prefix))
<1> DEFINE p == Stop(ns, prefix)
<1>1. /\ p \in Seq(Chars) /\ IsPrefix(p, prefix)
      /\ p = prefix \/ p \notin DOMAIN ns \/ IsHash(ns, p)
      /\ \A r \in Seq(Chars) : IsPrefix(r, p) /\ r # p => r \in DOMAIN ns /\ ~IsHash(ns, r)
  BY StopFacts DEF Tree
<1> HIDE DEF p
<1>2. q \in Seq(Chars) /\ IsPrefix(q, k) /\ (~IsHash(ns, q) => q = k)
  BY NodeKinds, PrefixOrder DEF HoldsAt
<1>3. IsPrefix(p, k)
  BY <1>1, PrefixChain
<1>4. IsPrefix(p, q) \/ IsPrefix(q, p)
  <2>1. Len(p) <= Len(q) \/ Len(q) <= Len(p)
    BY <1>1, <1>2
  <2> QED
    BY <1>1, <1>2, <1>3, <2>1, PrefixChain
<1>5. CASE IsPrefix(p, q)
  <2>1. p \in DOMAIN ns /\ (p # q => ~IsHash(ns, p))
    BY <1>1, <1>5, PrefixesThere DEF Tree
  <2> QED
    BY <1>1, <1>5, <2>1 DEF p
<1>6. CASE IsPrefix(q, p) /\ q # p
  <2>1. q = k
    BY <1>1, <1>2, <1>6
  <2> QED
    BY <1>1, <1>3, <1>6, <2>1, PrefixOrder
<1>7. CASE q = p
  BY <1>1, <1>7, PrefixOrder DEF p
<1> QED
  BY <1>4, <1>5, <1>6, <1>7

\* The entries of the node of p that the prefix filter lets through.
Kept(ns, p, prefix) ==
    LET es == Entries(ns[p].table) IN Only[es][{i \in DOMAIN es : IsPrefix(prefix, p \o es[i].key)}]

\* equal_prefix_range in a hash node above the end of the prefix.
LEMMA TableHits ==
    ASSUME NEW ns, Tree(ns), NEW prefix \in Seq(Chars), NEW p, p = Stop(ns, prefix), IsHash(ns, p), p # prefix,
           NEW kept, kept = Kept(ns, p, prefix)
    PROVE  /\ PrefixHits(ns, prefix) = KeysOf(kept, p)
           /\ kept \in Seq(Entry) /\ Once(kept)
           /\ \A j \in DOMAIN kept : kept[j].key \in Seq(Chars) /\ p \o kept[j].key \in ShortKeys
                                     /\ kept[j] \in Cells(ns[p].table) /\ IsPrefix(prefix, p \o kept[j].key)
           /\ \A e \in Cells(ns[p].table) : IsPrefix(prefix, p \o e.key) => \E j \in DOMAIN kept : kept[j] = e
<1>1. p \in DOMAIN ns /\ p \in Seq(Chars) /\ LeafSound(p, ns[p])
  BY NodeKinds DEF IsHash
<1>2. PrefixHits(ns, prefix) = KeysOf(kept, p)
  BY <1>1 DEF PrefixHits, Kept
<1> DEFINE es == Entries(ns[p].table)
<1>3. /\ es \in Seq(Entry) /\ Once(es)
      /\ \A i \in DOMAIN es : es[i].key \in Seq(Chars) /\ p \o es[i].key \in ShortKeys /\ es[i] \in Cells(ns[p].table)
      /\ \A e \in Cells(ns[p].table) : \E i \in DOMAIN es : es[i] = e
  <2> DEFINE node == ns[p]
             fs == Entries(node.table)
  <2>1. p \in Seq(Chars) /\ LeafSound(p, node)
    BY <1>1
  <2>a. fs = Entries(node.table)
    OBVIOUS
  <2> HIDE DEF node, fs
  <2>2. /\ fs \in Seq(Entry) /\ Once(fs)
        /\ \A i \in DOMAIN fs : fs[i].key \in Seq(Chars) /\ p \o fs[i].key \in ShortKeys /\ fs[i] \in Cells(node.table)
        /\ \A e \in Cells(node.table) : \E i \in DOMAIN fs : fs[i] = e
    <3>1. ListsLeaf(p, node, fs)
      BY <2>1, <2>a, LeafEntryList
    <3> QED
      BY <3>1 DEF ListsLeaf
  <2> QED
    BY <2>2 DEF node, fs
<1> DEFINE I == {i \in DOMAIN es : IsPrefix(prefix, p \o es[i].key)}
<1>4. I \in SUBSET DOMAIN es /\ kept = Only[es][I]
  BY DEF Kept
<1> HIDE DEF es
<1>5. \A i \in DOMAIN es : i \in I <=> IsPrefix(prefix, p \o es[i].key)
  OBVIOUS
<1> HIDE DEF I
<1>6. /\ kept \in Seq(Entry)
      /\ \A j \in DOMAIN kept : \E i \in I : kept[j] = es[i]
      /\ \A i \in I : \E j \in DOMAIN kept : kept[j] = es[i]
      /\ Once(kept)
  BY <1>3, <1>4, OnlyFacts
<1>7. \A j \in DOMAIN kept : kept[j].key \in Seq(Chars) /\ p \o kept[j].key \in ShortKeys
                             /\ kept[j] \in Cells(ns[p].table) /\ IsPrefix(prefix, p \o kept[j].key)
  <2> TAKE j \in DOMAIN kept
  <2>1. PICK i \in I : kept[j] = es[i]
    BY <1>6
  <2>2. i \in DOMAIN es /\ IsPrefix(prefix, p \o es[i].key)
    BY <1>4, <1>5
  <2> QED
    BY <1>3, <2>1, <2>2
<1>8. ASSUME NEW e \in Cells(ns[p].table), IsPrefix(prefix, p \o e.key)
      PROVE  \E j \in DOMAIN kept : kept[j] = e
  <2>1. PICK i \in DOMAIN es : es[i] = e
    BY <1>3
  <2>2. i \in I
    BY <1>5, <1>8, <2>1
  <2> QED
    BY <1>6, <2>1, <2>2
<1> QED
  BY <1>2, <1>6, <1>7, <1>8

\* equal_prefix_range lists the keys with the prefix, each once.
LEMMA PrefixHitsFacts ==
    ASSUME NEW ns, Tree(ns), NoneEmpty(ns), NEW prefix \in Seq(Chars)
    PROVE  /\ KeyList(PrefixHits(ns, prefix))
           /\ \A k \in Seq(Chars) :
                  (\E i \in DOMAIN PrefixHits(ns, prefix) : PrefixHits(ns, prefix)[i] = k) <=> HeldBelow(ns, prefix, k)
<1> DEFINE p == Stop(ns, prefix)
           r == PrefixHits(ns, prefix)
<1>1. /\ p \in Seq(Chars) /\ IsPrefix(p, prefix)
      /\ p = prefix \/ p \notin DOMAIN ns \/ IsHash(ns, p)
  BY StopFacts DEF Tree
<1>2. \A q \in DOMAIN ns : \A k \in Seq(Chars) : \A v : HoldsAt(ns, q, k, v) /\ IsPrefix(prefix, k) =>
          IsPrefix(p, q) /\ (p # prefix => q = p)
  BY HeldWithPrefix
<1>3. \A q \in DOMAIN ns : q \in Seq(Chars)
  BY NodeKinds
<1>4. CASE p \notin DOMAIN ns
  <2>1. r = <<>>
    BY <1>4 DEF PrefixHits
  <2>2. KeyList(<<>>)
    BY DEF KeyList
  <2> HIDE DEF p, r
  <2>3. ASSUME NEW k \in Seq(Chars), HeldBelow(ns, prefix, k)
        PROVE  FALSE
    <3>1. PICK q \in DOMAIN ns : \E v : HoldsAt(ns, q, k, v)
      BY <2>3 DEF HeldBelow, Holds
    <3>2. IsPrefix(p, q)
      BY <1>2, <2>3, <3>1 DEF HeldBelow
    <3> QED
      BY <1>1, <1>3, <1>4, <3>2, PrefixesThere DEF Tree
  <2> QED
    BY <2>1, <2>2, <2>3 DEF r
<1>5. CASE p \in DOMAIN ns /\ p = prefix
  <2>1. r = KeysBelow(ns, prefix)
    BY <1>5 DEF PrefixHits
  <2>2. /\ KeyList(r)
        /\ \A k \in Seq(Chars) : (\E i \in DOMAIN r : r[i] = k) <=>
               \E q \in DOMAIN ns : IsPrefix(prefix, q) /\ \E v : HoldsAt(ns, q, k, v)
    BY <1>5, <2>1, KeysBelowFacts
  <2> HIDE DEF p, r
  <2>3. ASSUME NEW k \in Seq(Chars)
        PROVE  (\E q \in DOMAIN ns : IsPrefix(prefix, q) /\ \E v : HoldsAt(ns, q, k, v)) <=> HeldBelow(ns, prefix, k)
    <3>1. ASSUME NEW q \in DOMAIN ns, IsPrefix(prefix, q), NEW v, HoldsAt(ns, q, k, v)
          PROVE  HeldBelow(ns, prefix, k)
      <4>1. IsPrefix(q, k)
        BY <3>1, PrefixOrder DEF HoldsAt
      <4>2. IsPrefix(prefix, k)
        BY <1>3, <3>1, <4>1, PrefixChain
      <4> QED
        BY <3>1, <4>2 DEF HeldBelow, Holds
    <3>2. ASSUME HeldBelow(ns, prefix, k)
          PROVE  \E q \in DOMAIN ns : IsPrefix(prefix, q) /\ \E v : HoldsAt(ns, q, k, v)
      <4>1. PICK q \in DOMAIN ns : \E v : HoldsAt(ns, q, k, v)
        BY <3>2 DEF HeldBelow, Holds
      <4>2. IsPrefix(prefix, q)
        BY <1>2, <1>5, <3>2, <4>1 DEF HeldBelow
      <4> QED
        BY <4>1, <4>2
    <3> QED
      BY <3>1, <3>2
  <2> QED
    BY <2>2, <2>3 DEF r
<1>6. CASE p \in DOMAIN ns /\ p # prefix
  <2> DEFINE t == ns[p].table
             kept == Kept(ns, p, prefix)
  <2>1. IsHash(ns, p)
    BY <1>1, <1>6
  <2>0. p = Stop(ns, prefix) /\ kept = Kept(ns, p, prefix)
    OBVIOUS
  <2> HIDE DEF p, kept
  <2>2. /\ r = KeysOf(kept, p)
        /\ kept \in Seq(Entry) /\ Once(kept)
        /\ \A j \in DOMAIN kept : kept[j].key \in Seq(Chars) /\ p \o kept[j].key \in ShortKeys
                                  /\ kept[j] \in Cells(t) /\ IsPrefix(prefix, p \o kept[j].key)
        /\ \A e \in Cells(t) : IsPrefix(prefix, p \o e.key) => \E j \in DOMAIN kept : kept[j] = e
    BY <1>6, <2>0, <2>1, TableHits
  <2> HIDE DEF r
  <2>3. KeyList(r) /\ DOMAIN r = DOMAIN kept /\ \A j \in DOMAIN kept : r[j] = p \o kept[j].key
    BY <1>1, <2>2, KeysOfFacts
  <2>4. \A k \in Seq(Chars) : (\E v : HoldsAt(ns, p, k, v)) <=> \E e \in Cells(t) : p \o e.key = k
    BY <1>6, <2>1, HeldInLeaf
  <2> HIDE DEF t
  <2>5. ASSUME NEW k \in Seq(Chars)
        PROVE  (\E i \in DOMAIN r : r[i] = k) <=> HeldBelow(ns, prefix, k)
    <3>1. ASSUME NEW i \in DOMAIN r, r[i] = k
          PROVE  HeldBelow(ns, prefix, k)
      <4>1. kept[i] \in Cells(t) /\ p \o kept[i].key = k /\ IsPrefix(prefix, k)
        BY <2>2, <2>3, <3>1
      <4>2. \E v : HoldsAt(ns, p, k, v)
        BY <2>4, <4>1
      <4> QED
        BY <1>6, <4>1, <4>2 DEF HeldBelow, Holds
    <3>2. ASSUME HeldBelow(ns, prefix, k)
          PROVE  \E i \in DOMAIN r : r[i] = k
      <4>1. PICK q \in DOMAIN ns : \E v : HoldsAt(ns, q, k, v)
        BY <3>2 DEF HeldBelow, Holds
      <4>2. q = p
        BY <1>2, <1>6, <3>2, <4>1 DEF HeldBelow
      <4>3. PICK e \in Cells(t) : p \o e.key = k
        BY <2>4, <4>1, <4>2
      <4>4. PICK j \in DOMAIN kept : kept[j] = e
        BY <2>2, <3>2, <4>3 DEF HeldBelow
      <4> QED
        BY <2>3, <4>3, <4>4
    <3> QED
      BY <3>1, <3>2
  <2> QED
    BY <2>3, <2>5 DEF r
<1> QED
  BY <1>4, <1>5, <1>6

-----------------------------------------------------------------------------
(* erase_prefix in a hash node. *)

\* Erasing keys one after the other takes out their entries and nothing else.
LEMMA WithoutKeysKeeps ==
    ASSUME NEW t, Sound(t), NEW p, NEW keys, NEW K, keys \in Seq(K), NEW suf, suf = [i \in DOMAIN keys |-> SuffixAfter(keys[i], p)],
           \A i \in DOMAIN keys : suf[i] \in DOMAIN Hash /\ Has(t, suf[i]),
           \A i, j \in DOMAIN keys : suf[i] = suf[j] => i = j
    PROVE  /\ Sound(WithoutKeys(t, keys, p)) /\ WithoutKeys(t, keys, p).nb = t.nb - Len(keys)
           /\ \A q, w : Maps(WithoutKeys(t, keys, p), q, w) <=> Maps(t, q, w) /\ \A i \in DOMAIN keys : q # suf[i]
<1> DEFINE k == Len(keys)
           S == {u \in Tables : Sound(u)}
           F == [x \in Nat \X S |-> IF x[1] + 1 \in DOMAIN keys /\ Has(x[2], suf[x[1] + 1])
                                    THEN EraseKey(x[2], suf[x[1] + 1]) ELSE x[2]]
           Is(g) == g = [n \in 0 .. k |-> IF n = 0 THEN t ELSE EraseKey(g[n - 1], SuffixAfter(keys[n], p))]
           Left == CHOOSE g : Is(g)
<1>0. k \in Nat /\ DOMAIN keys = 1 .. k /\ \A i \in 1 .. k : suf[i] = SuffixAfter(keys[i], p)
  OBVIOUS
<1> HIDE DEF k
<1>1. \A u : u \in S <=> Sound(u)
  BY DEF Sound, Filed
<1> HIDE DEF S
<1>2. \A u \in S : \A x \in DOMAIN Hash :
          /\ Has(u, x) <=> \E v : Maps(u, x, v)
          /\ Has(u, x) => /\ EraseKey(u, x) \in S /\ EraseKey(u, x).nb = u.nb - 1
                          /\ \A q, w : Maps(EraseKey(u, x), q, w) <=> Maps(u, q, w) /\ q # x
  <2> TAKE u \in S
  <2> TAKE x \in DOMAIN Hash
  <2>1. Sound(u)
    BY <1>1
  <2>2. Has(u, x) <=> \E v : Maps(u, x, v)
    <3>1. Has(u, x) <=> \E e \in Cells(u) : e.key = x
      BY <2>1, LookupFacts DEF Sound
    <3> QED
      BY <3>1 DEF Maps
  <2>3. Has(u, x) => /\ Sound(EraseKey(u, x)) /\ EraseKey(u, x).nb = u.nb - 1
                     /\ \A q, w : Maps(EraseKey(u, x), q, w) <=> Maps(u, q, w) /\ q # x
    BY <2>1, EraseKeeps
  <2> QED
    BY <1>1, <2>2, <2>3
<1>3. \E f : Repeats(f, S, t, F)
  <2>1. F \in [Nat \X S -> S]
    <3>1. ASSUME NEW n \in Nat, NEW u \in S, n + 1 \in DOMAIN keys, Has(u, suf[n + 1])
          PROVE  EraseKey(u, suf[n + 1]) \in S
      BY <1>2, <3>1
    <3> QED
      BY <3>1
  <2>2. t \in S
    BY <1>1
  <2> HIDE DEF F
  <2> QED
    BY <2>1, <2>2, Repeated
<1>4. PICK f : Repeats(f, S, t, F)
  BY <1>3
<1>5. f \in [Nat -> S] /\ f[0] = t
      /\ \A n \in Nat : f[n + 1] = IF n + 1 \in DOMAIN keys /\ Has(f[n], suf[n + 1])
                                   THEN EraseKey(f[n], suf[n + 1]) ELSE f[n]
  BY <1>4 DEF Repeats
<1> HIDE DEF F
<1> DEFINE Gone(n) == /\ f[n].nb = t.nb - n
                      /\ \A q, w : Maps(f[n], q, w) <=> Maps(t, q, w) /\ \A i \in 1 .. n : q # suf[i]
           R == {n \in 0 .. k : Gone(n)}
<1>6. t.nb \in Nat
  BY TableFields DEF Sound, Filed
<1>7. ASSUME NEW n \in 0 .. k - 1, Gone(n)
      PROVE  f[n + 1] = EraseKey(f[n], suf[n + 1]) /\ Gone(n + 1)
  <2> DEFINE m == n + 1
             u == f[n]
             x == suf[m]
  <2>1. n \in Nat /\ m \in Nat /\ m \in 1 .. k /\ m \in DOMAIN keys /\ u \in S /\ x \in DOMAIN Hash
    <3>1. n \in Nat /\ m \in Nat /\ m \in 1 .. k
      BY <1>0
    <3>2. u \in S
      BY <1>5, <3>1
    <3> HIDE DEF m
    <3>3. m \in DOMAIN keys
      BY <1>0, <3>1
    <3> QED
      BY <3>1, <3>2, <3>3
  <2>2. \A i \in 1 .. n : x # suf[i]
    <3> TAKE i \in 1 .. n
    <3>1. i \in DOMAIN keys /\ i # m
      BY <1>0
    <3> QED
      BY <2>1, <3>1
  <2>3. PICK v : Maps(t, x, v)
    <3>1. Has(t, x) /\ t \in S
      BY <1>1, <2>1
    <3> QED
      BY <1>2, <2>1, <3>1
  <2>4. Maps(u, x, v)
    BY <1>7, <2>2, <2>3
  <2>5. Has(u, x)
    BY <1>2, <2>1, <2>4
  <2>6. f[m] = EraseKey(u, x)
    BY <1>5, <2>1, <2>5
  <2>7. \A i : i \in 1 .. m <=> i \in 1 .. n \/ i = m
    BY <2>1
  <2> HIDE DEF m, u, x
  <2>8. f[m].nb = u.nb - 1 /\ \A q, w : Maps(f[m], q, w) <=> Maps(u, q, w) /\ q # x
    BY <1>2, <2>1, <2>5, <2>6
  <2>9. f[m].nb = t.nb - m
    <3>1. u.nb = t.nb - n
      BY <1>7 DEF u
    <3> DEFINE a == t.nb
               b == u.nb
               c == f[m].nb
    <3>2. a \in Nat /\ b = a - n /\ c = b - 1
      BY <1>6, <2>8, <3>1
    <3> HIDE DEF a, b, c
    <3>3. c = a - m
      BY <2>1, <3>2 DEF m
    <3> QED
      BY <3>3 DEF a, c
  <2>10. \A q, w : Maps(f[m], q, w) <=> Maps(t, q, w) /\ \A i \in 1 .. m : q # suf[i]
    <3>1. \A q, w : Maps(u, q, w) <=> Maps(t, q, w) /\ \A i \in 1 .. n : q # suf[i]
      BY <1>7 DEF u
    <3> TAKE q, w
    <3>2. Maps(u, q, w) <=> Maps(t, q, w) /\ \A i \in 1 .. n : q # suf[i]
      BY <3>1
    <3>3. Maps(f[m], q, w) <=> Maps(u, q, w) /\ q # suf[m]
      BY <2>8 DEF x
    <3>4. (\A i \in 1 .. m : q # suf[i]) <=> (\A i \in 1 .. n : q # suf[i]) /\ q # suf[m]
      BY <2>7, Zenon
    <3> QED
      BY <3>2, <3>3, <3>4
  <2> QED
    BY <2>6, <2>9, <2>10 DEF m, u, x
<1>8. \A n \in 0 .. k : Gone(n)
  <2>1. 0 \in R
    <3>1. f[0].nb = t.nb - 0
      BY <1>5, <1>6
    <3>2. \A q, w : Maps(f[0], q, w) <=> Maps(t, q, w) /\ \A i \in 1 .. 0 : q # suf[i]
      <4>1. \A i \in 1 .. 0 : FALSE
        OBVIOUS
      <4>2. f[0] = t
        BY <1>5
      <4> QED
        BY <4>1, <4>2, Zenon
    <3> QED
      BY <1>0, <3>1, <3>2
  <2>2. ASSUME NEW n \in 0 .. k - 1, n \in R
        PROVE  n + 1 \in R
    <3>1. Gone(n)
      <4> HIDE DEF Gone
      <4> QED
        BY <2>2
    <3>2. n + 1 \in 0 .. k
      BY <1>0
    <3> HIDE DEF Gone
    <3> QED
      BY <1>7, <3>1, <3>2
  <2> HIDE DEF R
  <2>3. \A n \in 0 .. k : n \in R
    BY <1>0, <2>1, <2>2, Rounds
  <2> QED
    BY <2>3 DEF R
<1>9. \A n \in 0 .. k - 1 : n \in 0 .. k /\ f[n + 1] = EraseKey(f[n], suf[n + 1])
  <2> TAKE n \in 0 .. k - 1
  <2>1. n \in 0 .. k
    BY <1>0
  <2>2. Gone(n)
    BY <1>8, <2>1
  <2> HIDE DEF Gone
  <2> QED
    BY <1>7, <2>1, <2>2
<1> HIDE DEF Gone
<1>10. \A n \in 1 .. k : f[n] = EraseKey(f[n - 1], SuffixAfter(keys[n], p))
  <2> TAKE n \in 1 .. k
  <2> DEFINE m == n - 1
  <2>1. m \in 0 .. k - 1 /\ m + 1 = n
    BY <1>0
  <2> HIDE DEF m
  <2>2. f[m + 1] = EraseKey(f[m], suf[m + 1])
    BY <1>9, <2>1
  <2> QED
    BY <1>0, <2>1, <2>2 DEF m
<1>11. Is([n \in 0 .. k |-> f[n]])
  <2> DEFINE g == [n \in 0 .. k |-> f[n]]
  <2>1. \A n \in 0 .. k : n # 0 => n \in 1 .. k /\ g[n - 1] = f[n - 1]
    BY <1>0
  <2>2. \A n \in 0 .. k : g[n] = f[n]
    OBVIOUS
  <2>3. \A n \in 0 .. k : f[n] = IF n = 0 THEN t ELSE EraseKey(g[n - 1], SuffixAfter(keys[n], p))
    <3> HIDE DEF g
    <3> QED
      BY <1>5, <1>10, <2>1
  <2>4. g = [n \in 0 .. k |-> IF n = 0 THEN t ELSE EraseKey(g[n - 1], SuffixAfter(keys[n], p))]
    BY <2>3, Zenon
  <2> QED
    BY <2>4
<1>12. Is(Left)
  <2> HIDE DEF Is
  <2> QED
    BY <1>11
<1>13. WithoutKeys(t, keys, p) = Left[k]
  BY DEF WithoutKeys, k
<1> HIDE DEF Left
<1>14. Left[k] = f[k]
  <2>1. \A i \in 0 .. k : Left[i] = IF i = 0 THEN t ELSE EraseKey(Left[i - 1], SuffixAfter(keys[i], p))
    BY <1>12
  <2> DEFINE E == {n \in 0 .. k : Left[n] = f[n]}
  <2>2. 0 \in E
    BY <1>0, <1>5, <2>1
  <2>3. ASSUME NEW n \in 0 .. k - 1, n \in E
        PROVE  n + 1 \in E
    <3> DEFINE i == n + 1
    <3>1. i \in 1 .. k /\ i - 1 = n /\ i \in 0 .. k /\ i # 0
      BY <1>0
    <3> HIDE DEF i
    <3>2. Left[i] = EraseKey(Left[i - 1], SuffixAfter(keys[i], p))
      BY <2>1, <3>1
    <3>3. f[i] = EraseKey(f[i - 1], SuffixAfter(keys[i], p))
      BY <1>10, <3>1
    <3>4. Left[n] = f[n]
      BY <2>3
    <3>5. Left[i] = f[i]
      BY <3>1, <3>2, <3>3, <3>4
    <3> QED
      BY <3>1, <3>5 DEF i
  <2> HIDE DEF E
  <2>4. \A n \in 0 .. k : n \in E
    BY <1>0, <2>2, <2>3, Rounds
  <2> QED
    BY <1>0, <2>4 DEF E
<1>15. Gone(k) /\ f[k] \in S
  BY <1>0, <1>5, <1>8
<1> DEFINE u == WithoutKeys(t, keys, p)
<1>16. u = f[k]
  BY <1>13, <1>14
<1> HIDE DEF u, Is
<1>17. Sound(u) /\ u.nb = t.nb - k /\ \A q, w : Maps(u, q, w) <=> Maps(t, q, w) /\ \A i \in DOMAIN keys : q # suf[i]
  BY <1>0, <1>1, <1>15, <1>16 DEF Gone
<1> QED
  BY <1>17 DEF u, k

-----------------------------------------------------------------------------
(* What the calls do to the keys. *)

Sets(ns, m, k, v) == \A q \in Keys : Find(m, q) = IF q = k THEN v ELSE Find(ns, q)

Drops(ns, m, D) == \A q \in Keys : Find(m, q) = IF q \in D THEN NoValue ELSE Find(ns, q)

Same(ns, m) == \A q \in Keys : Find(m, q) = Find(ns, q)

\* What is found is what is held.
LEMMA FoundIsHeld ==
    ASSUME NEW ns, Tree(ns), NEW m, Tree(m), NEW q \in Keys
    PROVE  /\ (\A w : Holds(m, q, w) <=> Holds(ns, q, w)) => Find(m, q) = Find(ns, q)
           /\ \A v : Holds(m, q, v) => Find(m, q) = v
           /\ (\A w : ~Holds(m, q, w)) => Find(m, q) = NoValue
           /\ Find(m, q) # NoValue <=> \E v : Holds(m, q, v)
<1> DEFINE a == Find(ns, q)
           b == Find(m, q)
<1>1. \A v : (a = v /\ v # NoValue) <=> Holds(ns, q, v)
  BY FindFacts
<1>2. \A v : (b = v /\ v # NoValue) <=> Holds(m, q, v)
  BY FindFacts
<1> HIDE DEF a, b
<1>3. (\A w : Holds(m, q, w) <=> Holds(ns, q, w)) => b = a
  BY <1>1, <1>2
<1>4. \A v : Holds(m, q, v) => b = v
  BY <1>2
<1>5. (\A w : ~Holds(m, q, w)) => b = NoValue
  BY <1>2
<1>6. b # NoValue <=> \E v : Holds(m, q, v)
  BY <1>2
<1> QED
  BY <1>3, <1>4, <1>5, <1>6 DEF a, b

\* A table with keys that may be below p is a leaf at p.
LEMMA LeafOf ==
    ASSUME NEW p \in Seq(Chars), NEW t, Sound(t),
           \A x, w : Maps(t, x, w) => x \in Seq(Chars) /\ p \o x \in ShortKeys
    PROVE  LeafSound(p, HashNode(t))
<1>1. HashNode(t).table = t
  BY DEF HashNode
<1>2. \A e \in Cells(t) : e.key \in Seq(Chars) /\ p \o e.key \in ShortKeys
  BY DEF Maps
<1> QED
  BY <1>1, <1>2 DEF LeafSound

\* The keys of a leaf are short.
LEMMA LeafKeys ==
    ASSUME NEW p \in Seq(Chars), NEW node, LeafSound(p, node), NEW x, NEW w, Maps(node.table, x, w)
    PROVE  x \in Seq(Chars) /\ p \o x \in ShortKeys
  BY DEF Maps, LeafSound

\* A key below p and its suffix.
LEMMA OneSuffix ==
    ASSUME NEW p \in Seq(Chars), NEW k \in Seq(Chars), IsPrefix(p, k)
    PROVE  /\ SuffixAfter(k, p) \in Seq(Chars) /\ p \o SuffixAfter(k, p) = k
           /\ \A q \in Seq(Chars) : IsPrefix(p, q) /\ SuffixAfter(q, p) = SuffixAfter(k, p) => q = k
<1>1. \A q \in Seq(Chars) : IsPrefix(p, q) => q = p \o SuffixAfter(q, p) /\ SuffixAfter(q, p) \in Seq(Chars)
  BY SuffixFacts
<1> QED
  BY <1>1

\* Where an insertion may change the tree.
LEMMA Placed ==
    ASSUME NEW ns, Tree(ns), NEW k \in Keys, NEW p, p = Stop(ns, k)
    PROVE  /\ p \in Seq(Chars) /\ IsPrefix(p, k) /\ k \in Seq(Chars)
           /\ p \in DOMAIN ns \/ p = <<>> \/ (Front(p) \in DOMAIN ns /\ ~IsHash(ns, Front(p)))
           /\ p \in DOMAIN ns /\ ~IsHash(ns, p) => p = k
           /\ \A v : Holds(ns, k, v) <=> p \in DOMAIN ns /\ HoldsAt(ns, p, k, v)
<1>1. k \in Seq(Chars)
  BY KeyFacts
<1>2. /\ p \in Seq(Chars) /\ IsPrefix(p, k)
      /\ p = k \/ p \notin DOMAIN ns \/ IsHash(ns, p)
      /\ \A q \in Seq(Chars) : IsPrefix(q, p) /\ q # p => q \in DOMAIN ns /\ ~IsHash(ns, q)
  BY <1>1, StopFacts DEF Tree
<1>3. ASSUME p # <<>>
      PROVE  Front(p) \in DOMAIN ns /\ ~IsHash(ns, Front(p))
  <2>1. Front(p) \in Seq(Chars) /\ IsPrefix(Front(p), p) /\ Front(p) # p
    <3>1. Front(p) \in Seq(Chars) /\ IsPrefix(Front(p), p) /\ Len(Front(p)) = Len(p) - 1 /\ Len(p) \in Nat
      BY <1>2, <1>3, FrontFacts
    <3> QED
      BY <3>1
  <2> QED
    BY <1>2, <2>1
<1>4. \A v : Holds(ns, k, v) <=> p \in DOMAIN ns /\ HoldsAt(ns, p, k, v)
  BY <1>1, HeldAtStop DEF Holds
<1> QED
  BY <1>1, <1>2, <1>3, <1>4

\* A node that gives k the value v and leaves the other keys of its node alone.
LEMMA NodeSets ==
    ASSUME NEW ns, Tree(ns), NoneEmpty(ns), NEW k \in Keys, NEW v, NEW p, p = Stop(ns, k),
           NEW node, LeafSound(p, node) \/ InnerSound(p, node),
           p \notin DOMAIN ns \/ IsHash(ns, p) \/ node.kind # "hash",
           NEW m, m = SetNode(ns, p, node), ~IsEmptyNode(m, p),
           \A q \in Keys : \A w :
               HoldsAt(m, p, q, w) <=> (q = k /\ w = v) \/ (q # k /\ p \in DOMAIN ns /\ HoldsAt(ns, p, q, w))
    PROVE  Tree(m) /\ NoneEmpty(m) /\ Sets(ns, m, k, v)
<1>1. p \in Seq(Chars) /\ (p \in DOMAIN ns \/ p = <<>> \/ (Front(p) \in DOMAIN ns /\ ~IsHash(ns, Front(p))))
  BY Placed
<1>2. /\ Tree(m) /\ DOMAIN m = DOMAIN ns \cup {p}
      /\ \A q \in DOMAIN ns \ {p} : ~IsEmptyNode(ns, q) => ~IsEmptyNode(m, q)
      /\ \A q, w : Holds(m, q, w) <=> HoldsAt(m, p, q, w) \/ \E r \in DOMAIN ns \ {p} : HoldsAt(ns, r, q, w)
  <2>1. NodeIsSet(ns, p, node, m)
    BY <1>1, SetNodeKeeps
  <2> QED
    BY <2>1, Zenon DEF NodeIsSet
<1>3. NoneEmpty(m)
  BY <1>2 DEF NoneEmpty
<1>4. ASSUME NEW q \in Keys
      PROVE  Find(m, q) = IF q = k THEN v ELSE Find(ns, q)
  <2>1. CASE q = k
    <3>1. Holds(m, q, v)
      BY <1>2, <2>1
    <3> QED
      BY <1>2, <2>1, <3>1, FoundIsHeld
  <2>2. CASE q # k
    <3>1. ASSUME NEW w
          PROVE  Holds(m, q, w) <=> Holds(ns, q, w)
      <4>1. Holds(m, q, w) <=> HoldsAt(m, p, q, w) \/ \E r \in DOMAIN ns \ {p} : HoldsAt(ns, r, q, w)
        BY <1>2
      <4>2. HoldsAt(m, p, q, w) <=> p \in DOMAIN ns /\ HoldsAt(ns, p, q, w)
        BY <2>2
      <4>3. Holds(ns, q, w) <=> (p \in DOMAIN ns /\ HoldsAt(ns, p, q, w)) \/ \E r \in DOMAIN ns \ {p} : HoldsAt(ns, r, q, w)
        BY DEF Holds
      <4> QED
        BY <4>1, <4>2, <4>3
    <3> QED
      BY <1>2, <2>2, <3>1, FoundIsHeld
  <2> QED
    BY <2>1, <2>2
<1> QED
  BY <1>2, <1>3, <1>4 DEF Sets

\* A table that gives the suffix of k the value v and is otherwise the one before.
LEMMA TableSets ==
    ASSUME NEW ns, Tree(ns), NoneEmpty(ns), NEW k \in ShortKeys, NEW v, NEW p, p = Stop(ns, k),
           p \notin DOMAIN ns \/ IsHash(ns, p), NEW t, Sound(t), t.nb # 0, NEW x, x = SuffixAfter(k, p),
           \A y, w : Maps(t, y, w) <=> (y = x /\ w = v) \/ (y # x /\ p \in DOMAIN ns /\ Maps(ns[p].table, y, w)),
           NEW m, m = SetNode(ns, p, HashNode(t))
    PROVE  Tree(m) /\ NoneEmpty(m) /\ Sets(ns, m, k, v)
<1>0. k \in Keys
  BY DEF ShortKeys
<1>1. p \in Seq(Chars) /\ IsPrefix(p, k) /\ k \in Seq(Chars)
  BY <1>0, Placed
<1>2. /\ x \in Seq(Chars) /\ p \o x = k
      /\ \A q \in Seq(Chars) : IsPrefix(p, q) /\ SuffixAfter(q, p) = x => q = k
  BY <1>1, OneSuffix
<1>3. p \in DOMAIN ns => LeafSound(p, ns[p])
  BY NodeKinds
<1>4. ASSUME NEW y, NEW w, Maps(t, y, w)
      PROVE  y \in Seq(Chars) /\ p \o y \in ShortKeys
  <2>1. CASE y = x
    BY <1>2, <2>1
  <2>2. CASE y # x
    BY <1>1, <1>3, <1>4, <2>2, LeafKeys
  <2> QED
    BY <2>1, <2>2
<1> DEFINE node == HashNode(t)
<1>5. LeafSound(p, node)
  BY <1>1, <1>4, LeafOf
<1>6. node.table = t /\ node.kind = "hash"
  BY DEF HashNode
<1> HIDE DEF node
<1>7. p \in DOMAIN m /\ m[p] = node /\ IsHash(m, p)
  BY <1>6 DEF SetNode, IsHash, node
<1>8. ~IsEmptyNode(m, p)
  BY <1>6, <1>7 DEF IsEmptyNode
<1>9. ASSUME NEW q \in Keys, NEW w
      PROVE  HoldsAt(m, p, q, w) <=> (q = k /\ w = v) \/ (q # k /\ p \in DOMAIN ns /\ HoldsAt(ns, p, q, w))
  <2> DEFINE y == SuffixAfter(q, p)
  <2>1. HoldsAt(m, p, q, w) <=> IsPrefix(p, q) /\ Maps(t, y, w)
    BY <1>6, <1>7 DEF HoldsAt
  <2>2. p \in DOMAIN ns => (HoldsAt(ns, p, q, w) <=> IsPrefix(p, q) /\ Maps(ns[p].table, y, w))
    BY DEF HoldsAt
  <2>3. q \in Seq(Chars)
    BY KeyFacts
  <2>4. IsPrefix(p, q) => (y = x <=> q = k)
    BY <1>2, <2>3
  <2>5. q = k => IsPrefix(p, q)
    BY <1>1
  <2> HIDE DEF y
  <2>6. Maps(t, y, w) <=> (y = x /\ w = v) \/ (y # x /\ p \in DOMAIN ns /\ Maps(ns[p].table, y, w))
    OBVIOUS
  <2> QED
    BY <2>1, <2>2, <2>4, <2>5, <2>6
<1> QED
  BY <1>0, <1>5, <1>7, <1>8, <1>9, NodeSets DEF node

\* The first key below a trie node that has no child for it: a new hash node.
LEMMA NewLeafSets ==
    ASSUME NEW ns, Tree(ns), NoneEmpty(ns), NEW k \in ShortKeys, NEW v \in Vals, NEW p, p = Stop(ns, k), p \notin DOMAIN ns,
           NEW m, m = SetNode(ns, p, HashNode(Emplace(EmptyTable(InitBuckets), SuffixAfter(k, p), v)))
    PROVE  Tree(m) /\ NoneEmpty(m) /\ Sets(ns, m, k, v) /\ Find(ns, k) = NoValue
<1> DEFINE x == SuffixAfter(k, p)
           e == EmptyTable(InitBuckets)
           t == Emplace(e, x, v)
<1>0. k \in Keys
  BY DEF ShortKeys
<1>1. p \in Seq(Chars) /\ IsPrefix(p, k) /\ \A w : ~Holds(ns, k, w)
  BY <1>0, Placed
<1>2. x \in DOMAIN Hash
  BY <1>0, <1>1, KeyFacts
<1> HIDE DEF x
<1>3. /\ Sound(e) /\ e.nb = 0 /\ ~Has(e, x)
      /\ \A q, w : ~Maps(e, q, w)
  BY <1>2, EmptyKeeps, HatTrieAssumption
<1> HIDE DEF e
<1>4. ~IndexFull(e)
  BY <1>3, RoomKeeps, ArrayHashAssumption
<1>5. /\ Sound(t) /\ t.nb = e.nb + 1
      /\ \A q, w : Maps(t, q, w) <=> Maps(e, q, w) \/ (q = x /\ w = v)
  BY <1>2, <1>3, <1>4, EmplaceKeeps
<1>6. m = SetNode(ns, p, HashNode(t))
  BY DEF x, e
<1> HIDE DEF t
<1>7. t.nb # 0 /\ \A y, w : Maps(t, y, w) <=> (y = x /\ w = v) \/ (y # x /\ p \in DOMAIN ns /\ Maps(ns[p].table, y, w))
  BY <1>3, <1>5
<1>8. Tree(m) /\ NoneEmpty(m) /\ Sets(ns, m, k, v)
  BY <1>5, <1>6, <1>7, TableSets DEF x
<1>9. Find(ns, k) = NoValue
  BY <1>0, <1>1, FoundIsHeld
<1> QED
  BY <1>8, <1>9

\* A trie node given a value: the key ends there.
LEMMA ValueNodeSets ==
    ASSUME NEW ns, Tree(ns), NoneEmpty(ns), NEW k \in ShortKeys, NEW v \in Vals, NEW p, p = Stop(ns, k),
           p \in DOMAIN ns, ~IsHash(ns, p), NEW m, m = SetNode(ns, p, TrieNode(v))
    PROVE  Tree(m) /\ NoneEmpty(m) /\ Sets(ns, m, k, v) /\ (~HasValue(ns, p) => Find(ns, k) = NoValue)
<1>0. k \in Keys
  BY DEF ShortKeys
<1>1. p = k /\ k \in Seq(Chars) /\ \A w : Holds(ns, k, w) <=> HoldsAt(ns, p, k, w)
  BY <1>0, Placed
<1> DEFINE node == TrieNode(v)
<1>2. v # NoValue
  BY HatTrieAssumption
<1>3. node.value = v /\ node.kind = "trie" /\ node = TrieNode(node.value)
  BY DEF TrieNode
<1>4. InnerSound(p, node)
  BY <1>1, <1>3 DEF InnerSound
<1> HIDE DEF node
<1>5. p \in DOMAIN m /\ m[p] = node /\ ~IsHash(m, p) /\ HasValue(m, p)
  BY <1>2, <1>3 DEF SetNode, IsHash, HasValue, node
<1>6. ~IsEmptyNode(m, p)
  BY <1>5 DEF IsEmptyNode
<1>7. \A q \in Keys : \A w : HoldsAt(m, p, q, w) <=> (q = k /\ w = v) \/ (q # k /\ p \in DOMAIN ns /\ HoldsAt(ns, p, q, w))
  BY <1>1, <1>2, <1>3, <1>5 DEF HoldsAt
<1>8. Tree(m) /\ NoneEmpty(m) /\ Sets(ns, m, k, v)
  BY <1>0, <1>3, <1>4, <1>6, <1>7, NodeSets DEF node
<1>9. ASSUME ~HasValue(ns, p)
      PROVE  Find(ns, k) = NoValue
  <2>1. \A w : ~Holds(ns, k, w)
    BY <1>1, <1>9 DEF HoldsAt, HasValue
  <2> QED
    BY <1>0, <2>1, FoundIsHeld
<1> QED
  BY <1>8, <1>9

\* What a leaf holds, and the key that leads to it.
LEMMA LeafLookup ==
    ASSUME NEW ns, Tree(ns), NEW k \in Keys, NEW p, p = Stop(ns, k), IsHash(ns, p),
           NEW t, t = ns[p].table, NEW x, x = SuffixAfter(k, p)
    PROVE  /\ p \in DOMAIN ns /\ LeafSound(p, ns[p]) /\ Sound(t) /\ x \in DOMAIN Hash
           /\ Find(ns, k) = ValueOf(t, x)
           /\ Find(ns, k) = NoValue <=> ~Has(t, x)
           /\ \A v : Maps(t, x, v) <=> Has(t, x) /\ Find(ns, k) = v
<1>1. p \in DOMAIN ns
  BY DEF IsHash
<1>2. LeafSound(p, ns[p]) /\ Sound(t)
  BY <1>1, NodeKinds DEF LeafSound
<1>3. p \in Seq(Chars) /\ IsPrefix(p, k)
  BY Placed
<1>4. x \in DOMAIN Hash
  BY <1>3, KeyFacts
<1>5. Find(ns, k) = ValueOf(t, x)
  BY <1>1 DEF Find
<1>6. /\ ValueOf(t, x) = NoValue <=> ~Has(t, x)
      /\ \A v : Maps(t, x, v) <=> Has(t, x) /\ ValueOf(t, x) = v
  BY <1>2, <1>4, LookupFacts DEF Sound
<1> QED
  BY <1>1, <1>2, <1>4, <1>5, <1>6

\* A key added to a table that is not full.
LEMMA TableTakes ==
    ASSUME NEW ns, Tree(ns), NoneEmpty(ns), NEW k \in ShortKeys, NEW v \in Vals, NEW p, p = Stop(ns, k), IsHash(ns, p),
           NEW t, t = ns[p].table, NEW x, x = SuffixAfter(k, p), t.nb < BurstThreshold, ~Has(t, x),
           NEW m, m = SetNode(ns, p, HashNode(Emplace(t, x, v)))
    PROVE  ~IndexFull(t) /\ Tree(m) /\ NoneEmpty(m) /\ Sets(ns, m, k, v) /\ Find(ns, k) = NoValue
<1>0. k \in Keys
  BY DEF ShortKeys
<1>1. p \in DOMAIN ns /\ Sound(t) /\ x \in DOMAIN Hash /\ Find(ns, k) = NoValue /\ \A w : ~Maps(t, x, w)
  BY <1>0, LeafLookup
<1>2. t.nb \in Nat
  BY <1>1, TableFields DEF Sound, Filed
<1>3. ~IndexFull(t)
  BY <1>1, <1>2, RoomKeeps, ArrayHashAssumption, HatTrieAssumption
<1> DEFINE u == Emplace(t, x, v)
<1>4. /\ Sound(u) /\ u.nb = t.nb + 1
      /\ \A q, w : Maps(u, q, w) <=> Maps(t, q, w) \/ (q = x /\ w = v)
  BY <1>1, <1>3, EmplaceKeeps
<1> HIDE DEF u
<1>5. u.nb # 0 /\ \A y, w : Maps(u, y, w) <=> (y = x /\ w = v) \/ (y # x /\ p \in DOMAIN ns /\ Maps(ns[p].table, y, w))
  BY <1>1, <1>2, <1>4
<1>6. m = SetNode(ns, p, HashNode(u))
  BY DEF u
<1>7. Tree(m) /\ NoneEmpty(m) /\ Sets(ns, m, k, v)
  BY <1>4, <1>5, <1>6, TableSets
<1> QED
  BY <1>1, <1>3, <1>7

\* Another value for a key that is there.
LEMMA AssignSets ==
    ASSUME NEW ns, Tree(ns), NoneEmpty(ns), NEW k \in ShortKeys, NEW v \in Vals, NEW p, p = Stop(ns, k), Find(ns, k) # NoValue,
           NEW m, m = SetNode(ns, p, IF IsHash(ns, p) THEN HashNode(SetValue(ns[p].table, SuffixAfter(k, p), v))
                                     ELSE TrieNode(v))
    PROVE  Tree(m) /\ NoneEmpty(m) /\ Sets(ns, m, k, v)
<1>0. k \in Keys
  BY DEF ShortKeys
<1>1. p \in DOMAIN ns
  BY DEF Find
<1>2. CASE ~IsHash(ns, p)
  BY <1>1, <1>2, ValueNodeSets
<1>3. CASE IsHash(ns, p)
  <2> DEFINE t == ns[p].table
             x == SuffixAfter(k, p)
             u == SetValue(t, x, v)
  <2>1. Sound(t) /\ x \in DOMAIN Hash /\ Has(t, x)
    BY <1>0, <1>3, LeafLookup
  <2>2. m = SetNode(ns, p, HashNode(u))
    BY <1>3
  <2> HIDE DEF t, x
  <2>3. /\ Sound(u) /\ u.nb = t.nb
        /\ \A q, w : Maps(u, q, w) <=> (q # x /\ Maps(t, q, w)) \/ (q = x /\ w = v)
    BY <2>1, SetValueKeeps
  <2> HIDE DEF u
  <2>4. u.nb # 0
    BY <1>1, <1>3, <2>3 DEF NoneEmpty, IsEmptyNode, t
  <2>5. \A y, w : Maps(u, y, w) <=> (y = x /\ w = v) \/ (y # x /\ p \in DOMAIN ns /\ Maps(ns[p].table, y, w))
    BY <1>1, <2>3 DEF t
  <2> QED
    BY <1>3, <2>2, <2>3, <2>4, <2>5, TableSets DEF x
<1> QED
  BY <1>2, <1>3

\* A node that lost the keys of D, in a tree that holds them nowhere else.
LEMMA NodeDrops ==
    ASSUME NEW ns, Tree(ns), NoneEmpty(ns), NEW p \in DOMAIN ns, NEW D,
           NEW node, LeafSound(p, node) \/ InnerSound(p, node), IsHash(ns, p) \/ node.kind # "hash",
           NEW s, s = SetNode(ns, p, node), NEW m, m = Cleaned(s, p),
           \A q \in Keys : \A w : HoldsAt(s, p, q, w) <=> q \notin D /\ HoldsAt(ns, p, q, w),
           \A q \in Keys : \A r \in DOMAIN ns \ {p} : \A w : HoldsAt(ns, r, q, w) => q \notin D
    PROVE  Tree(m) /\ NoneEmpty(m) /\ Drops(ns, m, D)
<1>1. p \in Seq(Chars)
  BY NodeKinds
<1>2. /\ Tree(s) /\ DOMAIN s = DOMAIN ns \cup {p}
      /\ \A q \in DOMAIN ns \ {p} : ~IsEmptyNode(ns, q) => ~IsEmptyNode(s, q)
      /\ \A q, w : Holds(s, q, w) <=> HoldsAt(s, p, q, w) \/ \E r \in DOMAIN ns \ {p} : HoldsAt(ns, r, q, w)
  <2>1. NodeIsSet(ns, p, node, s)
    BY <1>1, SetNodeKeeps
  <2> QED
    BY <2>1, Zenon DEF NodeIsSet
<1>3. p \in DOMAIN s /\ \A q \in DOMAIN s \ {p} : ~IsEmptyNode(s, q)
  BY <1>2 DEF NoneEmpty
<1>4. /\ Tree(m) /\ NoneEmpty(m)
      /\ \A q, w : Holds(m, q, w) <=> Holds(s, q, w)
  BY <1>2, <1>3, CleanedKeeps
<1>5. ASSUME NEW q \in Keys
      PROVE  Find(m, q) = IF q \in D THEN NoValue ELSE Find(ns, q)
  <2>1. ASSUME NEW w
        PROVE  Holds(m, q, w) <=> q \notin D /\ Holds(ns, q, w)
    <3>1. Holds(m, q, w) <=> HoldsAt(s, p, q, w) \/ \E r \in DOMAIN ns \ {p} : HoldsAt(ns, r, q, w)
      BY <1>2, <1>4
    <3>2. HoldsAt(s, p, q, w) <=> q \notin D /\ HoldsAt(ns, p, q, w)
      OBVIOUS
    <3>3. Holds(ns, q, w) <=> HoldsAt(ns, p, q, w) \/ \E r \in DOMAIN ns \ {p} : HoldsAt(ns, r, q, w)
      BY DEF Holds
    <3>4. (\E r \in DOMAIN ns \ {p} : HoldsAt(ns, r, q, w)) => q \notin D
      OBVIOUS
    <3> QED
      BY <3>1, <3>2, <3>3, <3>4
  <2>2. CASE q \in D
    <3>1. \A w : ~Holds(m, q, w)
      BY <2>1, <2>2
    <3> QED
      BY <1>4, <2>2, <3>1, FoundIsHeld
  <2>3. CASE q \notin D
    <3>1. \A w : Holds(m, q, w) <=> Holds(ns, q, w)
      BY <2>1, <2>3
    <3> QED
      BY <1>4, <2>3, <3>1, FoundIsHeld
  <2> QED
    BY <2>2, <2>3
<1> QED
  BY <1>4, <1>5 DEF Drops

\* A table that lost the keys of D, in a tree that holds them nowhere else.
LEMMA TableDrops ==
    ASSUME NEW ns, Tree(ns), NoneEmpty(ns), NEW p, IsHash(ns, p), NEW D, NEW t, Sound(t),
           \A y \in Seq(Chars) : \A w : Maps(t, y, w) <=> p \o y \notin D /\ Maps(ns[p].table, y, w),
           \A y, w : Maps(t, y, w) => Maps(ns[p].table, y, w),
           NEW m, m = Cleaned(SetNode(ns, p, HashNode(t)), p),
           \A q \in Keys : \A r \in DOMAIN ns \ {p} : \A w : HoldsAt(ns, r, q, w) => q \notin D
    PROVE  Tree(m) /\ NoneEmpty(m) /\ Drops(ns, m, D)
<1>1. p \in DOMAIN ns /\ p \in Seq(Chars) /\ LeafSound(p, ns[p])
  BY NodeKinds DEF IsHash
<1>2. ASSUME NEW y, NEW w, Maps(t, y, w)
      PROVE  y \in Seq(Chars) /\ p \o y \in ShortKeys
  BY <1>1, <1>2, LeafKeys
<1> DEFINE node == HashNode(t)
           s == SetNode(ns, p, node)
<1>3. LeafSound(p, node)
  BY <1>1, <1>2, LeafOf
<1>4. node.table = t /\ node.kind = "hash"
  BY DEF HashNode
<1>5. m = Cleaned(s, p)
  OBVIOUS
<1> HIDE DEF node
<1>6. p \in DOMAIN s /\ s[p] = node /\ IsHash(s, p)
  BY <1>4 DEF SetNode, IsHash
<1>7. s = SetNode(ns, p, node)
  OBVIOUS
<1> HIDE DEF s
<1>8. ASSUME NEW q \in Keys, NEW w
      PROVE  HoldsAt(s, p, q, w) <=> q \notin D /\ HoldsAt(ns, p, q, w)
  <2> DEFINE y == SuffixAfter(q, p)
  <2>1. HoldsAt(s, p, q, w) <=> IsPrefix(p, q) /\ Maps(t, y, w)
    BY <1>4, <1>6 DEF HoldsAt
  <2>2. HoldsAt(ns, p, q, w) <=> IsPrefix(p, q) /\ Maps(ns[p].table, y, w)
    BY DEF HoldsAt
  <2>3. q \in Seq(Chars)
    BY KeyFacts
  <2>4. IsPrefix(p, q) => y \in Seq(Chars) /\ p \o y = q
    BY <1>1, <2>3, OneSuffix
  <2> HIDE DEF y
  <2>5. IsPrefix(p, q) => (Maps(t, y, w) <=> q \notin D /\ Maps(ns[p].table, y, w))
    BY <2>4
  <2> QED
    BY <2>1, <2>2, <2>5
<1> QED
  BY <1>1, <1>3, <1>5, <1>7, <1>8, NodeDrops

\* erase.
LEMMA EraseDrops ==
    ASSUME NEW ns, Tree(ns), NoneEmpty(ns), NEW k \in ShortKeys, NEW p, p = Stop(ns, k), Find(ns, k) # NoValue,
           NEW node, node = IF IsHash(ns, p) THEN HashNode(EraseKey(ns[p].table, SuffixAfter(k, p))) ELSE TrieNode(NoValue),
           NEW m, m = Cleaned(SetNode(ns, p, node), p)
    PROVE  Tree(m) /\ NoneEmpty(m) /\ Drops(ns, m, {k})
<1>0. k \in Keys
  BY DEF ShortKeys
<1>1. p \in DOMAIN ns
  BY DEF Find
<1>2. p \in Seq(Chars) /\ IsPrefix(p, k) /\ k \in Seq(Chars)
  BY <1>0, Placed
<1>3. ASSUME NEW q \in Keys, NEW r \in DOMAIN ns \ {p}, NEW w, HoldsAt(ns, r, q, w)
      PROVE  q \notin {k}
  BY <1>2, <1>3, HeldAtStop
<1>4. CASE ~IsHash(ns, p)
  <2> DEFINE s == SetNode(ns, p, node)
  <2>1. p = k
    BY <1>0, <1>1, <1>4, Placed
  <2>2. node = TrieNode(NoValue)
    BY <1>4
  <2>3. node.value = NoValue /\ node.kind = "trie" /\ node = TrieNode(node.value)
    BY <2>2 DEF TrieNode
  <2>4. InnerSound(p, node)
    BY <2>3 DEF InnerSound
  <2>5. s[p] = node /\ ~IsHash(s, p)
    BY <2>3 DEF SetNode, IsHash
  <2>6. s = SetNode(ns, p, node) /\ m = Cleaned(s, p)
    OBVIOUS
  <2> HIDE DEF s
  <2>7. \A q \in Keys : \A w : HoldsAt(s, p, q, w) <=> q \notin {k} /\ HoldsAt(ns, p, q, w)
    BY <1>4, <2>1, <2>3, <2>5 DEF HoldsAt
  <2>8. \A q \in Keys : \A r \in DOMAIN ns \ {p} : \A w : HoldsAt(ns, r, q, w) => q \notin {k}
    BY <1>3
  <2>9. node.kind # "hash"
    BY <2>3
  <2> QED
    BY <1>1, <2>4, <2>6, <2>7, <2>8, <2>9, NodeDrops
<1>5. CASE IsHash(ns, p)
  <2> DEFINE t == ns[p].table
             x == SuffixAfter(k, p)
             u == EraseKey(t, x)
  <2>1. Sound(t) /\ x \in DOMAIN Hash /\ Has(t, x)
    BY <1>0, <1>5, LeafLookup
  <2>2. m = Cleaned(SetNode(ns, p, HashNode(u)), p)
    BY <1>5
  <2>3. /\ p \o x = k
        /\ \A y \in Seq(Chars) : p \o y = k => y = x
    <3>1. \A s \in Seq(Chars) : SuffixAfter(p \o s, p) = s
      BY <1>2, SuffixOf
    <3>2. p \o x = k
      BY <1>2, OneSuffix
    <3> QED
      BY <3>1, <3>2
  <2> HIDE DEF x
  <2>4. Sound(u) /\ \A q, w : Maps(u, q, w) <=> Maps(t, q, w) /\ q # x
    BY <2>1, EraseKeeps
  <2> HIDE DEF u
  <2>5. \A y \in Seq(Chars) : \A w : Maps(u, y, w) <=> p \o y \notin {k} /\ Maps(ns[p].table, y, w)
    BY <2>3, <2>4
  <2>6. \A y, w : Maps(u, y, w) => Maps(ns[p].table, y, w)
    BY <2>4
  <2>7. \A q \in Keys : \A r \in DOMAIN ns \ {p} : \A w : HoldsAt(ns, r, q, w) => q \notin {k}
    BY <1>3
  <2> QED
    BY <1>5, <2>2, <2>4, <2>5, <2>6, <2>7, TableDrops
<1> QED
  BY <1>4, <1>5

Starting(prefix) == {k \in Keys : IsPrefix(prefix, k)}

\* Where a key with a prefix is held, and what else is held there.
LEMMA HeldStarting ==
    ASSUME NEW ns, Tree(ns), NEW prefix \in DOMAIN ns, NEW r \in DOMAIN ns, NEW q \in Keys, NEW w, HoldsAt(ns, r, q, w)
    PROVE  q \in Starting(prefix) <=> IsPrefix(prefix, r)
<1>0. prefix \in Seq(Chars) /\ r \in Seq(Chars) /\ q \in Seq(Chars)
  BY NodeKinds, KeyFacts
<1>1. Stop(ns, prefix) = prefix
  <2>1. /\ Stop(ns, prefix) \in Seq(Chars) /\ IsPrefix(Stop(ns, prefix), prefix)
        /\ IsPrefix(prefix, prefix) => IsPrefix(prefix, Stop(ns, prefix))
    BY <1>0, StopFacts DEF Tree
  <2> QED
    BY <1>0, <2>1, PrefixOrder
<1>2. IsPrefix(r, q)
  <2>1. IsPrefix(q, q)
    BY <1>0, PrefixOrder
  <2> QED
    BY <2>1 DEF HoldsAt
<1>3. IsPrefix(prefix, q) => IsPrefix(prefix, r)
  BY <1>0, <1>1, HeldWithPrefix
<1>4. IsPrefix(prefix, r) => IsPrefix(prefix, q)
  BY <1>0, <1>2, PrefixChain
<1> QED
  BY <1>3, <1>4 DEF Starting

\* erase_prefix where the prefix ends at a node.
LEMMA SubtreeDrops ==
    ASSUME NEW ns, Tree(ns), NoneEmpty(ns), NEW prefix \in DOMAIN ns, NEW cut, cut = CutBelow(ns, prefix),
           NEW m, m = IF prefix = <<>> THEN cut
                      ELSE IF IsHash(ns, prefix) THEN ClearEmptyNodes(ns, prefix) ELSE Cleaned(cut, Front(prefix))
    PROVE  Tree(m) /\ NoneEmpty(m) /\ Drops(ns, m, Starting(prefix))
<1>0. prefix \in Seq(Chars) /\ Closed(ns)
  BY NodeKinds DEF Tree
<1>1. /\ Tree(cut) /\ DOMAIN cut = {q \in DOMAIN ns : ~IsPrefix(prefix, q)}
      /\ \A q \in DOMAIN cut : prefix = <<>> \/ q # Front(prefix) => ~IsEmptyNode(cut, q)
      /\ \A k, v : Holds(cut, k, v) <=> \E q \in DOMAIN ns : ~IsPrefix(prefix, q) /\ HoldsAt(ns, q, k, v)
  BY <1>0, CutKeeps DEF NoneEmpty
<1>2. /\ Tree(m) /\ NoneEmpty(m)
      /\ \A k, v : Holds(m, k, v) <=> \E q \in DOMAIN ns : ~IsPrefix(prefix, q) /\ HoldsAt(ns, q, k, v)
  <2>1. CASE prefix = <<>>
    BY <1>1, <2>1 DEF NoneEmpty
  <2>2. CASE prefix # <<>> /\ IsHash(ns, prefix)
    <3>1. Children(ns, prefix) = {}
      <4>1. \A c \in Chars : Append(prefix, c) # <<>> /\ Front(Append(prefix, c)) = prefix
        BY <1>0, AppendFacts
      <4> QED
        BY <1>0, <2>2, <4>1 DEF Children, Closed
    <3>2. \A q \in DOMAIN ns \ {prefix} : ~IsEmptyNode(ns, q)
      BY DEF NoneEmpty
    <3>3. /\ Tree(m) /\ NoneEmpty(m)
          /\ \A k, v : Holds(m, k, v) <=> \E q \in DOMAIN ns \ {prefix} : HoldsAt(ns, q, k, v)
      BY <2>2, <3>1, <3>2, ClearNodesKeeps
    <3>4. \A q \in DOMAIN ns : q # prefix <=> ~IsPrefix(prefix, q)
      BY <1>0, <2>2, PrefixesThere, PrefixOrder
    <3> QED
      BY <3>3, <3>4
  <2>3. CASE prefix # <<>> /\ ~IsHash(ns, prefix)
    <3>1. Front(prefix) \in DOMAIN cut
      <4>1. Front(prefix) \in DOMAIN ns
        BY <1>0, <2>3 DEF Closed
      <4>2. Front(prefix) \in Seq(Chars) /\ Len(Front(prefix)) = Len(prefix) - 1 /\ Len(prefix) \in Nat
        BY <1>0, <2>3, FrontFacts
      <4>3. ~IsPrefix(prefix, Front(prefix))
        <5>1. IsPrefix(prefix, Front(prefix)) => Len(prefix) <= Len(Front(prefix))
          BY <1>0, <4>2, PrefixOrder
        <5> QED
          BY <4>2, <5>1
      <4> QED
        BY <1>1, <4>1, <4>3
    <3>2. m = Cleaned(cut, Front(prefix))
      BY <2>3
    <3>3. \A q \in DOMAIN cut \ {Front(prefix)} : ~IsEmptyNode(cut, q)
      BY <1>1
    <3>4. Tree(m) /\ NoneEmpty(m) /\ \A k, v : Holds(m, k, v) <=> Holds(cut, k, v)
      BY <1>1, <3>1, <3>2, <3>3, CleanedKeeps
    <3> QED
      BY <1>1, <3>4
  <2> QED
    BY <2>1, <2>2, <2>3
<1>3. ASSUME NEW q \in Keys
      PROVE  Find(m, q) = IF q \in Starting(prefix) THEN NoValue ELSE Find(ns, q)
  <2>1. ASSUME NEW w
        PROVE  Holds(m, q, w) <=> q \notin Starting(prefix) /\ Holds(ns, q, w)
    <3>1. \A r \in DOMAIN ns : HoldsAt(ns, r, q, w) => (q \in Starting(prefix) <=> IsPrefix(prefix, r))
      BY HeldStarting
    <3>2. Holds(m, q, w) <=> \E r \in DOMAIN ns : ~IsPrefix(prefix, r) /\ HoldsAt(ns, r, q, w)
      BY <1>2
    <3>3. Holds(ns, q, w) <=> \E r \in DOMAIN ns : HoldsAt(ns, r, q, w)
      BY DEF Holds
    <3> QED
      BY <3>1, <3>2, <3>3
  <2>2. CASE q \in Starting(prefix)
    <3>1. \A w : ~Holds(m, q, w)
      BY <2>1, <2>2
    <3> QED
      BY <1>2, <2>2, <3>1, FoundIsHeld
  <2>3. CASE q \notin Starting(prefix)
    <3>1. \A w : Holds(m, q, w) <=> Holds(ns, q, w)
      BY <2>1, <2>3
    <3> QED
      BY <1>2, <2>3, <3>1, FoundIsHeld
  <2> QED
    BY <2>2, <2>3
<1> QED
  BY <1>2, <1>3 DEF Drops

\* erase_prefix in a hash node reached before the prefix ended.
LEMMA TablePrefixDrops ==
    ASSUME NEW ns, Tree(ns), NoneEmpty(ns), NEW prefix \in Seq(Chars), NEW p, p = Stop(ns, prefix), p # prefix, IsHash(ns, p),
           NEW hits, hits = PrefixHits(ns, prefix),
           NEW m, m = Cleaned(SetNode(ns, p, HashNode(WithoutKeys(ns[p].table, hits, p))), p)
    PROVE  Tree(m) /\ NoneEmpty(m) /\ Drops(ns, m, Starting(prefix))
<1> DEFINE t == ns[p].table
           kept == Kept(ns, p, prefix)
           suf == [i \in DOMAIN hits |-> SuffixAfter(hits[i], p)]
           u == WithoutKeys(t, hits, p)
<1>1. p \in DOMAIN ns /\ p \in Seq(Chars) /\ LeafSound(p, ns[p]) /\ Sound(t)
  BY NodeKinds DEF IsHash, LeafSound
<1>2. m = Cleaned(SetNode(ns, p, HashNode(u)), p)
  OBVIOUS
<1>3. /\ hits = KeysOf(kept, p)
      /\ kept \in Seq(Entry) /\ Once(kept)
      /\ \A j \in DOMAIN kept : kept[j].key \in Seq(Chars) /\ p \o kept[j].key \in ShortKeys
                                /\ kept[j] \in Cells(t) /\ IsPrefix(prefix, p \o kept[j].key)
      /\ \A e \in Cells(t) : IsPrefix(prefix, p \o e.key) => \E j \in DOMAIN kept : kept[j] = e
  BY TableHits
<1> HIDE DEF kept, t
<1>4. /\ KeyList(hits) /\ DOMAIN hits = DOMAIN kept
      /\ \A i \in DOMAIN kept : SuffixAfter(hits[i], p) = kept[i].key
  BY <1>1, <1>3, KeysOfFacts
<1>5. hits \in Seq(ShortKeys)
  BY <1>4 DEF KeyList
<1>6. \A i \in DOMAIN hits : suf[i] = kept[i].key
  BY <1>4
<1>7. suf = [i \in DOMAIN hits |-> SuffixAfter(hits[i], p)]
  OBVIOUS
<1> HIDE DEF suf
<1>8. \A i \in DOMAIN hits : suf[i] \in DOMAIN Hash /\ Has(t, suf[i])
  <2> TAKE i \in DOMAIN hits
  <2>1. kept[i] \in Cells(t) /\ kept[i] \in Entry
    BY <1>3, <1>4
  <2>2. kept[i].key \in DOMAIN Hash
    BY <2>1 DEF Entry
  <2>3. Has(t, kept[i].key)
    BY <1>1, <2>1, <2>2, LookupFacts DEF Sound
  <2> QED
    BY <1>6, <2>2, <2>3
<1>9. \A i, j \in DOMAIN hits : suf[i] = suf[j] => i = j
  BY <1>3, <1>4, <1>6 DEF Once
<1>10. Sound(u) /\ \A q, w : Maps(u, q, w) <=> Maps(t, q, w) /\ \A i \in DOMAIN hits : q # suf[i]
  <2>1. Sound(t)
    BY <1>1
  <2> HIDE DEF t
  <2>2. /\ Sound(WithoutKeys(t, hits, p)) /\ WithoutKeys(t, hits, p).nb = t.nb - Len(hits)
        /\ \A q, w : Maps(WithoutKeys(t, hits, p), q, w) <=> Maps(t, q, w) /\ \A i \in DOMAIN hits : q # suf[i]
    BY <1>5, <1>7, <1>8, <1>9, <2>1, WithoutKeysKeeps
  <2> QED
    BY <2>2
<1> HIDE DEF u
<1>11. ASSUME NEW y \in Seq(Chars), NEW w
       PROVE  Maps(u, y, w) <=> p \o y \notin Starting(prefix) /\ Maps(t, y, w)
  <2>1. ASSUME Maps(t, y, w)
        PROVE  p \o y \in Starting(prefix) <=> \E i \in DOMAIN hits : y = suf[i]
    <3>1. PICK e \in Cells(t) : e.key = y
      BY <2>1 DEF Maps
    <3>2. p \o y \in Keys
      BY <1>1, <2>1, LeafKeys DEF ShortKeys, t
    <3>3. ASSUME IsPrefix(prefix, p \o y)
          PROVE  \E i \in DOMAIN hits : y = suf[i]
      <4>1. PICK j \in DOMAIN kept : kept[j] = e
        BY <1>3, <3>1, <3>3
      <4> QED
        BY <1>4, <1>6, <3>1, <4>1
    <3>4. ASSUME NEW i \in DOMAIN hits, y = suf[i]
          PROVE  IsPrefix(prefix, p \o y)
      BY <1>3, <1>4, <1>6, <3>4
    <3> QED
      BY <3>2, <3>3, <3>4 DEF Starting
  <2> QED
    BY <1>10, <2>1
<1>12. \A y, w : Maps(u, y, w) => Maps(t, y, w)
  BY <1>10
<1>13. ASSUME NEW q \in Keys, NEW r \in DOMAIN ns \ {p}, NEW w, HoldsAt(ns, r, q, w)
       PROVE  q \notin Starting(prefix)
  <2>1. q \in Seq(Chars)
    BY KeyFacts
  <2> QED
    BY <1>13, <2>1, HeldWithPrefix DEF Starting
<1> QED
  BY <1>2, <1>10, <1>11, <1>12, <1>13, TableDrops DEF t

-----------------------------------------------------------------------------
(* How many keys there are. *)

Live(ns) == {k \in Keys : Find(ns, k) # NoValue}

\* The tree is sound and n counts its keys.
Counts(ns, n) == Tree(ns) /\ NoneEmpty(ns) /\ IsFiniteSet(Live(ns)) /\ n = Cardinality(Live(ns))

\* A list of keys is as long as the set of its keys.
LEMMA ListSize ==
    ASSUME NEW r, KeyList(r)
    PROVE  IsFiniteSet(ToSet(r)) /\ Cardinality(ToSet(r)) = Len(r) /\ Len(r) \in Nat
<1>1. Len(r) \in Nat /\ DOMAIN r = 1 .. Len(r) /\ \A i, j \in DOMAIN r : r[i] = r[j] => i = j
  BY DEF KeyList
<1>2. r \in [1 .. Len(r) -> ToSet(r)] /\ \A e \in ToSet(r) : \E i \in 1 .. Len(r) : r[i] = e
  BY <1>1 DEF KeyList, ToSet
<1>3. r \in Bijection(1 .. Len(r), ToSet(r))
  BY <1>1, <1>2 DEF Bijection, Injection, Surjection, IsInjective
<1>4. ExistsBijection(1 .. Len(r), ToSet(r))
  BY <1>3 DEF ExistsBijection
<1> QED
  BY <1>1, <1>4, FS_NatBijection, FS_CountingElements

\* A value for a key that had none counts one more, another value for one that had none.
LEMMA SetsCount ==
    ASSUME NEW ns, NEW n, Counts(ns, n), NEW m, Tree(m), NoneEmpty(m),
           NEW k \in Keys, NEW v \in Vals, Sets(ns, m, k, v)
    PROVE  /\ Find(ns, k) = NoValue => Counts(m, n + 1)
           /\ Find(ns, k) # NoValue => Counts(m, n)
<1>0. v # NoValue
  BY HatTrieAssumption
<1>1. ASSUME Find(ns, k) = NoValue
      PROVE  Counts(m, n + 1)
  <2>1. Live(m) = Live(ns) \cup {k} /\ k \notin Live(ns)
    BY <1>0, <1>1 DEF Live, Sets
  <2>2. IsFiniteSet(Live(ns)) /\ n = Cardinality(Live(ns))
    BY DEF Counts
  <2>3. IsFiniteSet(Live(ns) \cup {k}) /\ Cardinality(Live(ns) \cup {k}) = n + 1
    BY <2>1, <2>2, FS_AddElement
  <2> QED
    BY <2>1, <2>3 DEF Counts
<1>2. ASSUME Find(ns, k) # NoValue
      PROVE  Counts(m, n)
  <2>1. Live(m) = Live(ns)
    BY <1>0, <1>2 DEF Live, Sets
  <2> QED
    BY <2>1 DEF Counts
<1> QED
  BY <1>1, <1>2

\* Keys that went and were listed once each count that many fewer.
LEMMA DropsCount ==
    ASSUME NEW ns, NEW n, Counts(ns, n), NEW m, Tree(m), NoneEmpty(m), NEW D, Drops(ns, m, D),
           NEW G, IsFiniteSet(G), G = Live(ns) \cap D
    PROVE  Counts(m, n - Cardinality(G))
<1>1. Live(m) = Live(ns) \ G
  BY DEF Live, Drops
<1>2. IsFiniteSet(Live(ns)) /\ n = Cardinality(Live(ns))
  BY DEF Counts
<1>3. IsFiniteSet(Live(ns) \ G) /\ Cardinality(Live(ns) \ G) = Cardinality(Live(ns)) - Cardinality(Live(ns) \cap G)
  BY <1>2, FS_Difference
<1>4. Live(ns) \cap G = G
  OBVIOUS
<1> QED
  BY <1>1, <1>2, <1>3, <1>4 DEF Counts

\* The same keys count the same.
LEMMA SameCount ==
    ASSUME NEW ns, NEW n, Counts(ns, n), NEW m, Tree(m), NoneEmpty(m), Same(ns, m)
    PROVE  Counts(m, n)
<1>1. Live(m) = Live(ns)
  BY DEF Live, Same
<1> QED
  BY <1>1 DEF Counts

\* equal_prefix_range lists the keys with the prefix.
LEMMA HitsAre ==
    ASSUME NEW ns, Tree(ns), NoneEmpty(ns), NEW prefix \in Seq(Chars), NEW hits, hits = PrefixHits(ns, prefix)
    PROVE  KeyList(hits) /\ ToSet(hits) = Live(ns) \cap Starting(prefix)
<1>1. /\ KeyList(hits)
      /\ \A k \in Seq(Chars) : (\E i \in DOMAIN hits : hits[i] = k) <=> HeldBelow(ns, prefix, k)
  BY PrefixHitsFacts
<1>2. \A k \in ToSet(hits) : k \in Keys
  BY <1>1 DEF KeyList, ToSet, ShortKeys
<1>3. \A k \in Keys : k \in ToSet(hits) <=> k \in Live(ns) \cap Starting(prefix)
  <2> TAKE k \in Keys
  <2>1. k \in Seq(Chars)
    BY KeyFacts
  <2>2. Find(ns, k) # NoValue <=> \E v : Holds(ns, k, v)
    BY FoundIsHeld
  <2>3. k \in ToSet(hits) <=> HeldBelow(ns, prefix, k)
    BY <1>1, <2>1 DEF ToSet
  <2> QED
    BY <2>2, <2>3 DEF HeldBelow, Live, Starting
<1>4. \A k \in Live(ns) \cap Starting(prefix) : k \in Keys
  BY DEF Live
<1> QED
  BY <1>1, <1>2, <1>3, <1>4

\* There is a key below every node.
LEMMA KeyBelow ==
    ASSUME NEW ns, Tree(ns), NoneEmpty(ns), NEW path \in DOMAIN ns
    PROVE  \E k \in Keys : k \in Live(ns) \cap Starting(path)
<1> DEFINE s == FirstStop(ns, path)
<1>0. path \in Seq(Chars)
  BY NodeKinds
<1>1. IsStop(ns, s) /\ IsPrefix(path, s)
  BY FirstStopFacts
<1> HIDE DEF s
<1>2. s \in DOMAIN ns /\ s \in Seq(Chars)
  BY <1>1, NodeKinds DEF IsStop
<1>3. \E k \in Keys : \E v : HoldsAt(ns, s, k, v)
  <2>1. CASE IsHash(ns, s)
    <3> DEFINE t == ns[s].table
    <3>1. LeafSound(s, ns[s]) /\ Sound(t)
      BY <1>2, <2>1, NodeKinds DEF LeafSound
    <3>2. t.nb # 0
      BY <1>2, <2>1 DEF NoneEmpty, IsEmptyNode
    <3>3. PICK e \in Cells(t) : TRUE
      <4>1. IsFiniteSet(Cells(t)) /\ t.nb = Cardinality(Cells(t))
        BY <3>1 DEF Sound, Filed, Counted
      <4>2. Cells(t) # {}
        BY <3>2, <4>1, FS_EmptySet
      <4> QED
        BY <4>2
    <3>4. s \o e.key \in ShortKeys
      BY <3>1, <3>3 DEF LeafSound
    <3>5. s \o e.key \in Seq(Chars) /\ s \o e.key \in Keys
      BY <3>4, KeyFacts DEF ShortKeys
    <3>6. \E v : HoldsAt(ns, s, s \o e.key, v)
      BY <1>2, <2>1, <3>3, <3>5, HeldInLeaf
    <3> QED
      BY <3>5, <3>6
  <2>2. CASE ~IsHash(ns, s)
    <3>1. ns[s].value # NoValue
      BY <1>1, <2>2 DEF IsStop, HasValue
    <3>2. s \in ShortKeys
      BY <1>2, <2>2, <3>1, NodeKinds DEF InnerSound
    <3>3. s \in Keys
      BY <3>2 DEF ShortKeys
    <3> QED
      BY <2>2, <3>1, <3>3 DEF HoldsAt
  <2> QED
    BY <2>1, <2>2
<1>4. PICK k \in Keys : \E v : HoldsAt(ns, s, k, v)
  BY <1>3
<1>5. k \in Starting(path)
  BY <1>1, <1>2, <1>4, HeldStarting
<1>6. Find(ns, k) # NoValue
  <2>1. \E v : Holds(ns, k, v)
    BY <1>2, <1>4 DEF Holds
  <2> QED
    BY <2>1, FoundIsHeld
<1> QED
  BY <1>5, <1>6 DEF Live

-----------------------------------------------------------------------------
(* The prefixes of a string. *)

\* Finitely many sequences, no two of them equally long.
Graded(S) == IsFiniteSet(S) /\ \A p, q \in S : Len(p) \in Nat /\ (Len(p) = Len(q) => p = q)

Shorter(S, p) == {q \in S : Len(q) < Len(p)}

\* The number of shorter ones runs through 0 .. Cardinality(S) - 1.
LEMMA ShorterCounts ==
    ASSUME NEW S, Graded(S)
    PROVE  /\ Cardinality(S) \in Nat
           /\ \A p \in S : Cardinality(Shorter(S, p)) \in 0 .. Cardinality(S) - 1
           /\ \A p, q \in S : Cardinality(Shorter(S, p)) = Cardinality(Shorter(S, q)) => p = q
           /\ \A n \in 0 .. Cardinality(S) - 1 : \E p \in S : Cardinality(Shorter(S, p)) = n
<1> DEFINE c == Cardinality(S)
           f == [p \in S |-> Cardinality(Shorter(S, p))]
<1>0. IsFiniteSet(S) /\ c \in Nat
  BY FS_CardinalityType DEF Graded
<1>1. ASSUME NEW p \in S
      PROVE  /\ Shorter(S, p) \in SUBSET S /\ p \notin Shorter(S, p) /\ Shorter(S, p) # S
             /\ IsFiniteSet(Shorter(S, p)) /\ f[p] \in 0 .. c - 1
  <2>1. Shorter(S, p) \in SUBSET S /\ p \notin Shorter(S, p)
    BY DEF Shorter, Graded
  <2>2. Shorter(S, p) # S
    BY <2>1
  <2>3. /\ IsFiniteSet(Shorter(S, p)) /\ Cardinality(Shorter(S, p)) <= c
        /\ Cardinality(Shorter(S, p)) # c
    BY <1>0, <2>1, <2>2, FS_Subset
  <2>4. Cardinality(Shorter(S, p)) \in Nat
    BY <2>3, FS_CardinalityType
  <2> QED
    BY <1>0, <2>1, <2>2, <2>3, <2>4
<1>2. ASSUME NEW p \in S, NEW q \in S, Len(p) < Len(q)
      PROVE  f[p] # f[q]
  <2> DEFINE A == Shorter(S, p)
             B == Shorter(S, q)
  <2>1. A \in SUBSET B /\ p \in B /\ p \notin A
    BY <1>2 DEF Shorter, Graded
  <2>2. IsFiniteSet(B)
    BY <1>1
  <2>3. Cardinality(A) # Cardinality(B)
    <3> HIDE DEF A, B
    <3> QED
      BY <2>1, <2>2, FS_Subset
  <2> QED
    BY <2>3
<1>3. \A p, q \in S : f[p] = f[q] => p = q
  <2> SUFFICES ASSUME NEW p \in S, NEW q \in S, f[p] = f[q]
               PROVE  p = q
    OBVIOUS
  <2>1. Len(p) \in Nat /\ Len(q) \in Nat /\ (Len(p) = Len(q) => p = q)
    BY DEF Graded
  <2>2. ~(Len(p) < Len(q)) /\ ~(Len(q) < Len(p))
    BY <1>2
  <2> QED
    BY <2>1, <2>2
<1>4. f \in Injection(S, 0 .. c - 1)
  BY <1>1, <1>3 DEF Injection, IsInjective
<1>5. IsFiniteSet(0 .. c - 1) /\ Cardinality(0 .. c - 1) = c
  <2>1. IsFiniteSet(0 .. c - 1) /\ Cardinality(0 .. c - 1) = IF 0 > c - 1 THEN 0 ELSE (c - 1) - 0 + 1
    BY <1>0, FS_Interval
  <2> QED
    BY <1>0, <2>1
<1>6. f \in Surjection(S, 0 .. c - 1)
  <2> HIDE DEF f, c
  <2> QED
    BY <1>4, <1>5, FS_Injection DEF c
<1>7. \A n \in 0 .. c - 1 : \E p \in S : f[p] = n
  BY <1>6 DEF Surjection
<1> QED
  BY <1>0, <1>1, <1>3, <1>7

\* ShortestFirst lists a set by length.
LEMMA ShortestFirstFacts ==
    ASSUME NEW S, Graded(S)
    PROVE  /\ ShortestFirst(S) \in Seq(S) /\ Len(ShortestFirst(S)) = Cardinality(S)
           /\ Cardinality(S) \in Nat
           /\ \A n \in 1 .. Cardinality(S) :
                 ShortestFirst(S)[n] \in S /\ Cardinality(Shorter(S, ShortestFirst(S)[n])) = n - 1
<1> DEFINE c == Cardinality(S)
           r == ShortestFirst(S)
<1>0. c \in Nat
  BY ShorterCounts
<1>1. r = [n \in 1 .. c |-> CHOOSE p \in S : Cardinality(Shorter(S, p)) = n - 1]
  BY DEF ShortestFirst, Shorter
<1> HIDE DEF r
<1>2. ASSUME NEW n \in 1 .. c
      PROVE  r[n] \in S /\ Cardinality(Shorter(S, r[n])) = n - 1
  <2>1. n - 1 \in 0 .. c - 1
    BY <1>0
  <2>2. \E p \in S : Cardinality(Shorter(S, p)) = n - 1
    BY <2>1, ShorterCounts
  <2>3. r[n] = CHOOSE p \in S : Cardinality(Shorter(S, p)) = n - 1
    BY <1>1
  <2> QED
    BY <2>2, <2>3, Zenon
<1>3. r \in [1 .. c -> S]
  <2>1. DOMAIN r = 1 .. c /\ r = [n \in 1 .. c |-> r[n]]
    BY <1>1
  <2> QED
    BY <1>2, <2>1, Zenon
<1>4. r \in Seq(S) /\ Len(r) = c
  <2> HIDE DEF c
  <2> QED
    BY <1>0, <1>3, ListMade
<1> QED
  BY <1>0, <1>2, <1>4 DEF r, c

\* Short ones and then longer ones, each by length, are all of them by length.
LEMMA ShortThenLong ==
    ASSUME NEW T, NEW H, Graded(T \cup H), \A p \in T, q \in H : Len(p) < Len(q)
    PROVE  /\ ShortestFirst(T \cup H) = ShortestFirst(T) \o ShortestFirst(H)
           /\ H # {} => Last(ShortestFirst(T \cup H)) = Last(ShortestFirst(H))
<1> DEFINE U == T \cup H
           a == Cardinality(T)
           b == Cardinality(H)
           r == ShortestFirst(T)
           q == ShortestFirst(H)
           u == ShortestFirst(U)
           j == r \o q
<1>1. Graded(T) /\ Graded(H) /\ T \cap H = {}
  <2>1. IsFiniteSet(T) /\ IsFiniteSet(H)
    BY FS_Subset DEF Graded
  <2>2. T \cap H = {}
    BY DEF Graded
  <2> QED
    BY <2>1, <2>2 DEF Graded
<1>2. /\ r \in Seq(T) /\ Len(r) = a /\ a \in Nat
      /\ \A n \in 1 .. a : r[n] \in T /\ Cardinality(Shorter(T, r[n])) = n - 1
  BY <1>1, ShortestFirstFacts
<1>3. /\ q \in Seq(H) /\ Len(q) = b /\ b \in Nat
      /\ \A n \in 1 .. b : q[n] \in H /\ Cardinality(Shorter(H, q[n])) = n - 1
  BY <1>1, ShortestFirstFacts
<1>4. /\ u \in Seq(U) /\ Len(u) = Cardinality(U)
      /\ \A n \in 1 .. Cardinality(U) : u[n] \in U /\ Cardinality(Shorter(U, u[n])) = n - 1
  BY ShortestFirstFacts
<1>5. Cardinality(U) = a + b
  <2>1. Cardinality(U) = a + b - Cardinality(T \cap H)
    BY <1>1, FS_Union DEF Graded
  <2>2. Cardinality(T \cap H) = 0
    BY <1>1, FS_EmptySet
  <2> HIDE DEF a, b
  <2> QED
    BY <1>2, <1>3, <2>1, <2>2
<1>6. ASSUME NEW p \in T
      PROVE  Shorter(U, p) = Shorter(T, p)
  BY DEF Shorter, Graded
<1>7. ASSUME NEW p \in H
      PROVE  Cardinality(Shorter(U, p)) = a + Cardinality(Shorter(H, p))
  <2> DEFINE B == Shorter(H, p)
  <2>1. Shorter(U, p) = T \cup B /\ T \cap B = {} /\ B \in SUBSET H
    BY <1>1 DEF Shorter
  <2>2. IsFiniteSet(B) /\ IsFiniteSet(T)
    BY <1>1, <2>1, FS_Subset DEF Graded
  <2> HIDE DEF B
  <2>3. Cardinality(T \cup B) = a + Cardinality(B) - Cardinality(T \cap B) /\ Cardinality(B) \in Nat
    BY <2>2, FS_Union, FS_CardinalityType
  <2>4. Cardinality(T \cap B) = 0
    BY <2>1, FS_EmptySet
  <2> HIDE DEF a
  <2>5. Cardinality(T \cup B) = a + Cardinality(B)
    BY <1>2, <2>3, <2>4
  <2> QED
    BY <2>1, <2>5 DEF B
<1> HIDE DEF r, q, u, a, b
<1>8. /\ j \in Seq(U) /\ Len(j) = a + b
      /\ \A n \in 1 .. a : j[n] = r[n]
      /\ \A n \in 1 .. b : j[a + n] = q[n]
  <2>1. r \in Seq(U) /\ q \in Seq(U)
    BY <1>2, <1>3
  <2> HIDE DEF U
  <2>2. j \in Seq(U) /\ Len(j) = a + b
    <3>1. Len(r) = a /\ Len(q) = b
      BY <1>2, <1>3
    <3>2. j \in Seq(U) /\ Len(j) = Len(r) + Len(q)
      BY ONLY <2>1
    <3> QED
      BY <3>1, <3>2
  <2>3. \A n \in 1 .. a : j[n] = r[n]
    BY <2>1, <1>2, <1>3
  <2>4. ASSUME NEW n \in 1 .. b
        PROVE  j[a + n] = q[n]
    <3>1. a + n \in 1 .. Len(r) + Len(q) /\ ~(a + n <= Len(r)) /\ (a + n) - Len(r) = n
      BY <1>2, <1>3
    <3> QED
      BY <2>1, <3>1
  <2> QED
    BY <2>2, <2>3, <2>4
<1> HIDE DEF j
<1>9. ASSUME NEW n \in 1 .. a + b
      PROVE  j[n] \in U /\ Cardinality(Shorter(U, j[n])) = n - 1
  <2>1. CASE n \in 1 .. a
    <3>1. j[n] = r[n] /\ r[n] \in T /\ Cardinality(Shorter(T, r[n])) = n - 1
      BY <1>2, <1>8, <2>1
    <3> QED
      BY <1>6, <3>1
  <2>2. CASE n \notin 1 .. a
    <3>1. n - a \in 1 .. b /\ a + (n - a) = n
      BY <1>2, <1>3, <2>2
    <3>2. j[n] = q[n - a] /\ q[n - a] \in H /\ Cardinality(Shorter(H, q[n - a])) = (n - a) - 1
      BY <1>3, <1>8, <3>1
    <3>3. Cardinality(Shorter(U, j[n])) = a + ((n - a) - 1)
      BY <1>7, <3>2
    <3> QED
      BY <1>2, <1>3, <3>2, <3>3
  <2> QED
    BY <2>1, <2>2
<1>10. ASSUME NEW n \in 1 .. a + b
       PROVE  u[n] = j[n]
  <2>1. u[n] \in U /\ Cardinality(Shorter(U, u[n])) = n - 1
    BY <1>4, <1>5
  <2>2. \A x, y \in U : Cardinality(Shorter(U, x)) = Cardinality(Shorter(U, y)) => x = y
    BY ShorterCounts
  <2> HIDE DEF U
  <2> QED
    BY <1>9, <2>1, <2>2
<1>11. u = j
  <2>1. u = [n \in 1 .. a + b |-> u[n]] /\ j = [n \in 1 .. a + b |-> j[n]]
    <3> HIDE DEF U
    <3>1. u \in Seq(U) /\ Len(u) = a + b /\ j \in Seq(U) /\ Len(j) = a + b
      BY <1>4, <1>5, <1>8
    <3> QED
      BY <3>1
  <2> QED
    BY <1>10, <2>1
<1>12. H # {} => Last(u) = Last(q)
  <2> HAVE H # {}
  <2>1. b # 0
    BY <1>1, FS_EmptySet DEF Graded, b
  <2>2. b \in 1 .. b /\ Len(u) = a + b
    BY <1>3, <1>4, <1>5, <2>1
  <2>3. u[a + b] = q[b]
    BY <1>8, <1>11, <2>2
  <2> QED
    BY <1>3, <2>2, <2>3 DEF Last
<1> QED
  BY <1>11, <1>12 DEF u, r, q, j

\* The prefixes of a string, no two equally long.
LEMMA PrefixSet ==
    ASSUME NEW s \in Seq(Chars)
    PROVE  /\ \A p : p \in Prefixes(s) <=> p \in Seq(Chars) /\ IsPrefix(p, s)
           /\ \A S \in SUBSET Prefixes(s) : Graded(S)
<1> DEFINE f == [l \in 0 .. Len(s) |-> SubSeq(s, 1, l)]
<1>0. Len(s) \in Nat
  OBVIOUS
<1>1. \A l \in 0 .. Len(s) : SubSeq(s, 1, l) \in Seq(Chars) /\ Len(SubSeq(s, 1, l)) = l /\ IsPrefix(SubSeq(s, 1, l), s)
  BY CutFacts
<1>2. \A p \in Seq(Chars) : IsPrefix(p, s) => p = SubSeq(s, 1, Len(p)) /\ Len(p) \in 0 .. Len(s)
  <2> TAKE p \in Seq(Chars)
  <2> HAVE IsPrefix(p, s)
  <2> QED
    BY <1>0, PrefixOrder
<1>3. ASSUME NEW p
      PROVE  p \in Prefixes(s) <=> p \in Seq(Chars) /\ IsPrefix(p, s)
  <2>1. p \in Prefixes(s) <=> \E l \in 0 .. Len(s) : p = SubSeq(s, 1, l)
    BY DEF Prefixes
  <2> QED
    BY <1>1, <1>2, <2>1
<1>4. f \in Surjection(0 .. Len(s), Prefixes(s))
  BY DEF Surjection, Prefixes
<1>5. IsFiniteSet(Prefixes(s))
  <2>1. IsFiniteSet(0 .. Len(s))
    BY <1>0, FS_Interval
  <2> QED
    BY <1>4, <2>1, FS_Surjection
<1>6. ASSUME NEW S \in SUBSET Prefixes(s)
      PROVE  Graded(S)
  <2>1. IsFiniteSet(S)
    BY <1>5, FS_Subset
  <2>2. \A p, q \in S : Len(p) \in Nat /\ (Len(p) = Len(q) => p = q)
    <3> TAKE p, q \in S
    <3>1. p \in Seq(Chars) /\ q \in Seq(Chars) /\ p = SubSeq(s, 1, Len(p)) /\ q = SubSeq(s, 1, Len(q))
      BY <1>2, <1>3
    <3>2. Len(p) = Len(q) => p = q
      BY <3>1, Zenon
    <3>3. Len(p) \in Nat
      BY <3>1
    <3> QED
      BY <3>2, <3>3, Zenon
  <2> QED
    BY <2>1, <2>2 DEF Graded
<1> QED
  BY <1>3, <1>6

\* What is found on the way down and in the hash node at its end are the keys that are
\* prefixes of the string, and the latter are the longer ones.
LEMMA PrefixHitsOf ==
    ASSUME NEW ns, Tree(ns), NEW s \in ShortKeys
    PROVE  /\ TrieHits(ns, s) \cup HashHits(ns, s) = {k \in Live(ns) : IsPrefix(k, s)}
           /\ \A p \in TrieHits(ns, s), q \in HashHits(ns, s) : Len(p) < Len(q)
           /\ Graded(TrieHits(ns, s) \cup HashHits(ns, s))
<1> DEFINE st == Stop(ns, s)
           t == ns[st].table
<1>1. s \in Keys /\ s \in Seq(Chars)
  BY KeyFacts DEF ShortKeys
<1>2. /\ st \in Seq(Chars) /\ IsPrefix(st, s)
      /\ \A p \in Seq(Chars) : IsPrefix(p, st) /\ p # st => p \in DOMAIN ns /\ ~IsHash(ns, p)
      /\ \A p \in DOMAIN ns : IsPrefix(p, s) => IsPrefix(p, st)
  BY <1>1, StopFacts DEF Tree
<1>3. \A p : p \in TrieHits(ns, s) <=> p \in Seq(Chars) /\ IsPrefix(p, st) /\ HasValue(ns, p)
  BY <1>2, PrefixSet DEF TrieHits
<1>4. \A q : q \in HashHits(ns, s) <=>
                q \in Seq(Chars) /\ IsPrefix(q, s) /\ IsHash(ns, st) /\ IsPrefix(st, q) /\ Has(t, SuffixAfter(q, st))
  BY <1>1, PrefixSet DEF HashHits
<1> HIDE DEF st
<1>5. ASSUME IsHash(ns, st), NEW q \in Seq(Chars), IsPrefix(q, s), IsPrefix(st, q)
      PROVE  Has(t, SuffixAfter(q, st)) <=> \E v : HoldsAt(ns, st, q, v)
  <2>1. Sound(t)
    BY <1>5, NodeKinds DEF LeafSound, IsHash
  <2>2. SuffixAfter(q, st) \in DOMAIN Hash
    <3>1. q \in Prefixes(s)
      BY <1>1, <1>5, PrefixSet
    <3>2. Len(st) + 1 \in 1 .. Len(q) + 1
      <4>1. Len(st) <= Len(q) /\ Len(st) \in Nat /\ Len(q) \in Nat
        BY <1>2, <1>5, PrefixMeans
      <4> QED
        BY <4>1
    <3>3. \A i \in 1 .. Len(q) + 1 : SubSeq(q, i, Len(q)) \in DOMAIN Hash
      BY <1>1, <3>1, HatTrieAssumption
    <3> QED
      BY <3>2, <3>3 DEF SuffixAfter
  <2> DEFINE x == SuffixAfter(q, st)
  <2>3. \A v : HoldsAt(ns, st, q, v) <=> Maps(t, x, v)
    BY <1>5 DEF HoldsAt
  <2> HIDE DEF t, x
  <2>4. /\ Has(t, x) <=> \E e \in Cells(t) : e.key = x
        /\ \A v : (Has(t, x) /\ ValueOf(t, x) = v) <=> Maps(t, x, v)
    BY <2>1, <2>2, LookupFacts DEF Sound, x
  <2> QED
    BY <2>3, <2>4 DEF x
<1>6. ASSUME NEW k \in TrieHits(ns, s)
      PROVE  k \in Live(ns) /\ IsPrefix(k, s) /\ ~IsHash(ns, k)
  <2>1. k \in Seq(Chars) /\ IsPrefix(k, st) /\ k \in DOMAIN ns /\ ns[k].value # NoValue
    BY <1>3 DEF HasValue
  <2>2. ~IsHash(ns, k) /\ InnerSound(k, ns[k])
    BY <2>1, NodeKinds DEF HasValue
  <2>3. k \in Keys
    BY <2>1, <2>2 DEF InnerSound, ShortKeys
  <2>4. Holds(ns, k, ns[k].value)
    BY <2>1, <2>2 DEF Holds, HoldsAt
  <2>5. Find(ns, k) # NoValue
    BY <2>3, <2>4, FoundIsHeld
  <2>6. IsPrefix(k, s)
    BY <1>1, <1>2, <2>1, PrefixChain
  <2> QED
    BY <2>2, <2>3, <2>5, <2>6 DEF Live
<1>7. ASSUME NEW k \in HashHits(ns, s)
      PROVE  k \in Live(ns) /\ IsPrefix(k, s)
  <2>1. k \in Seq(Chars) /\ IsPrefix(k, s) /\ IsHash(ns, st) /\ IsPrefix(st, k) /\ Has(t, SuffixAfter(k, st))
    BY <1>4
  <2>2. PICK v : HoldsAt(ns, st, k, v)
    BY <1>5, <2>1
  <2>3. st \in DOMAIN ns /\ LeafSound(st, ns[st])
    BY <2>1, NodeKinds DEF IsHash
  <2>4. k \in Keys
    <3>1. Maps(t, SuffixAfter(k, st), v)
      BY <2>1, <2>2 DEF HoldsAt
    <3>2. st \o SuffixAfter(k, st) \in ShortKeys
      BY <1>2, <2>3, <3>1, LeafKeys
    <3>3. st \o SuffixAfter(k, st) = k
      BY <1>2, <2>1, OneSuffix
    <3> QED
      BY <3>2, <3>3 DEF ShortKeys
  <2>5. Find(ns, k) # NoValue
    BY <2>2, <2>3, <2>4, FoundIsHeld DEF Holds
  <2> QED
    BY <2>1, <2>4, <2>5 DEF Live
<1>8. ASSUME NEW k \in Live(ns), IsPrefix(k, s)
      PROVE  k \in TrieHits(ns, s) \cup HashHits(ns, s)
  <2>1. k \in Keys /\ k \in Seq(Chars) /\ Find(ns, k) # NoValue
    BY KeyFacts DEF Live
  <2>2. PICK p \in DOMAIN ns : \E v : HoldsAt(ns, p, k, v)
    BY <2>1, FoundIsHeld DEF Holds
  <2>3. PICK v : HoldsAt(ns, p, k, v)
    BY <2>2
  <2>4. p \in Seq(Chars)
    BY NodeKinds
  <2>5. CASE IsHash(ns, p)
    <3>1. IsPrefix(p, k)
      BY <2>3, <2>5 DEF HoldsAt
    <3>2. IsPrefix(p, s)
      BY <1>1, <1>8, <2>1, <2>4, <3>1, PrefixChain
    <3>3. p = st
      BY <1>2, <2>4, <2>5, <3>2
    <3>4. Has(t, SuffixAfter(k, st))
      BY <1>5, <1>8, <2>1, <2>3, <2>5, <3>1, <3>3
    <3> QED
      BY <1>4, <1>8, <2>1, <2>5, <3>1, <3>3, <3>4
  <2>6. CASE ~IsHash(ns, p)
    <3>1. p = k /\ ns[k].value # NoValue
      BY <2>3, <2>6 DEF HoldsAt
    <3>2. IsPrefix(k, st) /\ HasValue(ns, k)
      BY <1>2, <1>8, <3>1 DEF HasValue
    <3> QED
      BY <1>3, <2>1, <3>2
  <2> QED
    BY <2>5, <2>6
<1>9. ASSUME NEW p \in TrieHits(ns, s), NEW q \in HashHits(ns, s)
      PROVE  Len(p) < Len(q)
  <2>1. p \in Seq(Chars) /\ IsPrefix(p, st) /\ ~IsHash(ns, p)
    BY <1>3, <1>6
  <2>2. q \in Seq(Chars) /\ IsPrefix(st, q) /\ IsHash(ns, st)
    BY <1>4
  <2>3. Len(p) < Len(st)
    BY <1>2, <2>1, <2>2, PrefixOrder
  <2>4. Len(st) <= Len(q)
    BY <1>2, <2>2, PrefixMeans
  <2>5. Len(p) \in Nat /\ Len(st) \in Nat /\ Len(q) \in Nat
    BY <1>2, <2>1, <2>2
  <2> QED
    BY <2>3, <2>4, <2>5
<1>10. TrieHits(ns, s) \cup HashHits(ns, s) = {k \in Live(ns) : IsPrefix(k, s)}
  BY <1>6, <1>7, <1>8
<1>11. Graded(TrieHits(ns, s) \cup HashHits(ns, s))
  <2>1. \A k \in TrieHits(ns, s) \cup HashHits(ns, s) : k \in Prefixes(s)
    <3>1. \A k \in Live(ns) : k \in Seq(Chars)
      BY KeyFacts DEF Live
    <3> QED
      BY <1>1, <1>10, <3>1, PrefixSet
  <2> QED
    BY <1>1, <2>1, PrefixSet
<1> QED
  BY <1>9, <1>10, <1>11

-----------------------------------------------------------------------------
(* The invariant, and the map that callers see. *)

\* The tree is sound, its keys are counted, and an insertion is of a short key.
IInv ==
    /\ Counts(nodes, nb_elements)
    /\ pending \in [key : ShortKeys, value : Vals] \cup {Idle}
    /\ reply # "overflow"

MapOf(ns) == [k \in Keys |-> Find(ns, k)]

\* What the caller sees when one key changed, or none.
LEMMA MapChanges ==
    ASSUME NEW ns, NEW m
    PROVE  /\ Same(ns, m) => MapOf(m) = MapOf(ns)
           /\ \A k \in Keys : \A v : Sets(ns, m, k, v) => MapOf(m) = [MapOf(ns) EXCEPT ![k] = v]
           /\ \A k \in Keys : MapOf(ns)[k] = Find(ns, k)
<1>1. \A k \in Keys : MapOf(ns)[k] = Find(ns, k) /\ MapOf(m)[k] = Find(m, k)
  BY DEF MapOf
<1>2. MapOf(m) = [k \in Keys |-> MapOf(m)[k]] /\ MapOf(ns) = [k \in Keys |-> MapOf(ns)[k]]
  BY DEF MapOf
<1>3. ASSUME Same(ns, m)
      PROVE  MapOf(m) = MapOf(ns)
  BY <1>3 DEF Same, MapOf
<1>4. ASSUME NEW k \in Keys, NEW v, Sets(ns, m, k, v)
      PROVE  MapOf(m) = [MapOf(ns) EXCEPT ![k] = v]
  BY <1>4 DEF Sets, MapOf
<1> QED
  BY <1>1, <1>3, <1>4

\* What the caller sees when keys went.
LEMMA MapDrops ==
    ASSUME NEW ns, NEW m, NEW D, Drops(ns, m, D)
    PROVE  /\ MapOf(m) = [k \in Keys |-> IF k \in D THEN NoValue ELSE MapOf(ns)[k]]
           /\ Live(ns) \cap D = {} => MapOf(m) = MapOf(ns)
<1>1. MapOf(m) = [k \in Keys |-> IF k \in D THEN NoValue ELSE MapOf(ns)[k]]
  BY DEF Drops, MapOf
<1>2. ASSUME Live(ns) \cap D = {}
      PROVE  \A k \in Keys : Find(m, k) = Find(ns, k)
  BY <1>2 DEF Drops, Live
<1> QED
  BY <1>1, <1>2 DEF MapOf

\* Contents is the map of the tree.
LEMMA ContentsAre == Contents = MapOf(nodes) /\ Contents' = MapOf(nodes')
  BY DEF Contents, MapOf

\* An insertion in progress.
LEMMA PendingFacts ==
    ASSUME IInv, pending # Idle
    PROVE  /\ pending.key \in ShortKeys /\ pending.key \in Keys /\ pending.value \in Vals
           /\ Tree(nodes) /\ NoneEmpty(nodes) /\ Counts(nodes, nb_elements)
  BY DEF IInv, ShortKeys, Counts

\* A call that changes no key.
LEMMA KeepSteps ==
    ASSUME IInv, Tree(nodes'), NoneEmpty(nodes'), Same(nodes, nodes'), nb_elements' = nb_elements,
           pending' \in [key : ShortKeys, value : Vals] \cup {Idle},
           reply' = reply \/ reply' \in {"none", "nothing", "length_error"}
    PROVE  IInv' /\ [Map!Next]_(Map!vars)
<1>1. Counts(nodes', nb_elements')
  BY SameCount DEF IInv
<1>2. IInv'
  BY <1>1 DEF IInv
<1>3. Contents' = Contents
  BY ContentsAre, MapChanges
<1>4. CASE reply' = reply
  BY <1>2, <1>3, <1>4 DEF Map!vars
<1>5. CASE reply' \in {"none", "nothing", "length_error"}
  BY <1>2, <1>3, <1>5 DEF Map!Next, Map!Keep
<1> QED
  BY <1>4, <1>5

\* A call that gives a key a value.
LEMMA SetSteps ==
    ASSUME IInv, NEW k \in Keys, NEW v \in Vals, Tree(nodes'), NoneEmpty(nodes'), Sets(nodes, nodes', k, v),
           \/ Find(nodes, k) = NoValue /\ nb_elements' = nb_elements + 1 /\ reply' = "inserted" /\ pending' = Idle
           \/ Find(nodes, k) # NoValue /\ nb_elements' = nb_elements /\ reply' = "none" /\ pending' = pending
    PROVE  IInv' /\ [Map!Next]_(Map!vars)
<1>1. Counts(nodes', nb_elements')
  BY SetsCount DEF IInv
<1>2. IInv'
  BY <1>1 DEF IInv
<1>3. Contents' = [Contents EXCEPT ![k] = v] /\ Contents[k] = Find(nodes, k)
  BY ContentsAre, MapChanges
<1>4. Map!Insert(k, v) \/ Map!Assign(k, v)
  BY <1>3 DEF Map!Insert, Map!Assign, Map!Mapped
<1> QED
  BY <1>2, <1>4 DEF Map!Next

\* A call that takes keys away.
LEMMA DropSteps ==
    ASSUME IInv, NEW D \in Map!EraseArgs, NEW G, IsFiniteSet(G), G = Live(nodes) \cap D,
           Tree(nodes'), NoneEmpty(nodes'), Drops(nodes, nodes', D),
           nb_elements' = nb_elements - Cardinality(G), pending' = pending,
           reply' = IF G = {} THEN "nothing" ELSE "erased"
    PROVE  IInv' /\ [Map!Next]_(Map!vars)
<1>1. Counts(nodes', nb_elements')
  BY DropsCount DEF IInv
<1>2. IInv'
  BY <1>1 DEF IInv
<1>3. Contents' = [k \in Keys |-> IF k \in D THEN NoValue ELSE Contents[k]] /\ \A k \in Keys : Contents[k] = Find(nodes, k)
  <2>1. MapOf(nodes') = [k \in Keys |-> IF k \in D THEN NoValue ELSE MapOf(nodes)[k]]
    BY MapDrops
  <2>2. \A k \in Keys : MapOf(nodes)[k] = Find(nodes, k)
    BY MapChanges
  <2> QED
    BY <2>1, <2>2, ContentsAre
<1>4. CASE G = {}
  <2>1. Contents' = Contents
    BY <1>4, ContentsAre, MapDrops
  <2> QED
    BY <1>2, <1>4, <2>1 DEF Map!Next, Map!Keep
<1>5. CASE G # {}
  <2>1. \E k \in D : Contents[k] # NoValue
    BY <1>3, <1>5 DEF Live
  <2>2. Map!Erase(D)
    BY <1>3, <1>5, <2>1 DEF Map!Erase, Map!Mapped
  <2> QED
    BY <1>2, <2>2 DEF Map!Next
<1> QED
  BY <1>4, <1>5

\* Every step of an insertion.
LEMMA InsertSteps == IInv /\ InsertStep => IInv' /\ [Map!Next]_(Map!vars)
<1> SUFFICES ASSUME IInv, InsertStep
             PROVE  IInv' /\ [Map!Next]_(Map!vars)
  OBVIOUS
<1> DEFINE k == pending.key
           v == pending.value
           p == Stop(nodes, k)
<1>0. pending # Idle
  BY DEF InsertStep, Burst, InsertNewLeaf, InsertValueNode, InsertIntoTable, InsertPresent
<1>1. /\ k \in ShortKeys /\ k \in Keys /\ v \in Vals
      /\ Tree(nodes) /\ NoneEmpty(nodes) /\ Counts(nodes, nb_elements)
  BY <1>0, PendingFacts
<1>2. Place = p
  BY DEF Place
<1>3. pending \in [key : ShortKeys, value : Vals]
  BY <1>0 DEF IInv
<1> HIDE DEF k, v
<1>4. CASE Burst
  <2>1. nodes' = BurstNodes(nodes, p) /\ IsHash(nodes, p) /\ UNCHANGED <<nb_elements, pending, reply>>
    BY <1>2, <1>4 DEF Burst, NeedBurst
  <2> HIDE DEF p
  <2>2. p \in DOMAIN nodes
    BY <2>1 DEF IsHash
  <2>3. /\ Tree(nodes') /\ NoneEmpty(nodes')
        /\ \A q \in Seq(Chars) : \A w : Holds(nodes', q, w) <=> Holds(nodes, q, w)
    BY <1>1, <2>1, <2>2, BurstKeeps
  <2>4. Same(nodes, nodes')
    <3>1. ASSUME NEW q \in Keys
          PROVE  Find(nodes', q) = Find(nodes, q)
      <4>1. \A w : Holds(nodes', q, w) <=> Holds(nodes, q, w)
        BY <2>3, KeyFacts
      <4> QED
        BY <1>1, <2>3, <4>1, FoundIsHeld
    <3> QED
      BY <3>1 DEF Same
  <2> QED
    BY <1>3, <2>1, <2>3, <2>4, KeepSteps
<1>5. CASE InsertNewLeaf
  <2>1. /\ p \notin DOMAIN nodes
        /\ nodes' = SetNode(nodes, p, HashNode(Emplace(EmptyTable(InitBuckets), SuffixAfter(k, p), v)))
        /\ nb_elements' = nb_elements + 1 /\ reply' = "inserted" /\ pending' = Idle
    BY <1>2, <1>5 DEF InsertNewLeaf, Returns, k, v
  <2>2. Tree(nodes') /\ NoneEmpty(nodes') /\ Sets(nodes, nodes', k, v) /\ Find(nodes, k) = NoValue
    BY <1>1, <2>1, NewLeafSets
  <2> QED
    BY <1>1, <2>1, <2>2, SetSteps
<1>6. CASE InsertValueNode
  <2>1. /\ p \in DOMAIN nodes /\ ~IsHash(nodes, p) /\ ~HasValue(nodes, p)
        /\ nodes' = SetNode(nodes, p, TrieNode(v))
        /\ nb_elements' = nb_elements + 1 /\ reply' = "inserted" /\ pending' = Idle
    BY <1>2, <1>6 DEF InsertValueNode, Returns, v
  <2>2. Tree(nodes') /\ NoneEmpty(nodes') /\ Sets(nodes, nodes', k, v) /\ Find(nodes, k) = NoValue
    BY <1>1, <2>1, ValueNodeSets
  <2> QED
    BY <1>1, <2>1, <2>2, SetSteps
<1>7. CASE InsertIntoTable
  <2> DEFINE t == nodes[p].table
             x == SuffixAfter(k, p)
             m == SetNode(nodes, p, HashNode(Emplace(t, x, v)))
  <2>1. /\ IsHash(nodes, p) /\ ~(t.nb >= BurstThreshold) /\ ~Has(t, x)
        /\ nodes' = SetNode(nodes, p, HashNode(IF IndexFull(t) THEN WithRoom(t) ELSE Emplace(t, x, v)))
        /\ IF IndexFull(t) THEN Returns("overflow", 0) ELSE Returns("inserted", 1)
    BY <1>2, <1>7 DEF InsertIntoTable, NeedBurst, k, v
  <2> HIDE DEF p
  <2>2. t.nb < BurstThreshold
    <3>1. p \in DOMAIN nodes
      BY <2>1 DEF IsHash
    <3>2. Sound(t)
      BY <1>1, <2>1, <3>1, NodeKinds DEF LeafSound
    <3> DEFINE a == t.nb
    <3>3. a \in Nat /\ ~(a >= BurstThreshold)
      BY <2>1, <3>2, TableFields DEF Sound, Filed
    <3> HIDE DEF a
    <3>4. a < BurstThreshold
      BY <3>3, ArrayHashAssumption, HatTrieAssumption
    <3> QED
      BY <3>4 DEF a
  <2>3. ~IndexFull(t) /\ Tree(m) /\ NoneEmpty(m) /\ Sets(nodes, m, k, v) /\ Find(nodes, k) = NoValue
    BY <1>1, <2>1, <2>2, TableTakes DEF p
  <2>4. nodes' = m /\ nb_elements' = nb_elements + 1 /\ reply' = "inserted" /\ pending' = Idle
    BY <2>1, <2>3 DEF Returns
  <2> HIDE DEF m
  <2> QED
    BY <1>1, <2>3, <2>4, SetSteps
<1>8. CASE InsertPresent
  <2>1. nodes' = nodes /\ nb_elements' = nb_elements + 0 /\ reply' = "nothing" /\ pending' = Idle
    BY <1>8 DEF InsertPresent, Returns
  <2>2. nb_elements \in Nat
    BY <1>1, FS_CardinalityType DEF Counts
  <2>3. Same(nodes, nodes')
    BY <2>1 DEF Same
  <2> QED
    BY <1>1, <2>1, <2>2, <2>3, KeepSteps
<1> QED
  BY <1>4, <1>5, <1>6, <1>7, <1>8 DEF InsertStep

\* The tree without nodes.
LEMMA NoNodes ==
    ASSUME NEW ns, ns = [p \in {} |-> TrieNode(NoValue)]
    PROVE  Counts(ns, 0) /\ \A k \in Keys : Find(ns, k) = NoValue
<1>1. DOMAIN ns = {}
  OBVIOUS
<1>2. Tree(ns) /\ NoneEmpty(ns)
  BY <1>1, FS_EmptySet DEF Tree, Closed, NoneEmpty
<1>3. \A k \in Keys : Find(ns, k) = NoValue
  BY <1>1 DEF Find
<1>4. Live(ns) = {}
  BY <1>3 DEF Live
<1> QED
  BY <1>2, <1>3, <1>4, FS_EmptySet DEF Counts

\* The prefixes callers use.
LEMMA PrefixArgFacts ==
    ASSUME NEW prefix \in PrefixArgs
    PROVE  prefix \in Seq(Chars) /\ Starting(prefix) \in Map!EraseArgs
<1>1. PICK k \in ShortKeys : prefix \in Prefixes(k)
  BY DEF PrefixArgs
<1>2. k \in Keys /\ k \in Seq(Chars)
  BY KeyFacts DEF ShortKeys
<1>3. PICK l \in 0 .. Len(k) : prefix = SubSeq(k, 1, l)
  BY <1>1 DEF Prefixes
<1>4. prefix \in Seq(Chars)
  BY <1>2, <1>3, CutFacts
<1>5. Starting(prefix) = Map!WithPrefix(prefix)
  BY DEF Starting, Map!WithPrefix, IsPrefix, Map!IsPrefix
<1>6. prefix \in Map!Prefixes(k)
  BY <1>3 DEF Map!Prefixes
<1> QED
  BY <1>2, <1>4, <1>5, <1>6 DEF Map!EraseArgs

\* erase.
LEMMA EraseSteps ==
    ASSUME IInv, NEW k \in ShortKeys, Erase(k)
    PROVE  IInv' /\ [Map!Next]_(Map!vars)
<1> DEFINE p == Stop(nodes, k)
           node == IF IsHash(nodes, p) THEN HashNode(EraseKey(nodes[p].table, SuffixAfter(k, p))) ELSE TrieNode(NoValue)
<1>1. Tree(nodes) /\ NoneEmpty(nodes) /\ k \in Keys
  BY DEF IInv, Counts, ShortKeys
<1>2. /\ Find(nodes, k) # NoValue /\ nodes' = Cleaned(SetNode(nodes, p, node), p)
      /\ nb_elements' = nb_elements - 1 /\ reply' = "erased" /\ pending' = pending
  BY DEF Erase, Calls
<1>3. Tree(nodes') /\ NoneEmpty(nodes') /\ Drops(nodes, nodes', {k})
  BY <1>1, <1>2, EraseDrops
<1> DEFINE G == {k}
<1>4. G = Live(nodes) \cap {k} /\ G # {}
  BY <1>1, <1>2 DEF Live
<1>5. IsFiniteSet(G) /\ Cardinality(G) = 1
  BY FS_Singleton
<1>6. {k} \in Map!EraseArgs
  BY <1>1 DEF Map!EraseArgs
<1> HIDE DEF G
<1>7. nb_elements' = nb_elements - Cardinality(G) /\ reply' = IF G = {} THEN "nothing" ELSE "erased"
  BY <1>2, <1>4, <1>5
<1> QED
  BY <1>2, <1>3, <1>4, <1>5, <1>6, <1>7, DropSteps

\* erase_prefix.
LEMMA ErasePrefixSteps ==
    ASSUME IInv, NEW prefix \in PrefixArgs, ErasePrefixSubtree(prefix) \/ ErasePrefixInTable(prefix)
    PROVE  IInv' /\ [Map!Next]_(Map!vars)
<1> DEFINE hits == PrefixHits(nodes, prefix)
           p == Stop(nodes, prefix)
           D == Starting(prefix)
           G == ToSet(hits)
<1>1. Tree(nodes) /\ NoneEmpty(nodes) /\ prefix \in Seq(Chars) /\ D \in Map!EraseArgs
  BY PrefixArgFacts DEF IInv, Counts
<1>2. KeyList(hits) /\ G = Live(nodes) \cap D
  BY <1>1, HitsAre
<1>3. IsFiniteSet(G) /\ Cardinality(G) = Len(hits) /\ (G = {} <=> hits = <<>>)
  <2>1. IsFiniteSet(G) /\ Cardinality(G) = Len(hits)
    BY <1>2, ListSize
  <2>2. hits \in Seq(ShortKeys)
    BY <1>2 DEF KeyList
  <2> HIDE DEF hits
  <2>3. G = {} <=> hits = <<>>
    BY <2>2 DEF ToSet
  <2> QED
    BY <2>1, <2>3
<1>4. CASE ErasePrefixSubtree(prefix)
  <2> DEFINE cut == CutBelow(nodes, prefix)
  <2>1. /\ p = prefix /\ prefix \in DOMAIN nodes
        /\ nodes' = IF prefix = <<>> THEN cut
                    ELSE IF IsHash(nodes, prefix) THEN ClearEmptyNodes(nodes, prefix) ELSE Cleaned(cut, Front(prefix))
        /\ nb_elements' = nb_elements - Len(KeysBelow(nodes, prefix)) /\ reply' = "erased" /\ pending' = pending
    BY <1>4 DEF ErasePrefixSubtree, Calls
  <2>2. hits = KeysBelow(nodes, prefix)
    BY <2>1 DEF PrefixHits
  <2>3. Tree(nodes') /\ NoneEmpty(nodes') /\ Drops(nodes, nodes', D)
    BY <1>1, <2>1, SubtreeDrops
  <2>4. G # {}
    BY <1>1, <1>2, <2>1, KeyBelow
  <2> HIDE DEF D, G, hits
  <2>5. nb_elements' = nb_elements - Cardinality(G) /\ reply' = IF G = {} THEN "nothing" ELSE "erased"
    BY <1>3, <2>1, <2>2, <2>4
  <2> QED
    BY <1>1, <1>2, <1>3, <2>1, <2>3, <2>5, DropSteps
<1>5. CASE ErasePrefixInTable(prefix)
  <2>1. /\ p # prefix /\ IsHash(nodes, p)
        /\ nodes' = Cleaned(SetNode(nodes, p, HashNode(WithoutKeys(nodes[p].table, hits, p))), p)
        /\ nb_elements' = nb_elements - Len(hits) /\ pending' = pending
        /\ reply' = IF hits = <<>> THEN "nothing" ELSE "erased"
    BY <1>5 DEF ErasePrefixInTable, Calls
  <2>2. Tree(nodes') /\ NoneEmpty(nodes') /\ Drops(nodes, nodes', D)
    BY <1>1, <2>1, TablePrefixDrops
  <2> HIDE DEF D, G, hits
  <2>3. nb_elements' = nb_elements - Cardinality(G) /\ reply' = IF G = {} THEN "nothing" ELSE "erased"
    BY <1>3, <2>1
  <2> QED
    BY <1>1, <1>2, <1>3, <2>1, <2>2, <2>3, DropSteps
<1> QED
  BY <1>4, <1>5

\* Calls that only reorganise the tree.
LEMMA RebuildSteps ==
    ASSUME IInv, ShrinkAll \/ Reload
    PROVE  IInv' /\ [Map!Next]_(Map!vars)
<1>1. Tree(nodes) /\ NoneEmpty(nodes)
  BY DEF IInv, Counts
<1>2. nb_elements' = nb_elements /\ pending' = pending /\ reply' = "none"
  BY DEF ShrinkAll, Reload, Calls
<1>3. /\ Tree(nodes') /\ NoneEmpty(nodes')
      /\ \A k, v : Holds(nodes', k, v) <=> Holds(nodes, k, v)
  <2>1. CASE ShrinkAll
    BY <1>1, <2>1, ShrunkKeeps DEF ShrinkAll
  <2>2. CASE Reload
    BY <1>1, <2>2, ReloadedKeeps DEF Reload
  <2> QED
    BY <2>1, <2>2
<1>4. Same(nodes, nodes')
  <2>1. ASSUME NEW q \in Keys
        PROVE  Find(nodes', q) = Find(nodes, q)
    BY <1>1, <1>3, FoundIsHeld
  <2> QED
    BY <2>1 DEF Same
<1>5. pending' \in [key : ShortKeys, value : Vals] \cup {Idle}
  BY <1>2 DEF IInv
<1> QED
  BY <1>2, <1>3, <1>4, <1>5, KeepSteps

\* clear.
LEMMA ClearSteps ==
    ASSUME IInv, Clear
    PROVE  IInv' /\ [Map!Next]_(Map!vars)
<1>1. nodes' = [p \in {} |-> TrieNode(NoValue)] /\ nb_elements' = 0 /\ reply' = "none" /\ pending' = pending
  BY DEF Clear, Calls
<1>2. Counts(nodes', 0) /\ \A k \in Keys : Find(nodes', k) = NoValue
  BY <1>1, NoNodes
<1>3. IInv'
  BY <1>1, <1>2 DEF IInv
<1>4. Contents' = [k \in Keys |-> NoValue]
  BY <1>2, ContentsAre DEF MapOf
<1> QED
  BY <1>1, <1>3, <1>4 DEF Map!Next, Map!Clear

\* Calls that find nothing to do, and the beginning of an insertion.
LEMMA IdleSteps ==
    ASSUME IInv,
           \/ \E k \in Keys : InsertRefused(k) \/ EraseMisses(k) \/ \E v \in ValsFor[k] : InsertCalled(k, v)
           \/ \E prefix \in PrefixArgs : ErasePrefixMisses(prefix)
    PROVE  IInv' /\ [Map!Next]_(Map!vars)
<1>1. Tree(nodes) /\ NoneEmpty(nodes)
  BY DEF IInv, Counts
<1>2. nodes' = nodes /\ nb_elements' = nb_elements /\ reply' \in {"none", "nothing", "length_error"}
  BY DEF InsertRefused, InsertCalled, EraseMisses, ErasePrefixMisses, Calls
<1>3. pending' \in [key : ShortKeys, value : Vals] \cup {Idle}
  <2>1. \A k \in Keys : ValsFor[k] \subseteq Vals
    BY HatTrieAssumption
  <2>2. pending' = pending \/ \E k \in Keys : \E v \in ValsFor[k] : pending' = [key |-> k, value |-> v] /\ Len(k) <= MaxKeySize
    BY DEF InsertRefused, InsertCalled, EraseMisses, ErasePrefixMisses, Calls
  <2> QED
    BY <2>1, <2>2 DEF IInv, ShortKeys
<1>4. Same(nodes, nodes')
  BY <1>2 DEF Same
<1> QED
  BY <1>1, <1>2, <1>3, <1>4, KeepSteps

\* Every step keeps the invariant and is a step of the map.
LEMMA NextKeeps == IInv /\ [Next]_vars => IInv' /\ [Map!Next]_(Map!vars)
<1> SUFFICES ASSUME IInv, [Next]_vars
             PROVE  IInv' /\ [Map!Next]_(Map!vars)
  OBVIOUS
<1> DEFINE Does == IInv' /\ [Map!Next]_(Map!vars)
<1>0. ShortKeys \subseteq Keys
  BY DEF ShortKeys
<1>1. ASSUME InsertStep
      PROVE  Does
  BY <1>1, InsertSteps
<1>2. ASSUME NEW k \in Keys, InsertRefused(k)
      PROVE  Does
  BY <1>2, IdleSteps
<1>3. ASSUME NEW k \in Keys, NEW v \in ValsFor[k], InsertCalled(k, v)
      PROVE  Does
  BY <1>3, IdleSteps
<1>4. ASSUME NEW k \in ShortKeys, NEW v \in ValsFor[k], Assign(k, v)
      PROVE  Does
  <2> DEFINE p == Stop(nodes, k)
  <2>1. Tree(nodes) /\ NoneEmpty(nodes) /\ k \in Keys /\ v \in Vals
    BY <1>0, HatTrieAssumption DEF IInv, Counts
  <2>2. /\ Find(nodes, k) # NoValue
        /\ nodes' = SetNode(nodes, p, IF IsHash(nodes, p) THEN HashNode(SetValue(nodes[p].table, SuffixAfter(k, p), v))
                                      ELSE TrieNode(v))
        /\ nb_elements' = nb_elements /\ reply' = "none" /\ pending' = pending
    BY <1>4 DEF Assign, Calls
  <2>3. Tree(nodes') /\ NoneEmpty(nodes') /\ Sets(nodes, nodes', k, v)
    BY <2>1, <2>2, AssignSets
  <2> QED
    BY <2>1, <2>2, <2>3, SetSteps
<1>5. ASSUME NEW k \in ShortKeys, Erase(k)
      PROVE  Does
  BY <1>5, EraseSteps
<1>6. ASSUME NEW k \in ShortKeys, EraseMisses(k)
      PROVE  Does
  BY <1>0, <1>6, IdleSteps
<1>7. ASSUME NEW prefix \in PrefixArgs, ErasePrefixSubtree(prefix) \/ ErasePrefixInTable(prefix)
      PROVE  Does
  BY <1>7, ErasePrefixSteps
<1>8. ASSUME NEW prefix \in PrefixArgs, ErasePrefixMisses(prefix)
      PROVE  Does
  BY <1>8, IdleSteps
<1>9. ASSUME Clear
      PROVE  Does
  BY <1>9, ClearSteps
<1>10. ASSUME ShrinkAll \/ Reload
       PROVE  Does
  BY <1>10, RebuildSteps
<1>11. ASSUME UNCHANGED vars
       PROVE  Does
  <2>1. nodes' = nodes /\ nb_elements' = nb_elements /\ reply' = reply /\ pending' = pending
    BY <1>11 DEF vars
  <2>2. Same(nodes, nodes') /\ Tree(nodes') /\ NoneEmpty(nodes')
    BY <2>1 DEF Same, IInv, Counts
  <2>3. pending' \in [key : ShortKeys, value : Vals] \cup {Idle}
    BY <2>1 DEF IInv
  <2> QED
    BY <2>1, <2>2, <2>3, KeepSteps
<1> HIDE DEF Does
<1>12. Does
  BY <1>1, <1>2, <1>3, <1>4, <1>5, <1>6, <1>7, <1>8, <1>9, <1>10, <1>11 DEF Next
<1> QED
  BY <1>12 DEF Does

\* The empty trie.
LEMMA InitKeeps == Init => IInv /\ Map!Init
<1> SUFFICES ASSUME Init
             PROVE  IInv /\ Map!Init
  OBVIOUS
<1>1. nodes = [p \in {} |-> TrieNode(NoValue)] /\ nb_elements = 0 /\ pending = Idle /\ reply = "none"
  BY DEF Init
<1>2. Counts(nodes, 0) /\ \A k \in Keys : Find(nodes, k) = NoValue
  BY <1>1, NoNodes
<1>3. IInv
  BY <1>1, <1>2 DEF IInv
<1>4. Contents = [k \in Keys |-> NoValue]
  BY <1>2 DEF Contents
<1> QED
  BY <1>1, <1>3, <1>4 DEF Map!Init

\* In every reachable state the tree is sound: every table has its keys once, in
\* their buckets and with live values, no node is empty, and size() counts the keys.
THEOREM TreeInvariant == Spec => []IInv
<1>1. Init => IInv
  BY InitKeeps
<1>2. IInv /\ [Next]_vars => IInv'
  BY NextKeeps
<1> QED
  BY <1>1, <1>2, PTL DEF Spec

\* Every variable has its type and only trie nodes have children, whatever bursts
\* and erasures do to the tree.
THEOREM TreeTypes == Spec => []TypeOK
<1>1. IInv => TypeOK
  <2> SUFFICES ASSUME IInv
               PROVE  TypeOK
    OBVIOUS
  <2>1. Tree(nodes) /\ nb_elements \in Nat
    BY FS_CardinalityType DEF IInv, Counts
  <2>2. ASSUME NEW p \in DOMAIN nodes
        PROVE  /\ p \in Seq(Chars)
               /\ nodes[p].kind \in {"trie", "hash"}
               /\ nodes[p].value \in Vals \cup {NoValue}
               /\ p # <<>> => Front(p) \in DOMAIN nodes /\ ~IsHash(nodes, Front(p))
    <3>1. p \in Seq(Chars) /\ (p # <<>> => Front(p) \in DOMAIN nodes /\ ~IsHash(nodes, Front(p)))
      BY <2>1 DEF Tree, Closed
    <3>2. nodes[p].kind = "hash" <=> IsHash(nodes, p)
      BY DEF IsHash
    <3>3. /\ IsHash(nodes, p) => nodes[p].value = NoValue
          /\ ~IsHash(nodes, p) => nodes[p].kind = "trie" /\ nodes[p].value \in Vals \cup {NoValue}
      BY <2>1, NodeKinds DEF InnerSound
    <3> QED
      BY <3>1, <3>2, <3>3
  <2>3. pending \in [key : Keys, value : Vals] \cup {Idle}
    BY DEF IInv, ShortKeys
  <2> QED
    BY <2>1, <2>2, <2>3 DEF TypeOK
<1> QED
  BY <1>1, TreeInvariant, PTL

\* No node is empty, so the iterators that walk down to the first child or read a
\* table's first entry always find one.
THEOREM NodesHoldKeys == Spec => []NoEmptyNodes
<1>1. IInv => NoEmptyNodes
  BY DEF IInv, Counts, NoneEmpty, NoEmptyNodes
<1> QED
  BY <1>1, TreeInvariant, PTL

\* Every table stays sound, whatever was erased, squeezed, rehashed, burst, shrunk
\* or read back.
THEOREM TablesStaySound == Spec => []TablesSound
<1>1. IInv => TablesSound
  <2> SUFFICES ASSUME IInv, NEW p \in DOMAIN nodes, IsHash(nodes, p)
               PROVE  TableSound(nodes[p].table)
    BY DEF TablesSound
  <2>1. Sound(nodes[p].table)
    BY NodeKinds DEF IInv, Counts, LeafSound
  <2> QED
    BY <2>1, SoundTables
<1> QED
  BY <1>1, TreeInvariant, PTL

\* size() counts the keys, and a hash node bursts before it runs out of positions.
THEOREM SizeCounts == Spec => []SizeIsExact
<1>1. IInv => SizeIsExact
  <2> SUFFICES ASSUME IInv
               PROVE  SizeIsExact
    OBVIOUS
  <2>1. Live(nodes) = {k \in Keys : Contents[k] # NoValue}
    BY DEF Live, Contents
  <2> QED
    BY <2>1 DEF IInv, Counts, SizeIsExact
<1> QED
  BY <1>1, TreeInvariant, PTL

\* equal_prefix_range yields every key with the prefix once and no other key: the
\* iterator visits all of the subtree and stops at its end.
THEOREM PrefixRanges == Spec => []PrefixRangeIsExact
<1>1. IInv => PrefixRangeIsExact
  <2> SUFFICES ASSUME IInv, NEW prefix \in PrefixArgs
               PROVE  LET hits == PrefixHits(nodes, prefix)
                      IN  /\ ToSet(hits) = {k \in Keys : Contents[k] # NoValue /\ IsPrefix(prefix, k)}
                          /\ Len(hits) = Cardinality(ToSet(hits))
    BY DEF PrefixRangeIsExact
  <2> DEFINE hits == PrefixHits(nodes, prefix)
  <2>1. KeyList(hits) /\ ToSet(hits) = Live(nodes) \cap Starting(prefix)
    BY PrefixArgFacts, HitsAre DEF IInv, Counts
  <2>2. Live(nodes) \cap Starting(prefix) = {k \in Keys : Contents[k] # NoValue /\ IsPrefix(prefix, k)}
    BY DEF Live, Starting, Contents
  <2>3. Len(hits) = Cardinality(ToSet(hits))
    BY <2>1, ListSize
  <2> QED
    BY <2>1, <2>2, <2>3
<1> QED
  BY <1>1, TreeInvariant, PTL

\* for_each_prefix_of visits the keys that are prefixes of the string, from the shortest
\* to the longest, and longest_prefix is the last of them: no key is passed over where
\* the way down ends in a hash node.
THEOREM PrefixesOfAKey == Spec => []PrefixesAreFound
<1>1. IInv => PrefixesAreFound
  <2> SUFFICES ASSUME IInv, NEW s \in ShortKeys
               PROVE  LET live == {k \in Keys : Contents[k] # NoValue /\ IsPrefix(k, s)}
                      IN  /\ PrefixesOf(nodes, s) = ShortestFirst(live)
                          /\ LongestPrefix(nodes, s) = IF live = {} THEN EndStop ELSE Last(ShortestFirst(live))
    BY DEF PrefixesAreFound
  <2> DEFINE T == TrieHits(nodes, s)
             H == HashHits(nodes, s)
             live == {k \in Keys : Contents[k] # NoValue /\ IsPrefix(k, s)}
  <2>1. live = {k \in Live(nodes) : IsPrefix(k, s)}
    BY DEF Live, Contents
  <2>2. /\ T \cup H = {k \in Live(nodes) : IsPrefix(k, s)}
        /\ \A p \in T, q \in H : Len(p) < Len(q)
        /\ Graded(T \cup H)
    BY PrefixHitsOf DEF IInv, Counts
  <2> HIDE DEF T, H, live
  <2>3. /\ ShortestFirst(T \cup H) = ShortestFirst(T) \o ShortestFirst(H)
        /\ H # {} => Last(ShortestFirst(T \cup H)) = Last(ShortestFirst(H))
    BY <2>2, ShortThenLong
  <2>4. T \cup H = live
    BY <2>1, <2>2
  <2>5. PrefixesOf(nodes, s) = ShortestFirst(live)
    BY <2>3, <2>4 DEF PrefixesOf, T, H
  <2>6. LongestPrefix(nodes, s) = IF live = {} THEN EndStop ELSE Last(ShortestFirst(live))
    <3>1. LongestPrefix(nodes, s) = LET hits == IF H # {} THEN H ELSE T
                                    IN  IF hits = {} THEN EndStop ELSE Last(ShortestFirst(hits))
      BY DEF LongestPrefix, T, H
    <3>2. CASE H # {}
      <4>1. live # {}
        BY <2>4, <3>2
      <4> QED
        BY <2>3, <2>4, <3>1, <3>2, <4>1
    <3>3. CASE H = {}
      <4>1. live = T
        BY <2>4, <3>3
      <4> QED
        BY <3>1, <3>3, <4>1
    <3> QED
      BY <3>2, <3>3
  <2> QED
    BY <2>5, <2>6 DEF live
<1> QED
  BY <1>1, TreeInvariant, PTL

\* The trie implements the map: whatever bursts, grows, squeezes or cuts, every call
\* changes the keys and answers as the abstract map does.
THEOREM TrieIsAMap == Spec => ImplementsMap
<1>1. Init => Map!Init
  BY InitKeeps
<1>2. IInv /\ [Next]_vars => [Map!Next]_(Map!vars)
  BY NextKeeps
<1> QED
  BY <1>1, <1>2, TreeInvariant, PTL DEF Spec, ImplementsMap, Map!Spec
=============================================================================

-------------------------- MODULE TailVectorProofs --------------------------
(***************************************************************************)
(* The tail of a trie, for every set of suffixes: the order the suffixes   *)
(* are stored in is total, and each of them is read back at its position,  *)
(* also when it is stored as the end of another one.                       *)
(***************************************************************************)
EXTENDS TailVector, FiniteSetTheorems, WellFoundedInduction, TLAPS

-----------------------------------------------------------------------------
(* Loops: what holds at the start and is kept by each round holds after every round. *)

LEMMA Rounds ==
    ASSUME NEW k \in Nat, NEW S, 0 \in S,
           \A n \in 0 .. k - 1 : n \in S => n + 1 \in S
    PROVE  \A n \in 0 .. k : n \in S
<1> DEFINE Upto(n) == 0 .. n
           Failing == {Upto(n) : n \in {m \in 0 .. k : m \notin S}}
<1> SUFFICES ASSUME NEW n0 \in 0 .. k, n0 \notin S
             PROVE  FALSE
  OBVIOUS
<1>1. Failing \subseteq FiniteSubsetsOf(Nat) /\ Failing # {}
  <2>1. ASSUME NEW n \in {m \in 0 .. k : m \notin S}
        PROVE  Upto(n) \in FiniteSubsetsOf(Nat)
    BY FS_Interval DEF FiniteSubsetsOf
  <2> QED
    BY <2>1
<1>2. PICK s \in Failing : \A t \in Failing : <<t, s>> \notin StrictSubsetOrdering(Nat)
  <2> HIDE DEF Failing
  <2> QED
    BY <1>1, FS_StrictSubsetOrderingWellFounded, WFMin
<1>3. PICK m \in 0 .. k : m \notin S /\ s = Upto(m)
  OBVIOUS
<1>4. m # 0 /\ m - 1 \in 0 .. k /\ m - 1 \notin S
  BY <1>3
<1>5. Upto(m - 1) \in Failing
  BY <1>4
<1>6. <<Upto(m - 1), Upto(m)>> \in StrictSubsetOrdering(Nat)
  <2>1. Upto(m - 1) \subseteq Upto(m) /\ m \in Upto(m) /\ m \notin Upto(m - 1)
    BY <1>4
  <2> QED
    BY <2>1 DEF StrictSubsetOrdering
<1> QED
  BY <1>2, <1>3, <1>5, <1>6

LEMMA MinFacts ==
    ASSUME NEW S \in SUBSET Nat, S # {}
    PROVE  Min(S) \in S /\ \A y \in S : Min(S) <= y
<1>1. \E x \in S : \A y \in S : x <= y
  <2> SUFFICES ASSUME ~ \E x \in S : \A y \in S : x <= y
               PROVE  FALSE
    OBVIOUS
  <2>1. PICK x0 \in S : TRUE
    OBVIOUS
  <2> DEFINE T == {n \in 0 .. x0 : \A y \in S : n <= y}
  <2>2. 0 \in T
    BY <2>1
  <2>3. ASSUME NEW n \in 0 .. x0 - 1, n \in T
        PROVE  n + 1 \in T
    BY <2>1, <2>3
  <2>4. \A n \in 0 .. x0 : n \in T
    <3> HIDE DEF T
    <3> QED
      BY <2>1, <2>2, <2>3, Rounds
  <2> QED
    BY <2>1, <2>4
<1> QED
  BY <1>1 DEF Min

LEMMA MaxFacts ==
    ASSUME NEW k \in Nat, NEW S \in SUBSET (0 .. k), S # {}
    PROVE  Max(S) \in S /\ \A y \in S : y <= Max(S)
<1>1. \E x \in S : \A y \in S : y <= x
  <2> SUFFICES ASSUME ~ \E x \in S : \A y \in S : y <= x
               PROVE  FALSE
    OBVIOUS
  <2> DEFINE T == {n \in 0 .. k : \A y \in S : y <= k - n}
  <2>2. 0 \in T
    OBVIOUS
  <2>3. ASSUME NEW n \in 0 .. k - 1, n \in T
        PROVE  n + 1 \in T
    <3>1. k - n \notin S
      BY <2>3
    <3> QED
      BY <2>3, <3>1
  <2>4. \A n \in 0 .. k : n \in T
    <3> HIDE DEF T
    <3> QED
      BY <2>2, <2>3, Rounds
  <2>5. PICK y \in S : TRUE
    OBVIOUS
  <2>6. y <= k - k /\ 0 \in S /\ \A x \in S : x <= 0
    BY <2>4, <2>5
  <2> QED
    BY <2>6
<1> QED
  BY <1>1 DEF Max

-----------------------------------------------------------------------------
(* The order of the suffixes. *)

LEMMA LexIrreflexive ==
    ASSUME NEW a \in Seq(Nat)
    PROVE  ~LexLess(a, a)
<1> SUFFICES ASSUME NEW i \in 1 .. Len(a), a[i] < a[i]
             PROVE  FALSE
  BY DEF LexLess
<1>1. a[i] \in Nat
  OBVIOUS
<1> QED
  BY <1>1

LEMMA LexTransitive ==
    ASSUME NEW a \in Seq(Nat), NEW b \in Seq(Nat), NEW c \in Seq(Nat),
           LexLess(a, b), LexLess(b, c)
    PROVE  LexLess(a, c)
<1>0. /\ Len(a) \in Nat /\ Len(b) \in Nat /\ Len(c) \in Nat
      /\ \A i \in 1 .. Len(a) : a[i] \in Nat
      /\ \A i \in 1 .. Len(b) : b[i] \in Nat
      /\ \A i \in 1 .. Len(c) : c[i] \in Nat
  OBVIOUS
<1>1. PICK p \in 1 .. Len(b) : /\ p <= Len(a) + 1
                               /\ \A j \in 1 .. p - 1 : a[j] = b[j]
                               /\ p <= Len(a) => a[p] < b[p]
  BY DEF LexLess
<1>2. PICK q \in 1 .. Len(c) : /\ q <= Len(b) + 1
                               /\ \A j \in 1 .. q - 1 : b[j] = c[j]
                               /\ q <= Len(b) => b[q] < c[q]
  BY DEF LexLess
<1>3. CASE p <= q
  <2>1. p \in 1 .. Len(c) /\ p <= Len(a) + 1
    BY <1>0, <1>1, <1>2, <1>3
  <2>2. \A j \in 1 .. p - 1 : a[j] = c[j]
    BY <1>0, <1>1, <1>2, <1>3
  <2>3. p <= Len(a) => a[p] < c[p]
    <3> HAVE p <= Len(a)
    <3>1. a[p] < b[p] /\ a[p] \in Nat /\ b[p] \in Nat /\ c[p] \in Nat
      BY <1>0, <1>1, <2>1
    <3>2. CASE p < q
      BY <3>1, <3>2, <1>0, <1>1, <1>2
    <3>3. CASE p = q
      <4>1. b[p] < c[p]
        BY <3>3, <1>0, <1>1, <1>2
      <4> QED
        BY ONLY <3>1, <4>1
    <3> QED
      BY <3>2, <3>3, <1>3
  <2> QED
    BY <2>1, <2>2, <2>3 DEF LexLess
<1>4. CASE q < p
  <2>1. q \in 1 .. Len(c) /\ q <= Len(a) + 1
    BY <1>0, <1>1, <1>2, <1>4
  <2>2. \A j \in 1 .. q - 1 : a[j] = c[j]
    BY <1>0, <1>1, <1>2, <1>4
  <2>3. q <= Len(a) => a[q] < c[q]
    <3>1. q \in 1 .. p - 1 /\ q <= Len(b)
      BY <1>0, <1>1, <1>2, <1>4
    <3> QED
      BY <3>1, <1>1, <1>2
  <2> QED
    BY <2>1, <2>2, <2>3 DEF LexLess
<1> QED
  BY <1>0, <1>3, <1>4

LEMMA LexTotal ==
    ASSUME NEW a \in Seq(Nat), NEW b \in Seq(Nat), a # b
    PROVE  LexLess(a, b) \/ LexLess(b, a)
<1>0. /\ Len(a) \in Nat /\ Len(b) \in Nat
      /\ \A i \in 1 .. Len(a) : a[i] \in Nat
      /\ \A i \in 1 .. Len(b) : b[i] \in Nat
  OBVIOUS
<1> DEFINE D == {i \in Nat \ {0} : i > Len(a) \/ i > Len(b) \/ a[i] # b[i]}
           p == Min(D)
<1>1. Len(a) + 1 \in D
  BY <1>0
<1>2. D # {} /\ D \in SUBSET Nat
  BY <1>1
<1>3. p \in D /\ \A i \in D : p <= i
  <2> HIDE DEF D
  <2> QED
    BY <1>2, MinFacts
<1>4. /\ p \in Nat \ {0} /\ p <= Len(a) + 1 /\ p <= Len(b) + 1
      /\ p > Len(a) \/ p > Len(b) \/ a[p] # b[p]
  <2>1. Len(b) + 1 \in D
    BY <1>0
  <2> QED
    BY <2>1, <1>1, <1>3
<1>5. \A j \in 1 .. p - 1 : j <= Len(a) /\ j <= Len(b) /\ a[j] = b[j]
  <2> TAKE j \in 1 .. p - 1
  <2>1. j \notin D /\ j \in Nat \ {0}
    <3> HIDE DEF D, p
    <3> QED
      BY <1>3, <1>4
  <2> QED
    BY <2>1, <1>0
<1> HIDE DEF p, D
<1>6. CASE p > Len(a) /\ p > Len(b)
  <2>1. Len(a) = Len(b) /\ p = Len(a) + 1
    BY <1>0, <1>4, <1>6
  <2>2. \A i \in 1 .. Len(a) : a[i] = b[i]
    BY <2>1, <1>0, <1>5
  <2>3. a = [i \in 1 .. Len(a) |-> a[i]] /\ b = [i \in 1 .. Len(b) |-> b[i]]
    OBVIOUS
  <2>4. a = b
    BY <2>1, <2>2, <2>3
  <2> QED
    BY <2>4
<1>7. CASE p > Len(a) /\ p <= Len(b)
  <2>1. p \in 1 .. Len(b)
    BY <1>0, <1>4, <1>7
  <2> QED
    BY <2>1, <1>0, <1>4, <1>5, <1>7 DEF LexLess
<1>8. CASE p <= Len(a) /\ p > Len(b)
  <2>1. p \in 1 .. Len(a)
    BY <1>0, <1>4, <1>8
  <2> QED
    BY <2>1, <1>0, <1>4, <1>5, <1>8 DEF LexLess
<1>9. CASE p <= Len(a) /\ p <= Len(b)
  <2>1. p \in 1 .. Len(a) /\ p \in 1 .. Len(b)
    BY <1>0, <1>4, <1>9
  <2>2. a[p] < b[p] \/ b[p] < a[p]
    BY <2>1, <1>0, <1>4, <1>9
  <2> QED
    BY <2>1, <2>2, <1>0, <1>4, <1>5 DEF LexLess
<1> QED
  BY <1>0, <1>4, <1>6, <1>7, <1>8, <1>9

LEMMA ReverseFacts ==
    ASSUME NEW a \in Seq(Nat)
    PROVE  /\ Reverse(a) \in Seq(Nat) /\ Len(Reverse(a)) = Len(a)
           /\ \A i \in 1 .. Len(a) : Reverse(a)[i] = a[(Len(a) - i) + 1]
<1>1. Len(a) \in Nat /\ \A i \in 1 .. Len(a) : (Len(a) - i) + 1 \in 1 .. Len(a)
  OBVIOUS
<1>2. \A i \in 1 .. Len(a) : a[(Len(a) - i) + 1] \in Nat
  BY <1>1
<1> QED
  BY <1>1, <1>2 DEF Reverse

LEMMA ReverseInjective ==
    ASSUME NEW a \in Seq(Nat), NEW b \in Seq(Nat), Reverse(a) = Reverse(b)
    PROVE  a = b
<1>1. Len(a) = Len(b) /\ Len(a) \in Nat
  BY ReverseFacts
<1>2. ASSUME NEW i \in 1 .. Len(a)
      PROVE  a[i] = b[i]
  <2>1. (Len(a) - i) + 1 \in 1 .. Len(a) /\ (Len(a) - ((Len(a) - i) + 1)) + 1 = i
    BY <1>1
  <2> DEFINE k == (Len(a) - i) + 1
  <2> HIDE DEF k
  <2>2. Reverse(a)[k] = a[i] /\ Reverse(b)[k] = b[i]
    <3>1. k \in 1 .. Len(a) /\ (Len(a) - k) + 1 = i
      BY <2>1 DEF k
    <3>2. Reverse(a)[k] = a[(Len(a) - k) + 1] /\ Reverse(b)[k] = b[(Len(b) - k) + 1]
      BY <1>1, <3>1, ReverseFacts
    <3> QED
      BY <1>1, <3>1, <3>2
  <2> QED
    BY <2>2
<1>3. a = [i \in 1 .. Len(a) |-> a[i]] /\ b = [i \in 1 .. Len(b) |-> b[i]]
  OBVIOUS
<1> QED
  BY <1>1, <1>2, <1>3

TailSuffix == [str : Seq(Nat) \ {<<>>}, npos : Nat]

LEMMA BeforeOrders ==
    ASSUME NEW s \in TailSuffix, NEW t \in TailSuffix
    PROVE  /\ ~TailBefore(s, s)
           /\ s # t => TailBefore(s, t) \/ TailBefore(t, s)
           /\ \A u \in TailSuffix : TailBefore(s, t) /\ TailBefore(t, u) => TailBefore(s, u)
<1>1. \A x \in TailSuffix : /\ x.str \in Seq(Nat) /\ Reverse(x.str) \in Seq(Nat) /\ x.npos \in Nat
                            /\ x = [str |-> x.str, npos |-> x.npos]
  BY ReverseFacts DEF TailSuffix
<1>2. ~TailBefore(s, s)
  BY <1>1, LexIrreflexive DEF TailBefore
<1>3. ASSUME s # t
      PROVE  TailBefore(s, t) \/ TailBefore(t, s)
  <2>1. CASE Reverse(s.str) = Reverse(t.str)
    <3>1. s.str = t.str
      BY <2>1, <1>1, ReverseInjective
    <3>2. s.npos # t.npos
      BY <3>1, <1>1, <1>3
    <3> QED
      BY <3>1, <3>2, <1>1 DEF TailBefore
  <2>2. CASE Reverse(s.str) # Reverse(t.str)
    BY <2>2, <1>1, LexTotal DEF TailBefore
  <2> QED
    BY <2>1, <2>2
<1>4. ASSUME NEW u \in TailSuffix, TailBefore(s, t), TailBefore(t, u)
      PROVE  TailBefore(s, u)
  <2>1. CASE LexLess(Reverse(t.str), Reverse(s.str)) /\ LexLess(Reverse(u.str), Reverse(t.str))
    BY <2>1, <1>1, LexTransitive DEF TailBefore
  <2>2. CASE s.str = t.str \/ t.str = u.str
    BY <2>2, <1>1, <1>4 DEF TailBefore
  <2> QED
    BY <2>1, <2>2, <1>4 DEF TailBefore
<1> QED
  BY <1>2, <1>3, <1>4

\* Each suffix has one place in the order.
LEMMA OrderIsComplete ==
    ASSUME NEW S \in SUBSET TailSuffix, IsFiniteSet(S)
    PROVE  LET order == InTailOrder(S)
           IN  /\ Len(order) = Cardinality(S) /\ Cardinality(S) \in Nat
               /\ \A i \in 1 .. Cardinality(S) : order[i] \in S
               /\ \A x \in S : \E i \in 1 .. Cardinality(S) : order[i] = x
               /\ \A i, j \in 1 .. Cardinality(S) : order[i] = order[j] => i = j
<1> DEFINE n == Cardinality(S)
           Below(x) == {y \in S : TailBefore(y, x)}
           rank == [x \in S |-> Cardinality(Below(x)) + 1]
           order == InTailOrder(S)
<1>1. n \in Nat
  BY FS_CardinalityType
<1>2. \A x \in S : IsFiniteSet(Below(x)) /\ Cardinality(Below(x)) \in 0 .. n - 1
  <2> TAKE x \in S
  <2>1. Below(x) \subseteq S /\ x \notin Below(x)
    BY BeforeOrders
  <2> HIDE DEF Below
  <2>2. IsFiniteSet(Below(x)) /\ Cardinality(Below(x)) <= n /\ Cardinality(Below(x)) \in Nat /\ Cardinality(Below(x)) # n
    BY <2>1, FS_Subset, FS_CardinalityType
  <2> QED
    BY <2>2, <1>1
<1>3. \A x, y \in S : TailBefore(x, y) => Cardinality(Below(x)) < Cardinality(Below(y))
  <2> TAKE x, y \in S
  <2> HAVE TailBefore(x, y)
  <2>1. Below(x) \subseteq Below(y) /\ x \in Below(y) /\ x \notin Below(x)
    BY BeforeOrders
  <2>2. IsFiniteSet(Below(y)) /\ Cardinality(Below(y)) \in Nat /\ Cardinality(Below(x)) \in Nat
    BY <1>2
  <2> HIDE DEF Below
  <2>3. Cardinality(Below(x)) <= Cardinality(Below(y)) /\ Cardinality(Below(x)) # Cardinality(Below(y))
    BY <2>1, <2>2, FS_Subset
  <2> QED
    BY <2>2, <2>3
<1>4. \A x, y \in S : Cardinality(Below(x)) = Cardinality(Below(y)) => x = y
  <2> TAKE x, y \in S
  <2> HAVE Cardinality(Below(x)) = Cardinality(Below(y))
  <2>1. Cardinality(Below(x)) \in Nat
    <3> HIDE DEF Below
    <3>1. Cardinality(Below(x)) \in 0 .. n - 1
      BY <1>2
    <3> QED
      BY <3>1
  <2> HIDE DEF Below
  <2>2. ~TailBefore(x, y) /\ ~TailBefore(y, x)
    BY <2>1, <1>3
  <2> QED
    BY <2>2, BeforeOrders
<1>5. rank \in Injection(S, 1 .. n)
  <2>1. rank \in [S -> 1 .. n]
    <3> HIDE DEF Below
    <3> QED
      BY <1>1, <1>2
  <2>2. \A x, y \in S : rank[x] = rank[y] => x = y
    <3> HIDE DEF Below
    <3>1. \A x \in S : Cardinality(Below(x)) \in Nat
      BY <1>2
    <3> QED
      BY <3>1, <1>4
  <2> HIDE DEF rank
  <2> QED
    BY <2>1, <2>2 DEF Injection, IsInjective
<1>6. rank \in Surjection(S, 1 .. n)
  <2> HIDE DEF rank
  <2>1. IsFiniteSet(1 .. n) /\ Cardinality(1 .. n) = n
    BY <1>1, FS_Interval
  <2> QED
    BY <2>1, <1>5, FS_Injection
<1>7. order = [i \in 1 .. n |-> CHOOSE x \in S : Cardinality(Below(x)) = i - 1]
  BY DEF InTailOrder, InOrder
<1>8. ASSUME NEW i \in 1 .. n
      PROVE  order[i] \in S /\ Cardinality(Below(order[i])) = i - 1
  <2>1. PICK x \in S : rank[x] = i
    <3> HIDE DEF rank
    <3> QED
      BY <1>6 DEF Surjection
  <2>2. Cardinality(Below(x)) = i - 1
    <3> HIDE DEF Below
    <3>1. Cardinality(Below(x)) \in Nat
      BY <1>2
    <3> QED
      BY <2>1, <3>1
  <2> HIDE DEF order, Below
  <2>3. order[i] = CHOOSE y \in S : Cardinality(Below(y)) = i - 1
    BY <1>7
  <2> QED
    BY <2>2, <2>3
<1>9. ASSUME NEW x \in S
      PROVE  \E i \in 1 .. n : order[i] = x
  <2> DEFINE i == Cardinality(Below(x)) + 1
  <2>1. i \in 1 .. n /\ i - 1 = Cardinality(Below(x))
    <3> HIDE DEF Below
    <3> QED
      BY <1>1, <1>2
  <2> HIDE DEF i, Below, order
  <2>2. order[i] \in S /\ Cardinality(Below(order[i])) = Cardinality(Below(x))
    BY <1>8, <2>1
  <2> QED
    BY <1>4, <2>1, <2>2
<1>10. Len(order) = n
  <2> HIDE DEF n
  <2>1. order \in [1 .. n -> S]
    BY <1>1, <1>7, <1>8
  <2> QED
    BY <1>1, <2>1
<1>11. \A i, j \in 1 .. n : order[i] = order[j] => i = j
  <2> HIDE DEF order, Below, n
  <2> QED
    BY <1>8, <1>1
<1> QED
  BY <1>1, <1>8, <1>9, <1>10, <1>11

-----------------------------------------------------------------------------
(* The positions of the suffixes. *)

LEMMA SuffixFacts ==
    ASSUME NEW a \in Seq(Nat), NEW b \in Seq(Nat), IsSuffix(a, b)
    PROVE  /\ Len(a) <= Len(b)
           /\ \A j \in 1 .. Len(a) : a[j] = b[(Len(b) - Len(a)) + j]
<1> DEFINE ra == Reverse(a)
           rb == Reverse(b)
           n == Len(a)
           m == Len(b)
<1>1. /\ ra \in Seq(Nat) /\ Len(ra) = n /\ \A i \in 1 .. n : ra[i] = a[(n - i) + 1]
      /\ rb \in Seq(Nat) /\ Len(rb) = m /\ \A i \in 1 .. m : rb[i] = b[(m - i) + 1]
      /\ n \in Nat /\ m \in Nat
  BY ReverseFacts
<1> HIDE DEF ra, rb, n, m
<1>2. n <= m /\ SubSeq(ra, 1, n) = SubSeq(rb, 1, n)
  BY <1>1 DEF IsSuffix, IsPrefix, ra, rb
<1>3. ASSUME NEW i \in 1 .. n
      PROVE  ra[i] = rb[i]
  <2>1. SubSeq(ra, 1, n)[i] = ra[i]
    BY <1>1
  <2>2. SubSeq(rb, 1, n)[i] = rb[i]
    BY <1>1, <1>2
  <2> QED
    BY <2>1, <2>2, <1>2
<1>4. ASSUME NEW j \in 1 .. n
      PROVE  a[j] = b[(m - n) + j]
  <2> DEFINE i == (n - j) + 1
  <2>1. i \in 1 .. n /\ i \in 1 .. m /\ (n - i) + 1 = j /\ (m - i) + 1 = (m - n) + j
    BY <1>1, <1>2
  <2> HIDE DEF i
  <2> QED
    BY <2>1, <1>1, <1>3
<1> QED
  BY <1>2, <1>4 DEF n, m

LEMMA ConcatFacts ==
    ASSUME NEW a \in Seq(Nat), NEW b \in Seq(Nat)
    PROVE  /\ a \o b \in Seq(Nat) /\ Len(a \o b) = Len(a) + Len(b)
           /\ \A i \in 1 .. Len(a) : (a \o b)[i] = a[i]
           /\ \A i \in 1 .. Len(b) : (a \o b)[Len(a) + i] = b[i]
  OBVIOUS

LEMMA SubSeqFacts ==
    ASSUME NEW S, NEW a \in Seq(S), NEW lo \in 1 .. Len(a), NEW hi \in 1 .. Len(a), lo <= hi
    PROVE  /\ SubSeq(a, lo, hi) \in Seq(S) /\ Len(SubSeq(a, lo, hi)) = (hi - lo) + 1
           /\ \A j \in 1 .. (hi - lo) + 1 : SubSeq(a, lo, hi)[j] = a[(lo + j) - 1]
<1> DEFINE n == (hi - lo) + 1
           sub == SubSeq(a, lo, hi)
<1>1. n \in Nat /\ \A j \in 1 .. n : (lo + j) - 1 \in 1 .. Len(a)
  OBVIOUS
<1>2. sub = [j \in 1 .. n |-> a[(lo + j) - 1]]
  OBVIOUS
<1> HIDE DEF sub, n
<1> QED
  BY <1>1, <1>2 DEF sub, n

LEMMA SameSeq ==
    ASSUME NEW a \in Seq(Nat), NEW b \in Seq(Nat), Len(a) = Len(b),
           \A j \in 1 .. Len(a) : a[j] = b[j]
    PROVE  a = b
<1>1. a = [j \in 1 .. Len(a) |-> a[j]] /\ b = [j \in 1 .. Len(b) |-> b[j]]
  OBVIOUS
<1> QED
  BY <1>1

\* str stands at p in the tail and its end behind it, or on its last character.
Reads(t, p, str) ==
    /\ p \in Nat \ {0} /\ p + Len(str) <= Len(t.chars)
    /\ \A j \in 1 .. Len(str) : t.chars[p + j] = str[j]
    /\ IF t.bin THEN /\ (p + Len(str)) - 1 \in t.ends
                     /\ \A e \in t.ends : e >= p => e >= (p + Len(str)) - 1
       ELSE p + Len(str) < Len(t.chars) /\ t.chars[(p + Len(str)) + 1] = NUL

\* The suffixes in seen are stored, and prev is the last of them.
TailInv(t, bin, seen) ==
    /\ t.bin = bin /\ t.chars \in Seq(Nat) /\ t.chars # <<>> /\ t.chars[1] = NUL
    /\ t.ends \subseteq 1 .. Len(t.chars) - 1
    /\ t.prev \in Seq(Nat) /\ (t.prev # <<>> => Reads(t, t.pos, t.prev))
    /\ \A s \in seen : s.npos \in DOMAIN t.tpos /\ Reads(t, t.tpos[s.npos], s.str)

LEMMA ReadsEndOfOther ==
    ASSUME NEW t, NEW p, NEW a \in Seq(Nat), NEW b \in Seq(Nat), Reads(t, p, b), IsSuffix(a, b),
           t.ends \in SUBSET Nat, t.chars \in Seq(Nat)
    PROVE  Reads(t, (p + Len(b)) - Len(a), a)
<1>1. /\ Len(a) <= Len(b) /\ Len(a) \in Nat /\ Len(b) \in Nat
      /\ \A j \in 1 .. Len(a) : a[j] = b[(Len(b) - Len(a)) + j]
  BY SuffixFacts
<1> DEFINE n == Len(a)
           m == Len(b)
           q == (p + m) - n
<1>2. /\ p \in Nat \ {0} /\ p + m <= Len(t.chars)
      /\ \A j \in 1 .. m : t.chars[p + j] = b[j]
      /\ IF t.bin THEN /\ (p + m) - 1 \in t.ends
                       /\ \A e \in t.ends : e >= p => e >= (p + m) - 1
         ELSE p + m < Len(t.chars) /\ t.chars[(p + m) + 1] = NUL
  BY DEF Reads
<1>3. q \in Nat \ {0} /\ q + n = p + m /\ p <= q
  <2>1. p \in Nat \ {0} /\ n <= m /\ n \in Nat /\ m \in Nat
    BY <1>1, <1>2
  <2> HIDE DEF n, m
  <2> QED
    BY <2>1
<1>4. ASSUME NEW j \in 1 .. n
      PROVE  t.chars[q + j] = a[j]
  <2> DEFINE i == (m - n) + j
  <2>1. i \in 1 .. m /\ q + j = p + i
    BY <1>1, <1>2
  <2>2. a[j] = b[i]
    BY <1>1
  <2> HIDE DEF i, q
  <2> QED
    BY <2>1, <2>2, <1>2
<1> HIDE DEF q, n, m
<1>5. t.bin => /\ (q + n) - 1 \in t.ends
               /\ \A e \in t.ends : e >= q => e >= (q + n) - 1
  BY <1>1, <1>2, <1>3
<1>6. /\ q \in Nat \ {0} /\ q + n <= Len(t.chars)
      /\ ~t.bin => q + n < Len(t.chars) /\ t.chars[(q + n) + 1] = NUL
  BY <1>2, <1>3
<1> QED
  BY <1>4, <1>5, <1>6 DEF Reads, q, n, m

LEMMA ReadsOn ==
    ASSUME NEW t, NEW u, NEW p, NEW a \in Seq(Nat), Reads(t, p, a),
           t.chars \in Seq(Nat), u.chars \in Seq(Nat), u.bin = t.bin,
           Len(t.chars) <= Len(u.chars), \A i \in 1 .. Len(t.chars) : u.chars[i] = t.chars[i],
           t.ends \in SUBSET Nat, u.ends \in SUBSET Nat,
           t.ends \subseteq u.ends, \A e \in u.ends \ t.ends : Len(t.chars) <= e
    PROVE  Reads(u, p, a)
<1> DEFINE n == Len(a)
           k == Len(t.chars)
<1>1. /\ p \in Nat \ {0} /\ p + n <= k /\ n \in Nat /\ k \in Nat /\ Len(u.chars) \in Nat
      /\ \A j \in 1 .. n : t.chars[p + j] = a[j]
      /\ t.bin => /\ (p + n) - 1 \in t.ends
                  /\ \A e \in t.ends : e >= p => e >= (p + n) - 1
      /\ ~t.bin => p + n < k /\ t.chars[(p + n) + 1] = NUL
  <2>1. n \in Nat /\ k \in Nat /\ Len(u.chars) \in Nat
    OBVIOUS
  <2>2. /\ p \in Nat \ {0} /\ p + n <= k
        /\ \A j \in 1 .. n : t.chars[p + j] = a[j]
        /\ t.bin => /\ (p + n) - 1 \in t.ends
                    /\ \A e \in t.ends : e >= p => e >= (p + n) - 1
        /\ ~t.bin => p + n < k /\ t.chars[(p + n) + 1] = NUL
    BY Zenon DEF Reads
  <2> QED
    BY <2>1, <2>2, Zenon
<1> HIDE DEF n
<1>2. ASSUME NEW j \in 1 .. n
      PROVE  u.chars[p + j] = a[j]
  <2>1. p + j \in 1 .. k
    BY <1>1
  <2> QED
    BY <2>1, <1>1
<1>3. t.bin => /\ (p + n) - 1 \in u.ends
               /\ \A e \in u.ends : e >= p => e >= (p + n) - 1
  <2> HAVE t.bin
  <2>1. (p + n) - 1 \in u.ends
    BY <1>1
  <2>2. ASSUME NEW e \in u.ends, e >= p
        PROVE  e >= (p + n) - 1
    <3>1. CASE e \in t.ends
      BY <1>1, <2>2, <3>1
    <3>2. CASE e \notin t.ends
      <4>1. k <= e /\ e \in Nat
        BY <3>2
      <4> HIDE DEF k
      <4> QED
        BY <1>1, <4>1
    <3> QED
      BY <3>1, <3>2
  <2> QED
    BY <2>1, <2>2
<1>4. ~t.bin => p + n < Len(u.chars) /\ u.chars[(p + n) + 1] = NUL
  <2> HAVE ~t.bin
  <2>0. p \in Nat /\ n \in Nat /\ k \in Nat /\ p + n < k /\ k <= Len(u.chars)
        /\ t.chars[(p + n) + 1] = NUL
    BY <1>1
  <2>1. /\ (p + n) + 1 \in 1 .. k /\ p + n \in Nat /\ p + n < k /\ k <= Len(u.chars)
        /\ t.chars[(p + n) + 1] = NUL
    BY ONLY <2>0
  <2>2. u.chars[(p + n) + 1] = t.chars[(p + n) + 1]
    BY <2>1
  <2> QED
    BY <2>1, <2>2, <1>1
<1>5. p + n <= Len(u.chars)
  BY <1>1
<1> QED
  BY <1>1, <1>2, <1>3, <1>4, <1>5 DEF Reads, n

\* A round of the loop stores one more suffix and leaves the others readable.
LEMMA AddSuffixReads ==
    ASSUME NEW t, NEW bin \in BOOLEAN, NEW seen \in SUBSET TailSuffix, TailInv(t, bin, seen),
           NEW s \in TailSuffix, \A x \in seen : x.npos # s.npos
    PROVE  TailInv(AddSuffix(t, s), bin, seen \cup {s}) /\ AddSuffix(t, s).prev = s.str
<1> DEFINE shared == t.prev # <<>> /\ IsSuffix(s.str, t.prev)
           pos    == IF shared THEN t.pos + Len(t.prev) - Len(s.str) ELSE Len(t.chars)
           chars  == IF shared THEN t.chars
                     ELSE t.chars \o s.str \o (IF t.bin THEN <<>> ELSE <<NUL>>)
           ends   == IF shared \/ ~t.bin THEN t.ends ELSE t.ends \cup {Len(chars) - 1}
           tpos   == [i \in DOMAIN t.tpos \cup {s.npos} |-> IF i = s.npos THEN pos ELSE t.tpos[i]]
           u      == AddSuffix(t, s)
<1>1. u = [chars |-> chars, ends |-> ends, bin |-> t.bin, prev |-> s.str, pos |-> pos, tpos |-> tpos]
  BY DEF AddSuffix
<1>2. /\ t.bin = bin /\ t.chars \in Seq(Nat) /\ t.chars # <<>> /\ Len(t.chars) \in Nat \ {0}
      /\ t.ends \in SUBSET Nat /\ t.ends \subseteq 1 .. Len(t.chars) - 1 /\ t.chars[1] = NUL
      /\ t.prev \in Seq(Nat) /\ (t.prev # <<>> => Reads(t, t.pos, t.prev))
      /\ \A x \in seen : x.npos \in DOMAIN t.tpos /\ Reads(t, t.tpos[x.npos], x.str)
  BY DEF TailInv
<1>3. s.str \in Seq(Nat) /\ s.str # <<>> /\ Len(s.str) \in Nat \ {0}
  BY DEF TailSuffix
<1> HIDE DEF shared, pos, chars, ends, tpos, u
<1>4. /\ u.chars = chars /\ u.ends = ends /\ u.bin = t.bin /\ u.prev = s.str /\ u.pos = pos /\ u.tpos = tpos
  BY <1>1, <1>2
<1>5. ASSUME shared
      PROVE  /\ chars = t.chars /\ ends = t.ends
             /\ Reads(u, pos, s.str)
  <2>1. chars = t.chars /\ ends = t.ends /\ t.prev # <<>> /\ IsSuffix(s.str, t.prev)
    BY <1>5 DEF shared, chars, ends
  <2>2. Reads(t, (t.pos + Len(t.prev)) - Len(s.str), s.str)
    BY <2>1, <1>2, <1>3, ReadsEndOfOther
  <2>3. pos = (t.pos + Len(t.prev)) - Len(s.str)
    <3>1. t.pos \in Nat /\ Len(t.prev) \in Nat
      BY <2>1, <1>2 DEF Reads
    <3>2. pos = t.pos + Len(t.prev) - Len(s.str)
      BY <1>5 DEF pos
    <3> DEFINE m == Len(t.prev)
               n == Len(s.str)
    <3>3. pos = t.pos + (m - n) /\ m \in Nat /\ n \in Nat
      BY <3>1, <3>2, <1>3
    <3> HIDE DEF m, n
    <3>4. pos = (t.pos + m) - n
      BY <3>1, <3>3
    <3> QED
      BY <3>4 DEF m, n
  <2>4. Reads(u, pos, s.str)
    <3>1. Reads(t, pos, s.str)
      BY <2>2, <2>3
    <3>2. /\ u.chars = t.chars /\ u.ends = t.ends /\ u.bin = t.bin
          /\ t.chars \in Seq(Nat) /\ Len(t.chars) <= Len(t.chars) /\ t.ends \in SUBSET Nat
      BY <2>1, <1>2, <1>4
    <3> QED
      BY <3>1, <3>2 DEF Reads
  <2> QED
    BY <2>1, <2>4
<1>6. ASSUME ~shared
      PROVE  /\ chars \in Seq(Nat) /\ Len(t.chars) <= Len(chars)
             /\ \A i \in 1 .. Len(t.chars) : chars[i] = t.chars[i]
             /\ t.ends \subseteq ends /\ ends \subseteq 1 .. Len(chars) - 1
             /\ \A e \in ends \ t.ends : Len(t.chars) <= e
             /\ Reads(u, pos, s.str)
  <2> DEFINE k == Len(t.chars)
             n == Len(s.str)
             mid == t.chars \o s.str
             stop == IF t.bin THEN <<>> ELSE <<NUL>>
  <2>1. /\ pos = k /\ k \in Nat \ {0} /\ n \in Nat \ {0}
        /\ chars = mid \o stop
    BY <1>2, <1>3, <1>6 DEF pos, chars
  <2>2. /\ mid \in Seq(Nat) /\ Len(mid) = k + n
        /\ \A i \in 1 .. k : mid[i] = t.chars[i]
        /\ \A i \in 1 .. n : mid[k + i] = s.str[i]
    BY <1>2, <1>3, ConcatFacts
  <2>3. stop \in Seq(Nat) /\ (t.bin => Len(stop) = 0) /\ (~t.bin => Len(stop) = 1 /\ stop[1] = NUL)
    BY <1>2 DEF NUL
  <2> HIDE DEF mid, stop
  <2>4. /\ chars \in Seq(Nat) /\ Len(chars) = (k + n) + Len(stop)
        /\ \A i \in 1 .. k + n : chars[i] = mid[i]
        /\ ~t.bin => chars[(k + n) + 1] = NUL
    <3>1. /\ chars \in Seq(Nat) /\ Len(chars) = (k + n) + Len(stop)
          /\ \A i \in 1 .. k + n : chars[i] = mid[i]
          /\ \A i \in 1 .. Len(stop) : chars[(k + n) + i] = stop[i]
      <4>1. /\ mid \o stop \in Seq(Nat) /\ Len(mid \o stop) = Len(mid) + Len(stop)
            /\ \A i \in 1 .. Len(mid) : (mid \o stop)[i] = mid[i]
            /\ \A i \in 1 .. Len(stop) : (mid \o stop)[Len(mid) + i] = stop[i]
        BY <2>2, <2>3, ConcatFacts
      <4> HIDE DEF k, n
      <4> QED
        BY <4>1, <2>1, <2>2
    <3> HIDE DEF k, n
    <3> QED
      BY <3>1, <2>3
  <2> HIDE DEF n
  <2>5. /\ k <= Len(chars) /\ \A i \in 1 .. k : chars[i] = t.chars[i]
    <3>1. Len(stop) \in Nat
      BY <2>3
    <3>2. k <= Len(chars)
      BY <3>1, <2>1, <2>4
    <3>3. ASSUME NEW i \in 1 .. k
          PROVE  chars[i] = t.chars[i]
      <4>1. i \in 1 .. k + n
        BY <2>1
      <4> QED
        BY <4>1, <2>2, <2>4
    <3> QED
      BY <3>2, <3>3
  <2>6. ASSUME NEW i \in 1 .. n
        PROVE  chars[k + i] = s.str[i]
    <3>1. k + i \in 1 .. k + n
      BY <2>1
    <3> QED
      BY <3>1, <2>2, <2>4
  <2>7. /\ t.bin => ends = t.ends \cup {(k + n) - 1} /\ Len(chars) = k + n
        /\ ~t.bin => ends = t.ends /\ Len(chars) = (k + n) + 1
    <3>1. CASE t.bin
      BY <3>1, <2>1, <2>3, <2>4, <1>6 DEF ends
    <3>2. CASE ~t.bin
      BY <3>2, <2>1, <2>3, <2>4, <1>6 DEF ends
    <3> QED
      BY <3>1, <3>2
  <2>8. t.ends \subseteq 1 .. k - 1
    BY <1>2
  <2> HIDE DEF k
  <2>9. /\ t.ends \subseteq ends /\ ends \subseteq 1 .. Len(chars) - 1
        /\ \A e \in ends \ t.ends : k <= e
    <3>1. CASE t.bin
      BY <3>1, <2>1, <2>7, <2>8
    <3>2. CASE ~t.bin
      BY <3>2, <2>1, <2>7, <2>8
    <3> QED
      BY <3>1, <3>2
  <2>10. Reads(u, pos, s.str)
    <3>1. pos \in Nat \ {0} /\ pos + n <= Len(chars)
      <4>1. CASE t.bin
        BY <4>1, <2>1, <2>7
      <4>2. CASE ~t.bin
        BY <4>2, <2>1, <2>7
      <4> QED
        BY <4>1, <4>2
    <3>2. CASE t.bin
      <4>1. (pos + n) - 1 \in ends
        BY <3>2, <2>1, <2>7
      <4>2. \A e \in ends : e >= pos => e >= (pos + n) - 1
        BY <3>2, <2>1, <2>7, <2>8
      <4> QED
        BY <3>1, <3>2, <4>1, <4>2, <2>1, <2>6, <1>4 DEF Reads, n
    <3>3. CASE ~t.bin
      <4>1. pos + n < Len(chars)
        BY <3>3, <2>1, <2>7
      <4>2. chars[(pos + n) + 1] = NUL
        BY <3>3, <2>1, <2>4
      <4> QED
        BY <3>1, <3>3, <4>1, <4>2, <2>1, <2>6, <1>4 DEF Reads, n
    <3> QED
      BY <3>2, <3>3
  <2> QED
    BY <2>4, <2>5, <2>9, <2>10 DEF k
<1>7. /\ chars \in Seq(Nat) /\ Len(t.chars) <= Len(chars)
      /\ \A i \in 1 .. Len(t.chars) : chars[i] = t.chars[i]
      /\ t.ends \subseteq ends /\ ends \subseteq 1 .. Len(chars) - 1
      /\ \A e \in ends \ t.ends : Len(t.chars) <= e
      /\ Reads(u, pos, s.str)
  BY <1>2, <1>5, <1>6
<1>8. /\ DOMAIN tpos = {s.npos} \cup DOMAIN t.tpos /\ tpos[s.npos] = pos
      /\ \A i \in DOMAIN t.tpos : i # s.npos => tpos[i] = t.tpos[i]
  BY DEF tpos
<1>9. ASSUME NEW x \in seen
      PROVE  x.npos \in DOMAIN tpos /\ Reads(u, tpos[x.npos], x.str)
  <2>1. /\ x.npos \in DOMAIN t.tpos /\ Reads(t, t.tpos[x.npos], x.str)
        /\ tpos[x.npos] = t.tpos[x.npos] /\ x.npos \in DOMAIN tpos
    BY <1>2, <1>8
  <2>2. x.str \in Seq(Nat)
    BY DEF TailSuffix
  <2>3. ends \in SUBSET Nat
    BY <1>7
  <2>4. Reads(u, t.tpos[x.npos], x.str)
    BY <2>1, <2>2, <2>3, <1>2, <1>4, <1>7, ReadsOn
  <2> QED
    BY <2>1, <2>4
<1>10. chars # <<>> /\ chars[1] = NUL
  <2>1. 1 \in 1 .. Len(t.chars) /\ Len(chars) # 0
    BY <1>2, <1>7
  <2>2. chars[1] = t.chars[1]
    BY <2>1, <1>7
  <2>3. chars # <<>>
    BY ONLY <2>1
  <2> QED
    BY <2>2, <2>3, <1>2
<1> QED
  BY <1>3, <1>4, <1>7, <1>8, <1>9, <1>10 DEF TailInv, u

\* complete() stores every suffix.
LEMMA CompleteTailReads ==
    ASSUME NEW S \in SUBSET TailSuffix, IsFiniteSet(S), NEW bin \in BOOLEAN,
           \A s, x \in S : s.npos = x.npos => s = x
    PROVE  TailInv(CompleteTail(S, bin), bin, S)
<1> DEFINE order == InTailOrder(S)
           k == Cardinality(S)
           Step(g, n) == AddSuffix(g, order[n])
           Loop(m, g) == g = [n \in 0 .. m |-> IF n = 0 THEN EmptyTail(bin) ELSE Step(g[n - 1], n)]
           Done == CHOOSE g : Loop(k, g)
           Seen(n) == {order[i] : i \in 1 .. n}
<1>0. /\ k \in Nat /\ Len(order) = k
      /\ \A i \in 1 .. k : order[i] \in S
      /\ \A x \in S : \E i \in 1 .. k : order[i] = x
      /\ \A i, j \in 1 .. k : order[i] = order[j] => i = j
  <2> HIDE DEF order, k
  <2> QED
    BY OrderIsComplete DEF order, k
<1> HIDE DEF order, k
<1>1. \E g : Loop(k, g)
  <2> HIDE DEF Step
  <2> DEFINE R == {m \in 0 .. k : \E g : Loop(m, g)}
  <2>1. 0 \in R
    <3>1. Loop(0, [n \in 0 .. 0 |-> EmptyTail(bin)])
      OBVIOUS
    <3> HIDE DEF Loop
    <3> QED
      BY <3>1, <1>0
  <2>2. ASSUME NEW m \in 0 .. k - 1, m \in R
        PROVE  m + 1 \in R
    <3>1. PICK g : Loop(m, g)
      BY <2>2
    <3> DEFINE h == [n \in 0 .. m + 1 |-> IF n = m + 1 THEN Step(g[m], m + 1) ELSE g[n]]
    <3>2. ASSUME NEW n \in 0 .. m + 1
          PROVE  h[n] = IF n = 0 THEN EmptyTail(bin) ELSE Step(h[n - 1], n)
      <4>1. CASE n = m + 1
        <5>1. h[n - 1] = g[m] /\ n # 0
          BY <4>1, <1>0
        <5> QED
          BY <5>1, <4>1
      <4>2. CASE n # m + 1
        <5>1. n \in 0 .. m /\ h[n] = g[n] /\ (n # 0 => h[n - 1] = g[n - 1])
          BY <4>2, <1>0
        <5>2. g[n] = IF n = 0 THEN EmptyTail(bin) ELSE Step(g[n - 1], n)
          BY <3>1, <5>1
        <5> QED
          BY <5>1, <5>2
      <4> QED
        BY <4>1, <4>2
    <3>3. Loop(m + 1, h)
      <4>1. h = [n \in 0 .. m + 1 |-> h[n]]
        OBVIOUS
      <4> HIDE DEF h
      <4> QED
        BY <4>1, <3>2
    <3> HIDE DEF Loop, h
    <3> QED
      BY <3>3, <1>0
  <2> HIDE DEF Loop
  <2>3. \A n \in 0 .. k : n \in R
    <3> HIDE DEF R
    <3> QED
      BY <2>1, <2>2, <1>0, Rounds
  <2> QED
    BY <2>3, <1>0
<1>2. Loop(k, Done)
  <2> HIDE DEF Loop
  <2> QED
    BY <1>1
<1>3. Done[0] = EmptyTail(bin) /\ \A n \in 1 .. k : Done[n] = AddSuffix(Done[n - 1], order[n])
  <2> HIDE DEF Done
  <2> QED
    BY <1>2, <1>0
<1>4. CompleteTail(S, bin) = Done[k]
  <2>1. CompleteTail(S, bin) =
          LET D == CHOOSE g : g = [n \in 0 .. Len(order) |->
                       IF n = 0 THEN EmptyTail(bin) ELSE AddSuffix(g[n - 1], order[n])]
          IN  D[Len(order)]
    BY DEF CompleteTail, order
  <2> QED
    BY <2>1, <1>0
<1> HIDE DEF Done, Loop
<1>5. \A n \in 0 .. k : TailInv(Done[n], bin, Seen(n))
  <2> DEFINE R == {n \in 0 .. k : TailInv(Done[n], bin, Seen(n))}
  <2>1. 0 \in R
    <3>1. Seen(0) = {}
      OBVIOUS
    <3>2. TailInv(EmptyTail(bin), bin, {})
      BY DEF TailInv, EmptyTail, NUL
    <3> HIDE DEF Seen
    <3>3. TailInv(Done[0], bin, Seen(0))
      BY <3>1, <3>2, <1>3, Zenon
    <3> QED
      BY <3>3, <1>0
  <2>2. ASSUME NEW n \in 0 .. k - 1, n \in R
        PROVE  n + 1 \in R
    <3> DEFINE s == order[n + 1]
               t == Done[n]
    <3>1. n + 1 \in 1 .. k /\ n + 1 - 1 = n /\ n \in Nat
      BY <1>0
    <3>2. TailInv(t, bin, Seen(n))
      BY <2>2
    <3>3. Done[n + 1] = AddSuffix(t, s)
      BY <3>1, <1>3
    <3>4. Seen(n + 1) = Seen(n) \cup {s}
      BY <3>1
    <3>5. s \in TailSuffix /\ Seen(n) \in SUBSET TailSuffix
      BY <3>1, <1>0
    <3>6. \A x \in Seen(n) : x.npos # s.npos
      <4> SUFFICES ASSUME NEW i \in 1 .. n, order[i].npos = order[n + 1].npos
                   PROVE  FALSE
        OBVIOUS
      <4>1. i \in 1 .. k /\ i # n + 1
        BY <3>1, <1>0
      <4> QED
        BY <4>1, <3>1, <1>0
    <3> HIDE DEF s, t, Seen
    <3>7. TailInv(AddSuffix(t, s), bin, Seen(n) \cup {s})
      BY <3>2, <3>5, <3>6, AddSuffixReads
    <3> QED
      BY <3>1, <3>3, <3>4, <3>7
  <2>3. \A n \in 0 .. k : n \in R
    <3> HIDE DEF R
    <3> QED
      BY <2>1, <2>2, <1>0, Rounds
  <2> QED
    BY <2>3
<1>6. Seen(k) = S
  BY <1>0
<1> HIDE DEF Seen
<1> QED
  BY <1>0, <1>4, <1>5, <1>6

\* A query at the position of a suffix reads that suffix and no more.
LEMMA RunReads ==
    ASSUME NEW t, NEW p, NEW str \in Seq(Nat) \ {<<>>}, Reads(t, p, str),
           t.chars \in Seq(Nat), t.ends \in SUBSET Nat,
           ~t.bin => \A j \in 1 .. Len(str) : str[j] # NUL
    PROVE  Run(t, p) = str
<1> DEFINE n == Len(str)
           k == Len(t.chars)
<1>1. /\ p \in Nat \ {0} /\ n \in Nat \ {0} /\ k \in Nat /\ p + n <= k
      /\ \A j \in 1 .. n : t.chars[p + j] = str[j]
      /\ t.bin => /\ (p + n) - 1 \in t.ends
                  /\ \A e \in t.ends : e >= p => e >= (p + n) - 1
      /\ ~t.bin => p + n < k /\ t.chars[(p + n) + 1] = NUL
  BY DEF Reads
<1> HIDE DEF n, k
<1>2. SubSeq(t.chars, p + 1, p + n) = str
  <2>1. /\ SubSeq(t.chars, p + 1, p + n) \in Seq(Nat)
        /\ Len(SubSeq(t.chars, p + 1, p + n)) = n
        /\ \A j \in 1 .. n : SubSeq(t.chars, p + 1, p + n)[j] = t.chars[p + j]
    <3> DEFINE lo == p + 1
               hi == p + n
               sub == SubSeq(t.chars, lo, hi)
    <3>1. lo \in 1 .. k /\ hi \in 1 .. k /\ lo <= hi /\ lo \in Nat /\ hi \in Nat /\ (hi - lo) + 1 = n
      BY <1>1
    <3>2. \A j \in 1 .. n : (lo + j) - 1 = p + j /\ p + j \in 1 .. k
      BY <1>1
    <3> HIDE DEF lo, hi
    <3>3. sub \in Seq(Nat) /\ Len(sub) = n /\ \A j \in 1 .. n : sub[j] = t.chars[(lo + j) - 1]
      <4>1. /\ lo \in 1 .. Len(t.chars) /\ hi \in 1 .. Len(t.chars) /\ lo <= hi
        BY <3>1 DEF k
      <4>2. /\ SubSeq(t.chars, lo, hi) \in Seq(Nat) /\ Len(SubSeq(t.chars, lo, hi)) = (hi - lo) + 1
            /\ \A j \in 1 .. (hi - lo) + 1 : SubSeq(t.chars, lo, hi)[j] = t.chars[(lo + j) - 1]
        <5>1. t.chars \in Seq(Nat)
          OBVIOUS
        <5> QED
          BY ONLY <4>1, <5>1, SubSeqFacts
      <4> QED
        BY <3>1, <4>2
    <3> QED
      BY <3>2, <3>3 DEF lo, hi
  <2> DEFINE sub == SubSeq(t.chars, p + 1, p + n)
  <2> HIDE DEF sub
  <2>2. sub \in Seq(Nat) /\ Len(sub) = Len(str)
    BY <2>1 DEF sub, n
  <2>3. \A j \in 1 .. n : sub[j] = str[j]
    BY <2>1, <1>1 DEF sub
  <2> QED
    BY <2>2, <2>3, SameSeq DEF sub, n
<1>3. CASE t.bin
  <2> DEFINE stops == {e \in t.ends : e >= p}
  <2>1. (p + n) - 1 \in stops /\ stops \in SUBSET Nat /\ \A e \in stops : e >= (p + n) - 1
    BY <1>1, <1>3
  <2>2. Run(t, p) = IF stops = {} THEN <<>> ELSE SubSeq(t.chars, p + 1, Min(stops) + 1)
    BY <1>3 DEF Run
  <2> HIDE DEF stops
  <2>3. Min(stops) = (p + n) - 1
    <3>1. Min(stops) \in Nat /\ Min(stops) <= (p + n) - 1 /\ Min(stops) >= (p + n) - 1
      BY <2>1, MinFacts
    <3>2. (p + n) - 1 \in Nat
      BY <2>1
    <3> QED
      BY <3>1, <3>2
  <2>4. Min(stops) + 1 = p + n
    BY <2>3, <1>1
  <2> QED
    BY <2>1, <2>2, <2>4, <1>2
<1>4. CASE ~t.bin
  <2> DEFINE stops == {q \in p .. k - 1 : At(t, q) = NUL}
  <2>1. p + n \in stops
    BY <1>1, <1>4 DEF At
  <2>2. stops \in SUBSET Nat /\ \A e \in stops : e >= p + n
    <3> SUFFICES ASSUME NEW e \in p .. k - 1, At(t, e) = NUL, e < p + n
                 PROVE  FALSE
      BY <1>1
    <3> DEFINE j == (e - p) + 1
    <3>1. j \in 1 .. n /\ p + j = e + 1
      BY <1>1
    <3> HIDE DEF j
    <3>2. str[j] = NUL
      BY <3>1, <1>1 DEF At
    <3> QED
      BY <3>1, <3>2, <1>4 DEF n
  <2>3. Run(t, p) = IF stops = {} THEN <<>> ELSE SubSeq(t.chars, p + 1, Min(stops))
    BY <1>4 DEF Run, k
  <2> HIDE DEF stops
  <2>4. Min(stops) = p + n
    <3>1. Min(stops) \in Nat /\ Min(stops) <= p + n /\ Min(stops) >= p + n
      BY <2>1, <2>2, MinFacts
    <3>2. p + n \in Nat
      BY <2>1, <2>2
    <3> QED
      BY <3>1, <3>2
  <2> QED
    BY <2>1, <2>3, <2>4, <1>2
<1> QED
  BY <1>3, <1>4
=============================================================================

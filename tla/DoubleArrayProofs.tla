------------------------- MODULE DoubleArrayProofs -------------------------
(***************************************************************************)
(* Theorems of DoubleArray: the free list, the units of the nodes and the  *)
(* types, for every block size, every list of keys and every order of the  *)
(* codes.                                                                  *)
(***************************************************************************)
EXTENDS DoubleArray, TailVectorProofs

-----------------------------------------------------------------------------
(* Blocks. *)

LEMMA Division ==
    ASSUME NEW n \in Nat
    PROVE  /\ BlockOf(n) \in Nat /\ n % BlockSize \in 0 .. BlockSize - 1
           /\ n = BlockOf(n) * BlockSize + (n % BlockSize)
  BY BlockAssumption DEF BlockOf

LEMMA BlockUnique ==
    ASSUME NEW b \in Nat, NEW r \in 0 .. BlockSize - 1
    PROVE  /\ b * BlockSize + r \in Nat
           /\ BlockOf(b * BlockSize + r) = b
           /\ (b * BlockSize + r) % BlockSize = r
  BY BlockAssumption DEF BlockOf

LEMMA BlockOrder ==
    ASSUME NEW m \in Nat, NEW n \in Nat, m <= n
    PROVE  BlockOf(m) <= BlockOf(n)
  BY BlockAssumption DEF BlockOf

\* The units of block b are its BlockSize units in a row.
LEMMA BlockUnits ==
    ASSUME NEW b \in Nat, NEW n \in Nat, BlockOf(n) = b
    PROVE  n - b * BlockSize \in 0 .. BlockSize - 1
<1>1. n = BlockOf(n) * BlockSize + (n % BlockSize) /\ n % BlockSize \in 0 .. BlockSize - 1
  BY Division
<1>2. b * BlockSize \in Nat
  BY BlockAssumption
<1>3. n = b * BlockSize + (n % BlockSize)
  BY <1>1
<1> HIDE DEF BlockOf
<1> QED
  BY <1>1, <1>2, <1>3

LEMMA ChildFacts ==
    ASSUME code \in Bijection(Chars, Chars), NEW base \in Nat, NEW ch \in Chars
    PROVE  /\ Child(base, ch) \in Nat
           /\ BlockOf(Child(base, ch)) = BlockOf(base)
           /\ Child(base, ch) % BlockSize = XorLow[<<base % BlockSize, code[ch]>>]
           /\ XorLow[<<base % BlockSize, code[ch]>>] \in Chars
<1>1. BlockOf(base) \in Nat /\ base % BlockSize \in Chars
  BY Division DEF Chars
<1>2. code[ch] \in Chars
  BY DEF Bijection, Injection
<1>3. XorLow[<<base % BlockSize, code[ch]>>] \in Chars
  BY <1>1, <1>2, XorAssumption
<1> QED
  BY <1>1, <1>3, BlockUnique DEF Child, Chars

\* Different characters have different children.
LEMMA ChildInjective ==
    ASSUME code \in Bijection(Chars, Chars), NEW base \in Nat,
           NEW c \in Chars, NEW d \in Chars, Child(base, c) = Child(base, d)
    PROVE  c = d
<1> DEFINE x == base % BlockSize
<1>1. x \in Chars /\ code[c] \in Chars /\ code[d] \in Chars
  BY Division DEF Chars, Bijection, Injection
<1>2. XorLow[<<x, code[c]>>] = XorLow[<<x, code[d]>>]
  <2>1. Child(base, c) % BlockSize = XorLow[<<x, code[c]>>]
    BY ChildFacts
  <2>2. Child(base, d) % BlockSize = XorLow[<<x, code[d]>>]
    BY ChildFacts
  <2> QED
    BY <2>1, <2>2
<1> HIDE DEF x
<1>3. XorLow[<<code[c], x>>] = XorLow[<<code[d], x>>]
  BY <1>1, <1>2, XorAssumption
<1>4. /\ XorLow[<<XorLow[<<code[c], x>>], x>>] = code[c]
      /\ XorLow[<<XorLow[<<code[d], x>>], x>>] = code[d]
  BY <1>1, XorAssumption
<1>5. code[c] = code[d]
  BY <1>3, <1>4
<1> QED
  BY <1>5 DEF Bijection, Injection, IsInjective

-----------------------------------------------------------------------------
(* The invariant of the array. *)

Array(n) ==
    [size : {n}, base : [0 .. n - 1 -> Nat], check : [0 .. n - 1 -> 0 .. n - 1],
     useds : SUBSET (0 .. n - 1), heads : [0 .. BlockOf(n) - 1 -> 0 .. n - 1]]

\* A whole number of blocks, at least one; the head of the list counts as used.
WellFormed(a) ==
    /\ a.size \in Nat /\ BlockSize <= a.size /\ a.size = BlockOf(a.size) * BlockSize
    /\ a \in Array(a.size)
    /\ taboo_npos \in a.useds

Free(a) == {i \in (0 .. a.size - 1) \ a.useds : a.base[i] # i}

\* No element of F lies between i and j; taboo_npos stands for both ends.
Goes(F, i, j) ==
    /\ i # taboo_npos /\ j # taboo_npos => i < j
    /\ \A k \in F : ~((i = taboo_npos \/ i < k) /\ (j = taboo_npos \/ k < j))

LinksOK(a) ==
    \A i \in Free(a) \cup {taboo_npos} :
        /\ a.base[i] \in Free(a) \cup {taboo_npos}  /\ Goes(Free(a), i, a.base[i])
        /\ a.check[i] \in Free(a) \cup {taboo_npos} /\ Goes(Free(a), a.check[i], i)

HeadOK(F, b, h) ==
    /\ h \in F \cup {taboo_npos}
    /\ h # taboo_npos => BlockOf(h) = b
    /\ \A k \in F : BlockOf(k) = b => h # taboo_npos /\ h <= k

HeadsOK(a) == \A b \in 0 .. BlockOf(a.size) - 1 : HeadOK(Free(a), b, a.heads[b])

\* An unused unit that is not on the list points at itself both ways.
ClosedOK(a) == \A i \in (0 .. a.size - 1) \ a.useds : i \notin Free(a) => a.check[i] = i

ArrayInv(a) == WellFormed(a) /\ LinksOK(a) /\ HeadsOK(a) /\ ClosedOK(a)

\* A block is closed as a whole.
BlocksWhole(a) ==
    \A i, j \in (0 .. a.size - 1) \ a.useds :
        BlockOf(i) = BlockOf(j) /\ i \in Free(a) => j \in Free(a)

\* What is off the list stays as it is.
Keeps(a, b) ==
    /\ \A i \in (0 .. a.size - 1) \ (Free(a) \cup {taboo_npos}) : b.base[i] = a.base[i]
    /\ \A i \in (0 .. a.size - 1) \ (Free(a) \cup {taboo_npos}) : b.check[i] = a.check[i]

LEMMA FreeType ==
    ASSUME NEW a, WellFormed(a)
    PROVE  /\ Free(a) \subseteq 0 .. a.size - 1 /\ taboo_npos \notin Free(a)
           /\ taboo_npos \in 0 .. a.size - 1
           /\ Free(a) \cap a.useds = {}
  BY BlockAssumption DEF WellFormed, Free, Array, taboo_npos

\* Every unit belongs to a block that has a head.
LEMMA UnitBlock ==
    ASSUME NEW a, WellFormed(a), NEW i \in 0 .. a.size - 1
    PROVE  BlockOf(i) \in 0 .. BlockOf(a.size) - 1
<1>1. i \in Nat /\ a.size \in Nat /\ a.size = BlockOf(a.size) * BlockSize /\ i < a.size
  BY DEF WellFormed
<1>2. BlockOf(i) \in Nat /\ BlockOf(a.size) \in Nat
  BY <1>1, Division
<1>3. i = BlockOf(i) * BlockSize + (i % BlockSize) /\ i % BlockSize \in 0 .. BlockSize - 1
  BY <1>1, Division
<1>4. BlockOf(i) < BlockOf(a.size)
  <2> DEFINE p == BlockOf(i)
             q == BlockOf(a.size)
             r == i % BlockSize
  <2>1. p * BlockSize + r < q * BlockSize /\ p \in Nat /\ q \in Nat /\ r \in Nat
    BY <1>1, <1>2, <1>3
  <2> HIDE DEF p, q, r
  <2>2. q <= p => q * BlockSize <= p * BlockSize
    BY <2>1, BlockAssumption
  <2>3. p * BlockSize \in Nat /\ q * BlockSize \in Nat
    BY <2>1, BlockAssumption
  <2>4. ~(q <= p)
    BY <2>1, <2>2, <2>3
  <2>5. p < q
    BY <2>1, <2>4
  <2> QED
    BY <2>5 DEF p, q
<1> QED
  BY <1>2, <1>4

\* Of two list elements that follow the same one, both are the same.
LEMMA GoesUnique ==
    ASSUME NEW F \in SUBSET Nat, taboo_npos \notin F,
           NEW i \in F \cup {taboo_npos}, NEW j \in F \cup {taboo_npos}, NEW k \in F \cup {taboo_npos}
    PROVE  /\ Goes(F, i, j) /\ Goes(F, i, k) => j = k
           /\ Goes(F, j, i) /\ Goes(F, k, i) => j = k
  BY DEF Goes, taboo_npos

\* A free place is followed by one place only.
LEMMA OneSuccessor ==
    ASSUME NEW F \in SUBSET Nat, taboo_npos \notin F,
           NEW i \in F \cup {taboo_npos}, NEW j \in F \cup {taboo_npos}, NEW k \in F \cup {taboo_npos},
           Goes(F, i, j), Goes(F, i, k)
    PROVE  j = k
  BY GoesUnique

\* A free place is preceded by one place only.
LEMMA OnePredecessor ==
    ASSUME NEW F \in SUBSET Nat, taboo_npos \notin F,
           NEW i \in F \cup {taboo_npos}, NEW j \in F \cup {taboo_npos}, NEW k \in F \cup {taboo_npos},
           Goes(F, j, i), Goes(F, k, i)
    PROVE  j = k
  BY GoesUnique

-----------------------------------------------------------------------------
(* use_unit *)

\* The fields of the array after use_unit.
LEMMA UseFields ==
    ASSUME NEW a, WellFormed(a), NEW n \in 0 .. a.size - 1,
           a.base[n] \in 0 .. a.size - 1
    PROVE  LET b == UseUnit(a, n)
               lpos == BlockOf(n)
               head == IF BlockOf(a.base[n]) = lpos THEN a.base[n] ELSE taboo_npos
           IN  /\ b.size = a.size
               /\ b.base = [a.base EXCEPT ![a.check[n]] = a.base[n]]
               /\ b.check = [a.check EXCEPT ![a.base[n]] = a.check[n]]
               /\ b.useds = a.useds \cup {n}
               /\ b.heads = IF a.heads[lpos] = n THEN [a.heads EXCEPT ![lpos] = head] ELSE a.heads
               /\ b \in Array(a.size)
<1> DEFINE b == UseUnit(a, n)
           lpos == BlockOf(n)
           head == IF BlockOf(a.base[n]) = lpos THEN a.base[n] ELSE taboo_npos
           heads == IF a.heads[lpos] = n THEN [a.heads EXCEPT ![lpos] = head] ELSE a.heads
           U == 0 .. a.size - 1
<1>1. /\ a.size \in Nat /\ a.base \in [U -> Nat] /\ a.check \in [U -> U]
      /\ a.useds \subseteq U /\ a.heads \in [0 .. BlockOf(a.size) - 1 -> U]
  BY DEF WellFormed, Array
<1>3. b = [size |-> a.size, base |-> [a.base EXCEPT ![a.check[n]] = a.base[n]],
           check |-> [a.check EXCEPT ![a.base[n]] = a.check[n]],
           useds |-> a.useds \cup {n}, heads |-> heads]
  BY DEF UseUnit
<1>4. taboo_npos \in U
  BY FreeType
<1>5. heads \in [0 .. BlockOf(a.size) - 1 -> U]
  BY <1>1, <1>4
<1>6. [a.base EXCEPT ![a.check[n]] = a.base[n]] \in [U -> Nat]
  BY <1>1
<1>7. [a.check EXCEPT ![a.base[n]] = a.check[n]] \in [U -> U]
  BY <1>1
<1>8. b \in Array(a.size)
  <2> HIDE DEF heads, b
  <2> QED
    BY <1>1, <1>3, <1>5, <1>6, <1>7 DEF Array
<1> QED
  BY <1>3, <1>8

\* The list is closed over the gap.
LEMMA UseFree ==
    ASSUME NEW a, ArrayInv(a), NEW n \in Free(a)
    PROVE  LET b == UseUnit(a, n)
           IN  /\ ArrayInv(b) /\ b.size = a.size
               /\ Free(b) = Free(a) \ {n}
               /\ b.useds = a.useds \cup {n}
               /\ Keeps(a, b)
<1> DEFINE b == UseUnit(a, n)
           F == Free(a)
           G == Free(a) \ {n}
           U == 0 .. a.size - 1
           next == a.base[n]
           prev == a.check[n]
<1>1. /\ a.size \in Nat /\ a.base \in [U -> Nat] /\ a.check \in [U -> U]
      /\ a.useds \subseteq U /\ a.heads \in [0 .. BlockOf(a.size) - 1 -> U]
      /\ F \subseteq U /\ taboo_npos \in U /\ taboo_npos \notin F /\ F \cap a.useds = {}
      /\ n \in U /\ n # taboo_npos /\ taboo_npos \in a.useds
  BY FreeType DEF ArrayInv, WellFormed, Array
<1>2. /\ next \in F \cup {taboo_npos} /\ Goes(F, n, next)
      /\ prev \in F \cup {taboo_npos} /\ Goes(F, prev, n)
      /\ next # n /\ prev # n
  <2>1. /\ next \in F \cup {taboo_npos} /\ Goes(F, n, next)
        /\ prev \in F \cup {taboo_npos} /\ Goes(F, prev, n)
    BY DEF ArrayInv, LinksOK
  <2> QED
    BY <2>1, <1>1 DEF Goes
<1>3. /\ b.size = a.size /\ b.base = [a.base EXCEPT ![prev] = next]
      /\ b.check = [a.check EXCEPT ![next] = prev]
      /\ b.useds = a.useds \cup {n} /\ b \in Array(a.size)
      /\ b.heads = IF a.heads[BlockOf(n)] = n
                   THEN [a.heads EXCEPT ![BlockOf(n)] = IF BlockOf(next) = BlockOf(n) THEN next ELSE taboo_npos]
                   ELSE a.heads
  <2>1. WellFormed(a) /\ a.base[n] \in U /\ n \in U
    BY <1>1, <1>2 DEF ArrayInv
  <2> HIDE DEF ArrayInv
  <2> QED
    BY <2>1, UseFields
<1> HIDE DEF b, next, prev
<1>4. WellFormed(b)
  BY <1>1, <1>3 DEF ArrayInv, WellFormed
<1>5. ASSUME NEW i \in U \ (F \cup {taboo_npos})
      PROVE  b.base[i] = a.base[i] /\ b.check[i] = a.check[i]
  BY <1>1, <1>2, <1>3, <1>5
<1>6. ASSUME NEW i \in G \cup {taboo_npos}
      PROVE  /\ b.base[i] \in G \cup {taboo_npos} /\ Goes(G, i, b.base[i])
             /\ b.check[i] \in G \cup {taboo_npos} /\ Goes(G, b.check[i], i)
  <2>1. /\ i \in F \cup {taboo_npos} /\ i # n
        /\ a.base[i] \in F \cup {taboo_npos} /\ Goes(F, i, a.base[i])
        /\ a.check[i] \in F \cup {taboo_npos} /\ Goes(F, a.check[i], i)
    BY <1>1 DEF ArrayInv, LinksOK
  <2>2. b.base[i] \in G \cup {taboo_npos} /\ Goes(G, i, b.base[i])
    <3>1. CASE i = prev
      <4>1. b.base[i] = next
        BY <3>1, <1>1, <1>3, <2>1
      <4> QED
        BY <4>1, <3>1, <1>1, <1>2 DEF Goes
    <3>2. CASE i # prev
      <4>1. b.base[i] = a.base[i]
        BY <3>2, <1>1, <1>3, <2>1
      <4>2. a.base[i] # n
        <5> SUFFICES ASSUME a.base[i] = n PROVE FALSE
          OBVIOUS
        <5>1. Goes(F, i, n) /\ Goes(F, prev, n)
          BY <2>1, <1>2
        <5>2. /\ F \in SUBSET Nat /\ taboo_npos \notin F /\ n \in F \cup {taboo_npos}
              /\ i \in F \cup {taboo_npos} /\ prev \in F \cup {taboo_npos}
          BY <1>1, <1>2, <2>1
        <5> HIDE DEF F
        <5>3. i = prev
          BY <5>1, <5>2, OnePredecessor
        <5> QED
          BY <5>3, <3>2
      <4> QED
        BY <4>1, <4>2, <2>1 DEF Goes
    <3> QED
      BY <3>1, <3>2
  <2>3. b.check[i] \in G \cup {taboo_npos} /\ Goes(G, b.check[i], i)
    <3>1. CASE i = next
      <4>1. b.check[i] = prev
        BY <3>1, <1>1, <1>3, <2>1
      <4> QED
        BY <4>1, <3>1, <1>1, <1>2 DEF Goes
    <3>2. CASE i # next
      <4>1. b.check[i] = a.check[i]
        BY <3>2, <1>1, <1>3, <2>1
      <4>2. a.check[i] # n
        <5> SUFFICES ASSUME a.check[i] = n PROVE FALSE
          OBVIOUS
        <5>1. Goes(F, n, i) /\ Goes(F, n, next)
          BY <2>1, <1>2
        <5>2. /\ F \in SUBSET Nat /\ taboo_npos \notin F /\ n \in F \cup {taboo_npos}
              /\ i \in F \cup {taboo_npos} /\ next \in F \cup {taboo_npos}
          BY <1>1, <1>2, <2>1
        <5> HIDE DEF F
        <5>3. i = next
          BY <5>1, <5>2, OneSuccessor
        <5> QED
          BY <5>3, <3>2
      <4> QED
        BY <4>1, <4>2, <2>1 DEF Goes
    <3> QED
      BY <3>1, <3>2
  <2> QED
    BY <2>2, <2>3
<1>7. Free(b) = G
  <2>1. ASSUME NEW i \in U \ b.useds
        PROVE  b.base[i] # i <=> i \in G
    <3>1. i # n /\ i \notin a.useds /\ i # taboo_npos
      BY <1>1, <1>3
    <3>2. CASE i \in F
      <4>0. i \in G /\ i \in Nat
        BY <3>1, <3>2, <1>1
      <4>1. b.base[i] \in G \cup {taboo_npos} /\ Goes(G, i, b.base[i])
        <5> HIDE DEF G
        <5> QED
          BY <4>0, <1>6
      <4>2. b.base[i] # i
        BY <4>0, <4>1, <3>1 DEF Goes
      <4> QED
        BY <4>0, <4>2
    <3>3. CASE i \notin F
      BY <3>1, <3>3, <1>5 DEF Free
    <3> QED
      BY <3>2, <3>3
  <2>2. G \subseteq U \ b.useds
    BY <1>1, <1>3
  <2> QED
    BY <2>1, <2>2, <1>3 DEF Free
<1>8. LinksOK(b)
  BY <1>6, <1>7 DEF LinksOK
<1>9. HeadsOK(b)
  <2>1. ASSUME NEW l \in 0 .. BlockOf(a.size) - 1
        PROVE  HeadOK(G, l, b.heads[l])
    <3>1. HeadOK(F, l, a.heads[l])
      BY DEF ArrayInv, HeadsOK
    <3>2. CASE a.heads[l] # n
      <4>1. b.heads[l] = a.heads[l]
        BY <3>2, <1>1, <1>3
      <4> QED
        BY <4>1, <3>1, <3>2 DEF HeadOK
    <3>3. CASE a.heads[l] = n
      <4>1. l = BlockOf(n)
        BY <3>1, <3>3, <1>1 DEF HeadOK
      <4>2. b.heads[l] = IF BlockOf(next) = l THEN next ELSE taboo_npos
        BY <4>1, <3>3, <1>1, <1>3
      <4>3. ASSUME NEW k \in G, BlockOf(k) = l
            PROVE  next # taboo_npos /\ next <= k /\ BlockOf(next) = l
        <5>1. n <= k /\ n # k /\ k \in F
          BY <3>1, <3>3, <4>3 DEF HeadOK
        <5>2. next # taboo_npos /\ next <= k /\ n < next
          BY <5>1, <1>1, <1>2 DEF Goes
        <5>3. BlockOf(n) <= BlockOf(next) /\ BlockOf(next) <= BlockOf(k)
          BY <5>1, <5>2, <1>1, <1>2, BlockOrder
        <5>4. BlockOf(n) \in Nat /\ BlockOf(next) \in Nat
          <6>1. n \in Nat /\ next \in Nat
            BY <1>1, <1>2
          <6> QED
            BY <6>1, Division
        <5> QED
          BY <5>2, <5>3, <5>4, <4>1, <4>3
      <4> QED
        BY <4>2, <4>3, <1>2 DEF HeadOK
    <3> QED
      BY <3>2, <3>3
  <2> QED
    BY <2>1, <1>3, <1>7 DEF HeadsOK
<1>10. ClosedOK(b)
  BY <1>1, <1>3, <1>5, <1>7 DEF ClosedOK, ArrayInv
<1> QED
  BY <1>3, <1>4, <1>5, <1>7, <1>8, <1>9, <1>10 DEF ArrayInv, Keeps, b

-----------------------------------------------------------------------------
(* close_block *)

LEMMA CloseOne ==
    ASSUME NEW a, ArrayInv(a), NEW n \in 0 .. a.size - 1
    PROVE  LET b == CloseUnit(a, n)
           IN  /\ ArrayInv(b) /\ b.size = a.size /\ b.useds = a.useds
               /\ Free(b) = Free(a) \ {n}
               /\ Keeps(a, b)
<1> DEFINE U == 0 .. a.size - 1
           u == UseUnit(a, n)
           c == [size |-> u.size, base |-> [u.base EXCEPT ![n] = n], check |-> [u.check EXCEPT ![n] = n],
                 useds |-> u.useds \ {n}, heads |-> u.heads]
<1>1. /\ a.size \in Nat /\ a.base \in [U -> Nat] /\ a.check \in [U -> U]
      /\ a.useds \subseteq U /\ a.heads \in [0 .. BlockOf(a.size) - 1 -> U]
      /\ Free(a) \subseteq U /\ taboo_npos \in U /\ taboo_npos \notin Free(a) /\ Free(a) \cap a.useds = {}
      /\ taboo_npos \in a.useds /\ WellFormed(a)
  BY FreeType DEF ArrayInv, WellFormed, Array
<1>2. CASE n \in a.useds
  BY <1>2, <1>1 DEF CloseUnit, Keeps
<1>3. CASE n \in Free(a)
  <2>1. /\ ArrayInv(u) /\ u.size = a.size /\ Free(u) = Free(a) \ {n}
        /\ u.useds = a.useds \cup {n} /\ Keeps(a, u)
    BY <1>3, UseFree
  <2>2. /\ CloseUnit(a, n) = c /\ n \notin a.useds
    BY <1>1, <1>3 DEF CloseUnit
  <2> HIDE DEF u
  <2>3. /\ u.base \in [U -> Nat] /\ u.check \in [U -> U]
        /\ u.heads \in [0 .. BlockOf(a.size) - 1 -> U] /\ u \in Array(a.size)
        /\ WellFormed(u)
    BY <2>1 DEF ArrayInv, WellFormed, Array
  <2>4. /\ c.size = u.size /\ c.base = [u.base EXCEPT ![n] = n] /\ c.check = [u.check EXCEPT ![n] = n]
        /\ c.useds = a.useds /\ c.heads = u.heads
    <3>1. u.useds \ {n} = a.useds
      BY <2>1, <2>2
    <3> QED
      BY <2>3, <3>1 DEF Array
  <2>5. c \in Array(a.size)
    <3>1. /\ c.base \in [U -> Nat] /\ c.check \in [U -> U]
      BY <2>3, <2>4, <1>1
    <3>2. c = [size |-> c.size, base |-> c.base, check |-> c.check, useds |-> c.useds, heads |-> c.heads]
      BY DEF Array
    <3> HIDE DEF c
    <3> QED
      BY <3>1, <3>2, <2>1, <2>3, <2>4, <1>1 DEF Array
  <2> HIDE DEF c
  <2>6. WellFormed(c)
    BY <2>1, <2>3, <2>4, <2>5, <1>1 DEF WellFormed
  <2>7. Free(c) = Free(a) \ {n}
    <3>1. ASSUME NEW i \in U \ a.useds
          PROVE  c.base[i] # i <=> i \in Free(u)
      BY <3>1, <2>1, <2>3, <2>4, <1>1 DEF Free
    <3>2. Free(u) \subseteq U \ a.useds
      BY <2>1, <1>1
    <3> QED
      BY <3>1, <3>2, <2>1, <2>4 DEF Free
  <2>8. LinksOK(c)
    <3>1. ASSUME NEW i \in Free(u) \cup {taboo_npos}
          PROVE  i # n /\ i \in U /\ c.base[i] = u.base[i] /\ c.check[i] = u.check[i]
      BY <3>1, <2>1, <2>2, <2>3, <2>4, <1>1
    <3> QED
      BY <3>1, <2>1, <2>7 DEF LinksOK, ArrayInv
  <2>9. HeadsOK(c)
    BY <2>1, <2>4, <2>7 DEF HeadsOK, ArrayInv
  <2>10. ClosedOK(c)
    BY <2>1, <2>3, <2>4, <2>7, <1>1 DEF ClosedOK, ArrayInv
  <2>11. Keeps(a, c)
    BY <2>1, <2>3, <2>4, <1>1, <1>3 DEF Keeps
  <2> QED
    BY <2>1, <2>2, <2>4, <2>6, <2>7, <2>8, <2>9, <2>10, <2>11 DEF ArrayInv
<1>4. CASE n \notin a.useds /\ n \notin Free(a)
  <2>1. a.base[n] = n /\ a.check[n] = n
    BY <1>4 DEF Free, ArrayInv, ClosedOK
  <2>2. a.heads[BlockOf(n)] # n
    <3>1. BlockOf(n) \in 0 .. BlockOf(a.size) - 1
      BY <1>1, UnitBlock
    <3> QED
      BY <3>1, <1>1, <1>4 DEF ArrayInv, HeadsOK, HeadOK
  <2>3. u = [size |-> a.size, base |-> a.base, check |-> a.check, useds |-> a.useds \cup {n}, heads |-> a.heads]
    BY <2>1, <2>2, <1>1 DEF UseUnit
  <2>4. (a.useds \cup {n}) \ {n} = a.useds
    BY <1>4
  <2> HIDE DEF u
  <2>5. c = [size |-> a.size, base |-> a.base, check |-> a.check, useds |-> a.useds, heads |-> a.heads]
    BY <2>1, <2>3, <2>4, <1>1
  <2>6. c = a
    BY <2>5, <1>1 DEF WellFormed, Array
  <2>7. CloseUnit(a, n) = a
    BY <2>6, <1>4 DEF CloseUnit, u
  <2> QED
    BY <2>7, <1>4, <1>1 DEF Keeps
<1> QED
  BY <1>2, <1>3, <1>4

LEMMA KeepsTrans ==
    ASSUME NEW a, NEW b, NEW c, b.size = a.size, Free(b) \subseteq Free(a), Keeps(a, b), Keeps(b, c)
    PROVE  Keeps(a, c)
<1>1. ASSUME NEW i \in (0 .. a.size - 1) \ (Free(a) \cup {taboo_npos})
      PROVE  c.base[i] = a.base[i] /\ c.check[i] = a.check[i]
  <2>1. i \in (0 .. b.size - 1) \ (Free(b) \cup {taboo_npos})
    OBVIOUS
  <2> QED
    BY <2>1 DEF Keeps
<1> QED
  BY <1>1 DEF Keeps

\* After the block is closed none of its units is on the list.
LEMMA CloseAll ==
    ASSUME NEW a, ArrayInv(a), NEW bpos \in 0 .. BlockOf(a.size) - 1
    PROVE  LET b == CloseBlock(a, bpos)
           IN  /\ ArrayInv(b) /\ b.size = a.size /\ b.useds = a.useds
               /\ Free(b) = {i \in Free(a) : BlockOf(i) # bpos}
               /\ Keeps(a, b)
<1> DEFINE beg == bpos * BlockSize
           Step(g, n) == CloseUnit(g, bpos * BlockSize + n - 1)
           Loop(m, g) == g = [n \in 0 .. m |-> IF n = 0 THEN a ELSE Step(g[n - 1], n)]
           Closed == CHOOSE g : Loop(BlockSize, g)
<1>0. BlockSize \in Nat /\ bpos \in Nat /\ beg \in Nat
  <2>1. BlockOf(a.size) \in Nat
    BY Division DEF ArrayInv, WellFormed
  <2> QED
    BY <2>1, BlockAssumption
<1>1. \E g : Loop(BlockSize, g)
  <2> HIDE DEF Step
  <2> DEFINE S == {m \in 0 .. BlockSize : \E g : Loop(m, g)}
  <2>1. 0 \in S
    <3>1. Loop(0, [n \in 0 .. 0 |-> a])
      OBVIOUS
    <3> HIDE DEF Loop
    <3> QED
      BY <3>1, <1>0
  <2>2. ASSUME NEW m \in 0 .. BlockSize - 1, m \in S
        PROVE  m + 1 \in S
    <3>1. PICK g : Loop(m, g)
      BY <2>2
    <3> DEFINE h == [n \in 0 .. m + 1 |-> IF n = m + 1 THEN Step(g[m], m + 1) ELSE g[n]]
    <3>2. ASSUME NEW n \in 0 .. m + 1
          PROVE  h[n] = IF n = 0 THEN a ELSE Step(h[n - 1], n)
      <4>1. CASE n = m + 1
        <5>1. h[n - 1] = g[m] /\ n # 0
          BY <4>1, <1>0
        <5> QED
          BY <5>1, <4>1
      <4>2. CASE n # m + 1
        <5>1. n \in 0 .. m /\ h[n] = g[n] /\ (n # 0 => h[n - 1] = g[n - 1])
          BY <4>2, <1>0
        <5>2. g[n] = IF n = 0 THEN a ELSE Step(g[n - 1], n)
          BY <3>1, <5>1
        <5> QED
          BY <5>1, <5>2
      <4> QED
        BY <4>1, <4>2
    <3>3. Loop(m + 1, h)
      <4>1. h = [n \in 0 .. m + 1 |-> h[n]]
        OBVIOUS
      <4> HIDE DEF h
      <4> QED
        BY <4>1, <3>2
    <3> HIDE DEF Loop, h
    <3> QED
      BY <3>3, <1>0
  <2> HIDE DEF Loop
  <2>3. \A n \in 0 .. BlockSize : n \in S
    <3> HIDE DEF S
    <3> QED
      BY <2>1, <2>2, <1>0, Rounds
  <2> QED
    BY <2>3, <1>0
<1>2. Loop(BlockSize, Closed)
  <2> HIDE DEF Loop
  <2> QED
    BY <1>1
<1>3. Closed[0] = a /\ \A n \in 1 .. BlockSize : Closed[n] = Step(Closed[n - 1], n)
  <2> HIDE DEF Closed, Step
  <2> QED
    BY <1>2, <1>0
<1>4. CloseBlock(a, bpos) = [Closed[BlockSize] EXCEPT !.heads[bpos] = taboo_npos]
  BY DEF CloseBlock
<1> HIDE DEF Closed, Loop
<1> DEFINE Round(n) ==
             /\ ArrayInv(Closed[n]) /\ Closed[n].size = a.size /\ Closed[n].useds = a.useds
             /\ Free(Closed[n]) = {i \in Free(a) : ~(beg <= i /\ i < beg + n)}
             /\ Keeps(a, Closed[n])
<1>5. \A n \in 0 .. BlockSize : Round(n)
  <2> DEFINE S == {n \in 0 .. BlockSize : Round(n)}
  <2>1. 0 \in S
    <3>1. ArrayInv(a) /\ Free(a) \subseteq Nat
      BY FreeType DEF ArrayInv, WellFormed
    <3>2. Free(a) = {i \in Free(a) : ~(beg <= i /\ i < beg + 0)}
      BY <3>1, <1>0
    <3>3. Keeps(a, a)
      BY DEF Keeps
    <3> QED
      BY <3>1, <3>2, <3>3, <1>0, <1>3
  <2>2. ASSUME NEW n \in 0 .. BlockSize - 1, n \in S
        PROVE  n + 1 \in S
    <3> DEFINE c == Closed[n]
               u == beg + n
               d == CloseUnit(c, u)
    <3>1. /\ ArrayInv(c) /\ c.size = a.size /\ c.useds = a.useds
          /\ Free(c) = {i \in Free(a) : ~(beg <= i /\ i < beg + n)}
          /\ Keeps(a, c)
      BY <2>2
    <3>2. Closed[n + 1] = d
      <4>1. n + 1 \in 1 .. BlockSize /\ n + 1 - 1 = n /\ beg + (n + 1) - 1 = u
        BY <1>0
      <4> QED
        BY <4>1, <1>3
    <3>3. u \in 0 .. c.size - 1
      <4>1. a.size \in Nat /\ a.size = BlockOf(a.size) * BlockSize /\ BlockOf(a.size) \in Nat
        BY Division DEF ArrayInv, WellFormed
      <4>2. bpos + 1 <= BlockOf(a.size)
        BY <4>1, <1>0
      <4>3. (bpos + 1) * BlockSize <= BlockOf(a.size) * BlockSize
        BY <4>1, <4>2, <1>0
      <4>4. (bpos + 1) * BlockSize = beg + BlockSize
        BY <1>0
      <4> HIDE DEF beg
      <4> QED
        BY <4>1, <4>3, <4>4, <3>1, <1>0
    <3>4. /\ ArrayInv(d) /\ d.size = c.size /\ d.useds = c.useds
          /\ Free(d) = Free(c) \ {u} /\ Keeps(c, d)
      <4> HIDE DEF c, u
      <4> QED
        BY <3>1, <3>3, CloseOne
    <3>5. Free(d) = {i \in Free(a) : ~(beg <= i /\ i < beg + (n + 1))}
      <4>1. Free(a) \subseteq Nat
        BY FreeType DEF ArrayInv, WellFormed
      <4> HIDE DEF beg, c, d
      <4> QED
        BY <4>1, <3>1, <3>4, <1>0
    <3>6. Keeps(a, d)
      <4> HIDE DEF c, d, u
      <4> QED
        BY <3>1, <3>4, KeepsTrans
    <3> QED
      BY <3>1, <3>2, <3>4, <3>5, <3>6, <1>0
  <2>3. \A n \in 0 .. BlockSize : n \in S
    <3> HIDE DEF S
    <3> QED
      BY <2>1, <2>2, <1>0, Rounds
  <2> QED
    BY <2>3
<1> DEFINE e == Closed[BlockSize]
<1>6. /\ ArrayInv(e) /\ e.size = a.size /\ e.useds = a.useds
      /\ Free(e) = {i \in Free(a) : ~(beg <= i /\ i < beg + BlockSize)}
      /\ Keeps(a, e)
  BY <1>5, <1>0
<1>7. Free(e) = {i \in Free(a) : BlockOf(i) # bpos}
  <2>1. ASSUME NEW i \in Free(a)
        PROVE  BlockOf(i) = bpos <=> beg <= i /\ i < beg + BlockSize
    <3>1. i \in Nat
      BY FreeType DEF ArrayInv, WellFormed
    <3>2. BlockOf(i) = bpos => beg <= i /\ i < beg + BlockSize
      <4> SUFFICES ASSUME BlockOf(i) = bpos PROVE beg <= i /\ i < beg + BlockSize
        OBVIOUS
      <4>1. i - beg \in 0 .. BlockSize - 1
        BY <3>1, <1>0, BlockUnits
      <4> QED
        BY <4>1, <3>1, <1>0
    <3>3. ASSUME beg <= i, i < beg + BlockSize
          PROVE  BlockOf(i) = bpos
      <4>1. i - beg \in 0 .. BlockSize - 1 /\ i = beg + (i - beg)
        BY <3>1, <3>3, <1>0
      <4>2. BlockOf(beg + (i - beg)) = bpos
        BY <4>1, <1>0, BlockUnique
      <4> QED
        BY <4>1, <4>2
    <3> QED
      BY <3>2, <3>3
  <2> QED
    BY <2>1, <1>6
<1>8. CloseBlock(a, bpos) = e
  <2>1. e.heads[bpos] = taboo_npos
    BY <1>6, <1>7 DEF ArrayInv, HeadsOK, HeadOK
  <2>2. e \in Array(a.size)
    BY <1>6 DEF ArrayInv, WellFormed
  <2> HIDE DEF e
  <2> QED
    BY <2>1, <2>2, <1>4 DEF Array, e
<1> QED
  BY <1>6, <1>7, <1>8

-----------------------------------------------------------------------------
(* expand *)

\* The units of the block behind the last one.
LEMMA NextBlock ==
    ASSUME NEW a, WellFormed(a)
    PROVE  /\ BlockOf(a.size) \in Nat \ {0}
           /\ BlockOf(a.size + BlockSize) = BlockOf(a.size) + 1
           /\ a.size + BlockSize = BlockOf(a.size + BlockSize) * BlockSize
           /\ \A i \in a.size .. (a.size + BlockSize) - 1 : BlockOf(i) = BlockOf(a.size)
           /\ \A i \in 0 .. a.size - 1 : BlockOf(i) < BlockOf(a.size)
<1> DEFINE q == BlockOf(a.size)
<1>1. q \in Nat /\ a.size = q * BlockSize /\ a.size \in Nat /\ BlockSize <= a.size
  BY Division DEF WellFormed
<1>2. q # 0
  BY <1>1, BlockAssumption
<1>3. BlockOf(a.size + BlockSize) = q + 1
  <2>1. (q + 1) * BlockSize + 0 = a.size + BlockSize
    BY <1>1, BlockAssumption
  <2>2. BlockOf((q + 1) * BlockSize + 0) = q + 1
    <3>1. q + 1 \in Nat /\ 0 \in 0 .. BlockSize - 1
      BY <1>1, BlockAssumption
    <3> QED
      BY <3>1, BlockUnique
  <2> QED
    BY <2>1, <2>2
<1>4. a.size + BlockSize = (q + 1) * BlockSize
  BY <1>1, BlockAssumption
<1>5. ASSUME NEW i \in a.size .. (a.size + BlockSize) - 1
      PROVE  BlockOf(i) = q
  <2>1. i - a.size \in 0 .. BlockSize - 1 /\ i = q * BlockSize + (i - a.size)
    BY <1>1, BlockAssumption
  <2>2. BlockOf(q * BlockSize + (i - a.size)) = q
    BY <2>1, <1>1, BlockUnique
  <2> QED
    BY <2>1, <2>2
<1>6. ASSUME NEW i \in 0 .. a.size - 1
      PROVE  BlockOf(i) < q
  <2>1. BlockOf(i) \in 0 .. q - 1
    BY UnitBlock
  <2> QED
    BY <2>1, <1>1
<1> QED
  BY <1>1, <1>2, <1>3, <1>4, <1>5, <1>6

LEMMA AppendOne ==
    ASSUME NEW a, ArrayInv(a), BlocksWhole(a)
    PROVE  LET b == Appended(a, a.check[taboo_npos])
           IN  /\ ArrayInv(b) /\ BlocksWhole(b)
               /\ b.size = a.size + BlockSize /\ b.useds = a.useds
               /\ Free(b) = Free(a) \cup (a.size .. (a.size + BlockSize) - 1)
               /\ Keeps(a, b)
<1> DEFINE old == a.size
           new == old + BlockSize
           last == a.check[taboo_npos]
           b == Appended(a, last)
           F == Free(a)
           G == F \cup (old .. new - 1)
           U == 0 .. old - 1
           V == 0 .. new - 1
           q == BlockOf(old)
<1>1. /\ old \in Nat /\ a.base \in [U -> Nat] /\ a.check \in [U -> U]
      /\ a.useds \subseteq U /\ a.heads \in [0 .. q - 1 -> U]
      /\ F \subseteq U /\ taboo_npos \in U /\ taboo_npos \notin F /\ F \cap a.useds = {}
      /\ taboo_npos \in a.useds /\ WellFormed(a)
  BY FreeType DEF ArrayInv, WellFormed, Array
<1>2. last \in F \cup {taboo_npos} /\ Goes(F, last, taboo_npos)
  BY DEF ArrayInv, LinksOK
<1>3. /\ q \in Nat \ {0} /\ BlockOf(new) = q + 1 /\ new = BlockOf(new) * BlockSize
      /\ \A i \in old .. new - 1 : BlockOf(i) = q
      /\ \A i \in U : BlockOf(i) < q
  BY <1>1, NextBlock
<1>4. BlockSize \in Nat /\ BlockSize >= 2 /\ old >= 2 /\ new \in Nat /\ old + 1 < new + 0
      /\ BlockSize <= new
  BY <1>1, BlockAssumption DEF WellFormed
<1>5. /\ b.size = new /\ b.useds = a.useds
      /\ b.base = [i \in V |-> IF i = new - 1 THEN taboo_npos
                               ELSE IF i >= old THEN i + 1
                               ELSE IF i = last THEN old ELSE a.base[i]]
      /\ b.check = [i \in V |-> IF i = taboo_npos THEN new - 1
                                ELSE IF i = old THEN last
                                ELSE IF i > old THEN i - 1 ELSE a.check[i]]
      /\ b.heads = [l \in 0 .. q |-> IF l = q THEN old ELSE a.heads[l]]
      /\ b = [size |-> b.size, base |-> b.base, check |-> b.check, useds |-> b.useds, heads |-> b.heads]
  BY DEF Appended
<1> HIDE DEF b, last
<1>0. old \in Nat /\ new \in Nat /\ old < new /\ old >= 2
  BY <1>1, <1>4
<1>b. U \subseteq V /\ old \in V /\ last \in V /\ new - 1 \in V /\ U \subseteq Nat
  <2>1. \A i \in Nat : i < old => i < new
    BY <1>1, <1>4
  <2>2. old < new /\ new - 1 \in Nat /\ new - 1 < new
    BY <1>1, <1>4
  <2>3. U \subseteq V /\ U \subseteq Nat /\ old \in V /\ new - 1 \in V
    BY <2>1, <2>2, <1>1, <1>4
  <2>4. last \in U
    BY <1>1, <1>2
  <2> HIDE DEF U, V
  <2> QED
    BY <2>3, <2>4
<1>6. b \in Array(new)
  <2>1. b.base \in [V -> Nat]
    <3>1. ASSUME NEW i \in V
          PROVE  b.base[i] \in Nat
      <4>1. i < old => i \in U /\ a.base[i] \in Nat
        BY <1>1
      <4> QED
        BY <4>1, <1>1, <1>4, <1>5 DEF taboo_npos
    <3> QED
      BY <3>1, <1>5
  <2>2. b.check \in [V -> V]
    <3>1. ASSUME NEW i \in V
          PROVE  b.check[i] \in V
      <4>1. i < old => i \in U /\ a.check[i] \in U
        BY <1>1
      <4>2. U \subseteq V /\ last \in V /\ new - 1 \in V
        BY <1>b
      <4>3. i > old => i - 1 \in V
        <5> HIDE DEF old, new
        <5> QED
          BY <1>0
      <4>4. i \in Int /\ old \in Int
        BY <1>1, <1>4
      <4> QED
        BY <4>1, <4>2, <4>3, <4>4, <1>5
    <3> QED
      BY <3>1, <1>5
  <2>3. b.heads \in [0 .. BlockOf(new) - 1 -> V]
    <3>1. U \subseteq V /\ old \in V /\ BlockOf(new) - 1 = q
      <4>1. BlockOf(new) - 1 = q
        BY <1>3
      <4> QED
        BY <4>1, <1>1, <1>4
    <3>2. ASSUME NEW l \in 0 .. q
          PROVE  b.heads[l] \in V
      <4>1. l # q => l \in 0 .. q - 1
        BY <1>3
      <4> QED
        BY <4>1, <3>1, <1>1, <1>5
    <3> QED
      BY <3>1, <3>2, <1>5
  <2>4. b.useds \subseteq V
    BY <1>1, <1>4, <1>5
  <2> QED
    BY <2>1, <2>2, <2>3, <2>4, <1>5 DEF Array
<1>7. WellFormed(b)
  BY <1>1, <1>3, <1>4, <1>5, <1>6 DEF WellFormed
<1>8. Free(b) = G
  <2>1. ASSUME NEW i \in V \ a.useds
        PROVE  b.base[i] # i <=> i \in G
    <3>1. CASE i \in old .. new - 1
      BY <3>1, <1>1, <1>4, <1>5 DEF taboo_npos
    <3>2. CASE i \in U
      <4>1. b.base[i] = IF i = last THEN old ELSE a.base[i]
        BY <3>2, <1>1, <1>4, <1>5
      <4>2. i = last => i \in F /\ old # i
        BY <1>1, <1>2, <3>2, <2>1
      <4>3. a.base[i] # i <=> i \in F
        BY <3>2, <2>1 DEF Free
      <4>4. i \in G <=> i \in F
        BY <3>2, <1>1, <1>4
      <4> QED
        BY <4>1, <4>2, <4>3, <4>4
    <3> QED
      BY <3>1, <3>2, <1>1, <1>4
  <2>2. G \subseteq V \ a.useds
    BY <1>1, <1>4
  <2> QED
    BY <2>1, <2>2, <1>5 DEF Free
<1>a. /\ F \subseteq G /\ taboo_npos \notin G /\ G \in SUBSET Nat
      /\ \A k \in G : (k \in F /\ k < old) \/ (k \in Nat /\ old <= k)
  <2>1. \A k \in F : k \in Nat /\ k < old /\ k # taboo_npos
    BY <1>1
  <2> HIDE DEF F, old, new
  <2> QED
    BY <2>1, <1>0 DEF taboo_npos
\* The units of the new block are behind all the others.
<1>c. ASSUME NEW i, NEW j \in F, Goes(F, i, j)
      PROVE  Goes(G, i, j)
  <2>1. j \in Nat /\ j < old /\ j # taboo_npos /\ (i # taboo_npos => i < j)
    BY <1>a, <1>1, <1>c DEF Goes
  <2>2. ASSUME NEW k \in G
        PROVE  ~((i = taboo_npos \/ i < k) /\ k < j)
    <3>1. CASE k \in F
      BY <3>1, <2>1, <1>c DEF Goes
    <3>2. CASE k \in Nat /\ old <= k
      <4> HIDE DEF old
      <4> QED
        BY <3>2, <2>1, <1>1
    <3> QED
      BY <3>1, <3>2, <1>a
  <2> QED
    BY <2>1, <2>2 DEF Goes
<1>9. Goes(G, last, old)
  BY <1>1, <1>2, <1>4 DEF Goes
<1>10. LinksOK(b)
  <2>1. ASSUME NEW i \in G \cup {taboo_npos}
        PROVE  b.base[i] \in G \cup {taboo_npos} /\ Goes(G, i, b.base[i])
    <3>1. CASE i \in old .. new - 1
      <4>1. b.base[i] = IF i = new - 1 THEN taboo_npos ELSE i + 1
        BY <3>1, <1>1, <1>4, <1>5
      <4>2. CASE i = new - 1
        <5>1. b.base[i] = taboo_npos
          BY <4>1, <4>2
        <5> QED
          BY <5>1, <4>2, <1>1, <1>4 DEF Goes, taboo_npos
      <4>3. CASE i # new - 1
        <5>1. i \in Nat /\ i # taboo_npos /\ i + 1 # taboo_npos
          BY <3>1, <1>1, <1>4 DEF taboo_npos
        <5>2. i + 1 \in old .. new - 1
          <6>1. old \in Int /\ new \in Int
            BY <1>1, <1>4
          <6> HIDE DEF old, new
          <6> QED
            BY <6>1, <4>3, <3>1
        <5>3. \A k \in G : k \in Nat
          BY <1>1, <1>4
        <5>4. Goes(G, i, i + 1)
          BY <5>1, <5>3 DEF Goes
        <5> QED
          BY <5>2, <5>4, <4>1, <4>3
      <4> QED
        BY <4>2, <4>3
    <3>2. CASE i = last
      <4>1. b.base[i] = old
        BY <3>2, <1>1, <1>2, <1>4, <1>5
      <4> QED
        BY <4>1, <3>2, <1>1, <1>4, <1>9
    <3>3. CASE i \in F \cup {taboo_npos} /\ i # last
      <4>1. b.base[i] = a.base[i]
        BY <3>3, <1>1, <1>4, <1>5
      <4>2. a.base[i] \in F \cup {taboo_npos} /\ Goes(F, i, a.base[i])
        BY <3>3 DEF ArrayInv, LinksOK
      <4>3. a.base[i] # taboo_npos
        <5> SUFFICES ASSUME a.base[i] = taboo_npos PROVE FALSE
          OBVIOUS
        <5>1. Goes(F, i, taboo_npos) /\ Goes(F, last, taboo_npos) /\ F \in SUBSET Nat
          BY <4>2, <1>1, <1>2
        <5>2. /\ taboo_npos \notin F /\ taboo_npos \in F \cup {taboo_npos}
              /\ i \in F \cup {taboo_npos} /\ last \in F \cup {taboo_npos}
          BY <1>1, <1>2, <3>3
        <5> HIDE DEF F
        <5>3. i = last
          BY <5>1, <5>2, OnePredecessor
        <5> QED
          BY <5>3, <3>3
      <4>4. a.base[i] \in F /\ Goes(F, i, a.base[i])
        BY <4>2, <4>3
      <4>5. a.base[i] \in G /\ Goes(G, i, a.base[i])
        BY <4>4, <1>a, <1>c
      <4> QED
        BY <4>1, <4>5
    <3> QED
      BY <3>1, <3>2, <3>3
  <2>2. ASSUME NEW i \in G \cup {taboo_npos}
        PROVE  b.check[i] \in G \cup {taboo_npos} /\ Goes(G, b.check[i], i)
    <3>1. CASE i = taboo_npos
      <4>1. b.check[i] = new - 1
        BY <3>1, <1>1, <1>4, <1>5
      <4>2. new - 1 \in G /\ new - 1 # taboo_npos /\ \A k \in G : ~(new - 1 < k)
        <5>1. \A k \in F : k \in Nat /\ k < old
          BY <1>1
        <5> HIDE DEF F, old, new
        <5> QED
          BY <5>1, <1>0 DEF taboo_npos
      <4> HIDE DEF G, new
      <4> QED
        BY <4>1, <4>2, <3>1 DEF Goes
    <3>2. CASE i = old
      <4>1. b.check[i] = last
        BY <3>2, <1>1, <1>4, <1>5
      <4> QED
        BY <4>1, <3>2, <1>2, <1>9
    <3>3. CASE i \in old + 1 .. new - 1
      <4>1. b.check[i] = i - 1
        BY <3>3, <1>1, <1>4, <1>5
      <4>2. i \in Nat /\ i - 1 \in G /\ i - 1 # taboo_npos /\ i # taboo_npos
        <5> HIDE DEF F, old, new
        <5> QED
          BY <3>3, <1>0 DEF taboo_npos
      <4>3. \A k \in G : k \in Nat
        BY <1>a
      <4> HIDE DEF G
      <4>4. Goes(G, i - 1, i)
        BY <4>2, <4>3 DEF Goes
      <4> QED
        BY <4>1, <4>2, <4>4
    <3>4. CASE i \in F
      <4>1. b.check[i] = a.check[i]
        BY <3>4, <1>1, <1>4, <1>5
      <4>2. a.check[i] \in F \cup {taboo_npos} /\ Goes(F, a.check[i], i)
        BY <3>4 DEF ArrayInv, LinksOK
      <4>3. Goes(G, a.check[i], i)
        BY <4>2, <3>4, <1>c
      <4>4. a.check[i] \in G \cup {taboo_npos}
        BY <4>2
      <4> QED
        BY <4>1, <4>3, <4>4
    <3>5. i = taboo_npos \/ i = old \/ i \in old + 1 .. new - 1 \/ i \in F
      <4> HIDE DEF F, old, new
      <4> QED
        BY <1>0
    <3> QED
      BY <3>1, <3>2, <3>3, <3>4, <3>5
  <2> QED
    BY <2>1, <2>2, <1>8 DEF LinksOK
<1>11. HeadsOK(b)
  <2>1. ASSUME NEW l \in 0 .. BlockOf(new) - 1
        PROVE  HeadOK(G, l, b.heads[l])
    <3>1. CASE l = q
      <4>1. b.heads[l] = old
        BY <3>1, <1>3, <1>5
      <4>2. BlockOf(old) = l
        BY <3>1
      <4>3. ASSUME NEW k \in G, BlockOf(k) = l
            PROVE  old <= k
        BY <4>3, <3>1, <1>1, <1>3, <1>4
      <4> QED
        BY <4>1, <4>2, <4>3, <1>1, <1>4 DEF HeadOK, taboo_npos
    <3>2. CASE l # q
      <4>1. l \in 0 .. q - 1 /\ b.heads[l] = a.heads[l]
        BY <3>2, <1>3, <1>5
      <4>2. HeadOK(F, l, a.heads[l])
        BY <4>1 DEF ArrayInv, HeadsOK
      <4> QED
        BY <4>1, <4>2, <3>2, <1>3 DEF HeadOK
    <3> QED
      BY <3>1, <3>2
  <2> QED
    BY <2>1, <1>5, <1>8 DEF HeadsOK
<1>12. ClosedOK(b)
  <2>1. ASSUME NEW i \in V \ a.useds, i \notin G
        PROVE  b.check[i] = i
    <3>1. i \in U /\ i # taboo_npos /\ i \notin F /\ i # old /\ ~(i > old)
      BY <2>1, <1>1, <1>4
    <3>2. b.check[i] = a.check[i]
      BY <3>1, <1>5, <2>1
    <3> QED
      BY <3>1, <3>2, <2>1 DEF ArrayInv, ClosedOK
  <2> QED
    BY <2>1, <1>5, <1>8 DEF ClosedOK
<1>13. BlocksWhole(b)
  <2>1. ASSUME NEW i \in V \ a.useds, NEW j \in V \ a.useds, BlockOf(i) = BlockOf(j), i \in G
        PROVE  j \in G
    <3>1. CASE i \in old .. new - 1
      <4>1. BlockOf(j) = q
        BY <3>1, <2>1, <1>3
      <4>2. j \notin U
        BY <4>1, <1>3
      <4>3. j \in 0 .. new - 1
        BY <2>1
      <4> QED
        BY <4>2, <4>3, <1>1, <1>4
    <3>2. CASE i \in F
      <4>1. i \in U /\ j \in U
        <5>1. i \in U /\ BlockOf(j) < q
          BY <3>2, <2>1, <1>1, <1>3
        <5>2. j \notin old .. new - 1
          BY <5>1, <1>3
        <5>3. j \in 0 .. new - 1
          BY <2>1
        <5> QED
          BY <5>1, <5>2, <5>3, <1>1, <1>4
      <4> QED
        BY <4>1, <3>2, <2>1 DEF BlocksWhole
    <3> QED
      BY <3>1, <3>2, <2>1
  <2> QED
    BY <2>1, <1>5, <1>8 DEF BlocksWhole
<1>14. Keeps(a, b)
  <2>1. ASSUME NEW i \in U \ (F \cup {taboo_npos})
        PROVE  b.base[i] = a.base[i] /\ b.check[i] = a.check[i]
    <3>1. i \in V /\ i \in Nat /\ i < old /\ i # last /\ i # taboo_npos
      <4>1. i \in V
        BY <1>b
      <4>2. i \in Nat /\ i < old
        BY <1>0
      <4> QED
        BY <4>1, <4>2, <1>2
    <3>2. ~(i = new - 1) /\ ~(i >= old) /\ ~(i > old) /\ i # old
      <4> HIDE DEF old, new
      <4> QED
        BY <3>1, <1>0
    <3> HIDE DEF U, V, F, old, new
    <3> QED
      BY <3>1, <3>2, <1>5
  <2> QED
    BY <2>1 DEF Keeps
<1> QED
  BY <1>5, <1>7, <1>8, <1>10, <1>11, <1>12, <1>13, <1>14 DEF ArrayInv, b, last

LEMMA CloseWhole ==
    ASSUME NEW a, ArrayInv(a), BlocksWhole(a), NEW bpos \in 0 .. BlockOf(a.size) - 1
    PROVE  BlocksWhole(CloseBlock(a, bpos))
<1> DEFINE b == CloseBlock(a, bpos)
<1>1. b.size = a.size /\ b.useds = a.useds /\ Free(b) = {i \in Free(a) : BlockOf(i) # bpos}
  BY CloseAll
<1> HIDE DEF b
<1>2. BlocksWhole(b)
  BY <1>1 DEF BlocksWhole
<1> QED
  BY <1>2 DEF b

LEMMA ExpandOne ==
    ASSUME NEW a, ArrayInv(a), BlocksWhole(a)
    PROVE  LET b == Expand(a)
           IN  /\ ArrayInv(b) /\ BlocksWhole(b)
               /\ b.size = a.size + BlockSize /\ b.useds = a.useds
               /\ a.size .. (a.size + BlockSize) - 1 \subseteq Free(b)
               /\ Keeps(a, b)
<1> DEFINE more == Appended(a, a.check[taboo_npos])
           bpos == BlockOf(a.size)
           far == bpos - FreeBlocks
           c == CloseBlock(more, far)
           new == a.size .. (a.size + BlockSize) - 1
<1>1. /\ ArrayInv(more) /\ BlocksWhole(more)
      /\ more.size = a.size + BlockSize /\ more.useds = a.useds
      /\ Free(more) = Free(a) \cup new
      /\ Keeps(a, more)
  BY AppendOne
<1>2. /\ bpos \in Nat \ {0} /\ BlockOf(a.size + BlockSize) = bpos + 1
      /\ \A i \in new : BlockOf(i) = bpos
      /\ FreeBlocks \in Nat \ {0} /\ a.size \in Nat /\ WellFormed(a)
  BY NextBlock, BlockAssumption DEF ArrayInv, WellFormed
<1> HIDE DEF more, c, new, bpos
<1>3. CASE ~(bpos >= FreeBlocks)
  <2>1. Expand(a) = more
    BY <1>3 DEF Expand, more, bpos
  <2> QED
    BY <2>1, <1>1 DEF new
<1>4. CASE bpos >= FreeBlocks
  <2>1. Expand(a) = c
    BY <1>4 DEF Expand, more, bpos, c
  <2>2. far \in 0 .. BlockOf(more.size) - 1 /\ far # bpos
    BY <1>1, <1>2, <1>4
  <2>3. /\ ArrayInv(c) /\ c.size = more.size /\ c.useds = more.useds
        /\ Free(c) = {i \in Free(more) : BlockOf(i) # far}
        /\ Keeps(more, c)
    BY <1>1, <2>2, CloseAll DEF c
  <2>4. BlocksWhole(c)
    BY <1>1, <2>2, CloseWhole DEF c
  <2>5. new \subseteq Free(c)
    BY <1>1, <1>2, <2>2, <2>3
  <2>6. Keeps(a, c)
    <3>1. ASSUME NEW i \in (0 .. a.size - 1) \ (Free(a) \cup {taboo_npos})
          PROVE  c.base[i] = a.base[i] /\ c.check[i] = a.check[i]
      <4>1. i \in 0 .. more.size - 1 /\ i \notin new
        BY <1>1, <1>2, BlockAssumption DEF new
      <4>2. i \notin Free(more) \cup {taboo_npos}
        BY <4>1, <1>1
      <4> QED
        BY <4>1, <4>2, <1>1, <2>3 DEF Keeps
    <3> QED
      BY <3>1 DEF Keeps
  <2> QED
    BY <2>1, <2>3, <2>4, <2>5, <2>6, <1>1 DEF new
<1> QED
  BY <1>3, <1>4

-----------------------------------------------------------------------------
(* The first array. *)

LEMMA FirstOne == ArrayInv(FirstArray) /\ BlocksWhole(FirstArray)
<1> DEFINE last == BlockSize - 1
           U == 0 .. last
           a == FirstArray
           F == 2 .. last
<1>1. BlockSize \in Nat /\ BlockSize >= 2
  BY BlockAssumption
<1>2. BlockOf(0) = 0 /\ BlockOf(1) = 0 /\ \A i \in U : BlockOf(i) = 0
  <2>1. ASSUME NEW i \in U PROVE BlockOf(i) = 0
    <3>1. 0 * BlockSize + i = i /\ i \in 0 .. BlockSize - 1
      BY <1>1
    <3>2. BlockOf(0 * BlockSize + i) = 0
      BY <3>1, BlockUnique
    <3> QED
      BY <3>1, <3>2
  <2> QED
    BY <2>1, <1>1
<1>3. BlockOf(BlockSize) = 1
  <2>1. 1 * BlockSize + 0 = BlockSize /\ 0 \in 0 .. BlockSize - 1
    BY <1>1
  <2>2. BlockOf(1 * BlockSize + 0) = 1
    BY <2>1, BlockUnique
  <2> QED
    BY <2>1, <2>2
<1>4. /\ a.size = BlockSize
      /\ a.base = [i \in U |-> IF i = last THEN 1 ELSE i + 1]
      /\ a.check = [i \in U |-> IF i = 1 THEN last ELSE IF i = 0 THEN 1 ELSE i - 1]
      /\ a.useds = {0, 1}
      /\ a.heads = [b \in {0} |-> a.base[1]]
      /\ a = [size |-> a.size, base |-> a.base, check |-> a.check, useds |-> a.useds, heads |-> a.heads]
  <2> DEFINE fresh == [size  |-> BlockSize,
                       base  |-> [i \in 0 .. last |-> IF i = last THEN 0 ELSE i + 1],
                       check |-> [i \in 0 .. last |-> IF i = 0 THEN last ELSE i - 1],
                       useds |-> {},
                       heads |-> [b \in {0} |-> 0]]
             root == UseUnit(fresh, 0)
  <2>1. fresh.base[0] = 1 /\ fresh.check[0] = last /\ fresh.heads[BlockOf(0)] = 0
    BY <1>1, <1>2
  <2>2. /\ root.size = BlockSize /\ root.base = [fresh.base EXCEPT ![last] = 1]
        /\ root.check = [fresh.check EXCEPT ![1] = last] /\ root.useds = {0}
        /\ root.heads = [b \in {0} |-> 1]
    <3> HIDE DEF fresh
    <3>1. /\ root.size = fresh.size /\ root.base = [fresh.base EXCEPT ![last] = 1]
          /\ root.check = [fresh.check EXCEPT ![1] = last] /\ root.useds = fresh.useds \cup {0}
          /\ root.heads = [fresh.heads EXCEPT ![0] = 1]
      BY <2>1, <1>2 DEF UseUnit
    <3> QED
      BY <3>1 DEF fresh
  <2>3. /\ a.size = root.size /\ a.base = root.base /\ a.check = [root.check EXCEPT ![0] = 1]
        /\ a.useds = root.useds \cup {1} /\ a.heads = [root.heads EXCEPT ![0] = root.base[1]]
        /\ a = [size |-> a.size, base |-> a.base, check |-> a.check, useds |-> a.useds, heads |-> a.heads]
    BY DEF FirstArray, taboo_npos
  <2> HIDE DEF root
  <2>4. root.base = [i \in U |-> IF i = last THEN 1 ELSE i + 1]
    BY <2>2, <1>1
  <2>5. [root.check EXCEPT ![0] = 1] = [i \in U |-> IF i = 1 THEN last ELSE IF i = 0 THEN 1 ELSE i - 1]
    <3>1. root.check = [i \in U |-> IF i = 1 THEN last ELSE IF i = 0 THEN last ELSE i - 1]
      BY <2>2, <1>1
    <3> HIDE DEF U
    <3>2. \A i \in U : [root.check EXCEPT ![0] = 1][i] = IF i = 1 THEN last ELSE IF i = 0 THEN 1 ELSE i - 1
      BY <3>1
    <3> QED
      BY <3>1, <3>2
  <2>6. [root.heads EXCEPT ![0] = root.base[1]] = [b \in {0} |-> root.base[1]]
    BY <2>2
  <2> HIDE DEF a
  <2> QED
    BY <2>2, <2>3, <2>4, <2>5, <2>6
<1> HIDE DEF a
<1>5. WellFormed(a)
  <2>1. a.base \in [U -> Nat] /\ a.check \in [U -> U] /\ a.useds \subseteq U
    BY <1>1, <1>4
  <2>2. a.base[1] \in U
    BY <1>1, <1>4
  <2>3. a.heads \in [0 .. BlockOf(a.size) - 1 -> U]
    <3>1. 0 .. BlockOf(a.size) - 1 = {0}
      BY <1>3, <1>4
    <3> QED
      BY <3>1, <2>2, <1>4
  <2>4. a \in Array(a.size)
    BY <2>1, <2>3, <1>4 DEF Array
  <2>5. a.size = BlockOf(a.size) * BlockSize
    BY <1>1, <1>3, <1>4
  <2> QED
    BY <2>4, <2>5, <1>1, <1>4 DEF WellFormed, taboo_npos
<1>6. Free(a) = F
  BY <1>1, <1>4 DEF Free
<1>7. LinksOK(a)
  <2>1. ASSUME NEW i \in F \cup {taboo_npos}
        PROVE  /\ a.base[i] \in F \cup {taboo_npos} /\ Goes(F, i, a.base[i])
               /\ a.check[i] \in F \cup {taboo_npos} /\ Goes(F, a.check[i], i)
    <3>1. a.base[i] = IF i = last THEN 1 ELSE i + 1
      BY <1>1, <1>4 DEF taboo_npos
    <3>2. a.check[i] = IF i = 1 THEN last ELSE i - 1
      BY <1>1, <1>4 DEF taboo_npos
    <3> QED
      BY <3>1, <3>2, <1>1 DEF Goes, taboo_npos
  <2> QED
    BY <2>1, <1>6 DEF LinksOK
<1>8. HeadsOK(a)
  <2>1. HeadOK(F, 0, a.heads[0])
    <3>1. a.heads[0] = IF 1 = last THEN 1 ELSE 2
      BY <1>1, <1>4
    <3> QED
      BY <3>1, <1>1, <1>2 DEF HeadOK, taboo_npos
  <2> QED
    BY <2>1, <1>3, <1>4, <1>6 DEF HeadsOK
<1>9. (0 .. a.size - 1) \ a.useds = F
  BY <1>1, <1>4
<1> QED
  BY <1>5, <1>6, <1>7, <1>8, <1>9 DEF ArrayInv, ClosedOK, BlocksWhole, a

-----------------------------------------------------------------------------
(* The units of the nodes. *)

\* The list does not care for BASE and CHECK of used units other than its head.
LEMMA UsedFieldsFree ==
    ASSUME NEW a, ArrayInv(a), NEW b, b \in Array(a.size), b.useds = a.useds, b.heads = a.heads,
           \A i \in (0 .. a.size - 1) \ (a.useds \ {taboo_npos}) :
              b.base[i] = a.base[i] /\ b.check[i] = a.check[i]
    PROVE  /\ ArrayInv(b) /\ b.size = a.size /\ Free(b) = Free(a)
           /\ BlocksWhole(a) => BlocksWhole(b)
<1>1. b.size = a.size /\ WellFormed(b) /\ WellFormed(a)
  BY DEF ArrayInv, WellFormed, Array
<1>2. /\ Free(a) \subseteq 0 .. a.size - 1 /\ taboo_npos \notin Free(a)
      /\ taboo_npos \in 0 .. a.size - 1 /\ Free(a) \cap a.useds = {}
  BY <1>1, FreeType
<1>3. Free(b) = Free(a)
  BY <1>1 DEF Free
<1>4. LinksOK(b)
  <2>1. ASSUME NEW i \in Free(a) \cup {taboo_npos}
        PROVE  b.base[i] = a.base[i] /\ b.check[i] = a.check[i]
    BY <1>2
  <2> QED
    BY <2>1, <1>3 DEF LinksOK, ArrayInv
<1>5. HeadsOK(b)
  BY <1>1, <1>3 DEF HeadsOK, ArrayInv
<1>6. ClosedOK(b)
  BY <1>1, <1>3 DEF ClosedOK, ArrayInv
<1>7. BlocksWhole(a) => BlocksWhole(b)
  BY <1>1, <1>3 DEF BlocksWhole
<1> QED
  BY <1>1, <1>3, <1>4, <1>5, <1>6, <1>7 DEF ArrayInv

LEMMA TakeOne ==
    ASSUME NEW a, ArrayInv(a), NEW n \in Free(a), NEW parent \in 0 .. a.size - 1
    PROVE  LET b == [UseUnit(a, n) EXCEPT !.check[n] = parent]
           IN  /\ ArrayInv(b) /\ b.size = a.size /\ Free(b) = Free(a) \ {n}
               /\ b.useds = a.useds \cup {n} /\ b.check[n] = parent /\ Keeps(a, b)
<1> DEFINE u == UseUnit(a, n)
           b == [u EXCEPT !.check[n] = parent]
           U == 0 .. a.size - 1
<1>1. /\ ArrayInv(u) /\ u.size = a.size /\ Free(u) = Free(a) \ {n}
      /\ u.useds = a.useds \cup {n} /\ Keeps(a, u)
  BY UseFree
<1>2. n \in U /\ n # taboo_npos /\ u \in Array(u.size)
  BY <1>1, FreeType DEF ArrayInv, WellFormed
<1> HIDE DEF u
<1>3. /\ b \in Array(u.size) /\ b.useds = u.useds /\ b.heads = u.heads /\ b.base = u.base
      /\ b.check = [u.check EXCEPT ![n] = parent]
  BY <1>1, <1>2 DEF Array
<1>4. b.check[n] = parent /\ \A i \in U \ {n} : b.check[i] = u.check[i]
  BY <1>1, <1>2, <1>3 DEF Array
<1> HIDE DEF b
<1>5. \A i \in (0 .. u.size - 1) \ (u.useds \ {taboo_npos}) : b.base[i] = u.base[i] /\ b.check[i] = u.check[i]
  BY <1>1, <1>2, <1>3, <1>4
<1>6. ArrayInv(b) /\ b.size = u.size /\ Free(b) = Free(u)
  BY <1>1, <1>3, <1>5, UsedFieldsFree
<1>7. Keeps(a, b)
  BY <1>1, <1>3, <1>4 DEF Keeps
<1> QED
  BY <1>1, <1>3, <1>4, <1>6, <1>7 DEF b, u

Children(base, edges) == {Child(base, ch) : ch \in edges}

\* All children of a node get their units.
LEMMA TieAll ==
    ASSUME NEW a, ArrayInv(a), code \in Bijection(Chars, Chars),
           NEW base \in Nat, NEW edges \in SUBSET Chars, NEW parent \in 0 .. a.size - 1,
           \A ch \in edges : Child(base, ch) \in Free(a)
    PROVE  LET b == Tied(a, base, edges, parent)
               C == Children(base, edges)
           IN  /\ ArrayInv(b) /\ b.size = a.size /\ Free(b) = Free(a) \ C
               /\ b.useds = a.useds \cup C /\ Keeps(a, b)
               /\ \A i \in C : b.check[i] = parent
               /\ BlocksWhole(a) => BlocksWhole(b)
<1> DEFINE Take(g, npos) == [UseUnit(g, npos) EXCEPT !.check[npos] = parent]
           Step(g, n) == IF n - 1 \in edges THEN Take(g, Child(base, n - 1)) ELSE g
           Loop(m, g) == g = [n \in 0 .. m |-> IF n = 0 THEN a ELSE Step(g[n - 1], n)]
           Ties == CHOOSE g : Loop(BlockSize, g)
           Until(n) == {Child(base, ch) : ch \in {d \in edges : d < n}}
<1>0. BlockSize \in Nat
  BY BlockAssumption
<1>1. \E g : Loop(BlockSize, g)
  <2> HIDE DEF Step
  <2> DEFINE S == {m \in 0 .. BlockSize : \E g : Loop(m, g)}
  <2>1. 0 \in S
    <3>1. Loop(0, [n \in 0 .. 0 |-> a])
      OBVIOUS
    <3> HIDE DEF Loop
    <3> QED
      BY <3>1, <1>0
  <2>2. ASSUME NEW m \in 0 .. BlockSize - 1, m \in S
        PROVE  m + 1 \in S
    <3>1. PICK g : Loop(m, g)
      BY <2>2
    <3> DEFINE h == [n \in 0 .. m + 1 |-> IF n = m + 1 THEN Step(g[m], m + 1) ELSE g[n]]
    <3>2. ASSUME NEW n \in 0 .. m + 1
          PROVE  h[n] = IF n = 0 THEN a ELSE Step(h[n - 1], n)
      <4>1. CASE n = m + 1
        <5>1. h[n - 1] = g[m] /\ n # 0
          BY <4>1, <1>0
        <5> QED
          BY <5>1, <4>1
      <4>2. CASE n # m + 1
        <5>1. n \in 0 .. m /\ h[n] = g[n] /\ (n # 0 => h[n - 1] = g[n - 1])
          BY <4>2, <1>0
        <5>2. g[n] = IF n = 0 THEN a ELSE Step(g[n - 1], n)
          BY <3>1, <5>1
        <5> QED
          BY <5>1, <5>2
      <4> QED
        BY <4>1, <4>2
    <3>3. Loop(m + 1, h)
      <4>1. h = [n \in 0 .. m + 1 |-> h[n]]
        OBVIOUS
      <4> HIDE DEF h
      <4> QED
        BY <4>1, <3>2
    <3> HIDE DEF Loop, h
    <3> QED
      BY <3>3, <1>0
  <2> HIDE DEF Loop
  <2>3. \A n \in 0 .. BlockSize : n \in S
    <3> HIDE DEF S
    <3> QED
      BY <2>1, <2>2, <1>0, Rounds
  <2> QED
    BY <2>3, <1>0
<1>2. Loop(BlockSize, Ties)
  <2> HIDE DEF Loop
  <2> QED
    BY <1>1
<1>3. Ties[0] = a /\ \A n \in 1 .. BlockSize : Ties[n] = Step(Ties[n - 1], n)
  <2> HIDE DEF Ties, Step
  <2> QED
    BY <1>2, <1>0
<1>4. Tied(a, base, edges, parent) = Ties[BlockSize]
  BY DEF Tied
<1> HIDE DEF Ties, Loop
<1> DEFINE Round(n) ==
             /\ ArrayInv(Ties[n]) /\ Ties[n].size = a.size
             /\ Free(Ties[n]) = Free(a) \ Until(n)
             /\ Ties[n].useds = a.useds \cup Until(n)
             /\ Keeps(a, Ties[n])
             /\ \A i \in Until(n) : Ties[n].check[i] = parent
<1>5. \A n \in 0 .. BlockSize : Round(n)
  <2> DEFINE S == {n \in 0 .. BlockSize : Round(n)}
  <2>1. 0 \in S
    <3>1. Until(0) = {}
      BY DEF Chars
    <3>2. Keeps(a, a)
      BY DEF Keeps
    <3> HIDE DEF Until
    <3> QED
      BY <3>1, <3>2, <1>0, <1>3
  <2>2. ASSUME NEW n \in 0 .. BlockSize - 1, n \in S
        PROVE  n + 1 \in S
    <3> DEFINE g == Ties[n]
    <3>1. /\ ArrayInv(g) /\ g.size = a.size /\ Free(g) = Free(a) \ Until(n)
          /\ g.useds = a.useds \cup Until(n) /\ Keeps(a, g)
          /\ \A i \in Until(n) : g.check[i] = parent
      BY <2>2
    <3>2. Ties[n + 1] = IF n \in edges THEN Take(g, Child(base, n)) ELSE g
      <4>1. n + 1 \in 1 .. BlockSize /\ n + 1 - 1 = n
        BY <1>0
      <4> HIDE DEF Take, g
      <4> QED
        BY <4>1, <1>3 DEF g
    <3>3. CASE n \notin edges
      <4>1. Until(n + 1) = Until(n)
        BY <3>3, <1>0 DEF Chars
      <4> HIDE DEF Until, Take, g
      <4> QED
        BY <4>1, <3>1, <3>2, <3>3, <1>0
    <3>4. CASE n \in edges
      <4> DEFINE u == Child(base, n)
                 d == Take(g, u)
      <4>1. Until(n + 1) = Until(n) \cup {u}
        BY <3>4, <1>0 DEF Chars
      <4>2. u \notin Until(n)
        <5> SUFFICES ASSUME NEW ch \in edges, ch < n, Child(base, ch) = Child(base, n)
                     PROVE  FALSE
          OBVIOUS
        <5>1. ch = n
          BY <3>4, ChildInjective
        <5> QED
          BY <5>1, <1>0
      <4>3. u \in Free(g) /\ parent \in 0 .. g.size - 1
        BY <4>2, <3>1, <3>4
      <4>4. /\ ArrayInv(d) /\ d.size = g.size /\ Free(d) = Free(g) \ {u}
            /\ d.useds = g.useds \cup {u} /\ Keeps(g, d)
            /\ d.check[u] = parent
        <5> HIDE DEF g, u
        <5> QED
          BY <4>3, <3>1, TakeOne
      <4>7. Until(n) \subseteq 0 .. g.size - 1 /\ taboo_npos \notin Until(n)
        BY <3>1, FreeType DEF ArrayInv
      <4> HIDE DEF Until, d, g, u, Take
      <4>8. \A i \in Until(n) \cup {u} : d.check[i] = parent
        BY <3>1, <4>4, <4>7 DEF Keeps
      <4>5. Keeps(a, d)
        BY <3>1, <4>4, KeepsTrans
      <4>6. Ties[n + 1] = d
        BY <3>2, <3>4 DEF d, u
      <4> QED
        BY <4>1, <4>4, <4>5, <4>6, <4>8, <3>1, <1>0
    <3> QED
      BY <3>3, <3>4
  <2>3. \A n \in 0 .. BlockSize : n \in S
    <3> HIDE DEF S
    <3> QED
      BY <2>1, <2>2, <1>0, Rounds
  <2> QED
    BY <2>3
<1> DEFINE b == Ties[BlockSize]
           C == Children(base, edges)
<1>6. Until(BlockSize) = C
  BY <1>0 DEF Chars, Children
<1>7. /\ ArrayInv(b) /\ b.size = a.size /\ Free(b) = Free(a) \ C
      /\ b.useds = a.useds \cup C /\ Keeps(a, b)
      /\ \A i \in C : b.check[i] = parent
  <2> HIDE DEF Until, C
  <2> QED
    BY <1>5, <1>6, <1>0
<1>8. BlocksWhole(a) => BlocksWhole(b)
  <2> HIDE DEF b, C
  <2> QED
    BY <1>7 DEF BlocksWhole
<1> QED
  BY <1>4, <1>7, <1>8

-----------------------------------------------------------------------------
(* The search for a base. *)

\* The loop along the list ends at the head, or at a unit of the list that fits.
LEMMA FitFound ==
    ASSUME NEW a, ArrayInv(a), NEW start \in Free(a) \cup {taboo_npos}, NEW fits,
           NEW within, taboo_npos \notin within
    PROVE  LET i == FirstFit(a, start, within, fits)
           IN  i = taboo_npos \/ i \in Free(a) \cap within \cap fits
<1> DEFINE k == a.size
           Step(g) == IF g \in within \ fits THEN a.base[g] ELSE g
           Loop(m, g) == g = [n \in 0 .. m |-> IF n = 0 THEN start ELSE Step(g[n - 1])]
           Seek == CHOOSE g : Loop(k, g)
<1>0. k \in Nat
  BY DEF ArrayInv, WellFormed
<1>1. \E g : Loop(k, g)
  <2> HIDE DEF Step, k
  <2> DEFINE S == {m \in 0 .. k : \E g : Loop(m, g)}
  <2>1. 0 \in S
    <3>1. Loop(0, [n \in 0 .. 0 |-> start])
      OBVIOUS
    <3> HIDE DEF Loop
    <3> QED
      BY <3>1, <1>0
  <2>2. ASSUME NEW m \in 0 .. k - 1, m \in S
        PROVE  m + 1 \in S
    <3>1. PICK g : Loop(m, g)
      BY <2>2
    <3> DEFINE h == [n \in 0 .. m + 1 |-> IF n = m + 1 THEN Step(g[m]) ELSE g[n]]
    <3>2. ASSUME NEW n \in 0 .. m + 1
          PROVE  h[n] = IF n = 0 THEN start ELSE Step(h[n - 1])
      <4>1. CASE n = m + 1
        <5>1. h[n - 1] = g[m] /\ n # 0
          BY <4>1, <1>0
        <5> QED
          BY <5>1, <4>1
      <4>2. CASE n # m + 1
        <5>1. n \in 0 .. m /\ h[n] = g[n] /\ (n # 0 => h[n - 1] = g[n - 1])
          BY <4>2, <1>0
        <5>2. g[n] = IF n = 0 THEN start ELSE Step(g[n - 1])
          BY <3>1, <5>1
        <5> QED
          BY <5>1, <5>2
      <4> QED
        BY <4>1, <4>2
    <3>3. Loop(m + 1, h)
      <4>1. h = [n \in 0 .. m + 1 |-> h[n]]
        OBVIOUS
      <4> HIDE DEF h
      <4> QED
        BY <4>1, <3>2
    <3> HIDE DEF Loop, h
    <3> QED
      BY <3>3, <1>0
  <2> HIDE DEF Loop
  <2>3. \A n \in 0 .. k : n \in S
    <3> HIDE DEF S
    <3> QED
      BY <2>1, <2>2, <1>0, Rounds
  <2> QED
    BY <2>3, <1>0
<1>2. Loop(k, Seek)
  <2> HIDE DEF Loop
  <2> QED
    BY <1>1
<1>3. Seek[0] = start /\ \A n \in 1 .. k : Seek[n] = Step(Seek[n - 1])
  <2> HIDE DEF Seek, Step, k
  <2> QED
    BY <1>2, <1>0
<1>4. FirstFit(a, start, within, fits) = IF Seek[k] \in within \cap fits THEN Seek[k] ELSE taboo_npos
  BY DEF FirstFit
<1> HIDE DEF Seek, Loop, k
<1>5. \A n \in 0 .. k : Seek[n] \in Free(a) \cup {taboo_npos}
  <2> DEFINE S == {n \in 0 .. k : Seek[n] \in Free(a) \cup {taboo_npos}}
  <2>1. 0 \in S
    BY <1>0, <1>3
  <2>2. ASSUME NEW n \in 0 .. k - 1, n \in S
        PROVE  n + 1 \in S
    <3>1. n + 1 \in 1 .. k /\ n + 1 - 1 = n
      BY <1>0
    <3>2. Seek[n + 1] = Step(Seek[n])
      BY <3>1, <1>3
    <3>3. Seek[n] \in Free(a) => a.base[Seek[n]] \in Free(a) \cup {taboo_npos}
      BY DEF ArrayInv, LinksOK
    <3> QED
      BY <2>2, <3>1, <3>2, <3>3
  <2>3. \A n \in 0 .. k : n \in S
    <3> HIDE DEF S
    <3> QED
      BY <2>1, <2>2, <1>0, Rounds
  <2> QED
    BY <2>3
<1> QED
  BY <1>0, <1>4, <1>5

\* The base of a node, when the whole list is searched in vain, is in the block
\* that Expand adds; otherwise all its units are unused units of an open block.
LEMMA BaseFound ==
    ASSUME NEW a, ArrayInv(a), BlocksWhole(a), code \in Bijection(Chars, Chars),
           NEW lpos \in 0 .. BlockOf(a.size) - 1, NEW edges \in SUBSET Chars, edges # {}
    PROVE  LET base == Xcheck(a, lpos, edges)
           IN  /\ base \in Nat
               /\ \/ a.size <= base /\ BlockOf(base) = BlockOf(a.size)
                  \/ base < a.size /\ \A ch \in edges : Child(base, ch) \in Free(a)
<1> DEFINE first == Min(edges)
           open  == (0 .. a.size - 1) \ {taboo_npos}
           fits  == {i \in open : \A ch \in edges : Child(Child(i, first), ch) \notin a.useds}
           near  == FirstFit(a, a.heads[lpos], {i \in open : BlockOf(i) = lpos}, fits)
           far   == FirstFit(a, a.base[taboo_npos], open, fits)
           hit   == IF a.base[taboo_npos] = taboo_npos THEN taboo_npos
                    ELSE IF near # taboo_npos THEN near ELSE far
           base  == Xcheck(a, lpos, edges)
<1>1. first \in Chars
  <2>1. edges \in SUBSET Nat
    BY BlockAssumption DEF Chars
  <2> QED
    BY <2>1, MinFacts
<1>2. /\ a.size \in Nat /\ a.size = BlockOf(a.size) * BlockSize /\ WellFormed(a)
  BY DEF ArrayInv, WellFormed
<1>3. a.heads[lpos] \in Free(a) \cup {taboo_npos} /\ a.base[taboo_npos] \in Free(a) \cup {taboo_npos}
  BY DEF ArrayInv, HeadsOK, HeadOK, LinksOK
<1>4. near = taboo_npos \/ near \in Free(a) \cap fits
  <2> DEFINE within == {i \in open : BlockOf(i) = lpos}
  <2>1. taboo_npos \notin within
    OBVIOUS
  <2> HIDE DEF within, fits
  <2> QED
    BY <2>1, <1>3, FitFound
<1>5. far = taboo_npos \/ far \in Free(a) \cap fits
  <2>1. taboo_npos \notin open
    OBVIOUS
  <2> HIDE DEF open, fits
  <2> QED
    BY <2>1, <1>3, FitFound
<1>6. base = Child(IF hit = taboo_npos THEN a.size ELSE hit, first)
  BY DEF Xcheck
<1>7. hit = taboo_npos \/ hit \in Free(a) \cap fits
  <2> HIDE DEF near, far, fits
  <2> QED
    BY <1>4, <1>5
<1> HIDE DEF near, far, hit, first, base
<1>8. CASE hit = taboo_npos
  <2>1. base \in Nat /\ BlockOf(base) = BlockOf(a.size)
    <3>1. base = Child(a.size, first)
      BY <1>6, <1>8
    <3> QED
      BY <3>1, <1>1, <1>2, ChildFacts
  <2>2. a.size <= base
    <3>1. base - BlockOf(a.size) * BlockSize \in 0 .. BlockSize - 1
      BY <2>1, <1>2, Division, BlockUnits
    <3> QED
      BY <3>1, <2>1, <1>2, BlockAssumption
  <2> QED
    BY <2>1, <2>2 DEF base
<1>9. CASE hit # taboo_npos
  <2>1. /\ hit \in Free(a) /\ hit \in 0 .. a.size - 1
        /\ \A ch \in edges : Child(Child(hit, first), ch) \notin a.useds
    BY <1>7, <1>9
  <2>2. base = Child(hit, first) /\ hit \in Nat
    BY <2>1, <1>2, <1>6, <1>9
  <2>3. base \in Nat /\ BlockOf(base) = BlockOf(hit)
    BY <2>2, <1>1, ChildFacts
  <2>4. BlockOf(hit) \in 0 .. BlockOf(a.size) - 1
    BY <2>1, <1>2, UnitBlock
  <2>5. ASSUME NEW i \in Nat, BlockOf(i) = BlockOf(hit)
        PROVE  i \in 0 .. a.size - 1
    <3>1. ~(a.size <= i)
      <4> SUFFICES ASSUME a.size <= i PROVE FALSE
        OBVIOUS
      <4>1. BlockOf(a.size) <= BlockOf(i)
        BY <1>2, BlockOrder
      <4>2. BlockOf(a.size) \in Nat
        BY <1>2, Division
      <4> HIDE DEF BlockOf
      <4> QED
        BY <4>1, <4>2, <2>4, <2>5
    <3> QED
      BY <3>1, <1>2
  <2>6. base < a.size
    <3>1. base \in 0 .. a.size - 1
      BY <2>3, <2>5
    <3> QED
      BY <3>1, <1>2
  <2>7. ASSUME NEW ch \in edges
        PROVE  Child(base, ch) \in Free(a)
    <3>1. Child(base, ch) \in Nat /\ BlockOf(Child(base, ch)) = BlockOf(hit)
      BY <2>3, ChildFacts
    <3>2. Child(base, ch) \in (0 .. a.size - 1) \ a.useds
      BY <3>1, <2>1, <2>2, <2>5
    <3>3. hit \in (0 .. a.size - 1) \ a.useds
      BY <2>1 DEF Free
    <3> HIDE DEF BlockOf
    <3> QED
      BY <3>1, <3>2, <3>3, <2>1 DEF BlocksWhole
  <2> QED
    BY <2>3, <2>6, <2>7 DEF base
<1> QED
  BY <1>8, <1>9

\* arrange gives units to the children of a node, in the array as it is or in the
\* block that is added for them.
LEMMA NodeUnits ==
    ASSUME NEW a, ArrayInv(a), BlocksWhole(a), code \in Bijection(Chars, Chars),
           NEW parent \in a.useds \ {taboo_npos}, NEW edges \in SUBSET Chars, edges # {},
           NEW base, base = Xcheck(a, BlockOf(parent), edges),
           NEW room, room = IF a.size <= base THEN Expand(a) ELSE a,
           NEW b, b = Tied([room EXCEPT !.base[parent] = base], base, edges, parent)
    PROVE  LET C == Children(base, edges)
           IN  /\ ArrayInv(b) /\ BlocksWhole(b)
               /\ a.size <= b.size /\ base \in Nat
               /\ b.useds = a.useds \cup C /\ taboo_npos \notin C
               /\ C \cap a.useds = {}
               /\ \A i \in 0 .. a.size - 1 : i \in C => i \in Free(a)
               /\ \A i \in (0 .. a.size - 1) \ (Free(a) \cup {taboo_npos}) :
                     b.check[i] = a.check[i] /\ (i # parent => b.base[i] = a.base[i])
               /\ b.base[parent] = base /\ \A i \in C : b.check[i] = parent
<1> DEFINE d    == [room EXCEPT !.base[parent] = base]
           C == Children(base, edges)
           U    == 0 .. a.size - 1
<1>1. /\ WellFormed(a) /\ a.size \in Nat /\ parent \in U /\ parent # taboo_npos
      /\ Free(a) \subseteq U /\ Free(a) \cap a.useds = {} /\ a.useds \subseteq U
  BY FreeType DEF ArrayInv, WellFormed, Array
<1>2. /\ base \in Nat
      /\ \/ a.size <= base /\ BlockOf(base) = BlockOf(a.size)
         \/ base < a.size /\ \A ch \in edges : Child(base, ch) \in Free(a)
  <2>1. BlockOf(parent) \in 0 .. BlockOf(a.size) - 1
    BY <1>1, UnitBlock
  <2> QED
    BY <2>1, BaseFound
<1>3. /\ ArrayInv(room) /\ BlocksWhole(room) /\ a.size <= room.size
      /\ room.useds = a.useds /\ Keeps(a, room)
      /\ \A ch \in edges : Child(base, ch) \in Free(room)
      /\ \A ch \in edges : Child(base, ch) \in U => Child(base, ch) \in Free(a)
  <2>1. CASE base < a.size
    <3>1. room = a
      BY <2>1, <1>1, <1>2
    <3>2. \A ch \in edges : Child(base, ch) \in Free(a)
      BY <2>1, <1>1, <1>2
    <3> QED
      BY <3>1, <3>2, <1>1 DEF Keeps
  <2>2. CASE a.size <= base
    <3> DEFINE e == Expand(a)
    <3>1. room = e
      BY <2>2
    <3>2. /\ ArrayInv(e) /\ BlocksWhole(e)
          /\ e.size = a.size + BlockSize /\ e.useds = a.useds
          /\ a.size .. (a.size + BlockSize) - 1 \subseteq Free(e)
          /\ Keeps(a, e)
      BY ExpandOne
    <3>3. BlockOf(base) = BlockOf(a.size)
      BY <2>2, <1>1, <1>2
    <3>4. ASSUME NEW ch \in edges
          PROVE  Child(base, ch) \in a.size .. (a.size + BlockSize) - 1
      <4>1. Child(base, ch) \in Nat /\ BlockOf(Child(base, ch)) = BlockOf(a.size)
        BY <3>3, <1>2, ChildFacts
      <4>2. BlockOf(a.size) \in Nat
        BY <1>1, Division
      <4>3. Child(base, ch) - BlockOf(a.size) * BlockSize \in 0 .. BlockSize - 1
        BY <4>1, <4>2, BlockUnits
      <4>4. a.size = BlockOf(a.size) * BlockSize
        BY <1>1 DEF WellFormed
      <4> HIDE DEF BlockOf, Child
      <4>5. Child(base, ch) - a.size \in 0 .. BlockSize - 1
        BY <4>3, <4>4
      <4> QED
        BY <4>1, <4>5, <1>1, BlockAssumption
    <3> HIDE DEF e
    <3>5. a.size <= room.size /\ \A ch \in edges : Child(base, ch) \notin U
      BY <3>1, <3>2, <3>4, <1>1, BlockAssumption
    <3> QED
      BY <3>1, <3>2, <3>4, <3>5
  <2> QED
    BY <2>1, <2>2, <1>1, <1>2
<1>4. /\ parent \in room.useds \ {taboo_npos} /\ room \in Array(room.size) /\ room.size \in Nat
      /\ parent \in 0 .. room.size - 1
      /\ Free(room) \cap room.useds = {} /\ taboo_npos \notin Free(room)
  <2>1. WellFormed(room)
    BY <1>3 DEF ArrayInv
  <2> QED
    BY <2>1, <1>1, <1>3, FreeType DEF WellFormed, Array
<1>5. /\ d \in Array(room.size) /\ d.useds = room.useds /\ d.heads = room.heads
      /\ d.check = room.check /\ d.base = [room.base EXCEPT ![parent] = base]
  BY <1>2, <1>4 DEF Array
<1>b. b = Tied(d, base, edges, parent)
  OBVIOUS
<1>6. /\ ArrayInv(d) /\ BlocksWhole(d) /\ d.size = room.size /\ Free(d) = Free(room)
      /\ \A i \in 0 .. room.size - 1 : i # parent => d.base[i] = room.base[i]
  <2>1. \A i \in 0 .. room.size - 1 : i # parent => d.base[i] = room.base[i]
    BY <1>4, <1>5 DEF Array
  <2> HIDE DEF d
  <2>2. \A i \in (0 .. room.size - 1) \ (room.useds \ {taboo_npos}) :
           d.base[i] = room.base[i] /\ d.check[i] = room.check[i]
    BY <2>1, <1>4, <1>5
  <2>3. d \in Array(room.size) /\ d.useds = room.useds /\ d.heads = room.heads
    BY <1>5
  <2>4. ArrayInv(room) /\ BlocksWhole(room)
    BY <1>3
  <2> HIDE DEF ArrayInv, BlocksWhole, Free, Array
  <2>5. /\ ArrayInv(d) /\ d.size = room.size /\ Free(d) = Free(room)
        /\ BlocksWhole(room) => BlocksWhole(d)
    BY <2>2, <2>3, <2>4, UsedFieldsFree
  <2> QED
    BY <2>1, <2>4, <2>5
<1> HIDE DEF d
<1>7. /\ ArrayInv(b) /\ BlocksWhole(b) /\ b.size = d.size /\ Free(b) = Free(d) \ C
      /\ b.useds = d.useds \cup C /\ Keeps(d, b)
      /\ \A i \in C : b.check[i] = parent
  <2>1. /\ ArrayInv(d) /\ parent \in 0 .. d.size - 1 /\ base \in Nat
        /\ \A ch \in edges : Child(base, ch) \in Free(d)
        /\ code \in Bijection(Chars, Chars) /\ edges \in SUBSET Chars
    BY <1>2, <1>3, <1>4, <1>6
  <2> HIDE DEF ArrayInv, Free, Child, Tied, BlocksWhole, Keeps
  <2>2. /\ ArrayInv(b) /\ b.size = d.size /\ Free(b) = Free(d) \ C
        /\ b.useds = d.useds \cup C /\ Keeps(d, b)
        /\ \A i \in C : b.check[i] = parent
        /\ BlocksWhole(d) => BlocksWhole(b)
    <3> DEFINE t == Tied(d, base, edges, parent)
    <3>1. /\ ArrayInv(t) /\ t.size = d.size /\ Free(t) = Free(d) \ Children(base, edges)
          /\ t.useds = d.useds \cup Children(base, edges) /\ Keeps(d, t)
          /\ \A i \in Children(base, edges) : t.check[i] = parent
          /\ BlocksWhole(d) => BlocksWhole(t)
      BY ONLY <2>1, TieAll, Zenon
    <3> QED
      BY <3>1, <1>b
  <2> QED
    BY <2>2, <1>6
<1>8. C \subseteq Free(room) /\ \A i \in U : i \in C => i \in Free(a)
  BY <1>3 DEF Children
<1> HIDE DEF C
<1>9. ASSUME NEW i \in U \ (Free(a) \cup {taboo_npos})
      PROVE  b.check[i] = a.check[i] /\ (i # parent => b.base[i] = a.base[i])
  <2>1. i \in 0 .. room.size - 1
    BY <1>1, <1>3, <1>4
  <2>2. room.base[i] = a.base[i] /\ room.check[i] = a.check[i]
    BY <1>3 DEF Keeps
  <2>3. i \notin Free(room)
    <3>1. CASE i \in a.useds
      BY <3>1, <1>3, <1>4
    <3>2. CASE i \notin a.useds
      <4>1. a.base[i] = i
        BY <3>2 DEF Free
      <4> QED
        BY <4>1, <2>2 DEF Free
    <3> QED
      BY <3>1, <3>2
  <2>4. b.base[i] = d.base[i] /\ b.check[i] = d.check[i]
    BY <2>1, <2>3, <1>6, <1>7 DEF Keeps
  <2> QED
    BY <2>1, <2>2, <2>4, <1>5, <1>6
<1>10. b.base[parent] = base
  <2>1. d.base[parent] = base
    BY <1>4, <1>5 DEF Array
  <2>2. parent \in 0 .. d.size - 1 /\ parent \notin Free(d) \cup {taboo_npos}
    BY <1>4, <1>6
  <2> QED
    BY <2>1, <2>2, <1>7 DEF Keeps
<1>11. /\ ArrayInv(b) /\ BlocksWhole(b) /\ base \in Nat
       /\ a.size <= b.size /\ b.useds = a.useds \cup C
       /\ \A i \in C : b.check[i] = parent
  BY <1>2, <1>3, <1>5, <1>6, <1>7
<1>12. taboo_npos \notin C /\ C \cap a.useds = {}
  BY <1>3, <1>4, <1>8
<1> HIDE DEF ArrayInv, BlocksWhole, Free
<1> QED
  BY <1>8, <1>9, <1>10, <1>11, <1>12 DEF C

-----------------------------------------------------------------------------
(* The calls of arrange. *)

\* A call has a range of keys that agree in their first kpos characters, and the
\* unit of a node.
CallOK(c, used) ==
    /\ c \in [beg : Nat, end : Nat, kpos : Nat, npos : used \ {taboo_npos}]
    /\ c.beg < c.end /\ c.end <= Len(keys)
    /\ \A i \in c.beg .. c.end - 1 :
          c.kpos <= Len(Key(i)) /\ \A j \in 1 .. c.kpos : Key(i)[j] = Key(c.beg)[j]

LEMMA KeyFacts ==
    ASSUME keys \in KeyLists, NEW i \in 0 .. Len(keys) - 1
    PROVE  Key(i) \in Seq(Chars) /\ Len(Key(i)) \in Nat /\ Key(i) # <<>>
<1>1. keys \in Seq(Seq(Chars) \ {<<>>}) /\ i + 1 \in 1 .. Len(keys)
  BY KeyAssumption
<1>2. keys[i + 1] \in Seq(Chars) \ {<<>>}
  BY <1>1
<1> HIDE DEF Chars
<1> QED
  BY <1>2 DEF Key

\* Behind what they share, the later of two keys goes on, with no smaller character.
LEMMA KeysRise ==
    ASSUME keys \in KeyLists, NEW used, NEW c, CallOK(c, used),
           NEW i \in c.beg .. c.end - 1, NEW j \in c.beg .. c.end - 1, i < j
    PROVE  /\ c.kpos < Len(Key(j))
           /\ c.kpos < Len(Key(i)) => Key(i)[c.kpos + 1] <= Key(j)[c.kpos + 1]
<1> DEFINE a == Key(i)
           b == Key(j)
           k == c.kpos
<1>1. /\ c.beg \in Nat /\ c.end \in Nat /\ k \in Nat /\ c.end <= Len(keys) /\ Len(keys) \in Nat
      /\ k <= Len(a) /\ k <= Len(b) /\ \A n \in 1 .. k : a[n] = b[n]
  <2>1. Len(keys) \in Nat
    BY KeyAssumption
  <2> QED
    BY <2>1 DEF CallOK
<1>2. a \in Seq(Chars) /\ Len(a) \in Nat /\ b \in Seq(Chars) /\ Len(b) \in Nat
  BY <1>1, KeyFacts
<1>3. LexLess(a, b)
  <2>1. i + 1 \in 1 .. Len(keys) /\ j + 1 \in 1 .. Len(keys) /\ i + 1 < j + 1
    BY <1>1
  <2>2. LexLess(keys[i + 1], keys[j + 1])
    BY <2>1, KeyAssumption
  <2> QED
    BY <2>2 DEF Key
<1>4. (\A n \in 1 .. Len(a) : a[n] \in Nat) /\ (\A n \in 1 .. Len(b) : b[n] \in Nat)
  BY <1>2, BlockAssumption DEF Chars
<1> HIDE DEF a, b, k
<1>5. PICK p \in 1 .. Len(b) : /\ p <= Len(a) + 1
                               /\ \A n \in 1 .. p - 1 : a[n] = b[n]
                               /\ p <= Len(a) => a[p] < b[p]
  BY <1>3 DEF LexLess
<1>6. k < p
  <2> SUFFICES ASSUME p <= k PROVE FALSE
    BY <1>1, <1>2, <1>5
  <2>1. a[p] = b[p] /\ a[p] < b[p] /\ a[p] \in Nat
    BY <1>1, <1>2, <1>4, <1>5
  <2> QED
    BY <2>1
<1>7. ASSUME k < Len(a)
      PROVE  a[k + 1] <= b[k + 1]
  <2>1. k + 1 \in 1 .. Len(a) /\ k + 1 \in 1 .. Len(b)
    BY <1>1, <1>2, <1>5, <1>6, <1>7
  <2>2. CASE p = k + 1
    BY <2>1, <2>2, <1>4, <1>5, <1>7
  <2>3. CASE p # k + 1
    <3>1. k + 1 \in 1 .. p - 1
      BY <2>1, <2>3, <1>1, <1>5, <1>6
    <3>2. a[k + 1] = b[k + 1]
      BY <3>1, <1>5
    <3> QED
      BY <3>2, <2>1, <1>4
  <2> QED
    BY <2>2, <2>3
<1> QED
  BY <1>1, <1>2, <1>5, <1>6, <1>7 DEF a, b, k

\* The keys of a node with several keys have a next character, but the one that
\* ends there.
LEMMA EdgesFacts ==
    ASSUME keys \in KeyLists, NEW used, NEW c, CallOK(c, used), c.beg + 1 < c.end
    PROVE  LET beg == IF EndsHere(c) THEN c.beg + 1 ELSE c.beg
           IN  /\ beg \in c.beg .. c.end - 1
               /\ \A i \in beg .. c.end - 1 : c.kpos < Len(Key(i))
               /\ Edges(c, beg) \in SUBSET Chars /\ Edges(c, beg) # {}
<1> DEFINE beg == IF EndsHere(c) THEN c.beg + 1 ELSE c.beg
<1>1. /\ c.beg \in Nat /\ c.end \in Nat /\ c.kpos \in Nat /\ c.end <= Len(keys) /\ Len(keys) \in Nat
      /\ c.kpos <= Len(Key(c.beg))
  <2>1. Len(keys) \in Nat
    BY KeyAssumption
  <2>2. c.beg \in c.beg .. c.end - 1
    BY DEF CallOK
  <2> QED
    BY <2>1, <2>2 DEF CallOK
<1>2. beg \in c.beg .. c.end - 1
  BY <1>1
<1>3. \A i \in c.beg .. c.end - 1 : i # c.beg => c.kpos < Len(Key(i))
  <2> TAKE i \in c.beg .. c.end - 1
  <2> HAVE i # c.beg
  <2>1. c.beg \in c.beg .. c.end - 1 /\ c.beg < i
    BY <1>1
  <2> HIDE DEF CallOK
  <2> QED
    BY <2>1, KeysRise
<1>4. Len(Key(c.beg)) \in Nat
  BY <1>1, KeyFacts
<1>5. ASSUME NEW i \in beg .. c.end - 1
      PROVE  c.kpos < Len(Key(i)) /\ Key(i)[c.kpos + 1] \in Chars
  <2>1. c.kpos < Len(Key(i))
    <3>1. CASE i # c.beg
      BY <3>1, <1>1, <1>2, <1>3
    <3>2. CASE i = c.beg
      BY <3>2, <1>1, <1>4 DEF EndsHere
    <3> QED
      BY <3>1, <3>2
  <2>2. Key(i) \in Seq(Chars) /\ Len(Key(i)) \in Nat
    BY <1>1, <1>2, KeyFacts
  <2> HIDE DEF Chars
  <2> QED
    BY <1>1, <2>1, <2>2
<1>6. Edges(c, beg) \in SUBSET Chars /\ Edges(c, beg) # {}
  <2>1. beg \in beg .. c.end - 1
    BY <1>1, <1>2
  <2> HIDE DEF beg, Chars
  <2> QED
    BY <1>5, <2>1 DEF Edges
<1> QED
  BY <1>2, <1>5, <1>6

\* The call d for a child at base has the keys of c from beg with its character.
HasItsKeys(d, c, beg, base) ==
    /\ d.kpos = c.kpos + 1
    /\ \E ch \in Edges(c, beg) :
          /\ d.npos = Child(base, ch)
          /\ \A i \in d.beg .. d.end - 1 :
                i \in beg .. c.end - 1 /\ Key(i)[c.kpos + 1] = ch

\* These keys are next to each other.
LEMMA ChildCallsOK ==
    ASSUME keys \in KeyLists, code \in Bijection(Chars, Chars),
           NEW used, NEW c, CallOK(c, used), NEW beg \in c.beg .. c.end - 1,
           \A i \in beg .. c.end - 1 : c.kpos < Len(Key(i)),
           NEW base, NEW more, Children(base, Edges(c, beg)) \subseteq more \ {taboo_npos},
           NEW d \in ChildCalls(c, beg, base)
    PROVE  CallOK(d, more) /\ HasItsKeys(d, c, beg, base)
<1> DEFINE k == c.kpos
           With(ch) == {i \in beg .. c.end - 1 : Key(i)[c.kpos + 1] = ch}
<1>1. /\ c.beg \in Nat /\ c.end \in Nat /\ k \in Nat /\ c.end <= Len(keys) /\ Len(keys) \in Nat
      /\ beg \in Nat /\ c.beg <= beg
  <2>1. Len(keys) \in Nat
    BY KeyAssumption
  <2> QED
    BY <2>1 DEF CallOK
<1>2. PICK ch \in Edges(c, beg) :
         d = [beg |-> Min(With(ch)), end |-> Max(With(ch)) + 1, kpos |-> c.kpos + 1, npos |-> Child(base, ch)]
  BY DEF ChildCalls
<1> DEFINE W == With(ch)
           lo == Min(W)
           hi == Max(W)
<1>3. W # {} /\ W \in SUBSET Nat /\ W \in SUBSET (0 .. c.end)
  BY <1>1 DEF Edges
<1>4. lo \in W /\ hi \in W /\ \A i \in W : lo <= i /\ i <= hi
  <2> HIDE DEF W
  <2> QED
    BY <1>1, <1>3, MinFacts, MaxFacts
<1>5. /\ lo \in beg .. c.end - 1 /\ hi \in beg .. c.end - 1
      /\ Key(lo)[k + 1] = ch /\ Key(hi)[k + 1] = ch /\ lo <= hi
  <2> HIDE DEF lo, hi
  <2> QED
    BY <1>4
<1>6. d = [beg |-> lo, end |-> hi + 1, kpos |-> k + 1, npos |-> Child(base, ch)]
  BY <1>2
<1> HIDE DEF W, lo, hi
<1>7. ASSUME NEW i \in lo .. hi
      PROVE  /\ k + 1 <= Len(Key(i)) /\ Key(i)[k + 1] = ch
             /\ \A j \in 1 .. k : Key(i)[j] = Key(c.beg)[j]
             /\ i \in beg .. c.end - 1
  <2>1. i \in beg .. c.end - 1 /\ i \in c.beg .. c.end - 1
    <3>1. beg \in Nat /\ c.beg \in Nat /\ c.end \in Nat /\ c.beg <= beg
      BY <1>1
    <3>2. lo \in beg .. c.end - 1 /\ hi \in beg .. c.end - 1 /\ i \in lo .. hi
      BY <1>5
    <3> QED
      BY ONLY <3>1, <3>2
  <2>a. i \in 0 .. Len(keys) - 1
    BY <2>1, <1>1
  <2>2. k < Len(Key(i)) /\ Len(Key(i)) \in Nat /\ Key(i) \in Seq(Chars)
    <3>1. k < Len(Key(i))
      BY <2>1, <1>1
    <3> QED
      BY <2>a, <3>1, KeyFacts
  <2>3. Key(i)[k + 1] = ch
    <3>1. CASE i = lo \/ i = hi
      BY <3>1, <1>5
    <3>2. CASE i # lo /\ i # hi
      <4>1. lo < i /\ i < hi /\ lo \in c.beg .. c.end - 1 /\ hi \in c.beg .. c.end - 1
        BY <3>2, <1>1, <1>5
      <4>2. Key(lo)[k + 1] <= Key(i)[k + 1] /\ Key(i)[k + 1] <= Key(hi)[k + 1]
        <5>1. k < Len(Key(lo)) /\ k < Len(Key(i))
          BY <1>5, <2>1
        <5> HIDE DEF CallOK
        <5> QED
          BY <5>1, <4>1, <2>1, KeysRise
      <4>3. Key(i)[k + 1] \in Nat
        <5>1. k + 1 \in 1 .. Len(Key(i))
          BY <2>2, <1>1
        <5>2. Key(i)[k + 1] \in Chars
          <6> HIDE DEF Chars
          <6> QED
            BY <5>1, <2>2
        <5> QED
          BY <5>2, BlockAssumption DEF Chars
      <4>4. ch \in Nat
        <5>1. Key(lo) \in Seq(Chars) /\ Len(Key(lo)) \in Nat /\ k < Len(Key(lo))
          <6>1. lo \in 0 .. Len(keys) - 1
            BY <4>1, <1>1
          <6>2. k < Len(Key(lo))
            BY <1>1, <1>5
          <6> QED
            BY <6>1, <6>2, KeyFacts
        <5>2. k + 1 \in 1 .. Len(Key(lo))
          BY <5>1, <1>1
        <5>3. Key(lo)[k + 1] \in Chars
          <6> HIDE DEF Chars
          <6> QED
            BY <5>1, <5>2
        <5> QED
          BY <5>3, <1>5, BlockAssumption DEF Chars
      <4> QED
        BY <4>2, <4>3, <4>4, <1>5
    <3> QED
      BY <3>1, <3>2
  <2>4. \A j \in 1 .. k : Key(i)[j] = Key(c.beg)[j]
    BY <2>1 DEF CallOK
  <2> QED
    BY <2>1, <2>2, <2>3, <2>4, <1>1
<1>8. lo \in lo .. hi /\ lo \in Nat /\ hi \in Nat
  BY <1>1, <1>5
<1>9. ASSUME NEW i \in lo .. hi
      PROVE  /\ k + 1 <= Len(Key(i))
             /\ \A j \in 1 .. k + 1 : Key(i)[j] = Key(lo)[j]
  <2>1. ASSUME NEW j \in 1 .. k + 1
        PROVE  Key(i)[j] = Key(lo)[j]
    <3>1. CASE j = k + 1
      BY <3>1, <1>7, <1>8
    <3>2. CASE j # k + 1
      <4>1. j \in 1 .. k
        BY <3>2, <1>1
      <4> QED
        BY <4>1, <1>7, <1>8
    <3> QED
      BY <3>1, <3>2
  <2> QED
    BY <2>1, <1>7
<1>10. Child(base, ch) \in more \ {taboo_npos}
  BY DEF Children
<1>11. hi + 1 - 1 = hi /\ lo < hi + 1 /\ hi + 1 <= Len(keys)
  BY <1>1, <1>5, <1>8
<1> HIDE DEF Child
<1>12. d \in [beg : Nat, end : Nat, kpos : Nat, npos : more \ {taboo_npos}]
  BY <1>1, <1>6, <1>8, <1>10
<1>13. d.beg = lo /\ d.end - 1 = hi /\ d.end = hi + 1 /\ d.kpos = k + 1 /\ d.npos = Child(base, ch)
  BY <1>6, <1>8
<1>14. \A i \in d.beg .. d.end - 1 :
          d.kpos <= Len(Key(i)) /\ \A j \in 1 .. d.kpos : Key(i)[j] = Key(d.beg)[j]
  BY <1>9, <1>13
<1>15. CallOK(d, more)
  BY <1>11, <1>12, <1>13, <1>14 DEF CallOK
<1> QED
  BY <1>7, <1>13, <1>15 DEF HasItsKeys

-----------------------------------------------------------------------------
(* The invariant of the builder. *)

\* Nodes: the leaves are ends of keys, and each has its suffix or the empty one.
NodesInv ==
    /\ leaves \subseteq terms /\ terms \subseteq arr.useds \ {taboo_npos}
    /\ \A n \in leaves : arr.base[n] = 0 \/ \E s \in suffixes : s.npos = n

\* Calls: each has a node of its own, which is not a leaf yet.
CallsInv ==
    /\ \A c \in calls : CallOK(c, arr.useds) /\ c.npos \notin leaves
    /\ \A c, d \in calls : c.npos = d.npos => c = d

\* Suffixes: one for a leaf, not empty, of characters of the keys.
SuffixesInv ==
    /\ suffixes \subseteq [str : Seq(Chars) \ {<<>>}, npos : leaves] /\ IsFiniteSet(suffixes)
    /\ \A s, x \in suffixes : s.npos = x.npos => s = x
    /\ \A s \in suffixes : \A j \in 1 .. Len(s.str) : s.str[j] \in Alphabet

\* The tail, once it is complete: each suffix is at the BASE of its leaf.
TailBuilt ==
    /\ calls = {} /\ tvec.bin = bin_mode
    /\ tvec.chars \in Seq(Nat) /\ tvec.chars # <<>> /\ tvec.chars[1] = NUL
    /\ tvec.ends \subseteq 1 .. Len(tvec.chars) - 1
    /\ \A s \in suffixes : Reads(tvec, arr.base[s.npos], s.str)

BuilderInv ==
    /\ keys \in KeyLists /\ code \in Bijection(Chars, Chars)
    /\ ArrayInv(arr) /\ BlocksWhole(arr)
    /\ NodesInv /\ CallsInv /\ SuffixesInv
    /\ tvec.ready \in BOOLEAN /\ (tvec.ready => TailBuilt)

LEMMA ArrFacts ==
    ASSUME ArrayInv(arr)
    PROVE  /\ WellFormed(arr) /\ arr.size \in Nat /\ taboo_npos \in arr.useds
           /\ arr.useds \subseteq 0 .. arr.size - 1 /\ arr \in Array(arr.size)
           /\ Free(arr) \subseteq 0 .. arr.size - 1 /\ Free(arr) \cap arr.useds = {}
           /\ taboo_npos \notin Free(arr)
  BY FreeType DEF ArrayInv, WellFormed, Array

LEMMA InitInv == Init => BuilderInv
<1> SUFFICES ASSUME Init PROVE BuilderInv
  OBVIOUS
<1>1. keys \in KeyLists /\ code \in Bijection(Chars, Chars)
  BY DEF Init, Codes
<1>2. arr = FirstArray /\ ArrayInv(arr) /\ BlocksWhole(arr)
  BY FirstOne DEF Init
<1>3. 0 \in arr.useds
  <2>1. FirstArray.useds = {0, taboo_npos}
    BY DEF FirstArray, UseUnit
  <2> QED
    BY <2>1, <1>2
<1>4. NodesInv
  BY DEF Init, NodesInv
<1>5. CallsInv
  <2> DEFINE c == [beg |-> 0, end |-> Len(keys), kpos |-> 0, npos |-> 0]
  <2>1. Len(keys) \in Nat \ {0}
    BY <1>1, KeyAssumption
  <2>2. calls = {c} /\ leaves = {}
    BY DEF Init
  <2>3. CallOK(c, arr.useds)
    <3>1. c \in [beg : Nat, end : Nat, kpos : Nat, npos : arr.useds \ {taboo_npos}]
      BY <2>1, <1>3 DEF taboo_npos
    <3>2. \A i \in 0 .. Len(keys) - 1 : 0 <= Len(Key(i))
      BY <1>1, KeyFacts
    <3> QED
      BY <2>1, <3>1, <3>2 DEF CallOK
  <2> HIDE DEF c
  <2> QED
    BY <2>2, <2>3 DEF CallsInv
<1>6. SuffixesInv
  BY FS_EmptySet DEF Init, SuffixesInv
<1>7. tvec.ready = FALSE
  BY DEF Init, NotBuilt
<1> QED
  BY <1>1, <1>2, <1>4, <1>5, <1>6, <1>7 DEF BuilderInv

\* Between the calls no step is made once the tail is complete.
LEMMA ArrangeEndInv ==
    ASSUME BuilderInv, NEW c \in calls, ArrangeEnd(c)
    PROVE  BuilderInv'
<1>0. /\ EndsHere(c) /\ c.beg + 1 = c.end
      /\ arr' = [arr EXCEPT !.base[c.npos] = 0]
      /\ leaves' = leaves \cup {c.npos} /\ terms' = terms \cup {c.npos}
      /\ calls' = calls \ {c} /\ UNCHANGED <<keys, code, suffixes, tvec>>
  BY DEF ArrangeEnd
<1>1. /\ ArrayInv(arr) /\ BlocksWhole(arr) /\ CallOK(c, arr.useds) /\ c.npos \notin leaves
      /\ keys \in KeyLists /\ code \in Bijection(Chars, Chars)
      /\ NodesInv /\ CallsInv /\ SuffixesInv /\ tvec.ready = FALSE
  BY DEF BuilderInv, CallsInv, TailBuilt
<1>2. c.npos \in arr.useds \ {taboo_npos} /\ c.npos \in 0 .. arr.size - 1
  BY <1>1, ArrFacts DEF CallOK
<1>3. /\ arr' \in Array(arr.size) /\ arr'.useds = arr.useds /\ arr'.heads = arr.heads
      /\ arr'.check = arr.check /\ arr'.base = [arr.base EXCEPT ![c.npos] = 0]
  BY <1>0, <1>1, <1>2, ArrFacts DEF Array
<1>4. arr'.base[c.npos] = 0 /\ \A i \in 0 .. arr.size - 1 : i # c.npos => arr'.base[i] = arr.base[i]
  BY <1>1, <1>2, <1>3, ArrFacts DEF Array
<1>5. ArrayInv(arr') /\ BlocksWhole(arr')
  <2>1. \A i \in (0 .. arr.size - 1) \ (arr.useds \ {taboo_npos}) :
           arr'.base[i] = arr.base[i] /\ arr'.check[i] = arr.check[i]
    BY <1>2, <1>3, <1>4
  <2> DEFINE b == arr'
  <2>2. /\ b \in Array(arr.size) /\ b.useds = arr.useds /\ b.heads = arr.heads
        /\ \A i \in (0 .. arr.size - 1) \ (arr.useds \ {taboo_npos}) :
              b.base[i] = arr.base[i] /\ b.check[i] = arr.check[i]
    BY <2>1, <1>3
  <2> HIDE DEF b
  <2>3. ArrayInv(b) /\ BlocksWhole(b)
    BY <2>2, <1>1, UsedFieldsFree
  <2> QED
    BY <2>3 DEF b
<1>6. NodesInv'
  <2>1. \A n \in leaves : n \in 0 .. arr.size - 1
    BY <1>1, ArrFacts DEF NodesInv
  <2> QED
    BY <2>1, <1>0, <1>1, <1>2, <1>3, <1>4 DEF NodesInv
<1>7. CallsInv'
  BY <1>0, <1>1, <1>3 DEF CallsInv, CallOK, Key
<1>8. SuffixesInv'
  BY <1>0, <1>1 DEF SuffixesInv, Alphabet
<1> QED
  BY <1>0, <1>1, <1>5, <1>6, <1>7, <1>8 DEF BuilderInv

LEMMA ArrangeSuffixInv ==
    ASSUME BuilderInv, NEW c \in calls, ArrangeSuffix(c)
    PROVE  BuilderInv'
<1>0. /\ ~EndsHere(c) /\ c.beg + 1 = c.end
      /\ leaves' = leaves \cup {c.npos} /\ terms' = terms \cup {c.npos}
      /\ suffixes' = suffixes \cup {[str |-> SubSeq(Key(c.beg), c.kpos + 1, Len(Key(c.beg))), npos |-> c.npos]}
      /\ calls' = calls \ {c} /\ UNCHANGED <<keys, code, arr, tvec>>
  BY DEF ArrangeSuffix
<1>1. /\ ArrayInv(arr) /\ BlocksWhole(arr) /\ CallOK(c, arr.useds) /\ c.npos \notin leaves
      /\ keys \in KeyLists /\ code \in Bijection(Chars, Chars)
      /\ NodesInv /\ CallsInv /\ SuffixesInv /\ tvec.ready = FALSE
  BY DEF BuilderInv, CallsInv, TailBuilt
<1>2. c.npos \in arr.useds \ {taboo_npos}
  BY <1>1 DEF CallOK
<1> DEFINE key == Key(c.beg)
           str == SubSeq(key, c.kpos + 1, Len(key))
           s   == [str |-> str, npos |-> c.npos]
<1>3. suffixes' = suffixes \cup {s} /\ leaves' = leaves \cup {c.npos}
  BY <1>0
<1>4. /\ c.beg \in 0 .. Len(keys) - 1 /\ c.kpos \in Nat /\ c.kpos <= Len(key)
      /\ key \in Seq(Chars) /\ Len(key) \in Nat
  <2>1. c.beg \in c.beg .. c.end - 1 /\ Len(keys) \in Nat /\ c.kpos \in Nat
    BY <1>1, KeyAssumption DEF CallOK
  <2>2. c.beg \in 0 .. Len(keys) - 1 /\ c.kpos <= Len(key)
    BY <1>1, <2>1 DEF CallOK
  <2> QED
    BY <2>1, <2>2, <1>1, KeyFacts
<1>5. c.kpos + 1 \in 1 .. Len(key) /\ Len(key) \in 1 .. Len(key)
  BY <1>0, <1>4 DEF EndsHere
<1>6. /\ str \in Seq(Chars) \ {<<>>}
      /\ \A j \in 1 .. Len(str) : str[j] \in Alphabet
  <2> DEFINE lo == c.kpos + 1
             hi == Len(key)
             n  == (hi - lo) + 1
  <2>1. lo \in 1 .. Len(key) /\ hi \in 1 .. Len(key) /\ lo <= hi /\ n \in Nat \ {0}
    BY <1>4, <1>5
  <2>2. \A j \in 1 .. n : (lo + j) - 1 \in 1 .. Len(key)
    BY <2>1
  <2>3. /\ str \in Seq(Chars) /\ Len(str) = n
        /\ \A j \in 1 .. n : str[j] = key[(lo + j) - 1]
    <3>1. str = SubSeq(key, lo, hi)
      OBVIOUS
    <3> HIDE DEF key, lo, hi, str, Chars
    <3> QED
      BY <2>1, <3>1, <1>4, SubSeqFacts
  <2>4. \A i \in 1 .. Len(key) : key[i] \in Alphabet
    <3>1. c.beg + 1 \in DOMAIN keys /\ key = keys[c.beg + 1]
      <4>1. keys \in Seq(Seq(Chars) \ {<<>>})
        BY <1>1, KeyAssumption
      <4> QED
        BY <4>1, <1>4 DEF Key
    <3>2. \A i \in 1 .. Len(key) : key[i] \in ToSet(keys[c.beg + 1])
      <4> HIDE DEF Chars
      <4> QED
        BY <3>1, <1>4 DEF ToSet
    <3> QED
      BY <3>1, <3>2 DEF Alphabet
  <2> HIDE DEF str, lo, hi, n, key
  <2>5. str # <<>>
    BY <2>1, <2>3
  <2> QED
    BY <2>1, <2>2, <2>3, <2>4, <2>5
<1> HIDE DEF str, key
<1>7. NodesInv'
  <2>1. \E x \in suffixes' : x.npos = c.npos
    <3>1. s \in suffixes' /\ s.npos = c.npos
      BY <1>3
    <3> HIDE DEF s
    <3> QED
      BY <3>1
  <2> QED
    BY <2>1, <1>0, <1>1, <1>2, <1>3 DEF NodesInv
<1>8. CallsInv'
  BY <1>0, <1>1 DEF CallsInv, CallOK, Key
<1>9. SuffixesInv'
  <2>1. IsFiniteSet(suffixes')
    BY <1>1, <1>3, FS_AddElement DEF SuffixesInv
  <2>2. suffixes' \subseteq [str : Seq(Chars) \ {<<>>}, npos : leaves']
    BY <1>1, <1>3, <1>6 DEF SuffixesInv
  <2>3. \A x \in suffixes : x.npos # c.npos
    BY <1>1 DEF SuffixesInv
  <2>4. \A x, y \in suffixes' : x.npos = y.npos => x = y
    BY <2>3, <1>1, <1>3 DEF SuffixesInv
  <2>5. \A x \in suffixes' : \A j \in 1 .. Len(x.str) : x.str[j] \in Alphabet'
    BY <1>0, <1>1, <1>3, <1>6 DEF SuffixesInv, Alphabet
  <2> QED
    BY <2>1, <2>2, <2>4, <2>5 DEF SuffixesInv
<1> QED
  BY <1>0, <1>1, <1>7, <1>8, <1>9 DEF BuilderInv

\* What NodesKeepTheirUnits says of a step.
UnitsKept ==
    /\ \A n \in arr.useds : n \in arr'.useds /\ (n # taboo_npos => arr'.check[n] = arr.check[n])
    /\ \A n \in (0 .. arr.size - 1) \ arr.useds :
          arr.check[n] = n => n \notin arr'.useds /\ arr'.base[n] = n /\ arr'.check[n] = n

LEMMA KeptUnits ==
    ASSUME ArrayInv(arr), arr.useds \subseteq arr'.useds,
           \A i \in 0 .. arr.size - 1 : i \in arr'.useds => i \in arr.useds \cup Free(arr),
           \A i \in (0 .. arr.size - 1) \ (Free(arr) \cup {taboo_npos}) : arr'.check[i] = arr.check[i],
           \A i \in (0 .. arr.size - 1) \ (Free(arr) \cup arr.useds) : arr'.base[i] = arr.base[i]
    PROVE  UnitsKept
<1>1. ASSUME NEW n \in arr.useds
      PROVE  n \in arr'.useds /\ (n # taboo_npos => arr'.check[n] = arr.check[n])
  BY ArrFacts
<1>2. ASSUME NEW n \in (0 .. arr.size - 1) \ arr.useds, arr.check[n] = n
      PROVE  n \notin arr'.useds /\ arr'.base[n] = n /\ arr'.check[n] = n
  <2>1. n # taboo_npos /\ n \in Nat
    BY ArrFacts
  <2>2. n \notin Free(arr)
    <3> SUFFICES ASSUME n \in Free(arr) PROVE FALSE
      OBVIOUS
    <3>1. Goes(Free(arr), arr.check[n], n)
      BY DEF ArrayInv, LinksOK
    <3> QED
      BY <3>1, <2>1, <1>2 DEF Goes
  <2>3. arr.base[n] = n
    BY <2>2 DEF Free
  <2> QED
    BY <2>1, <2>2, <2>3, <1>2
<1> QED
  BY <1>1, <1>2 DEF UnitsKept

LEMMA ArrangeNodeInv ==
    ASSUME BuilderInv, NEW c \in calls, ArrangeNode(c)
    PROVE  BuilderInv' /\ UnitsKept
<1> DEFINE beg   == IF EndsHere(c) THEN c.beg + 1 ELSE c.beg
           edges == Edges(c, beg)
           base  == Xcheck(arr, BlockOf(c.npos), edges)
           room  == IF arr.size <= base THEN Expand(arr) ELSE arr
           b     == Tied([room EXCEPT !.base[c.npos] = base], base, edges, c.npos)
           C     == Children(base, edges)
           more  == ChildCalls(c, beg, base)
<1>0. /\ c.beg + 1 < c.end /\ arr' = b /\ calls' = (calls \ {c}) \cup more
      /\ terms' = (IF EndsHere(c) THEN terms \cup {c.npos} ELSE terms)
      /\ UNCHANGED <<keys, code, leaves, suffixes, tvec>>
  BY DEF ArrangeNode
<1>1. /\ ArrayInv(arr) /\ BlocksWhole(arr) /\ CallOK(c, arr.useds) /\ c.npos \notin leaves
      /\ keys \in KeyLists /\ code \in Bijection(Chars, Chars)
      /\ NodesInv /\ CallsInv /\ SuffixesInv /\ tvec.ready = FALSE
  BY DEF BuilderInv, CallsInv, TailBuilt
<1>2. c.npos \in arr.useds \ {taboo_npos}
  BY <1>1 DEF CallOK
<1>3. /\ beg \in c.beg .. c.end - 1
      /\ \A i \in beg .. c.end - 1 : c.kpos < Len(Key(i))
      /\ edges \in SUBSET Chars /\ edges # {}
  BY <1>0, <1>1, EdgesFacts
<1> HIDE DEF edges
<1>4. /\ ArrayInv(b) /\ BlocksWhole(b) /\ arr.size <= b.size /\ base \in Nat
      /\ b.useds = arr.useds \cup C /\ taboo_npos \notin C /\ C \cap arr.useds = {}
      /\ \A i \in 0 .. arr.size - 1 : i \in C => i \in Free(arr)
      /\ \A i \in (0 .. arr.size - 1) \ (Free(arr) \cup {taboo_npos}) :
            b.check[i] = arr.check[i] /\ (i # c.npos => b.base[i] = arr.base[i])
  <2>1. ArrayInv(arr) /\ BlocksWhole(arr) /\ code \in Bijection(Chars, Chars)
    BY <1>1
  <2>2. edges \in SUBSET Chars /\ edges # {}
    BY <1>3
  <2> HIDE DEF ArrayInv, BlocksWhole, Free, Child, Tied, Xcheck, Expand, BlockOf, beg, more, Chars
  <2> QED
    BY <2>1, <2>2, <1>2, NodeUnits
<1> HIDE DEF base, room, b
<1>5. ArrayInv(arr') /\ BlocksWhole(arr') /\ arr'.useds = arr.useds \cup C
  <2>1. ArrayInv(b) /\ BlocksWhole(b) /\ b.useds = arr.useds \cup C
    BY <1>4
  <2>2. arr' = b
    BY <1>0
  <2> HIDE DEF C
  <2> QED
    BY <2>1, <2>2
<1>6. ASSUME NEW d \in more
      PROVE  /\ CallOK(d, arr'.useds) /\ d.npos \in C
  <2>1. C \subseteq arr'.useds \ {taboo_npos}
    BY <1>4, <1>5
  <2>2. CallOK(d, arr'.useds)
    <3> DEFINE used == arr'.useds
    <3>1. Children(base, Edges(c, beg)) \subseteq used \ {taboo_npos}
      BY <2>1 DEF edges
    <3> HIDE DEF used, beg
    <3>2. CallOK(d, used)
      BY <1>1, <1>3, <3>1, ChildCallsOK
    <3> QED
      BY <3>2 DEF used
  <2> DEFINE With(ch) == {i \in beg .. c.end - 1 : Key(i)[c.kpos + 1] = ch}
             Call(ch) == [beg |-> Min(With(ch)), end |-> Max(With(ch)) + 1, kpos |-> c.kpos + 1, npos |-> Child(base, ch)]
  <2>3. PICK ch \in edges : d = Call(ch)
    BY DEF ChildCalls, edges
  <2>4. d.npos = Child(base, ch)
    BY <2>3
  <2>5. d.npos \in C
    BY <2>4 DEF Children
  <2> HIDE DEF C, more
  <2> QED
    BY <2>2, <2>5
<1>7. ASSUME NEW d \in more, NEW e \in more, d.npos = e.npos
      PROVE  d = e
  <2> DEFINE With(ch) == {i \in beg .. c.end - 1 : Key(i)[c.kpos + 1] = ch}
             Call(ch) == [beg |-> Min(With(ch)), end |-> Max(With(ch)) + 1, kpos |-> c.kpos + 1, npos |-> Child(base, ch)]
  <2>1. PICK ch \in edges : d = Call(ch)
    BY DEF ChildCalls, edges
  <2>2. PICK dh \in edges : e = Call(dh)
    BY DEF ChildCalls, edges
  <2>3. d.npos = Child(base, ch) /\ e.npos = Child(base, dh)
    BY <2>1, <2>2
  <2>4. ch = dh
    BY <2>3, <1>1, <1>3, <1>4, <1>7, ChildInjective
  <2> QED
    BY <2>1, <2>2, <2>4
<1> HIDE DEF more, C, beg
<1>8. CallsInv'
  <2>1. ASSUME NEW d \in calls \ {c}
        PROVE  CallOK(d, arr'.useds) /\ d.npos \notin leaves /\ d.npos \notin C
    <3>1. CallOK(d, arr.useds) /\ d.npos \notin leaves
      BY <1>1 DEF CallsInv
    <3>2. d.npos \in arr.useds
      BY <3>1 DEF CallOK
    <3> QED
      BY <3>1, <3>2, <1>4, <1>5 DEF CallOK
  <2>2. \A n \in leaves : n \in arr.useds /\ n \notin C
    BY <1>1, <1>4 DEF NodesInv
  <2>3. \A d \in calls' : CallOK(d, arr'.useds) /\ d.npos \notin leaves'
    BY <2>1, <2>2, <1>0, <1>6
  <2>5. \A d \in calls' : CallOK(d, arr.useds)'
    BY <2>3, <1>0 DEF CallOK, Key
  <2>4. \A d, e \in calls' : d.npos = e.npos => d = e
    BY <2>1, <1>0, <1>1, <1>6, <1>7 DEF CallsInv
  <2> QED
    BY <2>3, <2>4, <2>5 DEF CallsInv
<1>9. NodesInv'
  <2>1. \A n \in leaves : arr'.base[n] = arr.base[n]
    BY <1>0, <1>1, <1>4, ArrFacts DEF NodesInv
  <2> QED
    BY <2>1, <1>0, <1>1, <1>2, <1>5 DEF NodesInv
<1>10. SuffixesInv'
  BY <1>0, <1>1 DEF SuffixesInv, Alphabet
<1>11. UnitsKept
  <2>1. \A i \in 0 .. arr.size - 1 : i \in arr'.useds => i \in arr.useds \cup Free(arr)
    BY <1>4, <1>5
  <2>2. \A i \in (0 .. arr.size - 1) \ (Free(arr) \cup {taboo_npos}) : arr'.check[i] = arr.check[i]
    BY <1>0, <1>4
  <2>3. \A i \in (0 .. arr.size - 1) \ (Free(arr) \cup arr.useds) : arr'.base[i] = arr.base[i]
    BY <1>0, <1>1, <1>2, <1>4, ArrFacts
  <2> QED
    BY <2>1, <2>2, <2>3, <1>1, <1>5, KeptUnits
<1> QED
  BY <1>0, <1>1, <1>5, <1>8, <1>9, <1>10, <1>11 DEF BuilderInv
\* finish() closes the block of the first unit of the list.
LEMMA FinishBlockInv ==
    ASSUME BuilderInv, FinishBlock
    PROVE  BuilderInv' /\ UnitsKept
<1> DEFINE head == arr.base[taboo_npos]
           bpos == BlockOf(head)
           b    == CloseBlock(arr, bpos)
<1>0. /\ calls = {} /\ ~tvec.ready /\ head # taboo_npos /\ arr' = b
      /\ UNCHANGED <<keys, code, leaves, terms, suffixes, calls, tvec>>
  BY DEF FinishBlock
<1>1. /\ ArrayInv(arr) /\ BlocksWhole(arr)
      /\ keys \in KeyLists /\ code \in Bijection(Chars, Chars)
      /\ NodesInv /\ CallsInv /\ SuffixesInv /\ tvec.ready = FALSE
  BY <1>0 DEF BuilderInv
<1>2. head \in Free(arr) /\ head \in 0 .. arr.size - 1
  BY <1>0, <1>1, ArrFacts DEF ArrayInv, LinksOK
<1>3. bpos \in 0 .. BlockOf(arr.size) - 1
  BY <1>1, <1>2, ArrFacts, UnitBlock
<1> HIDE DEF bpos
<1>4. /\ ArrayInv(b) /\ b.size = arr.size /\ b.useds = arr.useds
      /\ Free(b) = {i \in Free(arr) : BlockOf(i) # bpos}
      /\ Keeps(arr, b) /\ BlocksWhole(b)
  BY <1>1, <1>3, CloseAll, CloseWhole
<1> HIDE DEF b
<1>5. ArrayInv(arr') /\ BlocksWhole(arr') /\ arr'.useds = arr.useds
  BY <1>0, <1>4
<1>6. /\ \A i \in (0 .. arr.size - 1) \ (Free(arr) \cup {taboo_npos}) : arr'.base[i] = arr.base[i]
      /\ \A i \in (0 .. arr.size - 1) \ (Free(arr) \cup {taboo_npos}) : arr'.check[i] = arr.check[i]
  BY <1>0, <1>4 DEF Keeps
<1>7. NodesInv'
  <2>1. \A n \in leaves : arr'.base[n] = arr.base[n]
    BY <1>1, <1>6, ArrFacts DEF NodesInv
  <2> QED
    BY <2>1, <1>0, <1>1, <1>5 DEF NodesInv
<1>8. CallsInv'
  BY <1>0 DEF CallsInv
<1>9. SuffixesInv'
  BY <1>0, <1>1 DEF SuffixesInv, Alphabet
<1>10. UnitsKept
  BY <1>1, <1>5, <1>6, ArrFacts, KeptUnits
<1> QED
  BY <1>0, <1>1, <1>5, <1>7, <1>8, <1>9, <1>10 DEF BuilderInv

\* The suffixes are in the tail, and their leaves point to them.
LEMMA CompleteSuffixesInv ==
    ASSUME BuilderInv, CompleteSuffixes
    PROVE  BuilderInv' /\ UnitsKept
<1> DEFINE done    == CompleteTail(suffixes, bin_mode)
           Stored(i) == \E s \in suffixes : s.npos = i
           base    == [i \in DOMAIN arr.base |-> IF Stored(i) THEN done.tpos[i] ELSE arr.base[i]]
<1>0. /\ calls = {} /\ ~tvec.ready /\ arr' = [arr EXCEPT !.base = base]
      /\ tvec' = [ready |-> TRUE, chars |-> done.chars, ends |-> done.ends, bin |-> done.bin]
      /\ UNCHANGED <<keys, code, leaves, terms, suffixes, calls>>
  BY DEF CompleteSuffixes
<1>1. /\ ArrayInv(arr) /\ BlocksWhole(arr)
      /\ keys \in KeyLists /\ code \in Bijection(Chars, Chars)
      /\ NodesInv /\ CallsInv /\ SuffixesInv /\ tvec.ready = FALSE
  BY <1>0 DEF BuilderInv
<1>2. \A i : Stored(i) => i \in arr.useds \ {taboo_npos} /\ i \in 0 .. arr.size - 1
  BY <1>1, ArrFacts DEF NodesInv, SuffixesInv
<1>3. TailInv(done, bin_mode, suffixes)
  <2>1. suffixes \subseteq TailSuffix
    <3>1. Seq(Chars) \subseteq Seq(Nat)
      <4>1. Chars \subseteq Nat
        BY BlockAssumption DEF Chars
      <4> HIDE DEF Chars
      <4>2. ASSUME NEW q \in Seq(Chars)
            PROVE  q \in Seq(Nat)
        <5>1. Len(q) \in Nat /\ q \in [1 .. Len(q) -> Chars]
          OBVIOUS
        <5>2. q \in [1 .. Len(q) -> Nat]
          BY <5>1, <4>1
        <5> QED
          BY <5>1, <5>2
      <4> QED
        BY <4>2
    <3>2. leaves \subseteq Nat
      BY <1>1, ArrFacts DEF NodesInv
    <3> HIDE DEF Chars
    <3> QED
      BY <1>1, <3>1, <3>2 DEF SuffixesInv, TailSuffix
  <2>2. bin_mode \in BOOLEAN
    BY DEF bin_mode
  <2>3. suffixes \in SUBSET TailSuffix /\ IsFiniteSet(suffixes)
        /\ \A s, x \in suffixes : s.npos = x.npos => s = x
    BY <2>1, <1>1 DEF SuffixesInv
  <2> HIDE DEF bin_mode, TailInv
  <2> QED
    BY <2>2, <2>3, CompleteTailReads
<1> HIDE DEF done
<1>4. /\ done.bin = bin_mode /\ done.chars \in Seq(Nat) /\ done.chars # <<>> /\ done.chars[1] = NUL
      /\ done.ends \subseteq 1 .. Len(done.chars) - 1
      /\ \A s \in suffixes : Reads(done, done.tpos[s.npos], s.str) /\ done.tpos[s.npos] \in Nat
  <2>1. Len(done.chars) \in Nat
    BY <1>3 DEF TailInv
  <2> QED
    BY <2>1, <1>3 DEF TailInv, Reads
<1>5. /\ arr \in Array(arr.size) /\ arr.base \in [0 .. arr.size - 1 -> Nat]
      /\ base \in [0 .. arr.size - 1 -> Nat]
  <2>1. arr.base \in [0 .. arr.size - 1 -> Nat] /\ arr \in Array(arr.size)
    BY <1>1, ArrFacts DEF Array
  <2>2. \A i : Stored(i) => done.tpos[i] \in Nat
    BY <1>4
  <2> HIDE DEF Stored
  <2> QED
    BY <2>1, <2>2
<1>6. /\ \A s \in suffixes : base[s.npos] = done.tpos[s.npos]
      /\ \A i \in 0 .. arr.size - 1 : ~Stored(i) => base[i] = arr.base[i]
  <2>1. DOMAIN arr.base = 0 .. arr.size - 1
    BY <1>5
  <2>2. \A s \in suffixes : Stored(s.npos)
    OBVIOUS
  <2> HIDE DEF Stored
  <2> QED
    BY <2>1, <2>2, <1>2
<1> HIDE DEF base
<1>7. /\ arr' \in Array(arr.size) /\ arr'.useds = arr.useds /\ arr'.heads = arr.heads
      /\ arr'.check = arr.check /\ arr'.base = base
  BY <1>0, <1>5 DEF Array
<1>8. ArrayInv(arr') /\ BlocksWhole(arr')
  <2> DEFINE b == arr'
  <2>1. /\ b \in Array(arr.size) /\ b.useds = arr.useds /\ b.heads = arr.heads
        /\ \A i \in (0 .. arr.size - 1) \ (arr.useds \ {taboo_npos}) :
              b.base[i] = arr.base[i] /\ b.check[i] = arr.check[i]
    BY <1>2, <1>6, <1>7
  <2> HIDE DEF b
  <2>2. ArrayInv(b) /\ BlocksWhole(b)
    BY <2>1, <1>1, UsedFieldsFree
  <2> QED
    BY <2>2 DEF b
<1>9. NodesInv'
  <2>1. \A n \in leaves : ~Stored(n) => arr'.base[n] = 0
    BY <1>1, <1>6, <1>7, ArrFacts DEF NodesInv
  <2> QED
    BY <2>1, <1>0, <1>1, <1>7 DEF NodesInv
<1>10. CallsInv'
  BY <1>0 DEF CallsInv
<1>11. SuffixesInv'
  BY <1>0, <1>1 DEF SuffixesInv, Alphabet
<1>12. tvec'.ready = TRUE /\ TailBuilt'
  <2>1. /\ tvec'.ready = TRUE /\ tvec'.chars = done.chars /\ tvec'.ends = done.ends
        /\ tvec'.bin = done.bin
    BY <1>0
  <2>2. bin_mode' = bin_mode
    BY <1>0 DEF bin_mode, Alphabet
  <2>3. ASSUME NEW s \in suffixes
        PROVE  Reads(tvec', arr'.base[s.npos], s.str)
    <3>1. arr'.base[s.npos] = done.tpos[s.npos]
      BY <1>6, <1>7
    <3>2. Reads(done, done.tpos[s.npos], s.str)
      BY <1>4
    <3> QED
      BY <2>1, <3>1, <3>2 DEF Reads
  <2>4. \A s \in suffixes' : Reads(tvec, arr.base[s.npos], s.str)'
    BY <2>3, <1>0 DEF Reads
  <2> QED
    BY <2>1, <2>2, <2>4, <1>0, <1>4 DEF TailBuilt
<1>13. UnitsKept
  BY <1>1, <1>2, <1>6, <1>7, ArrFacts, KeptUnits
<1> QED
  BY <1>0, <1>1, <1>8, <1>9, <1>10, <1>11, <1>12, <1>13 DEF BuilderInv

\* ArrangeEnd and ArrangeSuffix touch no unit but that of their node.
LEMMA LeafUnits ==
    ASSUME BuilderInv, NEW c \in calls, ArrangeEnd(c) \/ ArrangeSuffix(c)
    PROVE  UnitsKept
<1>1. ArrayInv(arr) /\ c.npos \in arr.useds
  BY DEF BuilderInv, CallsInv, CallOK
<1>2. arr' = [arr EXCEPT !.base[c.npos] = 0] \/ arr' = arr
  BY DEF ArrangeEnd, ArrangeSuffix
<1>3. /\ arr'.useds = arr.useds /\ arr'.check = arr.check
      /\ \A i \in 0 .. arr.size - 1 : i # c.npos => arr'.base[i] = arr.base[i]
  BY <1>1, <1>2, ArrFacts DEF Array
<1> QED
  BY <1>1, <1>3, ArrFacts, KeptUnits

LEMMA NextInv ==
    ASSUME BuilderInv, BuilderNext
    PROVE  BuilderInv' /\ UnitsKept
<1>1. ASSUME NEW c \in calls, ArrangeEnd(c)
      PROVE  BuilderInv' /\ UnitsKept
  BY <1>1, ArrangeEndInv, LeafUnits
<1>2. ASSUME NEW c \in calls, ArrangeSuffix(c)
      PROVE  BuilderInv' /\ UnitsKept
  BY <1>2, ArrangeSuffixInv, LeafUnits
<1>3. ASSUME NEW c \in calls, ArrangeNode(c)
      PROVE  BuilderInv' /\ UnitsKept
  BY <1>3, ArrangeNodeInv
<1> QED
  BY <1>1, <1>2, <1>3, FinishBlockInv, CompleteSuffixesInv DEF BuilderNext, Arrange

LEMMA StutterInv ==
    ASSUME BuilderInv, UNCHANGED builderVars
    PROVE  BuilderInv'
<1>1. UNCHANGED <<keys, code, arr, leaves, terms, suffixes, calls, tvec>>
  BY DEF builderVars
<1>2. NodesInv => NodesInv'
  BY <1>1 DEF NodesInv
<1>3. CallsInv => CallsInv'
  BY <1>1 DEF CallsInv, CallOK, Key
<1>4. SuffixesInv => SuffixesInv'
  BY <1>1 DEF SuffixesInv, Alphabet
<1>5. TailBuilt => TailBuilt'
  BY <1>1 DEF TailBuilt, bin_mode, Alphabet, Reads
<1>6. ArrayInv(arr') /\ BlocksWhole(arr')
  BY <1>1 DEF BuilderInv
<1> QED
  BY <1>1, <1>2, <1>3, <1>4, <1>5, <1>6 DEF BuilderInv

\* The array and the list of its unused units, the nodes, the calls to come and the
\* suffixes fit together at every step of arrange, finish and complete.
THEOREM BuilderInvariant == BuilderSpec => []BuilderInv
<1>1. Init => BuilderInv
  BY InitInv
<1>2. BuilderInv /\ [BuilderNext]_builderVars => BuilderInv'
  BY NextInv, StutterInv
<1> QED
  BY <1>1, <1>2, PTL DEF BuilderSpec

-----------------------------------------------------------------------------
(* The properties. *)

\* A unit given to a node is never given away again, and a unit of a closed block
\* never at all: what arrange, expand and close_block do to m_useds and CHECK.
THEOREM UnitsStay == BuilderSpec => NodesKeepTheirUnits
<1>1. BuilderInv /\ [BuilderNext]_builderVars =>
         [/\ \A n \in arr.useds : n \in arr'.useds /\ (n # taboo_npos => arr'.check[n] = arr.check[n])
          /\ \A n \in (0 .. arr.size - 1) \ arr.useds :
                arr.check[n] = n => n \notin arr'.useds /\ arr'.base[n] = n /\ arr'.check[n] = n]_arr
  BY NextInv DEF UnitsKept, builderVars
<1> QED
  BY <1>1, BuilderInvariant, PTL DEF BuilderSpec, NodesKeepTheirUnits

LEMMA AfterIs ==
    ASSUME NEW F \in SUBSET Nat, taboo_npos \notin F,
           NEW i \in F \cup {taboo_npos}, NEW j \in F \cup {taboo_npos}, Goes(F, i, j)
    PROVE  LET up == {x \in F : i = taboo_npos \/ x > i}
           IN  j = (IF up = {} THEN taboo_npos ELSE Min(up))
<1> DEFINE up == {x \in F : i = taboo_npos \/ x > i}
<1>1. CASE up = {}
  <2>1. j \in F => j \in up
    BY DEF Goes
  <2> QED
    BY <1>1, <2>1
<1>2. CASE up # {}
  <2> DEFINE m == Min(up)
  <2>1. m \in up /\ \A x \in up : m <= x
    <3>1. up \in SUBSET Nat
      OBVIOUS
    <3> HIDE DEF up
    <3> QED
      BY <1>2, <3>1, MinFacts
  <2> HIDE DEF m
  <2>2. m \in F /\ (i = taboo_npos \/ m > i)
    BY <2>1
  <2>3. j # taboo_npos
    BY <2>2 DEF Goes, taboo_npos
  <2>4. j \in up /\ ~(m < j)
    BY <2>2, <2>3 DEF Goes, taboo_npos
  <2>5. m <= j /\ m \in Nat /\ j \in Nat
    BY <2>1, <2>4
  <2> QED
    BY <1>2, <2>4, <2>5 DEF m
<1> QED
  BY <1>1, <1>2

LEMMA BeforeIs ==
    ASSUME NEW k \in Nat, NEW F \in SUBSET (0 .. k), taboo_npos \notin F,
           NEW i \in F \cup {taboo_npos}, NEW j \in F \cup {taboo_npos}, Goes(F, j, i)
    PROVE  LET dn == {x \in F : i = taboo_npos \/ x < i}
           IN  j = (IF dn = {} THEN taboo_npos ELSE Max(dn))
<1> DEFINE dn == {x \in F : i = taboo_npos \/ x < i}
<1>1. CASE dn = {}
  <2>1. j \in F => j \in dn
    BY DEF Goes
  <2> QED
    BY <1>1, <2>1
<1>2. CASE dn # {}
  <2> DEFINE m == Max(dn)
  <2>1. m \in dn /\ \A x \in dn : x <= m
    <3>1. dn \in SUBSET (0 .. k)
      OBVIOUS
    <3> HIDE DEF dn
    <3> QED
      BY <1>2, <3>1, MaxFacts
  <2> HIDE DEF m
  <2>2. m \in F /\ (i = taboo_npos \/ m < i)
    BY <2>1
  <2>3. j # taboo_npos
    BY <2>2 DEF Goes, taboo_npos
  <2>4. j \in dn /\ ~(j < m)
    BY <2>2, <2>3 DEF Goes, taboo_npos
  <2>5. j <= m /\ m \in Nat /\ j \in Nat
    BY <2>1, <2>4
  <2> QED
    BY <1>2, <2>4, <2>5 DEF m
<1> QED
  BY <1>1, <1>2

LEMMA HeadIs ==
    ASSUME NEW F \in SUBSET Nat, taboo_npos \notin F, NEW b, NEW h, HeadOK(F, b, h)
    PROVE  LET In == {i \in F : BlockOf(i) = b}
           IN  h = (IF In = {} THEN taboo_npos ELSE Min(In))
<1> DEFINE In == {i \in F : BlockOf(i) = b}
<1> HIDE DEF BlockOf
<1>1. CASE In = {}
  BY <1>1 DEF HeadOK
<1>2. CASE In # {}
  <2> DEFINE m == Min(In)
  <2>1. m \in In /\ \A x \in In : m <= x
    <3>1. In \in SUBSET Nat
      OBVIOUS
    <3> HIDE DEF In
    <3> QED
      BY <1>2, <3>1, MinFacts
  <2> HIDE DEF m
  <2>2. h # taboo_npos /\ h <= m
    BY <2>1 DEF HeadOK
  <2>3. h \in In /\ m <= h
    BY <2>1, <2>2 DEF HeadOK
  <2>4. m \in Nat /\ h \in Nat
    BY <2>1, <2>3
  <2> QED
    BY <1>2, <2>2, <2>3, <2>4 DEF m
<1> QED
  BY <1>1, <1>2

\* The unused units of the open blocks form one list by rising number, linked both
\* ways, each block knows its first and a closed block has none: use_unit, expand,
\* close_block and arrange keep it together.
THEOREM FreeListKept == BuilderSpec => []FreeListSound
<1>1. ASSUME BuilderInv
      PROVE  FreeListSound
  <2> DEFINE F == Free(arr)
             After(i)   == LET up == {j \in F : i = taboo_npos \/ j > i} IN IF up = {} THEN taboo_npos ELSE Min(up)
             Before(i)  == LET dn == {j \in F : i = taboo_npos \/ j < i} IN IF dn = {} THEN taboo_npos ELSE Max(dn)
             InBlock(b) == {i \in F : BlockOf(i) = b}
  <2>1. /\ ArrayInv(arr) /\ arr.size \in Nat \ {0} /\ F \subseteq 0 .. arr.size - 1
        /\ taboo_npos \notin F /\ F \subseteq Nat
        /\ DOMAIN arr.heads = 0 .. BlockOf(arr.size) - 1
    BY <1>1, ArrFacts, BlockAssumption DEF BuilderInv, WellFormed, Array
  <2>2. FreeUnits = F
    BY DEF FreeUnits, Free
  <2> HIDE DEF F, BlockOf
  <2>3. ASSUME NEW i \in F \cup {taboo_npos}
        PROVE  arr.base[i] = After(i) /\ arr.check[i] = Before(i)
    <3>1. /\ arr.base[i] \in F \cup {taboo_npos}  /\ Goes(F, i, arr.base[i])
          /\ arr.check[i] \in F \cup {taboo_npos} /\ Goes(F, arr.check[i], i)
      BY <2>1 DEF ArrayInv, LinksOK, F
    <3>2. arr.base[i] = After(i)
      BY <3>1, <2>1, AfterIs
    <3>3. arr.check[i] = Before(i)
      <4>1. arr.size - 1 \in Nat
        BY <2>1
      <4> QED
        BY <3>1, <4>1, <2>1, BeforeIs
    <3> QED
      BY <3>2, <3>3
  <2>4. ASSUME NEW b \in DOMAIN arr.heads
        PROVE  arr.heads[b] = (IF InBlock(b) = {} THEN taboo_npos ELSE Min(InBlock(b)))
    <3>1. HeadOK(F, b, arr.heads[b])
      BY <2>1 DEF ArrayInv, HeadsOK, F
    <3> QED
      BY <3>1, <2>1, HeadIs
  <2> QED
    BY <2>2, <2>3, <2>4 DEF FreeListSound
<1> QED
  BY <1>1, BuilderInvariant, PTL

\* The shapes of the builder's state: a whole number of blocks, BASE and CHECK of
\* every unit, a head for every block, and leaves among the terminal nodes.
THEOREM BuilderTypes == BuilderSpec => []StaticTypeOK
<1>1. ASSUME BuilderInv
      PROVE  StaticTypeOK
  <2>1. /\ WellFormed(arr) /\ arr \in Array(arr.size) /\ keys \in KeyLists
        /\ NodesInv /\ SuffixesInv /\ code \in Bijection(Chars, Chars)
    BY <1>1, ArrFacts DEF BuilderInv
  <2>2. keys \in Seq(Seq(Chars))
    <3>1. keys \in Seq(Seq(Chars) \ {<<>>})
      BY <2>1, KeyAssumption
    <3> DEFINE K == Seq(Chars)
    <3> HIDE DEF K
    <3>2. keys \in Seq(K \ {<<>>})
      BY <3>1 DEF K
    <3>3. Len(keys) \in Nat /\ keys \in [1 .. Len(keys) -> K]
      BY <3>2
    <3>4. keys \in Seq(K)
      BY <3>3
    <3> QED
      BY <3>4 DEF K
  <2>3. /\ arr.size \in Nat \ {0} /\ arr.size = BlockOf(arr.size) * BlockSize
        /\ arr.base \in [0 .. arr.size - 1 -> Nat] /\ arr.check \in [0 .. arr.size - 1 -> 0 .. arr.size - 1]
        /\ arr.useds \subseteq 0 .. arr.size - 1
        /\ arr.heads \in [0 .. BlockOf(arr.size) - 1 -> 0 .. arr.size - 1]
    <3> HIDE DEF BlockOf
    <3> QED
      BY <2>1, BlockAssumption DEF WellFormed, Array
  <2>4. leaves \subseteq terms /\ terms \subseteq arr.useds
    BY <2>1 DEF NodesInv
  <2>5. \A s \in suffixes : s.str # <<>> /\ s.npos \in leaves
    <3> HIDE DEF Chars
    <3> QED
      BY <2>1 DEF SuffixesInv
  <2> QED
    BY <2>1, <2>2, <2>3, <2>4, <2>5 DEF StaticTypeOK
<1> QED
  BY <1>1, BuilderInvariant, PTL

\* Once the tail is complete, match() at the BASE of a leaf accepts its suffix and
\* no other string, however the suffixes share their characters: the bytes with
\* NUL at the ends, or the flags when keys contain NUL.
SuffixesReadBack ==
    tvec.ready =>
        \A s \in suffixes : \A key \in Seq(Nat) : Match(tvec, key, arr.base[s.npos]) <=> key = s.str

LEMMA ReadBack == BuilderInv => SuffixesReadBack
<1>1. ASSUME BuilderInv, tvec.ready, NEW s \in suffixes, NEW key \in Seq(Nat)
      PROVE  Match(tvec, key, arr.base[s.npos]) <=> key = s.str
  <2> DEFINE p == arr.base[s.npos]
  <2>1. /\ tvec.bin = bin_mode /\ tvec.chars \in Seq(Nat) /\ tvec.ends \in SUBSET Nat
        /\ Reads(tvec, p, s.str) /\ p # 0
    BY <1>1 DEF BuilderInv, TailBuilt, Reads
  <2>2. s.str \in Seq(Nat) \ {<<>>}
    <3>1. Chars \subseteq Nat
      BY BlockAssumption DEF Chars
    <3>2. s.str \in Seq(Chars) \ {<<>>}
      BY <1>1 DEF BuilderInv, SuffixesInv
    <3> HIDE DEF Chars
    <3>3. Len(s.str) \in Nat /\ s.str \in [1 .. Len(s.str) -> Chars]
      BY <3>2
    <3>4. s.str \in [1 .. Len(s.str) -> Nat]
      BY <3>1, <3>3
    <3>5. s.str \in Seq(Nat)
      BY <3>3, <3>4
    <3> QED
      BY <3>2, <3>5
  <2>3. ~tvec.bin => \A j \in 1 .. Len(s.str) : s.str[j] # NUL
    BY <1>1, <2>1 DEF BuilderInv, SuffixesInv, bin_mode
  <2>4. Run(tvec, p) = s.str
    <3> HIDE DEF p
    <3> QED
      BY <2>1, <2>2, <2>3, RunReads
  <2> QED
    BY <2>1, <2>2, <2>4 DEF Match
<1> QED
  BY <1>1 DEF SuffixesReadBack

\* The suffixes of complete() are read back by match() at every state of the builder.
THEOREM SuffixesAreRead == BuilderSpec => []SuffixesReadBack
  BY ReadBack, BuilderInvariant, PTL
=============================================================================

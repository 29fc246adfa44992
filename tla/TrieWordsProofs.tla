-------------------------- MODULE TrieWordsProofs --------------------------
(***************************************************************************)
(* The words of the built double array: a lookup that follows BASE and     *)
(* CHECK finds every key, each at a node of its own, and refuses every     *)
(* other word but those that go on with NUL behind a key, for every block  *)
(* size, list of keys and order of the codes.                              *)
(***************************************************************************)
EXTENDS DoubleArrayProofs

Units == 0 .. arr.size - 1
KeyAt == 0 .. Len(keys) - 1

-----------------------------------------------------------------------------
(* What is proved. *)

\* p leads from the root along the first k characters of word, past no leaf: each
\* unit is the child of the one before, and points back to it.
Along(word, k, p) ==
    /\ p \in [0 .. k -> Units] /\ p[0] = 0
    /\ \A j \in 1 .. k : /\ p[j - 1] \notin leaves
                         /\ p[j] = Child(arr.base[p[j - 1]], word[j])
                         /\ arr.check[p[j]] = p[j - 1]

\* The answer of lookup() at node n: the rest of the word at a leaf, or the flag of
\* a terminal node when the word is at its end.
AcceptsAt(word, n) ==
    \E k \in 0 .. Len(word) : \E p \in [0 .. k -> Units] :
        /\ Along(word, k, p) /\ p[k] = n
        /\ IF n \in leaves THEN Match(tvec, SubSeq(word, k + 1, Len(word)), arr.base[n])
           ELSE k = Len(word) /\ n \in terms

\* The word goes on behind a key with NUL: see NulWordsAreRefused of StaticTrie.
GoesOnWithNul(word) ==
    bin_mode /\ \E i \in KeyAt : IsStrictPrefix(Key(i) \o <<NUL>>, word)

\* A key is found at a node of its own.
KeysAreFound ==
    tvec.ready =>
        \E node \in [KeyAt -> terms] :
            /\ \A i, j \in KeyAt : node[i] = node[j] => i = j
            /\ \A n \in terms : \E i \in KeyAt : node[i] = n
            /\ \A i \in KeyAt : AcceptsAt(Key(i), node[i])

\* Another word is not found.
OthersAreRefused ==
    tvec.ready =>
        \A word \in Seq(Chars) : \A n \in Units :
            AcceptsAt(word, n) => (\E i \in KeyAt : word = Key(i)) \/ GoesOnWithNul(word)

-----------------------------------------------------------------------------
(* The invariant: where the keys are while the array is built. *)

\* A node whose children are laid: no later call of arrange starts there.
Inner == arr.useds \ ({taboo_npos} \cup leaves \cup {c.npos : c \in calls})

Path(i, k, p) ==
    /\ p[0] = 0
    /\ \A j \in 1 .. k : /\ p[j - 1] \in Inner
                         /\ p[j] = Child(arr.base[p[j - 1]], Key(i)[j])
                         /\ arr.check[p[j]] = p[j - 1]

Reaches(i, k, n) ==
    \E p \in [0 .. k -> arr.useds \ {taboo_npos}] : Path(i, k, p) /\ p[k] = n

\* The key ends at n: as an inner node, a leaf without a suffix or one with its own.
EndsAt(i, k, n) ==
    /\ n \in terms
    /\ \/ k = Len(Key(i)) /\ n \in Inner
       \/ k = Len(Key(i)) /\ n \in leaves /\ \A s \in suffixes : s.npos # n
       \/ n \in leaves /\ [str |-> SubSeq(Key(i), k + 1, Len(Key(i))), npos |-> n] \in suffixes

Placed(i, n) == \E k \in 0 .. Len(Key(i)) : Reaches(i, k, n) /\ EndsAt(i, k, n)

RootOK       == 0 \in arr.useds /\ arr.check[0] = taboo_npos
CallsReached == \A c \in calls : \A i \in c.beg .. c.end - 1 : Reaches(i, c.kpos, c.npos)
KeysPlaced   == \A i \in KeyAt : (\E n \in terms : Placed(i, n)) \/ \E c \in calls : i \in c.beg .. c.end - 1
TermsPlaced  == \A n \in terms : \E i \in KeyAt : Placed(i, n)

WordsInv == RootOK /\ CallsReached /\ KeysPlaced /\ TermsPlaced

\* What a step leaves of the paths and the ends of keys.
PathsKept ==
    /\ UNCHANGED <<keys, code>>
    /\ arr.useds \subseteq arr'.useds /\ Inner \subseteq Inner'
    /\ \A n \in Inner : arr'.base[n] = arr.base[n]
    /\ \A n \in arr.useds \ {taboo_npos} : arr'.check[n] = arr.check[n]

EndsKept ==
    /\ terms \subseteq terms' /\ leaves \subseteq leaves' /\ suffixes \subseteq suffixes'
    /\ \A s \in suffixes' \ suffixes : s.npos \notin leaves

LEMMA ReachesKept ==
    ASSUME PathsKept, NEW i, NEW k \in Nat, NEW n, Reaches(i, k, n)
    PROVE  Reaches(i, k, n)'
<1>1. PICK p \in [0 .. k -> arr.useds \ {taboo_npos}] : Path(i, k, p) /\ p[k] = n
  BY DEF Reaches
<1>2. p \in [0 .. k -> arr'.useds \ {taboo_npos}]
  BY DEF PathsKept
<1>3. Key(i)' = Key(i)
  BY DEF PathsKept, Key
<1>4. \A base, ch : Child(base, ch)' = Child(base, ch)
  BY DEF PathsKept, Child
<1>5. Path(i, k, p)'
  <2>1. ASSUME NEW j \in 1 .. k
        PROVE  /\ p[j - 1] \in Inner'
               /\ p[j] = Child(arr'.base[p[j - 1]], Key(i)[j])
               /\ arr'.check[p[j]] = p[j - 1]
    <3>1. p[j - 1] \in Inner /\ p[j] = Child(arr.base[p[j - 1]], Key(i)[j]) /\ arr.check[p[j]] = p[j - 1]
      BY <1>1 DEF Path
    <3>2. p[j] \in arr.useds \ {taboo_npos}
      OBVIOUS
    <3> QED
      BY <3>1, <3>2 DEF PathsKept
  <2> QED
    BY <2>1, <1>1, <1>3, <1>4 DEF Path
<1> QED
  BY <1>1, <1>2, <1>5 DEF Reaches

LEMMA PlacedKept ==
    ASSUME PathsKept, EndsKept, NEW i \in KeyAt, keys \in KeyLists, NEW n, Placed(i, n)
    PROVE  Placed(i, n)' /\ n \in terms'
<1>1. PICK k \in 0 .. Len(Key(i)) : Reaches(i, k, n) /\ EndsAt(i, k, n)
  BY DEF Placed
<1>2. Key(i)' = Key(i) /\ Len(Key(i)) \in Nat
  BY KeyFacts DEF PathsKept, Key, KeyAt
<1>3. Reaches(i, k, n)'
  BY <1>1, <1>2, ReachesKept
<1>4. EndsAt(i, k, n)'
  BY <1>1, <1>2 DEF EndsAt, PathsKept, EndsKept
<1> QED
  BY <1>1, <1>2, <1>3, <1>4 DEF Placed, EndsAt

\* What a step keeps of what the invariant says.
LEMMA Carried ==
    ASSUME PathsKept, EndsKept, BuilderInv, WordsInv
    PROVE  /\ RootOK' /\ KeyAt' = KeyAt
           /\ \A c \in calls : \A i \in c.beg .. c.end - 1 : Reaches(i, c.kpos, c.npos)'
           /\ \A i \in KeyAt, n \in terms : Placed(i, n) => Placed(i, n)' /\ n \in terms'
           /\ \A n \in terms : \E i \in KeyAt : Placed(i, n)'
<1>1. RootOK'
  BY DEF WordsInv, RootOK, PathsKept, taboo_npos
<1>2. KeyAt' = KeyAt
  BY DEF PathsKept, KeyAt
<1>3. \A c \in calls : \A i \in c.beg .. c.end - 1 : Reaches(i, c.kpos, c.npos)'
  <2>1. \A c \in calls : c.kpos \in Nat
    BY DEF BuilderInv, CallsInv, CallOK
  <2> QED
    BY <2>1, ReachesKept DEF WordsInv, CallsReached
<1>4. \A i \in KeyAt, n \in terms : Placed(i, n) => Placed(i, n)' /\ n \in terms'
  BY PlacedKept DEF BuilderInv
<1> QED
  BY <1>1, <1>2, <1>3, <1>4 DEF WordsInv, TermsPlaced

\* A call's keys and the place of its node.
LEMMA CallFacts ==
    ASSUME BuilderInv, WordsInv, NEW c \in calls
    PROVE  /\ c.npos \in arr.useds \ {taboo_npos} /\ c.npos \notin leaves /\ c.npos \notin Inner
           /\ c.beg \in Nat /\ c.end \in Nat /\ c.kpos \in Nat /\ c.beg \in KeyAt
           /\ c.beg .. c.end - 1 \subseteq KeyAt
           /\ \A i \in c.beg .. c.end - 1 :
                 Reaches(i, c.kpos, c.npos) /\ c.kpos \in 0 .. Len(Key(i)) /\ Len(Key(i)) \in Nat
           /\ \A d \in calls : d.npos = c.npos => d = c
           /\ \A s \in suffixes : s.npos # c.npos
<1>1. CallOK(c, arr.useds) /\ c.npos \notin leaves /\ keys \in KeyLists /\ Len(keys) \in Nat
  BY KeyAssumption DEF BuilderInv, CallsInv
<1>2. \A d \in calls : d.npos = c.npos => d = c
  BY DEF BuilderInv, CallsInv
<1>3. \A s \in suffixes : s.npos \in leaves
  BY DEF BuilderInv, SuffixesInv
<1>4. c.beg .. c.end - 1 \subseteq KeyAt /\ c.beg \in KeyAt
  BY <1>1 DEF CallOK, KeyAt
<1>5. \A i \in KeyAt : Len(Key(i)) \in Nat
  BY <1>1, KeyFacts DEF KeyAt
<1>6. \A i \in c.beg .. c.end - 1 : Reaches(i, c.kpos, c.npos)
  BY DEF WordsInv, CallsReached
<1>7. c.npos \notin Inner
  BY DEF Inner
<1> QED
  BY <1>1, <1>2, <1>3, <1>4, <1>5, <1>6, <1>7 DEF CallOK

LEMMA WordsInit == Init => WordsInv
<1> SUFFICES ASSUME Init PROVE WordsInv
  OBVIOUS
<1>1. keys \in KeyLists /\ Len(keys) \in Nat \ {0}
  BY KeyAssumption DEF Init
<1>2. arr.useds = {0, taboo_npos} /\ arr.check[0] = taboo_npos
  <2>1. FirstArray.useds = {0, taboo_npos}
    BY DEF FirstArray, UseUnit
  <2>2. FirstArray.check[0] = taboo_npos
    <3>1. BlockSize \in Nat /\ BlockSize >= 2
      BY BlockAssumption
    <3> QED
      BY <3>1 DEF FirstArray, UseUnit, taboo_npos
  <2> QED
    BY <2>1, <2>2 DEF Init
<1> DEFINE c == [beg |-> 0, end |-> Len(keys), kpos |-> 0, npos |-> 0]
<1>3. calls = {c} /\ terms = {}
  BY DEF Init
<1>4. ASSUME NEW i
      PROVE  Reaches(i, 0, 0)
  <2> DEFINE p == [j \in 0 .. 0 |-> 0]
  <2>1. p \in [0 .. 0 -> arr.useds \ {taboo_npos}] /\ p[0] = 0
    BY <1>2 DEF taboo_npos
  <2>2. Path(i, 0, p)
    BY <2>1 DEF Path
  <2> QED
    BY <2>1, <2>2 DEF Reaches
<1>5. KeyAt = c.beg .. c.end - 1
  BY DEF KeyAt
<1> QED
  BY <1>2, <1>3, <1>4, <1>5 DEF WordsInv, RootOK, CallsReached, KeysPlaced, TermsPlaced

\* The step puts the one key of its call at the end of its path.
LEMMA LeafWords ==
    ASSUME BuilderInv, WordsInv, NEW c \in calls, ArrangeEnd(c) \/ ArrangeSuffix(c)
    PROVE  WordsInv'
<1>1. /\ c.npos \in arr.useds \ {taboo_npos} /\ c.npos \notin leaves /\ c.npos \notin Inner
      /\ c.beg \in KeyAt /\ c.beg \in Nat /\ c.kpos \in Nat
      /\ c.beg .. c.end - 1 \subseteq KeyAt /\ c.end \in Nat
      /\ \A d \in calls : d.npos = c.npos => d = c
      /\ \A s \in suffixes : s.npos # c.npos
  BY CallFacts
<1>2. /\ c.beg + 1 = c.end /\ UNCHANGED <<keys, code, tvec>>
      /\ leaves' = leaves \cup {c.npos} /\ terms' = terms \cup {c.npos} /\ calls' = calls \ {c}
  BY DEF ArrangeEnd, ArrangeSuffix
<1>3. \/ EndsHere(c) /\ arr' = [arr EXCEPT !.base[c.npos] = 0] /\ suffixes' = suffixes
      \/ arr' = arr /\ suffixes' = suffixes \cup
            {[str |-> SubSeq(Key(c.beg), c.kpos + 1, Len(Key(c.beg))), npos |-> c.npos]}
  BY DEF ArrangeEnd, ArrangeSuffix
<1>4. PathsKept
  <2>1. /\ arr'.useds = arr.useds /\ arr'.check = arr.check
        /\ \A i \in 0 .. arr.size - 1 : i # c.npos => arr'.base[i] = arr.base[i]
    BY <1>1, <1>3, ArrFacts DEF BuilderInv, Array
  <2>2. Inner' = Inner
    BY <1>1, <1>2, <2>1 DEF Inner
  <2>3. Inner \subseteq 0 .. arr.size - 1
    BY ArrFacts DEF BuilderInv, Inner
  <2> QED
    BY <1>1, <1>2, <2>1, <2>2, <2>3 DEF PathsKept
<1>5. EndsKept
  BY <1>1, <1>2, <1>3 DEF EndsKept
<1>6. c.beg .. c.end - 1 = {c.beg}
  BY <1>1, <1>2
<1>7. Placed(c.beg, c.npos)'
  <2>1. c.beg \in c.beg .. c.end - 1
    BY <1>6
  <2>2. Reaches(c.beg, c.kpos, c.npos) /\ c.kpos \in 0 .. Len(Key(c.beg))
    BY <2>1, CallFacts
  <2>3. Reaches(c.beg, c.kpos, c.npos)'
    BY <2>2, <1>1, <1>4, ReachesKept
  <2>4. Key(c.beg)' = Key(c.beg)
    BY <1>2 DEF Key
  <2>5. EndsAt(c.beg, c.kpos, c.npos)'
    BY <2>4, <1>1, <1>2, <1>3 DEF EndsAt, EndsHere
  <2> QED
    BY <2>2, <2>3, <2>4, <2>5 DEF Placed
<1>8. CallsReached'
  BY <1>2, <1>4, <1>5, Carried DEF CallsReached
<1>9. KeysPlaced'
  <2>1. ASSUME NEW i \in KeyAt
        PROVE  (\E n \in terms' : Placed(i, n)') \/ \E d \in calls' : i \in d.beg .. d.end - 1
    <3>1. CASE \E n \in terms : Placed(i, n)
      BY <3>1, <1>4, <1>5, Carried
    <3>2. CASE \E d \in calls \ {c} : i \in d.beg .. d.end - 1
      BY <3>2, <1>2
    <3>3. CASE i \in c.beg .. c.end - 1
      BY <3>3, <1>2, <1>6, <1>7
    <3> QED
      BY <3>1, <3>2, <3>3 DEF WordsInv, KeysPlaced
  <2> QED
    BY <2>1, <1>4, <1>5, Carried DEF KeysPlaced
<1>10. TermsPlaced'
  <2>1. \A n \in terms' : \E i \in KeyAt : Placed(i, n)'
    BY <1>1, <1>2, <1>4, <1>5, <1>7, Carried
  <2> QED
    BY <2>1, <1>4, <1>5, Carried DEF TermsPlaced
<1> QED
  BY <1>4, <1>5, <1>8, <1>9, <1>10, Carried DEF WordsInv

\* The step of a node: units for the children, and a call for each.
LEMMA NodeStep ==
    ASSUME BuilderInv, NEW c \in calls, ArrangeNode(c),
           NEW beg, beg = (IF EndsHere(c) THEN c.beg + 1 ELSE c.beg),
           NEW edges, edges = Edges(c, beg),
           NEW base, base = Xcheck(arr, BlockOf(c.npos), edges),
           NEW C, C = Children(base, edges),
           NEW more, more = ChildCalls(c, beg, base)
    PROVE  /\ UNCHANGED <<keys, code, leaves, suffixes, tvec>>
           /\ calls' = (calls \ {c}) \cup more
           /\ terms' = (IF EndsHere(c) THEN terms \cup {c.npos} ELSE terms)
           /\ beg \in c.beg .. c.end - 1
           /\ arr'.useds = arr.useds \cup C /\ taboo_npos \notin C /\ C \cap arr.useds = {}
           /\ \A i \in (0 .. arr.size - 1) \ (Free(arr) \cup {taboo_npos}) :
                 arr'.check[i] = arr.check[i] /\ (i # c.npos => arr'.base[i] = arr.base[i])
           /\ arr'.base[c.npos] = base /\ \A i \in C : arr'.check[i] = c.npos
           /\ \A d \in more : HasItsKeys(d, c, beg, base)
<1> DEFINE room  == IF arr.size <= base THEN Expand(arr) ELSE arr
           b     == Tied([room EXCEPT !.base[c.npos] = base], base, edges, c.npos)
<1>0. /\ c.beg + 1 < c.end /\ arr' = b /\ calls' = (calls \ {c}) \cup more
      /\ terms' = (IF EndsHere(c) THEN terms \cup {c.npos} ELSE terms)
      /\ UNCHANGED <<keys, code, leaves, suffixes, tvec>>
  BY DEF ArrangeNode
<1>1. /\ ArrayInv(arr) /\ BlocksWhole(arr) /\ CallOK(c, arr.useds)
      /\ keys \in KeyLists /\ code \in Bijection(Chars, Chars)
  BY DEF BuilderInv, CallsInv
<1>2. c.npos \in arr.useds \ {taboo_npos}
  BY <1>1 DEF CallOK
<1>3. /\ beg \in c.beg .. c.end - 1
      /\ \A i \in beg .. c.end - 1 : c.kpos < Len(Key(i))
      /\ edges \in SUBSET Chars /\ edges # {}
  BY <1>0, <1>1, EdgesFacts
<1>4. /\ b.useds = arr.useds \cup C /\ taboo_npos \notin C /\ C \cap arr.useds = {}
      /\ \A i \in (0 .. arr.size - 1) \ (Free(arr) \cup {taboo_npos}) :
            b.check[i] = arr.check[i] /\ (i # c.npos => b.base[i] = arr.base[i])
      /\ b.base[c.npos] = base /\ \A i \in C : b.check[i] = c.npos
  <2>1. ArrayInv(arr) /\ BlocksWhole(arr) /\ code \in Bijection(Chars, Chars)
    BY <1>1
  <2>2. edges \in SUBSET Chars /\ edges # {}
    BY <1>3
  <2> HIDE DEF ArrayInv, BlocksWhole, Free, Child, Tied, Xcheck, Expand, BlockOf, Chars
  <2> QED
    BY <2>1, <2>2, <1>2, NodeUnits
<1> HIDE DEF room, b
<1>5. ASSUME NEW d \in more
      PROVE  HasItsKeys(d, c, beg, base)
  <2>1. /\ Children(base, Edges(c, beg)) \subseteq C \ {taboo_npos}
        /\ d \in ChildCalls(c, beg, base) /\ CallOK(c, arr.useds) /\ beg \in c.beg .. c.end - 1
        /\ keys \in KeyLists /\ code \in Bijection(Chars, Chars)
        /\ \A i \in beg .. c.end - 1 : c.kpos < Len(Key(i))
    BY <1>1, <1>3, <1>4
  <2> QED
    BY ONLY <2>1, ChildCallsOK
<1> QED
  BY <1>0, <1>3, <1>4, <1>5

\* Every key with a character at the place is in the call of its character.
LEMMA ChildCallsCover ==
    ASSUME BuilderInv, NEW c \in calls, NEW beg \in c.beg .. c.end - 1, NEW base,
           NEW i \in beg .. c.end - 1
    PROVE  /\ Key(i)[c.kpos + 1] \in Edges(c, beg)
           /\ \E d \in ChildCalls(c, beg, base) : i \in d.beg .. d.end - 1
<1> DEFINE With(ch) == {j \in beg .. c.end - 1 : Key(j)[c.kpos + 1] = ch}
           ch == Key(i)[c.kpos + 1]
           W  == With(ch)
           lo == Min(W)
           hi == Max(W)
           d  == [beg |-> lo, end |-> hi + 1, kpos |-> c.kpos + 1, npos |-> Child(base, ch)]
<1>1. c.beg \in Nat /\ c.end \in Nat /\ beg \in Nat
  BY DEF BuilderInv, CallsInv, CallOK
<1>2. ch \in Edges(c, beg)
  BY DEF Edges
<1>3. d \in ChildCalls(c, beg, base)
  BY <1>2 DEF ChildCalls
<1>4. i \in W /\ W \in SUBSET Nat /\ W \in SUBSET (0 .. c.end) /\ W # {}
  BY <1>1
<1>5. lo \in W /\ hi \in W /\ \A j \in W : lo <= j /\ j <= hi
  <2> HIDE DEF W
  <2> QED
    BY <1>1, <1>4, MinFacts, MaxFacts
<1> HIDE DEF W, lo, hi
<1>6. lo \in Nat /\ hi \in Nat /\ lo <= i /\ i <= hi
  BY <1>4, <1>5
<1>7. i \in d.beg .. d.end - 1
  BY <1>1, <1>6
<1> QED
  BY <1>2, <1>3, <1>7

LEMMA NodeWords ==
    ASSUME BuilderInv, WordsInv, NEW c \in calls, ArrangeNode(c)
    PROVE  WordsInv'
<1>a. PICK beg : beg = (IF EndsHere(c) THEN c.beg + 1 ELSE c.beg)
  OBVIOUS
<1>b. PICK edges : edges = Edges(c, beg)
  OBVIOUS
<1>c. PICK base : base = Xcheck(arr, BlockOf(c.npos), edges)
  OBVIOUS
<1>d. PICK C : C = Children(base, edges)
  OBVIOUS
<1>e. PICK more : more = ChildCalls(c, beg, base)
  OBVIOUS
<1>1. /\ UNCHANGED <<keys, code, leaves, suffixes, tvec>>
      /\ calls' = (calls \ {c}) \cup more
      /\ terms' = (IF EndsHere(c) THEN terms \cup {c.npos} ELSE terms)
      /\ beg \in c.beg .. c.end - 1
      /\ arr'.useds = arr.useds \cup C /\ taboo_npos \notin C /\ C \cap arr.useds = {}
      /\ \A i \in (0 .. arr.size - 1) \ (Free(arr) \cup {taboo_npos}) :
            arr'.check[i] = arr.check[i] /\ (i # c.npos => arr'.base[i] = arr.base[i])
      /\ arr'.base[c.npos] = base /\ \A i \in C : arr'.check[i] = c.npos
      /\ \A d \in more : HasItsKeys(d, c, beg, base)
  BY <1>a, <1>b, <1>c, <1>d, <1>e, NodeStep
<1>2. /\ c.npos \in arr.useds \ {taboo_npos} /\ c.npos \notin leaves
      /\ c.beg \in KeyAt /\ c.beg \in Nat /\ c.kpos \in Nat /\ c.end \in Nat
      /\ c.beg .. c.end - 1 \subseteq KeyAt /\ beg \in Nat /\ c.beg <= beg
      /\ \A d \in calls : d.npos = c.npos => d = c
  BY <1>1, CallFacts
<1>3. \A i \in beg .. c.end - 1 :
         /\ Key(i)[c.kpos + 1] \in edges
         /\ \E d \in more : i \in d.beg .. d.end - 1
  BY <1>1, <1>b, <1>e, ChildCallsCover
<1>4. \A ch \in edges : Child(base, ch) \in C
  BY <1>d DEF Children
<1>5. \A d \in more : d.npos \in C
  BY <1>1, <1>4, <1>b DEF HasItsKeys
<1>6. ~EndsHere(c) => beg = c.beg
  BY <1>a
<1>7. EndsHere(c) => beg = c.beg + 1
  BY <1>a
<1>8. PathsKept /\ c.npos \in Inner'
  <2>1. \A n \in arr.useds : n \in 0 .. arr.size - 1 /\ n \notin Free(arr)
    BY ArrFacts DEF BuilderInv
  <2>2. \A n \in Inner : n \in arr.useds /\ n # taboo_npos /\ n # c.npos /\ n \notin leaves
    BY DEF Inner
  <2>3. ASSUME NEW n \in arr.useds, n # taboo_npos, n \notin leaves, \A d \in calls \ {c} : n # d.npos
        PROVE  n \in Inner'
    <3>1. \A d \in calls' : n # d.npos
      BY <2>3, <1>1, <1>5
    <3> QED
      BY <2>3, <3>1, <1>1 DEF Inner
  <2>4. Inner \subseteq Inner'
    BY <2>2, <2>3 DEF Inner
  <2>5. c.npos \in Inner'
    BY <2>3, <1>2
  <2> QED
    BY <2>1, <2>2, <2>4, <2>5, <1>1 DEF PathsKept
<1>9. EndsKept
  BY <1>1 DEF EndsKept
<1>10. ASSUME NEW i \in c.beg .. c.end - 1
       PROVE  Reaches(i, c.kpos, c.npos)' /\ Key(i)' = Key(i) /\ c.kpos \in 0 .. Len(Key(i))
  BY <1>1, <1>2, <1>8, CallFacts, ReachesKept DEF Key
<1>11. ASSUME NEW i \in beg .. c.end - 1, NEW ch \in edges, Key(i)[c.kpos + 1] = ch,
              NEW u, u = Child(base, ch)
       PROVE  Reaches(i, c.kpos + 1, u)'
  <2> DEFINE k == c.kpos
  <2>1. i \in c.beg .. c.end - 1
    BY <1>1, <1>2
  <2>2. PICK p \in [0 .. k -> arr'.useds \ {taboo_npos}] : Path(i, k, p)' /\ p[k] = c.npos
    BY <2>1, <1>10 DEF Reaches
  <2> DEFINE q == [j \in 0 .. k + 1 |-> IF j = k + 1 THEN u ELSE p[j]]
  <2>3. u \in C /\ u \in arr'.useds \ {taboo_npos} /\ arr'.check[u] = c.npos /\ arr'.base[c.npos] = base
    BY <1>1, <1>4, <1>11
  <2>4. Key(i)' = Key(i) /\ Child(base, ch)' = u
    BY <1>1, <1>11 DEF Key, Child
  <2>5. q \in [0 .. k + 1 -> arr'.useds \ {taboo_npos}]
    BY <2>3, <1>2
  <2>6. q[k + 1] = u /\ \A j \in 0 .. k : q[j] = p[j]
    BY <1>2
  <2> HIDE DEF q
  <2>7. ASSUME NEW j \in 1 .. k + 1
        PROVE  /\ q[j - 1] \in Inner'
               /\ q[j] = Child(arr.base[q[j - 1]], Key(i)[j])'
               /\ arr'.check[q[j]] = q[j - 1]
    <3>1. CASE j = k + 1
      <4>1. q[j - 1] = c.npos /\ q[j] = u
        BY <3>1, <2>2, <2>6, <1>2
      <4>2. Key(i)[j] = ch
        BY <3>1, <1>11
      <4> QED
        BY <4>1, <4>2, <2>3, <2>4, <1>8
    <3>2. CASE j # k + 1
      <4>1. j \in 1 .. k /\ j - 1 \in 0 .. k /\ j \in 0 .. k
        BY <3>2, <1>2
      <4>2. q[j - 1] = p[j - 1] /\ q[j] = p[j]
        BY <4>1, <2>6
      <4> QED
        BY <4>1, <4>2, <2>2 DEF Path
    <3> QED
      BY <3>1, <3>2
  <2>8. Path(i, k + 1, q)'
    <3>1. q[0] = 0
      BY <2>2, <2>6, <1>2 DEF Path
    <3> QED
      BY <2>7, <3>1 DEF Path
  <2> QED
    BY <2>5, <2>6, <2>8 DEF Reaches
<1>12. EndsHere(c) => Placed(c.beg, c.npos)'
  <2> HAVE EndsHere(c)
  <2>1. c.beg \in c.beg .. c.end - 1
    BY <1>1, <1>2
  <2>2. EndsAt(c.beg, c.kpos, c.npos)'
    BY <2>1, <1>1, <1>8, <1>10 DEF EndsAt, EndsHere
  <2> QED
    BY <2>1, <2>2, <1>10 DEF Placed
<1>13. CallsReached'
  <2>1. ASSUME NEW d \in calls \ {c}, NEW i \in d.beg .. d.end - 1
        PROVE  Reaches(i, d.kpos, d.npos)'
    BY <1>8, <1>9, Carried
  <2>2. ASSUME NEW d \in more, NEW i \in d.beg .. d.end - 1
        PROVE  Reaches(i, d.kpos, d.npos)'
    <3>1. PICK ch \in edges :
             /\ d.npos = Child(base, ch)
             /\ i \in beg .. c.end - 1 /\ Key(i)[c.kpos + 1] = ch
      BY <1>1, <1>b DEF HasItsKeys
    <3>2. Reaches(i, c.kpos + 1, d.npos)'
      BY <3>1, <1>11
    <3>3. d.kpos = c.kpos + 1
      BY <1>1 DEF HasItsKeys
    <3> QED
      BY <3>2, <3>3
  <2> QED
    BY <2>1, <2>2, <1>1 DEF CallsReached
<1>14. KeysPlaced'
  <2>1. ASSUME NEW i \in KeyAt
        PROVE  (\E n \in terms' : Placed(i, n)') \/ \E d \in calls' : i \in d.beg .. d.end - 1
    <3>1. CASE \E n \in terms : Placed(i, n)
      BY <3>1, <1>8, <1>9, Carried
    <3>2. CASE \E d \in calls \ {c} : i \in d.beg .. d.end - 1
      BY <3>2, <1>1
    <3>3. CASE i \in beg .. c.end - 1
      BY <3>3, <1>1, <1>3
    <3>4. CASE i \in c.beg .. c.end - 1 /\ i \notin beg .. c.end - 1
      <4>1. EndsHere(c) /\ i = c.beg
        BY <3>4, <1>2, <1>6, <1>7
      <4> QED
        BY <4>1, <1>1, <1>12
    <3> QED
      BY <3>1, <3>2, <3>3, <3>4 DEF WordsInv, KeysPlaced
  <2> QED
    BY <2>1, <1>8, <1>9, Carried DEF KeysPlaced
<1>15. TermsPlaced'
  <2>1. \A n \in terms' : \E i \in KeyAt : Placed(i, n)'
    BY <1>1, <1>2, <1>8, <1>9, <1>12, Carried
  <2> QED
    BY <2>1, <1>8, <1>9, Carried DEF TermsPlaced
<1> QED
  BY <1>8, <1>9, <1>13, <1>14, <1>15, Carried DEF WordsInv

\* Closing the last blocks and completing the tail leave the words where they are.
LEMMA FinishWords ==
    ASSUME BuilderInv, WordsInv, FinishBlock \/ CompleteSuffixes
    PROVE  WordsInv'
<1>1. /\ calls = {} /\ UNCHANGED <<keys, code, leaves, terms, suffixes, calls>>
      /\ ArrayInv(arr) /\ BlocksWhole(arr)
  BY DEF FinishBlock, CompleteSuffixes, BuilderInv
<1>2. /\ arr.useds \subseteq arr'.useds
      /\ \A n \in arr.useds \ {taboo_npos} : arr'.check[n] = arr.check[n]
  BY FinishBlockInv, CompleteSuffixesInv DEF UnitsKept
<1>3. Inner \subseteq Inner' /\ Inner \subseteq (0 .. arr.size - 1) \ (Free(arr) \cup {taboo_npos} \cup leaves)
  BY <1>1, <1>2, ArrFacts DEF Inner
<1>4. \A n \in Inner : arr'.base[n] = arr.base[n]
  <2>1. CASE FinishBlock
    <3>1. arr.base[taboo_npos] # taboo_npos /\ arr' = CloseBlock(arr, BlockOf(arr.base[taboo_npos]))
      BY <2>1 DEF FinishBlock
    <3>2. arr.base[taboo_npos] \in Free(arr)
      BY <1>1, <3>1, ArrFacts DEF ArrayInv, LinksOK
    <3>3. BlockOf(arr.base[taboo_npos]) \in 0 .. BlockOf(arr.size) - 1
      BY <1>1, <3>2, ArrFacts, UnitBlock
    <3>4. Keeps(arr, arr')
      BY <1>1, <3>1, <3>3, CloseAll
    <3> QED
      BY <1>3, <3>4 DEF Keeps
  <2>2. CASE CompleteSuffixes
    <3>1. \A n \in 0 .. arr.size - 1 : (\A s \in suffixes : s.npos # n) => arr'.base[n] = arr.base[n]
      <4> DEFINE Stored(i) == \E s \in suffixes : s.npos = i
                 done == CompleteTail(suffixes, bin_mode)
      <4>1. arr' = [arr EXCEPT !.base = [i \in DOMAIN @ |-> IF Stored(i) THEN done.tpos[i] ELSE @[i]]]
        BY <2>2 DEF CompleteSuffixes
      <4>2. arr.base \in [0 .. arr.size - 1 -> Nat] /\ arr \in Array(arr.size)
        BY <1>1, ArrFacts DEF Array
      <4> HIDE DEF done
      <4> QED
        BY <4>1, <4>2 DEF Array
    <3>2. \A s \in suffixes : s.npos \in leaves
      BY DEF BuilderInv, SuffixesInv
    <3> QED
      BY <1>3, <3>1, <3>2
  <2> QED
    BY <2>1, <2>2
<1>5. PathsKept
  BY <1>1, <1>2, <1>3, <1>4 DEF PathsKept
<1>6. EndsKept
  BY <1>1 DEF EndsKept
<1>7. KeysPlaced'
  BY <1>1, <1>5, <1>6, Carried DEF WordsInv, KeysPlaced
<1>8. TermsPlaced'
  BY <1>1, <1>5, <1>6, Carried DEF TermsPlaced
<1>9. CallsReached'
  BY <1>1 DEF CallsReached
<1> QED
  BY <1>5, <1>6, <1>7, <1>8, <1>9, Carried DEF WordsInv

\* The list of unused units is empty once the tail is complete.
AllClosed == tvec.ready => arr.base[taboo_npos] = taboo_npos

LEMMA ClosedStep ==
    ASSUME BuilderInv, AllClosed, BuilderNext
    PROVE  AllClosed'
<1>1. CASE Arrange
  <2>1. calls # {} /\ tvec' = tvec
    BY <1>1 DEF Arrange, ArrangeEnd, ArrangeSuffix, ArrangeNode
  <2>2. ~tvec.ready
    BY <2>1 DEF BuilderInv, TailBuilt
  <2> QED
    BY <2>1, <2>2 DEF AllClosed
<1>2. CASE FinishBlock
  BY <1>2 DEF FinishBlock, AllClosed
<1>3. CASE CompleteSuffixes
  <2> DEFINE Stored(i) == \E s \in suffixes : s.npos = i
             done == CompleteTail(suffixes, bin_mode)
  <2>1. /\ arr' = [arr EXCEPT !.base = [i \in DOMAIN @ |-> IF Stored(i) THEN done.tpos[i] ELSE @[i]]]
        /\ arr.base[taboo_npos] = taboo_npos
    BY <1>3 DEF CompleteSuffixes
  <2>2. /\ arr.base \in [0 .. arr.size - 1 -> Nat] /\ arr \in Array(arr.size)
        /\ taboo_npos \in 0 .. arr.size - 1
    BY ArrFacts DEF Array, BuilderInv
  <2>3. ~Stored(taboo_npos)
    BY DEF BuilderInv, SuffixesInv, NodesInv
  <2> HIDE DEF done, Stored
  <2> QED
    BY <2>1, <2>2, <2>3 DEF Array, AllClosed
<1> QED
  BY <1>1, <1>2, <1>3 DEF BuilderNext

LEMMA WordsStutter ==
    ASSUME BuilderInv, WordsInv, UNCHANGED builderVars
    PROVE  WordsInv' /\ BuilderInv'
<1>1. UNCHANGED <<keys, code, arr, leaves, terms, suffixes, calls, tvec>>
  BY DEF builderVars
<1>2. PathsKept
  BY <1>1 DEF PathsKept, Inner
<1>3. EndsKept
  BY <1>1 DEF EndsKept
<1>4. KeysPlaced'
  BY <1>1, <1>2, <1>3, Carried DEF WordsInv, KeysPlaced
<1>5. TermsPlaced'
  BY <1>1, <1>2, <1>3, Carried DEF TermsPlaced
<1>6. CallsReached'
  BY <1>1, <1>2, <1>3, Carried DEF CallsReached
<1>7. BuilderInv'
  BY StutterInv
<1> QED
  BY <1>2, <1>3, <1>4, <1>5, <1>6, <1>7, Carried DEF WordsInv

\* Each key is on the path laid for it, at its end or under a call to come, and a
\* terminal node is the end of a key: at every step of arrange, finish and complete.
THEOREM WordsInvariant == BuilderSpec => [](BuilderInv /\ WordsInv /\ AllClosed)
<1>1. Init => BuilderInv /\ WordsInv /\ AllClosed
  BY InitInv, WordsInit DEF Init, AllClosed, NotBuilt
<1>2. BuilderInv /\ WordsInv /\ AllClosed /\ [BuilderNext]_builderVars => WordsInv' /\ AllClosed' /\ BuilderInv'
  <2> SUFFICES ASSUME BuilderInv, WordsInv, AllClosed, [BuilderNext]_builderVars
               PROVE  WordsInv' /\ AllClosed' /\ BuilderInv'
    OBVIOUS
  <2>1. CASE UNCHANGED builderVars
    BY <2>1, WordsStutter DEF AllClosed, builderVars
  <2>2. CASE BuilderNext
    BY <2>2, NextInv, ClosedStep, LeafWords, NodeWords, FinishWords DEF BuilderNext, Arrange
  <2> QED
    BY <2>1, <2>2
<1> QED
  BY <1>1, <1>2, PTL DEF BuilderSpec

-----------------------------------------------------------------------------
(* The paths of the finished array. *)

Settled == BuilderInv /\ WordsInv /\ AllClosed /\ tvec.ready

\* An unused unit is its own parent, and no unit is the child of taboo_npos.
LEMMA SettledFacts ==
    ASSUME Settled
    PROVE  /\ arr.size \in Nat /\ arr.useds \subseteq Units
           /\ arr.base \in [Units -> Nat] /\ arr.check \in [Units -> Units]
           /\ \A n \in Units : n \notin arr.useds \ {taboo_npos} => arr.check[n] = n
           /\ 0 \in arr.useds \ {taboo_npos} /\ arr.check[0] = taboo_npos
           /\ Inner = arr.useds \ ({taboo_npos} \cup leaves)
<1>1. ArrayInv(arr) /\ calls = {}
  BY DEF Settled, BuilderInv, TailBuilt
<1>2. /\ arr.size \in Nat /\ arr.useds \subseteq Units /\ Free(arr) \subseteq Units /\ taboo_npos \in Units
      /\ arr.base \in [Units -> Nat] /\ arr.check \in [Units -> Units]
  BY <1>1, ArrFacts DEF Units, Array
<1>3. Free(arr) = {}
  <2>1. Goes(Free(arr), taboo_npos, taboo_npos)
    BY <1>1 DEF ArrayInv, LinksOK, Settled, AllClosed
  <2> QED
    BY <2>1 DEF Goes
<1>4. arr.check[taboo_npos] = taboo_npos
  BY <1>1, <1>3 DEF ArrayInv, LinksOK
<1>5. \A n \in Units : n \notin arr.useds \ {taboo_npos} => arr.check[n] = n
  BY <1>1, <1>3, <1>4 DEF ArrayInv, ClosedOK, Units
<1>6. 0 \in arr.useds \ {taboo_npos} /\ arr.check[0] = taboo_npos
  BY DEF Settled, WordsInv, RootOK, taboo_npos
<1> QED
  BY <1>1, <1>2, <1>5, <1>6 DEF Inner

\* A path that BASE and CHECK allow goes through the units of nodes.
LEMMA AlongUsed ==
    ASSUME Settled, NEW word, NEW k \in Nat, NEW q, Along(word, k, q), NEW j \in 0 .. k
    PROVE  q[j] \in arr.useds \ {taboo_npos}
<1> DEFINE S == {n \in 0 .. k : q[n] \in arr.useds \ {taboo_npos}}
<1>1. 0 \in S
  BY SettledFacts DEF Along
<1>2. ASSUME NEW n \in 0 .. k - 1, n \in S
      PROVE  n + 1 \in S
  <2>1. n + 1 \in 1 .. k /\ (n + 1) - 1 = n /\ n + 1 \in 0 .. k
    OBVIOUS
  <2>2. arr.check[q[n + 1]] = q[n] /\ q[n + 1] \in Units
    BY <2>1 DEF Along
  <2> QED
    BY <1>2, <2>1, <2>2, SettledFacts
<1>3. \A n \in 0 .. k : n \in S
  <2> HIDE DEF S
  <2> QED
    BY <1>1, <1>2, Rounds
<1> QED
  BY <1>3

\* The lookup of a word is at one node at most.
LEMMA OneNode ==
    ASSUME NEW word \in Seq(Chars), NEW n, NEW m, AcceptsAt(word, n), AcceptsAt(word, m)
    PROVE  n = m
<1> DEFINE At1(k, p, x) == /\ Along(word, k, p) /\ p[k] = x
                           /\ x \notin leaves => k = Len(word)
<1>1. ASSUME NEW k \in 0 .. Len(word), NEW p, NEW x, NEW l \in 0 .. Len(word), NEW q, NEW y,
             At1(k, p, x), At1(l, q, y), k <= l
      PROVE  x = y
  <2> DEFINE S == {j \in 0 .. k : p[j] = q[j]}
  <2>0. Len(word) \in Nat
    BY DEF Chars
  <2>1. 0 \in S
    BY <1>1, <2>0 DEF Along
  <2>2. ASSUME NEW j \in 0 .. k - 1, j \in S
        PROVE  j + 1 \in S
    <3>1. j + 1 \in 1 .. k /\ j + 1 \in 1 .. l /\ (j + 1) - 1 = j /\ j + 1 \in 0 .. k
      BY <1>1, <2>0
    <3>2. p[j + 1] = Child(arr.base[p[j]], word[j + 1]) /\ q[j + 1] = Child(arr.base[q[j]], word[j + 1])
      BY <1>1, <3>1 DEF Along
    <3> QED
      BY <2>2, <3>1, <3>2
  <2>3. \A j \in 0 .. k : j \in S
    <3> HIDE DEF S
    <3> QED
      BY <2>0, <2>1, <2>2, Rounds
  <2>4. k \in 0 .. k /\ p[k] = q[k]
    BY <2>0, <2>3
  <2>5. CASE k = l
    BY <2>4, <2>5, <1>1
  <2>6. CASE k < l
    <3>1. k + 1 \in 1 .. l /\ (k + 1) - 1 = k
      BY <2>0, <2>6
    <3>2. q[k] \notin leaves
      BY <1>1, <3>1 DEF Along
    <3> QED
      BY <1>1, <2>0, <2>4, <2>6, <3>2
  <2> QED
    BY <1>1, <2>0, <2>5, <2>6
<1>2. PICK k \in 0 .. Len(word) : \E p : At1(k, p, n)
  BY DEF AcceptsAt
<1>3. PICK l \in 0 .. Len(word) : \E q : At1(l, q, m)
  BY DEF AcceptsAt
<1>4. k <= l \/ l <= k
  BY DEF Chars
<1> HIDE DEF At1
<1> QED
  BY <1>1, <1>2, <1>3, <1>4

\* A path to a node of a key is the path of that key.
LEMMA SamePath ==
    ASSUME Settled, NEW word \in Seq(Chars), NEW k \in 0 .. Len(word), NEW q, Along(word, k, q),
           NEW i \in KeyAt, NEW m \in 0 .. Len(Key(i)), Reaches(i, m, q[k])
    PROVE  k = m /\ \A j \in 1 .. k : word[j] = Key(i)[j]
<1>0. /\ Len(word) \in Nat /\ Len(Key(i)) \in Nat /\ k \in Nat /\ m \in Nat
      /\ keys \in KeyLists /\ code \in Bijection(Chars, Chars)
      /\ Key(i) \in Seq(Chars)
  BY KeyFacts DEF Settled, BuilderInv, KeyAt
<1>1. PICK p \in [0 .. m -> arr.useds \ {taboo_npos}] : Path(i, m, p) /\ p[m] = q[k]
  BY DEF Reaches
<1>2. \A j \in 0 .. k : q[j] \in arr.useds \ {taboo_npos}
  BY <1>0, AlongUsed
<1>3. ASSUME NEW l \in Nat, l <= k, l <= m, NEW j \in 0 .. l
      PROVE  q[k - j] = p[m - j]
  <2> DEFINE S == {x \in 0 .. l : q[k - x] = p[m - x]}
  <2>1. 0 \in S
    BY <1>0, <1>1
  <2>2. ASSUME NEW x \in 0 .. l - 1, x \in S
        PROVE  x + 1 \in S
    <3>1. k - x \in 1 .. k /\ m - x \in 1 .. m /\ x + 1 \in 0 .. l
          /\ (k - x) - 1 = k - (x + 1) /\ (m - x) - 1 = m - (x + 1)
      BY <1>0, <1>3
    <3>2. arr.check[q[k - x]] = q[(k - x) - 1] /\ arr.check[p[m - x]] = p[(m - x) - 1]
      BY <1>1, <3>1 DEF Along, Path
    <3> QED
      BY <2>2, <3>1, <3>2
  <2>3. \A x \in 0 .. l : x \in S
    <3> HIDE DEF S
    <3> QED
      BY <2>1, <2>2, <1>3, Rounds
  <2> QED
    BY <2>3
<1>4. CASE k < m
  <2>1. q[k - k] = p[m - k] /\ k - k = 0 /\ m - k \in 1 .. m /\ (m - k) - 1 \in 0 .. m
    BY <1>0, <1>3, <1>4
  <2>2. q[0] = 0
    BY DEF Along
  <2>3. arr.check[p[m - k]] = p[(m - k) - 1] /\ p[(m - k) - 1] \in arr.useds \ {taboo_npos}
    BY <1>1, <2>1 DEF Path
  <2> QED
    BY <2>1, <2>2, <2>3, SettledFacts
<1>5. CASE m < k
  <2>0. m <= k /\ m <= m /\ m \in 0 .. m
    BY <1>0, <1>5
  <2>1. q[k - m] = p[m - m] /\ m - m = 0 /\ k - m \in 1 .. k /\ (k - m) - 1 \in 0 .. k
    <3>1. q[k - m] = p[m - m]
      BY ONLY <1>0, <1>3, <2>0
    <3> QED
      BY <3>1, <1>0, <1>5
  <2>2. p[0] = 0
    BY <1>1 DEF Path
  <2>3. arr.check[q[k - m]] = q[(k - m) - 1] /\ q[(k - m) - 1] \in arr.useds \ {taboo_npos}
    BY <1>2, <2>1 DEF Along
  <2> QED
    BY <2>1, <2>2, <2>3, SettledFacts
<1>6. CASE k = m
  <2>1. \A j \in 0 .. k : q[j] = p[j]
    <3>1. ASSUME NEW j \in 0 .. k
          PROVE  q[j] = p[j]
      <4>1. k - j \in 0 .. k /\ k - (k - j) = j /\ m - (k - j) = j /\ k <= k /\ k <= m
        BY <1>0, <1>6
      <4>2. q[k - (k - j)] = p[m - (k - j)]
        BY ONLY <1>0, <1>3, <4>1
      <4> QED
        BY <4>1, <4>2
    <3> QED
      BY <3>1
  <2>2. ASSUME NEW j \in 1 .. k
        PROVE  word[j] = Key(i)[j]
    <3>1. j - 1 \in 0 .. k /\ j \in 0 .. k /\ j \in 1 .. m /\ j \in 1 .. Len(word) /\ j \in 1 .. Len(Key(i))
      BY <1>0, <1>6
    <3>2. /\ q[j] = Child(arr.base[q[j - 1]], word[j])
          /\ q[j] = Child(arr.base[q[j - 1]], Key(i)[j])
      BY <1>1, <2>1, <3>1 DEF Along, Path
    <3>3. word[j] \in Chars /\ Key(i)[j] \in Chars
      <4> HIDE DEF Chars
      <4> QED
        BY <1>0, <3>1
    <3>4. arr.base[q[j - 1]] \in Nat
      BY <1>2, <3>1, SettledFacts
    <3> QED
      BY <1>0, <3>2, <3>3, <3>4, ChildInjective
  <2> QED
    BY <2>2, <1>6
<1> QED
  BY <1>0, <1>4, <1>5, <1>6

-----------------------------------------------------------------------------
(* What a lookup answers. *)

LEMMA CharsAreNumbers ==
    ASSUME NEW q \in Seq(Chars)
    PROVE  q \in Seq(Nat)
<1>1. Chars \subseteq Nat
  BY BlockAssumption DEF Chars
<1> HIDE DEF Chars
<1>2. Len(q) \in Nat /\ q \in [1 .. Len(q) -> Chars]
  OBVIOUS
<1>3. q \in [1 .. Len(q) -> Nat]
  BY <1>1, <1>2
<1> QED
  BY <1>2, <1>3

\* The rest of a sequence behind its first k elements.
LEMMA RestFacts ==
    ASSUME NEW a \in Seq(Nat), NEW k \in Nat, k <= Len(a)
    PROVE  /\ SubSeq(a, k + 1, Len(a)) \in Seq(Nat) /\ Len(SubSeq(a, k + 1, Len(a))) = Len(a) - k
           /\ \A j \in 1 .. Len(a) - k : SubSeq(a, k + 1, Len(a))[j] = a[k + j]
<1>1. CASE k = Len(a)
  <2>1. SubSeq(a, k + 1, Len(a)) = <<>>
    BY <1>1
  <2> QED
    BY <1>1, <2>1
<1>2. CASE k < Len(a)
  <2> DEFINE lo == k + 1
             hi == Len(a)
             sub == SubSeq(a, lo, hi)
  <2>1. lo \in 1 .. Len(a) /\ hi \in 1 .. Len(a) /\ lo <= hi /\ (hi - lo) + 1 = Len(a) - k
    BY <1>2
  <2>2. \A j \in 1 .. Len(a) - k : j \in 1 .. (hi - lo) + 1 /\ (lo + j) - 1 = k + j
    BY <1>2
  <2> HIDE DEF lo, hi
  <2>3. /\ sub \in Seq(Nat) /\ Len(sub) = (hi - lo) + 1
        /\ \A j \in 1 .. (hi - lo) + 1 : sub[j] = a[(lo + j) - 1]
    BY <2>1, SubSeqFacts
  <2> HIDE DEF sub
  <2>4. sub \in Seq(Nat) /\ Len(sub) = Len(a) - k /\ \A j \in 1 .. Len(a) - k : sub[j] = a[k + j]
    BY <2>1, <2>2, <2>3
  <2> QED
    BY <2>4 DEF sub, lo, hi
<1> QED
  BY <1>1, <1>2

LEMMA PrefixIs ==
    ASSUME NEW a \in Seq(Nat), NEW b \in Seq(Nat), 0 < Len(a), Len(a) <= Len(b),
           \A j \in 1 .. Len(a) : a[j] = b[j]
    PROVE  IsPrefix(a, b)
<1> DEFINE n == Len(a)
<1>1. n \in Nat /\ 1 \in 1 .. Len(a) /\ n \in 1 .. Len(a) /\ 1 \in 1 .. Len(b) /\ n \in 1 .. Len(b) /\ 1 <= n
  OBVIOUS
<1>2. SubSeq(a, 1, n) = a
  OBVIOUS
<1> HIDE DEF n
<1> DEFINE sub == SubSeq(b, 1, n)
<1>3. sub \in Seq(Nat) /\ Len(sub) = (n - 1) + 1 /\ \A j \in 1 .. (n - 1) + 1 : sub[j] = b[(1 + j) - 1]
  BY <1>1, SubSeqFacts
<1> HIDE DEF sub
<1>4. Len(sub) = n /\ \A j \in 1 .. n : sub[j] = b[j]
  BY <1>1, <1>3
<1>5. a = sub
  BY <1>3, <1>4, SameSeq DEF n
<1> QED
  BY <1>2, <1>5 DEF IsPrefix, sub, n

\* Two keys differ.
LEMMA KeysDiffer ==
    ASSUME keys \in KeyLists, NEW i \in KeyAt, NEW j \in KeyAt, Key(i) = Key(j)
    PROVE  i = j
<1>1. ASSUME NEW x \in KeyAt, NEW y \in KeyAt, x < y
      PROVE  Key(x) # Key(y)
  <2>1. x + 1 \in 1 .. Len(keys) /\ y + 1 \in 1 .. Len(keys) /\ x + 1 < y + 1
    <3>1. Len(keys) \in Nat
      BY KeyAssumption
    <3> QED
      BY <3>1, <1>1 DEF KeyAt
  <2>2. LexLess(Key(x), Key(y))
    BY <2>1, KeyAssumption DEF Key
  <2>3. Key(x) \in Seq(Nat)
    BY KeyFacts, CharsAreNumbers DEF KeyAt
  <2> QED
    BY <2>2, <2>3, LexIrreflexive
<1>2. i < j \/ j < i \/ i = j
  BY KeyAssumption DEF KeyAt
<1> QED
  BY <1>1, <1>2

\* The lookup of a key ends where the key was put.
LEMMA PlacedAccepted ==
    ASSUME Settled, NEW i \in KeyAt, NEW n \in terms, Placed(i, n)
    PROVE  AcceptsAt(Key(i), n)
<1>1. PICK k \in 0 .. Len(Key(i)) : Reaches(i, k, n) /\ EndsAt(i, k, n)
  BY DEF Placed
<1>2. PICK p \in [0 .. k -> arr.useds \ {taboo_npos}] : Path(i, k, p) /\ p[k] = n
  BY <1>1 DEF Reaches
<1>3. Key(i) \in Seq(Chars) /\ Len(Key(i)) \in Nat
  BY KeyFacts DEF Settled, BuilderInv, KeyAt
<1>4. p \in [0 .. k -> Units] /\ Along(Key(i), k, p)
  BY <1>2, SettledFacts DEF Along, Path
<1>5. IF n \in leaves THEN Match(tvec, SubSeq(Key(i), k + 1, Len(Key(i))), arr.base[n])
      ELSE k = Len(Key(i)) /\ n \in terms
  <2>1. CASE k = Len(Key(i)) /\ n \in Inner
    BY <2>1 DEF Inner
  <2>2. CASE k = Len(Key(i)) /\ n \in leaves /\ \A s \in suffixes : s.npos # n
    <3>1. arr.base[n] = 0
      BY <2>2 DEF Settled, BuilderInv, NodesInv
    <3>2. SubSeq(Key(i), k + 1, Len(Key(i))) = <<>>
      <4> HIDE DEF Chars
      <4> QED
        BY <2>2, <1>3
    <3> QED
      BY <2>2, <3>1, <3>2 DEF Match
  <2>3. CASE n \in leaves /\ [str |-> SubSeq(Key(i), k + 1, Len(Key(i))), npos |-> n] \in suffixes
    <3> DEFINE rest == SubSeq(Key(i), k + 1, Len(Key(i)))
    <3>1. rest \in Seq(Nat)
      <4>1. rest \in Seq(Chars)
        BY <2>3 DEF Settled, BuilderInv, SuffixesInv
      <4> HIDE DEF rest
      <4> QED
        BY <4>1, CharsAreNumbers
    <3>2. Match(tvec, rest, arr.base[n])
      <4> DEFINE s == [str |-> rest, npos |-> n]
      <4>1. s \in suffixes /\ s.str = rest /\ s.npos = n
        BY <2>3
      <4> HIDE DEF s, rest
      <4> QED
        BY <3>1, <4>1, ReadBack DEF Settled, SuffixesReadBack
    <3> QED
      BY <2>3, <3>2
  <2> QED
    BY <1>1, <2>1, <2>2, <2>3 DEF EndsAt
<1> QED
  BY <1>2, <1>4, <1>5 DEF AcceptsAt

\* What the tail holds at position 0: nothing, or NUL and the first suffix.
LEMMA RunAtZero ==
    ASSUME Settled, Run(tvec, 0) # <<>>
    PROVE  bin_mode /\ Len(Run(tvec, 0)) \in Nat /\ Len(Run(tvec, 0)) > 1 /\ Run(tvec, 0)[1] = NUL
<1>1. /\ tvec.bin = bin_mode /\ tvec.chars \in Seq(Nat) /\ tvec.chars # <<>> /\ tvec.chars[1] = NUL
      /\ tvec.ends \subseteq 1 .. Len(tvec.chars) - 1
  BY DEF Settled, BuilderInv, TailBuilt
<1>2. Len(tvec.chars) \in Nat \ {0}
  BY <1>1
<1>3. CASE ~tvec.bin
  <2> DEFINE stops == {p \in 0 .. Len(tvec.chars) - 1 : At(tvec, p) = NUL}
  <2>1. 0 \in stops /\ stops \in SUBSET Nat
    BY <1>1, <1>2 DEF At
  <2>2. Run(tvec, 0) = SubSeq(tvec.chars, 0 + 1, Min(stops))
    BY <1>3, <2>1 DEF Run
  <2> HIDE DEF stops
  <2>3. Min(stops) = 0
    <3>1. Min(stops) \in Nat /\ Min(stops) <= 0
      BY <2>1, MinFacts
    <3> QED
      BY <3>1
  <2>4. SubSeq(tvec.chars, 1, 0) = <<>>
    BY <1>1
  <2> QED
    BY <2>2, <2>3, <2>4
<1>4. CASE tvec.bin
  <2> DEFINE stops == {e \in tvec.ends : e >= 0}
  <2>1. stops \in SUBSET Nat /\ stops \subseteq 1 .. Len(tvec.chars) - 1
    BY <1>1, <1>2
  <2>2. Run(tvec, 0) = IF stops = {} THEN <<>> ELSE SubSeq(tvec.chars, 0 + 1, Min(stops) + 1)
    BY <1>4 DEF Run
  <2> HIDE DEF stops
  <2>3. Min(stops) \in 1 .. Len(tvec.chars) - 1
    BY <2>1, <2>2, MinFacts
  <2> DEFINE hi == Min(stops) + 1
  <2>4. hi \in 1 .. Len(tvec.chars) /\ 1 <= hi /\ 1 \in 1 .. Len(tvec.chars) /\ hi > 1
    BY <1>2, <2>3
  <2>5. Run(tvec, 0) = SubSeq(tvec.chars, 1, hi)
    BY <2>2
  <2> HIDE DEF hi
  <2>6. /\ Len(SubSeq(tvec.chars, 1, hi)) = (hi - 1) + 1
        /\ \A j \in 1 .. (hi - 1) + 1 : SubSeq(tvec.chars, 1, hi)[j] = tvec.chars[(1 + j) - 1]
    BY ONLY <1>1, <2>4, SubSeqFacts
  <2>7. Run(tvec, 0)[1] = tvec.chars[1] /\ Len(Run(tvec, 0)) = hi
    BY <2>4, <2>5, <2>6
  <2> QED
    BY <1>1, <1>4, <2>4, <2>7
<1> QED
  BY <1>3, <1>4

\* Accepted at the node of a key is that key, or a word that goes on with NUL behind it.
LEMMA AcceptedIs ==
    ASSUME Settled, NEW word \in Seq(Chars), NEW n, AcceptsAt(word, n), NEW i \in KeyAt, Placed(i, n)
    PROVE  word = Key(i) \/ (bin_mode /\ IsStrictPrefix(Key(i) \o <<NUL>>, word))
<1> DEFINE key == Key(i)
<1>1. key \in Seq(Nat) /\ Len(key) \in Nat /\ word \in Seq(Nat) /\ Len(word) \in Nat
  <2>1. Key(i) \in Seq(Chars)
    BY KeyFacts DEF Settled, BuilderInv, KeyAt
  <2>2. Key(i) \in Seq(Nat) /\ word \in Seq(Nat)
    BY <2>1, CharsAreNumbers
  <2> QED
    BY <2>2
<1> DEFINE Ends(k, q) == /\ Along(word, k, q) /\ q[k] = n
                         /\ IF n \in leaves THEN Match(tvec, SubSeq(word, k + 1, Len(word)), arr.base[n])
                            ELSE k = Len(word) /\ n \in terms
<1>a. PICK k \in 0 .. Len(word) : \E q \in [0 .. k -> Units] : Ends(k, q)
  BY DEF AcceptsAt
<1>2. PICK q \in [0 .. k -> Units] : Ends(k, q)
  BY <1>a
<1>3. PICK m \in 0 .. Len(key) : Reaches(i, m, n) /\ EndsAt(i, m, n)
  BY DEF Placed
<1>4. k = m /\ \A j \in 1 .. k : word[j] = key[j]
  BY <1>2, <1>3, SamePath
<1>5. k \in Nat /\ k <= Len(word) /\ k <= Len(key)
  BY <1>1, <1>4
<1> DEFINE rest == SubSeq(word, k + 1, Len(word))
           suffix == SubSeq(key, k + 1, Len(key))
<1> HIDE DEF key
<1>7. /\ rest \in Seq(Nat) /\ Len(rest) = Len(word) - k
      /\ \A j \in 1 .. Len(word) - k : rest[j] = word[k + j]
  BY <1>1, <1>5, RestFacts
<1>8. /\ suffix \in Seq(Nat) /\ Len(suffix) = Len(key) - k
      /\ \A j \in 1 .. Len(key) - k : suffix[j] = key[k + j]
  BY <1>1, <1>5, RestFacts
<1> HIDE DEF rest, suffix
<1>10. ASSUME rest = suffix
       PROVE  word = key
  <2>1. Len(word) = Len(key)
    BY <1>1, <1>5, <1>7, <1>8, <1>10
  <2>2. ASSUME NEW j \in 1 .. Len(word)
        PROVE  word[j] = key[j]
    <3>1. CASE j <= k
      BY <3>1, <1>4, <1>5
    <3>2. CASE j > k
      <4>1. j - k \in 1 .. Len(word) - k /\ k + (j - k) = j
        BY <3>2, <1>1, <1>5
      <4>2. rest[j - k] = word[j] /\ suffix[j - k] = key[j]
        BY <4>1, <2>1, <1>7, <1>8
      <4> QED
        BY <4>2, <1>10
    <3> QED
      BY <3>1, <3>2, <1>5
  <2> QED
    BY <1>1, <2>1, <2>2, SameSeq
<1>11. CASE k = Len(key) /\ n \in Inner
  <2>1. k = Len(word)
    BY <1>2, <1>11 DEF Inner
  <2>2. \A j \in 1 .. Len(word) : word[j] = key[j]
    BY <2>1, <1>4
  <2> QED
    BY <1>1, <1>11, <2>1, <2>2, SameSeq DEF key
<1>12. CASE k = Len(key) /\ n \in leaves /\ \A s \in suffixes : s.npos # n
  <2>1. arr.base[n] = 0 /\ Match(tvec, rest, 0)
    BY <1>2, <1>12 DEF Settled, BuilderInv, NodesInv, rest
  <2>2. CASE rest = <<>>
    <3>1. suffix = rest
      <4>1. Len(suffix) = 0
        BY <1>8, <1>12, <1>5
      <4> QED
        BY <4>1, <1>8, <2>2
    <3> QED
      BY <3>1, <1>10 DEF key
  <2>3. CASE rest # <<>>
    <3>1. rest = Run(tvec, 0)
      BY <2>1, <2>3 DEF Match
    <3>2. bin_mode /\ Len(rest) > 1 /\ rest[1] = NUL
      BY <2>3, <3>1, RunAtZero
    <3>3. word[k + 1] = NUL /\ k + 1 < Len(word)
      <4>1. 1 \in 1 .. Len(word) - k
        BY <3>2, <1>7, <1>1, <1>5
      <4> QED
        BY <4>1, <3>2, <1>7, <1>1, <1>5
    <3>4. IsStrictPrefix(key \o <<NUL>>, word)
      <4> DEFINE z == key \o <<NUL>>
      <4>1. /\ z \in Seq(Nat) /\ Len(z) = Len(key) + 1
            /\ \A j \in 1 .. Len(key) : z[j] = key[j]
            /\ z[Len(key) + 1] = NUL
        BY <1>1 DEF NUL
      <4> HIDE DEF z
      <4>2. ASSUME NEW j \in 1 .. Len(z)
            PROVE  z[j] = word[j]
        <5>1. j \in 1 .. Len(key) \/ j = Len(key) + 1
          BY <4>1, <1>1
        <5> QED
          BY <5>1, <4>1, <1>4, <1>12, <3>3
      <4>3. Len(z) < Len(word)
        BY <4>1, <1>12, <3>3
      <4>4. z # word /\ Len(z) <= Len(word) /\ 0 < Len(z)
        BY <4>1, <4>3, <1>1
      <4>5. IsPrefix(z, word)
        BY <4>1, <4>2, <4>4, <1>1, PrefixIs
      <4>6. IsStrictPrefix(z, word)
        BY <4>4, <4>5 DEF IsStrictPrefix
      <4> QED
        BY <4>6 DEF z
    <3> QED
      BY <3>2, <3>4 DEF key
  <2> QED
    BY <2>2, <2>3
<1>13. CASE n \in leaves /\ [str |-> suffix, npos |-> n] \in suffixes
  <2> DEFINE s == [str |-> suffix, npos |-> n]
  <2>1. s \in suffixes /\ s.str = suffix /\ s.npos = n
    BY <1>13
  <2> HIDE DEF s
  <2>2. Match(tvec, rest, arr.base[s.npos])
    BY <1>2, <1>13, <2>1 DEF rest
  <2>3. rest = suffix
    BY <1>7, <2>1, <2>2, ReadBack DEF Settled, SuffixesReadBack
  <2> QED
    BY <2>3, <1>10 DEF key
<1> QED
  BY <1>3, <1>4, <1>11, <1>12, <1>13 DEF EndsAt, suffix, key

\* Once the array is finished the nodes of the keys are found.
LEMMA SettledKeys == Settled => KeysAreFound
<1> SUFFICES ASSUME Settled
             PROVE  \E node \in [KeyAt -> terms] :
                        /\ \A i, j \in KeyAt : node[i] = node[j] => i = j
                        /\ \A n \in terms : \E i \in KeyAt : node[i] = n
                        /\ \A i \in KeyAt : AcceptsAt(Key(i), node[i])
  BY DEF KeysAreFound
<1>1. keys \in KeyLists /\ \A i \in KeyAt : Key(i) \in Seq(Chars) /\ Len(Key(i)) \in Nat
  BY KeyFacts DEF Settled, BuilderInv, KeyAt
<1>2. \A i \in KeyAt : \E n \in terms : Placed(i, n)
  <2>1. calls = {}
    BY DEF Settled, BuilderInv, TailBuilt
  <2> QED
    BY <2>1 DEF Settled, WordsInv, KeysPlaced
<1> DEFINE node == [i \in KeyAt |-> CHOOSE n \in terms : Placed(i, n)]
<1>3. node \in [KeyAt -> terms] /\ \A i \in KeyAt : Placed(i, node[i])
  BY <1>2
<1> HIDE DEF node
<1>4. \A i \in KeyAt : AcceptsAt(Key(i), node[i])
  BY <1>3, PlacedAccepted
<1>5. ASSUME NEW i \in KeyAt, NEW j \in KeyAt, node[i] = node[j]
      PROVE  i = j
  <2>1. Key(i) = Key(j) \/ IsStrictPrefix(Key(j) \o <<NUL>>, Key(i))
    BY <1>1, <1>3, <1>4, <1>5, AcceptedIs
  <2>2. Key(j) = Key(i) \/ IsStrictPrefix(Key(i) \o <<NUL>>, Key(j))
    BY <1>1, <1>3, <1>4, <1>5, AcceptedIs
  <2>3. \A x, y \in KeyAt : IsStrictPrefix(Key(y) \o <<NUL>>, Key(x)) => Len(Key(y)) < Len(Key(x))
    <3> SUFFICES ASSUME NEW x \in KeyAt, NEW y \in KeyAt, IsStrictPrefix(Key(y) \o <<NUL>>, Key(x))
                 PROVE  Len(Key(y)) < Len(Key(x))
      OBVIOUS
    <3>1. Key(y) \in Seq(Nat) /\ Len(Key(y)) \in Nat /\ Len(Key(x)) \in Nat
      BY <1>1, CharsAreNumbers
    <3>2. Len(Key(y) \o <<NUL>>) = Len(Key(y)) + 1
      BY <3>1 DEF NUL
    <3>3. Len(Key(y) \o <<NUL>>) <= Len(Key(x))
      BY DEF IsStrictPrefix, IsPrefix
    <3> QED
      BY <3>1, <3>2, <3>3
  <2>4. Key(i) = Key(j)
    BY <1>1, <2>1, <2>2, <2>3
  <2> QED
    BY <1>1, <2>4, KeysDiffer
<1>6. ASSUME NEW n \in terms
      PROVE  \E i \in KeyAt : node[i] = n
  <2>1. PICK i \in KeyAt : Placed(i, n)
    BY DEF Settled, WordsInv, TermsPlaced
  <2>2. AcceptsAt(Key(i), n) /\ AcceptsAt(Key(i), node[i])
    BY <1>4, <2>1, PlacedAccepted
  <2> QED
    BY <1>1, <2>2, OneNode
<1> QED
  BY <1>3, <1>4, <1>5, <1>6

\* Once the array is finished and the tail complete, the lookup of a key ends at a
\* terminal node, another for each key, and every terminal node is that of a key:
\* arrange lays no path over another, and finish and complete leave the paths.
THEOREM KeysFound == BuilderSpec => []KeysAreFound
<1>1. BuilderInv /\ WordsInv /\ AllClosed => KeysAreFound
  BY SettledKeys DEF KeysAreFound, Settled
<1> QED
  BY <1>1, WordsInvariant, PTL

\* What is accepted at a node is the key of the node, or goes on behind it.
LEMMA SettledOthers == Settled => OthersAreRefused
<1> SUFFICES ASSUME Settled, NEW word \in Seq(Chars), NEW n \in Units, AcceptsAt(word, n)
             PROVE  (\E i \in KeyAt : word = Key(i)) \/ GoesOnWithNul(word)
  BY DEF OthersAreRefused
<1>1. n \in terms
  BY DEF AcceptsAt, Settled, BuilderInv, NodesInv
<1>2. PICK i \in KeyAt : Placed(i, n)
  BY <1>1 DEF Settled, WordsInv, TermsPlaced
<1> QED
  BY <1>2, AcceptedIs DEF GoesOnWithNul

\* A word that is no key is refused, whatever its characters, but for those that go
\* on with NUL behind a key when keys contain NUL, see NulWordsAreRefused.
THEOREM OthersRefused == BuilderSpec => []OthersAreRefused
<1>1. BuilderInv /\ WordsInv /\ AllClosed => OthersAreRefused
  BY SettledOthers DEF OthersAreRefused, Settled
<1> QED
  BY <1>1, WordsInvariant, PTL
=============================================================================

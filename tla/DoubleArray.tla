---------------------------- MODULE DoubleArray ----------------------------
(***************************************************************************)
(* xcdat::trie_builder, which lays a trie out in a double array: the unit  *)
(* of a child is BASE of its parent, exclusive or the code of a character, *)
(* and CHECK of the child is the parent.                                   *)
(*                                                                         *)
(* The builder keeps the unused units in a doubly linked list through BASE *)
(* and CHECK, with unit 1 (taboo_npos) as its head, and appends the units  *)
(* in blocks; blocks far behind are closed, so that no search visits them. *)
(* arrange() calls itself for every child; each call is a step here and    *)
(* calls holds those not made yet: of these the one of the first keys is   *)
(* the next, as the calls go down before they go on.                       *)
(***************************************************************************)
EXTENDS TailVector

CONSTANTS
    BlockSize,        \* the units of a block and the character codes: 256
    XorLow,           \* the exclusive or of two codes
    FreeBlocks,       \* free_blocks: 16
    KeyLists          \* the lists of keys to build from

VARIABLES
    keys,        \* m_keys
    code,        \* m_table: the code of each character
    arr,         \* m_units, m_useds and m_heads
    leaves,      \* m_leaves
    terms,       \* m_terms
    suffixes,    \* m_suffixes before complete()
    calls,       \* the calls of arrange to come
    tvec         \* m_suffixes after complete()

builderVars == <<keys, code, arr, leaves, terms, suffixes, calls, tvec>>

Chars == 0 .. BlockSize - 1
taboo_npos == 1

ASSUME BlockAssumption == BlockSize \in Nat \ {0, 1} /\ FreeBlocks \in Nat \ {0}

ASSUME XorAssumption ==
    /\ XorLow \in [Chars \X Chars -> Chars]
    /\ \A c, d \in Chars : XorLow[<<XorLow[<<c, d>>], d>>] = c /\ XorLow[<<c, d>>] = XorLow[<<d, c>>]

\* The caller passes sorted, unique keys; the constructor throws otherwise.
ASSUME KeyAssumption ==
    \A ks \in KeyLists :
        /\ ks \in Seq(Seq(Chars) \ {<<>>}) /\ ks # <<>>
        /\ \A i, j \in 1 .. Len(ks) : i < j => LexLess(ks[i], ks[j])

NotBuilt == [ready |-> FALSE]
Alphabet == UNION {ToSet(keys[i]) : i \in DOMAIN keys}
bin_mode == NUL \in Alphabet

\* The codes go by falling frequency; std::sort orders equal frequencies anyhow.
Codes(ks) ==
    LET freq == [ch \in Chars |-> MapThenSumSet(LAMBDA k : Cardinality({i \in DOMAIN k : k[i] = ch}), ToSet(ks))]
    IN  {f \in Bijection(Chars, Chars) : \A c, d \in Chars : freq[c] > freq[d] => f[c] < f[d]}

-----------------------------------------------------------------------------
(* The array and the list of its unused units. *)

BlockOf(npos) == npos \div BlockSize

\* Exclusive or with a code changes the place within the block.
Child(base, ch) == BlockOf(base) * BlockSize + XorLow[<<base % BlockSize, code[ch]>>]

\* Mutant: the unit is not marked in m_useds.
UseUnitUnmarked(a, npos) ==
    LET next == a.base[npos]
        prev == a.check[npos]
    IN  [a EXCEPT !.base[prev] = next, !.check[next] = prev]

UseUnit(a, npos) ==
    LET next == a.base[npos]
        prev == a.check[npos]
        lpos == BlockOf(npos)
        head == IF BlockOf(next) = lpos THEN next ELSE taboo_npos
    IN  [size  |-> a.size,
         base  |-> [a.base EXCEPT ![prev] = next],
         check |-> [a.check EXCEPT ![next] = prev],
         useds |-> a.useds \cup {npos},
         heads |-> IF a.heads[lpos] = npos THEN [a.heads EXCEPT ![lpos] = head] ELSE a.heads]

\* A unit of a closed block: off the list, pointing at itself, not in m_useds.
CloseUnit(a, npos) ==
    IF npos \in a.useds THEN a
    ELSE LET used == UseUnit(a, npos)
         IN  [size  |-> used.size,
              base  |-> [used.base EXCEPT ![npos] = npos],
              check |-> [used.check EXCEPT ![npos] = npos],
              useds |-> used.useds \ {npos},
              heads |-> used.heads]

CloseBlock(a, bpos) ==
    LET Closed[n \in 0 .. BlockSize] ==
            IF n = 0 THEN a ELSE CloseUnit(Closed[n - 1], bpos * BlockSize + n - 1)
    IN  [Closed[BlockSize] EXCEPT !.heads[bpos] = taboo_npos]

\* The new units in a list of their own, put behind last.
Appended(a, last) ==
    LET old  == a.size
        next == old + BlockSize
    IN  [size  |-> next,
         base  |-> [i \in 0 .. next - 1 |-> IF i = next - 1 THEN taboo_npos
                                            ELSE IF i >= old THEN i + 1
                                            ELSE IF i = last THEN old ELSE a.base[i]],
         check |-> [i \in 0 .. next - 1 |-> IF i = taboo_npos THEN next - 1
                                            ELSE IF i = old THEN last
                                            ELSE IF i > old THEN i - 1 ELSE a.check[i]],
         useds |-> a.useds,
         heads |-> [b \in 0 .. BlockOf(old) |-> IF b = BlockOf(old) THEN old ELSE a.heads[b]]]

\* Mutant: the new units are not tied to the last unit of the list.
ExpandUntied(a) == Appended(a, taboo_npos)

\* A block at the end of the list; the block FreeBlocks before it is closed.
Expand(a) ==
    LET more == Appended(a, a.check[taboo_npos])
        bpos == BlockOf(a.size)
    IN  IF bpos >= FreeBlocks THEN CloseBlock(more, bpos - FreeBlocks) ELSE more

\* The array of the constructor: one block, units 0 and 1 taken.
FirstArray ==
    LET last  == BlockSize - 1
        fresh == [size  |-> BlockSize,
                  base  |-> [i \in 0 .. last |-> IF i = last THEN 0 ELSE i + 1],
                  check |-> [i \in 0 .. last |-> IF i = 0 THEN last ELSE i - 1],
                  useds |-> {},
                  heads |-> [b \in {0} |-> 0]]
        root  == UseUnit(fresh, 0)
    IN  [size  |-> root.size,
         base  |-> root.base,
         check |-> [root.check EXCEPT ![0] = taboo_npos],
         useds |-> root.useds \cup {taboo_npos},
         heads |-> [root.heads EXCEPT ![0] = root.base[taboo_npos]]]

-----------------------------------------------------------------------------
(* arrange() *)

Key(i) == keys[i + 1]
EndsHere(c) == Len(Key(c.beg)) = c.kpos
Edges(c, beg) == {Key(i)[c.kpos + 1] : i \in beg .. c.end - 1}

\* The loop along the list from start: until a unit fits or is not in within.
FirstFit(a, start, within, fits) ==
    LET Seek[n \in 0 .. a.size] ==
            IF n = 0 THEN start
            ELSE LET i == Seek[n - 1] IN IF i \in within \ fits THEN a.base[i] ELSE i
        end == Seek[a.size]
    IN  IF end \in within \cap fits THEN end ELSE taboo_npos

\* Mutant: only the first and the last edge are looked at.
XcheckEnds(a, lpos, edges) ==
    LET first == Min(edges)
        open  == (0 .. a.size - 1) \ {taboo_npos}
        fits  == {i \in open : \A ch \in {first, Max(edges)} : Child(Child(i, first), ch) \notin a.useds}
        hit   == FirstFit(a, a.base[taboo_npos], open, fits)
    IN  Child(IF hit = taboo_npos THEN a.size ELSE hit, first)

\* The first base whose units are unused: in the block of the parent, then along
\* the whole list; else one in the block that Expand will add.
Xcheck(a, lpos, edges) ==
    LET first == Min(edges)
        open  == (0 .. a.size - 1) \ {taboo_npos}
        fits  == {i \in open : \A ch \in edges : Child(Child(i, first), ch) \notin a.useds}
        near  == FirstFit(a, a.heads[lpos], {i \in open : BlockOf(i) = lpos}, fits)
        far   == FirstFit(a, a.base[taboo_npos], open, fits)
        hit   == IF a.base[taboo_npos] = taboo_npos THEN taboo_npos
                 ELSE IF near # taboo_npos THEN near ELSE far
    IN  Child(IF hit = taboo_npos THEN a.size ELSE hit, first)

\* The units of the edges are taken, by rising character, and point to their parent.
Tied(a, base, edges, parent) ==
    LET Take(b, npos) == [UseUnit(b, npos) EXCEPT !.check[npos] = parent]
        Ties[n \in 0 .. BlockSize] ==
            IF n = 0 THEN a
            ELSE IF n - 1 \in edges THEN Take(Ties[n - 1], Child(base, n - 1)) ELSE Ties[n - 1]
    IN  Ties[BlockSize]

Init ==
    /\ keys \in KeyLists
    /\ code \in Codes(keys)
    /\ arr = FirstArray
    /\ leaves = {}
    /\ terms = {}
    /\ suffixes = {}
    /\ calls = {[beg |-> 0, end |-> Len(keys), kpos |-> 0, npos |-> 0]}
    /\ tvec = NotBuilt

IsNextCall(c) == \A d \in calls : c.beg <= d.beg

\* The last key of the range ends at the node: a leaf with the empty suffix.
ArrangeEnd(c) ==
    /\ IsNextCall(c)
    /\ EndsHere(c) /\ c.beg + 1 = c.end
    /\ arr' = [arr EXCEPT !.base[c.npos] = 0]
    /\ leaves' = leaves \cup {c.npos}
    /\ terms' = terms \cup {c.npos}
    /\ calls' = calls \ {c}
    /\ UNCHANGED <<keys, code, suffixes, tvec>>

\* A single key goes on: its suffix goes to the tail.
ArrangeSuffix(c) ==
    /\ IsNextCall(c)
    /\ ~EndsHere(c) /\ c.beg + 1 = c.end
    /\ leaves' = leaves \cup {c.npos}
    /\ terms' = terms \cup {c.npos}
    /\ suffixes' = suffixes \cup {[str |-> SubSeq(Key(c.beg), c.kpos + 1, Len(Key(c.beg))), npos |-> c.npos]}
    /\ calls' = calls \ {c}
    /\ UNCHANGED <<keys, code, arr, tvec>>

\* The calls for the children at base.
ChildCalls(c, beg, base) ==
    LET With(ch) == {i \in beg .. c.end - 1 : Key(i)[c.kpos + 1] = ch}
    IN  {[beg |-> Min(With(ch)), end |-> Max(With(ch)) + 1, kpos |-> c.kpos + 1, npos |-> Child(base, ch)] :
            ch \in Edges(c, beg)}

\* Several keys go on: units for their first characters, a call for each.
ArrangeNode(c) ==
    /\ IsNextCall(c)
    /\ c.beg + 1 < c.end
    /\ LET beg   == IF EndsHere(c) THEN c.beg + 1 ELSE c.beg
           edges == Edges(c, beg)
           base  == Xcheck(arr, BlockOf(c.npos), edges)
           room  == IF arr.size <= base THEN Expand(arr) ELSE arr
       IN  /\ arr' = Tied([room EXCEPT !.base[c.npos] = base], base, edges, c.npos)
           /\ calls' = (calls \ {c}) \cup ChildCalls(c, beg, base)
    /\ terms' = IF EndsHere(c) THEN terms \cup {c.npos} ELSE terms
    /\ UNCHANGED <<keys, code, leaves, suffixes, tvec>>

\* One round of finish(): the block of the first unused unit is closed.
FinishBlock ==
    /\ calls = {} /\ ~tvec.ready
    /\ arr.base[taboo_npos] # taboo_npos
    /\ arr' = CloseBlock(arr, BlockOf(arr.base[taboo_npos]))
    /\ UNCHANGED <<keys, code, leaves, terms, suffixes, calls, tvec>>

\* The tail is completed, and its positions become the BASE of their leaves.
CompleteSuffixes ==
    /\ calls = {} /\ ~tvec.ready
    /\ arr.base[taboo_npos] = taboo_npos
    /\ LET done == CompleteTail(suffixes, bin_mode)
       IN  /\ arr' = [arr EXCEPT !.base = [i \in DOMAIN @ |->
                          IF \E s \in suffixes : s.npos = i THEN done.tpos[i] ELSE @[i]]]
           /\ tvec' = [ready |-> TRUE, chars |-> done.chars, ends |-> done.ends, bin |-> done.bin]
    /\ UNCHANGED <<keys, code, leaves, terms, suffixes, calls>>

Arrange == \E c \in calls : ArrangeEnd(c) \/ ArrangeSuffix(c) \/ ArrangeNode(c)

BuilderNext == Arrange \/ FinishBlock \/ CompleteSuffixes

BuilderSpec == Init /\ [][BuilderNext]_builderVars
-----------------------------------------------------------------------------
(* Properties. *)

\* The shapes of the builder's state.
StaticTypeOK ==
    /\ keys \in Seq(Seq(Chars))
    /\ code \in Bijection(Chars, Chars)
    /\ arr.size \in Nat \ {0} /\ arr.size = BlockOf(arr.size) * BlockSize
    /\ arr.base \in [0 .. arr.size - 1 -> Nat] /\ arr.check \in [0 .. arr.size - 1 -> 0 .. arr.size - 1]
    /\ arr.useds \subseteq 0 .. arr.size - 1
    /\ arr.heads \in [0 .. BlockOf(arr.size) - 1 -> 0 .. arr.size - 1]
    /\ leaves \subseteq terms /\ terms \subseteq arr.useds
    /\ \A s \in suffixes : s.str # <<>> /\ s.npos \in leaves

\* The unused units of the open blocks.
FreeUnits == {i \in (0 .. arr.size - 1) \ arr.useds : arr.base[i] # i}

\* Between two calls of arrange the unused units of the open blocks form one
\* list by rising number, linked both ways through taboo_npos, each block knows
\* its first, and a closed block has none: what use_unit, expand and close_block
\* keep, each from its own side.
FreeListSound ==
    LET After(i)  == LET up == {j \in FreeUnits : i = taboo_npos \/ j > i} IN IF up = {} THEN taboo_npos ELSE Min(up)
        Before(i) == LET dn == {j \in FreeUnits : i = taboo_npos \/ j < i} IN IF dn = {} THEN taboo_npos ELSE Max(dn)
        InBlock(b) == {i \in FreeUnits : BlockOf(i) = b}
    IN  /\ \A i \in FreeUnits \cup {taboo_npos} : arr.base[i] = After(i) /\ arr.check[i] = Before(i)
        /\ \A b \in DOMAIN arr.heads :
              arr.heads[b] = IF InBlock(b) = {} THEN taboo_npos ELSE Min(InBlock(b))

\* A unit given to a node stays with it: no later arrange, expand or close_block
\* gives it to another node or takes it back, so a path once laid stays.  A unit
\* of a closed block is never given away either.
NodesKeepTheirUnits ==
    [][/\ \A n \in arr.useds : n \in arr'.useds /\ (n # taboo_npos => arr'.check[n] = arr.check[n])
       /\ \A n \in (0 .. arr.size - 1) \ arr.useds :
             arr.check[n] = n => n \notin arr'.useds /\ arr'.base[n] = n /\ arr'.check[n] = n]_arr
=============================================================================

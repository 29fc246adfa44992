----------------------------- MODULE StaticTrie -----------------------------
(***************************************************************************)
(* xcdat::trie, the index of the base segment in the CompactMemory         *)
(* profile: built once from the double array of trie_builder, then asked   *)
(* for keys, for ids and for the keys with a prefix.                       *)
(***************************************************************************)
EXTENDS DoubleArray

VARIABLE bcvec       \* m_bcvec, once built

vars == <<builderVars, bcvec>>

INSTANCE BcVector

ASSUME XorZeroAssumption == XorLow[<<0, 0>>] = 0

\* The trie takes the arrays over when the builder is done.
Complete ==
    /\ CompleteSuffixes
    /\ bcvec' = Encode(arr', leaves)

Next == ((Arrange \/ FinishBlock) /\ UNCHANGED bcvec) \/ Complete

TrieInit == Init /\ bcvec = NotBuilt

Spec == TrieInit /\ [][Next]_vars

-----------------------------------------------------------------------------
(* Queries of the built trie. *)

NotFound == -1

npos_to_id(npos) == Cardinality({t \in terms : t < npos})
id_to_npos(id) == CHOOSE t \in terms : npos_to_id(t) = id

IsLeafNode(npos) == LeafAt(bcvec, npos)
ChildOf(npos, ch) == Child(Base(bcvec, npos), ch)
IsChild(cpos, npos) == Check(bcvec, cpos) = npos

\* Mutant: the parent of the unit is not compared.
DescendUnchecked(at, ch) ==
    IF IsLeafNode(at.npos) THEN at
    ELSE [npos |-> ChildOf(at.npos, ch), kpos |-> at.kpos + 1, lost |-> FALSE]

\* One character further, unless at a leaf or lost already.
Descend(at, ch) ==
    IF at.lost \/ IsLeafNode(at.npos) THEN at
    ELSE IF IsChild(ChildOf(at.npos, ch), at.npos)
         THEN [npos |-> ChildOf(at.npos, ch), kpos |-> at.kpos + 1, lost |-> FALSE]
         ELSE [npos |-> at.npos, kpos |-> at.kpos, lost |-> TRUE]

Reached(key) ==
    LET Steps[n \in 0 .. Len(key)] ==
            IF n = 0 THEN [npos |-> 0, kpos |-> 0, lost |-> FALSE] ELSE Descend(Steps[n - 1], key[n])
    IN  Steps[Len(key)]

Rest(key, at) == SubSeq(key, at.kpos + 1, Len(key))

Lookup(key) ==
    LET at == Reached(key)
        found == /\ ~at.lost
                 /\ IF IsLeafNode(at.npos) THEN Match(tvec, Rest(key, at), Link(bcvec, at.npos))
                    ELSE at.npos \in terms
    IN  IF found THEN npos_to_id(at.npos) ELSE NotFound

CharAt(cd) == CHOOSE ch \in Chars : code[ch] = cd

max_length == Max({Len(keys[i]) : i \in DOMAIN keys})

\* The path from the root, found going up, then the tail of a leaf.  The loop ends
\* at the root, at most max_length rounds up: no path is longer than its key.
Decode(id) ==
    LET npos == id_to_npos(id)
        Parent(at) == Check(bcvec, at.npos)
        Up[n \in 0 .. max_length] ==
            IF n = 0 THEN [npos |-> npos, decoded |-> <<>>]
            ELSE LET at == Up[n - 1]
                     cd == XorLow[<<Base(bcvec, Parent(at)) % BlockSize, at.npos % BlockSize>>]
                 IN  IF at.npos = 0 THEN at
                     ELSE [npos |-> Parent(at), decoded |-> <<CharAt(cd)>> \o at.decoded]
    IN  Up[max_length].decoded \o (IF IsLeafNode(npos) THEN DecodeTail(tvec, Link(bcvec, npos)) ELSE <<>>)

Following(at) == {ch \in Alphabet : ~IsLeafNode(at.npos) /\ IsChild(ChildOf(at.npos, ch), at.npos)}

\* The nodes below npos, each with the characters that lead to it.
Below(npos) ==
    LET Depth[n \in 0 .. max_length] ==
            IF n = 0 THEN {[npos |-> npos, rest |-> <<>>]}
            ELSE UNION {{[npos |-> ChildOf(at.npos, ch), rest |-> Append(at.rest, ch)] : ch \in Following(at)} :
                        at \in Depth[n - 1]}
    IN  UNION {Depth[n] : n \in 0 .. max_length}

EndsAtLeaf(at) == [npos |-> at.npos, rest |-> at.rest \o DecodeTail(tvec, Link(bcvec, at.npos))]

\* Mutant: an inner node is passed over although a key ends there.
KeysUnderLeaves(npos) == {EndsAtLeaf(at) : at \in {at \in Below(npos) : IsLeafNode(at.npos)}}

\* The loop of next_predictive(): the nodes below npos where keys end and what
\* follows npos in them.
KeysUnder(npos) ==
    {EndsAtLeaf(at) : at \in {at \in Below(npos) : IsLeafNode(at.npos)}}
        \cup {at \in Below(npos) : ~IsLeafNode(at.npos) /\ at.npos \in terms}

\* The keys reported for a prefix, as [id, key]; callers put them in order.
PredictiveSearch(prefix) ==
    LET at    == Reached(prefix)
        tpos  == Link(bcvec, at.npos)
        rest  == Rest(prefix, at)
        found == IF at.lost THEN {}
                 ELSE IF rest = <<>> THEN KeysUnder(at.npos)
                 ELSE IF tpos = 0 \/ ~PrefixMatch(tvec, rest, tpos) THEN {}
                 ELSE {[npos |-> at.npos, rest |-> DecodeTail(tvec, tpos)]}
    IN  {[id |-> npos_to_id(k.npos), key |-> SubSeq(prefix, 1, at.kpos) \o k.rest] : k \in found}

-----------------------------------------------------------------------------
(* Properties. *)

CONSTANT Probes      \* the words asked for

ASSUME ProbesAssumption == Probes \subseteq Seq(Chars)

KeySet == ToSet(keys)

\* The ids are 0 .. n - 1, one per key; each key is found under its id and decoded
\* from it, through shared tails, digits of several levels and links: build_lookup
\* relies on it when it fills local_to_global_ from decode().
EveryKeyIsFound ==
    tvec.ready =>
        /\ {Lookup(k) : k \in KeySet} = 0 .. Cardinality(KeySet) - 1
        /\ \A k \in KeySet : Decode(Lookup(k)) = k

\* A word that is no key is not found.  Left out are the words of bin mode that
\* go on with NUL after a key that ends at a leaf, see NulWordsAreRefused.
OtherWordsAreRefused ==
    tvec.ready =>
        \A w \in Probes \ KeySet :
            \/ Lookup(w) = NotFound
            \/ bin_mode /\ \E k \in KeySet : IsStrictPrefix(k \o <<NUL>>, w)

\* A predictive search reports every key with the prefix, under its id;
\* anything else it reports is a key that the prefix extends: where the search ends
\* at a leaf, the tail is compared only as far as both go.
PredictiveFindsItsKeys ==
    tvec.ready =>
        \A w \in Probes :
            LET found == PredictiveSearch(w)
                Entry(k) == [id |-> Lookup(k), key |-> k]
            IN  /\ {Entry(k) : k \in {k \in KeySet : IsPrefix(w, k)}} \subseteq found
                /\ found \subseteq {Entry(k) : k \in {k \in KeySet : IsPrefix(w, k) \/ IsStrictPrefix(k, w)}}

\* What trie.hpp says of lookup in bin mode, "the keywords can contain NULL
\* characters": a word that is no key is not found.
NulWordsAreRefused == tvec.ready => \A w \in Probes \ KeySet : Lookup(w) = NotFound
=============================================================================

------------------------------- MODULE HatTrie -------------------------------
(***************************************************************************)
(* tsl::htrie_map, the delta index of the compact profiles: a trie whose   *)
(* leaves are hash tables.  A node is known by the path of characters that *)
(* leads to it.  A trie node holds the value of the key that ends there, a *)
(* hash node the remaining suffixes of the keys below it.  A hash node     *)
(* that reached the burst threshold is replaced, before the next key goes  *)
(* into it, by a trie node with one hash node per next character; erasing  *)
(* removes the nodes it left empty.                                        *)
(*                                                                         *)
(* insert() is the call that recurses (insert_impl, insert_in_hash_node    *)
(* and burst call each other), so its bursts are steps of their own; every *)
(* other call is one step.  The map has one caller and no call begins      *)
(* before the last one returned.                                           *)
(***************************************************************************)
EXTENDS ArrayHash

CONSTANTS
    Chars,            \* the alphabet, as positive numbers
    Keys,             \* the keys callers use
    Vals,             \* the values they map to
    ValsFor,          \* the values a caller gives to a key
    MaxKeySize,       \* the longest key: 65534 for a 16-bit key size
    BurstThreshold,   \* m_burst_threshold
    MaxBuckets,       \* bound: larger tables are not serialized
    InitBuckets       \* HASH_NODE_DEFAULT_INIT_BUCKETS_COUNT

VARIABLES
    nodes,         \* the tree below m_root, by path
    nb_elements,   \* m_nb_elements
    pending,       \* the insert call in progress, or Idle
    reply          \* the answer of the last call, "none" of one without

vars == <<nodes, nb_elements, pending, reply>>

ASSUME HatTrieAssumption ==
    /\ Chars \subseteq Nat \ {0}
    /\ Keys \subseteq Seq(Chars)
    /\ \A k \in Keys : \A s \in Prefixes(k) : \A i \in 1 .. Len(s) + 1 :
          SubSeq(s, i, Len(s)) \in DOMAIN Hash
    /\ NoValue \notin Vals
    /\ ValsFor \in [Keys -> SUBSET Vals]
    /\ BurstThreshold \in 1 .. MaxIndex
    /\ InitBuckets \in Nat \ {0}

Idle == [key |-> <<0>>, value |-> NoValue]

TrieNode(v) == [kind |-> "trie", value |-> v, table |-> EmptyTable(0)]
HashNode(t) == [kind |-> "hash", value |-> NoValue, table |-> t]

-----------------------------------------------------------------------------
(* The tree ns: where a key leads. *)

IsHash(ns, p) == p \in DOMAIN ns /\ ns[p].kind = "hash"
HasValue(ns, p) == p \in DOMAIN ns /\ ns[p].value # NoValue
Children(ns, p) == {c \in Chars : Append(p, c) \in DOMAIN ns}

SuffixAfter(key, p) == SubSeq(key, Len(p) + 1, Len(key))

\* The descent of insert_impl and find_impl: down to the end of the key, a hash
\* node or a missing child.
Stop(ns, key) ==
    LET Ends(i) == LET p == SubSeq(key, 1, i) IN i = Len(key) \/ p \notin DOMAIN ns \/ IsHash(ns, p)
    IN  SubSeq(key, 1, Min({i \in 0 .. Len(key) : Ends(i)}))

Find(ns, key) ==
    LET p == Stop(ns, key)
    IN  IF p \notin DOMAIN ns THEN NoValue
        ELSE IF IsHash(ns, p) THEN ValueOf(ns[p].table, SuffixAfter(key, p)) ELSE ns[p].value

Contents == [k \in Keys |-> Find(nodes, k)]

-----------------------------------------------------------------------------
(* The iterator: a stop is a trie node with a value or a hash node. *)

EndStop == <<0>>

\* cbegin and set_most_left_descendant_as_next_node: down the first children.
FirstStop(ns, path) ==
    LET IsStop(p) == IsHash(ns, p) \/ HasValue(ns, p)
        Down[n \in Nat] ==
            IF n = 0 THEN path
            ELSE LET p == Down[n - 1] IN IF IsStop(p) THEN p ELSE Append(p, Min(Children(ns, p)))
    IN  Down[Cardinality(DOMAIN ns)]

LaterSiblings(ns, path) == {c \in Children(ns, Front(path)) : c > Last(path)}

\* Mutant: only the parent's next child is tried.
AfterParentOnly(ns, path) ==
    IF path = <<>> \/ LaterSiblings(ns, path) = {} THEN EndStop
    ELSE FirstStop(ns, Append(Front(path), Min(LaterSiblings(ns, path))))

\* cend and set_next_node_ascending: the next sibling of the nearest ancestor
\* that has one.
After(ns, path) ==
    LET climbs == {i \in 1 .. Len(path) : LaterSiblings(ns, SubSeq(path, 1, i)) # {}}
        near   == SubSeq(path, 1, Max(climbs))
    IN  IF climbs = {} THEN EndStop
        ELSE FirstStop(ns, Append(Front(near), Min(LaterSiblings(ns, near))))

NextStop(ns, p) ==
    IF Children(ns, p) = {} THEN After(ns, p)
    ELSE FirstStop(ns, Append(p, Min(Children(ns, p))))

\* The stops from cbegin(path) to cend(path).
StopsBelow(ns, path) ==
    LET end == {After(ns, path), EndStop}
        Visit[n \in Nat] ==
            IF n = 0 THEN <<FirstStop(ns, path)>>
            ELSE LET seen == Visit[n - 1]
                     next == NextStop(ns, Last(seen))
                 IN  IF next \in end THEN seen ELSE Append(seen, next)
    IN  Visit[Cardinality(DOMAIN ns)]

KeysOf(es, p) == [i \in DOMAIN es |-> p \o es[i].key]

KeysAt(ns, p) == IF IsHash(ns, p) THEN KeysOf(Entries(ns[p].table), p) ELSE <<p>>

KeysBelow(ns, path) ==
    LET stops == StopsBelow(ns, path)
    IN  FlattenSeq([i \in DOMAIN stops |-> KeysAt(ns, stops[i])])

\* equal_prefix_range: everything below the prefix; in a hash node reached before
\* the prefix ended, the entries the prefix filter lets through.
PrefixHits(ns, prefix) ==
    LET p  == Stop(ns, prefix)
        es == Entries(ns[p].table)
    IN  IF p \notin DOMAIN ns THEN <<>>
        ELSE IF p = prefix THEN KeysBelow(ns, p)
        ELSE KeysOf(Only[es][{i \in DOMAIN es : IsPrefix(prefix, p \o es[i].key)}], p)

\* The keys that are prefixes of a string: on the way down, then in the hash node.
TrieHits(ns, s) == {p \in Prefixes(Stop(ns, s)) : HasValue(ns, p)}
\* Mutant: the empty suffix is not looked up in the hash node.
HashHitsBelow(ns, s) ==
    LET p == Stop(ns, s)
    IN  {q \in Prefixes(s) \ {p} : IsHash(ns, p) /\ IsPrefix(p, q) /\ Has(ns[p].table, SuffixAfter(q, p))}
HashHits(ns, s) ==
    LET p == Stop(ns, s)
    IN  {q \in Prefixes(s) : IsHash(ns, p) /\ IsPrefix(p, q) /\ Has(ns[p].table, SuffixAfter(q, p))}

\* The prefixes of one string from the shortest to the longest: before the nth come
\* n - 1 shorter ones.
ShortestFirst(hits) ==
    LET Shorter(p) == {q \in hits : Len(q) < Len(p)}
    IN  [n \in 1 .. Cardinality(hits) |-> CHOOSE p \in hits : Cardinality(Shorter(p)) = n - 1]

\* for_each_prefix_of visits them so; longest_prefix is the last of them.
PrefixesOf(ns, s) == ShortestFirst(TrieHits(ns, s)) \o ShortestFirst(HashHits(ns, s))

LongestPrefix(ns, s) ==
    LET hits == IF HashHits(ns, s) # {} THEN HashHits(ns, s) ELSE TrieHits(ns, s)
    IN  IF hits = {} THEN EndStop ELSE Last(ShortestFirst(hits))

-----------------------------------------------------------------------------
(* Changing the tree. *)

SetNode(ns, p, node) == [q \in DOMAIN ns \cup {p} |-> IF q = p THEN node ELSE ns[q]]
\* Mutant: the node goes and its children stay.
CutNodeOnly(ns, p) == [q \in DOMAIN ns \ {p} |-> ns[q]]
CutBelow(ns, p) == [q \in {q \in DOMAIN ns : ~IsPrefix(p, q)} |-> ns[q]]

\* get_hash_node_for_char: the entries of a table with one first character, and
\* the hash node made for them.
EntriesStarting(t, c) ==
    LET es == Entries(t) IN Only[es][{i \in DOMAIN es : es[i].key # <<>> /\ Head(es[i].key) = c}]

NodeFor(t, c) ==
    LET es == EntriesStarting(t, c)
        Pair(e) == [key |-> Tail(e.key), value |-> t.values[e.pos]]
    IN  HashNode(Filled(CeilDiv(Len(es) + InitBuckets \div 2, MaxLoad), [i \in DOMAIN es |-> Pair(es[i])]))

\* Mutant: the value of the key that ends at the node gets lost.
BurstNodesUnvalued(ns, p) ==
    LET new == {Head(e.key) : e \in {e \in ToSet(Entries(ns[p].table)) : e.key # <<>>}}
    IN  [q \in DOMAIN ns \cup {Append(p, c) : c \in new} |->
            IF q = p THEN TrieNode(NoValue)
            ELSE IF q \in DOMAIN ns THEN ns[q] ELSE NodeFor(ns[p].table, Last(q))]

\* burst: a trie node, with a hash node for every first character.  Its table is
\* made large enough for all its entries and filled in the iteration order of the
\* old one.
BurstNodes(ns, p) ==
    LET old == ns[p].table
        new == {Head(e.key) : e \in {e \in ToSet(Entries(old)) : e.key # <<>>}}
    IN  [q \in DOMAIN ns \cup {Append(p, c) : c \in new} |->
            IF q = p THEN TrieNode(ValueOf(old, <<>>))
            ELSE IF q \in DOMAIN ns THEN ns[q] ELSE NodeFor(old, Last(q))]

\* clear_empty_nodes: an empty node goes, and with it every ancestor that held
\* nothing else.
ClearEmptyNodes(ns, path) ==
    LET Topmost(i) ==
            LET p == SubSeq(path, 1, i)
            IN  p = <<>> \/ HasValue(ns, Front(p)) \/ Children(ns, Front(p)) # {Last(p)}
    IN  CutBelow(ns, SubSeq(path, 1, Max({i \in 0 .. Len(path) : Topmost(i)})))

IsEmptyNode(ns, p) ==
    IF IsHash(ns, p) THEN ns[p].table.nb = 0 ELSE ~HasValue(ns, p) /\ Children(ns, p) = {}

Cleaned(ns, p) == IF IsEmptyNode(ns, p) THEN ClearEmptyNodes(ns, p) ELSE ns

-----------------------------------------------------------------------------
Init ==
    /\ nodes = [p \in {} |-> TrieNode(NoValue)]
    /\ nb_elements = 0
    /\ pending = Idle
    /\ reply = "none"

(* insert *)

InsertRefused(k) ==
    /\ pending = Idle
    /\ Len(k) > MaxKeySize
    /\ reply' = "length_error"
    /\ UNCHANGED <<nodes, nb_elements, pending>>

InsertCalled(k, v) ==
    /\ pending = Idle
    /\ Len(k) <= MaxKeySize
    /\ pending' = [key |-> k, value |-> v]
    /\ reply' = "none"
    /\ UNCHANGED <<nodes, nb_elements>>

Place == Stop(nodes, pending.key)
NeedBurst(p) == IsHash(nodes, p) /\ nodes[p].table.nb >= BurstThreshold

\* Mutant: the new trie node is built and never hung into its parent.
BurstNotAttached ==
    /\ pending # Idle
    /\ NeedBurst(Place)
    /\ UNCHANGED vars

\* A full table bursts even when the key is in it; the search goes on below it.
Burst ==
    /\ pending # Idle
    /\ NeedBurst(Place)
    /\ nodes' = BurstNodes(nodes, Place)
    /\ UNCHANGED <<nb_elements, pending, reply>>

Returns(kind, n) ==
    /\ pending' = Idle
    /\ reply' = kind
    /\ nb_elements' = nb_elements + n

InsertNewLeaf ==
    /\ pending # Idle
    /\ Place \notin DOMAIN nodes
    /\ nodes' = SetNode(nodes, Place, HashNode(Emplace(EmptyTable(InitBuckets),
                            SuffixAfter(pending.key, Place), pending.value)))
    /\ Returns("inserted", 1)

InsertValueNode ==
    /\ pending # Idle
    /\ Place \in DOMAIN nodes /\ ~IsHash(nodes, Place) /\ ~HasValue(nodes, Place)
    /\ nodes' = SetNode(nodes, Place, TrieNode(pending.value))
    /\ Returns("inserted", 1)

\* The table throws length_error when all its positions hold live values.
InsertIntoTable ==
    LET t      == nodes[Place].table
        suffix == SuffixAfter(pending.key, Place)
    IN  /\ pending # Idle
        /\ IsHash(nodes, Place) /\ ~NeedBurst(Place)
        /\ ~Has(t, suffix)
        /\ nodes' = SetNode(nodes, Place, HashNode(IF IndexFull(t) THEN WithRoom(t)
                                                   ELSE Emplace(t, suffix, pending.value)))
        /\ IF IndexFull(t) THEN Returns("overflow", 0) ELSE Returns("inserted", 1)

InsertPresent ==
    /\ pending # Idle
    /\ ~NeedBurst(Place)
    /\ Find(nodes, pending.key) # NoValue
    /\ nodes' = nodes
    /\ Returns("nothing", 0)

InsertStep == Burst \/ InsertNewLeaf \/ InsertValueNode \/ InsertIntoTable \/ InsertPresent

(* The calls that are one step. *)

Calls(kind) ==
    /\ pending = Idle
    /\ pending' = pending
    /\ reply' = kind

\* it.value() = v on the iterator find() returned.
Assign(k, v) ==
    LET p == Stop(nodes, k)
    IN  /\ Calls("none")
        /\ Find(nodes, k) # NoValue
        /\ nodes' = SetNode(nodes, p, IF IsHash(nodes, p)
                        THEN HashNode(SetValue(nodes[p].table, SuffixAfter(k, p), v))
                        ELSE TrieNode(v))
        /\ UNCHANGED nb_elements

\* Mutant: the emptied node stays where it was.
EraseKeepsNode(k) ==
    LET p == Stop(nodes, k)
    IN  /\ Calls("erased")
        /\ Find(nodes, k) # NoValue
        /\ nodes' = SetNode(nodes, p, IF IsHash(nodes, p)
                        THEN HashNode(EraseKey(nodes[p].table, SuffixAfter(k, p)))
                        ELSE TrieNode(NoValue))
        /\ nb_elements' = nb_elements - 1

Erase(k) ==
    LET p    == Stop(nodes, k)
        node == IF IsHash(nodes, p) THEN HashNode(EraseKey(nodes[p].table, SuffixAfter(k, p)))
                ELSE TrieNode(NoValue)
    IN  /\ Calls("erased")
        /\ Find(nodes, k) # NoValue
        /\ nodes' = Cleaned(SetNode(nodes, p, node), p)
        /\ nb_elements' = nb_elements - 1

EraseMisses(k) ==
    /\ Calls("nothing")
    /\ Find(nodes, k) = NoValue
    /\ UNCHANGED <<nodes, nb_elements>>

\* Below a trie or hash node where the prefix ends, everything goes at once.
ErasePrefixSubtree(prefix) ==
    LET hits == KeysBelow(nodes, prefix)
        cut  == CutBelow(nodes, prefix)
    IN  /\ Stop(nodes, prefix) = prefix /\ prefix \in DOMAIN nodes
        /\ Calls("erased")
        /\ nodes' = IF prefix = <<>> THEN cut
                    ELSE IF IsHash(nodes, prefix) THEN ClearEmptyNodes(nodes, prefix)
                    ELSE Cleaned(cut, Front(prefix))
        /\ nb_elements' = nb_elements - Len(hits)

\* The table of p after keys went, one after the other.
WithoutKeys(t, keys, p) ==
    LET Left[n \in 0 .. Len(keys)] ==
            IF n = 0 THEN t ELSE EraseKey(Left[n - 1], SuffixAfter(keys[n], p))
    IN  Left[Len(keys)]

\* In a hash node above it, the entries with the prefix go one by one.
ErasePrefixInTable(prefix) ==
    LET p    == Stop(nodes, prefix)
        hits == PrefixHits(nodes, prefix)
    IN  /\ Calls(IF hits = <<>> THEN "nothing" ELSE "erased")
        /\ p # prefix /\ IsHash(nodes, p)
        /\ nodes' = Cleaned(SetNode(nodes, p, HashNode(WithoutKeys(nodes[p].table, hits, p))), p)
        /\ nb_elements' = nb_elements - Len(hits)

ErasePrefixMisses(prefix) ==
    /\ Calls("nothing")
    /\ Stop(nodes, prefix) \notin DOMAIN nodes
    /\ UNCHANGED <<nodes, nb_elements>>

Clear ==
    /\ Calls("none")
    /\ nodes' = [p \in {} |-> TrieNode(NoValue)]
    /\ nb_elements' = 0

ShrinkAll ==
    /\ Calls("none")
    /\ nodes' = [p \in DOMAIN nodes |->
                    IF IsHash(nodes, p) THEN HashNode(ShrinkToFit(nodes[p].table)) ELSE nodes[p]]
    /\ UNCHANGED nb_elements

\* serialize() writes the stops; deserialize() grows the trie nodes above them
\* again.
Reloaded(ns) ==
    LET stops == IF <<>> \in DOMAIN ns THEN ToSet(StopsBelow(ns, <<>>)) ELSE {}
    IN  [p \in UNION {Prefixes(s) : s \in stops} |->
            IF IsHash(ns, p) THEN HashNode(Deserialized(ns[p].table)) ELSE TrieNode(ns[p].value)]

Reload ==
    /\ Calls("none")
    /\ \A p \in DOMAIN nodes : Len(nodes[p].table.buckets) <= MaxBuckets
    /\ nodes' = Reloaded(nodes)
    /\ UNCHANGED nb_elements

ShortKeys == {k \in Keys : Len(k) <= MaxKeySize}
PrefixArgs == UNION {Prefixes(k) : k \in ShortKeys}

Next ==
    \/ \E k \in Keys : InsertRefused(k)
    \/ \E k \in Keys : \E v \in ValsFor[k] : InsertCalled(k, v)
    \/ InsertStep
    \/ \E k \in ShortKeys : \E v \in ValsFor[k] : Assign(k, v)
    \/ \E k \in ShortKeys : Erase(k) \/ EraseMisses(k)
    \/ \E prefix \in PrefixArgs :
           ErasePrefixSubtree(prefix) \/ ErasePrefixInTable(prefix) \/ ErasePrefixMisses(prefix)
    \/ Clear \/ ShrinkAll \/ Reload

\* A call that began runs on by itself until it returns.
Spec == Init /\ [][Next]_vars /\ WF_vars(InsertStep)

-----------------------------------------------------------------------------
(* The properties. *)

\* Every variable has its type: the tree is closed under parents and only trie
\* nodes have children.
TypeOK ==
    /\ \A p \in DOMAIN nodes :
          /\ p \in Seq(Chars)
          /\ nodes[p].kind \in {"trie", "hash"}
          /\ nodes[p].value \in Vals \cup {NoValue}
          /\ p # <<>> => Front(p) \in DOMAIN nodes /\ ~IsHash(nodes, Front(p))
    /\ nb_elements \in Int
    /\ pending \in [key : Keys, value : Vals] \cup {Idle}

\* No node is empty, through bursts, erasures up the tree and erase_prefix: the
\* iterators walk down to the first child and read a table's first entry unasked.
NoEmptyNodes == \A p \in DOMAIN nodes : ~IsEmptyNode(nodes, p)

\* Every table of the tree is sound: keys once and in their buckets, positions of
\* their own, whatever values lay around when it was squeezed, rehashed or burst.
TablesSound == \A p \in DOMAIN nodes : IsHash(nodes, p) => TableSound(nodes[p].table)

\* size() counts the keys, and no hash node runs out of positions before it bursts.
SizeIsExact ==
    /\ nb_elements = Cardinality({k \in Keys : Contents[k] # NoValue})
    /\ reply # "overflow"

\* equal_prefix_range yields every key with the prefix, each once: the iterator
\* leaves the subtree of the prefix nowhere else than at its end.
PrefixRangeIsExact ==
    pending = Idle => \A prefix \in PrefixArgs :
        LET hits == PrefixHits(nodes, prefix)
        IN  /\ ToSet(hits) = {k \in Keys : Contents[k] # NoValue /\ IsPrefix(prefix, k)}
            /\ Len(hits) = Cardinality(ToSet(hits))

\* for_each_prefix_of and longest_prefix see the values passed on the way down and
\* those in the hash node at its end.
PrefixesAreFound ==
    pending = Idle => \A s \in ShortKeys :
        LET live == {k \in Keys : Contents[k] # NoValue /\ IsPrefix(k, s)}
        IN  /\ PrefixesOf(nodes, s) = ShortestFirst(live)
            /\ LongestPrefix(nodes, s) = IF live = {} THEN EndStop ELSE Last(ShortestFirst(live))

\* Bursts, moves and rehashes neither lose nor change a value, and calls answer
\* like a map.
Map == INSTANCE AbstractMap WITH contents <- Contents, answer <- reply
ImplementsMap == Map!Spec

\* Every insert returns: its bursts end, although a burst may leave all entries in
\* one node that is full again.
InsertReturns == pending # Idle ~> pending = Idle
=============================================================================

------------------------------ MODULE Segments ------------------------------
(***************************************************************************)
(* The two storage segments of a StringBimap, as operators on records.     *)
(*                                                                         *)
(* A segment keeps an entry table (id to string), an index (string to id)  *)
(* and a counter of live entries, all updated separately by the code.  The *)
(* base segment is rebuilt whole from a list of items; the delta segment   *)
(* takes insertions and erasures.  Strings are opaque values and every     *)
(* string costs one unit of its arena; ArenaCap stands for the 32-bit      *)
(* offset limit.  Every optional backend (xcdat, marisa, hat-trie,         *)
(* array-hash) is compiled in.                                             *)
(***************************************************************************)
EXTENDS Integers, FiniteSets

CONSTANTS
    Values,       \* the non-empty strings a caller may store
    LongValues,   \* those of more than 65534 characters
    NoString,     \* an entry that is not live()
    kInvalidId,   \* the id that is never given out, and a missing index slot
    ArenaCap,     \* how many strings fit one PackedStringArena
    Profile       \* the BackendProfile the dictionary was built with

Profiles == {"FastLookup", "FastLookupArrayMap", "CompactMemory",
             "CompactMemoryMarisa", "CompactMemoryMarisaArrayMap"}

ASSUME SegmentAssumption ==
    /\ NoString \notin Values
    /\ LongValues \subseteq Values
    /\ kInvalidId \in Nat
    /\ ArenaCap \in Nat
    /\ Profile \in Profiles

Ids == 0 .. kInvalidId - 1

Entries == [Ids -> Values \cup {NoString}]
Indexes == [Values -> Ids \cup {kInvalidId}]
BaseSegment  == [entries : Entries, index : Indexes, live : Nat, trie : BOOLEAN]
DeltaSegment == [entries : Entries, index : Indexes, live : Nat, used : Nat]

Present(entries) == {i \in Ids : entries[i] # NoString}

\* A static trie serves the base lookups, a hat-trie serves the delta's.
UsesBaseTrie == Profile \in {"CompactMemory", "CompactMemoryMarisa",
                             "CompactMemoryMarisaArrayMap"}
UsesDeltaTrie == Profile \in {"CompactMemory", "CompactMemoryMarisa"}

\* The strings whose size the delta index cannot store: hat-trie and array-hash
\* keep it in 16 bits, with one value for the end of a bucket.
IndexRefuses == IF Profile = "FastLookup" THEN {} ELSE LongValues

-----------------------------------------------------------------------------
(* The base segment. *)

NoEntries == [i \in Ids |-> NoString]
NoIndex == [v \in Values |-> kInvalidId]
EmptyBase == [entries |-> NoEntries, index |-> NoIndex, live |-> 0, trie |-> FALSE]

\* Insert-or-assign in increasing id order: the largest id of a string wins.
IndexOf(items) ==
    [v \in Values |->
        IF \E i \in Ids : items[i] = v
        THEN CHOOSE i \in Ids : items[i] = v /\ \A j \in Ids : items[j] = v => j <= i
        ELSE kInvalidId]

RebuildFits(items) == Cardinality(Present(items)) <= ArenaCap

\* rebuild(items): storage, then the lookup structure of the profile.
Rebuilt(items) ==
    [entries |-> items,
     index   |-> IndexOf(items),
     live    |-> Cardinality(Present(items)),
     trie    |-> UsesBaseTrie /\ Present(items) # {}]

\* Mutant: the items are appended newest first.
AppendedNewestFirst(items) ==
    {i \in Present(items) : Cardinality({j \in Present(items) : j > i}) < ArenaCap}

\* The items appended, in id order, before the arena overflows.
AppendedBeforeOverflow(items) ==
    {i \in Present(items) : Cardinality({j \in Present(items) : j < i}) < ArenaCap}

\* rebuild(items) that throws inside rebuild_storage: the old storage is gone,
\* the first items are in, and build_lookup never runs.
RebuildAborted(b, items) ==
    [b EXCEPT !.entries = [i \in Ids |-> IF i \in AppendedBeforeOverflow(items)
                                         THEN items[i] ELSE NoString],
              !.live    = ArenaCap]

\* The ids base_.for_each_with_prefix reports when P are the strings with the prefix.
BaseMatches(b, P) ==
    IF b.trie THEN {b.index[v] : v \in P} \ {kInvalidId}
              ELSE {i \in Ids : b.entries[i] \in P}

-----------------------------------------------------------------------------
(* The delta segment. *)

EmptyDelta == [entries |-> NoEntries, index |-> NoIndex, live |-> 0, used |-> 0]

DeltaFull(d) == d.used >= ArenaCap

DeltaInsert(d, id, v) ==
    [entries |-> [d.entries EXCEPT ![id] = v],
     index   |-> [d.index EXCEPT ![v] = id],
     live    |-> d.live + 1,
     used    |-> d.used + 1]

\* The index throws: the entry and its bytes are there, the rest is not reached.
DeltaInsertUnindexed(d, id, v) ==
    [d EXCEPT !.entries = [d.entries EXCEPT ![id] = v], !.used = d.used + 1]

\* Frees the index slot only when it still names this id; the arena keeps the bytes.
DeltaErase(d, id) ==
    [d EXCEPT !.entries = [d.entries EXCEPT ![id] = NoString],
              !.index   = [v \in Values |-> IF v = d.entries[id] /\ d.index[v] = id
                                            THEN kInvalidId ELSE d.index[v]],
              !.live    = d.live - 1]

\* The index a delta table gets when it is loaded.  Its entries are inserted in
\* increasing id order; hat-trie and array-hash keep what they hold, so of the ids
\* that share a string they name the smallest, the standard map the largest.
FirstIndexOf(items) ==
    [v \in Values |->
        IF \E i \in Ids : items[i] = v
        THEN CHOOSE i \in Ids : items[i] = v /\ \A j \in Ids : items[j] = v => i <= j
        ELSE kInvalidId]

DeltaIndexOf(items) ==
    IF Profile = "FastLookup" THEN IndexOf(items) ELSE FirstIndexOf(items)

DeltaMatches(d, P) ==
    IF UsesDeltaTrie THEN {d.index[v] : v \in P} \cap Present(d.entries)
                     ELSE {i \in Ids : d.entries[i] \in P}
=============================================================================

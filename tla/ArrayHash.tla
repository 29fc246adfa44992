------------------------------ MODULE ArrayHash ------------------------------
(***************************************************************************)
(* The table of tsl::array_hash, as operators on records: the map behind   *)
(* tsl::array_map (the delta index of the array-map profiles) and the hash *)
(* nodes of the hat-trie.                                                  *)
(*                                                                         *)
(* A bucket is a packed list of keys, each with a position in one common   *)
(* vector of values.  Erasing removes the key and leaves the value behind; *)
(* left-over values are squeezed out, and positions renumbered, only when  *)
(* they have become too many.  Keys are sequences of characters; buffers,  *)
(* allocation and the width of the key size field are left out.            *)
(***************************************************************************)
EXTENDS Integers, FiniteSets, Sequences, SequencesExt, FiniteSetsExt

CONSTANTS
    Hash,           \* the hash of every key and every suffix of a key
    MaxLoad,        \* m_max_load_factor, a whole number here
    GrowthFactor,   \* of power_of_two_growth_policy
    MaxIndex,       \* the largest IndexSizeT: how many values a table may hold
    NoValue         \* the answer for a key that is not there

ASSUME ArrayHashAssumption ==
    /\ Hash \in [DOMAIN Hash -> Nat]
    /\ MaxLoad \in Nat \ {0}
    /\ GrowthFactor \in {2, 4}
    /\ MaxIndex \in Nat \ {0}

(* The growth policy: power_of_two_growth_policy. *)

PowerOfTwo[k \in Nat] == IF k = 0 THEN 1 ELSE 2 * PowerOfTwo[k - 1]

RoundUp(n) == IF n = 0 THEN 0 ELSE Min({p \in {PowerOfTwo[k] : k \in 0 .. n} : p >= n})

NextBucketCount(n) == (IF n = 0 THEN 1 ELSE n) * GrowthFactor

BucketFor(k, n) == (Hash[k] % n) + 1

CeilDiv(a, b) == (a + b - 1) \div b

\* A key of a bucket and the position of its value.
Entry == [key : DOMAIN Hash, pos : Nat]

\* What a loop over entries, letting the positions in I through, took after n rounds.
Taken(es, I) ==
    LET Upto[n \in 0 .. Len(es)] ==
            IF n = 0 THEN <<>> ELSE IF n \in I THEN Append(Upto[n - 1], es[n]) ELSE Upto[n - 1]
    IN  Upto

Only[es \in Seq(Entry)] == [I \in SUBSET Nat |-> Taken(es, I)[Len(es)]]

-----------------------------------------------------------------------------
EmptyTable(n) ==
    [buckets   |-> [b \in 1 .. RoundUp(n) |-> <<>>],
     values    |-> <<>>,
     nb        |-> 0,
     threshold |-> RoundUp(n) * MaxLoad]

\* Entries appended, one after the other, to the buckets they belong to.
Bucketed[es \in Seq(Entry)] ==
    [n \in Nat |-> [b \in 1 .. n |-> Only[es][{i \in DOMAIN es : BucketFor(es[i].key, n) = b}]]]

\* A table of n buckets after the insertion of pairs it has room for.
Filled(n, pairs) ==
    LET entries == [i \in DOMAIN pairs |-> [key |-> pairs[i].key, pos |-> i]]
    IN  [buckets   |-> Bucketed[entries][RoundUp(n)],
         values    |-> [i \in DOMAIN pairs |-> pairs[i].value],
         nb        |-> Len(pairs),
         threshold |-> RoundUp(n) * MaxLoad]

\* What an iterator visits from begin() to end(), in that order.
Entries(t) == FlattenSeq(t.buckets)

\* The entries of a key: at most one, in the bucket its hash names.  A table
\* without buckets looks into the static empty bucket.
EntriesOf(t, k) ==
    IF t.buckets = <<>> THEN {}
    ELSE {e \in ToSet(t.buckets[BucketFor(k, Len(t.buckets))]) : e.key = k}

Has(t, k) == EntriesOf(t, k) # {}

ValueOf(t, k) ==
    IF Has(t, k) THEN t.values[(CHOOSE e \in EntriesOf(t, k) : TRUE).pos] ELSE NoValue

\* it.value() = v on the iterator of a key that is there.
SetValue(t, k, v) ==
    [t EXCEPT !.values[(CHOOSE e \in EntriesOf(t, k) : TRUE).pos] = v]

-----------------------------------------------------------------------------
(* Values whose key is gone. *)

ShouldClear(t, percent) == t.values # <<>> /\ t.nb * 100 < percent * Len(t.values)

\* Keeps the values some key still names and numbers them in iteration order.
Squeezed(t) ==
    LET es == Entries(t)
        Rank(e) == CHOOSE i \in DOMAIN es : es[i] = e
        Renumbered(bucket) == [i \in DOMAIN bucket |-> [bucket[i] EXCEPT !.pos = Rank(bucket[i])]]
    IN  [t EXCEPT !.values  = [i \in DOMAIN es |-> t.values[es[i].pos]],
                  !.buckets = [b \in DOMAIN t.buckets |-> Renumbered(t.buckets[b])]]

ClearOldErased(t) == IF t.nb = Len(t.values) THEN t ELSE Squeezed(t)

-----------------------------------------------------------------------------
(* Rehashing: the entries move in iteration order and keep their positions. *)

\* Mutant: the entries keep their buckets, the new ones stay empty.
RehashKeepsBuckets(t, count) ==
    [t EXCEPT !.buckets = [b \in 1 .. RoundUp(count) |->
                              IF b \in DOMAIN t.buckets THEN t.buckets[b] ELSE <<>>],
              !.threshold = RoundUp(count) * MaxLoad]

Rehash(t, count) ==
    LET n  == RoundUp(count)
        u  == IF ShouldClear(t, 90) THEN ClearOldErased(t) ELSE t
    IN  IF n = Len(t.buckets) THEN t
        ELSE [u EXCEPT !.buckets = Bucketed[Entries(u)][n], !.threshold = n * MaxLoad]

GrowOnHighLoad(t) ==
    IF t.nb >= t.threshold THEN Rehash(t, NextBucketCount(Len(t.buckets))) ELSE t

ShrinkToFit(t) == Rehash(ClearOldErased(t), CeilDiv(t.nb, MaxLoad))

-----------------------------------------------------------------------------
(* Insertion and erasure. *)

\* Mutant: left-over values are not squeezed out when the positions run out.
WithRoomUncleared(t) == GrowOnHighLoad(t)

\* The table emplace appends to: grown, and squeezed when the positions ran out.
WithRoom(t) ==
    LET g == GrowOnHighLoad(t)
    IN  IF Len(g.values) >= MaxIndex THEN ClearOldErased(g) ELSE g

\* emplace of an absent key throws when all positions hold values of live keys.
IndexFull(t) == Len(WithRoom(t).values) >= MaxIndex

Appended(t, k, v) ==
    [t EXCEPT !.values = Append(@, v),
              !.buckets[BucketFor(k, Len(t.buckets))] = Append(@, [key |-> k, pos |-> Len(t.values) + 1]),
              !.nb = @ + 1]

Emplace(t, k, v) == Appended(WithRoom(t), k, v)

\* The threshold is tested before the key goes.  The value stays in its place;
\* as nothing may read it again it becomes NoValue here.
EraseKey(t, k) ==
    LET u    == IF ShouldClear(t, 60) THEN ClearOldErased(t) ELSE t
        gone == CHOOSE e \in EntriesOf(u, k) : TRUE
    IN  [u EXCEPT !.buckets[BucketFor(k, Len(u.buckets))] = Only[@][{i \in DOMAIN @ : @[i].key # k}],
                  !.values[gone.pos] = NoValue,
                  !.nb = @ - 1]

-----------------------------------------------------------------------------
(* serialize() writes buckets and live values; deserialize() numbers the    *)
(* values anew and, calling max_load_factor() while it has no buckets yet,  *)
(* comes out with a load threshold of 0: the next insertion grows the table *)
(* whatever its load.                                                       *)
Deserialized(t) == [Squeezed(t) EXCEPT !.threshold = 0]

-----------------------------------------------------------------------------
(* What makes a table usable: every key once, in the bucket its hash names, *)
(* with a position of its own that holds a value.                           *)
KeysInTheirBuckets(t) ==
    \A b \in DOMAIN t.buckets : \A e \in ToSet(t.buckets[b]) :
        BucketFor(e.key, Len(t.buckets)) = b

PositionsAreOwn(t) ==
    LET es == Entries(t)
    IN  \A i, j \in DOMAIN es :
            es[i].pos \in DOMAIN t.values /\ (i # j => es[i].key # es[j].key /\ es[i].pos # es[j].pos)

TableSound(t) ==
    /\ KeysInTheirBuckets(t) /\ PositionsAreOwn(t)
    /\ t.nb = Len(Entries(t))
    /\ t.nb <= t.threshold \/ t.threshold = 0
    /\ Len(t.values) <= MaxIndex
    /\ Len(t.buckets) = RoundUp(Len(t.buckets))
=============================================================================

----------------------------- MODULE StringBimap -----------------------------
(***************************************************************************)
(* The in-memory dictionary of string_bimap.hpp: a static base segment, a  *)
(* mutable delta segment, a tombstone set that hides erased base entries,  *)
(* and the two counters next_id_ and live_size_ that every operation       *)
(* maintains by hand.  The class is not thread-safe and has one caller, so *)
(* an operation is one step; what an exception leaves behind is a step of  *)
(* its own (InsertOverflowsArena, CompactAborts, ReloadAborts).            *)
(***************************************************************************)
EXTENDS Segments

CONSTANT Policies   \* the CompactionPolicy values callers use, fractions in percent

VARIABLES
    base,         \* base_
    delta,        \* delta_
    tombstones,   \* tombstones_, as the set of ids it contains
    next_id,      \* next_id_
    live_size,    \* live_size_
    reply         \* what the last call returned or threw

vars == <<base, delta, tombstones, next_id, live_size, reply>>

Policy == [min_delta_ids : Nat, max_delta_percent : Nat, min_tombstone_ids : Nat,
           max_tombstone_percent : Nat, min_delta_bytes : Nat]

ASSUME PolicyAssumption == Policies \subseteq Policy

Reply(kind, id) == [kind |-> kind, id |-> id]

-----------------------------------------------------------------------------
(* The queries. *)

\* An index slot counts only if it is filled and its id is not tombstoned.
Visible(id) == id # kInvalidId /\ id \notin tombstones

\* Mutants: the base hit is not checked against the tombstones; no base lookup.
FindIdIgnoresTombstones(v) ==
    IF Visible(delta.index[v]) THEN delta.index[v] ELSE base.index[v]
FindIdInDeltaOnly(v) == IF Visible(delta.index[v]) THEN delta.index[v] ELSE kInvalidId

FindId(v) ==
    IF Visible(delta.index[v]) THEN delta.index[v]
    ELSE IF Visible(base.index[v]) THEN base.index[v] ELSE kInvalidId

ContainsId(i) ==
    /\ i \in Ids
    /\ i \notin tombstones
    /\ delta.entries[i] # NoString \/ base.entries[i] # NoString

\* try_get_string: NoString where the code answers nullopt.
GetString(i) ==
    IF i \in tombstones THEN NoString
    ELSE IF delta.entries[i] # NoString THEN delta.entries[i] ELSE base.entries[i]

LiveIds == {i \in Ids : ContainsId(i)}
Contents == [i \in Ids |-> GetString(i)]

\* The ids each segment contributes to for_each_with_prefix; the caller sees both
\* lists sorted together, an id in both twice.
BasePrefixUnfiltered(P) == BaseMatches(base, P)   \* mutant: erased strings show up
BasePrefix(P) == BaseMatches(base, P) \ tombstones
DeltaPrefix(P) == DeltaMatches(delta, P) \ tombstones

\* should_compact: the fractions are compared after multiplying out, and a
\* fraction of nothing is 0.
AtLeast(part, whole, percent) ==
    IF whole = 0 THEN percent = 0 ELSE part * 100 >= percent * whole

DeltaBytes == delta.used + 1

ShouldCompact(p) ==
    \/ /\ delta.live >= p.min_delta_ids
       /\ \/ AtLeast(delta.live, live_size, p.max_delta_percent)
          \/ DeltaBytes >= p.min_delta_bytes
    \/ /\ Cardinality(tombstones) >= p.min_tombstone_ids
       /\ AtLeast(Cardinality(tombstones), next_id, p.max_tombstone_percent)

-----------------------------------------------------------------------------
Init ==
    /\ base = EmptyBase
    /\ delta = EmptyDelta
    /\ tombstones = {}
    /\ next_id = 0
    /\ live_size = 0
    /\ reply = Reply("none", kInvalidId)

(* insert *)

InsertKnown(v) ==
    /\ FindId(v) # kInvalidId
    /\ reply' = Reply("id", FindId(v))
    /\ UNCHANGED <<base, delta, tombstones, next_id, live_size>>

\* Mutant: the exhausted id space is not noticed.
InsertNewUnchecked(v) ==
    /\ FindId(v) = kInvalidId
    /\ ~DeltaFull(delta)
    /\ delta' = DeltaInsert(delta, next_id, v)
    /\ next_id' = next_id + 1
    /\ live_size' = live_size + 1
    /\ reply' = Reply("id", next_id)
    /\ UNCHANGED <<base, tombstones>>

InsertNew(v) ==
    /\ FindId(v) = kInvalidId
    /\ next_id # kInvalidId
    /\ ~DeltaFull(delta) /\ v \notin IndexRefuses
    /\ delta' = DeltaInsert(delta, next_id, v)
    /\ next_id' = next_id + 1
    /\ live_size' = live_size + 1
    /\ reply' = Reply("id", next_id)
    /\ UNCHANGED <<base, tombstones>>

\* next_id_ is bumped before the arena throws length_error: the id is a hole.
InsertOverflowsArena(v) ==
    /\ FindId(v) = kInvalidId
    /\ next_id # kInvalidId
    /\ DeltaFull(delta)
    /\ next_id' = next_id + 1
    /\ reply' = Reply("length_error", kInvalidId)
    /\ UNCHANGED <<base, delta, tombstones, live_size>>

\* The delta index throws length_error after the entry was written: both counters
\* stay behind.
InsertOverflowsIndex(v) ==
    /\ FindId(v) = kInvalidId
    /\ next_id # kInvalidId
    /\ ~DeltaFull(delta) /\ v \in IndexRefuses
    /\ delta' = DeltaInsertUnindexed(delta, next_id, v)
    /\ next_id' = next_id + 1
    /\ reply' = Reply("length_error", kInvalidId)
    /\ UNCHANGED <<base, tombstones, live_size>>

InsertOverflowsIds(v) ==
    /\ FindId(v) = kInvalidId
    /\ next_id = kInvalidId
    /\ reply' = Reply("overflow", kInvalidId)
    /\ UNCHANGED <<base, delta, tombstones, next_id, live_size>>

\* The empty string is refused by insert and by erase(value).
EmptyStringRefused ==
    /\ reply' = Reply("ignored", kInvalidId)
    /\ UNCHANGED <<base, delta, tombstones, next_id, live_size>>

(* erase *)

\* Mutants: live_size_ is not decremented; the delta keeps the erased entry.
EraseIdUncounted(i) ==
    /\ ContainsId(i)
    /\ tombstones' = tombstones \cup {i}
    /\ delta' = IF delta.entries[i] # NoString THEN DeltaErase(delta, i) ELSE delta
    /\ reply' = Reply("erased", i)
    /\ UNCHANGED <<base, next_id, live_size>>
EraseIdKeepsDelta(i) ==
    /\ ContainsId(i)
    /\ tombstones' = tombstones \cup {i}
    /\ live_size' = live_size - 1
    /\ reply' = Reply("erased", i)
    /\ UNCHANGED <<base, delta, next_id>>

EraseId(i) ==
    /\ ContainsId(i)
    /\ tombstones' = tombstones \cup {i}
    /\ delta' = IF delta.entries[i] # NoString THEN DeltaErase(delta, i) ELSE delta
    /\ live_size' = live_size - 1
    /\ reply' = Reply("erased", i)
    /\ UNCHANGED <<base, next_id>>

EraseIdMisses(i) ==
    /\ ~ContainsId(i)
    /\ reply' = Reply("absent", kInvalidId)
    /\ UNCHANGED <<base, delta, tombstones, next_id, live_size>>

\* erase(value) is erase(*find_id(value)); a missing value is no id at all.
EraseValue(v) == EraseId(FindId(v)) \/ EraseIdMisses(FindId(v))

(* compact, compact_if_needed and a save/load round trip through a stream *)

\* Mutants: the delta stays; the tombstones stay; ids are renumbered from the live count.
ReplaceBaseKeepsDelta ==
    /\ RebuildFits(Contents)
    /\ base' = Rebuilt(Contents)
    /\ tombstones' = {}
    /\ UNCHANGED <<delta, next_id, live_size>>
ReplaceBaseKeepsTombstones ==
    /\ RebuildFits(Contents)
    /\ base' = Rebuilt(Contents)
    /\ delta' = EmptyDelta
    /\ UNCHANGED <<tombstones, next_id, live_size>>
ReplaceBaseRewindsIds ==
    /\ RebuildFits(Contents)
    /\ base' = Rebuilt(Contents)
    /\ delta' = EmptyDelta
    /\ tombstones' = {}
    /\ next_id' = live_size
    /\ UNCHANGED live_size

ReplaceBase ==
    /\ RebuildFits(Contents)
    /\ base' = Rebuilt(Contents)
    /\ delta' = EmptyDelta
    /\ tombstones' = {}
    /\ UNCHANGED <<next_id, live_size>>

Compact == ReplaceBase /\ reply' = Reply("compacted", kInvalidId)

CompactAborts ==
    /\ ~RebuildFits(Contents)
    /\ base' = RebuildAborted(base, Contents)
    /\ reply' = Reply("length_error", kInvalidId)
    /\ UNCHANGED <<delta, tombstones, next_id, live_size>>

CompactIfNeeded(p) ==
    \/ ShouldCompact(p) /\ (Compact \/ CompactAborts)
    \/ /\ ~ShouldCompact(p)
       /\ reply' = Reply("kept", kInvalidId)
       /\ UNCHANGED <<base, delta, tombstones, next_id, live_size>>

\* load(save()) into the same variable: the reader refuses a snapshot whose
\* entry count is not the live count of its header.
Reload ==
    /\ live_size = Cardinality(LiveIds)
    /\ ReplaceBase
    /\ reply' = Reply("loaded", kInvalidId)

ReloadAborts ==
    /\ live_size # Cardinality(LiveIds) \/ ~RebuildFits(Contents)
    /\ reply' = Reply("length_error", kInvalidId)
    /\ UNCHANGED <<base, delta, tombstones, next_id, live_size>>

Insert(v) == InsertKnown(v) \/ InsertNew(v) \/ InsertOverflowsArena(v) \/ InsertOverflowsIds(v)
Erase == \/ \E i \in Ids \cup {kInvalidId} : EraseId(i) \/ EraseIdMisses(i)
         \/ \E v \in Values : EraseValue(v)

Next ==
    \/ \E v \in Values : Insert(v)
    \/ Erase
    \/ EmptyStringRefused
    \/ Compact \/ CompactAborts
    \/ \E p \in Policies : CompactIfNeeded(p)
    \/ Reload \/ ReloadAborts

\* Callers that keep to strings the delta index takes.
Spec == Init /\ [][Next]_vars

\* Callers that do not.
LongSpec == Init /\ [][Next \/ \E v \in Values : InsertOverflowsIndex(v)]_vars

-----------------------------------------------------------------------------
(* The properties. *)

\* Every variable has its type; next_id_ stops at kInvalidId.
TypeOK ==
    /\ base \in BaseSegment
    /\ delta \in DeltaSegment
    /\ tombstones \subseteq Ids
    /\ next_id \in 0 .. kInvalidId
    /\ live_size \in Nat
    /\ reply \in [kind : {"none", "id", "length_error", "overflow", "ignored", "erased",
                         "absent", "compacted", "kept", "loaded"},
                 id : Ids \cup {kInvalidId}]

\* find_id and get_string are inverse to each other on the live entries, whatever
\* stale slots erase, re-insertion and aborted compaction left in the two indexes.
FindIdInvertsGetString ==
    \A v \in Values, i \in Ids : FindId(v) = i <=> GetString(i) = v

\* The hand-kept live_size_ is the number of live ids: save() writes it as the
\* entry count and load() refuses a snapshot in which the two differ.
LiveSizeCountsLiveIds == live_size = Cardinality(LiveIds)

\* for_each_with_prefix reports exactly the live ids with the prefix, although
\* each segment filters on its own index or entry table.
PrefixFindsLiveMatches ==
    \A P \in SUBSET Values :
        BasePrefix(P) \cup DeltaPrefix(P) = {i \in LiveIds : GetString(i) \in P}

\* for_each_with_prefix reports no id twice: it concatenates the hits of the two
\* segments and never removes duplicates.
PrefixReportsOnce ==
    \A P \in SUBSET Values : BasePrefix(P) \cap DeltaPrefix(P) = {}

\* delta_.size() counts the live delta entries, none of them tombstoned: the
\* compaction policy and the decision to write a delta sidecar rest on it.
DeltaSizeIsExact ==
    /\ delta.live = Cardinality(Present(delta.entries))
    /\ Present(delta.entries) \subseteq LiveIds

\* The base holds the oldest live ids, which is what makes a compaction that
\* throws half-way harmless: everything only the base knows is appended first.
BaseHoldsOldestLive ==
    \A i, j \in LiveIds : base.entries[i] # NoString /\ base.entries[j] = NoString => i < j

\* The inductive invariant behind these properties, part by part.
UsedIdsBelowNext ==
    \A i \in Ids : (i \in tombstones \/ delta.entries[i] # NoString
                                   \/ base.entries[i] # NoString) => i < next_id
DeltaIsLive ==
    \A i \in Ids : delta.entries[i] # NoString =>
        i \notin tombstones /\ base.entries[i] \in {NoString, delta.entries[i]}
DeltaIndexExact ==
    \A v \in Values, i \in Ids : delta.index[v] = i <=> delta.entries[i] = v
BaseIndexSound ==
    \A v \in Values, i \in Ids : base.index[v] = i /\ i \notin tombstones => base.entries[i] = v
BaseIndexComplete ==
    \A v \in Values, i \in Ids :
        base.entries[i] = v /\ delta.entries[i] = NoString /\ i \notin tombstones
            => base.index[v] = i
LiveStringsDistinct ==
    \A i, j \in Ids : GetString(i) # NoString /\ GetString(i) = GetString(j) => i = j
BaseFitsArena == Cardinality(Present(base.entries)) <= ArenaCap

\* The two tables, the two indexes, the tombstones and the counters describe one
\* set of live strings; a bounded base below the delta lets compaction fail safely.
IInv ==
    /\ TypeOK /\ UsedIdsBelowNext /\ DeltaIsLive /\ DeltaIndexExact
    /\ BaseIndexSound /\ BaseIndexComplete /\ LiveStringsDistinct
    /\ LiveSizeCountsLiveIds /\ DeltaSizeIsExact
    /\ BaseHoldsOldestLive /\ BaseFitsArena

\* No step gives an id a second string or brings a deleted one back, and the id
\* counter never goes down: compact, load and failed calls included.
IdsAreNeverReused ==
    [][/\ next_id <= next_id'
       /\ \A i \in Ids : i < next_id => GetString(i)' \in {GetString(i), NoString}]_vars

\* compact_if_needed does not ask for another compaction right after one.
CompactionSettles ==
    [][reply'.kind = "compacted" =>
         \A p \in Policies : p.min_delta_ids > 0 /\ p.min_tombstone_ids > 0
                               => ~ShouldCompact(p)']_vars

\* The dictionary implements the abstract bimap: answers and contents alike.
Abstract == INSTANCE AbstractBimap WITH live <- Contents
ImplementsAbstract == Abstract!Spec
=============================================================================

-------------------------- MODULE StringBimapProofs --------------------------
(***************************************************************************)
(* The theorems of StringBimap, for any set of strings, any id space, any  *)
(* arena size, profile and set of policies.  The inductive invariant IInv  *)
(* is defined in StringBimap, where TLC checks it too.                     *)
(***************************************************************************)
EXTENDS StringBimap, FiniteSetTheorems, TLAPS

-----------------------------------------------------------------------------
(* Facts about the tables. *)

\* The id space is finite, and so is every set of present ids.
LEMMA IdsFinite ==
    /\ IsFiniteSet(Ids)
    /\ \A S \in SUBSET Ids : IsFiniteSet(S) /\ Cardinality(S) \in Nat
<1>1. IsFiniteSet(Ids)
  BY SegmentAssumption, FS_Interval, 0 \in Int, kInvalidId - 1 \in Int DEF Ids
<1>2. ASSUME NEW S \in SUBSET Ids
      PROVE  IsFiniteSet(S) /\ Cardinality(S) \in Nat
  BY <1>1, FS_Subset, FS_CardinalityType
<1> QED
  BY <1>1, <1>2

LEMMA PresentType ==
    ASSUME NEW t
    PROVE  /\ Present(t) \in SUBSET Ids
           /\ IsFiniteSet(Present(t)) /\ Cardinality(Present(t)) \in Nat
<1>1. Present(t) \in SUBSET Ids
  BY DEF Present
<1> QED
  BY <1>1, IdsFinite

\* Ids are naturals, and the invalid id is none of them.
LEMMA IdFacts == /\ kInvalidId \notin Ids
                 /\ \A i \in Ids : i \in Nat /\ i < kInvalidId
                 /\ \A i \in Nat : i < kInvalidId => i \in Ids
BY SegmentAssumption DEF Ids

LEMMA EmptyPresent == Present(NoEntries) = {} /\ Cardinality(Present(NoEntries)) = 0
<1>1. Present(NoEntries) = {}
  BY DEF Present, NoEntries
<1> QED
  BY <1>1, FS_EmptySet

\* Rebuilding the index from distinct strings inverts the entry table.
LEMMA IndexOfInverts ==
    ASSUME NEW items \in Entries,
           \A i, j \in Ids : items[i] # NoString /\ items[i] = items[j] => i = j
    PROVE  /\ IndexOf(items) \in Indexes
           /\ \A v \in Values, i \in Ids : IndexOf(items)[v] = i <=> items[i] = v
<1> DEFINE Best(v) == CHOOSE i \in Ids : items[i] = v
                                         /\ \A j \in Ids : items[j] = v => j <= i
<1>1. ASSUME NEW v \in Values, NEW i \in Ids, items[i] = v
      PROVE  Best(v) = i
  <2>1. v # NoString
    BY SegmentAssumption
  <2>2. \A j \in Ids : items[j] = v => j = i
    BY <1>1, <2>1
  <2>3. i <= i
    BY IdFacts
  <2>4. \E k \in Ids : items[k] = v /\ \A j \in Ids : items[j] = v => j <= k
    BY <1>1, <2>2, <2>3
  <2>5. Best(v) \in Ids /\ items[Best(v)] = v
    BY <2>4
  <2> QED
    BY <2>2, <2>5
<1>2. ASSUME NEW v \in Values
      PROVE  /\ IndexOf(items)[v] \in Ids \cup {kInvalidId}
             /\ \A i \in Ids : IndexOf(items)[v] = i <=> items[i] = v
  <2>1. CASE \E i \in Ids : items[i] = v
    <3>1. PICK i \in Ids : items[i] = v
      BY <2>1
    <3>2. IndexOf(items)[v] = Best(v)
      BY <2>1 DEF IndexOf
    <3>3. IndexOf(items)[v] = i
      BY <1>1, <3>1, <3>2
    <3>4. v # NoString
      BY SegmentAssumption
    <3>5. \A j \in Ids : items[j] = v => j = i
      BY <3>1, <3>4
    <3> QED
      BY <3>1, <3>3, <3>5
  <2>2. CASE ~ \E i \in Ids : items[i] = v
    <3>1. IndexOf(items)[v] = kInvalidId
      BY <2>2 DEF IndexOf
    <3> QED
      BY <2>2, <3>1, IdFacts
  <2> QED
    BY <2>1, <2>2
<1>3. IndexOf(items) = [v \in Values |-> IndexOf(items)[v]]
  BY DEF IndexOf
<1>4. IndexOf(items) \in Indexes
  BY <1>2, <1>3 DEF Indexes
<1> QED
  BY <1>2, <1>4

-----------------------------------------------------------------------------
(* Facts about a state. *)

\* An id is contained exactly when get_string answers a string.
LEMMA ContentsFacts ==
    ASSUME TypeOK
    PROVE  /\ Contents \in Entries
           /\ \A i \in Ids : Contents[i] = GetString(i)
           /\ \A i \in Ids : ContainsId(i) <=> GetString(i) # NoString
           /\ Present(Contents) = LiveIds
           /\ LiveIds \in SUBSET Ids
           /\ \A i \in Ids : i \in LiveIds <=> GetString(i) # NoString
<1>1. \A i \in Ids : GetString(i) \in Values \cup {NoString}
  BY DEF TypeOK, BaseSegment, DeltaSegment, Entries, GetString
<1>2. \A i \in Ids : ContainsId(i) <=> GetString(i) # NoString
  BY DEF ContainsId, GetString
<1>3. \A i \in Ids : Contents[i] = GetString(i)
  BY DEF Contents
<1>4. Contents \in Entries
  BY <1>1 DEF Contents, Entries
<1>5. LiveIds \in SUBSET Ids /\ \A i \in Ids : i \in LiveIds <=> ContainsId(i)
  BY DEF LiveIds
<1>6. Present(Contents) = LiveIds
  BY <1>2, <1>3, <1>5 DEF Present
<1> QED
  BY <1>2, <1>3, <1>4, <1>5, <1>6

\* find_id and get_string are inverse: the deepest consequence of IInv.
LEMMA IInvFindId == IInv => FindIdInvertsGetString
<1> SUFFICES ASSUME IInv, NEW v \in Values, NEW i \in Ids
             PROVE  FindId(v) = i <=> GetString(i) = v
  BY DEF FindIdInvertsGetString
<1>0. v # NoString /\ i # kInvalidId
  BY SegmentAssumption, IdFacts
<1>1. ASSUME FindId(v) = i PROVE GetString(i) = v
  <2>1. CASE Visible(delta.index[v])
    <3>1. delta.index[v] = i /\ i \notin tombstones
      BY <1>1, <2>1 DEF FindId, Visible
    <3>2. delta.entries[i] = v
      BY <3>1 DEF IInv, DeltaIndexExact
    <3> QED
      BY <1>0, <3>1, <3>2 DEF GetString
  <2>2. CASE ~Visible(delta.index[v])
    <3>1. base.index[v] = i /\ i \notin tombstones
      BY <1>0, <1>1, <2>2 DEF FindId, Visible
    <3>2. base.entries[i] = v
      BY <3>1 DEF IInv, BaseIndexSound
    <3>3. delta.entries[i] \in {NoString, v}
      BY <1>0, <3>2 DEF IInv, DeltaIsLive
    <3> QED
      BY <1>0, <3>1, <3>2, <3>3 DEF GetString
  <2> QED
    BY <2>1, <2>2
<1>2. ASSUME GetString(i) = v PROVE FindId(v) = i
  <2>0. i \notin tombstones
    BY <1>0, <1>2 DEF GetString
  <2>1. CASE delta.entries[i] # NoString
    <3>1. delta.entries[i] = v
      BY <1>2, <2>0, <2>1 DEF GetString
    <3>2. delta.index[v] = i
      BY <3>1 DEF IInv, DeltaIndexExact
    <3> QED
      BY <1>0, <2>0, <3>2 DEF FindId, Visible
  <2>2. CASE delta.entries[i] = NoString
    <3>1. base.entries[i] = v
      BY <1>2, <2>0, <2>2 DEF GetString
    <3>2. base.index[v] = i
      BY <2>0, <2>2, <3>1 DEF IInv, BaseIndexComplete
    <3>3. ~Visible(delta.index[v])
      <4> SUFFICES ASSUME Visible(delta.index[v]) PROVE FALSE
        OBVIOUS
      <4>1. delta.index[v] \in Ids /\ delta.index[v] \notin tombstones
        BY DEF IInv, TypeOK, DeltaSegment, Indexes, Visible
      <4>2. delta.entries[delta.index[v]] = v
        BY <4>1 DEF IInv, DeltaIndexExact
      <4>3. GetString(delta.index[v]) = v
        BY <1>0, <4>1, <4>2 DEF GetString
      <4>4. delta.index[v] = i
        BY <1>0, <1>2, <4>1, <4>3 DEF IInv, LiveStringsDistinct
      <4> QED
        BY <1>0, <2>2, <4>2, <4>4
    <3> QED
      BY <1>0, <2>0, <3>2, <3>3 DEF FindId, Visible
  <2> QED
    BY <2>1, <2>2
<1> QED
  BY <1>1, <1>2

LEMMA FindIdType == TypeOK => \A v \in Values : FindId(v) \in Ids \cup {kInvalidId}
BY DEF TypeOK, BaseSegment, DeltaSegment, Indexes, FindId

-----------------------------------------------------------------------------
(* IInv holds initially and every action preserves it. *)

LEMMA InitIInv == Init => IInv
<1> SUFFICES ASSUME Init PROVE IInv
  OBVIOUS
<1> USE DEF Init
<1>1. NoEntries \in Entries /\ NoIndex \in Indexes
  BY DEF NoEntries, NoIndex, Entries, Indexes
<1>2. TypeOK
  BY <1>1, SegmentAssumption
     DEF TypeOK, EmptyBase, EmptyDelta, BaseSegment, DeltaSegment, Reply
<1>3. \A i \in Ids : /\ delta.entries[i] = NoString /\ base.entries[i] = NoString
                     /\ GetString(i) = NoString /\ ~ContainsId(i)
  BY DEF EmptyBase, EmptyDelta, NoEntries, GetString, ContainsId
<1>4. \A v \in Values : delta.index[v] = kInvalidId /\ base.index[v] = kInvalidId
  BY DEF EmptyBase, EmptyDelta, NoIndex
<1>5. LiveIds = {}
  BY <1>3 DEF LiveIds
<1>6. LiveSizeCountsLiveIds /\ DeltaSizeIsExact /\ BaseFitsArena
  BY <1>5, EmptyPresent, FS_EmptySet, SegmentAssumption
     DEF LiveSizeCountsLiveIds, DeltaSizeIsExact, BaseFitsArena, EmptyBase, EmptyDelta
<1>7. UsedIdsBelowNext /\ DeltaIsLive /\ LiveStringsDistinct /\ BaseHoldsOldestLive
  BY <1>3, <1>5 DEF UsedIdsBelowNext, DeltaIsLive, LiveStringsDistinct, BaseHoldsOldestLive
<1>8. DeltaIndexExact /\ BaseIndexSound /\ BaseIndexComplete
  BY <1>3, <1>4, IdFacts, SegmentAssumption
     DEF DeltaIndexExact, BaseIndexSound, BaseIndexComplete
<1> QED
  BY <1>2, <1>6, <1>7, <1>8 DEF IInv

\* A call that only answers: every variable but reply is unchanged.
Quiet == UNCHANGED <<base, delta, tombstones, next_id, live_size>>

LEMMA QuietIInv == ASSUME IInv, Quiet, TypeOK' PROVE IInv'
BY DEF IInv, Quiet, UsedIdsBelowNext, DeltaIsLive, DeltaIndexExact, BaseIndexSound,
       BaseIndexComplete, LiveStringsDistinct, LiveSizeCountsLiveIds, DeltaSizeIsExact,
       BaseHoldsOldestLive, BaseFitsArena, GetString, LiveIds, ContainsId

LEMMA InsertNewIInv == ASSUME IInv, NEW v \in Values, InsertNew(v) PROVE IInv'
<1> DEFINE n == next_id
<1> USE DEF IInv
<1>0. /\ n \in Ids /\ n \in Nat /\ n' = n + 1 /\ n + 1 \in 0 .. kInvalidId
      /\ v # NoString
      /\ base' = base /\ tombstones' = tombstones
  BY SegmentAssumption DEF TypeOK, InsertNew, Ids
<1>1. n \notin tombstones /\ delta.entries[n] = NoString /\ base.entries[n] = NoString
  BY <1>0 DEF UsedIdsBelowNext
<1>2. /\ delta'.entries = [delta.entries EXCEPT ![n] = v]
      /\ delta'.index = [delta.index EXCEPT ![v] = n]
      /\ delta'.live = delta.live + 1
      /\ delta' \in DeltaSegment
  BY <1>0 DEF InsertNew, DeltaInsert, TypeOK, DeltaSegment, Entries, Indexes
<1>3. \A i \in Ids : delta'.entries[i] = IF i = n THEN v ELSE delta.entries[i]
  BY <1>0, <1>2 DEF TypeOK, DeltaSegment, Entries
<1>4. \A w \in Values : delta'.index[w] = IF w = v THEN n ELSE delta.index[w]
  BY <1>0, <1>2 DEF TypeOK, DeltaSegment, Indexes
<1>5. \A i \in Ids : /\ GetString(i)' = IF i = n THEN v ELSE GetString(i)
                     /\ ContainsId(i)' <=> (i = n \/ ContainsId(i))
  BY <1>0, <1>1, <1>3 DEF GetString, ContainsId
<1>6. \A i \in Ids : GetString(i) # v
  <2>1. FindId(v) = kInvalidId
    BY DEF InsertNew
  <2> QED
    BY <2>1, IInvFindId, IdFacts DEF FindIdInvertsGetString
<1>7. TypeOK'
  BY <1>0, <1>2 DEF TypeOK, InsertNew, Reply
<1>8. UsedIdsBelowNext'
  <2> SUFFICES ASSUME NEW i \in Ids,
                      i \in tombstones \/ delta'.entries[i] # NoString
                                       \/ base.entries[i] # NoString
               PROVE  i < n + 1
    BY <1>0 DEF UsedIdsBelowNext
  <2>1. i \in Nat /\ (i = n \/ i < n)
    BY <1>3, IdFacts DEF UsedIdsBelowNext
  <2> QED
    BY <1>0, <2>1
<1>9. DeltaIsLive'
  BY <1>0, <1>1, <1>3 DEF DeltaIsLive
<1>10. DeltaIndexExact'
  <2> SUFFICES ASSUME NEW w \in Values, NEW i \in Ids
               PROVE  delta'.index[w] = i <=> delta'.entries[i] = w
    BY DEF DeltaIndexExact
  <2>1. CASE w = v
    <3>1. i # n => delta.entries[i] # v
      <4>1. ASSUME delta.entries[i] = v PROVE GetString(i) = v
        BY <1>0, <4>1 DEF DeltaIsLive, GetString
      <4> QED
        BY <1>6, <4>1
    <3> QED
      BY <1>3, <1>4, <2>1, <3>1
  <2>2. CASE w # v
    <3>1. delta.index[w] # n
      BY <1>0, <1>1, SegmentAssumption DEF DeltaIndexExact
    <3> QED
      BY <1>3, <1>4, <2>2, <3>1 DEF DeltaIndexExact
  <2> QED
    BY <2>1, <2>2
<1>11. BaseIndexSound'
  BY <1>0 DEF BaseIndexSound
<1>12. BaseIndexComplete'
  BY <1>0, <1>3 DEF BaseIndexComplete
<1>13. LiveStringsDistinct'
  BY <1>5, <1>6 DEF LiveStringsDistinct
<1>14. LiveIds' = LiveIds \cup {n} /\ n \notin LiveIds
  BY <1>0, <1>1, <1>5 DEF LiveIds, ContainsId
<1>15. LiveSizeCountsLiveIds'
  <2>1. IsFiniteSet(LiveIds)
    BY ContentsFacts, IdsFinite
  <2>2. Cardinality(LiveIds \cup {n}) = Cardinality(LiveIds) + 1
    BY <1>14, <2>1, FS_AddElement
  <2> QED
    BY <1>14, <2>2 DEF LiveSizeCountsLiveIds, InsertNew
<1>16. DeltaSizeIsExact'
  <2>1. Present(delta'.entries) = Present(delta.entries) \cup {n}
    BY <1>0, <1>3 DEF Present
  <2>2. n \notin Present(delta.entries)
    BY <1>1 DEF Present
  <2>3. Cardinality(Present(delta.entries) \cup {n}) = Cardinality(Present(delta.entries)) + 1
    BY <2>2, PresentType, FS_AddElement
  <2> QED
    BY <1>2, <1>14, <2>1, <2>3 DEF DeltaSizeIsExact
<1>17. BaseHoldsOldestLive'
  <2> SUFFICES ASSUME NEW i \in LiveIds', NEW j \in LiveIds',
                      base.entries[i] # NoString, base.entries[j] = NoString
               PROVE  i < j
    BY <1>0 DEF BaseHoldsOldestLive
  <2>1. i \in LiveIds /\ i < n
    BY <1>1, <1>14 DEF LiveIds, UsedIdsBelowNext
  <2> QED
    BY <1>14, <2>1 DEF BaseHoldsOldestLive
<1>18. BaseFitsArena'
  BY <1>0 DEF BaseFitsArena
<1> QED
  BY <1>7, <1>8, <1>9, <1>10, <1>11, <1>12, <1>13, <1>15, <1>16, <1>17, <1>18

LEMMA InsertOverflowsArenaIInv ==
    ASSUME IInv, NEW v \in Values, InsertOverflowsArena(v) PROVE IInv'
<1>1. /\ base' = base /\ delta' = delta /\ tombstones' = tombstones
      /\ live_size' = live_size /\ next_id \in Nat /\ next_id' = next_id + 1
  BY SegmentAssumption DEF InsertOverflowsArena, IInv, TypeOK
<1>2. TypeOK'
  BY <1>1, SegmentAssumption DEF IInv, TypeOK, InsertOverflowsArena, Reply
<1>3. UsedIdsBelowNext'
  BY <1>1, IdFacts DEF IInv, UsedIdsBelowNext
<1> QED
  BY <1>1, <1>2, <1>3
  DEF IInv, DeltaIsLive, DeltaIndexExact, BaseIndexSound, BaseIndexComplete,
      LiveStringsDistinct, LiveSizeCountsLiveIds, DeltaSizeIsExact, BaseHoldsOldestLive,
      BaseFitsArena, GetString, LiveIds, ContainsId

LEMMA EraseIdIInv == ASSUME IInv, NEW id \in Ids, EraseId(id) PROVE IInv'
<1> USE DEF IInv
<1>0. /\ base' = base /\ next_id' = next_id /\ live_size' = live_size - 1
      /\ tombstones' = tombstones \cup {id} /\ id \in LiveIds
      /\ id \notin tombstones
  BY DEF EraseId, LiveIds, ContainsId
<1>1. \A i \in Ids : delta'.entries[i] = IF i = id THEN NoString ELSE delta.entries[i]
  <2>1. CASE delta.entries[id] # NoString
    BY <2>1 DEF EraseId, DeltaErase, TypeOK, DeltaSegment, Entries
  <2>2. CASE delta.entries[id] = NoString
    BY <2>2 DEF EraseId
  <2> QED
    BY <2>1, <2>2
<1>2. \A v \in Values : delta'.index[v] = IF delta.index[v] = id THEN kInvalidId
                                           ELSE delta.index[v]
  <2>1. CASE delta.entries[id] # NoString
    BY <2>1 DEF EraseId, DeltaErase, TypeOK, DeltaSegment, Indexes, DeltaIndexExact
  <2>2. CASE delta.entries[id] = NoString
    BY <2>2, SegmentAssumption DEF EraseId, DeltaIndexExact
  <2> QED
    BY <2>1, <2>2
<1>3. \A i \in Ids : /\ GetString(i)' = IF i = id THEN NoString ELSE GetString(i)
                     /\ ContainsId(i)' <=> (i # id /\ ContainsId(i))
  BY <1>0, <1>1 DEF GetString, ContainsId
<1>4. LiveIds' = LiveIds \ {id}
  BY <1>3 DEF LiveIds
<1>5. LiveSizeCountsLiveIds' /\ live_size' \in Nat
  <2>1. IsFiniteSet(LiveIds) /\ IsFiniteSet(LiveIds \ {id})
    BY ContentsFacts, IdsFinite, FS_RemoveElement
  <2>2. Cardinality(LiveIds \ {id}) = Cardinality(LiveIds) - 1
    BY <1>0, <2>1, FS_RemoveElement
  <2> QED
    BY <1>0, <1>4, <2>1, <2>2, FS_CardinalityType DEF LiveSizeCountsLiveIds
<1>6. /\ delta'.live = Cardinality(Present(delta'.entries))
      /\ delta'.live \in Nat
  <2>1. Present(delta'.entries) = Present(delta.entries) \ {id}
    BY <1>1 DEF Present
  <2>2. IsFiniteSet(Present(delta.entries))
    BY PresentType
  <2>3. CASE delta.entries[id] # NoString
    <3>1. id \in Present(delta.entries)
      BY <2>3 DEF Present
    <3>2. Cardinality(Present(delta'.entries)) = Cardinality(Present(delta.entries)) - 1
      BY <2>1, <2>2, <3>1, FS_RemoveElement
    <3>3. delta'.live = delta.live - 1
      BY <2>3 DEF EraseId, DeltaErase, TypeOK, DeltaSegment
    <3> QED
      BY <3>2, <3>3, PresentType DEF DeltaSizeIsExact
  <2>4. CASE delta.entries[id] = NoString
    <3>1. Present(delta'.entries) = Present(delta.entries)
      BY <2>1, <2>4 DEF Present
    <3> QED
      BY <2>4, <3>1, PresentType DEF EraseId, DeltaSizeIsExact
  <2> QED
    BY <2>3, <2>4
<1>7. delta' \in DeltaSegment
  <2>1. CASE delta.entries[id] # NoString
    <3>1. /\ delta'.entries \in Entries /\ delta'.used \in Nat
      BY <2>1 DEF EraseId, DeltaErase, TypeOK, DeltaSegment, Entries
    <3>2. delta'.index \in Indexes
      BY <2>1 DEF EraseId, DeltaErase, TypeOK, DeltaSegment, Indexes
    <3>3. delta' = [entries |-> delta'.entries, index |-> delta'.index,
                    live |-> delta'.live, used |-> delta'.used]
      BY <2>1 DEF EraseId, DeltaErase, TypeOK, DeltaSegment
    <3> QED
      BY <1>6, <3>1, <3>2, <3>3 DEF DeltaSegment
  <2>2. CASE delta.entries[id] = NoString
    BY <2>2 DEF EraseId, TypeOK
  <2> QED
    BY <2>1, <2>2
<1>8. TypeOK'
  BY <1>0, <1>5, <1>7 DEF TypeOK, EraseId, Reply
<1>9. UsedIdsBelowNext' /\ DeltaIsLive'
  BY <1>0, <1>1 DEF UsedIdsBelowNext, DeltaIsLive, LiveIds, ContainsId
<1>10. DeltaIndexExact'
  BY <1>1, <1>2, IdFacts, SegmentAssumption DEF DeltaIndexExact
<1>11. BaseIndexSound' /\ BaseIndexComplete'
  BY <1>0, <1>1 DEF BaseIndexSound, BaseIndexComplete
<1>12. LiveStringsDistinct'
  BY <1>3 DEF LiveStringsDistinct
<1>13. DeltaSizeIsExact'
  <2>1. Present(delta'.entries) \subseteq LiveIds'
    BY <1>1, <1>4 DEF DeltaSizeIsExact, Present
  <2> QED
    BY <1>6, <2>1 DEF DeltaSizeIsExact
<1>14. BaseHoldsOldestLive' /\ BaseFitsArena'
  BY <1>0, <1>4 DEF BaseHoldsOldestLive, BaseFitsArena
<1> QED
  BY <1>5, <1>8, <1>9, <1>10, <1>11, <1>12, <1>13, <1>14

-----------------------------------------------------------------------------
(* Compaction and reloading: the base is rebuilt from the live contents. *)

LEMMA ReplaceBaseIInv == ASSUME IInv, ReplaceBase, TypeOK' PROVE IInv'
<1> USE DEF IInv
<1>0. /\ base' = Rebuilt(Contents) /\ delta' = EmptyDelta /\ tombstones' = {}
      /\ next_id' = next_id /\ live_size' = live_size
      /\ base'.entries = Contents /\ base'.index = IndexOf(Contents)
      /\ delta'.entries = NoEntries /\ delta'.index = NoIndex /\ delta'.live = 0
  BY DEF ReplaceBase, Rebuilt, EmptyDelta
<1>1. \A i, j \in Ids : Contents[i] # NoString /\ Contents[i] = Contents[j] => i = j
  BY ContentsFacts DEF LiveStringsDistinct
<1>2. \A v \in Values, i \in Ids : IndexOf(Contents)[v] = i <=> Contents[i] = v
  BY <1>1, ContentsFacts, IndexOfInverts
<1>3. \A i \in Ids : delta'.entries[i] = NoString
  BY <1>0 DEF NoEntries
<1>4. \A i \in Ids : GetString(i)' = GetString(i)
  BY <1>0, <1>3, ContentsFacts DEF GetString
<1>5. \A i \in Ids : ContainsId(i)' <=> ContainsId(i)
  BY <1>0, <1>3, ContentsFacts DEF ContainsId
<1>6. LiveIds' = LiveIds
  BY <1>5 DEF LiveIds
<1>7. UsedIdsBelowNext'
  BY <1>0, <1>3, ContentsFacts DEF UsedIdsBelowNext, GetString
<1>8. DeltaIsLive'
  BY <1>3 DEF DeltaIsLive
<1>9. DeltaIndexExact'
  BY <1>0, <1>3, IdFacts, SegmentAssumption DEF DeltaIndexExact, NoIndex
<1>10. BaseIndexSound' /\ BaseIndexComplete'
  BY <1>0, <1>2 DEF BaseIndexSound, BaseIndexComplete
<1>11. LiveStringsDistinct'
  BY <1>4 DEF LiveStringsDistinct
<1>12. LiveSizeCountsLiveIds'
  BY <1>0, <1>6 DEF LiveSizeCountsLiveIds
<1>13. DeltaSizeIsExact'
  BY <1>0, EmptyPresent DEF DeltaSizeIsExact
<1>14. BaseHoldsOldestLive'
  BY <1>0, <1>6, ContentsFacts DEF BaseHoldsOldestLive
<1>15. BaseFitsArena'
  BY <1>0 DEF BaseFitsArena, ReplaceBase, RebuildFits
<1> QED
  BY <1>7, <1>8, <1>9, <1>10, <1>11, <1>12, <1>13, <1>14, <1>15

LEMMA RebuiltType == ASSUME IInv PROVE Rebuilt(Contents) \in BaseSegment
<1>1. \A i, j \in Ids : Contents[i] # NoString /\ Contents[i] = Contents[j] => i = j
  BY ContentsFacts DEF IInv, LiveStringsDistinct
<1>2. Contents \in Entries /\ IndexOf(Contents) \in Indexes
  BY <1>1, ContentsFacts, IndexOfInverts DEF IInv
<1>3. (UsesBaseTrie /\ Present(Contents) # {}) \in BOOLEAN
  BY DEF UsesBaseTrie
<1> QED
  BY <1>2, <1>3, PresentType DEF Rebuilt, BaseSegment

LEMMA EmptyDeltaType == EmptyDelta \in DeltaSegment
BY DEF EmptyDelta, DeltaSegment, NoEntries, NoIndex, Entries, Indexes

\* Why an aborted rebuild loses nothing: every live id only the base knows is
\* among the items appended before the arena overflows.
LEMMA OldestAreAppended ==
    ASSUME IInv, NEW i \in LiveIds, base.entries[i] # NoString
    PROVE  i \in AppendedBeforeOverflow(Contents)
<1> DEFINE older == {j \in Present(Contents) : j < i}
<1> USE DEF IInv
<1>1. Present(Contents) = LiveIds /\ LiveIds \in SUBSET Ids /\ i \in Ids
  BY ContentsFacts
<1>2. older \in SUBSET (Present(base.entries) \ {i})
  <2> SUFFICES ASSUME NEW j \in LiveIds, j < i
               PROVE  base.entries[j] # NoString /\ j # i
    BY <1>1 DEF Present
  <2>1. i \in Nat /\ j \in Nat
    BY <1>1, IdFacts
  <2> QED
    BY <2>1 DEF BaseHoldsOldestLive
<1>3. IsFiniteSet(Present(base.entries)) /\ i \in Present(base.entries)
  BY <1>1, PresentType DEF Present
<1>4. /\ IsFiniteSet(Present(base.entries) \ {i})
      /\ Cardinality(Present(base.entries) \ {i}) = Cardinality(Present(base.entries)) - 1
  BY <1>3, FS_RemoveElement
<1>5. Cardinality(older) <= Cardinality(Present(base.entries)) - 1 /\ Cardinality(older) \in Nat
  BY <1>2, <1>4, FS_Subset, FS_CardinalityType
<1>6. Cardinality(older) < ArenaCap
  BY <1>5, PresentType, SegmentAssumption DEF BaseFitsArena
<1> QED
  BY <1>1, <1>6 DEF AppendedBeforeOverflow

\* The items appended before the overflow are an initial segment of the items,
\* and no more than the arena holds.
LEMMA AppendedFacts ==
    ASSUME NEW items
    PROVE  /\ AppendedBeforeOverflow(items) \in SUBSET Present(items)
           /\ Cardinality(AppendedBeforeOverflow(items)) <= ArenaCap
           /\ \A i \in AppendedBeforeOverflow(items), j \in Present(items) :
                j < i => j \in AppendedBeforeOverflow(items)
<1> DEFINE A == AppendedBeforeOverflow(items)
           Older(i) == {j \in Present(items) : j < i}
           rank == [i \in A |-> Cardinality(Older(i))]
<1>1. A \in SUBSET Present(items) /\ Present(items) \in SUBSET Ids
  BY PresentType DEF AppendedBeforeOverflow
<1>2. \A i \in Ids : IsFiniteSet(Older(i)) /\ Cardinality(Older(i)) \in Nat
  BY <1>1, IdsFinite
<1>3. \A i \in Present(items) : i \in A <=> Cardinality(Older(i)) < ArenaCap
  BY DEF AppendedBeforeOverflow
<1>4. ASSUME NEW i \in Present(items), NEW j \in Present(items), j < i
      PROVE  Cardinality(Older(j)) < Cardinality(Older(i))
  <2>1. i \in Nat /\ j \in Nat /\ \A k \in Present(items) : k \in Nat
    BY <1>1, IdFacts
  <2>2. Older(j) \cup {j} \in SUBSET Older(i) /\ j \notin Older(j)
    <3>1. \A k \in Present(items) : k < j => k < i
      BY <1>4, <2>1
    <3>2. ~(j < j)
      BY <2>1
    <3> QED
      BY <1>4, <3>1, <3>2
  <2>3. Cardinality(Older(j) \cup {j}) = Cardinality(Older(j)) + 1
    BY <1>1, <1>2, <2>2, FS_AddElement
  <2>4. Cardinality(Older(j) \cup {j}) <= Cardinality(Older(i))
    BY <1>1, <1>2, <2>2, FS_Subset
  <2> QED
    BY <1>1, <1>2, <2>3, <2>4
<1>5. ASSUME NEW i \in A, NEW j \in Present(items), j < i
      PROVE  j \in A
  <2>1. i \in Present(items) /\ i \in Ids /\ j \in Ids
    BY <1>1
  <2>2. Cardinality(Older(j)) < Cardinality(Older(i)) /\ Cardinality(Older(i)) < ArenaCap
    BY <1>3, <1>4, <1>5, <2>1
  <2>3. Cardinality(Older(j)) < ArenaCap
    BY <1>2, <2>1, <2>2, SegmentAssumption
  <2> QED
    BY <1>3, <2>3
<1>6. Cardinality(A) <= ArenaCap
  <2>1. IsFiniteSet(0 .. ArenaCap - 1) /\ Cardinality(0 .. ArenaCap - 1) = ArenaCap
    BY SegmentAssumption, FS_Interval, 0 \in Int, ArenaCap - 1 \in Int
  <2>2. rank \in [A -> 0 .. ArenaCap - 1]
    BY <1>1, <1>2, <1>3, SegmentAssumption
  <2>3. ASSUME NEW i \in A, NEW j \in A, rank[i] = rank[j] PROVE i = j
    <3>1. i \in Nat /\ j \in Nat /\ i \in Present(items) /\ j \in Present(items)
      BY <1>1, IdFacts
    <3>2. Cardinality(Older(i)) = Cardinality(Older(j))
      BY <2>3
    <3>3. Cardinality(Older(i)) \in Nat /\ Cardinality(Older(j)) \in Nat
      BY <1>1, <1>2
    <3>4. ~(i < j) /\ ~(j < i)
      BY <1>4, <3>1, <3>2, <3>3
    <3> QED
      BY <3>1, <3>4
  <2>4. rank \in Injection(A, 0 .. ArenaCap - 1)
    BY <2>2, <2>3 DEF Injection, IsInjective
  <2> QED
    BY <2>1, <2>4, FS_Injection
<1> QED
  BY <1>1, <1>5, <1>6

LEMMA CompactAbortsIInv == ASSUME IInv, CompactAborts PROVE IInv'
<1> DEFINE A == AppendedBeforeOverflow(Contents)
<1> USE DEF IInv
<1>0. /\ delta' = delta /\ tombstones' = tombstones
      /\ next_id' = next_id /\ live_size' = live_size
      /\ base' = RebuildAborted(base, Contents)
  BY DEF CompactAborts
<1>1. /\ base'.index = base.index
      /\ \A i \in Ids : base'.entries[i] = IF i \in A THEN GetString(i) ELSE NoString
  BY <1>0, ContentsFacts DEF RebuildAborted, TypeOK, BaseSegment
<1>2. base' \in BaseSegment
  <2>1. \A i \in Ids : (IF i \in A THEN Contents[i] ELSE NoString) \in Values \cup {NoString}
    BY ContentsFacts DEF Entries
  <2>2. [i \in Ids |-> IF i \in A THEN Contents[i] ELSE NoString] \in Entries
    BY <2>1 DEF Entries
  <2> QED
    BY <1>0, <2>2, SegmentAssumption DEF RebuildAborted, TypeOK, BaseSegment
<1>3. TypeOK'
  BY <1>0, <1>2 DEF TypeOK, CompactAborts, Reply
<1>4. A \in SUBSET LiveIds /\ LiveIds \in SUBSET Ids
  BY AppendedFacts, ContentsFacts
<1>5. \A i \in LiveIds : base.entries[i] # NoString => i \in A
  BY OldestAreAppended
<1>6. ASSUME NEW i \in Ids
      PROVE  /\ GetString(i)' = GetString(i)
             /\ ContainsId(i)' <=> ContainsId(i)
  <2>1. base.entries[i] # NoString /\ i \notin tombstones => i \in A
    BY <1>5 DEF LiveIds, ContainsId
  <2>2. GetString(i)' = GetString(i)
    BY <1>0, <1>1, <2>1 DEF GetString
  <2>3. i \in A => ContainsId(i)
    BY <1>4 DEF LiveIds
  <2>4. ContainsId(i) <=> GetString(i) # NoString
    BY ContentsFacts
  <2>5. ContainsId(i)' <=> GetString(i)' # NoString
    BY DEF ContainsId, GetString
  <2> QED
    BY <2>2, <2>4, <2>5
<1>7. LiveIds' = LiveIds
  BY <1>6 DEF LiveIds
<1>8. UsedIdsBelowNext'
  BY <1>0, <1>1 DEF UsedIdsBelowNext, GetString
<1>9. DeltaIsLive'
  BY <1>0, <1>1 DEF DeltaIsLive, GetString
<1>10. DeltaIndexExact'
  BY <1>0 DEF DeltaIndexExact
<1>11. BaseIndexSound'
  <2> SUFFICES ASSUME NEW v \in Values, NEW i \in Ids, base.index[v] = i, i \notin tombstones
               PROVE  base'.entries[i] = v
    BY <1>0, <1>1 DEF BaseIndexSound
  <2>1. base.entries[i] = v /\ v # NoString
    BY SegmentAssumption DEF BaseIndexSound
  <2>2. i \in A
    BY <1>5, <2>1 DEF LiveIds, ContainsId
  <2>3. GetString(i) = v
    BY <2>1 DEF GetString, DeltaIsLive
  <2> QED
    BY <1>1, <2>2, <2>3
<1>12. BaseIndexComplete'
  BY <1>0, <1>1, SegmentAssumption DEF BaseIndexComplete, GetString
<1>13. LiveStringsDistinct'
  BY <1>6 DEF LiveStringsDistinct
<1>14. LiveSizeCountsLiveIds' /\ DeltaSizeIsExact'
  BY <1>0, <1>7 DEF LiveSizeCountsLiveIds, DeltaSizeIsExact
<1>15. BaseHoldsOldestLive'
  <2> SUFFICES ASSUME NEW i \in LiveIds, NEW j \in LiveIds,
                      base'.entries[i] # NoString, base'.entries[j] = NoString
               PROVE  i < j
    BY <1>7 DEF BaseHoldsOldestLive
  <2>1. i \in A /\ j \notin A
    BY <1>1, <1>4, ContentsFacts
  <2>2. ~(j < i) /\ i # j
    BY <2>1, AppendedFacts, ContentsFacts
  <2>3. i \in Nat /\ j \in Nat
    BY <1>4, IdFacts
  <2> QED
    BY <2>2, <2>3
<1>16. BaseFitsArena'
  <2>1. Present(base'.entries) = A
    BY <1>1, <1>4, ContentsFacts DEF Present
  <2> QED
    BY <2>1, AppendedFacts DEF BaseFitsArena
<1> QED
  BY <1>3, <1>8, <1>9, <1>10, <1>11, <1>12, <1>13, <1>14, <1>15, <1>16

LEMMA NextIInv == IInv /\ [Next]_vars => IInv'
<1> SUFFICES ASSUME IInv, [Next]_vars PROVE IInv'
  OBVIOUS
<1>0. TypeOK /\ \A v \in Values : FindId(v) \in Ids \cup {kInvalidId}
  BY FindIdType DEF IInv
<1>1. ASSUME NEW v \in Values, InsertKnown(v) PROVE IInv'
  <2>1. Quiet /\ TypeOK'
    BY <1>0, <1>1 DEF InsertKnown, Quiet, TypeOK, Reply
  <2> QED
    BY <2>1, QuietIInv
<1>2. ASSUME NEW v \in Values, InsertNew(v) PROVE IInv'
  BY <1>2, InsertNewIInv
<1>3. ASSUME NEW v \in Values, InsertOverflowsArena(v) PROVE IInv'
  BY <1>3, InsertOverflowsArenaIInv
<1>4. ASSUME NEW v \in Values, InsertOverflowsIds(v) PROVE IInv'
  <2>1. Quiet /\ TypeOK'
    BY <1>0, <1>4 DEF InsertOverflowsIds, Quiet, TypeOK, Reply
  <2> QED
    BY <2>1, QuietIInv
<1>5. ASSUME NEW i \in Ids \cup {kInvalidId}, EraseId(i) PROVE IInv'
  <2>1. i \in Ids
    BY <1>5 DEF EraseId, ContainsId
  <2> QED
    BY <1>5, <2>1, EraseIdIInv
<1>6. ASSUME NEW i \in Ids \cup {kInvalidId}, EraseIdMisses(i) PROVE IInv'
  <2>1. Quiet /\ TypeOK'
    BY <1>0, <1>6 DEF EraseIdMisses, Quiet, TypeOK, Reply
  <2> QED
    BY <2>1, QuietIInv
<1>7. ASSUME NEW v \in Values, EraseValue(v) PROVE IInv'
  BY <1>0, <1>5, <1>6, <1>7 DEF EraseValue
<1>8. ASSUME EmptyStringRefused PROVE IInv'
  <2>1. Quiet /\ TypeOK'
    BY <1>0, <1>8 DEF EmptyStringRefused, Quiet, TypeOK, Reply
  <2> QED
    BY <2>1, QuietIInv
<1>9. ASSUME ReplaceBase, reply' \in {Reply("compacted", kInvalidId), Reply("loaded", kInvalidId)}
      PROVE  IInv'
  <2>1. TypeOK'
    BY <1>0, <1>9, RebuiltType, EmptyDeltaType DEF ReplaceBase, TypeOK, Reply
  <2> QED
    BY <1>9, <2>1, ReplaceBaseIInv
<1>10. ASSUME CompactAborts PROVE IInv'
  BY <1>10, CompactAbortsIInv
<1>11. ASSUME NEW p \in Policies, CompactIfNeeded(p) PROVE IInv'
  <2>1. CASE Compact \/ CompactAborts
    BY <1>9, <1>10, <2>1 DEF Compact
  <2>2. CASE Quiet /\ reply' = Reply("kept", kInvalidId)
    <3>1. TypeOK'
      BY <1>0, <2>2 DEF Quiet, TypeOK, Reply
    <3> QED
      BY <2>2, <3>1, QuietIInv
  <2> QED
    BY <1>11, <2>1, <2>2 DEF CompactIfNeeded, Quiet
<1>12. ASSUME ReloadAborts PROVE IInv'
  <2>1. Quiet /\ TypeOK'
    BY <1>0, <1>12 DEF ReloadAborts, Quiet, TypeOK, Reply
  <2> QED
    BY <2>1, QuietIInv
<1>13. ASSUME UNCHANGED vars PROVE IInv'
  <2>1. Quiet /\ TypeOK'
    BY <1>0, <1>13 DEF vars, Quiet, TypeOK
  <2> QED
    BY <2>1, QuietIInv
<1> QED
  BY <1>1, <1>2, <1>3, <1>4, <1>5, <1>6, <1>7, <1>8, <1>9, <1>10, <1>11, <1>12, <1>13
  DEF Next, Insert, Erase, Compact, Reload

-----------------------------------------------------------------------------
(* The theorems. *)

\* IInv holds in every reachable state: exceptions thrown half-way through insert
\* and compact included.
THEOREM InvariantHolds == Spec => []IInv
<1> QED
  BY InitIInv, NextIInv, PTL DEF Spec

\* Every variable keeps its type and no id at or above next_id_ is in use.
THEOREM TypeCorrect == Spec => []TypeOK
<1>1. IInv => TypeOK
  BY DEF IInv
<1> QED
  BY <1>1, InvariantHolds, PTL

\* find_id and get_string are inverse in every reachable state.
THEOREM LookupsAgree == Spec => []FindIdInvertsGetString
<1> QED
  BY IInvFindId, InvariantHolds, PTL

\* live_size_ never drifts from the number of live ids.
THEOREM LiveSizeExact == Spec => []LiveSizeCountsLiveIds
<1>1. IInv => LiveSizeCountsLiveIds
  BY DEF IInv
<1> QED
  BY <1>1, InvariantHolds, PTL

\* Nor does the number the compaction policy and the snapshots go by: delta_.size()
\* is the number of live delta entries, after insertions that throw as well.
THEOREM DeltaSizeExact == Spec => []DeltaSizeIsExact
<1>1. IInv => DeltaSizeIsExact
  BY DEF IInv
<1> QED
  BY <1>1, InvariantHolds, PTL

-----------------------------------------------------------------------------
(* The effect of each action on the contents, and the abstract bimap. *)

LEMMA QuietContents == ASSUME Quiet PROVE Contents' = Contents
BY DEF Quiet, Contents, GetString

LEMMA InsertNewContents ==
    ASSUME IInv, NEW v \in Values, InsertNew(v)
    PROVE  /\ next_id \in Ids
           /\ Contents' = [Contents EXCEPT ![next_id] = v]
           /\ \A i \in Ids : Contents[i] # v
<1>0. next_id \in Ids /\ base' = base /\ tombstones' = tombstones
  BY SegmentAssumption DEF IInv, TypeOK, InsertNew, Ids
<1>1. next_id \notin tombstones
  BY <1>0 DEF IInv, TypeOK, UsedIdsBelowNext
<1>2. v # NoString
  BY SegmentAssumption
<1>3. \A i \in Ids : delta'.entries[i] = IF i = next_id THEN v ELSE delta.entries[i]
  BY <1>0 DEF InsertNew, DeltaInsert, IInv, TypeOK, DeltaSegment, Entries
<1>4. \A i \in Ids : GetString(i)' = IF i = next_id THEN v ELSE GetString(i)
  BY <1>0, <1>1, <1>2, <1>3 DEF GetString
<1>5. Contents' = [Contents EXCEPT ![next_id] = v]
  BY <1>4 DEF Contents
<1>6. FindId(v) = kInvalidId
  BY DEF InsertNew
<1>7. \A i \in Ids : Contents[i] # v
  BY <1>6, IInvFindId, IdFacts DEF FindIdInvertsGetString, Contents
<1> QED
  BY <1>0, <1>5, <1>7

LEMMA EraseIdContents ==
    ASSUME IInv, NEW id \in Ids, EraseId(id)
    PROVE  Contents' = [Contents EXCEPT ![id] = NoString] /\ Contents[id] # NoString
<1>1. \A i \in Ids : i # id => delta'.entries[i] = delta.entries[i]
  BY DEF EraseId, DeltaErase, IInv, TypeOK, DeltaSegment, Entries
<1>2. \A i \in Ids : GetString(i)' = IF i = id THEN NoString ELSE GetString(i)
  BY <1>1 DEF EraseId, GetString
<1>3. Contents[id] # NoString
  BY DEF EraseId, ContainsId, GetString, Contents
<1> QED
  BY <1>2, <1>3 DEF Contents

LEMMA ReplaceBaseContents == ASSUME IInv, ReplaceBase PROVE Contents' = Contents
<1>1. \A i \in Ids : delta'.entries[i] = NoString /\ base'.entries[i] = Contents[i]
  BY DEF ReplaceBase, EmptyDelta, NoEntries, Rebuilt
<1>2. \A i \in Ids : GetString(i)' = GetString(i)
  BY <1>1 DEF ReplaceBase, GetString, Contents
<1> QED
  BY <1>2 DEF Contents

LEMMA CompactAbortsContents == ASSUME IInv, CompactAborts PROVE Contents' = Contents
<1>1. \A i \in Ids : base'.entries[i] = IF i \in AppendedBeforeOverflow(Contents)
                                        THEN GetString(i) ELSE NoString
  BY DEF CompactAborts, RebuildAborted, IInv, TypeOK, BaseSegment, Contents
<1>2. \A i \in Ids : base.entries[i] # NoString /\ i \notin tombstones
                       => i \in AppendedBeforeOverflow(Contents)
  BY OldestAreAppended DEF LiveIds, ContainsId
<1>3. \A i \in Ids : GetString(i)' = GetString(i)
  BY <1>1, <1>2 DEF CompactAborts, GetString
<1> QED
  BY <1>3 DEF Contents

\* Every initial state and every step is one of the abstract bimap.
LEMMA InitAbstract == Init => Abstract!Init
BY DEF Init, Abstract!Init, Contents, GetString, EmptyBase, EmptyDelta, NoEntries,
       Reply, Abstract!Reply, Ids, Abstract!Ids

LEMMA NextAbstract == IInv /\ [Next]_vars => [Abstract!Next]_(Abstract!absVars)
<1> SUFFICES ASSUME IInv, [Next]_vars PROVE [Abstract!Next]_(Abstract!absVars)
  OBVIOUS
<1> DEFINE Stays == Contents' = Contents /\ next_id' = next_id
           Maintains == Stays /\ \E k \in {"ignored", "absent", "compacted", "kept", "loaded",
                                           "length_error"} : reply' = Reply(k, kInvalidId)
<1>a. Abstract!Ids = Ids /\ \A k, i : Abstract!Reply(k, i) = Reply(k, i)
  BY DEF Abstract!Ids, Ids, Abstract!Reply, Reply
<1>b. /\ \A v \in Values : FindId(v) \in Ids \cup {kInvalidId}
      /\ \A v \in Values, i \in Ids : FindId(v) = i <=> Contents[i] = v
      /\ next_id \in Nat /\ next_id <= kInvalidId
  BY FindIdType, IInvFindId, SegmentAssumption
     DEF IInv, TypeOK, FindIdInvertsGetString, Contents
<1>c. ASSUME Maintains PROVE Abstract!Maintain
  BY <1>c DEF Abstract!Maintain, Reply
<1>1. ASSUME NEW v \in Values, InsertKnown(v) PROVE Abstract!InsertKnown(v)
  <2>1. FindId(v) \in Ids /\ Contents[FindId(v)] = v
    BY <1>b, <1>1 DEF InsertKnown
  <2>2. Stays
    BY <1>1, QuietContents DEF InsertKnown, Quiet
  <2> QED
    BY <1>a, <1>1, <2>1, <2>2 DEF InsertKnown, Abstract!InsertKnown
<1>2. ASSUME NEW v \in Values, InsertNew(v) PROVE Abstract!InsertNew(v)
  <2>1. next_id < kInvalidId
    BY <1>2, InsertNewContents, IdFacts
  <2> QED
    BY <1>a, <1>2, <2>1, InsertNewContents DEF InsertNew, Abstract!InsertNew, Abstract!Holds
<1>3. ASSUME NEW v \in Values, InsertOverflowsArena(v) \/ InsertOverflowsIds(v)
      PROVE  Abstract!InsertFails(v)
  <2>1. ~Abstract!Holds(v)
    BY <1>a, <1>b, <1>3, IdFacts DEF InsertOverflowsArena, InsertOverflowsIds, Abstract!Holds
  <2>2. Contents' = Contents
    BY <1>3 DEF InsertOverflowsArena, InsertOverflowsIds, Contents, GetString
  <2>3. next_id # kInvalidId => next_id < kInvalidId
    BY <1>b, SegmentAssumption
  <2> QED
    BY <1>a, <1>3, <2>1, <2>2, <2>3
    DEF InsertOverflowsArena, InsertOverflowsIds, Abstract!InsertFails
<1>4. ASSUME NEW i \in Ids \cup {kInvalidId}, EraseId(i)
      PROVE  i \in Ids /\ Abstract!Erase(i)
  <2>1. i \in Ids
    BY <1>4 DEF EraseId, ContainsId
  <2> QED
    BY <1>a, <1>4, <2>1, EraseIdContents DEF EraseId, Abstract!Erase
<1>5. ASSUME NEW i, EraseIdMisses(i) PROVE Maintains
  BY <1>5, QuietContents DEF EraseIdMisses, Quiet
<1>6. ASSUME NEW v \in Values, EraseValue(v)
      PROVE  Maintains \/ \E i \in Ids : Abstract!Erase(i)
  BY <1>b, <1>4, <1>5, <1>6 DEF EraseValue
<1>7. ASSUME EmptyStringRefused \/ ReloadAborts PROVE Maintains
  BY <1>7, QuietContents DEF EmptyStringRefused, ReloadAborts, Quiet
<1>8. ASSUME Compact \/ Reload PROVE Maintains
  BY <1>8, ReplaceBaseContents DEF Compact, Reload, ReplaceBase
<1>9. ASSUME CompactAborts PROVE Maintains
  BY <1>9, CompactAbortsContents DEF CompactAborts
<1>10. ASSUME NEW p \in Policies, CompactIfNeeded(p) PROVE Maintains
  <2>1. CASE Compact \/ CompactAborts
    BY <1>8, <1>9, <2>1
  <2>2. CASE Quiet /\ reply' = Reply("kept", kInvalidId)
    BY <2>2, QuietContents DEF Quiet
  <2> QED
    BY <1>10, <2>1, <2>2 DEF CompactIfNeeded, Quiet
<1>11. ASSUME UNCHANGED vars PROVE UNCHANGED Abstract!absVars
  BY <1>11, QuietContents DEF vars, Quiet, Abstract!absVars
<1> HIDE DEF Maintains
<1>12. CASE Next
  BY <1>a, <1>c, <1>1, <1>2, <1>3, <1>4, <1>5, <1>6, <1>7, <1>8, <1>9, <1>10, <1>12
  DEF Next, Insert, Erase, Abstract!Next
<1> QED
  BY <1>11, <1>12

\* The dictionary implements the abstract bimap: every call, failing ones and
\* compactions included, answers and acts as the one-to-one map would.
THEOREM Refinement == Spec => ImplementsAbstract
<1> QED
  BY InitAbstract, NextAbstract, InvariantHolds, PTL
  DEF Spec, ImplementsAbstract, Abstract!Spec

\* No step of any kind gives a used id a second string, revives a deleted id or
\* lowers the id counter: what callers rely on when they store ids elsewhere.
THEOREM IdsStable == Spec => IdsAreNeverReused
<1> DEFINE Step == /\ next_id <= next_id'
                   /\ \A i \in Ids : i < next_id => GetString(i)' \in {GetString(i), NoString}
<1>1. ASSUME IInv, [Next]_vars PROVE Step
  <2>0. next_id \in Nat /\ next_id <= kInvalidId
    BY <1>1, SegmentAssumption DEF IInv, TypeOK
  <2>1. \A i \in Ids : Contents[i] = GetString(i) /\ Contents'[i] = GetString(i)'
    BY DEF Contents
  <2>2. [Abstract!Next]_(Abstract!absVars)
    BY <1>1, NextAbstract
  <2>3. ASSUME NEW v \in Values, Abstract!InsertNew(v) PROVE Step
    <3>1. Contents' = [Contents EXCEPT ![next_id] = v]
      BY <2>3 DEF Abstract!InsertNew
    <3>2. \A i \in Ids : i # next_id => Contents'[i] = Contents[i]
      BY <3>1 DEF Contents
    <3>3. \A i \in Ids : i < next_id => i # next_id
      BY <2>0
    <3> QED
      BY <2>0, <2>1, <2>3, <3>2, <3>3 DEF Abstract!InsertNew
  <2>4. ASSUME NEW j \in Ids, Abstract!Erase(j) PROVE Step
    <3>1. \A i \in Ids : Contents'[i] \in {Contents[i], NoString}
      BY <2>4 DEF Abstract!Erase, Contents
    <3> QED
      BY <2>0, <2>1, <2>4, <3>1 DEF Abstract!Erase
  <2>5. ASSUME Contents' = Contents, next_id' \in {next_id, next_id + 1} PROVE Step
    BY <2>0, <2>1, <2>5
  <2>6. Abstract!Ids = Ids
    BY DEF Abstract!Ids, Ids
  <2> HIDE DEF Step
  <2> QED
    BY <2>2, <2>3, <2>4, <2>5, <2>6
    DEF Abstract!Next, Abstract!absVars, Abstract!InsertKnown, Abstract!InsertFails,
        Abstract!Maintain
<1> QED
  BY <1>1, InvariantHolds, PTL DEF Spec, IdsAreNeverReused

-----------------------------------------------------------------------------
(* Prefix scans. *)

LEMMA BasePrefixMembers ==
    ASSUME IInv, NEW P \in SUBSET Values, NEW i \in BasePrefix(P)
    PROVE  i \in LiveIds /\ GetString(i) \in P /\ base.entries[i] # NoString
<1> USE DEF IInv
<1>1. i \in Ids /\ i \notin tombstones /\ base.entries[i] \in P
  BY DEF BasePrefix, BaseMatches, BaseIndexSound, TypeOK, BaseSegment, Indexes
<1>2. base.entries[i] # NoString
  BY <1>1, SegmentAssumption
<1>3. delta.entries[i] \in {NoString, base.entries[i]}
  BY <1>1, <1>2 DEF DeltaIsLive
<1> QED
  BY <1>1, <1>2, <1>3 DEF LiveIds, ContainsId, GetString

LEMMA DeltaPrefixMembers ==
    ASSUME IInv, NEW P \in SUBSET Values, NEW i \in Ids
    PROVE  i \in DeltaPrefix(P) <=> i \notin tombstones /\ delta.entries[i] \in P
BY SegmentAssumption
   DEF IInv, DeltaPrefix, DeltaMatches, DeltaIndexExact, TypeOK, DeltaSegment, Entries, Present

\* for_each_with_prefix finds exactly the live matches, whichever index serves it.
THEOREM PrefixComplete == Spec => []PrefixFindsLiveMatches
<1>1. ASSUME IInv PROVE PrefixFindsLiveMatches
  <2> SUFFICES ASSUME NEW P \in SUBSET Values
               PROVE  BasePrefix(P) \cup DeltaPrefix(P) = {i \in LiveIds : GetString(i) \in P}
    BY DEF PrefixFindsLiveMatches
  <2> USE <1>1
  <2>0. LiveIds \in SUBSET Ids
    BY DEF LiveIds
  <2>1. ASSUME NEW i \in DeltaPrefix(P) PROVE i \in LiveIds /\ GetString(i) \in P
    <3>1. i \in Ids
      BY DEF DeltaPrefix, DeltaMatches, Present
    <3>2. i \notin tombstones /\ delta.entries[i] \in P
      BY <3>1, DeltaPrefixMembers
    <3>3. delta.entries[i] # NoString
      BY <3>2, SegmentAssumption
    <3> QED
      BY <3>1, <3>2, <3>3 DEF LiveIds, ContainsId, GetString
  <2>2. ASSUME NEW i \in LiveIds, GetString(i) \in P
        PROVE  i \in BasePrefix(P) \/ i \in DeltaPrefix(P)
    <3>1. i \in Ids /\ i \notin tombstones
      BY DEF LiveIds, ContainsId
    <3>2. CASE delta.entries[i] # NoString
      BY <2>2, <3>1, <3>2, DeltaPrefixMembers DEF GetString
    <3>3. CASE delta.entries[i] = NoString
      <4>1. base.entries[i] \in P
        BY <2>2, <3>1, <3>3 DEF GetString
      <4>2. base.index[base.entries[i]] = i
        BY <3>1, <3>3, <4>1 DEF IInv, BaseIndexComplete
      <4> QED
        BY <3>1, <4>1, <4>2, IdFacts DEF BasePrefix, BaseMatches
    <3> QED
      BY <3>2, <3>3
  <2> QED
    BY <2>0, <2>1, <2>2, BasePrefixMembers
<1> QED
  BY <1>1, InvariantHolds, PTL

\* Every live string fits one arena at once: no compaction ever aborts.
ArenaHoldsAllStrings == IsFiniteSet(Values) /\ Cardinality(Values) <= ArenaCap

LEMMA NoAbort == ASSUME IInv, ArenaHoldsAllStrings PROVE RebuildFits(Contents)
<1> DEFINE f == [i \in LiveIds |-> GetString(i)]
<1>1. f \in [LiveIds -> Values]
  BY ContentsFacts DEF IInv, Entries
<1>2. f \in Injection(LiveIds, Values)
  BY <1>1, ContentsFacts DEF IInv, LiveStringsDistinct, Injection, IsInjective
<1>3. Cardinality(LiveIds) <= Cardinality(Values) /\ IsFiniteSet(LiveIds)
  BY <1>2, FS_Injection DEF ArenaHoldsAllStrings
<1> QED
  BY <1>3, ContentsFacts, FS_CardinalityType, SegmentAssumption
  DEF IInv, RebuildFits, ArenaHoldsAllStrings

SegmentsDisjoint ==
    \A i \in Ids : base.entries[i] = NoString \/ delta.entries[i] = NoString

LEMMA NextDisjoint ==
    ASSUME IInv, ArenaHoldsAllStrings, SegmentsDisjoint, [Next]_vars
    PROVE  SegmentsDisjoint'
<1>1. ASSUME NEW v \in Values, InsertNew(v) PROVE SegmentsDisjoint'
  <2>1. next_id \in Ids /\ base.entries[next_id] = NoString /\ base' = base
    BY <1>1, SegmentAssumption DEF IInv, TypeOK, UsedIdsBelowNext, InsertNew, Ids
  <2>2. \A i \in Ids : i # next_id => delta'.entries[i] = delta.entries[i]
    BY <1>1 DEF InsertNew, DeltaInsert, IInv, TypeOK, DeltaSegment, Entries
  <2> QED
    BY <2>1, <2>2 DEF SegmentsDisjoint
<1>2. ASSUME NEW i \in Ids \cup {kInvalidId}, EraseId(i) PROVE SegmentsDisjoint'
  <2>1. \A j \in Ids : delta'.entries[j] \in {delta.entries[j], NoString} /\ base' = base
    BY <1>2 DEF EraseId, DeltaErase, IInv, TypeOK, DeltaSegment, Entries
  <2> QED
    BY <2>1 DEF SegmentsDisjoint
<1>3. ASSUME ReplaceBase PROVE SegmentsDisjoint'
  BY <1>3 DEF ReplaceBase, EmptyDelta, NoEntries, SegmentsDisjoint
<1>4. ASSUME base' = base, delta' = delta PROVE SegmentsDisjoint'
  BY <1>4 DEF SegmentsDisjoint
<1>5. ~CompactAborts
  BY NoAbort DEF CompactAborts
<1>6. ASSUME NEW i, EraseId(i) PROVE i \in Ids
  BY <1>6 DEF EraseId, ContainsId
<1> QED
  BY <1>1, <1>2, <1>3, <1>4, <1>5, <1>6
  DEF Next, Insert, Erase, InsertKnown, InsertOverflowsArena, InsertOverflowsIds,
      EraseIdMisses, EraseValue, EmptyStringRefused, Compact, CompactIfNeeded, Reload,
      ReloadAborts, vars

\* While all live strings fit one arena, a prefix scan reports no id twice.
THEOREM PrefixOnce == ArenaHoldsAllStrings => (Spec => []PrefixReportsOnce)
<1> SUFFICES ASSUME ArenaHoldsAllStrings PROVE Spec => []PrefixReportsOnce
  OBVIOUS
<1>1. Init => SegmentsDisjoint
  BY DEF Init, EmptyBase, NoEntries, SegmentsDisjoint
<1>2. IInv /\ SegmentsDisjoint /\ [Next]_vars => SegmentsDisjoint'
  BY NextDisjoint
<1>3. IInv /\ SegmentsDisjoint => PrefixReportsOnce
  <2> SUFFICES ASSUME IInv, SegmentsDisjoint, NEW P \in SUBSET Values, NEW i \in BasePrefix(P)
               PROVE  i \notin DeltaPrefix(P)
    BY DEF PrefixReportsOnce
  <2>1. i \in Ids /\ delta.entries[i] = NoString
    BY BasePrefixMembers DEF SegmentsDisjoint, LiveIds
  <2> QED
    BY <2>1, DeltaPrefixMembers, SegmentAssumption
<1> QED
  BY <1>1, <1>2, <1>3, InvariantHolds, PTL DEF Spec

-----------------------------------------------------------------------------
(* Compaction. *)

\* After a compaction that succeeds, no policy with thresholds above zero asks for
\* another one: an empty delta and no tombstones reach no threshold, whatever the
\* fractions of nothing are.
THEOREM CompactionIsEnough == Spec => CompactionSettles
<1> DEFINE Settled == \A p \in Policies : p.min_delta_ids > 0 /\ p.min_tombstone_ids > 0
                                            => ~ShouldCompact(p)'
<1>1. ASSUME Compact PROVE Settled
  <2> SUFFICES ASSUME NEW p \in Policies, p.min_delta_ids > 0, p.min_tombstone_ids > 0,
                      ShouldCompact(p)'
               PROVE  FALSE
    OBVIOUS
  <2>1. p.min_delta_ids \in Nat /\ p.min_tombstone_ids \in Nat
    BY PolicyAssumption DEF Policy
  <2>2. delta'.live = 0 /\ tombstones' = {}
    BY <1>1 DEF Compact, ReplaceBase, EmptyDelta
  <2>3. Cardinality(tombstones') = 0
    BY <2>2, FS_EmptySet
  <2>4. delta'.live >= p.min_delta_ids \/ Cardinality(tombstones') >= p.min_tombstone_ids
    BY DEF ShouldCompact
  <2> QED
    BY <2>1, <2>2, <2>3, <2>4
<1>2. ASSUME Next, reply'.kind = "compacted" PROVE Compact
  BY <1>2 DEF Next, Insert, InsertKnown, InsertNew, InsertOverflowsArena, InsertOverflowsIds,
     Erase, EraseId, EraseIdMisses, EraseValue, EmptyStringRefused, CompactAborts,
     CompactIfNeeded, Reload, ReloadAborts, Reply
<1>3. [Next]_vars => [reply'.kind = "compacted" => Settled]_vars
  BY <1>1, <1>2
<1> QED
  BY <1>3, PTL DEF Spec, CompactionSettles
=============================================================================

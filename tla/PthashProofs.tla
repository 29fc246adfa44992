----------------------------- MODULE PthashProofs -----------------------------
(***************************************************************************)
(* Theorems of PthashBimap, for any strings, options, thresholds and any   *)
(* hash functions that are minimal and perfect on the keys they are built  *)
(* for.                                                                    *)
(***************************************************************************)
EXTENDS PthashBimap, FiniteSetTheorems, WellFoundedInduction, TLAPS

\* A nonempty set of natural numbers has its minimum in it: the initial segments
\* below its elements are finite sets, among which one has no smaller one.
LEMMA MinInSet ==
    ASSUME NEW S \in SUBSET Nat, S # {}
    PROVE  Min(S) \in S
<1> DEFINE Below(n) == 0 .. n - 1
           Segments == {Below(n) : n \in S}
<1>1. Segments \subseteq FiniteSubsetsOf(Nat) /\ Segments # {}
  <2>1. ASSUME NEW n \in S
        PROVE  Below(n) \in FiniteSubsetsOf(Nat)
    <3>1. n \in Nat /\ Below(n) \in SUBSET Nat
      OBVIOUS
    <3>2. IsFiniteSet(Below(n))
      BY <3>1, FS_Interval, 0 \in Int, n - 1 \in Int
    <3> QED
      BY <3>1, <3>2 DEF FiniteSubsetsOf
  <2> QED
    BY <2>1
<1>2. PICK s \in Segments : \A t \in Segments : <<t, s>> \notin StrictSubsetOrdering(Nat)
  <2> HIDE DEF Segments
  <2> QED
    BY <1>1, FS_StrictSubsetOrderingWellFounded, WFMin
<1>3. PICK m \in S : s = Below(m)
  OBVIOUS
<1>4. \A k \in S : m <= k
  <2> SUFFICES ASSUME NEW k \in S, k < m
               PROVE  FALSE
    BY S \in SUBSET Nat
  <2>1. k \in Nat /\ m \in Nat
    OBVIOUS
  <2>2. Below(k) \subseteq Below(m) /\ k \in Below(m) /\ k \notin Below(k)
    BY <2>1
  <2>3. Below(m) \in SUBSET Nat /\ Below(k) \in SUBSET Nat
    BY <2>1
  <2>4. <<Below(k), Below(m)>> \in StrictSubsetOrdering(Nat)
    BY <2>2, <2>3 DEF StrictSubsetOrdering
  <2> QED
    BY <2>4, <1>2, <1>3
<1> QED
  BY <1>3, <1>4 DEF Min

\* The ids of n strings are 0 to n - 1, and there are n of them.
LEMMA DenseSize ==
    ASSUME NEW n \in Nat, NEW strings, DOMAIN strings = 0 .. n - 1
    PROVE  Size(strings) = n
BY FS_Interval, 0 \in Int, n - 1 \in Int DEF Size

\* Building puts every string at its id, in the width of their number.
LEMMA BuiltIsWellFormed ==
    ASSUME NEW keys \in SUBSET Values, NEW options,
           options.lambda \in Lambdas, CanBuild(keys, options)
    PROVE  WellFormed(Built(keys, options))
<1> DEFINE seed == Min(WorkingSeeds(keys, options))
           f == Phf[seed, options.lambda, keys]
           placed == InIdOrder(f, keys)
           n == Cardinality(keys)
<1>1. CASE keys = {}
  <2> DEFINE none == <<>>
  <2>1. DOMAIN none = 0 .. 0 - 1 /\ DOMAIN none = {}
    OBVIOUS
  <2>2. Size(none) = 0
    BY <2>1, FS_EmptySet DEF Size
  <2>3. Built(keys, options) = Bimap(none, NoFunction, options.initial_seed, options.lambda)
    BY <1>1 DEF Built
  <2> HIDE DEF none
  <2>4. Dense(none, SelectIdWidth(0))
    BY <2>1, <2>2 DEF Dense
  <2> QED
    BY <2>1, <2>2, <2>3, <2>4 DEF Bimap, Held, WellFormed
<1>2. CASE keys # {}
  <2>1. seed \in Seeds /\ f # NoFunction
    <3>1. WorkingSeeds(keys, options) \in SUBSET Nat /\ WorkingSeeds(keys, options) # {}
      BY <1>2, PthashAssumption DEF WorkingSeeds, CanBuild
    <3>2. seed \in WorkingSeeds(keys, options)
      BY <3>1, MinInSet
    <3> QED
      BY <3>2 DEF WorkingSeeds
  <2>2. IsPerfect(f, keys)
    BY <2>1, PthashAssumption
  <2>3. n \in Nat
    BY PthashAssumption, FS_Subset, FS_CardinalityType
  <2>4. ASSUME NEW i \in 0 .. n - 1
        PROVE  placed[i] \in keys /\ f[placed[i]] = i
    <3>1. \E v \in keys : f[v] = i
      BY <2>2, <2>4 DEF IsPerfect
    <3> QED
      BY <3>1 DEF InIdOrder
  <2>5. DOMAIN placed = 0 .. n - 1
    BY DEF InIdOrder
  <2>6. Size(placed) = n
    BY <2>3, <2>5, DenseSize
  <2>7. Built(keys, options) = Bimap(placed, f, seed, options.lambda)
    BY <1>2 DEF Built
  <2> HIDE DEF placed, f, seed, n
  <2> QED
    BY <2>3, <2>4, <2>5, <2>6, <2>7 DEF Bimap, Held, Dense, WellFormed
<1> QED
  BY <1>1, <1>2
-----------------------------------------------------------------------------
(* The invariant. *)

LEMMA InitInv == Init => PthashInv
<1> SUFFICES ASSUME Init
             PROVE  PthashInv
  OBVIOUS
<1> DEFINE none == <<>>
<1>1. DOMAIN none = 0 .. 0 - 1 /\ DOMAIN none = {}
  OBVIOUS
<1>2. Size(none) = 0
  BY <1>1, FS_EmptySet DEF Size
<1>3. dict = Bimap(none, NoFunction, 0, DefaultLambda) /\ main = Absent
  BY DEF Init, Nothing
<1> HIDE DEF none
<1>4. Dense(none, SelectIdWidth(0))
  BY <1>1, <1>2 DEF Dense
<1> QED
  BY <1>1, <1>2, <1>3, <1>4 DEF PthashInv, WellFormed, WellStored, Held, Bimap

\* rebuild and load(stream) install what Built returns, or nothing.
LEMMA RebuildInv ==
    ASSUME PthashInv,
           NEW values \in SUBSET (Values \cup {EmptyString}), NEW options \in Options,
           Rebuild(values, options)
    PROVE  PthashInv'
<1> DEFINE keys == values \ {EmptyString}
<1>1. keys \in SUBSET Values /\ options.lambda \in Lambdas
  BY PthashAssumption
<1>2. CASE CanBuild(keys, options) /\ dict' = Built(keys, options)
  <2>1. WellFormed(dict')
    BY <1>1, <1>2, BuiltIsWellFormed
  <2> QED
    BY <2>1 DEF PthashInv, Rebuild, WellStored, WellFormed
<1>3. CASE dict' = dict
  BY <1>3 DEF PthashInv, Rebuild, WellStored, WellFormed
<1> QED
  BY <1>2, <1>3 DEF Rebuild

LEMMA ReloadInv ==
    ASSUME PthashInv, Reload
    PROVE  PthashInv'
<1> DEFINE keys == Held(dict.strings)
           options == StoredOptions(dict.seed)
<1>1. keys \in SUBSET Values /\ options.lambda \in Lambdas
  BY PthashAssumption DEF PthashInv, WellFormed, StoredOptions
<1>2. CASE CanBuild(keys, options) /\ dict' = Built(keys, options)
  <2>1. WellFormed(dict')
    BY <1>1, <1>2, BuiltIsWellFormed
  <2> QED
    BY <2>1 DEF PthashInv, Reload, WellStored, WellFormed
<1>3. CASE dict' = dict
  BY <1>3 DEF PthashInv, Reload, WellStored, WellFormed
<1> QED
  BY <1>2, <1>3 DEF Reload

\* load(path) takes only a function that sends every stored string to its id.
LEMMA SidecarFunctionsUsable ==
    ASSUME NEW g \in SidecarFunctions
    PROVE  Usable(g)
<1>1. CASE sidecar = Absent /\ SidecarFunctions = {}
  BY <1>1
<1>2. CASE SidecarFunctions = {h \in Functions : Usable(h)}
  BY <1>2
<1>3. CASE SidecarFunctions = IF sidecar.size = Size(main.strings) /\ Usable(sidecar.mphf)
                              THEN {sidecar.mphf} ELSE {}
  BY <1>3
<1> QED
  BY <1>1, <1>2, <1>3 DEF SidecarFunctions

LEMMA LoadPathInv ==
    ASSUME PthashInv, LoadPath
    PROVE  PthashInv'
<1> DEFINE keys == Held(main.strings)
           options == StoredOptions(main.seed)
<1>1. /\ main \notin {Absent, Torn} /\ main' = main
      /\ keys \in SUBSET Values /\ Dense(main.strings, main.width)
      /\ options.lambda \in Lambdas
  BY PthashAssumption DEF LoadPath, PthashInv, WellStored, StoredOptions
<1>2. ASSUME NEW g \in SidecarFunctions,
             dict' = [strings |-> main.strings, mphf |-> g, seed |-> main.seed,
                      width |-> main.width, lambda |-> main.lambda]
      PROVE  WellFormed(dict')
  <2>1. Usable(g)
    BY SidecarFunctionsUsable
  <2> QED
    BY <1>1, <1>2, <2>1 DEF WellFormed, Usable
<1>3. ASSUME RebuildsInOrder, dict' = Built(keys, options)
      PROVE  WellFormed(dict')
  BY <1>1, <1>3, BuiltIsWellFormed DEF RebuildsInOrder
<1>4. WellFormed(dict')
  BY <1>2, <1>3 DEF LoadPath
<1> QED
  BY <1>1, <1>4 DEF PthashInv, WellStored, WellFormed

\* save(path) writes what memory holds, and a crash leaves an empty dictionary.
LEMMA SaveStepInv ==
    ASSUME PthashInv, UNCHANGED dict, main' \in {main, Torn, Stored}
    PROVE  PthashInv'
BY DEF PthashInv, WellFormed, WellStored, Stored

LEMMA CrashInv ==
    ASSUME PthashInv, Crash
    PROVE  PthashInv'
<1>1. WellFormed(Nothing)
  <2> DEFINE none == <<>>
  <2>1. DOMAIN none = 0 .. 0 - 1 /\ DOMAIN none = {}
    OBVIOUS
  <2>2. Size(none) = 0
    BY <2>1, FS_EmptySet DEF Size
  <2>3. Nothing = Bimap(none, NoFunction, 0, DefaultLambda)
    BY DEF Nothing
  <2> HIDE DEF none
  <2>4. Dense(none, SelectIdWidth(0))
    BY <2>1, <2>2 DEF Dense
  <2> QED
    BY <2>1, <2>2, <2>3, <2>4 DEF Bimap, Held, WellFormed
<1> QED
  BY <1>1 DEF Crash, PthashInv, WellStored, WellFormed

LEMMA StepInv == PthashInv /\ [Next]_vars => PthashInv'
<1> SUFFICES ASSUME PthashInv, [Next]_vars
             PROVE  PthashInv'
  OBVIOUS
<1>1. CASE UNCHANGED vars
  BY <1>1 DEF vars, PthashInv, WellFormed, WellStored
<1>2. ASSUME NEW values \in SUBSET (Values \cup {EmptyString}), NEW options \in Options,
             Rebuild(values, options)
      PROVE  PthashInv'
  BY <1>2, RebuildInv
<1>3. CASE Reload
  BY <1>3, ReloadInv
<1>4. CASE LoadPath
  BY <1>4, LoadPathInv
<1>5. CASE SaveOpens \/ SaveThrows \/ SidecarOpens \/ SidecarDone \/ LoadPathThrows
  BY <1>5, SaveStepInv DEF SaveOpens, SaveThrows, SidecarOpens, SidecarDone, LoadPathThrows
<1>6. CASE SidecarThrows \/ SaveCloses
  BY <1>6, SaveStepInv DEF SidecarThrows, SaveCloses
<1>7. CASE Crash
  BY <1>7, CrashInv
<1> QED
  BY <1>1, <1>2, <1>3, <1>4, <1>5, <1>6, <1>7 DEF Next

\* Strings, hash function and width agree in memory, and files hold what a load
\* may trust, in every reachable state.
THEOREM PthashInvariant == Spec => []PthashInv
<1> QED
  BY InitInv, StepInv, PTL DEF Spec

\* find and by_id are inverse to each other: a load never installs a hash function
\* of other strings.
THEOREM PthashLookupsAgree == Spec => []FindInvertsById
<1>1. PthashInv => FindInvertsById
  BY DEF PthashInv, WellFormed, FindInvertsById, Find
<1> QED
  BY <1>1, PthashInvariant, PTL

\* Every id survives the cast to the width chosen for the number of strings.
THEOREM CompactIdsFit == Spec => []CompactIdsRoundTrip
<1>1. ASSUME NEW i \in Nat, NEW k \in Nat, i < k
      PROVE  i % k = i
  BY <1>1
<1>2. ASSUME PthashInv, NEW i \in DOMAIN dict.strings
      PROVE  CompactId(i) = i
  <2>1. /\ i \in Nat /\ i < Size(dict.strings) /\ Size(dict.strings) \in Nat
        /\ dict.width = SelectIdWidth(Size(dict.strings))
    BY <1>2 DEF PthashInv, WellFormed, Dense
  <2>2. /\ dict.width = 1 => i < U8Ids
        /\ dict.width = 2 => i < U16Ids
    <3> DEFINE n == Size(dict.strings)
    <3>1. n \in Nat /\ i \in Nat /\ i < n /\ U8Ids \in Nat /\ U16Ids \in Nat
      BY <2>1, PthashAssumption
    <3>2. dict.width = IF n <= U8Ids THEN 1 ELSE IF n <= U16Ids THEN 2 ELSE 4
      BY <2>1 DEF SelectIdWidth
    <3> HIDE DEF n
    <3> QED
      BY <3>1, <3>2
  <2>3. U8Ids \in Nat /\ U16Ids \in Nat
    BY PthashAssumption
  <2> QED
    BY <1>1, <2>1, <2>2, <2>3 DEF CompactId
<1>3. PthashInv => CompactIdsRoundTrip
  BY <1>2 DEF CompactIdsRoundTrip
<1> QED
  BY <1>3, PthashInvariant, PTL

-----------------------------------------------------------------------------
(* What a load needs: the seed that worked, and whole files. *)

\* A function built for keys puts back exactly the keys.
LEMMA HeldInOrder ==
    ASSUME NEW keys \in SUBSET Values, NEW f \in Functions, IsPerfect(f, keys)
    PROVE  Held(InIdOrder(f, keys)) = keys
<1> DEFINE n == Cardinality(keys)
           ids == 0 .. n - 1
           g == [v \in keys |-> f[v]]
<1>1. IsFiniteSet(keys) /\ n \in Nat
  BY PthashAssumption, FS_Subset, FS_CardinalityType
<1>2. g \in Surjection(keys, ids)
  BY DEF IsPerfect, Surjection
<1>3. Cardinality(ids) = n
  BY <1>1, FS_Interval, 0 \in Int, n - 1 \in Int
<1>4. \A v, w \in keys : f[v] = f[w] => v = w
  <2>1. g \in Injection(keys, ids)
    BY <1>1, <1>2, <1>3, FS_SurjSameCardinalityImpliesInj
  <2> QED
    BY <2>1 DEF Injection, IsInjective
<1>5. ASSUME NEW i \in ids
      PROVE  InIdOrder(f, keys)[i] \in keys
  <2>1. \E v \in keys : f[v] = i
    BY <1>5 DEF IsPerfect
  <2> QED
    BY <2>1 DEF InIdOrder
<1>6. ASSUME NEW v \in keys
      PROVE  f[v] \in ids /\ InIdOrder(f, keys)[f[v]] = v
  <2>1. f[v] \in ids
    BY DEF IsPerfect
  <2>2. InIdOrder(f, keys)[f[v]] = CHOOSE w \in keys : f[w] = f[v]
    BY <2>1 DEF InIdOrder
  <2> QED
    BY <1>4, <2>1, <2>2
<1>7. DOMAIN InIdOrder(f, keys) = ids
  BY DEF InIdOrder
<1> HIDE DEF ids
<1> QED
  BY <1>5, <1>6, <1>7 DEF Held

\* The stored seed alone gives back the strings of a dictionary of the default lambda.
Rebuilds(b) ==
    b.lambda = DefaultLambda =>
        /\ CanBuild(Held(b.strings), StoredOptions(b.seed))
        /\ Built(Held(b.strings), StoredOptions(b.seed)).strings = b.strings

\* The types of PthashTypeOK that are no part of PthashInv.
BuiltSoundly(b) ==
    /\ b.mphf \in Functions \cup {NoFunction}
    /\ b.strings # <<>> => b.mphf # NoFunction

LEMMA NoKeys ==
    ASSUME NEW strings, strings = <<>>, NEW seed
    PROVE  /\ Held(strings) = {}
           /\ CanBuild(Held(strings), StoredOptions(seed))
           /\ Built(Held(strings), StoredOptions(seed)).strings = strings
<1>1. DOMAIN strings = {}
  OBVIOUS
<1>2. Held(strings) = {}
  BY <1>1 DEF Held
<1> QED
  BY <1>2 DEF CanBuild, Built, Bimap

LEMMA OneNumber ==
    ASSUME NEW s \in Nat, NEW t \in Nat
    PROVE  s <= t /\ t < s + 1 <=> t = s
OBVIOUS

LEMMA OneSeed ==
    ASSUME NEW s \in Seeds, NEW keys, NEW options,
           options.initial_seed = s, options.max_seed_attempts = 1,
           Phf[s, options.lambda, keys] # NoFunction
    PROVE  WorkingSeeds(keys, options) = {s} /\ Min({s}) = s
<1>1. s \in Nat /\ \A t \in Seeds : t \in Nat
  BY PthashAssumption, Zenon
<1>2. \A t \in Seeds : s <= t /\ t < s + 1 <=> t = s
  BY <1>1, OneNumber, Zenon
<1>3. \A t : t \in WorkingSeeds(keys, options) <=> t = s
  <2>1. ASSUME NEW t \in WorkingSeeds(keys, options) PROVE t = s
    <3>1. t \in Seeds /\ s <= t /\ t < s + 1
      BY <2>1, Zenon DEF WorkingSeeds
    <3> QED
      BY <3>1, <1>2, Zenon
  <2>2. s <= s /\ s < s + 1
    BY <1>2, Zenon
  <2>3. s \in WorkingSeeds(keys, options)
    BY <2>2, Zenon DEF WorkingSeeds
  <2> QED
    BY <2>1, <2>3, Zenon
<1>4. {s} \in SUBSET Nat /\ {s} # {}
  BY <1>1, Zenon
<1>5. Min({s}) \in {s}
  BY <1>4, MinInSet, Zenon
<1> QED
  BY <1>3, <1>5, Zenon

LEMMA BuiltRebuilds ==
    ASSUME NEW keys \in SUBSET Values, NEW options,
           options.lambda \in Lambdas, CanBuild(keys, options)
    PROVE  Rebuilds(Built(keys, options)) /\ BuiltSoundly(Built(keys, options))
<1> DEFINE seed == Min(WorkingSeeds(keys, options))
           f == Phf[seed, options.lambda, keys]
           placed == InIdOrder(f, keys)
           stored == StoredOptions(seed)
<1>1. CASE keys = {}
  <2> DEFINE none == <<>>
  <2>1. Built(keys, options) = Bimap(none, NoFunction, options.initial_seed, options.lambda)
    BY <1>1 DEF Built
  <2>2. /\ CanBuild(Held(none), StoredOptions(options.initial_seed))
        /\ Built(Held(none), StoredOptions(options.initial_seed)).strings = none
    BY NoKeys
  <2> QED
    BY <2>1, <2>2 DEF Rebuilds, BuiltSoundly, Bimap
<1>2. CASE keys # {}
  <2>1. seed \in WorkingSeeds(keys, options)
    <3>1. WorkingSeeds(keys, options) \in SUBSET Nat /\ WorkingSeeds(keys, options) # {}
      BY <1>2, PthashAssumption DEF WorkingSeeds, CanBuild
    <3> QED
      BY <3>1, MinInSet
  <2>2. seed \in Seeds /\ seed \in Nat /\ f # NoFunction
    BY <2>1, PthashAssumption DEF WorkingSeeds
  <2>3. f \in Functions /\ IsPerfect(f, keys)
    BY <2>2, PthashAssumption
  <2>4. Held(placed) = keys
    BY <2>3, HeldInOrder
  <2>5. Built(keys, options) = Bimap(placed, f, seed, options.lambda)
    BY <1>2 DEF Built
  <2>6. ASSUME options.lambda = DefaultLambda
        PROVE  CanBuild(keys, stored) /\ Built(keys, stored).strings = placed
    <3>1. stored.initial_seed = seed /\ stored.max_seed_attempts = 1 /\ stored.lambda = options.lambda
      BY <2>6 DEF StoredOptions
    <3>2. WorkingSeeds(keys, stored) = {seed} /\ Min({seed}) = seed
      <4>1. Phf[seed, stored.lambda, keys] # NoFunction
        BY <2>2, <3>1, Zenon DEF f
      <4> HIDE DEF seed, stored
      <4> QED
        BY <2>2, <3>1, <4>1, OneSeed, Zenon
    <3>3. Built(keys, stored) = Bimap(placed, f, seed, options.lambda)
      BY <1>2, <3>1, <3>2 DEF Built
    <3>4. CanBuild(keys, stored)
      BY <3>2 DEF CanBuild
    <3> HIDE DEF placed, f, seed, stored
    <3> QED
      BY <3>3, <3>4 DEF Bimap
  <2> HIDE DEF placed, f, seed
  <2> QED
    BY <2>2, <2>3, <2>4, <2>5, <2>6 DEF Rebuilds, BuiltSoundly, Bimap
<1> QED
  BY <1>1, <1>2

\* Only the strings, the seed and the lambda decide whether a dictionary rebuilds.
LEMMA SameRebuilds ==
    ASSUME NEW a, NEW b, Rebuilds(a),
           b.strings = a.strings, b.seed = a.seed, b.lambda = a.lambda
    PROVE  Rebuilds(b)
BY Zenon DEF Rebuilds

\* The seed kept in memory and in a whole file is the one that worked.
SeedInv == Rebuilds(dict) /\ (main \notin {Absent, Torn} => Rebuilds(main))

LEMMA NothingRebuilds == Rebuilds(Nothing) /\ BuiltSoundly(Nothing)
<1> DEFINE none == <<>>
<1>1. Nothing.strings = none /\ Nothing.mphf = NoFunction /\ Nothing.seed = 0
  BY DEF Nothing, Bimap
<1>2. /\ CanBuild(Held(none), StoredOptions(0))
      /\ Built(Held(none), StoredOptions(0)).strings = none
  BY NoKeys
<1> HIDE DEF none
<1>3. Rebuilds(Nothing)
  BY <1>1, <1>2, Zenon DEF Rebuilds
<1>4. BuiltSoundly(Nothing)
  BY <1>1 DEF BuiltSoundly, none
<1> QED
  BY <1>3, <1>4

\* What a step may put into memory: what Built returns, or the strings of the file
\* under the function of the other file.
IsBuilt(b) ==
    \E keys \in SUBSET Values : \E options :
        options.lambda \in Lambdas /\ CanBuild(keys, options) /\ b = Built(keys, options)
IsLoaded(b) ==
    /\ main \notin {Absent, Torn}
    /\ \E f \in SidecarFunctions :
          b = [strings |-> main.strings, mphf |-> f, seed |-> main.seed,
               width |-> main.width, lambda |-> main.lambda]

LEMMA NewDict ==
    ASSUME PthashInv, [Next]_vars
    PROVE  dict' = dict \/ dict' = Nothing \/ IsBuilt(dict') \/ IsLoaded(dict')
<1>1. ASSUME NEW values \in SUBSET (Values \cup {EmptyString}), NEW options \in Options,
             Rebuild(values, options)
      PROVE  dict' = dict \/ IsBuilt(dict')
  <2>1. values \ {EmptyString} \in SUBSET Values /\ options.lambda \in Lambdas
    BY PthashAssumption
  <2> QED
    BY <1>1, <2>1, Zenon DEF Rebuild, IsBuilt
<1>2. ASSUME Reload
      PROVE  dict' = dict \/ IsBuilt(dict')
  <2>1. Held(dict.strings) \in SUBSET Values /\ StoredOptions(dict.seed).lambda \in Lambdas
    BY PthashAssumption DEF PthashInv, WellFormed, StoredOptions
  <2> QED
    BY <1>2, <2>1, Zenon DEF Reload, IsBuilt
<1>3. ASSUME LoadPath
      PROVE  IsBuilt(dict') \/ IsLoaded(dict')
  <2>1. /\ main \notin {Absent, Torn} /\ Held(main.strings) \in SUBSET Values
        /\ StoredOptions(main.seed).lambda \in Lambdas
    BY <1>3, PthashAssumption DEF LoadPath, PthashInv, WellStored, StoredOptions
  <2>2. CASE \E f \in SidecarFunctions :
               dict' = [strings |-> main.strings, mphf |-> f, seed |-> main.seed,
                        width |-> main.width, lambda |-> main.lambda]
    BY <2>1, <2>2, Zenon DEF IsLoaded
  <2>3. CASE RebuildsInOrder /\ dict' = Built(Held(main.strings), StoredOptions(main.seed))
    BY <2>1, <2>3, Zenon DEF RebuildsInOrder, IsBuilt
  <2> QED
    BY <1>3, <2>2, <2>3, Zenon DEF LoadPath
<1>4. CASE SaveOpens \/ SaveThrows \/ SidecarOpens \/ SidecarDone \/ LoadPathThrows
  BY <1>4 DEF SaveOpens, SaveThrows, SidecarOpens, SidecarDone, LoadPathThrows
<1>5. CASE SidecarThrows \/ SaveCloses \/ UNCHANGED vars
  BY <1>5 DEF SidecarThrows, SaveCloses, vars
<1>6. CASE Crash
  BY <1>6 DEF Crash
<1> QED
  BY <1>1, <1>2, <1>3, <1>4, <1>5, <1>6, Zenon DEF Next

\* A save writes the strings, the seed and the lambda as they are in memory.
LEMMA NewMain ==
    ASSUME [Next]_vars
    PROVE  main' \in {main, Torn} \/ (main' = Stored /\ UNCHANGED dict)
BY DEF Next, Rebuild, Reload, LoadPath, LoadPathThrows, SaveOpens, SaveThrows,
       SidecarOpens, SidecarDone, SidecarThrows, SaveCloses, Crash, vars

LEMMA BuiltIsSound ==
    ASSUME NEW b, IsBuilt(b)
    PROVE  Rebuilds(b) /\ BuiltSoundly(b)
<1>0. PICK keys \in SUBSET Values : \E options :
           options.lambda \in Lambdas /\ CanBuild(keys, options) /\ b = Built(keys, options)
  BY Zenon DEF IsBuilt
<1>1. PICK options :
           options.lambda \in Lambdas /\ CanBuild(keys, options) /\ b = Built(keys, options)
  BY <1>0
<1>2. Rebuilds(Built(keys, options)) /\ BuiltSoundly(Built(keys, options))
  BY <1>1, BuiltRebuilds, Zenon
<1> QED
  BY <1>1, <1>2, Zenon

LEMMA StepSeed == PthashInv /\ SeedInv /\ [Next]_vars => SeedInv'
<1> SUFFICES ASSUME PthashInv, SeedInv, [Next]_vars
             PROVE  SeedInv'
  OBVIOUS
<1>1. Rebuilds(dict')
  <2>1. CASE dict' = dict \/ dict' = Nothing \/ IsBuilt(dict')
    BY <2>1, NothingRebuilds, BuiltIsSound, Zenon DEF SeedInv
  <2>2. CASE IsLoaded(dict')
    <3>1. /\ Rebuilds(main)
          /\ dict'.strings = main.strings /\ dict'.seed = main.seed /\ dict'.lambda = main.lambda
      <4>1. Rebuilds(main)
        BY <2>2, Zenon DEF IsLoaded, SeedInv
      <4> QED
        BY <2>2, <4>1 DEF IsLoaded
    <3> QED
      BY <3>1, SameRebuilds, Zenon
  <2> QED
    BY <2>1, <2>2, NewDict, Zenon
<1>2. ASSUME main' \notin {Absent, Torn}
      PROVE  Rebuilds(main')
  <2>1. CASE main' = main
    BY <1>2, <2>1, Zenon DEF SeedInv
  <2>2. CASE main' = Stored
    <3>1. /\ Stored.strings = dict.strings /\ Stored.seed = dict.seed
          /\ Stored.lambda = dict.lambda
      BY DEF Stored
    <3>2. Rebuilds(dict)
      BY Zenon DEF SeedInv
    <3>3. Rebuilds(Stored)
      BY <3>1, <3>2, SameRebuilds, Zenon
    <3> QED
      BY <2>2, <3>3, Zenon
  <2> QED
    BY <1>2, <2>1, <2>2, NewMain, Zenon
<1> QED
  BY <1>1, <1>2, Zenon DEF SeedInv

\* The strings of a whole file and its seed bring back a dictionary of the default
\* lambda, ids and all, without the hash function: load(path) needs no sidecar for it.
THEOREM SeedSuffices == Spec => []DefaultLambdaNeedsNoSidecar
<1>1. Init => SeedInv
  BY NothingRebuilds, Zenon DEF Init, SeedInv
<1>2. SeedInv => DefaultLambdaNeedsNoSidecar
  BY Zenon DEF SeedInv, Rebuilds, DefaultLambdaNeedsNoSidecar, RebuildsInOrder
<1> QED
  BY <1>1, <1>2, StepSeed, PthashInvariant, PTL DEF Spec

-----------------------------------------------------------------------------
(* The files a save leaves. *)

\* There are no more ids than strings: the function sends every id's string back.
LEMMA SizeBounded ==
    ASSUME NEW b, WellFormed(b)
    PROVE  Size(b.strings) \in 0 .. Cardinality(Values)
<1> DEFINE ids == DOMAIN b.strings
           g == [i \in ids |-> b.strings[i]]
<1>1. Held(b.strings) \subseteq Values /\ Size(b.strings) \in Nat
      /\ \A i \in ids : b.mphf[b.strings[i]] = i
  BY Zenon DEF WellFormed, Dense
<1>2. \A i \in ids : b.strings[i] \in Values
  BY <1>1, Zenon DEF Held
<1>3. g \in [ids -> Values]
  BY <1>2, Zenon
<1>4. \A i, j \in ids : b.strings[i] = b.strings[j] => i = j
  BY <1>1, Zenon
<1>5. \A i, j \in ids : g[i] = g[j] => i = j
  BY <1>4, Zenon
<1> HIDE DEF ids, g
<1>6. g \in Injection(ids, Values)
  BY <1>3, <1>5 DEF Injection, IsInjective
<1>7. IsFiniteSet(Values)
  BY PthashAssumption, Zenon
<1>8. Cardinality(ids) <= Cardinality(Values) /\ Cardinality(Values) \in Nat
  BY <1>6, <1>7, FS_Injection, FS_CardinalityType, Zenon
<1> QED
  BY <1>1, <1>8 DEF Size, ids

\* How the hash function of the dictionary in memory is written.
SidecarOf(b) == [size |-> Size(b.strings), mphf |-> b.mphf]

\* The hash function in memory and in a whole file is one; a save that has written
\* it has written that of the dictionary in memory.
SaveInv ==
    /\ BuiltSoundly(dict)
    /\ mode \in {"ready", "opened", "indexing", "indexed"}
    /\ reply \in {"none", "built", "saved", "loaded", "threw"}
    /\ sidecar \notin {Absent, Torn} => sidecar.mphf \in Functions
    /\ mode = "indexing" => dict.strings # <<>>
    /\ mode = "indexed" /\ dict.strings # <<>> => sidecar \in {Torn, SidecarOf(dict)}

\* The function in the sidecar is one of the strings in the file.
Matching ==
    sidecar # Absent /\ sidecar.size = Size(main.strings) /\ Usable(sidecar.mphf)

\* After a save that lost nothing the two files belong together.
FilesMatch ==
    intact =>
        /\ mode = "ready" /\ sidecar # Torn
        /\ main.strings # <<>> => Matching

LEMMA SidecarWhole ==
    ASSUME WellFormed(dict), BuiltSoundly(dict), dict.strings # <<>>
    PROVE  SidecarOf(dict).mphf \in Functions /\ SidecarOf(dict) \notin {Absent, Torn}
<1>1. dict.mphf \in Functions
  BY Zenon DEF BuiltSoundly
<1>2. Size(dict.strings) \in 0 .. Cardinality(Values)
  BY SizeBounded, Zenon
<1>3. SidecarOf(dict) \notin {Absent, Torn}
  BY <1>1, <1>2, FileAssumption, Zenon DEF SidecarOf
<1>4. SidecarOf(dict).mphf = dict.mphf
  BY DEF SidecarOf
<1> QED
  BY <1>1, <1>3, <1>4, Zenon

\* load(path) takes a function of the file, never something else.
LEMMA SidecarFunctionsTyped ==
    ASSUME SaveInv, NEW g \in SidecarFunctions
    PROVE  g \in Functions
<1>1. CASE sidecar \in {Absent, Torn}
  <2>1. SidecarFunctions \subseteq Functions
    BY <1>1 DEF SidecarFunctions
  <2> QED
    BY <2>1
<1>2. CASE sidecar \notin {Absent, Torn}
  <2>1. SidecarFunctions \subseteq {sidecar.mphf}
    BY <1>2 DEF SidecarFunctions
  <2>2. sidecar.mphf \in Functions
    BY <1>2, Zenon DEF SaveInv
  <2> QED
    BY <2>1, <2>2
<1> QED
  BY <1>1, <1>2

LEMMA NewDictSound ==
    ASSUME PthashInv, SaveInv, [Next]_vars
    PROVE  BuiltSoundly(dict')
<1>1. CASE dict' = dict \/ dict' = Nothing \/ IsBuilt(dict')
  BY <1>1, NothingRebuilds, BuiltIsSound, Zenon DEF SaveInv
<1>2. CASE IsLoaded(dict')
  <2>1. PICK g \in SidecarFunctions : dict'.mphf = g
    BY <1>2 DEF IsLoaded
  <2>2. g \in Functions
    BY SidecarFunctionsTyped, Zenon
  <2>3. g # NoFunction
    BY <2>2, FileAssumption, Zenon
  <2> QED
    BY <2>1, <2>2, <2>3, Zenon DEF BuiltSoundly
<1> QED
  BY <1>1, <1>2, NewDict, Zenon

\* What an action other than those of save does to the state of a save.
LEMMA OtherSteps ==
    ASSUME [Next]_vars,
           ~(SaveOpens \/ SaveThrows \/ SidecarOpens \/ SidecarDone \/ SidecarThrows \/ SaveCloses)
    PROVE  /\ UNCHANGED <<main, sidecar, intact>>
           /\ mode' = "ready" \/ UNCHANGED <<mode, dict>>
           /\ reply' \in {reply, "none", "built", "loaded", "threw"}
<1>1. CASE \E values \in SUBSET (Values \cup {EmptyString}), options \in Options :
              Rebuild(values, options)
  BY <1>1 DEF Rebuild
<1>2. CASE Reload \/ LoadPath \/ LoadPathThrows \/ Crash \/ UNCHANGED vars
  BY <1>2 DEF Reload, LoadPath, LoadPathThrows, Crash, vars
<1> QED
  BY <1>1, <1>2, Zenon DEF Next

LEMMA StepSave == PthashInv /\ SaveInv /\ [Next]_vars => SaveInv'
<1> SUFFICES ASSUME PthashInv, SaveInv, [Next]_vars
             PROVE  SaveInv'
  OBVIOUS
<1>1. BuiltSoundly(dict')
  BY NewDictSound, Zenon
<1>2. WellFormed(dict) /\ BuiltSoundly(dict)
  BY Zenon DEF PthashInv, SaveInv
<1>3. CASE SaveOpens \/ SaveThrows \/ SidecarOpens
  BY <1>1, <1>3 DEF SaveInv, SaveOpens, SaveThrows, SidecarOpens
<1>4. CASE SidecarDone
  <2>1. dict' = dict /\ reply' = reply /\ mode = "indexing" /\ mode' = "indexed"
        /\ sidecar' \in {Torn, SidecarOf(dict)}
    BY <1>4, Zenon DEF SidecarDone, SidecarOf
  <2>2. SidecarOf(dict).mphf \in Functions
    BY <1>2, <2>1, SidecarWhole, Zenon DEF SaveInv
  <2>3. SidecarOf(dict)' = SidecarOf(dict)
    BY <2>1 DEF SidecarOf, Size
  <2> QED
    BY <1>1, <2>1, <2>2, <2>3 DEF SaveInv
<1>5. CASE SidecarThrows \/ SaveCloses
  BY <1>1, <1>5 DEF SaveInv, SidecarThrows, SaveCloses
<1>6. CASE ~(SaveOpens \/ SaveThrows \/ SidecarOpens \/ SidecarDone \/ SidecarThrows \/ SaveCloses)
  <2>1. /\ sidecar' = sidecar
        /\ mode' = "ready" \/ (mode' = mode /\ dict' = dict)
        /\ reply' \in {reply, "none", "built", "loaded", "threw"}
    BY <1>6, OtherSteps, Zenon
  <2>2. CASE mode' = "ready"
    BY <1>1, <2>1, <2>2 DEF SaveInv
  <2>3. CASE mode' = mode /\ dict' = dict
    <3>1. SidecarOf(dict)' = SidecarOf(dict)
      BY <2>3 DEF SidecarOf, Size
    <3> QED
      BY <1>1, <2>1, <2>3, <3>1 DEF SaveInv
  <2> QED
    BY <2>1, <2>2, <2>3, Zenon
<1> QED
  BY <1>3, <1>4, <1>5, <1>6, Zenon

LEMMA StepFiles == PthashInv /\ SaveInv /\ FilesMatch /\ [Next]_vars => FilesMatch'
<1> SUFFICES ASSUME PthashInv, SaveInv, FilesMatch, [Next]_vars, intact'
             PROVE  /\ mode' = "ready" /\ sidecar' # Torn
                    /\ main'.strings # <<>> => Matching'
  BY Zenon DEF FilesMatch
<1>1. CASE SaveCloses
  <2>1. /\ dict' = dict /\ sidecar' = sidecar /\ mode = "indexed" /\ mode' = "ready"
        /\ main' = Stored /\ sidecar # Torn
    BY <1>1, Zenon DEF SaveCloses
  <2>2. main'.strings = dict.strings
    BY <2>1 DEF Stored
  <2>3. ASSUME dict.strings # <<>>
        PROVE  /\ sidecar # Absent /\ sidecar.size = Size(dict.strings)
               /\ sidecar.mphf = dict.mphf
    <3>1. sidecar = SidecarOf(dict)
      BY <2>1, <2>3, Zenon DEF SaveInv
    <3>2. sidecar # Absent
      BY <2>3, <3>1, SidecarWhole, Zenon DEF PthashInv, SaveInv
    <3> QED
      BY <3>1, <3>2 DEF SidecarOf
  <2>4. \A i \in DOMAIN dict.strings : dict.mphf[dict.strings[i]] = i
    BY Zenon DEF PthashInv, WellFormed
  <2> QED
    BY <2>1, <2>2, <2>3, <2>4, Zenon DEF Matching, Usable, Size
<1>2. CASE SaveOpens
  BY <1>2, Zenon DEF SaveOpens
<1>3. CASE SaveThrows \/ SidecarOpens \/ SidecarDone \/ SidecarThrows
  <2>1. intact' = intact /\ mode # "ready"
    BY <1>3 DEF SaveThrows, SidecarOpens, SidecarDone, SidecarThrows
  <2> QED
    BY <2>1, Zenon DEF FilesMatch
<1>4. CASE ~(SaveOpens \/ SaveThrows \/ SidecarOpens \/ SidecarDone \/ SidecarThrows \/ SaveCloses)
  <2>1. /\ sidecar' = sidecar /\ main' = main /\ intact' = intact
        /\ mode' = "ready" \/ mode' = mode
    BY <1>4, OtherSteps, Zenon
  <2>2. Matching' <=> Matching
    BY <2>1, Zenon DEF Matching, Usable, Size
  <2> QED
    BY <2>1, <2>2, Zenon DEF FilesMatch
<1> QED
  BY <1>1, <1>2, <1>3, <1>4, Zenon

LEMMA InitFiles == Init => SaveInv /\ FilesMatch
<1> SUFFICES ASSUME Init
             PROVE  SaveInv /\ FilesMatch
  OBVIOUS
<1>1. BuiltSoundly(dict)
  BY NothingRebuilds, Zenon DEF Init
<1> QED
  BY <1>1 DEF Init, SaveInv, FilesMatch

\* Whatever is interrupted, the dictionary in memory is dense and its width that of
\* its size, and only one with strings has a hash function.
THEOREM PthashTypes == Spec => []PthashTypeOK
<1>1. PthashInv /\ SaveInv => PthashTypeOK
  BY DEF PthashInv, SaveInv, BuiltSoundly, PthashTypeOK, WellFormed, Dense
<1> QED
  BY <1>1, InitFiles, StepSave, PthashInvariant, PTL DEF Spec

\* What a completed save left can be loaded, whatever an earlier save or a crash
\* left at the same path.
THEOREM CompletedSavesLoad == Spec => []CompletedSaveLoads
<1>1. ASSUME FilesMatch
      PROVE  CompletedSaveLoads
  <2> SUFFICES ASSUME intact, SidecarFunctions = {}
               PROVE  SidecarRefused /\ RebuildsInOrder
    BY Zenon DEF CompletedSaveLoads
  <2>1. main.strings = <<>>
    <3> SUFFICES ASSUME main.strings # <<>>
                 PROVE  FALSE
      OBVIOUS
    <3>1. /\ sidecar # Absent /\ sidecar # Torn
          /\ sidecar.size = Size(main.strings) /\ Usable(sidecar.mphf)
      BY <1>1, Zenon DEF FilesMatch, Matching
    <3>2. SidecarFunctions = {sidecar.mphf}
      BY <3>1 DEF SidecarFunctions
    <3> QED
      BY <3>2
  <2>2. RebuildsInOrder
    BY <2>1, NoKeys, Zenon DEF RebuildsInOrder
  <2> QED
    BY <2>2, Zenon DEF SidecarRefused
<1> QED
  BY <1>1, InitFiles, StepSave, StepFiles, PthashInvariant, PTL DEF Spec
=============================================================================

------------------------------ MODULE PthashBimap ------------------------------
(***************************************************************************)
(* The static dictionary of pthash_bimap.hpp: strings placed at the ids a  *)
(* minimal perfect hash function gives them, and the two files save(path)  *)
(* leaves, the strings in id order and the hash function itself.           *)
(*                                                                         *)
(* PTHash is external: Phf[seed, lambda, keys] is the function it builds,  *)
(* the same every time, or NoFunction where the seed fails.  Nothing here  *)
(* is transactional: a save truncates the old file first, and closes it    *)
(* without a check after the hash function has been written.               *)
(***************************************************************************)
EXTENDS Integers, FiniteSets, FiniteSetsExt

CONSTANTS
    Values,          \* the non-empty strings
    EmptyString,
    Seeds, Lambdas,  \* what a caller may put into PthashBuildOptions
    DefaultLambda,   \* lambda of a default-constructed PthashBuildOptions
    Options,         \* the PthashBuildOptions callers use
    Phf, NoFunction,
    U8Ids, U16Ids,   \* how many ids one byte and two bytes hold
    Absent, Torn     \* a file that is missing, a file cut short

VARIABLES
    dict,      \* the dictionary, with the lambda it was built with as a ghost
    main,      \* the file at path
    sidecar,   \* the file at path.native.pthash
    mode,      \* "ready", or how far save(path) has come
    intact,    \* the files are those of a save that returned: a ghost
    reply      \* how the last call ended

vars == <<dict, main, sidecar, mode, intact, reply>>

\* A value outside the key set may be hashed to any number, in range or not.
Functions == [Values -> 0 .. Cardinality(Values)]
IsPerfect(f, keys) ==
    {f[v] : v \in keys} = 0 .. Cardinality(keys) - 1

ASSUME PthashAssumption ==
    /\ IsFiniteSet(Values) /\ EmptyString \notin Values
    /\ Seeds \subseteq Nat /\ DefaultLambda \in Lambdas
    /\ Options \subseteq [initial_seed : Seeds, max_seed_attempts : Nat, lambda : Lambdas]
    /\ \A s \in Seeds, l \in Lambdas, keys \in SUBSET Values :
         \/ Phf[s, l, keys] = NoFunction
         \/ Phf[s, l, keys] \in Functions /\ IsPerfect(Phf[s, l, keys], keys)
    /\ U8Ids \in Nat /\ U16Ids \in Nat /\ 0 < U8Ids /\ U8Ids < U16Ids

\* A function is not the lack of one, and a file that holds one is whole.
ASSUME FileAssumption ==
    /\ NoFunction \notin Functions
    /\ \A n \in 0 .. Cardinality(Values), f \in Functions :
          [size |-> n, mphf |-> f] \notin {Absent, Torn}

-----------------------------------------------------------------------------
(* Building. *)

Size(strings) == Cardinality(DOMAIN strings)
Held(strings) == {strings[i] : i \in DOMAIN strings}

\* Mutant: one id too many at each threshold.
SelectIdWidthOffByOne(size) ==
    IF size <= U8Ids + 1 THEN 1 ELSE IF size <= U16Ids + 1 THEN 2 ELSE 4

SelectIdWidth(size) ==
    IF size <= U8Ids THEN 1 ELSE IF size <= U16Ids THEN 2 ELSE 4

\* build_native_index tries consecutive seeds and stops at the first that works.
WorkingSeeds(keys, options) ==
    {s \in Seeds : /\ options.initial_seed <= s
                   /\ s < options.initial_seed + options.max_seed_attempts
                   /\ Phf[s, options.lambda, keys] # NoFunction}

CanBuild(keys, options) == keys = {} \/ WorkingSeeds(keys, options) # {}

InIdOrder(f, keys) ==
    [i \in 0 .. Cardinality(keys) - 1 |-> CHOOSE v \in keys : f[v] = i]

\* Mutant: the width keeps its default.
BimapOfByteIds(strings, f, seed, lambda) ==
    [strings |-> strings, mphf |-> f, seed |-> seed, width |-> 1, lambda |-> lambda]

Bimap(strings, f, seed, lambda) ==
    [strings |-> strings, mphf |-> f, seed |-> seed,
     width |-> SelectIdWidth(Size(strings)), lambda |-> lambda]

\* Mutant: the seed recorded is the first one tried.
BuiltFromFirstSeed(keys, options) ==
    LET f == Phf[Min(WorkingSeeds(keys, options)), options.lambda, keys]
    IN  IF keys = {} THEN Bimap(<<>>, NoFunction, options.initial_seed, options.lambda)
        ELSE Bimap(InIdOrder(f, keys), f, options.initial_seed, options.lambda)

Built(keys, options) ==
    IF keys = {} THEN Bimap(<<>>, NoFunction, options.initial_seed, options.lambda)
    ELSE LET seed == Min(WorkingSeeds(keys, options))
             f == Phf[seed, options.lambda, keys]
         IN  Bimap(InIdOrder(f, keys), f, seed, options.lambda)

\* What both load functions rebuild with: the stored seed, once, default lambda.
StoredOptions(seed) ==
    [initial_seed |-> seed, max_seed_attempts |-> 1, lambda |-> DefaultLambda]

\* A default-constructed bimap.
Nothing == Bimap(<<>>, NoFunction, 0, DefaultLambda)

-----------------------------------------------------------------------------
(* The queries. *)

\* The hash of a stranger may hit any id: the string there is compared.
Find(v) ==
    {i \in DOMAIN dict.strings : dict.mphf[v] = i /\ dict.strings[i] = v}

\* compact_id_for casts the id to the chosen width; widen_compact_id casts it back.
CompactId(i) ==
    CASE dict.width = 1 -> i % U8Ids
      [] dict.width = 2 -> i % U16Ids
      [] OTHER -> i

-----------------------------------------------------------------------------
Init ==
    /\ dict = Nothing
    /\ main = Absent /\ sidecar = Absent
    /\ mode = "ready" /\ intact = FALSE /\ reply = "none"

\* rebuild(values, options): sorted, without duplicates and without the empty
\* string; a temporary is built, so an exception leaves the old one in place.
Rebuild(values, options) ==
    /\ mode = "ready"
    /\ LET keys == values \ {EmptyString}
       IN  \/ /\ CanBuild(keys, options)
              /\ dict' = Built(keys, options)
              /\ reply' = "built"
           \/ ~CanBuild(keys, options) /\ dict' = dict /\ reply' = "threw"
    /\ UNCHANGED <<main, sidecar, mode, intact>>

(* save(path) *)

\* The stream truncates the file; its data stay in the buffer.
SaveOpens ==
    /\ mode = "ready"
    /\ main' = Torn
    /\ mode' = "opened" /\ intact' = FALSE
    /\ UNCHANGED <<dict, sidecar, reply>>

\* Writing the strings fails: the exception leaves what was flushed.
SaveThrows ==
    /\ mode = "opened"
    /\ mode' = "ready" /\ reply' = "threw"
    /\ UNCHANGED <<dict, main, sidecar, intact>>

\* Mutant: a sidecar that is already there is kept.
SidecarKept ==
    /\ mode = "opened"
    /\ IF dict.strings = <<>> \/ sidecar # Absent
       THEN sidecar' = sidecar /\ mode' = "indexed"
       ELSE sidecar' = Torn /\ mode' = "indexing"
    /\ UNCHANGED <<dict, main, intact, reply>>

\* save_native_sidecar removes the file of an empty bimap, or truncates it.
SidecarOpens ==
    /\ mode = "opened"
    /\ IF dict.strings = <<>>
       THEN sidecar' \in {Absent, sidecar} /\ mode' = "indexed"   \* errors are ignored
       ELSE sidecar' = Torn /\ mode' = "indexing"
    /\ UNCHANGED <<dict, main, intact, reply>>

\* The hash function is written; the end of it may be lost without an error.
SidecarDone ==
    /\ mode = "indexing"
    /\ sidecar' \in {Torn, [size |-> Size(dict.strings), mphf |-> dict.mphf]}
    /\ mode' = "indexed"
    /\ UNCHANGED <<dict, main, intact, reply>>

Stored == [strings |-> dict.strings, seed |-> dict.seed, width |-> dict.width,
           lambda |-> dict.lambda]

\* The destructor of the stream flushes the strings, and nobody sees it fail.
SaveCloses ==
    /\ mode = "indexed"
    /\ main' \in {Torn, Stored}
    /\ mode' = "ready" /\ reply' = "saved"
    /\ intact' = (main' = Stored /\ sidecar # Torn)
    /\ UNCHANGED <<dict, sidecar>>

\* The sidecar cannot be opened or written; the strings are still flushed.
SidecarThrows ==
    /\ mode \in {"opened", "indexing"} /\ dict.strings # <<>>
    /\ main' \in {Torn, Stored}
    /\ mode' = "ready" /\ reply' = "threw"
    /\ UNCHANGED <<dict, sidecar, intact>>

(* load *)

\* load(stream) of save(stream): built anew, the order of the ids is not looked at.
Reload ==
    /\ mode = "ready"
    /\ LET keys == Held(dict.strings)
           options == StoredOptions(dict.seed)
       IN  \/ CanBuild(keys, options) /\ dict' = Built(keys, options) /\ reply' = "loaded"
           \/ ~CanBuild(keys, options) /\ dict' = dict /\ reply' = "threw"
    /\ UNCHANGED <<main, sidecar, mode, intact>>

\* try_load_native_sidecar: a torn file is refused or read as any function, and a
\* function is taken only if it sends every stored string to its own id.
UsableUnread(f) == TRUE   \* mutant: validate_loaded_native_index is not called
Usable(f) == \A i \in DOMAIN main.strings : f[main.strings[i]] = i
SidecarFunctions ==
    CASE sidecar = Absent -> {}
      [] sidecar = Torn -> {f \in Functions : Usable(f)}
      [] OTHER -> IF sidecar.size = Size(main.strings) /\ Usable(sidecar.mphf)
                  THEN {sidecar.mphf} ELSE {}
SidecarRefused == sidecar \in {Absent, Torn} \/ SidecarFunctions = {}

\* build_from_id_order_strings: rebuilding must give back the stored order.
RebuildsInOrder ==
    /\ CanBuild(Held(main.strings), StoredOptions(main.seed))
    /\ Built(Held(main.strings), StoredOptions(main.seed)).strings = main.strings

LoadPath ==
    /\ mode = "ready" /\ main \notin {Absent, Torn}
    /\ \/ \E f \in SidecarFunctions :
            dict' = [strings |-> main.strings, mphf |-> f, seed |-> main.seed,
                     width |-> main.width, lambda |-> main.lambda]
       \/ /\ SidecarRefused /\ RebuildsInOrder
          /\ dict' = Built(Held(main.strings), StoredOptions(main.seed))
    /\ reply' = "loaded"
    /\ UNCHANGED <<main, sidecar, mode, intact>>

LoadPathThrows ==
    /\ mode = "ready"
    /\ IF main \in {Absent, Torn} THEN TRUE ELSE SidecarRefused /\ ~RebuildsInOrder
    /\ reply' = "threw"
    /\ UNCHANGED <<dict, main, sidecar, mode, intact>>

\* The process dies at any point and another one starts.
Crash ==
    /\ dict' = Nothing /\ mode' = "ready" /\ reply' = "none"
    /\ UNCHANGED <<main, sidecar, intact>>

Next ==
    \/ \E values \in SUBSET (Values \cup {EmptyString}), options \in Options :
         Rebuild(values, options)
    \/ SaveOpens \/ SaveThrows \/ SidecarOpens \/ SidecarDone \/ SidecarThrows \/ SaveCloses
    \/ Reload \/ LoadPath \/ LoadPathThrows
    \/ Crash

Spec == Init /\ [][Next]_vars

-----------------------------------------------------------------------------
(* The properties. *)

\* Every string sits at the id its function gives it, and the width is that of the
\* number of strings: both are set by hand, or read from a file and trusted.
PthashTypeOK ==
    /\ DOMAIN dict.strings = 0 .. Size(dict.strings) - 1
    /\ Held(dict.strings) \subseteq Values
    /\ dict.mphf \in Functions \cup {NoFunction}
    /\ dict.strings # <<>> => dict.mphf # NoFunction
    /\ dict.width = SelectIdWidth(Size(dict.strings))
    /\ mode \in {"ready", "opened", "indexing", "indexed"}
    /\ reply \in {"none", "built", "saved", "loaded", "threw"}

\* find(s) = i exactly when by_id(i) = s, after builds, reloads and loads that took
\* a stale or damaged hash function for a good one.
FindInvertsById ==
    \A v \in Values : Find(v) = {i \in DOMAIN dict.strings : dict.strings[i] = v}

\* Ids run from 0 to the size the width was chosen for.
Dense(strings, width) ==
    /\ Size(strings) \in Nat
    /\ DOMAIN strings = 0 .. Size(strings) - 1
    /\ width = SelectIdWidth(Size(strings))
WellFormed(b) ==
    /\ Held(b.strings) \subseteq Values /\ Dense(b.strings, b.width)
    /\ \A i \in DOMAIN b.strings : b.mphf[b.strings[i]] = i
WellStored ==
    main \notin {Absent, Torn} =>
        Held(main.strings) \subseteq Values /\ Dense(main.strings, main.width)

\* The inductive invariant: strings, function and width agree in memory, and a
\* whole file holds strings and a width that may be taken as they are.
PthashInv == WellFormed(dict) /\ WellStored

\* Casting an id to the compact width and back is the identity: the width chosen at
\* each size threshold holds the largest id.
CompactIdsRoundTrip == \A i \in DOMAIN dict.strings : CompactId(i) = i

\* The strings alone bring back a dictionary of the default lambda: the seed in the
\* file is the one that worked, so a single attempt gives the same ids again.
DefaultLambdaNeedsNoSidecar ==
    main \notin {Absent, Torn} => (main.lambda = DefaultLambda => RebuildsInOrder)

\* What a completed save left can be loaded, whatever lambda and seeds it was built
\* with and whatever an earlier save left at the same path.
CompletedSaveLoads ==
    intact => SidecarFunctions # {} \/ (SidecarRefused /\ RebuildsInOrder)
=============================================================================

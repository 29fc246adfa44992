# TLA+ models of string_bimap

`string_bimap` is a header-only C++17 dictionary between strings and stable ids. This directory
holds TLA+ models of its two classes, `StringBimap` (mutable, with snapshots on disk) and
`PthashBimap` (static, over a minimal perfect hash function), of the two indexes the repository
carries with it (the hat-trie of the delta segment, the xcdat trie of the base segment), and of the
command-line tool with its readers; the TLC runs that check them on small instances; and
TLAPS proofs that hold for every size.

## 1. Inventory

The library is single-threaded and not synchronized (README.md of the repository, "Lifetime And
Safety"): there is no concurrency to model. What is hard in it is *state kept twice* (an entry
table, an index and a counter per segment, tombstones over both), *exceptions half-way through a
rebuild or an insertion*, *saves that consist of many file operations* and can be cut at any point,
and *index structures that reorganise themselves* (bursts, rehashes, shared tails).

| Component | State | Operations | What makes it correct |
|---|---|---|---|
| `StringBimap` (string_bimap.hpp) | `base_`, `delta_`, `tombstones_`, `next_id_`, `live_size_` | `insert`, `erase`, `find_id`, `get_string`, `for_each_live`, prefix scans, `should_compact`, `compact`, `compact_if_needed`, stream `save`/`load` | the two lookups are inverse; ids are never reused; counters count; compaction changes nothing a caller sees |
| `BaseSegment` | arena, entry table, hash map or static trie | `rebuild`, lookups, prefix scan, load and save of its storage and trie | the lookup structure describes the entries, but for erased ids |
| `DeltaSegment` | arena, entry table, hash map, array map or hat-trie | `insert`, `erase`, `clear`, lookups, prefix scan | index and entries agree exactly |
| `Tombstones` | 64-bit words | `add`, `contains`, `count`, `clear`, `restore_words` | is the set of ids erased since the last compaction |
| `PackedStringArena` | bytes | `append`, `view`, `clear`, `restore_bytes` | never passes 32-bit offsets; erased strings keep their bytes |
| hat-trie (`tsl::htrie_map` over `tsl::array_hash`) | a tree of trie nodes and hash nodes; per table buckets, values, counters | `insert`, `erase`, `erase_prefix`, `find`, prefix ranges, longest prefix, `clear`, `shrink_to_fit`, serialization | is a map, through bursts, rehashes and left-over values |
| xcdat (`xcdat::trie`, `trie_builder`) | double array with its free list, terminal and leaf flags, tail, digit levels | construction, `lookup`, `decode`, predictive search | answers each key with its id and back, and nothing else |
| Snapshots (string_bimap.hpp, serialization.hpp) | one logical file, a temporary file, five sidecars | `save(path)`, `save_compacted`, `load(path)` | an acknowledged snapshot survives; sidecars never change what the logical file says |
| `PthashBimap` | `strings_by_id_`, `mphf_`, `seed_`, `id_width_`; a file and a sidecar | `rebuild`, `find`, compact ids, stream and path `save`/`load` | `find` inverts `by_id`; ids fit their width; loads keep ids or throw |
| JSON and CSV readers (pthash_bimap.hpp) | position in the text, values so far | `load_values_from_json_array`, `load_values_from_csv` | take exactly the well-formed texts, and read what they mean |
| `pthash_bimap_tool` | argument index, options, one snapshot | `build`, `dump`, `stats`, `lookup` | every command line ends with the answer the usage text promises |
| Benchmarks, examples, build files | | | not modelled, see section 6 |

`StringBimap` calls both segments and the tombstones directly; `save`/`load` reach through it into
the storage of the segments. The segments never call each other. The delta of the compact profiles asks the
hat-trie, the base of `CompactMemory` an xcdat trie and that of `CompactMemoryMarisa` a marisa trie
(a library, not in the repository). `PthashBimap` is independent of these; the tool uses it and its readers.

The hazards, each at its line, are listed in `PROJECT.json`; the properties below are aimed at them.

## 2. Modules

| Module | Models |
|---|---|
| `Segments` | `BaseSegment`, `DeltaSegment` and `PackedStringArena` as operators on records: `Rebuilt`, `RebuildAborted` (a rebuild that throws in `rebuild_storage`), `DeltaInsert`, `DeltaErase`, `BaseMatches`, `DeltaMatches` |
| `StringBimap` | the dictionary in memory: one action per operation, and one per way an operation throws |
| `AbstractBimap` | what a caller is promised: an id counter and a one-to-one map with permanent holes |
| `StringBimapProofs` | the theorems about `StringBimap` |
| `BimapFiles` | extends `StringBimap` with the files of one path; `save` and `load` run as lists of file operations |
| `FilesProofs` | the theorems about `BimapFiles`: what is acknowledged, what a load answers, and the tables in the files and in memory |
| `PthashBimap` | the static dictionary and its two files |
| `PthashProofs` | the theorems about `PthashBimap` |
| `ArrayHash` | the table of `tsl::array_hash` as operators on records |
| `HatTrie` | extends `ArrayHash`: `tsl::htrie_map` with all calls that change it |
| `HatTrieProofs` | the theorems about `HatTrie` and its tables |
| `AbstractMap` | a map from strings to values, with the answers of its calls |
| `TailVector`, `BcVector` | the tail of suffixes and the digit levels of the finished double array, as operators |
| `DoubleArray` | extends `TailVector`: `xcdat::trie_builder`, a call of `arrange` a step, then `finish` and the tail |
| `StaticTrie` | extends `DoubleArray`: the arrays encoded with `BcVector`, and the queries of `xcdat::trie` |
| `TailVectorProofs` | lemmas about sequences, least elements, the order of the suffixes and what the tail reads back |
| `DoubleArrayProofs` | the theorems about the arrays `DoubleArray` builds |
| `TrieWordsProofs` | the theorems about the words a lookup finds in them |
| `StaticTrieProofs` | the theorems about what `StaticTrie` answers: ids, `decode`, predictive search, through the digit levels |
| `ValueReaders` | the two readers, a character a step |
| `PthashTool` | extends `ValueReaders`: `main` and the four commands, an argument a step |
| `MC...` | small constants for TLC |

How they map to the code:

* A segment is a record `[entries, index, live, ...]`: `entries` is `entries_by_id_` with the arena
  (`NoString` where `live()` is false), `index` the lookup structure (`kInvalidId` for a missing
  slot), `live` its `live_size_`. `trie` says whether a static trie serves the lookups
  (`use_xcdat_index`, `use_marisa_index`), `used` counts the strings the delta arena has taken,
  erased ones included.
* `Profile` selects hash maps or tries as `BackendProfile` does with every optional backend
  compiled in; the difference the model sees is which structure a prefix scan reads, whether the
  delta index refuses long keys (`IndexRefuses`: `LongValues` are the strings beyond the 16-bit key size), and which
  of two ids of one string the index of a delta read from a file names (`DeltaIndexOf`): the hash map of
  `FastLookup` assigns and ends with the last, the others insert and keep the first.
* `InsertKnown`, `InsertNew`, `InsertOverflowsArena` and `InsertOverflowsIds` are the four exits of
  `insert`; `InsertOverflowsIndex` (of `LongSpec`) is the fifth, where a long string throws after its entry
  was written. The id is taken before the arena can throw, so `InsertOverflowsArena` leaves a hole.
* `Compact` and `CompactAborts` are `compact()`: `rebuild_storage` appends item by item and may throw
  `length_error`; the old storage and its entries are gone by then, the old index is not.
  `delta_` and `tombstones_` are cleared only afterwards.
* `Reload` is `load(save())` through a stream. `ReloadAborts` is a snapshot the reader refuses because
  its entries are not as many as the header says, or do not fit an arena.
* `reply` is the value returned or the exception thrown.
* In `BimapFiles` a file is `Absent`, `Torn` or whole data. `todo` is the list of file operations the
  running call has left, each with the files it changes; truncating a file and completing it are two
  of them. `Crash` may come before any operation; `OpThrows` runs the clean-up of the enclosing catch
  block (`unwinding`); `WriteLost` is a sidecar stream whose destructor fails to flush (the save then
  ends `saved_short`); `RemoveLost` is a `filesystem::remove` whose error code is ignored. Only the
  temporary logical file is checked when closed, and its rename is atomic.
* A static trie numbers its keys: `KeyNumber[keys]` is a bijection from a set of strings to 1, 2, ... The ids file
  beside a trie lists one id per number (`IdsFile`), and `TrieIndex` reads a trie and such a list back into an index.
* `CanLoad` is where `load(path)` returns; `Loaded` is what it returns: the native layout if `NativeAccepted`, else the logical
  entries with the trie sidecars if `TrieMatches`, else a rebuild, which writes the trie back
  (`RewritesTrie`, mode `loading`).
* In `PthashBimap`, `Phf[seed, lambda, keys]` is the function PTHash builds (external), `NoFunction`
  where `seed_runtime_error` is thrown. `lambda` in `dict` and `main` is a ghost: the code keeps it
  nowhere. A torn sidecar may be refused or read as any function.
* In `HatTrie` a node is known by the path of characters that leads to it; `nodes` maps paths to
  trie nodes (a value or none) and hash nodes (a table of `ArrayHash`). `insert` is the call that recurses, so its
  bursts are steps of their own while `pending` holds it; every other call is one step. Iterators
  are the order of their stops (`FirstStop`, `After`), climbing and descending as the code does. In a table a
  bucket is a list of keys with positions in one vector of values; `Squeezed`, `Rehash`, `GrowOnHighLoad` and
  `WithRoom` renumber and move them under the thresholds of the code.
* In `DoubleArray` each call of `arrange` is a step and `calls` holds those to come. The free list runs through
  BASE and CHECK with unit 1 as its head; `UseUnit`, `CloseBlock` and `Expand` change it, `Xcheck` searches it.
  `FinishBlock` is a round of `finish()` and `CompleteSuffixes` the completion of the tail, which puts the positions of
  the suffixes into BASE of their leaves. The codes of equally frequent characters are ordered in every way `std::sort`
  may. Exclusive or of two codes is the constant `XorLow`: the model needs no more of it than that it commutes, undoes
  itself and leaves zeros, and `BcVector` makes the exclusive or of larger numbers from it digit by digit (`XorDigits`).
* `StaticTrie` takes the steps of `DoubleArray`; with the last, `Complete`, it encodes the arrays into `bcvec`, and
  the queries read only that, the terminal flags and the tail. A level of digits has the values that are left, in their
  order (`Higher`), and `Access` reads from the last level up. The loops of `lookup`, `decode` and `next_predictive` are bounded by
  the length of the word or of the longest key (`max_length`); `UpFacts` shows that `decode` has reached the root by then. The stack of
  `next_predictive` is the set of nodes it visits (`Below`), as only the order of the answers depends on it.
* In `ValueReaders` the modes of `state` are the places of the recursive readers; `rest` is the stream. `source` is
  a ghost: the tokens or the table the text was written from, with what each token means, so that the
  properties compare what was read with what was meant.
* In `PthashTool` a `call` is a session of command lines over one text, one table and one snapshot path; `argi` is the
  index both option loops of `build` share. A dictionary is the set of its strings here.

`Segments` takes its indexes as exact: `HatTrie` shows that the map of the delta is one, `StaticTrie` shows where the
static trie of the base is and the two ways in which it is not (`nul_lookup`, and the exception of `PredictiveFindsItsKeys`).

## 3. Properties

`StringBimap`: `FindIdInvertsGetString` (the lookups agree despite stale index slots),
`LiveSizeCountsLiveIds` (or `save` writes snapshots `load` refuses), `PrefixFindsLiveMatches` and
`PrefixReportsOnce` (prefix scans, two parts because they fail apart), `DeltaSizeIsExact`, `IInv`,
`IdsAreNeverReused` and `CompactionSettles` (action properties), `ImplementsAbstract` (refinement,
`live <- Contents`).

`BimapFiles`: `LoadAnswersLogical` (no mixture of files changes what is loaded),
`AcknowledgedSaveSurvives`, `LiveStringsAreFound`, `SavedTablesReload` (a completed save restores the very
tables).

`PthashBimap`: `FindInvertsById`, `CompactIdsRoundTrip`, `DefaultLambdaNeedsNoSidecar`,
`CompletedSaveLoads`.

`HatTrie`: `NoEmptyNodes` (the iterators walk down unasked), `TablesSound` (keys in their buckets, positions of
their own), `SizeIsExact`, `PrefixRangeIsExact`, `PrefixesAreFound`, `ImplementsMap` (refinement of
`AbstractMap`, `contents <- Contents`, `answer <- reply`), `InsertReturns` (liveness).

`DoubleArray`: `FreeListSound`, `NodesKeepTheirUnits` (action property). `StaticTrie`: `EveryKeyIsFound`,
`OtherWordsAreRefused`, `PredictiveFindsItsKeys`. All five are checked by the run of `StaticTrie`.

Readers and tool: `JsonReaderIsExact`, `CsvColumnIsExact`, `OrderlyCallsAreAnswered` (liveness).

The remaining ones, `TypeOK`, `FilesTypeOK`, `PthashTypeOK` and `StaticTypeOK`, are the type invariants.

**Fairness.** The code runs no threads, timers or retries, so nothing happens that a caller does not ask for, and what a
caller asks for is never assumed. What is assumed is that a call which began runs on by itself: `WF_vars(InsertStep)` in
`HatTrie`, whose bursts might have gone on for ever, and `WF_vars(Next)` in `PthashTool`, a process of one
thread that waits for nobody and has its input complete. The other specifications state no fairness: their
calls are one step, or lists of file operations that a crash may end at any point.

## 4. Runs

| Run | Instance | Distinct states | Shows |
|---|---|---|---|
| `core_fast` | 3 strings, 5 ids, arena of 3, `FastLookup`, two policies | 29,972 | all properties of `StringBimap` through every sequence of calls |
| `tight_trie` | 3 strings, 5 ids, arena of 2, `CompactMemory` | 27,710 | insertions and compactions that throw, with tries: still the abstract bimap |
| `files_fast` | 2 strings, 3 ids, 3 saves, 1 fault of any kind | 1,746,204 | loads after faults, hash maps; completed saves restore their tables |
| `files_trie` | 2 strings, 3 ids, 3 saves, 1 fault but lost removals, `CompactMemoryMarisa` | 2,970,463 | loads after faults with trie sidecars: contents and lookups |
| `pthash` | 3 strings, widths changing at 2 and 3 strings, 4 seeds, 2 lambdas | 84,721 | the static dictionary and its files |
| `hat_trie` | 5 keys over 2 characters, burst threshold 3, 1 bucket at first | 10,946 | the delta index is a map and its inserts return |
| `static_trie` | 4 characters, blocks of 4 units, 2 open blocks | 13,685 | the base index: construction and queries |
| `tool` | 10,376 sessions of command lines on texts and tables | 239,503 | readers exact, orderly command lines answered |
| `long_key`, `ghost_key`, `revived_entry`, `nul_lookup` | | | violations, see below |

**Bounds of the dictionary.** Five ids and three strings let a string be inserted, erased, re-inserted,
compacted and erased again with another one live, which is what a stale index slot needs, and let the id
space run out. With `kInvalidId` = 5 the ids stand for 0 to 2^32 - 2. `ArenaCap` counts strings where the code
counts bytes up to 2^32; a delta arena fills with erased strings in both core runs, and with a cap of 2
a compaction of three strings throws. The invariants of `tight_trie` are conjuncts of `IInv` or follow from it
(section 5), so that run keeps the refinement only.

**Bounds of the files.** Two saves give every pair of an old and a new snapshot; one fault suffices for each
mixture of them. What a lookup finds after a load may need three: one save writes a delta entry, the next, in which it
is dead, leaves it behind, and the third stores its string again. So both runs have three. A dictionary in
`BimapFiles` changes only by `InsertNew`, `EraseId` and `Compact`, the steps that alter its tables. The file runs have an arena that holds everything: exceptions of the
arena are the matter of `tight_trie`. Save budgets (`MaxSaves`, `MaxFaults`) are bounds of the model;
`kInvalidId` and `ArenaCap` exist in the code.

**Bounds of `PthashBimap`.** None is needed: its states are finite. `U8Ids` = 1 and `U16Ids` = 2 stand for 256
and 65536.

**Bounds of the hat-trie.** The keys share prefixes of up to three characters, so that a burst can leave all its
entries in one node that is full again, and one key (four characters) is beyond `MaxKeySize` = 3. `BurstThreshold` = 3
stands for 16384 and `MaxIndex` = 3 for the index type that just holds so many positions; a load of 1 and one
initial bucket make every insertion a candidate for a rehash. Hashes are base-3 numbers, which collide modulo the table
sizes. `MaxBuckets` = 1 bounds which tables are serialized.

**Bounds of the static trie.** `BlockSize` = 4 makes four characters and blocks of four units of 256 and 256, with `XorLow` the
bitwise operator on 0 .. 3,
`FreeBlocks` = 2 of 16. Built are every set of up to four of eleven words, with and without NUL, and two large sets that close
blocks and need several digit levels, for every order of equally frequent characters: 1,668 initial states. Asked are all words of up
to three characters.

**Bounds of the tool.** The JSON texts are arrays of up to two strings, bare or in an object, spaced or not, with every string at an
edge of UTF-8 or of the surrogates, and every text one removal, replacement or insertion of a token away. The CSV tables have up
to three rows of up to two fields, quoted, blank, missing or unclosed, with and without carriage returns. The sessions are pairs and triples of
a build, perhaps another build, and a query, of every shape of command line, missing operands and unwritable files included.

**Deadlock** is checked in every run but `static_trie`, `nul_lookup` and `tool`: a construction is over when
the trie is built, and the tool ends.

### Disagreements with the documentation

Four runs expect a violation of something the repository says; their details are under "findings".

* `long_key`: a string of 65535 characters or more, in any profile but `FastLookup`: the delta index throws after the entry was
  written and before the counters moved. `live_size()` is one short, and `save` writes a file `load` refuses.
* `ghost_key`: erase a string, `save(path)`, die after the trie but before the native tables. `load` accepts the
  trie because every *stored* string is found in it, and drops the tombstones: `find_id` answers the
  erased string's id and `insert` of that string returns it without storing anything.
* `revived_entry`: `save(path)` with a string in the delta, erase it, save again with the removal of `native.delta` failing
  (its error is ignored), load: the tombstones hide the old entry, so the file is accepted and the entry is in the delta again. Insert
  the string under its new id, save, load: the array map keeps the first of the two ids, the dead one. `find_id`
  answers nothing for a live string, and `insert` stores it a second time.
* `nul_lookup`: where some key holds NUL, xcdat's tail compares with the dummy at position 0 and runs on into another
  key's suffix, so that a word is found that was never stored.

`ghost_key` is why `FindIdInvertsGetString` is checked in the file run without tries; `LiveStringsAreFound` is the half that holds
with them. `revived_entry` is why `files_trie` has no lost removals; `files_fast` has them, as there the map assigns
(`LoadAnswersLogical` is proved with them for every profile). `nul_lookup` is why `OtherWordsAreRefused` has its exception.

Further observations met while modelling, which no run is spent on:

* Save, compact, save again, die after `native.base`: the new base and the old delta carry the same
  fingerprint, are loaded together, and prefix scans report ids twice. So `PrefixReportsOnce` is not a property of the file runs.
* A compaction that throws (which needs an arena of 4 GiB) has the same effect in memory. Contents, lookups and
  counters are unharmed, and that is proved; `PrefixReportsOnce` is proved for arenas that hold all strings.
* A predictive search of xcdat for a prefix that goes on behind a key may report that key (trie.hpp:222 promises keys that start
  with the prefix): at a leaf, `prefix_match` is content when the stored suffix ends first. `for_each_with_prefix` over a
  `CompactMemory` base reports it too. Hence the exception in `PredictiveFindsItsKeys`.
* `load(path)` throws when it cannot write the trie sidecars back.
* `tests/fuzz_load.cpp` compares the live count with `size()`, which includes holes.
* A `PthashBimap` built with a lambda of its own changes ids in a stream round trip, as the lambda is not stored.
* `pthash_bimap_tool build` with an unknown argument runs for ever (pthash_bimap_tool.cpp:60): the inner loop gives the
  argument back and the outer one takes it again. Input options on both sides of `--output` lose the first group
  without an error (line 103). `OrderlyCallsAreAnswered` speaks of lines without either.
* The JSON reader accepts a comma after the array of an object; the CSV reader splits a record at a quoted line break,
  takes quotes anywhere in a field, and ignores the column name when there is no header.
* A deserialized `array_hash` has a load threshold of 0, as `max_load_factor()` is called before there are buckets: its next
  insertion grows it whatever its load.

## 5. Proofs

`StringBimapProofs` proves, for every set of strings, every id space, arena size, profile and policy:

| Theorem | States |
|---|---|
| `InvariantHolds` | `Spec => []IInv` |
| `TypeCorrect`, `LookupsAgree`, `LiveSizeExact`, `DeltaSizeExact`, `PrefixComplete` | the invariants of the runs |
| `PrefixOnce` | `PrefixReportsOnce`, if the arena holds all strings the ids allow |
| `IdsStable` | `IdsAreNeverReused` |
| `CompactionIsEnough` | `CompactionSettles` |
| `Refinement` | `ImplementsAbstract` |

Assumptions: `SegmentAssumption` (`NoString` is no string, `kInvalidId` and `ArenaCap` are natural
numbers, `Profile` is a profile, `LongValues` are strings) and `PolicyAssumption`. `PrefixOnce` alone needs a premise on the
arena, and the aborted compaction above shows that it cannot be dropped. `Spec` is the dictionary without strings
beyond the key size; `LongSpec`, with them, has no theorem, as `long_key` refutes the invariant.

The argument. `FindIdInvertsGetString` is not inductive: the base index may name ids that were
erased. `IInv` says what holds of each structure instead: the delta's index is exact
(`DeltaIndexExact`); the base's is right for ids that are not tombstoned (`BaseIndexSound`) and complete for
those the delta does not hold (`BaseIndexComplete`); a delta entry is never tombstoned and agrees with
the base where both have the id (`DeltaIsLive`); no id at or above `next_id` is used
(`UsedIdsBelowNext`); live strings are distinct; the counters count. Two parts are there for
`CompactAborts` only: the base holds the oldest live ids (`BaseHoldsOldestLive`) and fits an arena
(`BaseFitsArena`). A rebuild appends items oldest first, so everything only the base knew is back in
before the arena can overflow, and what is missing is still in the delta: the lookups survive. One lemma per
action shows that it preserves `IInv`. The refinement maps `live` to `Contents`; each concrete
action is an abstract one, `Compact`, `CompactAborts`, `Reload` and refused calls are `Maintain`.

`FilesProofs` proves, for every set of strings, id space and profile, any number of saves and faults and any kinds of faults:

| Theorem | States |
|---|---|
| `AcknowledgedSaves` | `AcknowledgedSaveSurvives` |
| `LoadsAnswerLogical` | `LoadAnswersLogical` |

Neither needs the assumptions on the constants. The invariant `AckInv` says of the operations still to come
that only the rename touches the logical file, that it cannot be lost without an exception, and that no clean-up
removes that file; and that a save that is under way either has its snapshot in place or still has the rename before it.
The lists of operations are concatenations, and their elements are followed through `o` and
`Tail` by the lemmas at the head of the module. `LoadAnswersLogical` follows because each of the three ways of
`Loaded` yields the entries of the logical file, whatever the sidecars hold.

The second half of `FilesProofs` proves of the same specification, for the same parameters:

| Theorem | States |
|---|---|
| `FilesTypeCorrect` | `FilesTypeOK` |
| `SavedTables` | `SavedTablesReload` |
| `LiveStringsFound` | `LiveStringsAreFound`, if the arena holds all strings and either the profile is `FastLookup` or no removal fails unnoticed |

Assumptions: `SegmentAssumption` and `FilesAssumption` (the strings are finitely many, `KeyNumber` numbers each set of them
one to one, the kinds of faults are among those named, and the markers of a missing and of a torn file are no data). `IInv` cannot
serve here: sidecars of different saves may be combined, and after a lost `remove` a load may
bring entries into the delta that are dead (`DeltaIsLive` fails) or not the last of their string (`DeltaIndexExact` fails). Five
invariants take its place:

* `CoreInv`: what survives a load from any mixture of files. Types, counters, ids below `next_id`: a native base or delta is
  only taken when its contents, with the tombstones, are those of the logical snapshot, so its counter is theirs.
* `SaveInv`: the files as they are and the operations still to come add up to the tables the save was given. A
  clean-up empties the list of operations, and from then on the invariant asks nothing of that save.
* `TodoInv`: what a save still has to write. The native files come after the logical rename, the header after the
  delta, and each is a copy of what is in memory.
* `ClearInv`: while removals succeed, a save has the removal or the new version of `native.delta` still before it, or every id
  in that file is live. `RemovesSucceed` is the premise: no `lost_remove` among the faults.
* `FoundInv`, in two halves. `MemoryFinds`: the delta's index names an id of the string, which is the right one if any is
  live; the base finds what the delta does not have; live strings are distinct; and while removals succeed, no entry of the
  delta is dead. `FilesFind`: the entries of the native base are distinct, the live ids on file too; of two ids
  of one string in the native delta the earlier is out of use; an id deleted according to the header is out of use, and while
  removals succeed not in the native delta.

Why there are two premises. The arena: TLC violates the property with `FastLookup`, three strings and an arena of two when the
files may see seven saves with three crashes and two lost removes. A dictionary that has outgrown its arena
can be saved but not loaded (hazard at `packed_string_arena.hpp`); the application starts an empty one in its place, which
counts ids from 0 again over the sidecars of the old one, and a later load takes the old delta, with its two ids of one
string, for that of the new. The removals: `revived_entry` violates the property in a profile whose index keeps the first of two
ids. With `FastLookup` a revived entry does no harm, for the index names the last and that is the live one, if any; otherwise
`ClearInv` shows that none is revived. That a nonempty set of ids has a largest and a smallest one (`LargestId`, `SmallestId`, for the
two ways of `DeltaIndexOf`) comes from the well-foundedness of strict inclusion on finite sets.

`PthashProofs` proves, for every set of strings, every family of hash functions, all seeds, lambdas and
both id thresholds:

| Theorem | States |
|---|---|
| `PthashInvariant` | `Spec => []PthashInv` |
| `PthashLookupsAgree` | `FindInvertsById` |
| `CompactIdsFit` | `CompactIdsRoundTrip` |
| `PthashTypes` | `PthashTypeOK` |
| `SeedSuffices` | `DefaultLambdaNeedsNoSidecar` |
| `CompletedSavesLoad` | `CompletedSaveLoads` |

Assumptions: `PthashAssumption` (the strings are finitely many, and where PTHash builds a function it is
minimal and perfect on its keys) and `FileAssumption` (`NoFunction` is no function, and a file that holds one is whole). Nothing is
assumed of a function read from a torn sidecar, or of one an earlier save left there. The argument: `PthashInv` says that each string
in memory sits at the id its function gives it, that ids are dense and the width is that of their number, and that a whole
file holds dense ids of its width. A build has this because `InIdOrder` places strings by the
function; a load because a function from a sidecar is taken only if `Usable`. `SeedInv` adds that the recorded seed builds the very
function in use when the lambda is the default, and `SaveInv` that the two files of a completed save match (`FilesMatch`). The step "the
smallest working seed works" needs the least-number principle; `MinInSet` derives it from the
well-foundedness of strict inclusion on finite sets.

`HatTrieProofs` proves, for every alphabet and set of keys (infinite ones too), every hash, load factor, burst threshold, position width and
longest key:

| Theorem | States |
|---|---|
| `TreeInvariant` | `Spec => []IInv` |
| `TreeTypes`, `NodesHoldKeys`, `TablesStaySound` | `TypeOK`, `NoEmptyNodes`, `TablesSound` |
| `SizeCounts` | `SizeIsExact` |
| `PrefixRanges` | `PrefixRangeIsExact` |
| `PrefixesOfAKey` | `PrefixesAreFound` |
| `TrieIsAMap` | `ImplementsMap` |

Assumptions: `ArrayHashAssumption` (the hash is a number, load factor and positions are positive, the growth factor is 2
or 4) and `HatTrieAssumption` (keys are strings over the alphabet, each substring of a key has a hash, the burst threshold is at most
the largest position, which is where its setter caps it). `IInv` joins three things that
need each other: the tree is sound (`Tree`), no node is empty (`NoneEmpty`), and the counter counts the keys that are found
(`Counts`). The argument, from the inside out:

* A table. `TableSound` is not inductive: it says nothing of what the values are, and of a threshold of 0 too little. `Sound` adds
  that the buckets are at least one and as many as the threshold was made for (`Loaded`), and that every position holds a
  value that may be read (`LivePositions`). `Maps(t, k, v)` is what a caller can read; `SqueezeKeeps`, `RehashKeeps`, `GrowKeeps`,
  `EmplaceKeeps`, `EraseKeeps`, `FilledKeeps` say of each operation that it keeps `Sound` and what it does to `Maps`. Loops over entries are
  followed by `OnlyTakes` and `FlattenLists`, which say what was taken as one-to-one maps of positions.
* The tree. `Tree` is closed under parents; a leaf has short keys only, each below its path. A key has one place, its `Stop`
  (`HeldAtStop`), so what a node holds is what is found (`FindFacts`). `BurstKeeps`, `ClearNodesKeeps`, `CutKeeps` and
  `SetNodeKeeps` follow the nodes; `ClearEmptyNodes` cuts at the highest ancestor that holds nothing else, so nothing live goes and nothing
  empty stays.
* The iterator. `Before` orders the paths as a walk from child to child does. `FirstStopFacts`, `AfterFacts` and `NextStopFacts` show that
  each step goes to the least stop that comes later, `SubtreeEnd` that it leaves a subtree only at `After`, and `StopsBelowFacts`
  that all stops below a path are visited once. This needs `NoneEmpty`: from an empty trie node there is no first child. Reload and `erase_prefix`
  count on it too.
* Prefixes of a string. What is met on the way down are the prefixes of its `Stop` with a value, and a hash node has none, so they are shorter
  than those in the table at its end (`PrefixHitsOf`). `ShortestFirst` puts a set in order by counting, for each, the shorter ones; that the
  counts run through 0 .. n - 1 (`ShorterCounts`) is the pigeonhole principle, and the two lists one after the other
  are the list of all (`ShortThenLong`).
* The calls. Each one either sets one key (`Sets`), drops keys (`Drops`) or changes none (`Same`); from that follow at once
  the counter (`SetsCount`, `DropsCount`) and the step of `AbstractMap` (`SetSteps`, `DropSteps`, `KeepSteps`). `erase_prefix` answers "erased" for a
  subtree because a node that is there has a key below it (`KeyBelow`).

`DoubleArrayProofs` proves of `BuilderSpec`, for every block size, every number of open blocks, every list of sorted, unique,
non-empty keys and every order of the codes:

| Theorem | States |
|---|---|
| `BuilderInvariant` | `BuilderSpec => []BuilderInv` |
| `FreeListKept` | `FreeListSound` |
| `UnitsStay` | `NodesKeepTheirUnits` |
| `BuilderTypes` | `StaticTypeOK` |
| `SuffixesAreRead` | `match()` at BASE of a leaf accepts the suffix of that leaf and no other string |

and `TrieWordsProofs`, of the same specification:

| Theorem | States |
|---|---|
| `WordsInvariant` | `BuilderSpec => [](BuilderInv /\ WordsInv /\ AllClosed)` |
| `KeysFound` | the lookup of a key ends at a terminal node of its own, and each terminal node is that of a key |
| `OthersRefused` | a word that is no key is refused, but for those that go on with NUL behind a key in bin mode |

Assumptions: `BlockAssumption` (a block has at least two units, at least one block is open), `XorAssumption` (`XorLow`
commutes and undoes itself) and `KeyAssumption` (the caller's keys are sorted, unique and not empty; the constructor throws otherwise). The
theorems are about `BuilderSpec`, the builder alone; `TrieIsBuilt` of `StaticTrieProofs` carries them over to `StaticTrie`.

The argument has four parts, each an invariant of its own.

* The array (`ArrayInv`). `FreeListSound` as it stands cannot be carried through the loops of `use_unit`, so the list is
  described locally: the link of a unit on the list goes to a unit on the list with none between (`LinksOK`), the head of a
  block is its least one (`HeadsOK`), an unused unit off the list points at itself (`ClosedOK`). `UseFree` and `CloseOne`
  show this for one unit, `CloseAll`, `ExpandOne` and `TieAll` for the loops, by the rounds made so far (`Rounds`).
  `BaseFound` shows that the base `Xcheck` finds has only units on the list below it: a used one is in no `fits`,
  a closed one in no block the list reaches (`BlocksWhole`, a block is closed as a whole), so the children get units nobody has.
* The calls (`CallsInv`). A call to come has a node of its own that is no leaf, and a range of keys that agree up to its
  place. As the keys are sorted, the keys that share the next character are one range again (`KeysRise`, `ChildCallsOK`).
* The tail (`TailInv` of `TailVectorProofs`). The order of the suffixes is total, so `InOrder` lists each once; what was stored
  is still read at its place after another string was appended or shared (`AddSuffixReads`), and a query from there stops at the right
  end (`RunReads`). In bin mode the ends are flags, otherwise no suffix contains NUL.
* The words (`WordsInv`). A key is placed at a terminal node or in the range of a call that its path reaches, and terminal nodes
  are placed keys. No step disturbs a path (`PathsKept`): BASE of an inner node is final, CHECK of a node's unit too. In the finished
  array nothing is left on the list (`AllClosed`), so a unit without a node is its own parent, and a lookup that gets on with BASE
  and CHECK stays among nodes (`AlongUsed`). Going back from the end by CHECK, two paths to one node are the same (`SamePath`), as only the root has
  `taboo_npos` for a parent, and different characters have different children (`ChildInjective`). So a word that ends at the node of a
  key has the same characters up to there, and the tail decides the rest. The exception of `OthersRefused` is the leaf without a suffix, where
  the tail is read at position 0 (`RunAtZero`); it is the one the run `nul_lookup` shows to be real.

`KeysFound` and `OthersRefused` follow BASE and CHECK as the builder left them (`Along`, `AcceptsAt`) and speak of terminal
nodes. `StaticTrieProofs` proves what the queries of the finished trie answer, of the specification of `StaticTrie` and with the same
parameters:

| Theorem | States |
|---|---|
| `TrieIsBuilt` | `Spec => BuilderSpec` |
| `TrieInvariant` | `Spec => []TrieInv` |
| `KeysHaveIds` | `EveryKeyIsFound` |
| `OtherWordsRefused` | `OtherWordsAreRefused` |
| `KeysReported` | `PredictiveFindsItsKeys` |

Two assumptions are added: `XorZeroAssumption` (`XorLow` of two zeros is zero) and `ProbesAssumption` (what is asked for are strings of
characters). `TrieInv` joins the invariants of the builder with `Encoded`, the digits are those of the finished array and its leaves,
and `BasesInv`, BASE of a node with children is the number of a unit. The latter says that the value has no more digits than
`XorDigits` looks at; it holds because the block of the children is there when BASE is set (`NodeBase`). The argument:

* The digits (`EncodeFacts`). Exclusive or taken twice gives back the number (`XorTwice`), by the number of its digits. A value has its next digit
  in the level above at its rank among those that have one (`HigherFacts`, with `RankFacts`: ranks run through 0 .. n - 1); so
  reading from the last level up gives each level back as it was cut (`ReadRound`, `AccessFacts`). A leaf has its low digit in level 0 and
  the rest in the links, at its rank among the leaves.
* The way down. A lookup stops at a leaf, at the end of the word or where no child follows (`ReachedFacts`); a path to a leaf or along the
  whole word is the one it takes (`ReachedIs`), since a word leads to one node at each length (`LeadsUnique`). With that `lookup()` answers
  what `AcceptsAt` says (`LookupFacts`), and `SettledKeys` and `SettledOthers` of `TrieWordsProofs` do the rest.
* The ids are ranks of terminal nodes (`IdFacts`), and terminal nodes are those of the keys, one each (`KeyIds`).
* The way up. CHECK leads back along the path (`LeadsBack`), the exclusive or of the low digits of BASE and of the unit is the code of the
  character between (`ParentChar`), so the rounds put the first characters of the key together (`UpFacts`), and the tail has the others (`KeyShape`).
* The nodes below. What `Below` reaches from a node is where the word and further characters lead (`BelowLeads`), and every node on the path of a key is
  below the nodes before it (`BelowHas`). A terminal node below is that of a key that begins with those characters (`NodeKey`). Where the search
  stops at a leaf before the end of the prefix, the tail is compared as far as both go (`RestPrefix`): hence the exception of the property, the
  keys that the prefix goes on from, which are real (section 4).

Only model-checked: `FindIdInvertsGetString` with files (it is proved without them; the run is `files_fast`), `InsertReturns` of
`HatTrie`, and everything of `ValueReaders` and `PthashTool`. Out of the prover's reach are the
liveness properties and what recursive functions over data compute in general (iterators, the readers' texts; loops
with a bound are reached by `Rounds`, and so are the digits, level by level).

## 6. Abstractions and what is not modelled

* Strings of the dictionary are opaque; a prefix is the set of strings that have it, so prefix scans are checked for
  every subset. The empty string is treated in `EmptyStringRefused`. Strings of the tries are
  sequences of characters, for there the characters decide.
* Fingerprints are what they hash: collisions of FNV-1a are left out.
* A file operation is atomic for a crash, with truncation apart; reordering of writes by the
  operating system (the code never calls fsync) is left out. A torn logical, native or trie file is refused by its
  reader. The vendored xcdat reader does not check its stream, which a hazard notes.
* Running out of memory is left out; the exceptions modelled are those the library throws itself.
* Tombstones are a set of ids, an arena counts strings, and a snapshot is its fields: words, bytes, offsets and the byte
  format (magic, versions 1 to 4, lengths) are abstracted, so those components are listed as partly modelled.
* In the hat-trie the buffers of a bucket, the growth of its memory, `swap`, copies and moves are left out, and so are `htrie_set` and
  `array_set`, which the library does not use. A left-over value of an erased key is `NoValue`, as nothing may read it.
* In xcdat the other array layouts (7, 15 and 16 bits), `prefix_search` and the visitors that write and read the bytes are left out.
  In bin mode a match without a further end flag reads behind the vector; the model lets it fail. The builder
  gets sorted, unique, non-empty keys, as `BaseSegment` passes them.
* Four hex digits of an escape are one character, and `\n` stands for the one-letter control escapes. Streams do not fail half-way.
* Not modelled: benchmarks, examples and tests (no logic of the library), memory accounting (it only measures), the
  build files, and marisa and PTHash, which are libraries outside the repository and appear by what the code relies on.

## 7. Plan

Done: the modules above. What is left, in order of use:

1. `Tombstones` as 64-bit words and `PackedStringArena` by bytes (offsets, `valid_location`), each
   refining its abstraction, with proofs.
2. `load_logical_snapshot`: which files it accepts (versions 1 to 4, strictly increasing ids, counts and lengths
   against what remains), and that it accepts everything `save` writes.
3. Proof of `FindIdInvertsGetString` with files: it needs, beside `FoundInv`, that the tables in memory and in the files agree
   on every id two of them have.

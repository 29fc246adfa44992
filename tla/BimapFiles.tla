------------------------------ MODULE BimapFiles ------------------------------
(***************************************************************************)
(* save(path), save_compacted(path) and load(path): the dictionary of      *)
(* StringBimap with the seven files of one snapshot path.                  *)
(*                                                                         *)
(* A save is a list of file operations run one after the other; the        *)
(* process may die between any two, an operation may throw, and a write    *)
(* may be cut short unnoticed.  A file holds Absent, Torn or whole data;   *)
(* truncating and filling are two operations.  Only the temporary file of  *)
(* the logical snapshot is checked when it is closed.  Fingerprints are    *)
(* modelled as what they hash, so two snapshots never collide.             *)
(***************************************************************************)
EXTENDS StringBimap, Sequences, Functions

CONSTANTS
    Absent, Torn,   \* a file that is missing, a file cut short
    KeyNumber,      \* how the static trie of a set of strings numbers them
    MaxSaves,       \* how many saves a behaviour starts
    MaxFaults,      \* how many crashes and failed operations it meets
    Faults          \* the kinds of fault that can occur

FaultKinds == {"crash", "throw", "lost_write", "lost_remove"}

\* "trie" is .compact.xcdat or .compact.marisa, whichever the profile uses.
Files == {"logical", "tmp", "trie", "ids", "native.base", "native.delta", "native.state"}

\* What a whole file holds: a snapshot, the keys of a trie, the id of each of their
\* numbers, the tables of a segment, the header of the native tables.
Snapshot == [next_id : 0 .. kInvalidId, live_size : Nat, contents : Entries]
Data(f) ==
    CASE f \in {"logical", "tmp"} -> Snapshot
      [] f = "trie"               -> SUBSET Values
      [] f = "ids"                -> Seq(Ids)
      [] f = "native.base"        -> [entries : Entries, live : Nat]
      [] f = "native.delta"       -> [entries : Entries, live : Nat, used : Nat]
      [] f = "native.state"       -> [logical : Snapshot, tombstones : SUBSET Ids]

ASSUME FilesAssumption ==
    /\ IsFiniteSet(Values)
    /\ \A keys \in SUBSET Values : KeyNumber[keys] \in Bijection(keys, 1 .. Cardinality(keys))
    /\ \A f \in Files \ {"trie"} : Absent \notin Data(f) /\ Torn \notin Data(f)
    /\ \A keys \in SUBSET Values : keys \notin {Absent, Torn}
    /\ Absent # Torn
    /\ MaxSaves \in Nat /\ MaxFaults \in Nat
    /\ Faults \subseteq FaultKinds

VARIABLES
    disk,      \* the files of the snapshot path
    todo,      \* the file operations still to run
    mode,      \* what the process is doing
    outcome,   \* how the last save or load ended
    durable,   \* the snapshots a reader may be given: a ghost
    saves, faults

ioVars == <<disk, todo, mode, outcome, durable, saves, faults>>
memory == <<base, delta, tombstones, next_id, live_size>>
allVars == <<vars, ioVars>>

Whole(f) == disk[f] \notin {Absent, Torn}

-----------------------------------------------------------------------------
(* What the files hold. *)

\* The logical snapshot, and with it its fingerprint.
Logical == [next_id |-> next_id, live_size |-> live_size, contents |-> Contents]

\* The ids file holds the id of each key at the number the trie gives it.
KeysOf(index) == {v \in Values : index[v] # kInvalidId}
IdsFile(index) ==
    LET keys == KeysOf(index)
    IN  [n \in 1 .. Cardinality(keys) |-> index[CHOOSE v \in keys : KeyNumber[keys][v] = n]]

TrieIndex(keys, ids) == [v \in Values |-> IF v \in keys THEN ids[KeyNumber[keys][v]] ELSE kInvalidId]

-----------------------------------------------------------------------------
(* Saving. *)

\* One file operation: what it makes of the files, whether it can throw, and the
\* files the enclosing catch block then removes.
Op(effect, throws, cleanup) == [effect |-> effect, throws |-> throws, cleanup |-> cleanup]
Becomes(f, data) == [g \in {f} |-> data]
Remove(f) == Op(Becomes(f, Absent), FALSE, <<>>)
Write(f, data, cleanup) ==
    <<Op(Becomes(f, Torn), TRUE, cleanup), Op(Becomes(f, data), TRUE, cleanup)>>

\* Mutant: the snapshot is written in place.
WriteLogicalInPlace == Write("logical", Logical, <<>>)

\* write_file_transactionally: a temporary file renamed over the old snapshot.
WriteLogical ==
    Write("tmp", Logical, <<"tmp">>)
    \o <<Op([logical |-> Logical, tmp |-> Absent], TRUE, <<"tmp">>)>>

\* The trie, then the ids; nothing is undone when one of them throws.
WriteTrie(b) ==
    Write("trie", KeysOf(b.index), <<>>) \o Write("ids", IdsFile(b.index), <<>>)

\* Mutant: an empty delta leaves the delta file of an earlier save behind.
WriteNativeKeepsDelta(b, d, t) ==
    Write("native.base", [entries |-> b.entries, live |-> b.live], <<>>)
    \o (IF d.live # 0
        THEN Write("native.delta", [entries |-> d.entries, live |-> d.live, used |-> d.used], <<>>)
        ELSE <<>>)
    \o Write("native.state", [logical |-> Logical, tombstones |-> t], <<>>)

\* save_native_snapshot: the tables first, the header that vouches for them last.
NativeFiles == <<"native.state", "native.base", "native.delta">>
WriteNative(b, d, t) ==
    Write("native.base", [entries |-> b.entries, live |-> b.live], NativeFiles)
    \o (IF d.live # 0
        THEN Write("native.delta", [entries |-> d.entries, live |-> d.live, used |-> d.used],
                   NativeFiles)
        ELSE <<Remove("native.delta")>>)
    \o Write("native.state", [logical |-> Logical, tombstones |-> t], NativeFiles)

SaveOps(b, d, t) ==
    WriteLogical
    \o (IF b.trie THEN WriteTrie(b) ELSE <<Remove("trie"), Remove("ids")>>)
    \o WriteNative(b, d, t)

BeginSave(b, d, t) ==
    /\ mode = "ready" /\ saves < MaxSaves
    /\ mode' = "saving"
    /\ todo' = SaveOps(b, d, t)
    /\ durable' = durable \cup {Logical}
    /\ saves' = saves + 1
    /\ outcome' = "busy"
    /\ UNCHANGED <<vars, disk, faults>>

Save == BeginSave(base, delta, tombstones)

\* save_compacted builds a compacted copy and saves that one.
SaveCompacted ==
    /\ RebuildFits(Contents)
    /\ BeginSave(Rebuilt(Contents), EmptyDelta, {})

-----------------------------------------------------------------------------
(* Loading. *)

\* load_native_compact_index_from_storage: every stored string must find its id;
\* keys the storage does not have are not looked for.
TrieMatches(entries) ==
    /\ UsesBaseTrie /\ Whole("trie") /\ Whole("ids")
    /\ Len(disk["ids"]) = Cardinality(disk["trie"])
    /\ \A i \in Present(entries) : TrieIndex(disk["trie"], disk["ids"])[entries[i]] = i

\* Mutant: no lookup is built when there is no trie to load.
LoadedBaseWithoutLookup(entries, live) ==
    [entries |-> entries, live |-> live, trie |-> TrieMatches(entries),
     index |-> IF TrieMatches(entries) THEN TrieIndex(disk["trie"], disk["ids"]) ELSE NoIndex]

LoadedBase(entries, live) ==
    [entries |-> entries,
     live    |-> live,
     trie    |-> TrieMatches(entries),
     index   |-> IF TrieMatches(entries) THEN TrieIndex(disk["trie"], disk["ids"])
                                         ELSE IndexOf(entries)]

\* try_load_native_snapshot.
NativeBase == LoadedBase(disk["native.base"].entries, disk["native.base"].live)
NativeDelta ==
    IF disk["native.delta"] = Absent THEN EmptyDelta
    ELSE [entries |-> disk["native.delta"].entries,
          index   |-> DeltaIndexOf(disk["native.delta"].entries),
          live    |-> Cardinality(Present(disk["native.delta"].entries)),
          used    |-> disk["native.delta"].used]

ContentsOf(b, d, t) ==
    [i \in Ids |-> IF i \in t THEN NoString
                   ELSE IF d.entries[i] # NoString THEN d.entries[i] ELSE b.entries[i]]

\* Mutant: the contents loaded are not compared with the logical fingerprint.
NativeAcceptedUnread ==
    /\ Whole("logical") /\ Whole("native.state") /\ Whole("native.base")
    /\ disk["native.delta"] # Torn
    /\ disk["native.state"].logical = disk["logical"]

NativeAccepted ==
    /\ Whole("logical") /\ Whole("native.state") /\ Whole("native.base")
    /\ disk["native.delta"] # Torn
    /\ disk["native.state"].logical = disk["logical"]
    /\ NativeDelta.live = IF disk["native.delta"] = Absent THEN 0 ELSE disk["native.delta"].live
    /\ ContentsOf(NativeBase, NativeDelta, disk["native.state"].tombstones)
         = disk["logical"].contents

\* Mutant: the tombstones of the native snapshot are not restored.
LoadedWithoutTombstones ==
    IF NativeAccepted
    THEN [base |-> NativeBase, delta |-> NativeDelta, tombstones |-> {}]
    ELSE [base |-> Rebuilt(disk["logical"].contents), delta |-> EmptyDelta, tombstones |-> {}]

\* The snapshot load(path) would build from the files as they are: the native
\* layout if it is accepted, else the logical entries as one base segment.
Loaded ==
    IF NativeAccepted
    THEN [base |-> NativeBase, delta |-> NativeDelta,
          tombstones |-> disk["native.state"].tombstones]
    ELSE [base |-> IF TrieMatches(disk["logical"].contents)
                   THEN LoadedBase(disk["logical"].contents,
                                   Cardinality(Present(disk["logical"].contents)))
                   ELSE Rebuilt(disk["logical"].contents),
          delta |-> EmptyDelta, tombstones |-> {}]

\* A base rebuilt from the logical file writes its trie back before load returns.
RewritesTrie ==
    /\ ~NativeAccepted
    /\ ~TrieMatches(disk["logical"].contents)
    /\ Loaded.base.trie

\* load_logical_snapshot refuses a string that comes twice.
NoStringTwice(entries) ==
    \A i, j \in Present(entries) : entries[i] = entries[j] => i = j

\* The native layout is returned without reading the entries of the logical file (its
\* header is read by both ways); the other way rebuilds a base, which must fit the arena.
CanLoad ==
    /\ Whole("logical")
    /\ \/ NativeAccepted
       \/ NoStringTwice(disk["logical"].contents) /\ RebuildFits(disk["logical"].contents)

Load ==
    /\ mode \in {"ready", "down"}
    /\ CanLoad
    /\ base' = Loaded.base
    /\ delta' = Loaded.delta
    /\ tombstones' = Loaded.tombstones
    /\ next_id' = disk["logical"].next_id
    /\ live_size' = disk["logical"].live_size
    /\ reply' = Reply("loaded", kInvalidId)
    /\ durable' = {disk["logical"]}
    /\ IF RewritesTrie
       THEN mode' = "loading" /\ todo' = WriteTrie(Loaded.base) /\ outcome' = "busy"
       ELSE mode' = "ready" /\ todo' = <<>> /\ outcome' = "loaded"
    /\ UNCHANGED <<disk, saves, faults>>

NothingInMemory ==
    /\ base' = EmptyBase /\ delta' = EmptyDelta /\ tombstones' = {}
    /\ next_id' = 0 /\ live_size' = 0 /\ reply' = Reply("none", kInvalidId)

LoadThrows ==
    /\ mode = "down" /\ ~CanLoad
    /\ outcome' = "load_threw"
    /\ UNCHANGED <<vars, disk, todo, mode, durable, saves, faults>>

\* A caller without a snapshot starts a new dictionary.
StartEmpty ==
    /\ mode = "down" /\ ~CanLoad
    /\ mode' = "ready" /\ outcome' = "none"
    /\ UNCHANGED <<vars, disk, todo, durable, saves, faults>>

-----------------------------------------------------------------------------
(* Running the file operations. *)

Busy == mode \in {"saving", "loading", "unwinding"}

\* The operation list is done: the call returns, or its exception leaves it.
Finished(status) ==
    [mode    |-> "ready",
     outcome |-> CASE mode = "saving" -> IF status = "short" THEN "saved_short" ELSE "saved"
                   [] mode = "loading" -> "loaded"
                   [] OTHER -> "save_threw",
     durable |-> IF mode = "saving" THEN {Logical} ELSE durable]

Advance(status) ==
    /\ todo' = Tail(todo)
    /\ IF Len(todo) > 1
       THEN outcome' = status /\ UNCHANGED <<mode, durable>>
       ELSE /\ mode' = Finished(status).mode
            /\ outcome' = Finished(status).outcome
            /\ durable' = Finished(status).durable
    /\ UNCHANGED <<vars, saves>>

FileOpDone ==
    /\ Busy
    /\ LET effect == Head(todo).effect
       IN  disk' = [f \in Files |-> IF f \in DOMAIN effect THEN effect[f] ELSE disk[f]]
    /\ Advance(outcome)
    /\ UNCHANGED faults

Fault(kind) == kind \in Faults /\ faults < MaxFaults /\ faults' = faults + 1

\* The tail of a sidecar is lost when its stream is closed unchecked; the save
\* goes on and its caller is not told ("short").
WriteLost ==
    /\ Busy /\ Fault("lost_write")
    /\ \E f \in Files \ {"tmp", "logical"} :
         f \in DOMAIN Head(todo).effect /\ Head(todo).effect[f] \notin {Absent, Torn}
    /\ UNCHANGED disk
    /\ Advance("short")

\* filesystem::remove reports into an error_code nobody reads.
RemoveLost ==
    /\ Busy /\ Fault("lost_remove")
    /\ ~Head(todo).throws
    /\ UNCHANGED disk
    /\ Advance("short")

\* Mutant: a failed operation without a clean-up never returns to the caller.
OpThrowsHangs ==
    /\ Busy /\ Fault("throw")
    /\ Head(todo).throws
    /\ LET cleanup == Head(todo).cleanup
       IN  todo' = [n \in DOMAIN cleanup |-> Remove(cleanup[n])]
    /\ mode' = "unwinding"
    /\ UNCHANGED <<vars, outcome, disk, durable, saves>>

\* An exception leaves a save after its catch block has removed its files, and
\* leaves a load at once, which then has no dictionary to return.
OpThrows ==
    /\ Busy /\ Fault("throw")
    /\ Head(todo).throws
    /\ LET cleanup == Head(todo).cleanup
       IN  todo' = [n \in DOMAIN cleanup |-> Remove(cleanup[n])]
    /\ CASE mode = "loading" ->
              NothingInMemory /\ mode' = "down" /\ outcome' = "load_threw"
         [] mode = "saving" /\ Head(todo).cleanup = <<>> ->
              UNCHANGED vars /\ mode' = "ready" /\ outcome' = "save_threw"
         [] OTHER -> UNCHANGED <<vars, outcome>> /\ mode' = "unwinding"
    /\ UNCHANGED <<disk, durable, saves>>

\* The process dies: the files stay as they are.
Crash ==
    /\ mode # "down" /\ Fault("crash")
    /\ NothingInMemory
    /\ todo' = <<>> /\ mode' = "down" /\ outcome' = "crashed"
    /\ UNCHANGED <<disk, durable, saves>>

-----------------------------------------------------------------------------
FilesInit ==
    /\ Init
    /\ disk = [f \in Files |-> Absent]
    /\ todo = <<>>
    /\ mode = "ready"
    /\ outcome = "none"
    /\ durable = {Absent}
    /\ saves = 0
    /\ faults = 0

\* The operations of the caller between saves and loads that change the dictionary.
Mutate ==
    /\ mode = "ready"
    /\ \/ \E v \in Values : InsertNew(v)
       \/ \E i \in Ids : EraseId(i)
       \/ Compact
    /\ outcome' = "none"
    /\ UNCHANGED <<disk, todo, mode, durable, saves, faults>>

FilesNext ==
    \/ Mutate
    \/ Save \/ SaveCompacted
    \/ Load \/ LoadThrows \/ StartEmpty
    \/ FileOpDone \/ WriteLost \/ RemoveLost \/ OpThrows
    \/ Crash

FilesSpec == FilesInit /\ [][FilesNext]_allVars

-----------------------------------------------------------------------------
(* The properties. *)

\* Memory keeps its types, whatever it is loaded from, and each file holds what its
\* readers expect or is missing or cut short.
FilesTypeOK ==
    /\ TypeOK
    /\ DOMAIN disk = Files
    /\ \A f \in Files : disk[f] \in {Absent, Torn} \cup Data(f)
    /\ \A n \in DOMAIN todo : \A f \in DOMAIN todo[n].effect :
          f \in Files /\ todo[n].effect[f] \in {Absent, Torn} \cup Data(f)
    /\ mode \in {"ready", "saving", "loading", "unwinding", "down"}
    /\ Busy <=> todo # <<>>
    /\ outcome \in {"none", "busy", "short", "saved", "saved_short", "loaded", "save_threw",
                   "load_threw", "crashed"}
    /\ saves \in 0 .. MaxSaves /\ faults \in 0 .. MaxFaults

\* Whatever mixture of old, new and torn files a crash, an exception or a lost
\* write left, load answers the ids and strings of the logical file.
LoadAnswersLogical ==
    CanLoad => ContentsOf(Loaded.base, Loaded.delta, Loaded.tombstones)
                 = disk["logical"].contents

\* The logical file is the last acknowledged snapshot, or one whose save began
\* after it: a save that dies or throws never costs the previous one.
AcknowledgedSaveSurvives == disk["logical"] \in durable

\* In memory every live string is found under its id, after any reload.
LiveStringsAreFound ==
    mode = "ready" =>
        \A v \in Values, i \in Ids : GetString(i) = v => FindId(v) = i

\* A save that returns and lost nothing has left native sidecars that load accepts
\* and that bring back the very tables and tombstones saved, whatever earlier saves,
\* their crashes and their silent losses left behind.
SavedTablesReload ==
    outcome = "saved" =>
        /\ NativeAccepted
        /\ \/ /\ Loaded.base.entries = base.entries
              /\ Loaded.delta.entries = delta.entries
              /\ Loaded.tombstones = tombstones
           \/ Loaded.base.entries = Contents /\ Loaded.tombstones = {}
=============================================================================

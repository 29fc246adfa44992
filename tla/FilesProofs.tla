------------------------------ MODULE FilesProofs ------------------------------
(***************************************************************************)
(* Theorems of BimapFiles, for any strings, id spaces, profiles and        *)
(* faults.  First about what is acknowledged: no save costs the snapshot   *)
(* acknowledged before it, and load answers what the logical file says     *)
(* whatever the sidecars are.  Then about the dictionary that is in memory *)
(* and the tables that are in the files: their types, what a completed     *)
(* save leaves for the next load, and that what was loaded finds its       *)
(* strings again.                                                          *)
(***************************************************************************)
EXTENDS BimapFiles, StringBimapProofs, SequenceTheorems, WellFoundedInduction, TLAPS


-----------------------------------------------------------------------------
(* Lists of file operations. *)

IsList(ops) == \E S : ops \in Seq(S)

\* The rename that puts a new snapshot in place.
Commit(new) == [logical |-> new, tmp |-> Absent]

\* Only the rename touches the logical file, it is never lost without an
\* exception, and no clean-up removes that file.
Careful(op, new) ==
    /\ op.cleanup \in Seq(Files \ {"logical"})
    /\ "logical" \in DOMAIN op.effect => op.effect = Commit(new) /\ op.throws
CarefulList(ops, new) == IsList(ops) /\ \A n \in 1 .. Len(ops) : Careful(ops[n], new)

\* An operation on another file.
Aside(op) == op.cleanup \in Seq(Files \ {"logical"}) /\ "logical" \notin DOMAIN op.effect
AsideList(ops) == IsList(ops) /\ \A n \in 1 .. Len(ops) : Aside(ops[n])

Commits(ops, new) == \E n \in 1 .. Len(ops) : ops[n].effect = Commit(new)

LEMMA ConcatList ==
    ASSUME NEW s, NEW t, IsList(s), IsList(t)
    PROVE  /\ IsList(s \o t) /\ Len(s) \in Nat /\ Len(t) \in Nat
           /\ Len(s \o t) = Len(s) + Len(t)
           /\ \A n \in 1 .. Len(s \o t) :
                \/ n \in 1 .. Len(s) /\ (s \o t)[n] = s[n]
                \/ n - Len(s) \in 1 .. Len(t) /\ (s \o t)[n] = t[n - Len(s)]
           /\ \A n \in 1 .. Len(s) : n \in 1 .. Len(s \o t) /\ (s \o t)[n] = s[n]
<1>1. PICK S : s \in Seq(S)
  BY DEF IsList
<1>2. PICK T : t \in Seq(T)
  BY DEF IsList
<1>3. s \in Seq(S \cup T) /\ t \in Seq(S \cup T)
  BY <1>1, <1>2, SeqMonotonic
<1>4. /\ s \o t \in Seq(S \cup T) /\ Len(s \o t) = Len(s) + Len(t)
      /\ Len(s) \in Nat /\ Len(t) \in Nat
      /\ \A n \in 1 .. Len(s) + Len(t) :
            (s \o t)[n] = IF n <= Len(s) THEN s[n] ELSE t[n - Len(s)]
  BY <1>3, ConcatProperties, LenProperties
<1>5. IsList(s \o t)
  BY <1>4 DEF IsList
<1> HIDE DEF IsList
<1> QED
  BY <1>4, <1>5

LEMMA ConcatMoves ==
    ASSUME NEW r, NEW s, NEW t, IsList(r), IsList(s), IsList(t)
    PROVE  r \o (s \o t) = (r \o s) \o t
<1>1. PICK R : r \in Seq(R)
  BY DEF IsList
<1>2. PICK S : s \in Seq(S)
  BY DEF IsList
<1>3. PICK T : t \in Seq(T)
  BY DEF IsList
<1>4. r \in Seq(R \cup S \cup T) /\ s \in Seq(R \cup S \cup T) /\ t \in Seq(R \cup S \cup T)
  BY <1>1, <1>2, <1>3, SeqMonotonic
<1> QED
  BY <1>4, ConcatAssociative

LEMMA ConcatOne ==
    ASSUME NEW s, NEW x, IsList(s)
    PROVE  Len(s \o <<x>>) = Len(s) + 1 /\ (s \o <<x>>)[Len(s) + 1] = x
<1>1. PICK S : s \in Seq(S)
  BY DEF IsList
<1>2. s \in Seq(S \cup {x}) /\ <<x>> \in Seq(S \cup {x}) /\ Len(<<x>>) = 1 /\ <<x>>[1] = x
  BY <1>1
<1> QED
  BY <1>2, ConcatProperties

LEMMA CarefulConcat ==
    ASSUME NEW s, NEW t, NEW new, CarefulList(s, new), CarefulList(t, new)
    PROVE  CarefulList(s \o t, new) /\ (Commits(s, new) => Commits(s \o t, new))
<1>1. IsList(s) /\ IsList(t)
  BY DEF CarefulList
<1>2. \A n \in 1 .. Len(s \o t) : Careful((s \o t)[n], new)
  BY <1>1, ConcatList DEF CarefulList
<1>3. Commits(s, new) => Commits(s \o t, new)
  BY <1>1, ConcatList, Zenon DEF Commits
<1> QED
  BY <1>1, <1>2, <1>3, ConcatList DEF CarefulList

LEMMA AsideConcat ==
    ASSUME NEW s, NEW t, AsideList(s), AsideList(t)
    PROVE  AsideList(s \o t)
<1>1. IsList(s) /\ IsList(t)
  BY DEF AsideList
<1>2. \A n \in 1 .. Len(s \o t) : Aside((s \o t)[n])
  BY <1>1, ConcatList DEF AsideList
<1> QED
  BY <1>1, <1>2, ConcatList DEF AsideList

LEMMA AsideIsCareful == ASSUME NEW s, NEW new, AsideList(s) PROVE CarefulList(s, new)
BY DEF AsideList, CarefulList, Aside, Careful

LEMMA NoOps == AsideList(<<>>)
<1>1. <<>> \in Seq({}) /\ Len(<<>>) = 0
  OBVIOUS
<1> QED
  BY <1>1 DEF AsideList, IsList

LEMMA PairList ==
    ASSUME NEW x, NEW y
    PROVE  /\ IsList(<<x>>) /\ IsList(<<x, y>>) /\ Len(<<x>>) = 1 /\ Len(<<x, y>>) = 2
           /\ <<x>>[1] = x /\ <<x, y>>[1] = x /\ <<x, y>>[2] = y
<1>1. <<x>> \in Seq({x, y}) /\ <<x, y>> \in Seq({x, y})
  OBVIOUS
<1> QED
  BY <1>1 DEF IsList

LEMMA AsidePair ==
    ASSUME NEW x, NEW y, Aside(x), Aside(y)
    PROVE  AsideList(<<x>>) /\ AsideList(<<x, y>>)
<1>1. ASSUME NEW n \in 1 .. Len(<<x>>)
      PROVE  Aside(<<x>>[n])
  <2>1. n = 1
    BY <1>1, PairList
  <2> QED
    BY <2>1, PairList, Zenon
<1>2. ASSUME NEW n \in 1 .. Len(<<x, y>>)
      PROVE  Aside(<<x, y>>[n])
  <2>1. n = 1 \/ n = 2
    BY <1>2, PairList
  <2>2. CASE n = 1
    BY <2>2, PairList, Zenon
  <2>3. CASE n = 2
    BY <2>3, PairList, Zenon
  <2> QED
    BY <2>1, <2>2, <2>3
<1> QED
  BY <1>1, <1>2, PairList, Zenon DEF AsideList

\* Filling or removing a file other than the logical one.
LEMMA WriteAside ==
    ASSUME NEW f \in Files \ {"logical"}, NEW data, NEW cleanup \in Seq(Files \ {"logical"})
    PROVE  AsideList(Write(f, data, cleanup)) /\ Len(Write(f, data, cleanup)) = 2
<1> DEFINE x == Op(Becomes(f, Torn), TRUE, cleanup)
           y == Op(Becomes(f, data), TRUE, cleanup)
<1>1. Aside(x) /\ Aside(y)
  BY DEF Aside, Op, Becomes
<1>2. Write(f, data, cleanup) = <<x, y>>
  BY DEF Write
<1> HIDE DEF x, y
<1> QED
  BY <1>1, <1>2, AsidePair, PairList

LEMMA RemoveAside ==
    ASSUME NEW f \in Files \ {"logical"}
    PROVE  Aside(Remove(f)) /\ ~Remove(f).throws /\ AsideList(<<Remove(f)>>)
<1>1. <<>> \in Seq(Files \ {"logical"})
  OBVIOUS
<1>2. Aside(Remove(f)) /\ ~Remove(f).throws
  BY <1>1 DEF Aside, Remove, Op, Becomes
<1> QED
  BY <1>2, AsidePair

-----------------------------------------------------------------------------
(* The operations of a save and of a load. *)

LEMMA LogicalFileList ==
    CarefulList(WriteLogical, Logical) /\ Commits(WriteLogical, Logical) /\ Len(WriteLogical) = 3
<1> DEFINE fill == Write("tmp", Logical, <<"tmp">>)
           move == Op([logical |-> Logical, tmp |-> Absent], TRUE, <<"tmp">>)
<1>1. "tmp" \in Files \ {"logical"} /\ <<"tmp">> \in Seq(Files \ {"logical"})
  BY DEF Files
<1>2. AsideList(fill) /\ Len(fill) = 2
  BY <1>1, WriteAside
<1>3. Careful(move, Logical) /\ move.effect = Commit(Logical)
  BY <1>1 DEF Careful, Op, Commit
<1>4. WriteLogical = fill \o <<move>>
  BY DEF WriteLogical
<1> HIDE DEF fill, move
<1>5. CarefulList(fill, Logical) /\ IsList(fill)
  BY <1>2, AsideIsCareful DEF AsideList
<1>6. CarefulList(<<move>>, Logical)
  <2>1. ASSUME NEW n \in 1 .. Len(<<move>>)
        PROVE  Careful(<<move>>[n], Logical)
    <3>1. n = 1
      BY <2>1, PairList
    <3> QED
      BY <1>3, <3>1, PairList, Zenon
  <2> QED
    BY <2>1, PairList, Zenon DEF CarefulList
<1>7. /\ Len(fill \o <<move>>) = 3 /\ 3 \in 1 .. Len(fill \o <<move>>)
      /\ (fill \o <<move>>)[3] = move
  <2>1. Len(fill \o <<move>>) = Len(fill) + 1 /\ (fill \o <<move>>)[Len(fill) + 1] = move
    BY <1>5, ConcatOne, Zenon
  <2> QED
    BY <1>2, <2>1
<1> QED
  BY <1>3, <1>4, <1>5, <1>6, <1>7, CarefulConcat, Zenon DEF Commits

LEMMA TrieList ==
    ASSUME NEW b
    PROVE  AsideList(WriteTrie(b)) /\ WriteTrie(b) # <<>>
<1>1. /\ {"trie", "ids"} \subseteq Files \ {"logical"}
      /\ <<>> \in Seq(Files \ {"logical"})
  BY DEF Files
<1>2. /\ AsideList(Write("trie", KeysOf(b.index), <<>>))
      /\ AsideList(Write("ids", IdsFile(b.index), <<>>))
      /\ Len(Write("trie", KeysOf(b.index), <<>>)) = 2
      /\ Len(Write("ids", IdsFile(b.index), <<>>)) = 2
  BY <1>1, WriteAside
<1>3. /\ IsList(Write("trie", KeysOf(b.index), <<>>))
      /\ IsList(Write("ids", IdsFile(b.index), <<>>))
  BY <1>2, Zenon DEF AsideList
<1>6. Len(WriteTrie(b)) = 2 + 2
  <2>1. Len(WriteTrie(b)) = Len(Write("trie", KeysOf(b.index), <<>>))
                            + Len(Write("ids", IdsFile(b.index), <<>>))
    BY <1>3, ConcatList, Zenon DEF WriteTrie
  <2> QED
    BY <1>2, <2>1
<1>4. Len(<<>>) = 0
  OBVIOUS
<1>5. WriteTrie(b) # <<>>
  BY <1>4, <1>6
<1> QED
  BY <1>2, <1>5, AsideConcat DEF WriteTrie

LEMMA NativeList ==
    ASSUME NEW b, NEW d, NEW t
    PROVE  AsideList(WriteNative(b, d, t))
<1> DEFINE tables == Write("native.base", [entries |-> b.entries, live |-> b.live], NativeFiles)
           changes ==
               IF d.live # 0
               THEN Write("native.delta",
                          [entries |-> d.entries, live |-> d.live, used |-> d.used], NativeFiles)
               ELSE <<Remove("native.delta")>>
           header == Write("native.state", [logical |-> Logical, tombstones |-> t], NativeFiles)
<1>1. /\ {"native.base", "native.delta", "native.state"} \subseteq Files \ {"logical"}
      /\ NativeFiles \in Seq(Files \ {"logical"})
  BY DEF Files, NativeFiles
<1>2. AsideList(tables) /\ AsideList(header)
  BY <1>1, WriteAside
<1>3. AsideList(changes)
  BY <1>1, WriteAside, RemoveAside
<1>4. WriteNative(b, d, t) = tables \o changes \o header
  BY DEF WriteNative
<1> HIDE DEF tables, changes, header
<1> QED
  BY <1>2, <1>3, <1>4, AsideConcat, Zenon

LEMMA SaveList ==
    ASSUME NEW b, NEW d, NEW t
    PROVE  /\ CarefulList(SaveOps(b, d, t), Logical) /\ Commits(SaveOps(b, d, t), Logical)
           /\ SaveOps(b, d, t) # <<>>
<1> DEFINE side == IF b.trie THEN WriteTrie(b) ELSE <<Remove("trie"), Remove("ids")>>
<1>1. AsideList(side)
  <2>1. {"trie", "ids"} \subseteq Files \ {"logical"}
    BY DEF Files
  <2> QED
    BY <2>1, TrieList, RemoveAside, AsidePair
<1>2. SaveOps(b, d, t) = WriteLogical \o side \o WriteNative(b, d, t)
  BY DEF SaveOps
<1> HIDE DEF side
<1>3. CarefulList(SaveOps(b, d, t), Logical) /\ Commits(SaveOps(b, d, t), Logical)
  BY <1>1, <1>2, LogicalFileList, NativeList, AsideIsCareful, CarefulConcat, Zenon
<1>4. ~Commits(<<>>, Logical)
  BY NoOps DEF Commits
<1> QED
  BY <1>3, <1>4, Zenon

\* The first operation of a list and the rest of it.
LEMMA HeadAndTail ==
    ASSUME NEW s, IsList(s), s # <<>>
    PROVE  /\ IsList(Tail(s)) /\ Len(s) \in Nat /\ 1 \in 1 .. Len(s) /\ Head(s) = s[1]
           /\ \A n \in 1 .. Len(Tail(s)) : n + 1 \in 1 .. Len(s) /\ Tail(s)[n] = s[n + 1]
           /\ \A n \in 1 .. Len(s) : n = 1 \/ (n - 1 \in 1 .. Len(Tail(s)) /\ Tail(s)[n - 1] = s[n])
           /\ Len(Tail(s)) = Len(s) - 1
<1>1. PICK S : s \in Seq(S)
  BY DEF IsList
<1>2. /\ Tail(s) \in Seq(S) /\ Len(Tail(s)) = Len(s) - 1
      /\ \A i \in 1 .. Len(Tail(s)) : Tail(s)[i] = s[i + 1]
  BY <1>1, HeadTailProperties
<1>3. Len(s) \in Nat /\ Len(s) # 0 /\ Head(s) = s[1]
  BY <1>1
<1>4. IsList(Tail(s))
  BY <1>2 DEF IsList
<1> HIDE DEF IsList
<1>5. \A n \in 1 .. Len(s) : n = 1 \/ (n - 1 \in 1 .. Len(s) - 1 /\ (n - 1) + 1 = n)
  BY <1>3
<1> QED
  BY <1>2, <1>3, <1>4, <1>5

-----------------------------------------------------------------------------
(* The invariant. *)

IsSnapshot(s) == s.contents = [i \in Ids |-> s.contents[i]]

\* A save that has begun puts its snapshot in place or has done so; outside of a
\* save nothing touches the logical file.
AckInv ==
    /\ disk["logical"] \in durable
    /\ \A s \in durable : s = Absent \/ IsSnapshot(s)
    /\ mode = "saving" =>
          /\ CarefulList(todo, Logical)
          /\ Logical \in durable
          /\ disk["logical"] = Logical \/ Commits(todo, Logical)
    /\ mode # "saving" => AsideList(todo)
    /\ mode = "unwinding" => \A n \in 1 .. Len(todo) : ~todo[n].throws
    /\ Busy => todo # <<>>

LEMMA LogicalIsSnapshot == IsSnapshot(Logical)
BY DEF IsSnapshot, Logical, Contents

LEMMA SameLogical == ASSUME UNCHANGED vars PROVE Logical' = Logical
BY DEF vars, Logical, Contents, GetString

LEMMA InitAck == FilesInit => AckInv
<1> SUFFICES ASSUME FilesInit
             PROVE  AckInv
  OBVIOUS
<1>1. disk["logical"] = Absent /\ durable = {Absent} /\ todo = <<>> /\ mode = "ready"
  BY DEF FilesInit, Files
<1> QED
  BY <1>1, NoOps, Zenon DEF AckInv, Busy

\* Steps between the calls of save and load.
LEMMA ReadyStep ==
    ASSUME AckInv, mode' \in {mode, "ready", "down"}, ~Busy, ~Busy',
           todo' = todo, disk' = disk, durable' = durable
    PROVE  AckInv'
<1>1. mode # "saving" /\ mode' # "saving" /\ mode' # "unwinding"
  BY DEF Busy
<1> QED
  BY <1>1, Zenon DEF AckInv

LEMMA BeginStep ==
    ASSUME AckInv, NEW b, NEW d, NEW t, BeginSave(b, d, t)
    PROVE  AckInv'
<1>1. /\ mode' = "saving" /\ todo' = SaveOps(b, d, t) /\ disk' = disk
      /\ durable' = durable \cup {Logical} /\ UNCHANGED vars
  BY Zenon DEF BeginSave
<1>2. Logical' = Logical
  BY <1>1, SameLogical, Zenon
<1>3. /\ CarefulList(todo', Logical') /\ Commits(todo', Logical') /\ todo' # <<>>
  BY <1>1, <1>2, SaveList, Zenon
<1>4. disk'["logical"] \in durable' /\ Logical' \in durable'
  BY <1>1, <1>2, Zenon DEF AckInv
<1>5. \A s \in durable' : s = Absent \/ IsSnapshot(s)
  BY <1>1, LogicalIsSnapshot, Zenon DEF AckInv
<1> QED
  BY <1>1, <1>3, <1>4, <1>5 DEF AckInv

LEMMA LoadStep ==
    ASSUME AckInv, Load
    PROVE  AckInv'
<1>1. disk' = disk /\ durable' = {disk["logical"]}
  BY Zenon DEF Load
<1>2. disk'["logical"] \in durable' /\ \A s \in durable' : s = Absent \/ IsSnapshot(s)
  BY <1>1, Zenon DEF AckInv
<1>3. \/ mode' = "loading" /\ todo' = WriteTrie(Loaded.base)
      \/ mode' = "ready" /\ todo' = <<>>
  BY Zenon DEF Load
<1>4. /\ mode' = "loading" \/ mode' = "ready"
      /\ AsideList(todo')
      /\ mode' = "loading" => todo' # <<>>
  BY <1>3, TrieList, NoOps, Zenon
<1>5. mode' # "saving" /\ mode' # "unwinding" /\ (Busy' => mode' = "loading")
  BY <1>4 DEF Busy
<1> QED
  BY <1>2, <1>4, <1>5, Zenon DEF AckInv

-----------------------------------------------------------------------------
(* The steps that run the operations. *)

\* What is left after the first operation keeps what the whole list kept.
LEMMA RestOfList ==
    ASSUME NEW s, NEW new, s # <<>>
    PROVE  /\ AsideList(s) => Aside(Head(s)) /\ AsideList(Tail(s))
           /\ CarefulList(s, new) =>
                /\ Careful(Head(s), new) /\ CarefulList(Tail(s), new)
                /\ Commits(s, new) => Head(s).effect = Commit(new) \/ Commits(Tail(s), new)
           /\ IsList(s) => (Len(s) > 1 <=> Tail(s) # <<>>)
           /\ IsList(s) /\ (\A n \in 1 .. Len(s) : ~s[n].throws) =>
                ~Head(s).throws /\ \A n \in 1 .. Len(Tail(s)) : ~Tail(s)[n].throws
<1>1. IsList(s) => (Len(s) > 1 <=> Tail(s) # <<>>)
  <2> SUFFICES ASSUME IsList(s)
               PROVE  Len(s) > 1 <=> Tail(s) # <<>>
    OBVIOUS
  <2>1. PICK S : s \in Seq(S)
    BY DEF IsList
  <2>2. /\ Tail(s) \in Seq(S) /\ Len(Tail(s)) = Len(s) - 1
        /\ Len(s) \in Nat \ {0}
    BY <2>1, HeadTailProperties, EmptySeq
  <2>3. /\ Tail(s) = <<>> => Len(Tail(s)) = 0
        /\ Tail(s) # <<>> => Len(Tail(s)) \in Nat \ {0}
    BY <2>2, EmptySeq
  <2> QED
    BY <2>2, <2>3
<1>2. AsideList(s) => Aside(Head(s)) /\ AsideList(Tail(s))
  BY HeadAndTail, Zenon DEF AsideList
<1>3. ASSUME CarefulList(s, new)
      PROVE  Careful(Head(s), new) /\ CarefulList(Tail(s), new)
  BY <1>3, HeadAndTail, Zenon DEF CarefulList
<1>4. ASSUME CarefulList(s, new), Commits(s, new)
      PROVE  Head(s).effect = Commit(new) \/ Commits(Tail(s), new)
  <2>1. IsList(s)
    BY <1>4, Zenon DEF CarefulList
  <2>2. PICK n \in 1 .. Len(s) : s[n].effect = Commit(new)
    BY <1>4, Zenon DEF Commits
  <2>3. CASE n = 1
    BY <2>1, <2>2, <2>3, HeadAndTail, Zenon
  <2>4. CASE n # 1
    <3>1. n - 1 \in 1 .. Len(Tail(s)) /\ Tail(s)[n - 1] = s[n]
      BY <2>1, <2>4, HeadAndTail, Zenon
    <3> QED
      BY <2>2, <3>1, Zenon DEF Commits
  <2> QED
    BY <2>3, <2>4
<1>5. ASSUME IsList(s), \A n \in 1 .. Len(s) : ~s[n].throws
      PROVE  ~Head(s).throws /\ \A n \in 1 .. Len(Tail(s)) : ~Tail(s)[n].throws
  <2>1. /\ 1 \in 1 .. Len(s) /\ Head(s) = s[1]
        /\ \A n \in 1 .. Len(Tail(s)) : n + 1 \in 1 .. Len(s) /\ Tail(s)[n] = s[n + 1]
    BY <1>5, HeadAndTail, Zenon
  <2>2. ~Head(s).throws
    BY <1>5, <2>1, Zenon
  <2>3. ASSUME NEW n \in 1 .. Len(Tail(s))
        PROVE  ~Tail(s)[n].throws
    BY <1>5, <2>1, Zenon
  <2> QED
    BY <2>2, <2>3
<1> QED
  BY <1>1, <1>2, <1>3, <1>4, <1>5, Zenon

\* Advancing by an operation after which the logical file is as it should be.
LEMMA AdvanceStep ==
    ASSUME AckInv, Busy, NEW status, Advance(status),
           \/ disk'["logical"] = disk["logical"] /\ Head(todo).effect # Commit(Logical)
           \/ disk'["logical"] = Logical /\ mode = "saving"
    PROVE  AckInv'
<1>0. todo # <<>> /\ todo' = Tail(todo) /\ UNCHANGED vars
      /\ mode \in {"saving", "loading", "unwinding"}
  BY Zenon DEF AckInv, Advance, Busy
<1>1. Logical' = Logical
  BY <1>0, SameLogical, Zenon
<1>2. IsList(todo) /\ (Len(todo) > 1 <=> todo' # <<>>)
  BY <1>0, RestOfList, Zenon DEF AckInv, AsideList, CarefulList
<1>3. CASE Len(todo) > 1
  <2>1. mode' = mode /\ durable' = durable /\ todo' # <<>>
    BY <1>2, <1>3, Zenon DEF Advance
  <2>2. disk'["logical"] \in durable'
    BY <2>1, Zenon DEF AckInv
  <2>3. ASSUME mode' = "saving"
        PROVE  /\ CarefulList(todo', Logical') /\ Logical' \in durable'
               /\ disk'["logical"] = Logical' \/ Commits(todo', Logical')
    <3>1. mode = "saving" /\ CarefulList(todo, Logical) /\ Logical \in durable
      BY <2>1, <2>3, Zenon DEF AckInv
    <3>2. CASE disk'["logical"] = Logical
      BY <1>0, <1>1, <2>1, <3>1, <3>2, RestOfList, Zenon
    <3>3. CASE disk'["logical"] = disk["logical"] /\ Head(todo).effect # Commit(Logical)
      <4>1. disk["logical"] = Logical \/ Commits(todo, Logical)
        BY <3>1, Zenon DEF AckInv
      <4> QED
        BY <1>0, <1>1, <2>1, <3>1, <3>3, <4>1, RestOfList, Zenon
    <3> QED
      BY <3>2, <3>3, Zenon
  <2>4. mode' # "saving" => AsideList(todo')
    BY <1>0, <2>1, RestOfList, Zenon DEF AckInv
  <2>5. mode' = "unwinding" => \A n \in 1 .. Len(todo') : ~todo'[n].throws
    BY <1>0, <1>2, <2>1, RestOfList, Zenon DEF AckInv
  <2>6. \A s \in durable' : s = Absent \/ IsSnapshot(s)
    BY <2>1, Zenon DEF AckInv
  <2> QED
    BY <2>1, <2>2, <2>3, <2>4, <2>5, <2>6, Zenon DEF AckInv
<1>4. CASE ~(Len(todo) > 1)
  <2>1. todo' = <<>> /\ mode' = "ready"
        /\ durable' = IF mode = "saving" THEN {Logical} ELSE durable
    <3>1. mode' = Finished(status).mode /\ durable' = Finished(status).durable
      BY <1>4, Zenon DEF Advance
    <3> QED
      BY <1>2, <1>4, <3>1 DEF Finished
  <2>2. ASSUME mode = "saving"
        PROVE  disk'["logical"] = Logical
    <3>1. CarefulList(todo, Logical) /\ (disk["logical"] = Logical \/ Commits(todo, Logical))
      BY <2>2, Zenon DEF AckInv
    <3>2. ~Commits(<<>>, Logical)
      BY NoOps DEF Commits
    <3>3. CASE disk'["logical"] = disk["logical"] /\ Head(todo).effect # Commit(Logical)
      BY <1>0, <2>1, <3>1, <3>2, <3>3, RestOfList, Zenon
    <3> QED
      BY <3>3, Zenon
  <2>3. disk'["logical"] \in durable' /\ \A s \in durable' : s = Absent \/ IsSnapshot(s)
    <3>1. CASE mode = "saving"
      BY <2>1, <2>2, <3>1, LogicalIsSnapshot, Zenon
    <3>2. CASE mode # "saving"
      BY <2>1, <3>2, Zenon DEF AckInv
    <3> QED
      BY <3>1, <3>2
  <2>4. mode' # "saving" /\ mode' # "unwinding" /\ ~Busy'
    BY <2>1 DEF Busy
  <2> QED
    BY <2>1, <2>3, <2>4, NoOps, Zenon DEF AckInv
<1> QED
  BY <1>3, <1>4

LEMMA RunStep ==
    ASSUME AckInv, FileOpDone \/ WriteLost \/ RemoveLost
    PROVE  AckInv'
<1>0. Busy /\ todo # <<>> /\ \E status : Advance(status)
  BY Zenon DEF FileOpDone, WriteLost, RemoveLost, AckInv
<1>1. CASE mode = "saving"
  <2>1. Careful(Head(todo), Logical)
    BY <1>0, <1>1, RestOfList, Zenon DEF AckInv
  <2>2. CASE FileOpDone
    <3>1. disk'["logical"] = IF "logical" \in DOMAIN Head(todo).effect
                             THEN Head(todo).effect["logical"] ELSE disk["logical"]
      BY <2>2 DEF FileOpDone, Files
    <3>2. CASE "logical" \in DOMAIN Head(todo).effect
      <4>1. Head(todo).effect = Commit(Logical)
        BY <2>1, <3>2, Zenon DEF Careful
      <4>2. Commit(Logical)["logical"] = Logical
        BY DEF Commit
      <4>3. disk'["logical"] = Logical
        BY <3>1, <3>2, <4>1, <4>2
      <4> QED
        BY <1>0, <1>1, <4>3, AdvanceStep, Zenon
    <3>3. CASE "logical" \notin DOMAIN Head(todo).effect
      <4>1. Head(todo).effect # Commit(Logical)
        BY <3>3 DEF Commit
      <4> QED
        BY <1>0, <3>1, <3>3, <4>1, AdvanceStep, Zenon
    <3> QED
      BY <3>2, <3>3
  <2>3. CASE WriteLost \/ RemoveLost
    <3>1. disk' = disk
      BY <2>3, Zenon DEF WriteLost, RemoveLost
    <3>2. Head(todo).effect # Commit(Logical)
      <4> SUFFICES ASSUME Head(todo).effect = Commit(Logical)
                   PROVE  FALSE
        OBVIOUS
      <4>1. DOMAIN Head(todo).effect = {"logical", "tmp"}
        BY DEF Commit
      <4>2. Head(todo).throws
        BY <2>1, <4>1 DEF Careful
      <4> QED
        BY <2>3, <4>1, <4>2 DEF WriteLost, RemoveLost
    <3> QED
      BY <1>0, <3>1, <3>2, AdvanceStep, Zenon
  <2> QED
    BY <2>2, <2>3
<1>2. CASE mode # "saving"
  <2>1. Aside(Head(todo))
    BY <1>0, <1>2, RestOfList, Zenon DEF AckInv
  <2>2. Head(todo).effect # Commit(Logical) /\ "logical" \notin DOMAIN Head(todo).effect
    BY <2>1 DEF Aside, Commit
  <2>3. disk'["logical"] = disk["logical"]
    BY <2>2 DEF FileOpDone, WriteLost, RemoveLost, Files
  <2> QED
    BY <1>0, <2>2, <2>3, AdvanceStep, Zenon
<1> QED
  BY <1>1, <1>2

\* The operations of a clean-up remove other files and cannot throw.
LEMMA CleanupList ==
    ASSUME NEW cleanup \in Seq(Files \ {"logical"}), NEW ops,
           ops = [n \in DOMAIN cleanup |-> Remove(cleanup[n])]
    PROVE  /\ AsideList(ops) /\ (ops = <<>> <=> cleanup = <<>>)
           /\ \A n \in 1 .. Len(ops) : ~ops[n].throws
<1> DEFINE S == {Remove(f) : f \in Files \ {"logical"}}
<1>1. /\ Len(cleanup) \in Nat /\ DOMAIN cleanup = 1 .. Len(cleanup)
      /\ \A n \in DOMAIN cleanup : cleanup[n] \in Files \ {"logical"}
  OBVIOUS
<1>2. /\ ops \in [1 .. Len(cleanup) -> S]
      /\ \A n \in 1 .. Len(cleanup) : \E f \in Files \ {"logical"} : ops[n] = Remove(f)
  BY <1>1, Zenon
<1> HIDE DEF S
<1>3. ops \in Seq(S) /\ Len(ops) = Len(cleanup)
  BY <1>1, <1>2
<1>4. \A n \in 1 .. Len(ops) : Aside(ops[n]) /\ ~ops[n].throws
  BY <1>2, <1>3, RemoveAside, Zenon
<1>5. ops = <<>> <=> cleanup = <<>>
  BY <1>3
<1> QED
  BY <1>3, <1>4, <1>5, Zenon DEF AsideList, IsList

LEMMA ThrowStep ==
    ASSUME AckInv, OpThrows
    PROVE  AckInv'
<1> DEFINE cleanup == Head(todo).cleanup
<1>1. Busy /\ todo # <<>> /\ Head(todo).throws /\ disk' = disk /\ durable' = durable
      /\ todo' = [n \in DOMAIN cleanup |-> Remove(cleanup[n])]
  BY Zenon DEF OpThrows, AckInv
<1>2. cleanup \in Seq(Files \ {"logical"})
  <2>1. CASE mode = "saving"
    BY <1>1, <2>1, RestOfList, Zenon DEF AckInv, Careful
  <2>2. CASE mode # "saving"
    BY <1>1, <2>2, RestOfList, Zenon DEF AckInv, Aside
  <2> QED
    BY <2>1, <2>2
<1>3. /\ AsideList(todo') /\ (todo' = <<>> <=> cleanup = <<>>)
      /\ \A n \in 1 .. Len(todo') : ~todo'[n].throws
  <2> HIDE DEF cleanup
  <2> QED
    BY <1>1, <1>2, CleanupList
<1>4. mode # "unwinding"
  BY <1>1, RestOfList, Zenon DEF AckInv, AsideList
<1>5. \/ mode' = "down" \/ mode' = "ready"
      \/ mode' = "unwinding" /\ cleanup # <<>>
  BY <1>1, <1>4 DEF OpThrows, Busy
<1>6. mode' # "saving" /\ (Busy' => todo' # <<>>)
  BY <1>3, <1>5 DEF Busy
<1> QED
  BY <1>1, <1>3, <1>6, Zenon DEF AckInv

LEMMA CrashStep ==
    ASSUME AckInv, Crash
    PROVE  AckInv'
<1>1. mode' = "down" /\ todo' = <<>> /\ disk' = disk /\ durable' = durable
  BY Zenon DEF Crash
<1>2. mode' # "saving" /\ mode' # "unwinding" /\ ~Busy'
  BY <1>1 DEF Busy
<1> QED
  BY <1>1, <1>2, NoOps, Zenon DEF AckInv

LEMMA StepAck == AckInv /\ [FilesNext]_allVars => AckInv'
<1> SUFFICES ASSUME AckInv, [FilesNext]_allVars
             PROVE  AckInv'
  OBVIOUS
<1>1. CASE Save \/ SaveCompacted
  BY <1>1, BeginStep, Zenon DEF Save, SaveCompacted
<1>2. CASE Load
  BY <1>2, LoadStep
<1>3. CASE FileOpDone \/ WriteLost \/ RemoveLost
  BY <1>3, RunStep
<1>4. CASE OpThrows
  BY <1>4, ThrowStep
<1>5. CASE Crash
  BY <1>5, CrashStep
<1>6. CASE Mutate \/ LoadThrows \/ StartEmpty
  <2>1. /\ mode \in {"ready", "down"} /\ mode' \in {mode, "ready"}
        /\ todo' = todo /\ disk' = disk /\ durable' = durable
    BY <1>6 DEF Mutate, LoadThrows, StartEmpty
  <2>2. ~Busy /\ ~Busy'
    BY <2>1 DEF Busy
  <2> QED
    BY <2>1, <2>2, ReadyStep
<1>7. CASE UNCHANGED allVars
  <2>1. /\ mode' = mode /\ todo' = todo /\ disk' = disk /\ durable' = durable
        /\ UNCHANGED vars
    BY <1>7 DEF allVars, ioVars, vars
  <2>2. Logical' = Logical /\ (Busy' <=> Busy)
    BY <2>1, SameLogical DEF Busy
  <2> QED
    BY <2>1, <2>2, Zenon DEF AckInv
<1> QED
  BY <1>1, <1>2, <1>3, <1>4, <1>5, <1>6, <1>7, Zenon DEF FilesNext

\* Saves that crash, throw or silently lose writes never cost the snapshot that was
\* acknowledged last: the logical file is that one or one whose save began after it.
THEOREM AcknowledgedSaves == FilesSpec => []AcknowledgedSaveSurvives
<1>1. AckInv => AcknowledgedSaveSurvives
  BY Zenon DEF AckInv, AcknowledgedSaveSurvives
<1> QED
  BY <1>1, InitAck, StepAck, PTL DEF FilesSpec

LEMMA AckAnswers == AckInv => LoadAnswersLogical
<1> DEFINE logical == disk["logical"].contents
<1> SUFFICES ASSUME AckInv, CanLoad
             PROVE  ContentsOf(Loaded.base, Loaded.delta, Loaded.tombstones) = logical
  BY Zenon DEF LoadAnswersLogical
<1>1. logical = [i \in Ids |-> logical[i]]
  BY Zenon DEF CanLoad, Whole, AckInv, IsSnapshot
<1>2. CASE NativeAccepted
  BY <1>2 DEF Loaded, NativeAccepted
<1>3. CASE ~NativeAccepted
  <2>1. /\ Loaded.base.entries = logical /\ Loaded.delta = EmptyDelta
        /\ Loaded.tombstones = {}
    BY <1>3 DEF Loaded, LoadedBase, Rebuilt
  <2>2. \A i \in Ids : EmptyDelta.entries[i] = NoString
    BY DEF EmptyDelta, NoEntries
  <2> HIDE DEF logical
  <2> QED
    BY <1>1, <2>1, <2>2 DEF ContentsOf
<1> QED
  BY <1>2, <1>3

\* Whatever mixture of old, new and torn sidecars it finds, load answers the ids and
\* strings of the logical file.
THEOREM LoadsAnswerLogical == FilesSpec => []LoadAnswersLogical
<1> QED
  BY AckAnswers, InitAck, StepAck, PTL DEF FilesSpec

-----------------------------------------------------------------------------
(* The indexes that rebuilding and loading make. *)

\* A nonempty set of ids has a largest one: the ids above its elements are finite
\* sets, among which one has no smaller one.
LEMMA LargestId ==
    ASSUME NEW S \in SUBSET Ids, S # {}
    PROVE  \E m \in S : \A k \in S : k <= m
<1> DEFINE Above(n) == {k \in Ids : k > n}
           Tops == {Above(n) : n \in S}
<1>1. Tops \subseteq FiniteSubsetsOf(Ids) /\ Tops # {}
  BY IdsFinite DEF FiniteSubsetsOf
<1>2. PICK s \in Tops : \A t \in Tops : <<t, s>> \notin StrictSubsetOrdering(Ids)
  <2> HIDE DEF Tops
  <2> QED
    BY <1>1, FS_StrictSubsetOrderingWellFounded, WFMin
<1>3. PICK m \in S : s = Above(m)
  OBVIOUS
<1>4. ASSUME NEW k \in S, ~(k <= m)
      PROVE  FALSE
  <2>1. k \in Ids /\ m \in Ids /\ \A i \in Ids : i \in Nat
    BY IdFacts
  <2>2. Above(k) \subseteq Above(m) /\ k \in Above(m) /\ k \notin Above(k)
    BY <1>4, <2>1
  <2>3. <<Above(k), Above(m)>> \in StrictSubsetOrdering(Ids)
    BY <2>2 DEF StrictSubsetOrdering
  <2> QED
    BY <2>3, <1>2, <1>3
<1> QED
  BY <1>4

\* It has a smallest one too.
LEMMA SmallestId ==
    ASSUME NEW S \in SUBSET Ids, S # {}
    PROVE  \E m \in S : \A k \in S : m <= k
<1> DEFINE Below(n) == {k \in Ids : k < n}
           Floors == {Below(n) : n \in S}
<1>1. Floors \subseteq FiniteSubsetsOf(Ids) /\ Floors # {}
  BY IdsFinite DEF FiniteSubsetsOf
<1>2. PICK s \in Floors : \A t \in Floors : <<t, s>> \notin StrictSubsetOrdering(Ids)
  <2> HIDE DEF Floors
  <2> QED
    BY <1>1, FS_StrictSubsetOrderingWellFounded, WFMin
<1>3. PICK m \in S : s = Below(m)
  OBVIOUS
<1>4. ASSUME NEW k \in S, ~(m <= k)
      PROVE  FALSE
  <2>1. k \in Ids /\ m \in Ids /\ \A i \in Ids : i \in Nat
    BY IdFacts
  <2>2. Below(k) \subseteq Below(m) /\ k \in Below(m) /\ k \notin Below(k)
    BY <1>4, <2>1
  <2>3. <<Below(k), Below(m)>> \in StrictSubsetOrdering(Ids)
    BY <2>2 DEF StrictSubsetOrdering
  <2> QED
    BY <2>3, <1>2, <1>3
<1> QED
  BY <1>4

\* The index of any entry table names, for each of its strings, the last of its ids.
LEMMA IndexOfFinds ==
    ASSUME NEW items \in Entries
    PROVE  /\ IndexOf(items) \in Indexes
           /\ \A v \in Values, i \in Ids : IndexOf(items)[v] = i => items[i] = v
           /\ \A v \in Values, i \in Ids :
                 items[i] = v => IndexOf(items)[v] \in Ids /\ i <= IndexOf(items)[v]
<1> DEFINE Best(v) == CHOOSE i \in Ids : items[i] = v
                                         /\ \A j \in Ids : items[j] = v => j <= i
<1>1. ASSUME NEW v \in Values, \E i \in Ids : items[i] = v
      PROVE  /\ IndexOf(items)[v] \in Ids /\ items[IndexOf(items)[v]] = v
             /\ \A j \in Ids : items[j] = v => j <= IndexOf(items)[v]
  <2>1. \E m \in {i \in Ids : items[i] = v} : \A k \in {i \in Ids : items[i] = v} : k <= m
    BY <1>1, LargestId
  <2>2. \E m \in Ids : items[m] = v /\ \A j \in Ids : items[j] = v => j <= m
    BY <2>1
  <2>3. IndexOf(items)[v] = Best(v)
    BY <1>1 DEF IndexOf
  <2> QED
    BY <2>2, <2>3
<1>2. ASSUME NEW v \in Values, ~ \E i \in Ids : items[i] = v
      PROVE  IndexOf(items)[v] = kInvalidId
  BY <1>2 DEF IndexOf
<1>3. IndexOf(items) = [v \in Values |-> IndexOf(items)[v]]
  BY DEF IndexOf
<1>4. IndexOf(items) \in Indexes
  BY <1>1, <1>2, <1>3 DEF Indexes
<1>5. ASSUME NEW v \in Values, NEW i \in Ids, IndexOf(items)[v] = i
      PROVE  items[i] = v
  BY <1>1, <1>2, <1>5, IdFacts
<1> QED
  BY <1>1, <1>4, <1>5

\* No two ids of the table share a string.
Distinct(entries) == \A i, j \in Ids : entries[i] # NoString /\ entries[i] = entries[j] => i = j

\* An index that keeps what it holds names the first of a string's ids.
LEMMA FirstIndexOfFinds ==
    ASSUME NEW items \in Entries
    PROVE  /\ FirstIndexOf(items) \in Indexes
           /\ \A v \in Values, i \in Ids : FirstIndexOf(items)[v] = i => items[i] = v
           /\ \A v \in Values, i \in Ids : items[i] = v => FirstIndexOf(items)[v] \in Ids
<1> DEFINE First(v) == CHOOSE i \in Ids : items[i] = v
                                          /\ \A j \in Ids : items[j] = v => i <= j
<1>1. ASSUME NEW v \in Values, \E i \in Ids : items[i] = v
      PROVE  FirstIndexOf(items)[v] \in Ids /\ items[FirstIndexOf(items)[v]] = v
  <2>1. \E m \in {i \in Ids : items[i] = v} : \A k \in {i \in Ids : items[i] = v} : m <= k
    BY <1>1, SmallestId
  <2>2. \E m \in Ids : items[m] = v /\ \A j \in Ids : items[j] = v => m <= j
    BY <2>1
  <2>3. FirstIndexOf(items)[v] = First(v)
    BY <1>1 DEF FirstIndexOf
  <2> QED
    BY <2>2, <2>3
<1>2. ASSUME NEW v \in Values, ~ \E i \in Ids : items[i] = v
      PROVE  FirstIndexOf(items)[v] = kInvalidId
  BY <1>2 DEF FirstIndexOf
<1>3. FirstIndexOf(items) = [v \in Values |-> FirstIndexOf(items)[v]]
  BY DEF FirstIndexOf
<1>4. FirstIndexOf(items) \in Indexes
  BY <1>1, <1>2, <1>3 DEF Indexes
<1>5. ASSUME NEW v \in Values, NEW i \in Ids, FirstIndexOf(items)[v] = i
      PROVE  items[i] = v
  BY <1>1, <1>2, <1>5, IdFacts
<1> QED
  BY <1>1, <1>4, <1>5

\* The index a loaded delta gets names, for each string of the table, the last of its
\* ids; where the index keeps the first one, that takes a table without repetitions.
LEMMA DeltaIndexOfFinds ==
    ASSUME NEW items \in Entries
    PROVE  /\ DeltaIndexOf(items) \in Indexes
           /\ \A v \in Values, i \in Ids : DeltaIndexOf(items)[v] = i => items[i] = v
           /\ Profile = "FastLookup" \/ Distinct(items) =>
                 \A v \in Values, i \in Ids :
                    items[i] = v => DeltaIndexOf(items)[v] \in Ids /\ i <= DeltaIndexOf(items)[v]
<1>1. CASE Profile = "FastLookup"
  BY <1>1, IndexOfFinds DEF DeltaIndexOf
<1>2. CASE Profile # "FastLookup"
  <2>1. DeltaIndexOf(items) = FirstIndexOf(items)
    BY <1>2 DEF DeltaIndexOf
  <2>2. ASSUME Distinct(items), NEW v \in Values, NEW i \in Ids, items[i] = v
        PROVE  FirstIndexOf(items)[v] = i
    <3>1. FirstIndexOf(items)[v] \in Ids /\ items[FirstIndexOf(items)[v]] = v
      BY <2>2, FirstIndexOfFinds
    <3> QED
      BY <2>2, <3>1, SegmentAssumption DEF Distinct
  <2>3. \A i \in Ids : i <= i
    BY IdFacts
  <2> QED
    BY <1>2, <2>1, <2>2, <2>3, FirstIndexOfFinds
<1> QED
  BY <1>1, <1>2

\* The ids file of an index is a list of ids, one for each key of the trie.
LEMMA IdsFileType ==
    ASSUME NEW index \in Indexes
    PROVE  KeysOf(index) \in SUBSET Values /\ IdsFile(index) \in Seq(Ids)
<1> DEFINE keys == KeysOf(index)
           KeyAt(n) == CHOOSE v \in keys : KeyNumber[keys][v] = n
<1>1. keys \in SUBSET Values /\ IsFiniteSet(keys)
  BY FilesAssumption, FS_Subset DEF KeysOf
<1>2. Cardinality(keys) \in Nat
  BY <1>1, FS_CardinalityType
<1>3. ASSUME NEW n \in 1 .. Cardinality(keys)
      PROVE  index[KeyAt(n)] \in Ids
  <2>1. KeyNumber[keys] \in Surjection(keys, 1 .. Cardinality(keys))
    BY <1>1, FilesAssumption DEF Bijection
  <2>2. \E v \in keys : KeyNumber[keys][v] = n
    BY <2>1 DEF Surjection
  <2>3. KeyAt(n) \in keys
    BY <2>2
  <2> QED
    BY <2>3 DEF KeysOf, Indexes
<1>4. IdsFile(index) = [n \in 1 .. Cardinality(keys) |-> index[KeyAt(n)]]
  BY DEF IdsFile
<1> HIDE DEF keys, KeyAt
<1>5. [n \in 1 .. Cardinality(keys) |-> index[KeyAt(n)]] \in Seq(Ids)
  BY <1>2, <1>3
<1> QED
  BY <1>1, <1>4, <1>5 DEF keys

\* The index a trie and as many ids make.
LEMMA TrieIndexType ==
    ASSUME NEW keys \in SUBSET Values, NEW ids \in Seq(Ids), Len(ids) = Cardinality(keys)
    PROVE  TrieIndex(keys, ids) \in Indexes
<1>1. ASSUME NEW v \in keys
      PROVE  ids[KeyNumber[keys][v]] \in Ids
  <2>1. KeyNumber[keys] \in [keys -> 1 .. Cardinality(keys)]
    BY FilesAssumption DEF Bijection, Injection
  <2>2. KeyNumber[keys][v] \in 1 .. Len(ids)
    BY <2>1
  <2> QED
    BY <2>2
<1> QED
  BY <1>1 DEF TrieIndex, Indexes

LEMMA RebuiltTyped ==
    ASSUME NEW items \in Entries
    PROVE  Rebuilt(items) \in BaseSegment
<1>1. Cardinality(Present(items)) \in Nat /\ IndexOf(items) \in Indexes
  BY PresentType, IndexOfFinds
<1>2. (UsesBaseTrie /\ Present(items) # {}) \in BOOLEAN
  BY DEF UsesBaseTrie
<1> QED
  BY <1>1, <1>2 DEF Rebuilt, BaseSegment

-----------------------------------------------------------------------------
(* The invariant behind the types: what is in memory and what is in the files fit   *)
(* the counters that go with them.                                                  *)

GoodSnapshot(s) ==
    /\ s \in Snapshot
    /\ s.live_size = Cardinality(Present(s.contents))
    /\ \A i \in Ids : s.contents[i] # NoString => i < s.next_id

GoodData(f, x) ==
    /\ x \in Data(f)
    /\ f \in {"logical", "tmp"} => GoodSnapshot(x)
    /\ f = "native.state" =>
         GoodSnapshot(x.logical) /\ \A i \in x.tombstones : i < x.logical.next_id
GoodFile(f, x) == f \in Files /\ (x \in {Absent, Torn} \/ GoodData(f, x))
GoodOp(op) == \A f \in DOMAIN op.effect : GoodFile(f, op.effect[f])
GoodOps(ops) == \A n \in 1 .. Len(ops) : GoodOp(ops[n])

\* The part of IInv that survives a reload from any mixture of files.
MemoryInv ==
    /\ TypeOK /\ UsedIdsBelowNext /\ LiveSizeCountsLiveIds
    /\ delta.live = Cardinality(Present(delta.entries))

ControlInv ==
    /\ mode \in {"ready", "saving", "loading", "unwinding", "down"}
    /\ Busy <=> todo # <<>>
    /\ outcome \in {"none", "busy", "short", "saved", "saved_short", "loaded", "save_threw",
                   "load_threw", "crashed"}
    /\ Busy => outcome \in {"busy", "short"}
    /\ saves \in 0 .. MaxSaves /\ faults \in 0 .. MaxFaults

\* The operations of a load have nothing to clean up after an exception.
Bare(ops) == \A n \in 1 .. Len(ops) : ops[n].cleanup = <<>>

DiskInv == DOMAIN disk = Files /\ \A f \in Files : GoodFile(f, disk[f])

CoreInv ==
    /\ MemoryInv /\ ControlInv /\ DiskInv /\ GoodOps(todo)
    /\ mode = "loading" => Bare(todo)

LEMMA ContentsTyped == TypeOK => Contents \in Entries
BY ContentsFacts

LEMMA LogicalIsGood == MemoryInv => GoodSnapshot(Logical)
<1> SUFFICES ASSUME MemoryInv PROVE GoodSnapshot(Logical)
  OBVIOUS
<1> USE DEF MemoryInv
<1>1. Logical \in Snapshot
  BY ContentsFacts DEF Logical, Snapshot, TypeOK
<1>2. Logical.live_size = Cardinality(Present(Logical.contents))
  BY ContentsFacts DEF Logical, LiveSizeCountsLiveIds
<1>3. \A i \in Ids : Contents[i] # NoString => i < next_id
  BY ContentsFacts DEF UsedIdsBelowNext, GetString
<1> QED
  BY <1>1, <1>2, <1>3 DEF GoodSnapshot, Logical

\* What is written: the three kinds of operation a save or a load is made of.
LEMMA OneOp ==
    ASSUME NEW op
    PROVE  IsList(<<op>>) /\ (GoodOp(op) => GoodOps(<<op>>))
<1>1. ASSUME GoodOp(op), NEW n \in 1 .. Len(<<op>>)
      PROVE  GoodOp(<<op>>[n])
  <2>1. n = 1
    BY PairList
  <2> QED
    BY <1>1, <2>1, PairList, Zenon
<1> QED
  BY <1>1, PairList, Zenon DEF GoodOps

LEMMA TwoOps ==
    ASSUME NEW x, NEW y
    PROVE  IsList(<<x, y>>) /\ (GoodOp(x) /\ GoodOp(y) => GoodOps(<<x, y>>))
<1>1. ASSUME GoodOp(x), GoodOp(y), NEW n \in 1 .. Len(<<x, y>>)
      PROVE  GoodOp(<<x, y>>[n])
  <2>1. n = 1 \/ n = 2
    BY PairList
  <2>2. CASE n = 1
    BY <1>1, <2>2, PairList, Zenon
  <2>3. CASE n = 2
    BY <1>1, <2>3, PairList, Zenon
  <2> QED
    BY <2>1, <2>2, <2>3
<1> QED
  BY <1>1, PairList, Zenon DEF GoodOps

LEMMA GoodConcat ==
    ASSUME NEW s, NEW t, IsList(s), IsList(t), GoodOps(s), GoodOps(t)
    PROVE  IsList(s \o t) /\ GoodOps(s \o t)
<1>1. \A n \in 1 .. Len(s \o t) : GoodOp((s \o t)[n])
  BY ConcatList DEF GoodOps
<1> QED
  BY <1>1, ConcatList DEF GoodOps

LEMMA GoodRemove == ASSUME NEW f \in Files PROVE GoodOp(Remove(f))
BY DEF GoodOp, GoodFile, Remove, Op, Becomes

LEMMA GoodWrite ==
    ASSUME NEW f \in Files, NEW data, NEW cleanup, GoodData(f, data)
    PROVE  IsList(Write(f, data, cleanup)) /\ GoodOps(Write(f, data, cleanup))
<1> DEFINE x == Op(Becomes(f, Torn), TRUE, cleanup)
           y == Op(Becomes(f, data), TRUE, cleanup)
<1>1. GoodOp(x) /\ GoodOp(y)
  BY DEF GoodOp, GoodFile, Op, Becomes
<1>2. Write(f, data, cleanup) = <<x, y>>
  BY DEF Write
<1> HIDE DEF x, y
<1> QED
  BY <1>1, <1>2, TwoOps

LEMMA BareTrieOps == ASSUME NEW b PROVE Bare(WriteTrie(b))
<1>1. ASSUME NEW f, NEW data
      PROVE  IsList(Write(f, data, <<>>)) /\ Bare(Write(f, data, <<>>))
  <2> DEFINE x == Op(Becomes(f, Torn), TRUE, <<>>)
             y == Op(Becomes(f, data), TRUE, <<>>)
  <2>1. x.cleanup = <<>> /\ y.cleanup = <<>> /\ Write(f, data, <<>>) = <<x, y>>
    BY DEF Op, Write
  <2> HIDE DEF x, y
  <2>2. ASSUME NEW n \in 1 .. Len(<<x, y>>)
        PROVE  <<x, y>>[n].cleanup = <<>>
    <3>1. n = 1 \/ n = 2
      BY PairList
    <3>2. CASE n = 1
      BY <2>1, <3>2, PairList, Zenon
    <3>3. CASE n = 2
      BY <2>1, <3>3, PairList, Zenon
    <3> QED
      BY <3>1, <3>2, <3>3
  <2>3. IsList(<<x, y>>)
    BY PairList, Zenon
  <2>4. Bare(<<x, y>>)
    BY <2>2, Zenon DEF Bare
  <2> QED
    BY <2>1, <2>3, <2>4, Zenon
<1>2. ASSUME NEW s, NEW t, IsList(s), IsList(t), Bare(s), Bare(t)
      PROVE  Bare(s \o t)
  BY <1>2, ConcatList DEF Bare
<1> QED
  BY <1>1, <1>2, Zenon DEF WriteTrie

LEMMA GoodTrieOps ==
    ASSUME NEW b \in BaseSegment
    PROVE  IsList(WriteTrie(b)) /\ GoodOps(WriteTrie(b))
<1>1. b.index \in Indexes /\ {"trie", "ids"} \subseteq Files
  BY DEF BaseSegment, Files
<1>2. GoodData("trie", KeysOf(b.index)) /\ GoodData("ids", IdsFile(b.index))
  BY <1>1, IdsFileType DEF GoodData, Data
<1> QED
  BY <1>1, <1>2, GoodWrite, GoodConcat, Zenon DEF WriteTrie

LEMMA GoodNativeOps ==
    ASSUME MemoryInv, NEW b \in BaseSegment, NEW d \in DeltaSegment, NEW t \in SUBSET Ids,
           \A i \in t : i < next_id
    PROVE  IsList(WriteNative(b, d, t)) /\ GoodOps(WriteNative(b, d, t))
<1> DEFINE tables == Write("native.base", [entries |-> b.entries, live |-> b.live], NativeFiles)
           changes ==
               IF d.live # 0
               THEN Write("native.delta",
                          [entries |-> d.entries, live |-> d.live, used |-> d.used], NativeFiles)
               ELSE <<Remove("native.delta")>>
           header == Write("native.state", [logical |-> Logical, tombstones |-> t], NativeFiles)
<1>0. {"native.base", "native.delta", "native.state"} \subseteq Files
  BY DEF Files
<1>1. GoodSnapshot(Logical)
  BY LogicalIsGood
<1>2. GoodData("native.base", [entries |-> b.entries, live |-> b.live])
  BY DEF GoodData, Data, BaseSegment
<1>3. GoodData("native.delta", [entries |-> d.entries, live |-> d.live, used |-> d.used])
  BY DEF GoodData, Data, DeltaSegment
<1>4. GoodData("native.state", [logical |-> Logical, tombstones |-> t])
  BY <1>1 DEF GoodData, Data, GoodSnapshot, Logical
<1>5. /\ IsList(tables) /\ GoodOps(tables)
      /\ IsList(changes) /\ GoodOps(changes)
      /\ IsList(header) /\ GoodOps(header)
  BY <1>0, <1>2, <1>3, <1>4, GoodWrite, GoodRemove, OneOp
<1>6. WriteNative(b, d, t) = tables \o changes \o header
  BY DEF WriteNative
<1> HIDE DEF tables, changes, header
<1> QED
  BY <1>5, <1>6, GoodConcat, Zenon

LEMMA GoodSaveOps ==
    ASSUME MemoryInv, NEW b \in BaseSegment, NEW d \in DeltaSegment, NEW t \in SUBSET Ids,
           \A i \in t : i < next_id
    PROVE  GoodOps(SaveOps(b, d, t))
<1> DEFINE fill == Write("tmp", Logical, <<"tmp">>)
           move == Op([logical |-> Logical, tmp |-> Absent], TRUE, <<"tmp">>)
           side == IF b.trie THEN WriteTrie(b) ELSE <<Remove("trie"), Remove("ids")>>
<1>0. {"tmp", "logical", "trie", "ids"} \subseteq Files
  BY DEF Files
<1>1. GoodData("tmp", Logical) /\ GoodData("logical", Logical)
  BY LogicalIsGood DEF GoodData, Data, GoodSnapshot
<1>2. GoodOp(move)
  BY <1>0, <1>1 DEF GoodOp, GoodFile, Op
<1>3. IsList(fill) /\ GoodOps(fill)
  BY <1>0, <1>1, GoodWrite
<1>4. IsList(side) /\ GoodOps(side)
  BY <1>0, GoodTrieOps, GoodRemove, TwoOps
<1>5. SaveOps(b, d, t) = (fill \o <<move>>) \o side \o WriteNative(b, d, t)
  BY DEF SaveOps, WriteLogical
<1> HIDE DEF fill, move, side
<1>6. IsList(fill \o <<move>>) /\ GoodOps(fill \o <<move>>)
  BY <1>2, <1>3, OneOp, GoodConcat, Zenon
<1>7. IsList(WriteNative(b, d, t)) /\ GoodOps(WriteNative(b, d, t))
  BY GoodNativeOps
<1> QED
  BY <1>4, <1>5, <1>6, <1>7, GoodConcat, Zenon

-----------------------------------------------------------------------------
(* The steps that change the dictionary. *)

LEMMA EmptyMemory == NothingInMemory => MemoryInv'
<1> SUFFICES ASSUME NothingInMemory PROVE MemoryInv'
  OBVIOUS
<1>0. /\ base' = EmptyBase /\ delta' = EmptyDelta /\ tombstones' = {}
      /\ next_id' = 0 /\ live_size' = 0 /\ reply' = Reply("none", kInvalidId)
  BY DEF NothingInMemory
<1>1. \A i \in Ids : EmptyBase.entries[i] = NoString /\ EmptyDelta.entries[i] = NoString
  BY DEF EmptyBase, EmptyDelta, NoEntries
<1>2. EmptyBase \in BaseSegment
  BY DEF EmptyBase, BaseSegment, NoEntries, NoIndex, Entries, Indexes
<1>3. TypeOK'
  BY <1>0, <1>2, EmptyDeltaType, SegmentAssumption DEF TypeOK, Reply
<1>4. UsedIdsBelowNext'
  BY <1>0, <1>1 DEF UsedIdsBelowNext
<1>5. LiveIds' = {}
  BY <1>0, <1>1 DEF LiveIds, ContainsId
<1>6. LiveSizeCountsLiveIds'
  BY <1>0, <1>5, FS_EmptySet DEF LiveSizeCountsLiveIds
<1>7. delta'.live = Cardinality(Present(delta'.entries))
  BY <1>0, EmptyPresent DEF EmptyDelta
<1> QED
  BY <1>3, <1>4, <1>6, <1>7 DEF MemoryInv

\* What insert does to the tables, the delta index and the contents.
LEMMA InsertEffect ==
    ASSUME MemoryInv, NEW v \in Values, InsertNew(v)
    PROVE  /\ next_id \in Ids /\ next_id \in Nat /\ next_id' = next_id + 1
           /\ base' = base /\ tombstones' = tombstones /\ v # NoString
           /\ next_id \notin tombstones
           /\ delta.entries[next_id] = NoString /\ base.entries[next_id] = NoString
           /\ \A i \in Ids : delta'.entries[i] = IF i = next_id THEN v ELSE delta.entries[i]
           /\ \A w \in Values : delta'.index[w] = IF w = v THEN next_id ELSE delta.index[w]
           /\ \A i \in Ids : GetString(i)' = IF i = next_id THEN v ELSE GetString(i)
<1> USE DEF MemoryInv
<1>0. /\ next_id \in Ids /\ next_id \in Nat /\ next_id' = next_id + 1
      /\ base' = base /\ tombstones' = tombstones /\ v # NoString
  BY SegmentAssumption DEF TypeOK, InsertNew, Ids
<1>1. next_id \notin tombstones /\ delta.entries[next_id] = NoString
      /\ base.entries[next_id] = NoString
  BY <1>0 DEF UsedIdsBelowNext
<1>2. \A i \in Ids : delta'.entries[i] = IF i = next_id THEN v ELSE delta.entries[i]
  BY <1>0 DEF InsertNew, DeltaInsert, TypeOK, DeltaSegment, Entries
<1>3. \A w \in Values : delta'.index[w] = IF w = v THEN next_id ELSE delta.index[w]
  BY <1>0 DEF InsertNew, DeltaInsert, TypeOK, DeltaSegment, Indexes
<1>4. \A i \in Ids : GetString(i)' = IF i = next_id THEN v ELSE GetString(i)
  BY <1>0, <1>1, <1>2 DEF GetString
<1> QED
  BY <1>0, <1>1, <1>2, <1>3, <1>4

LEMMA InsertMemory == ASSUME MemoryInv, NEW v \in Values, InsertNew(v) PROVE MemoryInv'
<1> DEFINE n == next_id
<1>0. TypeOK /\ IsFiniteSet(LiveIds)
  BY ContentsFacts, IdsFinite DEF MemoryInv
<1>1. delta'.live = delta.live + 1 /\ delta' \in DeltaSegment /\ n + 1 \in 0 .. kInvalidId
  BY <1>0, InsertEffect, SegmentAssumption
     DEF InsertNew, DeltaInsert, TypeOK, DeltaSegment, Entries, Indexes, Ids
<1>2. TypeOK'
  BY <1>0, <1>1, InsertEffect DEF TypeOK, InsertNew, Reply
<1>3. UsedIdsBelowNext'
  <2> SUFFICES ASSUME NEW i \in Ids,
                      i \in tombstones \/ delta'.entries[i] # NoString
                                       \/ base.entries[i] # NoString
               PROVE  i < n + 1
    BY InsertEffect DEF UsedIdsBelowNext
  <2>1. i \in Nat /\ (i = n \/ i < n)
    BY InsertEffect, IdFacts DEF UsedIdsBelowNext, MemoryInv
  <2> QED
    BY InsertEffect, <2>1
<1>4. LiveSizeCountsLiveIds'
  <2>1. LiveIds' = LiveIds \cup {n} /\ n \notin LiveIds
    BY InsertEffect DEF LiveIds, ContainsId
  <2>2. Cardinality(LiveIds \cup {n}) = Cardinality(LiveIds) + 1
    BY <1>0, <2>1, FS_AddElement
  <2> QED
    BY <2>1, <2>2 DEF LiveSizeCountsLiveIds, InsertNew, MemoryInv
<1>5. delta'.live = Cardinality(Present(delta'.entries))
  <2>1. Present(delta'.entries) = Present(delta.entries) \cup {n} /\ n \notin Present(delta.entries)
    BY InsertEffect DEF Present
  <2>2. Cardinality(Present(delta.entries) \cup {n}) = Cardinality(Present(delta.entries)) + 1
    BY <2>1, PresentType, FS_AddElement
  <2> QED
    BY <1>1, <2>1, <2>2 DEF MemoryInv
<1> QED
  BY <1>2, <1>3, <1>4, <1>5 DEF MemoryInv

\* What erase does; the index slot is freed when it names the erased entry.
LEMMA EraseEffect ==
    ASSUME MemoryInv, NEW id \in Ids, EraseId(id)
    PROVE  /\ base' = base /\ next_id' = next_id /\ live_size' = live_size - 1
           /\ tombstones' = tombstones \cup {id} /\ id \in LiveIds /\ id \notin tombstones
           /\ \A i \in Ids : delta'.entries[i] = IF i = id THEN NoString ELSE delta.entries[i]
           /\ \A v \in Values : delta'.index[v] =
                 IF delta.entries[id] = v /\ delta.index[v] = id THEN kInvalidId
                 ELSE delta.index[v]
           /\ \A i \in Ids : GetString(i)' = IF i = id THEN NoString ELSE GetString(i)
<1> USE DEF MemoryInv
<1>0. /\ base' = base /\ next_id' = next_id /\ live_size' = live_size - 1
      /\ tombstones' = tombstones \cup {id} /\ id \in LiveIds /\ id \notin tombstones
  BY DEF EraseId, LiveIds, ContainsId
<1>1. \A i \in Ids : delta'.entries[i] = IF i = id THEN NoString ELSE delta.entries[i]
  <2>1. CASE delta.entries[id] # NoString
    BY <2>1 DEF EraseId, DeltaErase, TypeOK, DeltaSegment, Entries
  <2>2. CASE delta.entries[id] = NoString
    BY <2>2 DEF EraseId
  <2> QED
    BY <2>1, <2>2
<1>2. \A v \in Values : delta'.index[v] =
         IF delta.entries[id] = v /\ delta.index[v] = id THEN kInvalidId ELSE delta.index[v]
  <2>1. CASE delta.entries[id] # NoString
    BY <2>1 DEF EraseId, DeltaErase, TypeOK, DeltaSegment, Indexes
  <2>2. CASE delta.entries[id] = NoString
    BY <2>2, SegmentAssumption DEF EraseId
  <2> QED
    BY <2>1, <2>2
<1>3. \A i \in Ids : GetString(i)' = IF i = id THEN NoString ELSE GetString(i)
  BY <1>0, <1>1 DEF GetString
<1> QED
  BY <1>0, <1>1, <1>2, <1>3

LEMMA EraseMemory == ASSUME MemoryInv, NEW id \in Ids, EraseId(id) PROVE MemoryInv'
<1>0. TypeOK /\ IsFiniteSet(LiveIds)
  BY ContentsFacts, IdsFinite DEF MemoryInv
<1>1. LiveIds' = LiveIds \ {id}
  BY EraseEffect, <1>0 DEF LiveIds, ContainsId
<1>2. LiveSizeCountsLiveIds' /\ live_size' \in Nat
  <2>1. IsFiniteSet(LiveIds \ {id}) /\ Cardinality(LiveIds \ {id}) = Cardinality(LiveIds) - 1
    BY EraseEffect, <1>0, FS_RemoveElement
  <2> QED
    BY EraseEffect, <1>1, <2>1, FS_CardinalityType DEF LiveSizeCountsLiveIds, MemoryInv
<1>3. delta'.live = Cardinality(Present(delta'.entries)) /\ delta'.live \in Nat
  <2>1. Present(delta'.entries) = Present(delta.entries) \ {id}
    BY EraseEffect DEF Present
  <2>2. CASE delta.entries[id] # NoString
    <3>1. id \in Present(delta.entries)
      BY <2>2 DEF Present
    <3>2. Cardinality(Present(delta'.entries)) = Cardinality(Present(delta.entries)) - 1
      <4>1. IsFiniteSet(Present(delta.entries))
        BY PresentType
      <4> QED
        BY <2>1, <3>1, <4>1, FS_RemoveElement
    <3>3. delta'.live = delta.live - 1
      BY <1>0, <2>2 DEF EraseId, DeltaErase, TypeOK, DeltaSegment
    <3> QED
      BY <3>2, <3>3, PresentType DEF MemoryInv
  <2>3. CASE delta.entries[id] = NoString
    <3>1. Present(delta'.entries) = Present(delta.entries)
      BY <2>1, <2>3 DEF Present
    <3> QED
      BY <2>3, <3>1, PresentType DEF EraseId, MemoryInv
  <2> QED
    BY <2>2, <2>3
<1>4. delta' \in DeltaSegment
  <2>1. CASE delta.entries[id] # NoString
    <3>1. /\ delta'.entries \in Entries /\ delta'.used \in Nat
      BY <1>0, <2>1 DEF EraseId, DeltaErase, TypeOK, DeltaSegment, Entries
    <3>2. delta'.index \in Indexes
      BY <1>0, <2>1 DEF EraseId, DeltaErase, TypeOK, DeltaSegment, Indexes
    <3>3. delta' = [entries |-> delta'.entries, index |-> delta'.index,
                    live |-> delta'.live, used |-> delta'.used]
      BY <1>0, <2>1 DEF EraseId, DeltaErase, TypeOK, DeltaSegment
    <3> QED
      BY <1>3, <3>1, <3>2, <3>3 DEF DeltaSegment
  <2>2. CASE delta.entries[id] = NoString
    BY <1>0, <2>2 DEF EraseId, TypeOK
  <2> QED
    BY <2>1, <2>2
<1>5. TypeOK'
  BY <1>0, <1>2, <1>4, EraseEffect DEF TypeOK, EraseId, Reply
<1>6. UsedIdsBelowNext'
  BY EraseEffect DEF UsedIdsBelowNext, LiveIds, ContainsId, MemoryInv
<1> QED
  BY <1>2, <1>3, <1>5, <1>6 DEF MemoryInv

LEMMA CompactMemory == ASSUME MemoryInv, Compact PROVE MemoryInv'
<1>0. /\ TypeOK /\ base' = Rebuilt(Contents) /\ delta' = EmptyDelta /\ tombstones' = {}
      /\ next_id' = next_id /\ live_size' = live_size
      /\ base'.entries = Contents /\ reply' = Reply("compacted", kInvalidId)
  BY DEF Compact, ReplaceBase, Rebuilt, EmptyDelta, MemoryInv
<1>1. \A i \in Ids : delta'.entries[i] = NoString /\ Contents[i] = GetString(i)
  BY <1>0 DEF EmptyDelta, NoEntries, Contents
<1>2. \A i \in Ids : ContainsId(i)' <=> ContainsId(i)
  BY <1>0, <1>1, ContentsFacts DEF ContainsId
<1>3. LiveSizeCountsLiveIds'
  <2>1. LiveIds' = LiveIds
    BY <1>2 DEF LiveIds
  <2> QED
    BY <1>0, <2>1 DEF LiveSizeCountsLiveIds, MemoryInv
<1>4. TypeOK'
  BY <1>0, RebuiltTyped, EmptyDeltaType, ContentsFacts DEF TypeOK, Reply
<1>5. UsedIdsBelowNext'
  BY <1>0, <1>1 DEF UsedIdsBelowNext, GetString, MemoryInv
<1>6. delta'.live = Cardinality(Present(delta'.entries))
  BY <1>0, EmptyPresent DEF EmptyDelta
<1> QED
  BY <1>3, <1>4, <1>5, <1>6 DEF MemoryInv

-----------------------------------------------------------------------------
(* Loading. *)

LEMMA LoadedBaseType ==
    ASSUME DiskInv, NEW entries \in Entries, NEW live \in Nat
    PROVE  LoadedBase(entries, live) \in BaseSegment
<1>1. TrieMatches(entries) \in BOOLEAN
  BY DEF TrieMatches, UsesBaseTrie
<1>2. ASSUME TrieMatches(entries)
      PROVE  TrieIndex(disk["trie"], disk["ids"]) \in Indexes
  <2>1. /\ disk["trie"] \in SUBSET Values /\ disk["ids"] \in Seq(Ids)
        /\ Len(disk["ids"]) = Cardinality(disk["trie"])
    BY <1>2 DEF TrieMatches, Whole, DiskInv, GoodFile, GoodData, Data, Files
  <2> QED
    BY <2>1, TrieIndexType
<1>3. IndexOf(entries) \in Indexes
  BY IndexOfFinds
<1> QED
  BY <1>1, <1>2, <1>3 DEF LoadedBase, BaseSegment

\* The native tables, whether load then accepts them or not.
LEMMA NativeTypes ==
    ASSUME DiskInv, Whole("native.base"), Whole("native.state"), disk["native.delta"] # Torn
    PROVE  /\ NativeBase \in BaseSegment /\ NativeDelta \in DeltaSegment
           /\ NativeDelta.live = Cardinality(Present(NativeDelta.entries))
           /\ disk["native.state"].tombstones \in SUBSET Ids
           /\ \A i \in disk["native.state"].tombstones : i < disk["native.state"].logical.next_id
<1>1. disk["native.base"] \in Data("native.base")
  BY DEF Whole, DiskInv, GoodFile, GoodData, Files
<1>2. GoodData("native.state", disk["native.state"])
  BY DEF Whole, DiskInv, GoodFile, Files
<1>3. NativeBase \in BaseSegment
  BY <1>1, LoadedBaseType DEF Data, NativeBase
<1>4. CASE disk["native.delta"] = Absent
  BY <1>2, <1>3, <1>4, EmptyDeltaType, EmptyPresent
     DEF NativeDelta, EmptyDelta, GoodData, Data
<1>5. CASE disk["native.delta"] # Absent
  <2>1. disk["native.delta"] \in Data("native.delta")
    BY <1>5 DEF DiskInv, GoodFile, GoodData, Files
  <2>2. /\ disk["native.delta"].entries \in Entries /\ disk["native.delta"].used \in Nat
    BY <2>1 DEF Data
  <2>3. /\ DeltaIndexOf(disk["native.delta"].entries) \in Indexes
        /\ Cardinality(Present(disk["native.delta"].entries)) \in Nat
    BY <2>2, DeltaIndexOfFinds, PresentType
  <2>4. NativeDelta \in DeltaSegment
    BY <1>5, <2>2, <2>3 DEF NativeDelta, DeltaSegment
  <2> QED
    BY <1>2, <1>3, <1>5, <2>4 DEF NativeDelta, GoodData, Data
<1> QED
  BY <1>4, <1>5

\* What load builds, and that it stays below the id counter of the logical file: an id
\* at or above it would show in the contents that were compared with that file.
LEMMA LoadedFacts ==
    ASSUME DiskInv, AckInv, CanLoad
    PROVE  /\ GoodSnapshot(disk["logical"])
           /\ Loaded.base \in BaseSegment /\ Loaded.delta \in DeltaSegment
           /\ Loaded.tombstones \in SUBSET Ids
           /\ Loaded.delta.live = Cardinality(Present(Loaded.delta.entries))
           /\ ContentsOf(Loaded.base, Loaded.delta, Loaded.tombstones) = disk["logical"].contents
           /\ \A i \in Ids :
                 i \in Loaded.tombstones \/ Loaded.delta.entries[i] # NoString
                                         \/ Loaded.base.entries[i] # NoString
                 => i < disk["logical"].next_id
<1> DEFINE logical == disk["logical"]
<1>1. GoodSnapshot(logical) /\ logical.contents \in Entries
  BY DEF CanLoad, Whole, DiskInv, GoodFile, GoodData, GoodSnapshot, Files, Snapshot
<1>2. ContentsOf(Loaded.base, Loaded.delta, Loaded.tombstones) = logical.contents
  BY AckAnswers DEF LoadAnswersLogical
<1>3. /\ Loaded.base \in BaseSegment /\ Loaded.delta \in DeltaSegment
      /\ Loaded.tombstones \in SUBSET Ids
      /\ Loaded.delta.live = Cardinality(Present(Loaded.delta.entries))
      /\ \A i \in Loaded.tombstones : i < logical.next_id
  <2>1. CASE NativeAccepted
    BY <2>1, NativeTypes DEF NativeAccepted, Loaded
  <2>2. CASE ~NativeAccepted
    <3>1. Cardinality(Present(logical.contents)) \in Nat
      BY PresentType
    <3>2. Loaded.base \in BaseSegment
      BY <1>1, <2>2, <3>1, LoadedBaseType, RebuiltTyped DEF Loaded
    <3> QED
      BY <2>2, <3>2, EmptyDeltaType, EmptyPresent DEF Loaded, EmptyDelta
  <2> QED
    BY <2>1, <2>2
<1>4. ASSUME NEW i \in Ids, Loaded.delta.entries[i] # NoString \/ Loaded.base.entries[i] # NoString
      PROVE  i < logical.next_id
  <2>1. CASE i \in Loaded.tombstones
    BY <1>3, <2>1
  <2>2. CASE i \notin Loaded.tombstones
    <3>1. logical.contents[i] # NoString
      BY <1>2, <1>4, <2>2 DEF ContentsOf
    <3> QED
      BY <1>1, <3>1 DEF GoodSnapshot
  <2> QED
    BY <2>1, <2>2
<1> QED
  BY <1>1, <1>2, <1>3, <1>4

LEMMA LoadMemory == ASSUME DiskInv, AckInv, Load PROVE MemoryInv'
<1> DEFINE logical == disk["logical"]
<1>0. /\ base' = Loaded.base /\ delta' = Loaded.delta /\ tombstones' = Loaded.tombstones
      /\ next_id' = logical.next_id /\ live_size' = logical.live_size
      /\ reply' = Reply("loaded", kInvalidId) /\ CanLoad
  BY DEF Load
<1>1. logical \in Snapshot /\ logical.live_size = Cardinality(Present(logical.contents))
  BY <1>0, LoadedFacts DEF GoodSnapshot
<1>2. TypeOK'
  BY <1>0, <1>1, LoadedFacts DEF TypeOK, Snapshot, Reply
<1>3. UsedIdsBelowNext'
  BY <1>0, LoadedFacts DEF UsedIdsBelowNext
<1>4. Contents' = logical.contents
  BY <1>0, LoadedFacts DEF Contents, GetString, ContentsOf
<1>5. LiveIds' = Present(logical.contents)
  <2>1. \A i \in Ids : ContainsId(i)' <=> Contents'[i] # NoString
    BY DEF ContainsId, Contents, GetString
  <2> QED
    BY <1>4, <2>1 DEF LiveIds, Present
<1>6. LiveSizeCountsLiveIds'
  BY <1>0, <1>1, <1>5 DEF LiveSizeCountsLiveIds
<1>7. delta'.live = Cardinality(Present(delta'.entries))
  BY <1>0, LoadedFacts
<1> QED
  BY <1>2, <1>3, <1>6, <1>7 DEF MemoryInv

-----------------------------------------------------------------------------
(* The types: CoreInv holds initially and every action preserves it. *)

LEMMA InitCore == FilesInit => CoreInv
<1> SUFFICES ASSUME FilesInit PROVE CoreInv
  OBVIOUS
<1>1. /\ disk = [f \in Files |-> Absent] /\ todo = <<>> /\ mode = "ready" /\ outcome = "none"
      /\ saves = 0 /\ faults = 0
  BY DEF FilesInit
<1>2. IInv
  BY InitIInv DEF FilesInit
<1>3. MemoryInv
  BY <1>2 DEF MemoryInv, IInv, DeltaSizeIsExact
<1>4. ControlInv
  BY <1>1, FilesAssumption DEF ControlInv, Busy
<1>5. DiskInv
  BY <1>1 DEF DiskInv, GoodFile
<1>6. GoodOps(todo)
  BY <1>1 DEF GoodOps
<1> QED
  BY <1>1, <1>3, <1>4, <1>5, <1>6 DEF CoreInv

LEMMA SameMemory == ASSUME MemoryInv, UNCHANGED vars PROVE MemoryInv'
BY DEF vars, MemoryInv, TypeOK, UsedIdsBelowNext, LiveSizeCountsLiveIds, LiveIds, ContainsId

\* Steps that leave the files and the operations alone.
LEMMA IdleCore ==
    ASSUME CoreInv, MemoryInv', ControlInv', UNCHANGED <<disk, todo>>, mode' # "loading"
    PROVE  CoreInv'
BY DEF CoreInv, DiskInv

LEMMA MutateCore == ASSUME CoreInv, Mutate PROVE CoreInv'
<1>1. MemoryInv'
  BY InsertMemory, EraseMemory, CompactMemory DEF CoreInv, Mutate
<1>2. ControlInv'
  BY DEF CoreInv, ControlInv, Mutate, Busy
<1>3. mode' # "loading"
  BY DEF Mutate
<1> QED
  BY <1>1, <1>2, <1>3, IdleCore DEF Mutate

LEMMA BeginCore ==
    ASSUME CoreInv, NEW b \in BaseSegment, NEW d \in DeltaSegment, NEW t \in SUBSET Ids,
           \A i \in t : i < next_id, BeginSave(b, d, t)
    PROVE  CoreInv'
<1>1. /\ todo' = SaveOps(b, d, t) /\ disk' = disk /\ UNCHANGED vars /\ faults' = faults
      /\ mode' = "saving" /\ outcome' = "busy" /\ saves < MaxSaves /\ saves' = saves + 1
  BY DEF BeginSave
<1>2. MemoryInv'
  BY <1>1, SameMemory DEF CoreInv
<1>3. SaveOps(b, d, t) # <<>>
  BY SaveList
<1>4. ControlInv'
  BY <1>1, <1>3, FilesAssumption DEF CoreInv, ControlInv, Busy
<1>5. GoodOps(todo')
  BY <1>1, GoodSaveOps DEF CoreInv
<1> QED
  BY <1>1, <1>2, <1>4, <1>5 DEF CoreInv, DiskInv

LEMMA SaveCore == ASSUME CoreInv, Save \/ SaveCompacted PROVE CoreInv'
<1>0. /\ base \in BaseSegment /\ delta \in DeltaSegment /\ tombstones \in SUBSET Ids
      /\ \A i \in tombstones : i < next_id
  BY DEF CoreInv, MemoryInv, TypeOK, UsedIdsBelowNext
<1>1. Rebuilt(Contents) \in BaseSegment /\ EmptyDelta \in DeltaSegment
  BY RebuiltTyped, ContentsFacts, EmptyDeltaType DEF CoreInv, MemoryInv
<1> QED
  BY <1>0, <1>1, BeginCore DEF Save, SaveCompacted

LEMMA LoadCore == ASSUME CoreInv, AckInv, Load PROVE CoreInv'
<1>1. MemoryInv'
  BY LoadMemory DEF CoreInv
<1>2. \/ mode' = "loading" /\ todo' = WriteTrie(Loaded.base) /\ outcome' = "busy"
      \/ mode' = "ready" /\ todo' = <<>> /\ outcome' = "loaded"
  BY DEF Load
<1>3. WriteTrie(Loaded.base) # <<>> /\ GoodOps(WriteTrie(Loaded.base))
  BY TrieList, GoodTrieOps, LoadedFacts DEF CoreInv, Load
<1>4. disk' = disk /\ saves' = saves /\ faults' = faults
  BY DEF Load
<1>5. ControlInv'
  BY <1>2, <1>3, <1>4 DEF CoreInv, ControlInv, Busy
<1>6. GoodOps(todo')
  <2>1. GoodOps(<<>>)
    BY DEF GoodOps
  <2> QED
    BY <1>2, <1>3, <2>1
<1>7. mode' = "loading" => Bare(todo')
  BY <1>2, BareTrieOps
<1> QED
  BY <1>1, <1>4, <1>5, <1>6, <1>7 DEF CoreInv, DiskInv

\* The operations in todo are a list, whatever the process is doing.
LEMMA TodoIsList == AckInv => IsList(todo)
BY Zenon DEF AckInv, CarefulList, AsideList

LEMMA RestIsGood ==
    ASSUME NEW s, IsList(s), s # <<>>, GoodOps(s)
    PROVE  GoodOp(Head(s)) /\ GoodOps(Tail(s))
BY HeadAndTail, Zenon DEF GoodOps

LEMMA RestIsBare ==
    ASSUME NEW s, IsList(s), s # <<>>, Bare(s)
    PROVE  Head(s).cleanup = <<>> /\ Bare(Tail(s))
BY HeadAndTail DEF Bare

LEMMA AdvanceControl ==
    ASSUME CoreInv, AckInv, Busy, NEW status \in {"busy", "short"}, Advance(status),
           faults' \in 0 .. MaxFaults
    PROVE  /\ ControlInv' /\ GoodOps(todo') /\ UNCHANGED vars
           /\ mode' = "loading" => Bare(todo')
<1>0. /\ todo # <<>> /\ IsList(todo) /\ todo' = Tail(todo) /\ UNCHANGED vars /\ saves' = saves
  BY TodoIsList DEF AckInv, Advance
<1>1. GoodOps(todo')
  BY <1>0, RestIsGood DEF CoreInv
<1>2. Len(todo) > 1 <=> todo' # <<>>
  BY <1>0, RestOfList, Zenon
<1>3. CASE Len(todo) > 1
  <2>1. mode' = mode /\ outcome' = status /\ todo' # <<>>
    BY <1>2, <1>3 DEF Advance
  <2>2. mode' = "loading" => Bare(todo')
    BY <1>0, <2>1, RestIsBare DEF CoreInv
  <2> QED
    BY <1>0, <1>1, <2>1, <2>2 DEF CoreInv, ControlInv, Busy
<1>4. CASE ~(Len(todo) > 1)
  <2>1. /\ mode' = "ready" /\ todo' = <<>>
        /\ outcome' \in {"saved", "saved_short", "loaded", "save_threw"}
    BY <1>2, <1>4 DEF Advance, Finished
  <2> QED
    BY <1>0, <1>1, <2>1 DEF CoreInv, ControlInv, Busy
<1> QED
  BY <1>3, <1>4

LEMMA RunCore == ASSUME CoreInv, AckInv, FileOpDone \/ WriteLost \/ RemoveLost PROVE CoreInv'
<1>0. Busy /\ todo # <<>> /\ IsList(todo) /\ outcome \in {"busy", "short"}
  BY TodoIsList DEF AckInv, FileOpDone, WriteLost, RemoveLost, CoreInv, ControlInv
<1>1. faults' \in 0 .. MaxFaults
  BY FilesAssumption DEF FileOpDone, WriteLost, RemoveLost, Fault, CoreInv, ControlInv
<1>2. /\ ControlInv' /\ GoodOps(todo') /\ UNCHANGED vars
      /\ mode' = "loading" => Bare(todo')
  BY <1>0, <1>1, AdvanceControl DEF FileOpDone, WriteLost, RemoveLost
<1>3. MemoryInv'
  BY <1>2, SameMemory DEF CoreInv
<1>4. DiskInv'
  <2>1. GoodOp(Head(todo))
    BY <1>0, RestIsGood DEF CoreInv
  <2>2. CASE FileOpDone
    <3> DEFINE effect == Head(todo).effect
    <3>1. disk' = [f \in Files |-> IF f \in DOMAIN effect THEN effect[f] ELSE disk[f]]
      BY <2>2 DEF FileOpDone
    <3> QED
      BY <2>1, <3>1 DEF DiskInv, CoreInv, GoodOp
  <2>3. CASE WriteLost \/ RemoveLost
    BY <2>3 DEF WriteLost, RemoveLost, CoreInv, DiskInv
  <2> QED
    BY <2>2, <2>3
<1> QED
  BY <1>2, <1>3, <1>4 DEF CoreInv

LEMMA ThrowCore == ASSUME CoreInv, AckInv, OpThrows PROVE CoreInv'
<1> DEFINE cleanup == Head(todo).cleanup
<1>0. /\ Busy /\ todo # <<>> /\ IsList(todo) /\ disk' = disk /\ saves' = saves
      /\ outcome \in {"busy", "short"}
      /\ todo' = [n \in DOMAIN cleanup |-> Remove(cleanup[n])]
      /\ faults' \in 0 .. MaxFaults
  BY TodoIsList, FilesAssumption DEF AckInv, OpThrows, Fault, CoreInv, ControlInv
<1>1. cleanup \in Seq(Files \ {"logical"}) /\ AckInv'
  <2>1. mode = "saving" => Careful(Head(todo), Logical)
    BY <1>0, RestOfList, Zenon DEF AckInv
  <2>2. mode # "saving" => Aside(Head(todo))
    BY <1>0, RestOfList, Zenon DEF AckInv
  <2> QED
    BY <2>1, <2>2, ThrowStep DEF Careful, Aside
<1>2. (todo' = <<>> <=> cleanup = <<>>) /\ Len(todo') = Len(cleanup)
  <2> HIDE DEF cleanup
  <2> QED
    BY <1>0, <1>1
<1>3. GoodOps(todo')
  <2>1. \A n \in 1 .. Len(cleanup) : todo'[n] = Remove(cleanup[n]) /\ cleanup[n] \in Files
    <3> HIDE DEF cleanup
    <3> QED
      BY <1>0, <1>1
  <2> QED
    BY <1>2, <2>1, GoodRemove DEF GoodOps
<1>4. CASE mode = "loading"
  <2>1. NothingInMemory /\ mode' = "down" /\ outcome' = "load_threw"
    BY <1>4 DEF OpThrows
  <2>2. cleanup = <<>>
    BY <1>0, <1>4, RestIsBare DEF CoreInv
  <2>3. ControlInv'
    BY <1>0, <1>2, <2>1, <2>2 DEF CoreInv, ControlInv, Busy
  <2>4. DiskInv'
    BY <1>0 DEF CoreInv, DiskInv
  <2> QED
    BY <1>3, <2>1, <2>3, <2>4, EmptyMemory DEF CoreInv
<1>5. CASE mode # "loading"
  <2>1. UNCHANGED vars
    BY <1>5 DEF OpThrows
  <2>2. MemoryInv'
    BY <2>1, SameMemory DEF CoreInv
  <2>3. mode # "unwinding"
    BY <1>0, RestOfList, Zenon DEF AckInv, AsideList, OpThrows
  <2>4. \/ mode' = "ready" /\ outcome' = "save_threw" /\ cleanup = <<>>
        \/ mode' = "unwinding" /\ outcome' = outcome /\ cleanup # <<>>
    BY <1>0, <1>5, <2>3 DEF OpThrows, Busy
  <2>5. ControlInv'
    BY <1>0, <1>2, <2>4 DEF CoreInv, ControlInv, Busy
  <2> QED
    BY <1>0, <1>3, <2>2, <2>4, <2>5 DEF CoreInv, DiskInv
<1> QED
  BY <1>4, <1>5

LEMMA DownCore == ASSUME CoreInv, Crash \/ LoadThrows \/ StartEmpty PROVE CoreInv'
<1>1. CASE Crash
  <2>0. /\ NothingInMemory /\ todo' = <<>> /\ mode' = "down" /\ outcome' = "crashed"
        /\ disk' = disk /\ saves' = saves /\ faults' \in 0 .. MaxFaults
    BY <1>1, FilesAssumption DEF Crash, Fault, CoreInv, ControlInv
  <2>1. ControlInv'
    BY <2>0 DEF CoreInv, ControlInv, Busy
  <2>2. GoodOps(todo') /\ DiskInv'
    BY <2>0 DEF GoodOps, CoreInv, DiskInv
  <2> QED
    BY <2>0, <2>1, <2>2, EmptyMemory DEF CoreInv
<1>2. CASE LoadThrows \/ StartEmpty
  <2>1. UNCHANGED vars /\ UNCHANGED <<disk, todo>> /\ mode' # "loading"
    BY <1>2 DEF LoadThrows, StartEmpty
  <2>2. ControlInv'
    BY <1>2 DEF LoadThrows, StartEmpty, CoreInv, ControlInv, Busy
  <2>3. MemoryInv'
    BY <2>1, SameMemory DEF CoreInv
  <2> QED
    BY <2>1, <2>2, <2>3, IdleCore
<1> QED
  BY <1>1, <1>2

LEMMA StepCore == CoreInv /\ AckInv /\ [FilesNext]_allVars => CoreInv'
<1> SUFFICES ASSUME CoreInv, AckInv, [FilesNext]_allVars PROVE CoreInv'
  OBVIOUS
<1>1. CASE UNCHANGED allVars
  <2>1. UNCHANGED vars /\ UNCHANGED <<disk, todo, mode, outcome, saves, faults>>
    BY <1>1 DEF allVars, ioVars, vars
  <2>2. ControlInv' /\ DiskInv'
    BY <2>1 DEF CoreInv, ControlInv, DiskInv, Busy
  <2>3. MemoryInv'
    BY <2>1, SameMemory DEF CoreInv
  <2> QED
    BY <2>1, <2>2, <2>3 DEF CoreInv
<1> QED
  BY <1>1, MutateCore, SaveCore, LoadCore, RunCore, ThrowCore, DownCore DEF FilesNext

LEMMA CoreHolds == FilesSpec => [](CoreInv /\ AckInv)
<1> QED
  BY InitCore, StepCore, InitAck, StepAck, PTL DEF FilesSpec

\* Whatever was saved, lost, torn and loaded before, memory has its types, the counters
\* keep their ranges and every file holds data its readers understand, is missing or is
\* cut short; the process runs operations exactly while it has any.
THEOREM FilesTypeCorrect == FilesSpec => []FilesTypeOK
<1>1. ASSUME CoreInv, AckInv PROVE FilesTypeOK
  <2>1. \A f \in Files : disk[f] \in {Absent, Torn} \cup Data(f)
    BY <1>1 DEF CoreInv, DiskInv, GoodFile, GoodData
  <2>2. ASSUME NEW n \in DOMAIN todo, NEW f \in DOMAIN todo[n].effect
        PROVE  f \in Files /\ todo[n].effect[f] \in {Absent, Torn} \cup Data(f)
    <3>1. PICK S : todo \in Seq(S)
      BY <1>1, TodoIsList DEF IsList
    <3>2. n \in 1 .. Len(todo)
      BY <3>1
    <3> QED
      BY <1>1, <3>2 DEF CoreInv, GoodOps, GoodOp, GoodFile, GoodData
  <2> QED
    BY <1>1, <2>1, <2>2 DEF FilesTypeOK, CoreInv, MemoryInv, ControlInv, DiskInv
<1> QED
  BY <1>1, CoreHolds, PTL

-----------------------------------------------------------------------------
(* What a list of operations leaves in a file. *)

Spares(ops, f) == \A n \in 1 .. Len(ops) : f \notin DOMAIN ops[n].effect
LastSets(ops, f, x, n) ==
    /\ f \in DOMAIN ops[n].effect /\ ops[n].effect[f] = x
    /\ \A m \in 1 .. Len(ops) : m > n => f \notin DOMAIN ops[m].effect
Sets(ops, f, x) == \E n \in 1 .. Len(ops) : LastSets(ops, f, x, n)

LEMMA SparesConcat ==
    ASSUME NEW s, NEW t, NEW f, IsList(s), IsList(t), Spares(s, f), Spares(t, f)
    PROVE  Spares(s \o t, f)
BY ConcatList DEF Spares

LEMMA ConcatRear ==
    ASSUME NEW s, NEW t, IsList(s), IsList(t)
    PROVE  \A n \in 1 .. Len(t) : Len(s) + n \in 1 .. Len(s \o t) /\ (s \o t)[Len(s) + n] = t[n]
<1>1. PICK S : s \in Seq(S)
  BY DEF IsList
<1>2. PICK T : t \in Seq(T)
  BY DEF IsList
<1>3. s \in Seq(S \cup T) /\ t \in Seq(S \cup T)
  BY <1>1, <1>2, SeqMonotonic
<1> QED
  BY <1>3, ConcatProperties, LenProperties

LEMMA SetsConcat ==
    ASSUME NEW s, NEW t, NEW f, NEW x, IsList(s), IsList(t)
    PROVE  /\ Sets(t, f, x) => Sets(s \o t, f, x)
           /\ Sets(s, f, x) /\ Spares(t, f) => Sets(s \o t, f, x)
<1> DEFINE st == s \o t
<1>0. Len(s) \in Nat /\ Len(t) \in Nat /\ Len(st) = Len(s) + Len(t)
  BY ConcatList
<1>1. \A n \in 1 .. Len(s) : st[n] = s[n]
  BY ConcatList
<1>2. \A n \in 1 .. Len(t) : st[Len(s) + n] = t[n]
  BY ConcatRear
<1> HIDE DEF st
<1>3. ASSUME Sets(t, f, x) PROVE Sets(s \o t, f, x)
  <2>1. PICK n \in 1 .. Len(t) : LastSets(t, f, x, n)
    BY <1>3 DEF Sets
  <2>2. ASSUME NEW m \in 1 .. Len(st), m > Len(s) + n
        PROVE  f \notin DOMAIN st[m].effect
    <3>1. m - Len(s) \in 1 .. Len(t) /\ m - Len(s) > n /\ Len(s) + (m - Len(s)) = m
      BY <1>0, <2>2
    <3> QED
      BY <1>2, <2>1, <3>1 DEF LastSets
  <2>3. Len(s) + n \in 1 .. Len(st)
    BY <1>0
  <2>4. LastSets(st, f, x, Len(s) + n)
    BY <1>2, <2>1, <2>2 DEF LastSets
  <2> QED
    BY <2>3, <2>4 DEF Sets, st
<1>4. ASSUME Sets(s, f, x), Spares(t, f) PROVE Sets(s \o t, f, x)
  <2>1. PICK n \in 1 .. Len(s) : LastSets(s, f, x, n)
    BY <1>4 DEF Sets
  <2>2. ASSUME NEW m \in 1 .. Len(st), m > n
        PROVE  f \notin DOMAIN st[m].effect
    <3>1. CASE m \in 1 .. Len(s)
      BY <1>1, <2>1, <2>2, <3>1 DEF LastSets
    <3>2. CASE m \notin 1 .. Len(s)
      <4>1. m - Len(s) \in 1 .. Len(t) /\ Len(s) + (m - Len(s)) = m
        BY <1>0, <3>2
      <4> QED
        BY <1>2, <1>4, <4>1 DEF Spares
    <3> QED
      BY <3>1, <3>2
  <2>3. n \in 1 .. Len(st)
    BY <1>0
  <2>4. LastSets(st, f, x, n)
    BY <1>1, <2>1, <2>2 DEF LastSets
  <2> QED
    BY <2>3, <2>4 DEF Sets, st
<1> QED
  BY <1>3, <1>4

\* What is left after the first operation.
LEMMA RestSets ==
    ASSUME NEW s, NEW f, NEW x, IsList(s), s # <<>>
    PROVE  /\ Spares(s, f) => f \notin DOMAIN Head(s).effect /\ Spares(Tail(s), f)
           /\ Sets(s, f, x) =>
                \/ Sets(Tail(s), f, x)
                \/ f \in DOMAIN Head(s).effect /\ Head(s).effect[f] = x /\ Spares(Tail(s), f)
<1>0. /\ Len(s) \in Nat /\ 1 \in 1 .. Len(s) /\ Head(s) = s[1]
      /\ \A n \in 1 .. Len(Tail(s)) : n + 1 \in 1 .. Len(s) /\ Tail(s)[n] = s[n + 1]
      /\ \A n \in 1 .. Len(s) : n = 1 \/ (n - 1 \in 1 .. Len(Tail(s)) /\ Tail(s)[n - 1] = s[n])
  BY HeadAndTail
<1>1. Spares(s, f) => f \notin DOMAIN Head(s).effect /\ Spares(Tail(s), f)
  BY <1>0 DEF Spares
<1>2. ASSUME NEW n \in 1 .. Len(s), LastSets(s, f, x, n), n = 1
      PROVE  f \in DOMAIN Head(s).effect /\ Head(s).effect[f] = x /\ Spares(Tail(s), f)
  <2>1. ASSUME NEW m \in 1 .. Len(Tail(s)) PROVE f \notin DOMAIN Tail(s)[m].effect
    <3>1. m + 1 \in 1 .. Len(s) /\ m + 1 > n /\ Tail(s)[m] = s[m + 1]
      BY <1>0, <1>2
    <3> QED
      BY <1>2, <3>1 DEF LastSets
  <2> QED
    BY <1>0, <1>2, <2>1 DEF LastSets, Spares
<1>3. ASSUME NEW n \in 1 .. Len(s), LastSets(s, f, x, n), n # 1
      PROVE  Sets(Tail(s), f, x)
  <2>1. n - 1 \in 1 .. Len(Tail(s)) /\ Tail(s)[n - 1] = s[n]
    BY <1>0, <1>3
  <2>2. ASSUME NEW m \in 1 .. Len(Tail(s)), m > n - 1
        PROVE  f \notin DOMAIN Tail(s)[m].effect
    <3>1. m + 1 \in 1 .. Len(s) /\ m + 1 > n /\ Tail(s)[m] = s[m + 1]
      BY <1>0, <2>2
    <3> QED
      BY <1>3, <3>1 DEF LastSets
  <2>3. LastSets(Tail(s), f, x, n - 1)
    BY <1>3, <2>1, <2>2 DEF LastSets
  <2> QED
    BY <2>1, <2>3 DEF Sets
<1> QED
  BY <1>1, <1>2, <1>3 DEF Sets

LEMMA WriteSets ==
    ASSUME NEW f, NEW x, NEW cleanup
    PROVE  /\ IsList(Write(f, x, cleanup)) /\ Sets(Write(f, x, cleanup), f, x)
           /\ \A g : g # f => Spares(Write(f, x, cleanup), g)
<1> DEFINE o == Op(Becomes(f, Torn), TRUE, cleanup)
           p == Op(Becomes(f, x), TRUE, cleanup)
           w == Write(f, x, cleanup)
<1>1. /\ DOMAIN o.effect = {f} /\ DOMAIN p.effect = {f} /\ p.effect[f] = x
      /\ w = <<o, p>>
  BY DEF Op, Becomes, Write
<1> HIDE DEF o, p, w
<1>2. IsList(w) /\ Len(w) = 2 /\ w[1] = o /\ w[2] = p
  BY <1>1, PairList
<1>3. LastSets(w, f, x, 2) /\ 2 \in 1 .. Len(w)
  BY <1>1, <1>2 DEF LastSets
<1>4. \A n \in 1 .. Len(w) : w[n] = o \/ w[n] = p
  <2>1. \A n \in 1 .. Len(w) : n = 1 \/ n = 2
    BY <1>2
  <2> QED
    BY <1>2, <2>1
<1> QED
  BY <1>1, <1>2, <1>3, <1>4 DEF Sets, Spares, w

LEMMA RemoveSets ==
    ASSUME NEW f
    PROVE  /\ IsList(<<Remove(f)>>) /\ Sets(<<Remove(f)>>, f, Absent)
           /\ \A g : g # f => Spares(<<Remove(f)>>, g)
<1> DEFINE r == Remove(f)
<1>1. DOMAIN r.effect = {f} /\ r.effect[f] = Absent
  BY DEF Remove, Op, Becomes
<1> HIDE DEF r
<1>2. IsList(<<r>>) /\ Len(<<r>>) = 1 /\ <<r>>[1] = r
  BY PairList
<1>3. \A n \in 1 .. Len(<<r>>) : n = 1
  BY <1>2
<1>4. LastSets(<<r>>, f, Absent, 1) /\ 1 \in 1 .. Len(<<r>>)
  BY <1>1, <1>2, <1>3 DEF LastSets
<1> QED
  BY <1>1, <1>2, <1>3, <1>4 DEF Sets, Spares, r

-----------------------------------------------------------------------------
(* A save that loses nothing leaves the tables it was given. *)

\* The files by which load accepts the native tables, and what a save of the tables b
\* and d with the tombstones t leaves in them.
Vouched == {"logical", "native.base", "native.delta", "native.state"}
Final(b, d, t, f) ==
    CASE f = "logical"      -> Logical
      [] f = "native.base"  -> [entries |-> b.entries, live |-> b.live]
      [] f = "native.delta" ->
           IF d.live # 0 THEN [entries |-> d.entries, live |-> d.live, used |-> d.used]
                         ELSE Absent
      [] f = "native.state" -> [logical |-> Logical, tombstones |-> t]

Ends(f, x) == Sets(todo, f, x) \/ (disk[f] = x /\ Spares(todo, f))
SavedAs(b, d, t) == \A f \in Vouched : Ends(f, Final(b, d, t, f))

\* While a save has lost nothing, what is in the files and what is still to be written
\* add up to the tables it was given; after it they are in the files.
SaveInv ==
    (mode = "saving" /\ outcome = "busy") \/ outcome = "saved" =>
        SavedAs(base, delta, tombstones) \/ SavedAs(Rebuilt(Contents), EmptyDelta, {})

LEMMA NativeEnds ==
    ASSUME NEW b, NEW d, NEW t
    PROVE  /\ IsList(WriteNative(b, d, t)) /\ Spares(WriteNative(b, d, t), "logical")
           /\ \A f \in Vouched \ {"logical"} : Sets(WriteNative(b, d, t), f, Final(b, d, t, f))
<1> DEFINE tables == Write("native.base", [entries |-> b.entries, live |-> b.live], NativeFiles)
           changes ==
               IF d.live # 0
               THEN Write("native.delta",
                          [entries |-> d.entries, live |-> d.live, used |-> d.used], NativeFiles)
               ELSE <<Remove("native.delta")>>
           header == Write("native.state", [logical |-> Logical, tombstones |-> t], NativeFiles)
<1>1. /\ IsList(tables) /\ Sets(tables, "native.base", Final(b, d, t, "native.base"))
      /\ Spares(tables, "logical")
  BY WriteSets DEF Final
<1>2. /\ IsList(changes) /\ Sets(changes, "native.delta", Final(b, d, t, "native.delta"))
      /\ Spares(changes, "logical") /\ Spares(changes, "native.base")
  <2>1. CASE d.live # 0
    BY <2>1, WriteSets DEF Final
  <2>2. CASE d.live = 0
    BY <2>2, RemoveSets DEF Final
  <2> QED
    BY <2>1, <2>2
<1>3. /\ IsList(header) /\ Sets(header, "native.state", Final(b, d, t, "native.state"))
      /\ Spares(header, "logical") /\ Spares(header, "native.base")
      /\ Spares(header, "native.delta")
  BY WriteSets DEF Final
<1>4. WriteNative(b, d, t) = (tables \o changes) \o header
  <2>1. WriteNative(b, d, t) = tables \o changes \o header
    BY DEF WriteNative
  <2> QED
    BY <2>1
<1> HIDE DEF tables, changes, header
<1>5. /\ IsList(tables \o changes) /\ Spares(tables \o changes, "logical")
      /\ Sets(tables \o changes, "native.base", Final(b, d, t, "native.base"))
      /\ Sets(tables \o changes, "native.delta", Final(b, d, t, "native.delta"))
  BY <1>1, <1>2, ConcatList, SparesConcat, SetsConcat, Zenon
<1>6. \A f \in {"native.base", "native.delta", "native.state"} :
         Sets(WriteNative(b, d, t), f, Final(b, d, t, f))
  BY <1>3, <1>4, <1>5, SetsConcat, Zenon
<1>7. IsList(WriteNative(b, d, t)) /\ Spares(WriteNative(b, d, t), "logical")
  BY <1>3, <1>4, <1>5, ConcatList, SparesConcat, Zenon
<1> QED
  BY <1>6, <1>7 DEF Vouched

\* What a save writes before the native files.
Front(b) ==
    WriteLogical \o (IF b.trie THEN WriteTrie(b) ELSE <<Remove("trie"), Remove("ids")>>)

LEMMA FrontEnds ==
    ASSUME NEW b
    PROVE  /\ IsList(Front(b)) /\ Sets(Front(b), "logical", Logical)
           /\ \A f \in Vouched \ {"logical"} : Spares(Front(b), f)
<1> DEFINE fill == Write("tmp", Logical, <<"tmp">>)
           move == Op([logical |-> Logical, tmp |-> Absent], TRUE, <<"tmp">>)
           side == IF b.trie THEN WriteTrie(b) ELSE <<Remove("trie"), Remove("ids")>>
<1>1. /\ IsList(<<move>>) /\ Sets(<<move>>, "logical", Logical)
      /\ \A f \in Vouched \ {"logical"} : Spares(<<move>>, f)
  <2>1. DOMAIN move.effect = {"logical", "tmp"} /\ move.effect["logical"] = Logical
    BY DEF Op
  <2> HIDE DEF move
  <2>2. Len(<<move>>) = 1 /\ <<move>>[1] = move /\ IsList(<<move>>)
    BY PairList
  <2>3. LastSets(<<move>>, "logical", Logical, 1) /\ 1 \in 1 .. Len(<<move>>)
    BY <2>1, <2>2 DEF LastSets
  <2>4. ASSUME NEW f \in Vouched \ {"logical"}
        PROVE  Spares(<<move>>, f)
    <3>1. f \notin DOMAIN move.effect
      BY <2>1 DEF Vouched
    <3>2. \A n \in 1 .. Len(<<move>>) : n = 1
      BY <2>2
    <3> QED
      BY <2>2, <3>1, <3>2 DEF Spares
  <2> QED
    BY <2>2, <2>3, <2>4 DEF Sets
<1>2. IsList(side) /\ \A f \in Vouched : Spares(side, f)
  <2>0. "trie" \notin Vouched /\ "ids" \notin Vouched
    BY DEF Vouched
  <2>1. CASE b.trie
    <3>1. /\ IsList(Write("trie", KeysOf(b.index), <<>>))
          /\ IsList(Write("ids", IdsFile(b.index), <<>>))
          /\ \A f \in Vouched : /\ Spares(Write("trie", KeysOf(b.index), <<>>), f)
                                /\ Spares(Write("ids", IdsFile(b.index), <<>>), f)
      BY <2>0, WriteSets
    <3> QED
      BY <2>1, <3>1, ConcatList, SparesConcat, Zenon DEF WriteTrie
  <2>2. CASE ~b.trie
    <3> DEFINE x == Remove("trie")
               y == Remove("ids")
    <3>1. \A f \in Vouched : f \notin DOMAIN x.effect /\ f \notin DOMAIN y.effect
      BY <2>0 DEF Remove, Op, Becomes
    <3>2. side = <<x, y>>
      BY <2>2
    <3> HIDE DEF x, y, side
    <3>3. ASSUME NEW f \in Vouched, NEW n \in 1 .. Len(<<x, y>>)
          PROVE  f \notin DOMAIN <<x, y>>[n].effect
      <4>1. n = 1 \/ n = 2
        BY PairList
      <4>2. CASE n = 1
        BY <3>1, <4>2, PairList, Zenon
      <4>3. CASE n = 2
        BY <3>1, <4>3, PairList, Zenon
      <4> QED
        BY <4>1, <4>2, <4>3
    <3> QED
      BY <3>2, <3>3, PairList, Zenon DEF Spares
  <2> QED
    BY <2>1, <2>2
<1>3. IsList(fill) /\ \A f \in Vouched \ {"logical"} : Spares(fill, f)
  <2>1. \A f \in Vouched : f # "tmp"
    BY DEF Vouched
  <2> QED
    BY <2>1, WriteSets
<1>4. Front(b) = (fill \o <<move>>) \o side
  BY DEF Front, WriteLogical
<1>5. "logical" \in Vouched
  BY DEF Vouched
<1> HIDE DEF fill, move, side
<1>6. /\ IsList(fill \o <<move>>) /\ Sets(fill \o <<move>>, "logical", Logical)
      /\ \A f \in Vouched \ {"logical"} : Spares(fill \o <<move>>, f)
  BY <1>1, <1>3, ConcatList, SetsConcat, SparesConcat, Zenon
<1>7. IsList(Front(b)) /\ Sets(Front(b), "logical", Logical)
  <2> DEFINE s == fill \o <<move>>
  <2>1. /\ IsList(s) /\ Sets(s, "logical", Logical)
        /\ IsList(side) /\ Spares(side, "logical") /\ Front(b) = s \o side
    BY <1>2, <1>4, <1>5, <1>6
  <2> HIDE DEF s
  <2>2. IsList(s \o side) /\ Sets(s \o side, "logical", Logical)
    BY <2>1, ConcatList, SetsConcat, Zenon
  <2> QED
    BY <2>1, <2>2
<1>8. ASSUME NEW f \in Vouched \ {"logical"}
      PROVE  Spares(Front(b), f)
  BY <1>2, <1>4, <1>6, SparesConcat
<1> QED
  BY <1>7, <1>8

LEMMA SaveParts ==
    ASSUME NEW b, NEW d, NEW t
    PROVE  SaveOps(b, d, t) = Front(b) \o WriteNative(b, d, t)
<1>1. SaveOps(b, d, t)
        = WriteLogical \o (IF b.trie THEN WriteTrie(b) ELSE <<Remove("trie"), Remove("ids")>>)
          \o WriteNative(b, d, t)
  BY DEF SaveOps
<1> QED
  BY <1>1 DEF Front

LEMMA SaveEnds ==
    ASSUME NEW b, NEW d, NEW t
    PROVE  \A f \in Vouched : Sets(SaveOps(b, d, t), f, Final(b, d, t, f))
<1>1. ASSUME NEW f \in Vouched, f # "logical"
      PROVE  Sets(SaveOps(b, d, t), f, Final(b, d, t, f))
  BY <1>1, SaveParts, FrontEnds, NativeEnds, SetsConcat, Zenon
<1>2. Sets(SaveOps(b, d, t), "logical", Logical)
  BY SaveParts, FrontEnds, NativeEnds, SetsConcat, Zenon
<1>3. Final(b, d, t, "logical") = Logical
  BY DEF Final
<1> QED
  BY <1>1, <1>2, <1>3

LEMMA InitSave == FilesInit => SaveInv
BY DEF FilesInit, SaveInv

\* Running an operation keeps what the files and the operations add up to.
LEMMA RunEnds ==
    ASSUME NEW f \in Files, NEW x, IsList(todo), todo # <<>>, todo' = Tail(todo),
           disk' = [g \in Files |-> IF g \in DOMAIN Head(todo).effect
                                    THEN Head(todo).effect[g] ELSE disk[g]],
           Ends(f, x)
    PROVE  Sets(todo', f, x) \/ (disk'[f] = x /\ Spares(todo', f))
<1>1. CASE Sets(todo, f, x)
  BY <1>1, RestSets
<1>2. CASE disk[f] = x /\ Spares(todo, f)
  BY <1>2, RestSets
<1> QED
  BY <1>1, <1>2 DEF Ends

LEMMA StepSave == SaveInv /\ CoreInv /\ AckInv /\ [FilesNext]_allVars => SaveInv'
<1> DEFINE Saved(b, d, t) == \A f \in Vouched :
                                 \/ Sets(todo', f, Final(b, d, t, f))
                                 \/ disk'[f] = Final(b, d, t, f) /\ Spares(todo', f)
<1> SUFFICES ASSUME SaveInv, CoreInv, AckInv, [FilesNext]_allVars,
                    (mode' = "saving" /\ outcome' = "busy") \/ outcome' = "saved"
             PROVE  SavedAs(base, delta, tombstones)' \/ SavedAs(Rebuilt(Contents), EmptyDelta, {})'
  BY DEF SaveInv
<1>1. ASSUME UNCHANGED vars,
             Saved(base, delta, tombstones) \/ Saved(Rebuilt(Contents), EmptyDelta, {})
      PROVE  SavedAs(base, delta, tombstones)' \/ SavedAs(Rebuilt(Contents), EmptyDelta, {})'
  <2>1. Logical' = Logical /\ Contents' = Contents
    BY <1>1, SameLogical DEF vars, Contents, GetString
  <2>2. /\ \A f : Final(base, delta, tombstones, f)' = Final(base, delta, tombstones, f)
        /\ \A f : Final(Rebuilt(Contents), EmptyDelta, {}, f)'
                    = Final(Rebuilt(Contents), EmptyDelta, {}, f)
    BY <1>1, <2>1 DEF Final, vars, Rebuilt
  <2> QED
    BY <1>1, <2>2 DEF SavedAs, Ends
<1>2. CASE UNCHANGED allVars
  <2>1. /\ UNCHANGED vars /\ todo' = todo /\ disk' = disk
        /\ mode' = mode /\ outcome' = outcome
    BY <1>2 DEF allVars, ioVars, vars
  <2> QED
    BY <1>1, <2>1 DEF SaveInv, SavedAs, Ends
<1>3. CASE Save \/ SaveCompacted
  <2>1. \E b, d, t : /\ BeginSave(b, d, t)
                     /\ \/ b = base /\ d = delta /\ t = tombstones
                        \/ b = Rebuilt(Contents) /\ d = EmptyDelta /\ t = {}
    BY <1>3 DEF Save, SaveCompacted
  <2>2. PICK b, d, t : /\ BeginSave(b, d, t)
                       /\ \/ b = base /\ d = delta /\ t = tombstones
                          \/ b = Rebuilt(Contents) /\ d = EmptyDelta /\ t = {}
    BY <2>1
  <2>3. todo' = SaveOps(b, d, t) /\ UNCHANGED vars
    BY <2>2 DEF BeginSave
  <2>4. Saved(b, d, t)
    BY <2>3, SaveEnds
  <2> QED
    BY <1>1, <2>2, <2>3, <2>4
<1>4. CASE FileOpDone
  <2>1. /\ Busy /\ todo # <<>> /\ IsList(todo) /\ outcome \in {"busy", "short"}
        /\ todo' = Tail(todo) /\ UNCHANGED vars
        /\ disk' = [g \in Files |-> IF g \in DOMAIN Head(todo).effect
                                    THEN Head(todo).effect[g] ELSE disk[g]]
    BY <1>4, TodoIsList DEF FileOpDone, Advance, CoreInv, ControlInv
  <2>2. mode = "saving" /\ outcome = "busy"
    BY <1>4, <2>1 DEF FileOpDone, Advance, Finished
  <2>3. \A f \in Vouched : f \in Files
    BY DEF Vouched, Files
  <2>4. ASSUME NEW b, NEW d, NEW t, SavedAs(b, d, t)
        PROVE  Saved(b, d, t)
    BY <2>1, <2>3, <2>4, RunEnds, Zenon DEF SavedAs
  <2> QED
    BY <1>1, <2>1, <2>2, <2>4 DEF SaveInv
<1>5. CASE WriteLost \/ RemoveLost
  BY <1>5 DEF WriteLost, RemoveLost, Advance, Finished
<1>6. CASE OpThrows
  <2>1. Busy /\ outcome \in {"busy", "short"}
    BY <1>6 DEF OpThrows, CoreInv, ControlInv
  <2> QED
    BY <1>6, <2>1 DEF OpThrows, Busy
<1>7. CASE Mutate \/ Load \/ LoadThrows \/ StartEmpty \/ Crash
  BY <1>7 DEF Mutate, Load, LoadThrows, StartEmpty, Crash
<1> QED
  BY <1>2, <1>3, <1>4, <1>5, <1>6, <1>7 DEF FilesNext

\* Files that vouch for some tables are accepted and bring back these tables.
LEMMA VouchedReload ==
    ASSUME CoreInv, NEW b \in BaseSegment, NEW d \in DeltaSegment, NEW t \in SUBSET Ids,
           d.live = Cardinality(Present(d.entries)), ContentsOf(b, d, t) = Contents,
           \A f \in Vouched : disk[f] = Final(b, d, t, f)
    PROVE  /\ NativeAccepted
           /\ Loaded.base.entries = b.entries /\ Loaded.delta.entries = d.entries
           /\ Loaded.tombstones = t
<1>0. /\ disk["logical"] = Logical
      /\ disk["native.base"] = [entries |-> b.entries, live |-> b.live]
      /\ disk["native.delta"] =
           IF d.live # 0 THEN [entries |-> d.entries, live |-> d.live, used |-> d.used] ELSE Absent
      /\ disk["native.state"] = [logical |-> Logical, tombstones |-> t]
  BY DEF Vouched, Final
<1>1. /\ Logical \in Data("logical")
      /\ [entries |-> b.entries, live |-> b.live] \in Data("native.base")
      /\ [entries |-> d.entries, live |-> d.live, used |-> d.used] \in Data("native.delta")
      /\ [logical |-> Logical, tombstones |-> t] \in Data("native.state")
  BY LogicalIsGood DEF CoreInv, GoodSnapshot, Data, BaseSegment, DeltaSegment
<1>2. /\ Logical \notin {Absent, Torn} /\ disk["native.base"] \notin {Absent, Torn}
      /\ disk["native.state"] \notin {Absent, Torn} /\ disk["native.delta"] # Torn
      /\ d.live # 0 => disk["native.delta"] # Absent
  BY <1>0, <1>1, FilesAssumption DEF Files
<1>3. NativeBase.entries = b.entries
  BY <1>0 DEF NativeBase, LoadedBase
<1>4. NativeDelta.entries = d.entries /\ NativeDelta.live = d.live
  <2>1. CASE d.live = 0
    <3>1. Present(d.entries) = {}
      BY <2>1, PresentType, FS_EmptySet
    <3>2. d.entries = NoEntries
      BY <3>1 DEF Present, DeltaSegment, Entries, NoEntries
    <3> QED
      BY <1>0, <2>1, <3>2 DEF NativeDelta, EmptyDelta
  <2>2. CASE d.live # 0
    BY <1>0, <1>2, <2>2 DEF NativeDelta
  <2> QED
    BY <2>1, <2>2
<1>5. ContentsOf(NativeBase, NativeDelta, t) = Contents
  BY <1>3, <1>4 DEF ContentsOf
<1>6. NativeDelta.live = IF disk["native.delta"] = Absent THEN 0 ELSE disk["native.delta"].live
  BY <1>0, <1>2, <1>4
<1>7. NativeAccepted
  BY <1>0, <1>2, <1>5, <1>6 DEF NativeAccepted, Whole, Logical
<1> QED
  BY <1>0, <1>3, <1>4, <1>7 DEF Loaded

\* A save that returns without having lost anything leaves native files that load
\* accepts and that hold the very tables and tombstones it was given.
THEOREM SavedTables == FilesSpec => []SavedTablesReload
<1>1. ASSUME SaveInv, CoreInv PROVE SavedTablesReload
  <2> SUFFICES ASSUME outcome = "saved"
               PROVE  /\ NativeAccepted
                      /\ \/ /\ Loaded.base.entries = base.entries
                            /\ Loaded.delta.entries = delta.entries
                            /\ Loaded.tombstones = tombstones
                         \/ Loaded.base.entries = Contents /\ Loaded.tombstones = {}
    BY DEF SavedTablesReload
  <2>1. todo = <<>>
    BY <1>1 DEF CoreInv, ControlInv
  <2>2. \A f, x : ~Sets(todo, f, x)
    BY <2>1 DEF Sets
  <2>3. TypeOK
    BY <1>1 DEF CoreInv, MemoryInv
  <2>4. CASE SavedAs(base, delta, tombstones)
    <3>1. \A f \in Vouched : disk[f] = Final(base, delta, tombstones, f)
      BY <2>2, <2>4 DEF SavedAs, Ends
    <3>2. ContentsOf(base, delta, tombstones) = Contents
      BY DEF ContentsOf, Contents, GetString
    <3> QED
      BY <1>1, <2>3, <3>1, <3>2, VouchedReload DEF CoreInv, MemoryInv, TypeOK
  <2>5. CASE SavedAs(Rebuilt(Contents), EmptyDelta, {})
    <3>1. \A f \in Vouched : disk[f] = Final(Rebuilt(Contents), EmptyDelta, {}, f)
      BY <2>2, <2>5 DEF SavedAs, Ends
    <3>2. Rebuilt(Contents) \in BaseSegment /\ Rebuilt(Contents).entries = Contents
      BY <2>3, RebuiltTyped, ContentsFacts DEF Rebuilt
    <3>3. ContentsOf(Rebuilt(Contents), EmptyDelta, {}) = Contents
      BY <3>2 DEF ContentsOf, EmptyDelta, NoEntries, Contents
    <3>4. EmptyDelta.live = Cardinality(Present(EmptyDelta.entries))
      BY EmptyPresent DEF EmptyDelta
    <3> QED
      BY <1>1, <3>1, <3>2, <3>3, <3>4, EmptyDeltaType, VouchedReload
  <2> QED
    BY <1>1, <2>4, <2>5 DEF SaveInv
<1> QED
  BY <1>1, InitSave, StepSave, CoreHolds, PTL DEF FilesSpec

-----------------------------------------------------------------------------
(* What is still to be written is what is in memory: the tables after the logical   *)
(* file, the header after the tables.                                              *)

NativeParts == {"native.base", "native.delta", "native.state"}

\* What the header copies of memory, and a table.
Copied(f, x) == IF f = "native.state" THEN x.logical ELSE x.entries

\* Every whole thing an operation puts in f copies one of these.
Carries(ops, f, originals) ==
    \A n \in 1 .. Len(ops) :
        f \in DOMAIN ops[n].effect =>
            ops[n].effect[f] \in {Absent, Torn} \/ Copied(f, ops[n].effect[f]) \in originals

\* Once one of the files F is touched, g is left alone.
Follows(ops, F, g) ==
    \A n, m \in 1 .. Len(ops) :
        m >= n /\ (\E f \in F : f \in DOMAIN ops[n].effect) => g \notin DOMAIN ops[m].effect

TodoInv ==
    /\ mode = "saving" => /\ Follows(todo, NativeParts, "logical")
                          /\ Follows(todo, {"native.state"}, "native.delta")
                          /\ Carries(todo, "native.base", {base.entries, Contents})
                          /\ Carries(todo, "native.delta", {delta.entries})
                          /\ Carries(todo, "native.state", {Logical})
    /\ mode # "saving" => \A f \in NativeParts : Carries(todo, f, {})

LEMMA SparesCarries ==
    ASSUME NEW s, NEW f, NEW originals, Spares(s, f)
    PROVE  Carries(s, f, originals)
BY DEF Spares, Carries

LEMMA CarriesConcat ==
    ASSUME NEW s, NEW t, NEW f, NEW originals, IsList(s), IsList(t),
           Carries(s, f, originals), Carries(t, f, originals)
    PROVE  Carries(s \o t, f, originals)
BY ConcatList DEF Carries

LEMMA WriteCarries ==
    ASSUME NEW f, NEW x, NEW cleanup, NEW originals, Copied(f, x) \in originals
    PROVE  Carries(Write(f, x, cleanup), f, originals)
<1> DEFINE o == Op(Becomes(f, Torn), TRUE, cleanup)
           p == Op(Becomes(f, x), TRUE, cleanup)
           w == Write(f, x, cleanup)
<1>1. o.effect[f] = Torn /\ p.effect[f] = x /\ w = <<o, p>>
  BY DEF Op, Becomes, Write
<1> HIDE DEF o, p, w
<1>2. \A n \in 1 .. Len(w) : w[n] = o \/ w[n] = p
  <2>1. Len(w) = 2 /\ w[1] = o /\ w[2] = p
    BY <1>1, PairList
  <2>2. \A n \in 1 .. Len(w) : n = 1 \/ n = 2
    BY <2>1
  <2> QED
    BY <2>1, <2>2
<1> QED
  BY <1>1, <1>2 DEF Carries, w

LEMMA RemoveCarries ==
    ASSUME NEW ops, NEW f, NEW originals, \A n \in 1 .. Len(ops) : \E g : ops[n] = Remove(g)
    PROVE  Carries(ops, f, originals)
<1>1. ASSUME NEW g, f \in DOMAIN Remove(g).effect
      PROVE  Remove(g).effect[f] = Absent
  BY <1>1 DEF Remove, Op, Becomes
<1>2. ASSUME NEW n \in 1 .. Len(ops), f \in DOMAIN ops[n].effect
      PROVE  ops[n].effect[f] = Absent
  BY <1>1, <1>2, Zenon
<1> QED
  BY <1>2 DEF Carries

LEMMA RestCarries ==
    ASSUME NEW s, NEW f, NEW originals, IsList(s), s # <<>>, Carries(s, f, originals)
    PROVE  /\ f \in DOMAIN Head(s).effect =>
                Head(s).effect[f] \in {Absent, Torn} \/ Copied(f, Head(s).effect[f]) \in originals
           /\ Carries(Tail(s), f, originals)
BY HeadAndTail DEF Carries

LEMMA FollowsConcat ==
    ASSUME NEW s, NEW t, NEW F, NEW g, IsList(s), IsList(t),
           \A f \in F : Spares(s, f), Spares(t, g)
    PROVE  Follows(s \o t, F, g)
<1> SUFFICES ASSUME NEW n \in 1 .. Len(s \o t), NEW m \in 1 .. Len(s \o t), m >= n,
                    NEW f \in F, f \in DOMAIN (s \o t)[n].effect
             PROVE  g \notin DOMAIN (s \o t)[m].effect
  BY DEF Follows
<1>1. Len(s) \in Nat /\ Len(t) \in Nat
  BY ConcatList
<1>2. n \notin 1 .. Len(s)
  <2>1. ASSUME n \in 1 .. Len(s) PROVE FALSE
    <3>1. (s \o t)[n] = s[n]
      BY <2>1, ConcatList
    <3> QED
      BY <2>1, <3>1 DEF Spares
  <2> QED
    BY <2>1
<1>3. m \notin 1 .. Len(s)
  BY <1>1, <1>2
<1>4. m - Len(s) \in 1 .. Len(t) /\ (s \o t)[m] = t[m - Len(s)]
  BY <1>3, ConcatList
<1> QED
  BY <1>4 DEF Spares

LEMMA RestFollows ==
    ASSUME NEW s, NEW F, NEW g, IsList(s), s # <<>>, Follows(s, F, g)
    PROVE  /\ Follows(Tail(s), F, g)
           /\ (\E f \in F : f \in DOMAIN Head(s).effect) => Spares(s, g)
<1>0. /\ 1 \in 1 .. Len(s) /\ Head(s) = s[1]
      /\ \A n \in 1 .. Len(Tail(s)) : n + 1 \in 1 .. Len(s) /\ Tail(s)[n] = s[n + 1]
  BY HeadAndTail
<1>1. ASSUME NEW n \in 1 .. Len(Tail(s)), NEW m \in 1 .. Len(Tail(s)), m >= n,
             \E f \in F : f \in DOMAIN Tail(s)[n].effect
      PROVE  g \notin DOMAIN Tail(s)[m].effect
  <2>1. n + 1 \in 1 .. Len(s) /\ m + 1 \in 1 .. Len(s) /\ m + 1 >= n + 1
    BY <1>0, <1>1
  <2> QED
    BY <1>0, <1>1, <2>1 DEF Follows
<1>2. ASSUME \E f \in F : f \in DOMAIN Head(s).effect
      PROVE  Spares(s, g)
  BY <1>0, <1>2 DEF Follows, Spares
<1> QED
  BY <1>1, <1>2 DEF Follows

\* What a save writes.
LEMMA SaveCarries ==
    ASSUME NEW b, NEW d, NEW t
    PROVE  /\ Follows(SaveOps(b, d, t), NativeParts, "logical")
           /\ Follows(SaveOps(b, d, t), {"native.state"}, "native.delta")
           /\ Carries(SaveOps(b, d, t), "native.base", {b.entries})
           /\ d.live = 0 => Carries(SaveOps(b, d, t), "native.delta", {})
           /\ Carries(SaveOps(b, d, t), "native.delta", {d.entries})
           /\ Carries(SaveOps(b, d, t), "native.state", {Logical})
<1> DEFINE tables == Write("native.base", [entries |-> b.entries, live |-> b.live], NativeFiles)
           changes ==
               IF d.live # 0
               THEN Write("native.delta",
                          [entries |-> d.entries, live |-> d.live, used |-> d.used], NativeFiles)
               ELSE <<Remove("native.delta")>>
           header == Write("native.state", [logical |-> Logical, tombstones |-> t], NativeFiles)
           early == Front(b) \o (tables \o changes)
<1>1. /\ Carries(tables, "native.base", {b.entries}) /\ IsList(tables)
      /\ Spares(tables, "native.delta") /\ Spares(tables, "native.state")
  BY WriteCarries, WriteSets DEF Copied
<1>2. /\ IsList(changes) /\ Spares(changes, "native.base") /\ Spares(changes, "native.state")
      /\ Carries(changes, "native.delta", {d.entries})
      /\ d.live = 0 => Carries(changes, "native.delta", {})
  <2>1. CASE d.live # 0
    BY <2>1, WriteCarries, WriteSets DEF Copied
  <2>2. CASE d.live = 0
    <3> DEFINE r == Remove("native.delta")
    <3>1. \A n \in 1 .. Len(<<r>>) : n = 1 /\ <<r>>[n] = Remove("native.delta")
      <4> HIDE DEF r
      <4>1. \A n \in 1 .. Len(<<r>>) : n = 1 /\ <<r>>[1] = r
        BY PairList
      <4> QED
        BY <4>1 DEF r
    <3> QED
      BY <2>2, <3>1, RemoveCarries, RemoveSets
  <2> QED
    BY <2>1, <2>2
<1>3. /\ IsList(header) /\ Spares(header, "native.base") /\ Spares(header, "native.delta")
      /\ Carries(header, "native.state", {Logical})
  BY WriteCarries, WriteSets DEF Copied
<1>4. WriteNative(b, d, t) = (tables \o changes) \o header
  <2>1. WriteNative(b, d, t) = tables \o changes \o header
    BY DEF WriteNative
  <2> QED
    BY <2>1
<1>5. IsList(tables \o changes) /\ IsList(WriteNative(b, d, t))
  BY <1>1, <1>2, <1>3, <1>4, ConcatList
<1> HIDE DEF tables, changes, header
<1>6. /\ SaveOps(b, d, t) = Front(b) \o WriteNative(b, d, t) /\ IsList(Front(b))
      /\ Spares(WriteNative(b, d, t), "logical") /\ \A f \in NativeParts : Spares(Front(b), f)
  BY SaveParts, FrontEnds, NativeEnds DEF NativeParts, Vouched
<1>7. SaveOps(b, d, t) = early \o header /\ IsList(early)
  <2>1. Front(b) \o ((tables \o changes) \o header) = (Front(b) \o (tables \o changes)) \o header
    BY <1>3, <1>5, <1>6, ConcatMoves
  <2> QED
    BY <1>4, <1>5, <1>6, <2>1, ConcatList
<1>8. /\ Carries(tables \o changes, "native.base", {b.entries})
      /\ Carries(tables \o changes, "native.delta", {d.entries})
      /\ d.live = 0 => Carries(tables \o changes, "native.delta", {})
      /\ Spares(tables \o changes, "native.state")
  BY <1>1, <1>2, SparesCarries, CarriesConcat, SparesConcat
<1>9. /\ Carries(early, "native.base", {b.entries})
      /\ Carries(early, "native.delta", {d.entries})
      /\ d.live = 0 => Carries(early, "native.delta", {})
      /\ Spares(early, "native.state")
  BY <1>5, <1>6, <1>8, SparesCarries, CarriesConcat, SparesConcat DEF NativeParts
<1> HIDE DEF early
<1>10. /\ Follows(SaveOps(b, d, t), NativeParts, "logical")
       /\ Follows(SaveOps(b, d, t), {"native.state"}, "native.delta")
  BY <1>3, <1>5, <1>6, <1>7, <1>9, FollowsConcat
<1> QED
  BY <1>3, <1>7, <1>9, <1>10, SparesCarries, CarriesConcat

LEMMA NothingCarried == ASSUME NEW f PROVE Carries(<<>>, f, {})
BY DEF Carries

LEMMA InitTodo == FilesInit => TodoInv
BY NothingCarried DEF FilesInit, TodoInv

LEMMA StepTodo == TodoInv /\ CoreInv /\ AckInv /\ [FilesNext]_allVars => TodoInv'
<1> SUFFICES ASSUME TodoInv, CoreInv, AckInv, [FilesNext]_allVars
             PROVE  TodoInv'
  OBVIOUS
<1>1. CASE UNCHANGED allVars
  BY <1>1 DEF allVars, ioVars, vars, TodoInv, Contents, GetString, Logical
<1>2. CASE Save \/ SaveCompacted
  <2>1. \E b, d, t : /\ BeginSave(b, d, t)
                     /\ \/ b = base /\ d = delta
                        \/ b = Rebuilt(Contents) /\ d = EmptyDelta
    BY <1>2 DEF Save, SaveCompacted
  <2>2. PICK b, d, t : /\ BeginSave(b, d, t)
                       /\ \/ b = base /\ d = delta
                          \/ b = Rebuilt(Contents) /\ d = EmptyDelta
    BY <2>1
  <2>3. mode' = "saving" /\ todo' = SaveOps(b, d, t) /\ UNCHANGED vars
    BY <2>2 DEF BeginSave
  <2>4. Contents' = Contents /\ base' = base /\ delta' = delta
    BY <2>3 DEF vars, Contents, GetString
  <2>5. Rebuilt(Contents).entries = Contents /\ EmptyDelta.live = 0
    BY DEF Rebuilt, EmptyDelta
  <2>6. Carries(todo', "native.base", {base.entries, Contents})
    BY <2>2, <2>3, <2>5, SaveCarries DEF Carries
  <2>7. Carries(todo', "native.delta", {delta.entries})
    BY <2>2, <2>3, <2>5, SaveCarries DEF Carries
  <2>8. Logical' = Logical
    BY <2>3, SameLogical
  <2>9. /\ Follows(todo', NativeParts, "logical")
        /\ Follows(todo', {"native.state"}, "native.delta")
        /\ Carries(todo', "native.state", {Logical})
    BY <2>3, SaveCarries
  <2> QED
    BY <2>3, <2>4, <2>6, <2>7, <2>8, <2>9 DEF TodoInv
<1>3. CASE FileOpDone \/ WriteLost \/ RemoveLost
  <2>1. /\ todo # <<>> /\ IsList(todo) /\ todo' = Tail(todo) /\ UNCHANGED vars
        /\ mode' = mode \/ (mode' = "ready" /\ ~(Len(todo) > 1))
    BY <1>3, TodoIsList DEF FileOpDone, WriteLost, RemoveLost, Advance, Finished, AckInv
  <2>2. /\ Contents' = Contents /\ base' = base /\ delta' = delta
        /\ Logical' = Logical
    BY <2>1, SameLogical DEF vars, Contents, GetString
  <2>3. CASE mode' = mode
    BY <2>1, <2>2, <2>3, RestCarries, RestFollows DEF TodoInv
  <2>4. CASE mode' = "ready" /\ ~(Len(todo) > 1)
    <3>1. todo' = <<>>
      BY <2>1, <2>4, RestOfList, Zenon
    <3> QED
      BY <2>4, <3>1, NothingCarried DEF TodoInv
  <2> QED
    BY <2>1, <2>3, <2>4
<1>4. CASE OpThrows
  <2> DEFINE cleanup == Head(todo).cleanup
  <2>1. todo' = [n \in DOMAIN cleanup |-> Remove(cleanup[n])] /\ mode' # "saving"
    BY <1>4 DEF OpThrows, Busy
  <2>2. cleanup \in Seq(Files \ {"logical"})
    <3>1. Busy /\ todo # <<>> /\ IsList(todo)
      BY <1>4, TodoIsList DEF OpThrows, AckInv
    <3>2. mode = "saving" => Careful(Head(todo), Logical)
      BY <3>1, RestOfList, Zenon DEF AckInv
    <3>3. mode # "saving" => Aside(Head(todo))
      BY <3>1, RestOfList, Zenon DEF AckInv
    <3> QED
      BY <3>2, <3>3 DEF Careful, Aside
  <2>3. \A n \in 1 .. Len(todo') : todo'[n] = Remove(cleanup[n])
    <3> HIDE DEF cleanup
    <3> QED
      BY <2>1, <2>2
  <2> HIDE DEF cleanup
  <2>4. \A n \in 1 .. Len(todo') : \E g : todo'[n] = Remove(g)
    BY <2>3, Zenon
  <2> QED
    BY <2>1, <2>4, RemoveCarries DEF TodoInv
<1>5. CASE Load
  <2>1. /\ mode' # "saving" /\ (todo' = <<>> \/ todo' = WriteTrie(Loaded.base))
    BY <1>5 DEF Load
  <2>2. ASSUME NEW f \in NativeParts, NEW b
        PROVE  Carries(WriteTrie(b), f, {})
    <3>1. f # "trie" /\ f # "ids"
      BY DEF NativeParts
    <3>2. /\ IsList(Write("trie", KeysOf(b.index), <<>>))
          /\ IsList(Write("ids", IdsFile(b.index), <<>>))
          /\ Spares(Write("trie", KeysOf(b.index), <<>>), f)
          /\ Spares(Write("ids", IdsFile(b.index), <<>>), f)
      BY <3>1, WriteSets
    <3> QED
      BY <3>2, SparesConcat, SparesCarries, Zenon DEF WriteTrie
  <2> QED
    BY <2>1, <2>2, NothingCarried DEF TodoInv
<1>6. CASE Mutate \/ LoadThrows \/ StartEmpty \/ Crash
  <2>1. mode' # "saving" /\ todo' = <<>>
    BY <1>6 DEF Mutate, LoadThrows, StartEmpty, Crash, CoreInv, ControlInv, Busy
  <2> QED
    BY <2>1, NothingCarried DEF TodoInv
<1> QED
  BY <1>1, <1>2, <1>3, <1>4, <1>5, <1>6 DEF FilesNext

-----------------------------------------------------------------------------
(* The strings in memory are found under their ids, whatever they were loaded from. *)

\* The ids whose string a later id of the same table repeats.
Superseded(entries) ==
    {i \in Ids : \E j \in Ids : i < j /\ entries[i] # NoString /\ entries[i] = entries[j]}

\* Only a removal that fails unnoticed leaves a delta file beside a newer header.
RemovesSucceed == "lost_remove" \notin Faults

\* A reload can then put dead entries back into the delta; DeltaIsLive and
\* DeltaIndexExact of IInv fail, and this is what is left of them: an entry that is not
\* the last of its string is tombstoned.
BaseComplete == \A v \in Values, i \in Ids : base.entries[i] = v => base.index[v] = i
DeltaComplete ==
    \A v \in Values, i \in Ids : i \notin tombstones /\ delta.entries[i] = v => delta.index[v] = i
DeltaSound == \A v \in Values, i \in Ids : delta.index[v] = i => delta.entries[i] = v
DeltaNewest == Superseded(delta.entries) \subseteq tombstones
DeltaAlive ==
    RemovesSucceed => \A i \in Ids : delta.entries[i] # NoString => i \notin tombstones

MemoryFinds ==
    /\ BaseComplete /\ DeltaComplete /\ DeltaSound /\ DeltaNewest /\ DeltaAlive
    /\ LiveStringsDistinct

\* The entry table in a file, empty when there is none to read.
Table(f) == IF Whole(f) THEN disk[f].entries ELSE NoEntries
OnFile == IF Whole("logical") THEN disk["logical"].contents ELSE NoEntries

\* An id given out and deleted again, on file and in memory.
OutOfUse(i) ==
    /\ Whole("logical") /\ i < disk["logical"].next_id /\ OnFile[i] = NoString
    /\ mode # "down" => i < next_id /\ GetString(i) = NoString

\* The ids the header of the native tables was written over as given out and deleted.
DeletedInHeader ==
    {i \in Ids : /\ Whole("native.state") /\ i < disk["native.state"].logical.next_id
                 /\ disk["native.state"].logical.contents[i] = NoString}

FilesFind ==
    /\ Distinct(Table("native.base")) /\ Distinct(OnFile)
    /\ \A i \in Superseded(Table("native.delta")) : OutOfUse(i)
    /\ \A i \in DeletedInHeader : OutOfUse(i)
    /\ RemovesSucceed => \A i \in DeletedInHeader : Table("native.delta")[i] = NoString

FoundInv == MemoryFinds /\ FilesFind

\* What the invariant is for.
LEMMA Finds ==
    ASSUME TypeOK, MemoryFinds, NEW v \in Values, NEW i \in Ids, GetString(i) = v
    PROVE  FindId(v) = i
<1>0. v # NoString /\ i # kInvalidId /\ i \notin tombstones
  BY SegmentAssumption, IdFacts DEF GetString
<1>1. CASE Visible(delta.index[v])
  <2>1. delta.index[v] \in Ids /\ delta.index[v] \notin tombstones
    BY <1>1 DEF Visible, TypeOK, DeltaSegment, Indexes
  <2>2. GetString(delta.index[v]) = v
    BY <1>0, <2>1 DEF MemoryFinds, DeltaSound, GetString
  <2> QED
    BY <1>0, <1>1, <2>1, <2>2 DEF MemoryFinds, LiveStringsDistinct, FindId
<1>2. CASE ~Visible(delta.index[v])
  <2>1. delta.entries[i] # v
    BY <1>0, <1>2 DEF MemoryFinds, DeltaComplete, Visible
  <2>2. base.entries[i] = v
    BY <1>0, <2>1 DEF GetString
  <2> QED
    BY <1>0, <1>2, <2>2 DEF MemoryFinds, BaseComplete, Visible, FindId
<1> QED
  BY <1>1, <1>2

LEMMA EmptyTable ==
    /\ NoEntries \in Entries /\ Distinct(NoEntries) /\ Superseded(NoEntries) = {}
    /\ \A i \in Ids : NoEntries[i] = NoString
BY DEF NoEntries, Entries, Distinct, Superseded

LEMMA EmptyFinds == NothingInMemory => MemoryFinds'
<1> SUFFICES ASSUME NothingInMemory PROVE MemoryFinds'
  OBVIOUS
<1>1. /\ base' = EmptyBase /\ delta' = EmptyDelta /\ tombstones' = {}
  BY DEF NothingInMemory
<1>2. \A i \in Ids : EmptyBase.entries[i] = NoString /\ EmptyDelta.entries[i] = NoString
  BY DEF EmptyBase, EmptyDelta, NoEntries
<1>3. \A v \in Values : EmptyDelta.index[v] = kInvalidId
  BY DEF EmptyDelta, NoIndex
<1>4. Superseded(EmptyDelta.entries) = {}
  BY EmptyTable DEF EmptyDelta
<1>5. \A i \in Ids : GetString(i)' = NoString
  BY <1>1, <1>2 DEF GetString
<1> QED
  BY <1>1, <1>2, <1>3, <1>4, <1>5, IdFacts, SegmentAssumption
     DEF MemoryFinds, BaseComplete, DeltaComplete, DeltaSound, DeltaNewest, DeltaAlive,
         LiveStringsDistinct

LEMMA InsertFinds ==
    ASSUME MemoryInv, MemoryFinds, NEW v \in Values, InsertNew(v)
    PROVE  MemoryFinds'
<1> DEFINE n == next_id
<1>0. \A i \in Ids : GetString(i) # v
  BY Finds, IdFacts DEF InsertNew, MemoryInv
<1>1. BaseComplete'
  BY InsertEffect DEF MemoryFinds, BaseComplete
<1>2. DeltaComplete'
  <2> SUFFICES ASSUME NEW w \in Values, NEW i \in Ids, i \notin tombstones, delta'.entries[i] = w
               PROVE  delta'.index[w] = i
    BY InsertEffect DEF DeltaComplete
  <2>1. CASE i = n
    BY <2>1, InsertEffect
  <2>2. CASE i # n
    <3>1. delta.entries[i] = w /\ delta.index[w] = i
      BY <2>2, InsertEffect DEF MemoryFinds, DeltaComplete
    <3>2. w # v
      BY <1>0, <3>1, SegmentAssumption DEF GetString
    <3> QED
      BY <3>1, <3>2, InsertEffect
  <2> QED
    BY <2>1, <2>2
<1>3. DeltaSound'
  <2> SUFFICES ASSUME NEW w \in Values, NEW i \in Ids, delta'.index[w] = i
               PROVE  delta'.entries[i] = w
    BY DEF DeltaSound
  <2>1. CASE w = v
    BY <2>1, InsertEffect
  <2>2. CASE w # v
    <3>1. delta.entries[i] = w
      BY <2>2, InsertEffect DEF MemoryFinds, DeltaSound
    <3>2. i # n
      BY <3>1, InsertEffect, SegmentAssumption
    <3> QED
      BY <3>1, <3>2, InsertEffect
  <2> QED
    BY <2>1, <2>2
<1>4. DeltaNewest'
  <2> SUFFICES ASSUME NEW i \in Ids, NEW j \in Ids, i < j, delta'.entries[i] # NoString,
                      delta'.entries[i] = delta'.entries[j], i \notin tombstones
               PROVE  FALSE
    BY InsertEffect DEF DeltaNewest, Superseded
  <2>1. \A k \in Ids : delta.entries[k] # NoString => k < n
    BY DEF MemoryInv, UsedIdsBelowNext
  <2>2. i # n /\ delta.entries[i] = delta'.entries[i]
    BY <2>1, InsertEffect, IdFacts
  <2>3. CASE j = n
    BY <1>0, <2>2, <2>3, InsertEffect DEF GetString
  <2>4. CASE j # n
    BY <2>2, <2>4, InsertEffect DEF MemoryFinds, DeltaNewest, Superseded
  <2> QED
    BY <2>3, <2>4
<1>5. LiveStringsDistinct'
  BY <1>0, InsertEffect DEF MemoryFinds, LiveStringsDistinct
<1>6. DeltaAlive'
  BY InsertEffect DEF MemoryFinds, DeltaAlive, RemovesSucceed
<1> QED
  BY <1>1, <1>2, <1>3, <1>4, <1>5, <1>6 DEF MemoryFinds

LEMMA EraseFinds ==
    ASSUME MemoryInv, MemoryFinds, NEW id \in Ids, EraseId(id)
    PROVE  MemoryFinds'
<1>1. BaseComplete'
  BY EraseEffect DEF MemoryFinds, BaseComplete
<1>2. DeltaComplete'
  BY EraseEffect DEF MemoryFinds, DeltaComplete
<1>3. DeltaSound'
  BY EraseEffect, IdFacts DEF MemoryFinds, DeltaSound
<1>4. DeltaNewest'
  BY EraseEffect DEF MemoryFinds, DeltaNewest, Superseded
<1>5. LiveStringsDistinct'
  BY EraseEffect DEF MemoryFinds, LiveStringsDistinct
<1>6. DeltaAlive'
  BY EraseEffect DEF MemoryFinds, DeltaAlive, RemovesSucceed
<1> QED
  BY <1>1, <1>2, <1>3, <1>4, <1>5, <1>6 DEF MemoryFinds

LEMMA CompactFinds ==
    ASSUME MemoryInv, MemoryFinds, Compact
    PROVE  MemoryFinds' /\ \A i \in Ids : GetString(i)' = GetString(i)
<1>0. /\ base'.entries = Contents /\ base'.index = IndexOf(Contents) /\ tombstones' = {}
      /\ delta' = EmptyDelta /\ Contents \in Entries
  BY ContentsFacts DEF Compact, ReplaceBase, Rebuilt, MemoryInv
<1>1. \A i, j \in Ids : Contents[i] # NoString /\ Contents[i] = Contents[j] => i = j
  BY DEF MemoryFinds, LiveStringsDistinct, Contents
<1>2. BaseComplete'
  BY <1>0, <1>1, IndexOfInverts DEF BaseComplete
<1>3. \A i \in Ids : delta'.entries[i] = NoString
  BY <1>0 DEF EmptyDelta, NoEntries
<1>4. \A v \in Values : delta'.index[v] = kInvalidId
  BY <1>0 DEF EmptyDelta, NoIndex
<1>5. Superseded(delta'.entries) = {}
  BY <1>0, EmptyTable DEF EmptyDelta
<1>6. \A i \in Ids : GetString(i)' = GetString(i)
  BY <1>0, <1>3 DEF GetString, Contents
<1>7. LiveStringsDistinct'
  BY <1>6 DEF MemoryFinds, LiveStringsDistinct
<1> QED
  BY <1>2, <1>3, <1>4, <1>5, <1>6, <1>7, IdFacts, SegmentAssumption
     DEF MemoryFinds, DeltaComplete, DeltaSound, DeltaNewest, DeltaAlive

\* A base that is loaded finds its strings, by the trie on file or by an index built anew.
LEMMA LoadedBaseFinds ==
    ASSUME NEW entries \in Entries, Distinct(entries), NEW live
    PROVE  \A v \in Values, i \in Ids : entries[i] = v => LoadedBase(entries, live).index[v] = i
<1> SUFFICES ASSUME NEW v \in Values, NEW i \in Ids, entries[i] = v
             PROVE  LoadedBase(entries, live).index[v] = i
  OBVIOUS
<1>1. CASE TrieMatches(entries)
  <2>1. i \in Present(entries)
    BY SegmentAssumption DEF Present
  <2> QED
    BY <1>1, <2>1 DEF TrieMatches, LoadedBase
<1>2. CASE ~TrieMatches(entries)
  <2>1. IndexOf(entries)[v] = i
    BY IndexOfInverts DEF Distinct
  <2> QED
    BY <1>2, <2>1 DEF LoadedBase
<1> QED
  BY <1>1, <1>2

\* The delta that is loaded is the table on file, with an index that names the newest of
\* a string's entries if the profile's index overwrites or there is but one.
LEMMA LoadedDeltaFinds ==
    ASSUME DiskInv, disk["native.delta"] # Torn,
           Profile = "FastLookup" \/ Distinct(Table("native.delta"))
    PROVE  /\ NativeDelta.entries = Table("native.delta")
           /\ \A v \in Values, i \in Ids : NativeDelta.index[v] = i => NativeDelta.entries[i] = v
           /\ \A v \in Values, i \in Ids :
                 NativeDelta.entries[i] = v => /\ NativeDelta.index[v] \in Ids
                                               /\ i <= NativeDelta.index[v]
<1>1. CASE disk["native.delta"] = Absent
  <2>1. NativeDelta.entries = NoEntries /\ NativeDelta.index = NoIndex
    BY <1>1 DEF NativeDelta, EmptyDelta
  <2>2. \A v \in Values : NativeDelta.index[v] = kInvalidId
    BY <2>1 DEF NoIndex
  <2> QED
    BY <1>1, <2>1, <2>2, EmptyTable, IdFacts, SegmentAssumption DEF Table, Whole
<1>2. CASE disk["native.delta"] # Absent
  <2>1. disk["native.delta"].entries \in Entries
    BY <1>2 DEF DiskInv, GoodFile, GoodData, Data, Files
  <2>2. /\ NativeDelta.entries = disk["native.delta"].entries
        /\ NativeDelta.index = DeltaIndexOf(disk["native.delta"].entries)
    BY <1>2 DEF NativeDelta
  <2>3. Table("native.delta") = disk["native.delta"].entries
    BY <1>2 DEF Table, Whole
  <2> QED
    BY <2>1, <2>2, <2>3, DeltaIndexOfFinds
<1> QED
  BY <1>1, <1>2

\* While removals succeed, the native layout load accepts revives no dead entry, so its
\* delta repeats no string.
LEMMA NativeAlive ==
    ASSUME CoreInv, FilesFind, RemovesSucceed, NativeAccepted
    PROVE  /\ Distinct(Table("native.delta"))
           /\ \A i \in Ids :
                 Table("native.delta")[i] # NoString => i \notin disk["native.state"].tombstones
<1> DEFINE header == disk["native.state"]
           table == Table("native.delta")
<1>0. /\ disk["native.delta"] # Torn /\ Whole("native.state") /\ Whole("native.base")
      /\ Whole("logical") /\ header.logical = disk["logical"]
      /\ ContentsOf(NativeBase, NativeDelta, header.tombstones) = header.logical.contents
  BY DEF NativeAccepted
<1>1. NativeDelta.entries = table
  <2>1. CASE disk["native.delta"] = Absent
    BY <2>1 DEF NativeDelta, EmptyDelta, Table, Whole
  <2>2. CASE disk["native.delta"] # Absent
    BY <1>0, <2>2 DEF NativeDelta, Table, Whole
  <2> QED
    BY <2>1, <2>2
<1>2. \A i \in header.tombstones : i < header.logical.next_id
  BY <1>0, NativeTypes DEF CoreInv
<1>3. ASSUME NEW i \in Ids, table[i] # NoString
      PROVE  i \notin header.tombstones /\ header.logical.contents[i] = table[i]
  <2>1. i \notin DeletedInHeader
    BY <1>3 DEF FilesFind
  <2>2. header.logical.contents[i]
          = IF i \in header.tombstones THEN NoString ELSE table[i]
    BY <1>0, <1>1, <1>3 DEF ContentsOf
  <2>3. i \notin header.tombstones
    BY <1>0, <1>2, <2>1, <2>2 DEF DeletedInHeader
  <2> QED
    BY <2>2, <2>3
<1>4. OnFile = header.logical.contents /\ Distinct(OnFile)
  BY <1>0 DEF OnFile, FilesFind
<1>5. Distinct(table)
  BY <1>3, <1>4 DEF Distinct
<1> QED
  BY <1>3, <1>5

LEMMA LoadFinds ==
    ASSUME CoreInv, AckInv, FilesFind, Profile = "FastLookup" \/ RemovesSucceed, Load
    PROVE  MemoryFinds'
<1> DEFINE logical == disk["logical"]
           built == Loaded
<1>0. /\ base' = built.base /\ delta' = built.delta /\ tombstones' = built.tombstones
      /\ CanLoad /\ Whole("logical")
  BY DEF Load, CanLoad
<1>1. /\ ContentsOf(built.base, built.delta, built.tombstones) = logical.contents
      /\ logical.contents \in Entries /\ OnFile = logical.contents /\ Distinct(OnFile)
  BY <1>0, LoadedFacts DEF CoreInv, GoodSnapshot, Snapshot, OnFile, FilesFind
<1>2. \A i \in Ids : GetString(i)' = OnFile[i]
  BY <1>0, <1>1 DEF GetString, ContentsOf
<1>3. LiveStringsDistinct'
  BY <1>1, <1>2 DEF LiveStringsDistinct, Distinct
<1>4. \A v \in Values, i \in Ids : built.base.entries[i] = v => built.base.index[v] = i
  <2>1. CASE NativeAccepted
    <3>1. Whole("native.base") /\ built.base = NativeBase
      BY <2>1 DEF NativeAccepted, Loaded
    <3>2. disk["native.base"].entries \in Entries /\ Distinct(disk["native.base"].entries)
      BY <3>1 DEF FilesFind, Table, CoreInv, DiskInv, GoodFile, GoodData, Data, Files, Whole
    <3>3. built.base.entries = disk["native.base"].entries
      BY <3>1 DEF NativeBase, LoadedBase
    <3> QED
      BY <3>1, <3>2, <3>3, LoadedBaseFinds DEF NativeBase
  <2>2. CASE ~NativeAccepted /\ TrieMatches(logical.contents)
    <3>1. built.base = LoadedBase(logical.contents, Cardinality(Present(logical.contents)))
      BY <2>2 DEF Loaded
    <3>2. built.base.entries = logical.contents
      BY <3>1 DEF LoadedBase
    <3> QED
      BY <1>1, <3>1, <3>2, LoadedBaseFinds
  <2>3. CASE ~NativeAccepted /\ ~TrieMatches(logical.contents)
    <3>1. built.base = Rebuilt(logical.contents)
      BY <2>3 DEF Loaded
    <3>2. built.base.entries = logical.contents /\ built.base.index = IndexOf(logical.contents)
      BY <3>1 DEF Rebuilt
    <3> QED
      BY <1>1, <3>2, IndexOfInverts DEF Distinct
  <2> QED
    BY <2>1, <2>2, <2>3
<1>5. BaseComplete'
  BY <1>0, <1>4 DEF BaseComplete
<1>6. /\ \A i \in Superseded(built.delta.entries) : i \in built.tombstones
      /\ \A v \in Values, i \in Ids : built.delta.index[v] = i => built.delta.entries[i] = v
      /\ \A v \in Values, i \in Ids :
            built.delta.entries[i] = v => /\ built.delta.index[v] \in Ids
                                          /\ i <= built.delta.index[v]
  <2>1. CASE NativeAccepted
    <3>1. built.delta = NativeDelta /\ disk["native.delta"] # Torn
      BY <2>1 DEF NativeAccepted, Loaded
    <3>2. /\ Profile = "FastLookup" \/ Distinct(Table("native.delta"))
          /\ NativeDelta.entries = Table("native.delta")
      BY <2>1, <3>1, NativeAlive, LoadedDeltaFinds DEF CoreInv
    <3>3. ASSUME NEW i \in Superseded(built.delta.entries)
          PROVE  i \in built.tombstones
      <4>1. i \in Ids /\ OnFile[i] = NoString /\ built.delta.entries[i] # NoString
        BY <3>1, <3>2, <3>3 DEF FilesFind, OutOfUse, Superseded
      <4> QED
        BY <1>1, <4>1 DEF ContentsOf
    <3> QED
      BY <3>1, <3>2, <3>3, LoadedDeltaFinds DEF CoreInv
  <2>2. CASE ~NativeAccepted
    <3>1. built.delta.entries = NoEntries /\ built.delta.index = NoIndex
      BY <2>2 DEF Loaded, EmptyDelta
    <3>2. \A v \in Values : built.delta.index[v] = kInvalidId
      BY <3>1 DEF NoIndex
    <3> QED
      BY <3>1, <3>2, EmptyTable, IdFacts, SegmentAssumption
  <2> QED
    BY <2>1, <2>2
<1>7. RemovesSucceed => \A i \in Ids : built.delta.entries[i] # NoString
                                       => i \notin built.tombstones
  <2>1. CASE NativeAccepted
    <3>1. /\ built.delta = NativeDelta /\ built.tombstones = disk["native.state"].tombstones
          /\ disk["native.delta"] # Torn
      BY <2>1 DEF NativeAccepted, Loaded
    <3>2. NativeDelta.entries = Table("native.delta")
      BY <3>1, EmptyTable DEF NativeDelta, EmptyDelta, Table, Whole
    <3> QED
      BY <2>1, <3>1, <3>2, NativeAlive
  <2>2. CASE ~NativeAccepted
    BY <2>2 DEF Loaded
  <2> QED
    BY <2>1, <2>2
<1> HIDE DEF built
<1>8. DeltaAlive'
  BY <1>0, <1>7 DEF DeltaAlive, RemovesSucceed
<1>9. DeltaSound' /\ DeltaNewest'
  BY <1>0, <1>6 DEF DeltaSound, DeltaNewest
<1>10. DeltaComplete'
  <2> SUFFICES ASSUME NEW v \in Values, NEW i \in Ids,
                      i \notin built.tombstones, built.delta.entries[i] = v
               PROVE  built.delta.index[v] = i
    BY <1>0 DEF DeltaComplete
  <2>1. PICK j \in Ids : j = built.delta.index[v] /\ i <= j /\ built.delta.entries[j] = v
    BY <1>6
  <2>2. ~(i < j)
    BY <1>6, <2>1, SegmentAssumption DEF Superseded
  <2> QED
    BY <2>1, <2>2, IdFacts
<1> QED
  BY <1>3, <1>5, <1>8, <1>9, <1>10 DEF MemoryFinds

\* Steps that leave the files alone.
LEMMA SameFiles ==
    ASSUME FilesFind, disk' = disk, \A i \in Ids : OutOfUse(i) => OutOfUse(i)'
    PROVE  FilesFind'
<1>1. OnFile' = OnFile /\ \A f : Table(f)' = Table(f)
  BY DEF OnFile, Table, Whole
<1>2. DeletedInHeader' = DeletedInHeader /\ DeletedInHeader \subseteq Ids
  BY DEF DeletedInHeader, Whole
<1>3. \A i \in Superseded(Table("native.delta")) : i \in Ids
  BY DEF Superseded
<1> QED
  BY <1>1, <1>2, <1>3 DEF FilesFind, RemovesSucceed

LEMMA MutateFound == ASSUME CoreInv, FoundInv, Mutate PROVE FoundInv'
<1>0. mode = "ready" /\ mode' = "ready" /\ disk' = disk
  BY DEF Mutate
<1>1. PICK n \in Nat : n = next_id
  BY IdFacts DEF CoreInv, MemoryInv, TypeOK
<1>2. /\ MemoryFinds'
      /\ \A i \in Ids : i < next_id /\ GetString(i) = NoString =>
            i < next_id' /\ GetString(i)' = NoString
  <2>1. CASE \E v \in Values : InsertNew(v)
    <3>1. PICK v \in Values : InsertNew(v)
      BY <2>1
    <3>2. \A i \in Ids : i < next_id => i # next_id /\ i < next_id'
      BY <1>1, <3>1, InsertEffect, IdFacts DEF CoreInv
    <3> QED
      BY <3>1, <3>2, InsertEffect, InsertFinds DEF CoreInv, FoundInv
  <2>2. CASE \E id \in Ids : EraseId(id)
    BY <2>2, EraseEffect, EraseFinds DEF CoreInv, FoundInv
  <2>3. CASE Compact
    <3>1. next_id' = next_id
      BY <2>3 DEF Compact, ReplaceBase
    <3> QED
      BY <2>3, <3>1, CompactFinds DEF CoreInv, FoundInv
  <2> QED
    BY <2>1, <2>2, <2>3 DEF Mutate
<1>3. \A i \in Ids : OutOfUse(i) => OutOfUse(i)'
  BY <1>0, <1>2 DEF OutOfUse, OnFile, Whole
<1> QED
  BY <1>0, <1>2, <1>3, SameFiles DEF FoundInv

LEMMA SameFinds == ASSUME MemoryFinds, UNCHANGED vars PROVE MemoryFinds'
<1>1. \A i \in Ids : GetString(i)' = GetString(i)
  BY DEF vars, GetString
<1> QED
  BY <1>1 DEF vars, MemoryFinds, BaseComplete, DeltaComplete, DeltaSound, DeltaNewest,
              DeltaAlive, RemovesSucceed, LiveStringsDistinct

\* Steps that leave both memory and files alone, or lose the memory.
LEMMA IdleFound ==
    ASSUME FoundInv, disk' = disk,
           \/ UNCHANGED vars /\ (mode' # "down" => mode # "down")
           \/ NothingInMemory /\ mode' = "down"
    PROVE  FoundInv'
<1>1. CASE UNCHANGED vars /\ (mode' # "down" => mode # "down")
  <2>1. next_id' = next_id /\ \A i \in Ids : GetString(i)' = GetString(i)
    BY <1>1 DEF vars, GetString
  <2>2. \A i \in Ids : OutOfUse(i) => OutOfUse(i)'
    BY <1>1, <2>1 DEF OutOfUse, OnFile, Whole
  <2> QED
    BY <1>1, <2>2, SameFiles, SameFinds DEF FoundInv
<1>2. CASE NothingInMemory /\ mode' = "down"
  <2>1. \A i \in Ids : OutOfUse(i) => OutOfUse(i)'
    BY <1>2 DEF OutOfUse, OnFile, Whole
  <2> QED
    BY <1>2, <2>1, SameFiles, EmptyFinds DEF FoundInv
<1> QED
  BY <1>1, <1>2

LEMMA LoadFound ==
    ASSUME CoreInv, AckInv, FoundInv, Profile = "FastLookup" \/ RemovesSucceed, Load
    PROVE  FoundInv'
<1> DEFINE logical == disk["logical"]
<1>0. /\ base' = Loaded.base /\ delta' = Loaded.delta /\ tombstones' = Loaded.tombstones
      /\ next_id' = logical.next_id /\ CanLoad /\ Whole("logical") /\ disk' = disk
  BY DEF Load, CanLoad
<1>1. ContentsOf(Loaded.base, Loaded.delta, Loaded.tombstones) = logical.contents
  BY <1>0, LoadedFacts DEF CoreInv
<1>2. \A i \in Ids : GetString(i)' = OnFile[i]
  BY <1>0, <1>1 DEF GetString, ContentsOf, OnFile
<1>3. \A i \in Ids : OutOfUse(i) => OutOfUse(i)'
  BY <1>0, <1>2 DEF OutOfUse, OnFile, Whole
<1> QED
  BY <1>0, <1>3, SameFiles, LoadFinds DEF FoundInv

\* A dictionary that fits one arena can be loaded whenever its logical file is whole.
LEMMA WholeCanLoad ==
    ASSUME CoreInv, FilesFind, ArenaHoldsAllStrings, Whole("logical")
    PROVE  CanLoad
<1> DEFINE items == disk["logical"].contents
           f == [i \in Present(items) |-> items[i]]
<1>1. items \in Entries /\ Distinct(items)
  BY DEF CoreInv, DiskInv, GoodFile, GoodData, GoodSnapshot, Snapshot, Data, Files, Whole,
         FilesFind, OnFile
<1> HIDE DEF items
<1>2. f \in Injection(Present(items), Values)
  BY <1>1 DEF Injection, IsInjective, Present, Entries, Distinct
<1>3. Cardinality(Present(items)) <= Cardinality(Values)
  BY <1>2, FS_Injection DEF ArenaHoldsAllStrings
<1>4. Cardinality(Present(items)) \in Nat /\ Cardinality(Values) \in Nat /\ ArenaCap \in Nat
  BY <1>1, PresentType, FS_CardinalityType, SegmentAssumption DEF ArenaHoldsAllStrings
<1>5. RebuildFits(items)
  BY <1>3, <1>4 DEF RebuildFits, ArenaHoldsAllStrings
<1>6. NoStringTwice(items)
  BY <1>1, PresentType DEF NoStringTwice, Distinct, Present
<1> QED
  BY <1>5, <1>6 DEF CanLoad, items

\* A new dictionary is started only over files without a usable logical snapshot.
LEMMA StartFound ==
    ASSUME CoreInv, FoundInv, ArenaHoldsAllStrings, StartEmpty
    PROVE  FoundInv'
<1>1. ~Whole("logical") /\ disk' = disk /\ UNCHANGED vars
  BY WholeCanLoad DEF StartEmpty, FoundInv
<1>2. \A i \in Ids : ~OutOfUse(i)
  BY <1>1 DEF OutOfUse
<1> QED
  BY <1>1, <1>2, SameFiles, SameFinds DEF FoundInv

\* What an operation can do to the files the invariant is about.
LEMMA OpEffect ==
    ASSUME CoreInv, AckInv, TodoInv, Busy
    PROVE  LET effect == Head(todo).effect
           IN  /\ "logical" \in DOMAIN effect => mode = "saving" /\ effect = Commit(Logical)
               /\ "native.base" \in DOMAIN effect =>
                    \/ effect["native.base"] \in {Absent, Torn}
                    \/ effect["native.base"].entries \in {base.entries, Contents}
               /\ "native.delta" \in DOMAIN effect =>
                    \/ effect["native.delta"] \in {Absent, Torn}
                    \/ /\ effect["native.delta"].entries = delta.entries
                       /\ disk["logical"] = Logical
               /\ "native.state" \in DOMAIN effect =>
                    \/ effect["native.state"] \in {Absent, Torn}
                    \/ /\ effect["native.state"].logical = Logical
                       /\ disk["logical"] = Logical
                       /\ mode = "saving" /\ Spares(todo, "native.delta")
<1> DEFINE effect == Head(todo).effect
<1>0. IsList(todo) /\ todo # <<>>
  BY TodoIsList DEF AckInv
<1>1. CASE mode = "saving"
  <2>1. Careful(Head(todo), Logical)
    BY <1>0, <1>1, RestOfList, Zenon DEF AckInv
  <2>2. /\ "native.base" \in DOMAIN effect =>
             \/ effect["native.base"] \in {Absent, Torn}
             \/ effect["native.base"].entries \in {base.entries, Contents}
        /\ "native.delta" \in DOMAIN effect =>
             \/ effect["native.delta"] \in {Absent, Torn}
             \/ effect["native.delta"].entries \in {delta.entries}
        /\ "native.state" \in DOMAIN effect =>
             \/ effect["native.state"] \in {Absent, Torn}
             \/ effect["native.state"].logical \in {Logical}
    BY <1>0, <1>1, RestCarries DEF TodoInv, Copied
  <2>3. ASSUME "native.delta" \in DOMAIN effect \/ "native.state" \in DOMAIN effect
        PROVE  disk["logical"] = Logical
    <3>1. Spares(todo, "logical")
      BY <1>0, <1>1, <2>3, RestFollows DEF TodoInv, NativeParts
    <3>2. ~ Commits(todo, Logical)
      BY <3>1 DEF Spares, Commits, Commit
    <3> QED
      BY <1>1, <3>2, Zenon DEF AckInv
  <2>4. "native.state" \in DOMAIN effect => Spares(todo, "native.delta")
    BY <1>0, <1>1, RestFollows DEF TodoInv
  <2> QED
    BY <1>1, <2>1, <2>2, <2>3, <2>4 DEF Careful
<1>2. CASE mode # "saving"
  <2>1. "logical" \notin DOMAIN effect
    BY <1>0, <1>2, RestOfList, Zenon DEF AckInv, Aside
  <2>2. \A f \in NativeParts : f \in DOMAIN effect => effect[f] \in {Absent, Torn}
    <3> SUFFICES ASSUME NEW f \in NativeParts, f \in DOMAIN effect PROVE effect[f] \in {Absent, Torn}
      OBVIOUS
    <3>1. PICK none : none = {}
      OBVIOUS
    <3>2. Carries(todo, f, none)
      BY <1>2, <3>1 DEF TodoInv
    <3>3. effect[f] \in {Absent, Torn} \/ Copied(f, effect[f]) \in none
      BY <1>0, <3>2, RestCarries, Zenon
    <3> QED
      BY <3>1, <3>3
  <2> QED
    BY <2>1, <2>2 DEF NativeParts
<1> QED
  BY <1>1, <1>2

\* What is left of an old delta when the header is written: a save that can rely on its
\* removals clears the file before it fills it.
Clearings == {Becomes("native.delta", Absent), Becomes("native.delta", Torn)}
Clears(ops) == \E n \in 1 .. Len(ops) : ops[n].effect \in Clearings

ClearInv ==
    mode = "saving" /\ RemovesSucceed =>
        \/ Clears(todo)
        \/ \A i \in Ids : Table("native.delta")[i] # NoString => GetString(i) # NoString

LEMMA ClearsConcat ==
    ASSUME NEW s, NEW t, IsList(s), IsList(t), Clears(s) \/ Clears(t)
    PROVE  Clears(s \o t)
<1>1. CASE Clears(s)
  BY <1>1, ConcatList DEF Clears
<1>2. CASE Clears(t)
  <2>1. PICK n \in 1 .. Len(t) : t[n].effect \in Clearings
    BY <1>2 DEF Clears
  <2>2. Len(s) + n \in 1 .. Len(s \o t) /\ (s \o t)[Len(s) + n] = t[n]
    BY ConcatRear
  <2> QED
    BY <2>1, <2>2, Zenon DEF Clears
<1> QED
  BY <1>1, <1>2

LEMMA SaveClears == ASSUME NEW b, NEW d, NEW t PROVE Clears(SaveOps(b, d, t))
<1> DEFINE tables == Write("native.base", [entries |-> b.entries, live |-> b.live], NativeFiles)
           delta_data == [entries |-> d.entries, live |-> d.live, used |-> d.used]
           filled == Write("native.delta", delta_data, NativeFiles)
           removed == <<Remove("native.delta")>>
           changes == IF d.live # 0 THEN filled ELSE removed
           header == Write("native.state", [logical |-> Logical, tombstones |-> t], NativeFiles)
<1>1. IsList(filled) /\ Clears(filled)
  <2> DEFINE o == Op(Becomes("native.delta", Torn), TRUE, NativeFiles)
             p == Op(Becomes("native.delta", delta_data), TRUE, NativeFiles)
  <2>1. filled = <<o, p>> /\ o.effect \in Clearings
    BY DEF Write, Op, Clearings
  <2> HIDE DEF o, p, filled
  <2>2. IsList(filled) /\ Len(filled) = 2 /\ filled[1] = o
    BY <2>1, PairList
  <2>3. 1 \in 1 .. Len(filled)
    BY <2>2
  <2> QED
    BY <2>1, <2>2, <2>3 DEF Clears
<1>2. IsList(removed) /\ Clears(removed)
  <2> DEFINE r == Remove("native.delta")
  <2>1. r.effect \in Clearings
    BY DEF Remove, Op, Clearings
  <2> HIDE DEF r
  <2>2. IsList(<<r>>) /\ Len(<<r>>) = 1 /\ <<r>>[1] = r
    BY PairList
  <2>3. 1 \in 1 .. Len(<<r>>)
    BY <2>2
  <2> QED
    BY <2>1, <2>2, <2>3 DEF Clears, r
<1>3. IsList(changes) /\ Clears(changes)
  BY <1>1, <1>2
<1>4. IsList(tables) /\ IsList(header)
  BY WriteSets
<1>5. WriteNative(b, d, t) = (tables \o changes) \o header
  <2>1. WriteNative(b, d, t) = tables \o changes \o header
    BY DEF WriteNative
  <2> QED
    BY <2>1
<1> HIDE DEF tables, changes, header
<1>6. IsList(WriteNative(b, d, t)) /\ Clears(WriteNative(b, d, t))
  BY <1>3, <1>4, <1>5, ConcatList, ClearsConcat
<1> QED
  BY <1>6, SaveParts, FrontEnds, ClearsConcat

LEMMA RestClears ==
    ASSUME NEW s, IsList(s), s # <<>>, Clears(s)
    PROVE  Head(s).effect \in Clearings \/ Clears(Tail(s))
BY HeadAndTail DEF Clears

LEMMA StepClear ==
    ClearInv /\ FoundInv /\ TodoInv /\ CoreInv /\ AckInv /\ [FilesNext]_allVars => ClearInv'
<1> SUFFICES ASSUME ClearInv, FoundInv, TodoInv, CoreInv, AckInv, [FilesNext]_allVars,
                    mode' = "saving", RemovesSucceed
             PROVE  \/ Clears(todo')
                    \/ \A i \in Ids : Table("native.delta")'[i] # NoString
                                      => GetString(i)' # NoString
  BY DEF ClearInv, RemovesSucceed
<1>1. CASE UNCHANGED allVars
  <2>1. /\ mode = "saving" /\ todo' = todo /\ disk' = disk /\ UNCHANGED vars
    BY <1>1 DEF allVars, ioVars
  <2>2. Table("native.delta")' = Table("native.delta")
        /\ \A i \in Ids : GetString(i)' = GetString(i)
    BY <2>1 DEF Table, Whole, GetString, vars
  <2> QED
    BY <2>1, <2>2 DEF ClearInv
<1>2. CASE Save \/ SaveCompacted
  <2>1. \E b, d, t : BeginSave(b, d, t)
    BY <1>2 DEF Save, SaveCompacted
  <2> QED
    BY <2>1, SaveClears DEF BeginSave
<1>3. CASE FileOpDone \/ WriteLost
  <2> DEFINE effect == Head(todo).effect
  <2>1. /\ mode = "saving" /\ todo # <<>> /\ IsList(todo) /\ todo' = Tail(todo) /\ UNCHANGED vars
    BY <1>3, TodoIsList DEF FileOpDone, WriteLost, Advance, Finished, AckInv
  <2>2. \A i \in Ids : GetString(i)' = GetString(i)
    BY <2>1 DEF vars, GetString
  <2>3. CASE Clears(Tail(todo))
    BY <2>1, <2>3
  <2>4. CASE effect \in Clearings
    <3>1. FileOpDone
      BY <1>3, <2>4 DEF WriteLost, Clearings, Becomes
    <3>2. /\ DOMAIN effect = {"native.delta"} /\ effect["native.delta"] \in {Absent, Torn}
      BY <2>4 DEF Clearings, Becomes
    <3>3. disk'["native.delta"] = effect["native.delta"]
      BY <3>1, <3>2 DEF FileOpDone, Files
    <3>4. Table("native.delta")' = NoEntries
      BY <3>2, <3>3 DEF Table, Whole
    <3> QED
      BY <3>4, EmptyTable
  <2>5. CASE ~Clears(todo)
    <3>1. \A i \in Ids : Table("native.delta")[i] # NoString => GetString(i) # NoString
      BY <2>1, <2>5 DEF ClearInv
    <3>2. \A i \in Ids : delta.entries[i] # NoString => GetString(i) # NoString
      BY DEF FoundInv, MemoryFinds, DeltaAlive, GetString
    <3>3. \/ disk'["native.delta"] = disk["native.delta"]
          \/ disk'["native.delta"] \in {Absent, Torn}
          \/ disk'["native.delta"].entries = delta.entries
      <4>1. "native.delta" \in DOMAIN effect =>
               effect["native.delta"] \in {Absent, Torn}
               \/ effect["native.delta"].entries = delta.entries
        BY <1>3, OpEffect DEF FileOpDone, WriteLost
      <4>2. \/ disk'["native.delta"] = disk["native.delta"]
            \/ "native.delta" \in DOMAIN effect /\ disk'["native.delta"] = effect["native.delta"]
        BY <1>3 DEF FileOpDone, WriteLost, Files
      <4> QED
        BY <4>1, <4>2
    <3>4. \/ Table("native.delta")' = Table("native.delta")
          \/ Table("native.delta")' = NoEntries
          \/ Table("native.delta")' = delta.entries
      BY <3>3 DEF Table, Whole
    <3> QED
      BY <2>2, <3>1, <3>2, <3>4, EmptyTable
  <2> QED
    BY <2>1, <2>3, <2>4, <2>5, RestClears
<1>4. ~RemoveLost
  BY DEF RemoveLost, Fault, RemovesSucceed
<1>5. CASE Mutate \/ Load \/ LoadThrows \/ StartEmpty \/ OpThrows \/ Crash
  <2>1. mode' # "saving"
    BY <1>5 DEF Mutate, Load, LoadThrows, StartEmpty, OpThrows, Crash, Busy
  <2> QED
    BY <2>1
<1> QED
  BY <1>1, <1>2, <1>3, <1>4, <1>5 DEF FilesNext

LEMMA RunFound ==
    ASSUME CoreInv, AckInv, TodoInv, FoundInv, ClearInv, FileOpDone
    PROVE  FoundInv'
<1> DEFINE effect == Head(todo).effect
<1>0. /\ Busy /\ UNCHANGED vars /\ mode # "down" /\ mode' # "down"
      /\ disk' = [f \in Files |-> IF f \in DOMAIN effect THEN effect[f] ELSE disk[f]]
  BY DEF FileOpDone, Advance, Finished, Busy
<1>1. /\ "logical" \in DOMAIN effect => effect = Commit(Logical)
      /\ "native.base" \in DOMAIN effect =>
           \/ effect["native.base"] \in {Absent, Torn}
           \/ effect["native.base"].entries \in {base.entries, Contents}
      /\ "native.delta" \in DOMAIN effect =>
           \/ effect["native.delta"] \in {Absent, Torn}
           \/ effect["native.delta"].entries = delta.entries /\ disk["logical"] = Logical
      /\ "native.state" \in DOMAIN effect =>
           \/ effect["native.state"] \in {Absent, Torn}
           \/ /\ effect["native.state"].logical = Logical /\ disk["logical"] = Logical
              /\ mode = "saving" /\ Spares(todo, "native.delta")
  BY <1>0, OpEffect
<1> HIDE DEF effect
<1>2. /\ \A f \in Files : f \in DOMAIN effect => disk'[f] = effect[f]
      /\ \A f \in Files : f \notin DOMAIN effect => disk'[f] = disk[f]
  BY <1>0
<1>3. next_id' = next_id /\ \A i \in Ids : GetString(i)' = GetString(i)
  BY <1>0 DEF vars, GetString
<1>4. MemoryFinds'
  BY <1>0, SameFinds DEF FoundInv
<1>5. Distinct(base.entries) /\ Distinct(Contents)
  <2>1. TypeOK /\ base.entries \in Entries
    BY DEF CoreInv, MemoryInv, TypeOK, BaseSegment
  <2> QED
    BY <2>1, ContentsFacts
    DEF FoundInv, MemoryFinds, BaseComplete, LiveStringsDistinct, Distinct, Entries
<1>6. Distinct(Table("native.base"))'
  <2>1. CASE "native.base" \in DOMAIN effect
    BY <1>1, <1>2, <1>5, <2>1, EmptyTable DEF Table, Whole, Files, Distinct
  <2>2. CASE "native.base" \notin DOMAIN effect
    BY <1>2, <2>2 DEF Table, Whole, Files, FoundInv, FilesFind, Distinct
  <2> QED
    BY <2>1, <2>2
<1>7. Logical \notin {Absent, Torn}
  <2>1. Logical \in Data("logical")
    BY LogicalIsGood DEF CoreInv, GoodSnapshot, Data
  <2> QED
    BY <2>1, FilesAssumption DEF Files
<1>8. ASSUME "logical" \in DOMAIN effect
      PROVE  OnFile' = Contents /\ Whole("logical")' /\ disk'["logical"] = Logical
  BY <1>1, <1>2, <1>7, <1>8 DEF OnFile, Whole, Commit, Logical, Files
<1>9. ASSUME "logical" \notin DOMAIN effect
      PROVE  OnFile' = OnFile /\ (Whole("logical")' <=> Whole("logical"))
             /\ disk'["logical"] = disk["logical"]
  BY <1>2, <1>9 DEF OnFile, Whole, Files
<1>10. Distinct(OnFile)'
  BY <1>5, <1>8, <1>9 DEF Distinct, FoundInv, FilesFind
<1>11. \A i \in Ids : OutOfUse(i) => OutOfUse(i)'
  <2> SUFFICES ASSUME NEW i \in Ids, OutOfUse(i) PROVE OutOfUse(i)'
    OBVIOUS
  <2>1. i < next_id /\ GetString(i) = NoString
    BY <1>0 DEF OutOfUse
  <2>2. CASE "logical" \in DOMAIN effect
    BY <1>3, <1>8, <2>1, <2>2 DEF OutOfUse, Logical, Contents
  <2>3. CASE "logical" \notin DOMAIN effect
    BY <1>3, <1>9, <2>1, <2>3 DEF OutOfUse
  <2> QED
    BY <2>2, <2>3
<1>12. /\ "native.delta" \notin DOMAIN effect => Table("native.delta")' = Table("native.delta")
       /\ "native.delta" \in DOMAIN effect =>
            \/ Table("native.delta")' = NoEntries
            \/ Table("native.delta")' = delta.entries /\ disk["logical"] = Logical
  BY <1>1, <1>2 DEF Table, Whole, Files
<1>13. \A i \in Superseded(Table("native.delta")') : OutOfUse(i)'
  <2> SUFFICES ASSUME NEW i \in Superseded(Table("native.delta")') PROVE OutOfUse(i)'
    OBVIOUS
  <2>0. i \in Ids
    BY DEF Superseded
  <2>1. CASE "native.delta" \notin DOMAIN effect
    BY <1>11, <1>12, <2>0, <2>1 DEF FoundInv, FilesFind
  <2>2. CASE "native.delta" \in DOMAIN effect
    <3>1. Table("native.delta")' = delta.entries /\ disk["logical"] = Logical
      BY <1>12, <2>2, EmptyTable
    <3>2. i < next_id /\ GetString(i) = NoString
      BY <2>0, <3>1 DEF FoundInv, MemoryFinds, DeltaNewest, GetString, CoreInv, MemoryInv,
                        UsedIdsBelowNext
    <3>3. OutOfUse(i)
      BY <1>7, <2>0, <3>1, <3>2 DEF OutOfUse, OnFile, Whole, Logical, Contents
    <3> QED
      BY <1>11, <2>0, <3>3
  <2> QED
    BY <2>1, <2>2
<1>14. \/ DeletedInHeader' = DeletedInHeader \/ DeletedInHeader' = {}
       \/ /\ disk["logical"] = Logical /\ mode = "saving" /\ Spares(todo, "native.delta")
          /\ \A i \in DeletedInHeader' : i < next_id /\ GetString(i) = NoString
  <2>1. CASE "native.state" \notin DOMAIN effect
    BY <1>2, <2>1 DEF DeletedInHeader, Whole, Files
  <2>2. CASE "native.state" \in DOMAIN effect
    BY <1>1, <1>2, <2>2 DEF DeletedInHeader, Whole, Files, Logical, Contents
  <2> QED
    BY <2>1, <2>2
<1>15. DeletedInHeader' \subseteq Ids /\ DeletedInHeader \subseteq Ids
  BY DEF DeletedInHeader
<1>16. \A i \in DeletedInHeader' : OutOfUse(i)'
  <2>1. CASE DeletedInHeader' \subseteq DeletedInHeader
    BY <1>11, <1>15, <2>1 DEF FoundInv, FilesFind
  <2>2. CASE disk["logical"] = Logical
             /\ \A i \in DeletedInHeader' : i < next_id /\ GetString(i) = NoString
    <3>1. \A i \in DeletedInHeader' : OutOfUse(i)
      BY <1>7, <1>15, <2>2 DEF OutOfUse, OnFile, Whole, Logical, Contents
    <3> QED
      BY <1>11, <1>15, <3>1
  <2> QED
    BY <1>14, <2>1, <2>2
<1>17. RemovesSucceed => \A i \in DeletedInHeader' : Table("native.delta")'[i] = NoString
  <2> SUFFICES ASSUME RemovesSucceed, NEW i \in DeletedInHeader'
               PROVE  Table("native.delta")'[i] = NoString
    OBVIOUS
  <2>1. i \in Ids /\ GetString(i) = NoString
    BY <1>0, <1>3, <1>15, <1>16 DEF OutOfUse
  <2>2. CASE "native.delta" \in DOMAIN effect
    <3>1. Table("native.delta")' \in {NoEntries, delta.entries}
      BY <1>12, <2>2
    <3>2. delta.entries[i] = NoString
      BY <2>1 DEF FoundInv, MemoryFinds, DeltaAlive, GetString
    <3> QED
      BY <2>1, <3>1, <3>2, EmptyTable
  <2>3. CASE "native.delta" \notin DOMAIN effect /\ DeletedInHeader' \subseteq DeletedInHeader
    BY <1>12, <2>3 DEF FoundInv, FilesFind
  <2>4. CASE "native.delta" \notin DOMAIN effect /\ mode = "saving"
             /\ Spares(todo, "native.delta")
    <3>1. ~Clears(todo)
      BY <2>4 DEF Clears, Clearings, Spares, Becomes
    <3>2. Table("native.delta")[i] = NoString
      BY <2>1, <2>4, <3>1 DEF ClearInv
    <3> QED
      BY <1>12, <2>4, <3>2
  <2> QED
    BY <1>14, <2>2, <2>3, <2>4
<1> QED
  BY <1>4, <1>6, <1>10, <1>13, <1>16, <1>17 DEF FoundInv, FilesFind, RemovesSucceed

LEMMA InitFound == FilesInit => FoundInv
<1> SUFFICES ASSUME FilesInit PROVE FoundInv
  OBVIOUS
<1>1. IInv /\ disk = [f \in Files |-> Absent] /\ delta = EmptyDelta
  BY InitIInv DEF FilesInit, Init
<1>2. Table("native.base") = NoEntries /\ Table("native.delta") = NoEntries /\ OnFile = NoEntries
  BY <1>1 DEF Table, OnFile, Whole, Files
<1>3. BaseComplete /\ DeltaComplete /\ DeltaSound /\ LiveStringsDistinct
  <2>1. \A i \in Ids : base.entries[i] = NoString
    BY DEF FilesInit, Init, EmptyBase, NoEntries
  <2> QED
    BY <1>1, <2>1, SegmentAssumption
    DEF IInv, BaseComplete, DeltaComplete, DeltaSound, DeltaIndexExact
<1>4. DeltaNewest /\ DeltaAlive
  BY <1>1, EmptyTable DEF DeltaNewest, DeltaAlive, EmptyDelta
<1>5. DeletedInHeader = {}
  BY <1>1 DEF DeletedInHeader, Whole, Files
<1> QED
  BY <1>2, <1>3, <1>4, <1>5, EmptyTable DEF FoundInv, MemoryFinds, FilesFind

LEMMA StepFound ==
    ASSUME ArenaHoldsAllStrings, Profile = "FastLookup" \/ RemovesSucceed
    PROVE  FoundInv /\ ClearInv /\ TodoInv /\ CoreInv /\ AckInv /\ [FilesNext]_allVars => FoundInv'
<1> SUFFICES ASSUME FoundInv, ClearInv, TodoInv, CoreInv, AckInv, [FilesNext]_allVars PROVE FoundInv'
  OBVIOUS
<1>1. CASE UNCHANGED allVars
  <2>1. UNCHANGED vars /\ disk' = disk /\ mode' = mode
    BY <1>1 DEF allVars, ioVars, vars
  <2> QED
    BY <2>1, IdleFound
<1>2. CASE Save \/ SaveCompacted
  <2>1. UNCHANGED vars /\ disk' = disk /\ mode # "down"
    BY <1>2 DEF Save, SaveCompacted, BeginSave
  <2> QED
    BY <2>1, IdleFound
<1>3. CASE WriteLost \/ RemoveLost
  <2>1. UNCHANGED vars /\ disk' = disk /\ mode # "down"
    BY <1>3 DEF WriteLost, RemoveLost, Advance, Busy
  <2> QED
    BY <2>1, IdleFound
<1>4. CASE OpThrows
  <2>1. disk' = disk /\ mode # "down"
    BY <1>4 DEF OpThrows, Busy
  <2>2. UNCHANGED vars \/ (NothingInMemory /\ mode' = "down")
    BY <1>4 DEF OpThrows
  <2> QED
    BY <2>1, <2>2, IdleFound
<1>5. CASE Crash \/ LoadThrows
  <2>1. \/ UNCHANGED vars /\ mode' = mode
        \/ NothingInMemory /\ mode' = "down"
    BY <1>5 DEF Crash, LoadThrows
  <2>2. disk' = disk
    BY <1>5 DEF Crash, LoadThrows
  <2> QED
    BY <2>1, <2>2, IdleFound
<1> QED
  BY <1>1, <1>2, <1>3, <1>4, <1>5, MutateFound, LoadFound, RunFound, StartFound DEF FilesNext

\* In a dictionary whose strings fit one arena every live string is found under its id,
\* whatever stale, torn or missing sidecars its segments were loaded from, as long as
\* the delta's index is the standard map or no removal of a file fails unnoticed.
\* Without the first premise a dictionary that outgrew the arena can be saved but not
\* loaded; the empty one then started in its place counts its ids from 0 over the
\* sidecars of the old one.  Without the second a revived entry takes the slot of the
\* live one in the hat-trie or array-hash index of a loaded delta.
THEOREM LiveStringsFound ==
    ArenaHoldsAllStrings /\ (Profile = "FastLookup" \/ "lost_remove" \notin Faults) =>
        (FilesSpec => []LiveStringsAreFound)
<1> SUFFICES ASSUME ArenaHoldsAllStrings, Profile = "FastLookup" \/ RemovesSucceed
             PROVE  FilesSpec => []LiveStringsAreFound
  BY DEF RemovesSucceed
<1>1. CoreInv /\ FoundInv => LiveStringsAreFound
  BY Finds DEF CoreInv, MemoryInv, FoundInv, LiveStringsAreFound
<1>2. FoundInv /\ ClearInv /\ TodoInv /\ CoreInv /\ AckInv /\ [FilesNext]_allVars => FoundInv'
  BY StepFound
<1>3. FilesInit => ClearInv
  BY DEF FilesInit, ClearInv
<1> QED
  BY <1>1, <1>2, <1>3, InitFound, InitTodo, StepTodo, StepClear, CoreHolds, PTL DEF FilesSpec
=============================================================================

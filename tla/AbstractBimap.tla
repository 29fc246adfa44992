---------------------------- MODULE AbstractBimap ----------------------------
(***************************************************************************)
(* What a StringBimap promises its caller, with no segments, tombstones or *)
(* indexes: a counter of the ids given out and a one-to-one map from the   *)
(* live ids to their strings.  An id is given out once; erasing a string   *)
(* leaves a hole for ever.  reply is what the last call answered.          *)
(***************************************************************************)
EXTENDS Integers

CONSTANTS Values, NoString, kInvalidId

VARIABLES next_id, live, reply

absVars == <<next_id, live, reply>>

Ids == 0 .. kInvalidId - 1
Reply(kind, id) == [kind |-> kind, id |-> id]

Holds(v) == \E i \in Ids : live[i] = v

Init ==
    /\ next_id = 0
    /\ live = [i \in Ids |-> NoString]
    /\ reply = Reply("none", kInvalidId)

\* A live string answers its own id and changes nothing.
InsertKnown(v) ==
    /\ \E i \in Ids : live[i] = v /\ reply' = Reply("id", i)
    /\ UNCHANGED <<next_id, live>>

\* A new string takes the next id.
InsertNew(v) ==
    /\ ~Holds(v)
    /\ next_id < kInvalidId
    /\ live' = [live EXCEPT ![next_id] = v]
    /\ next_id' = next_id + 1
    /\ reply' = Reply("id", next_id)

\* A failed insertion may use up an id, which is then a hole.
InsertFails(v) ==
    /\ ~Holds(v)
    /\ \/ next_id' = next_id + 1 /\ next_id < kInvalidId
          /\ reply' = Reply("length_error", kInvalidId)
       \/ next_id' = next_id /\ next_id = kInvalidId
          /\ reply' = Reply("overflow", kInvalidId)
    /\ UNCHANGED live

Erase(i) ==
    /\ i \in Ids /\ live[i] # NoString
    /\ live' = [live EXCEPT ![i] = NoString]
    /\ reply' = Reply("erased", i)
    /\ UNCHANGED next_id

\* Refused calls, compaction and reloading leave the contents alone.
Maintain ==
    /\ reply' \in [kind : {"ignored", "absent", "compacted", "kept", "loaded",
                           "length_error"},
                   id : {kInvalidId}]
    /\ UNCHANGED <<next_id, live>>

Next ==
    \/ \E v \in Values : InsertKnown(v) \/ InsertNew(v) \/ InsertFails(v)
    \/ \E i \in Ids : Erase(i)
    \/ Maintain

Spec == Init /\ [][Next]_absVars
=============================================================================

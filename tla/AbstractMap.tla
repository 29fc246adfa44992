----------------------------- MODULE AbstractMap -----------------------------
(***************************************************************************)
(* What a caller of tsl::htrie_map or tsl::array_map relies on: a map from *)
(* strings to values, with the answers its calls give.                     *)
(***************************************************************************)
EXTENDS Integers, Sequences, SequencesExt

CONSTANTS Keys, Vals, NoValue

VARIABLES
    contents,   \* what each key maps to
    answer      \* the answer of the last call

vars == <<contents, answer>>

Init == contents = [k \in Keys |-> NoValue] /\ answer = "none"

Mapped(k) == contents[k] # NoValue

\* insert keeps the value of a key that is there.
Insert(k, v) == answer' = "inserted" /\ ~Mapped(k) /\ contents' = [contents EXCEPT ![k] = v]

Assign(k, v) == answer' = "none" /\ Mapped(k) /\ contents' = [contents EXCEPT ![k] = v]

\* erase takes a key, erase_prefix all keys with a prefix.
Erase(ks) ==
    /\ \E k \in ks : Mapped(k)
    /\ answer' = "erased"
    /\ contents' = [k \in Keys |-> IF k \in ks THEN NoValue ELSE contents[k]]

WithPrefix(prefix) == {k \in Keys : IsPrefix(prefix, k)}
EraseArgs == {{k} : k \in Keys} \cup {WithPrefix(p) : p \in UNION {Prefixes(k) : k \in Keys}}

Clear == answer' = "none" /\ contents' = [k \in Keys |-> NoValue]

\* Refusals, insertion of a key that is there, erasure of nothing, and everything
\* that only reorganises the map.
Keep == answer' \in {"none", "nothing", "length_error"} /\ contents' = contents

Next ==
    \/ \E k \in Keys, v \in Vals : Insert(k, v) \/ Assign(k, v)
    \/ \E ks \in EraseArgs : Erase(ks)
    \/ Clear
    \/ Keep

Spec == Init /\ [][Next]_vars
=============================================================================

----------------------------- MODULE MCBimapFiles -----------------------------
(* A small BimapFiles for TLC: two strings, three ids. *)
EXTENDS BimapFiles

CONSTANTS a, b

MCValues == {a, b}
MCOneValue == {a}
MCKeyNumber ==
    [keys \in SUBSET MCValues |-> CHOOSE n \in Bijection(keys, 1 .. Cardinality(keys)) : TRUE]
MCPolicies == {}
=============================================================================

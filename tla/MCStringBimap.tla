---------------------------- MODULE MCStringBimap ----------------------------
(* A small StringBimap for TLC: a handful of strings and ids, two policies. *)
EXTENDS StringBimap

CONSTANTS a, b, c

MCValues == {a, b, c}

\* Triggers on a delta of two ids or on one tombstone, and on delta bytes alone.
MCPolicies ==
    {[min_delta_ids |-> 2, max_delta_percent |-> 50, min_tombstone_ids |-> 1,
      max_tombstone_percent |-> 50, min_delta_bytes |-> 9],
     [min_delta_ids |-> 1, max_delta_percent |-> 101, min_tombstone_ids |-> 9,
      max_tombstone_percent |-> 0, min_delta_bytes |-> 3]}
=============================================================================

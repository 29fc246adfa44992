----------------------------- MODULE MCPthashBimap -----------------------------
(* A small PthashBimap for TLC: three strings, four seeds, two lambdas. *)
EXTENDS PthashBimap

CONSTANTS a, b, c

MCValues == {a, b, c}
Rank(v) == CASE v = a -> 0 [] v = b -> 1 [] v = c -> 2

\* Keys are numbered by rank and rotated by seed and lambda; every third seed
\* fails; a stranger lands on its rank or beyond the last id.
MCPhf ==
    [s \in Seeds, l \in Lambdas, keys \in SUBSET MCValues |->
        IF (s + l + Cardinality(keys)) % 3 = 0 THEN NoFunction
        ELSE [v \in MCValues |->
                IF v \in keys
                THEN (Cardinality({w \in keys : Rank(w) < Rank(v)}) + s + l) % Cardinality(keys)
                ELSE (Rank(v) + s) % (Cardinality(keys) + 1)]]

MCOptions ==
    {[initial_seed |-> 0, max_seed_attempts |-> 1, lambda |-> DefaultLambda],
     [initial_seed |-> 1, max_seed_attempts |-> 3, lambda |-> DefaultLambda],
     [initial_seed |-> 0, max_seed_attempts |-> 2, lambda |-> DefaultLambda + 1]}
=============================================================================

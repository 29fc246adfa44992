------------------------------ MODULE MCHatTrie ------------------------------
(***************************************************************************)
(* The instance of HatTrie that TLC checks: a binary alphabet and keys     *)
(* that share prefixes, so that a burst can leave its entries in one node. *)
(***************************************************************************)
EXTENDS HatTrie

MCKeys == {<<1>>, <<1, 2>>, <<1, 1, 1>>, <<2>>, <<1, 1, 1, 1>>}

CONSTANTS v1, v2

\* Keys that move together have different values; one key gets both.
MCValsFor == [k \in MCKeys |-> IF k = <<2>> THEN {v1, v2}
                               ELSE IF Last(k) = 1 THEN {v1} ELSE {v2}]

MCSuffixes == UNION {[1 .. n -> Chars] : n \in 0 .. 4}

\* Base-3 numbers: distinct, colliding once taken modulo a power of two.
MCHash == [s \in MCSuffixes |-> FoldLeft(LAMBDA h, c : 3 * h + c, 0, s)]
=============================================================================

---------------------------- MODULE MCStaticTrie ----------------------------
(***************************************************************************)
(* The instance of StaticTrie that TLC checks: four characters in blocks   *)
(* of four units instead of 256 in 256, digits of two bits instead of      *)
(* eight, and every set of up to MaxKeys keys out of a few that share      *)
(* prefixes and endings, with and without NUL.                             *)
(***************************************************************************)
EXTENDS StaticTrie, Bitwise

CONSTANT MaxKeys

MCWords == {<<1>>, <<1, 2>>, <<1, 2, 3>>, <<1, 3>>, <<2>>, <<2, 3>>, <<2, 1, 3>>, <<3, 1>>, <<3, 3, 1, 2>>, <<1, 0>>, <<3, 0, 2>>}

MCKeySets == {MCWords, MCWords \ {<<1, 0>>, <<3, 0, 2>>}} \cup UNION {kSubset(n, MCWords) : n \in 1 .. MaxKeys}

MCKeyLists == {InOrder(ks, LexLess) : ks \in MCKeySets}

MCXorLow == [p \in Chars \X Chars |-> p[1] ^^ p[2]]

MCProbes == UNION {[1 .. n -> Chars] : n \in 0 .. 3}
=============================================================================

----------------------------- MODULE TailVector -----------------------------
(***************************************************************************)
(* xcdat::tail_vector, the remaining suffixes of the keys that left the    *)
(* double array early.  The suffixes are stored one after another, a       *)
(* suffix of the one stored before it only points into that one.  The end  *)
(* of a string is a NUL character or, when keys contain NUL (bin mode), a  *)
(* flag on its last character.  Position 0 holds a dummy NUL and stands    *)
(* for the empty suffix.                                                   *)
(***************************************************************************)
EXTENDS Integers, Sequences, SequencesExt

NUL == 0

At(tail, tpos) == tail.chars[tpos + 1]

-----------------------------------------------------------------------------
(* builder::complete: suffixes is a set of [str, npos], str not empty. *)

LexLess(a, b) ==
    \E i \in 1 .. Len(b) :
        /\ i <= Len(a) + 1
        /\ \A j \in 1 .. i - 1 : a[j] = b[j]
        /\ i <= Len(a) => a[i] < b[i]

\* The elements of S in the strict order Less.
InOrder(S, Less(_, _)) ==
    [i \in 1 .. Cardinality(S) |-> CHOOSE x \in S : Cardinality({y \in S : Less(y, x)}) = i - 1]

\* By the reversed strings, from the largest down; equal strings share one copy
\* in whatever order the sort leaves them.
TailBefore(s, t) ==
    \/ LexLess(Reverse(t.str), Reverse(s.str))
    \/ s.str = t.str /\ s.npos < t.npos

InTailOrder(suffixes) == InOrder(suffixes, TailBefore)

EmptyTail(bin) ==
    [chars |-> <<NUL>>, ends |-> {}, bin |-> bin, prev |-> <<>>, pos |-> 0, tpos |-> <<>>]

\* Mutant: strings that only end alike are shared.
AddSuffixLoose(tail, s) ==
    LET loose == tail.prev # <<>> /\ Last(s.str) = Last(tail.prev) /\ Len(s.str) <= Len(tail.prev)
        pos   == IF loose THEN tail.pos + Len(tail.prev) - Len(s.str) ELSE Len(tail.chars)
        chars == IF loose THEN tail.chars
                 ELSE tail.chars \o s.str \o (IF tail.bin THEN <<>> ELSE <<NUL>>)
    IN  [tail EXCEPT !.chars = chars,
                     !.ends  = IF loose \/ ~tail.bin THEN @ ELSE @ \cup {Len(chars) - 1},
                     !.prev  = s.str,
                     !.pos   = pos,
                     !.tpos  = (s.npos :> pos) @@ @]

\* One round of the loop: share the last characters of the string before, or append.
AddSuffix(tail, s) ==
    LET shared == tail.prev # <<>> /\ IsSuffix(s.str, tail.prev)
        pos    == IF shared THEN tail.pos + Len(tail.prev) - Len(s.str) ELSE Len(tail.chars)
        chars  == IF shared THEN tail.chars
                  ELSE tail.chars \o s.str \o (IF tail.bin THEN <<>> ELSE <<NUL>>)
    IN  [chars |-> chars,
         ends  |-> IF shared \/ ~tail.bin THEN tail.ends ELSE tail.ends \cup {Len(chars) - 1},
         bin   |-> tail.bin,
         prev  |-> s.str,
         pos   |-> pos,
         tpos  |-> [i \in DOMAIN tail.tpos \cup {s.npos} |-> IF i = s.npos THEN pos ELSE tail.tpos[i]]]

CompleteTail(suffixes, bin) ==
    LET order == InTailOrder(suffixes)
        Done[n \in 0 .. Len(order)] ==
            IF n = 0 THEN EmptyTail(bin) ELSE AddSuffix(Done[n - 1], order[n])
    IN  Done[Len(order)]

-----------------------------------------------------------------------------
(* Queries at a position of the tail. *)

\* The positions read from tpos on: up to the first end flag, or before the first
\* NUL.  Without an end flag after tpos the reads run off the vector.
Run(tail, tpos) ==
    LET stops == IF tail.bin THEN {e \in tail.ends : e >= tpos}
                 ELSE {p \in tpos .. Len(tail.chars) - 1 : At(tail, p) = NUL}
    IN  IF stops = {} THEN <<>>
        ELSE SubSeq(tail.chars, tpos + 1, IF tail.bin THEN Min(stops) + 1 ELSE Min(stops))

Match(tail, key, tpos) == IF key = <<>> THEN tpos = 0 ELSE key = Run(tail, tpos)

\* The characters agree as far as both strings go.
PrefixMatch(tail, key, tpos) ==
    \/ tpos = 0
    \/ /\ key # <<>>
       /\ LET run == Run(tail, tpos) IN IsPrefix(run, key) \/ IsPrefix(key, run)

DecodeTail(tail, tpos) == IF tpos = 0 THEN <<>> ELSE Run(tail, tpos)
=============================================================================

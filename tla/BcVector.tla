------------------------------ MODULE BcVector ------------------------------
(***************************************************************************)
(* xcdat::bc_vector_8, the built double array: BASE and CHECK of each unit *)
(* as an offset to the unit (exclusive or), cut into digits.  Level 0 has  *)
(* the low digit of every value, each further level the next digit of the  *)
(* values that have one, found by rank over the flags of the level below.  *)
(* The BASE of a leaf is a position of the tail: its low digit is in level *)
(* 0 and the rest in links, one per leaf.                                  *)
(***************************************************************************)
EXTENDS Integers, FiniteSetsExt

CONSTANTS
    BlockSize,     \* the values of a digit: 256
    XorLow         \* the exclusive or of two digits

\* bit_vector::rank: the ones before position i.
Rank(bits, i) == Cardinality({j \in 0 .. i - 1 : bits[j]})

\* The exclusive or of two numbers of n digits.
XorDigits(n, a, b) ==
    LET Digits[d \in 0 .. n] ==
            IF d = 0 THEN [p \in Nat \X Nat |-> 0]
            ELSE [p \in Nat \X Nat |->
                     IF p = <<0, 0>> THEN 0
                     ELSE XorLow[<<p[1] % BlockSize, p[2] % BlockSize>>]
                          + BlockSize * Digits[d - 1][<<p[1] \div BlockSize, p[2] \div BlockSize>>]]
    IN  Digits[n][<<a, b>>]

\* The numbers of S from the smallest up.
Rising(S) == [r \in 0 .. Cardinality(S) - 1 |-> CHOOSE x \in S : Cardinality({y \in S : y < x}) = r]

HasNextDigit(x) == x >= BlockSize

\* What is left of the values that have a next digit.
Higher(values) ==
    LET up == Rising({i \in DOMAIN values : HasNextDigit(values[i])})
    IN  [r \in DOMAIN up |-> values[up[r]] \div BlockSize]

\* append_unit for all values: each digit in its level, up to the last level used.
Levels(values) ==
    LET most == Max({values[i] : i \in DOMAIN values})
        Cut[j \in 0 .. most] == IF j = 0 THEN values ELSE Higher(Cut[j - 1])
        num_levels == Min({j \in 0 .. most : \A i \in DOMAIN Cut[j] : ~HasNextDigit(Cut[j][i])})
    IN  [j \in 0 .. num_levels |->
            [bytes |-> [i \in DOMAIN Cut[j] |-> Cut[j][i] % BlockSize],
             nexts |-> [i \in DOMAIN Cut[j] |-> HasNextDigit(Cut[j][i])]]]

\* What append_unit and append_leaf get: BASE and CHECK of a unit in turn.
Value(units, leaves, v) ==
    LET i == v \div 2
    IN  IF v % 2 = 1 THEN XorDigits(units.size, units.check[i], i)
        ELSE IF i \in leaves THEN units.base[i] % BlockSize
        ELSE XorDigits(units.size, units.base[i], i)

Encode(units, leaves) ==
    LET nth == Rising(leaves)
    IN  [size   |-> units.size,
         levels |-> Levels([v \in 0 .. 2 * units.size - 1 |-> Value(units, leaves, v)]),
         links  |-> [r \in DOMAIN nth |-> units.base[nth[r]] \div BlockSize],
         leaves |-> [i \in 0 .. units.size - 1 |-> i \in leaves]]

\* The value at position i, digit by digit: Digits[n] reads from the n-th level
\* before the last one on.
Access(bcvec, i) ==
    LET num_levels == Max(DOMAIN bcvec.levels)
        Digits[n \in 0 .. num_levels] ==
            LET level == bcvec.levels[num_levels - n]
            IN  [k \in DOMAIN level.bytes |->
                    level.bytes[k] + IF n > 0 /\ level.nexts[k]
                                     THEN BlockSize * Digits[n - 1][Rank(level.nexts, k)] ELSE 0]
    IN  Digits[num_levels][i]

Base(bcvec, npos)  == XorDigits(bcvec.size, Access(bcvec, 2 * npos), npos)
Check(bcvec, npos) == XorDigits(bcvec.size, Access(bcvec, 2 * npos + 1), npos)
LeafAt(bcvec, npos) == bcvec.leaves[npos]
Link(bcvec, npos) ==
    bcvec.levels[0].bytes[2 * npos] + BlockSize * bcvec.links[Rank(bcvec.leaves, npos)]
=============================================================================

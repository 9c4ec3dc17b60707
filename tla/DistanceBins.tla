----------------------------- MODULE DistanceBins -----------------------------
(***************************************************************************)
(* The counters of one id of the reuse distance tools (ReuseStats): a      *)
(* distance is counted by itself up to binindividual, above it in bins     *)
(* whose upper boundaries are powers of two, and beyond maxtracking as     *)
(* invalid.  0 stands for no limit in both.                                *)
(*                                                                         *)
(* Distances have 2^Steps bits (64 in the code) and an int has IntBits     *)
(* (32 in the code): the boundary is shifted in an int.                    *)
(***************************************************************************)
EXTENDS Integers

CONSTANTS Steps, IntBits

ASSUME WidthAssumption == Steps \in Nat \ {0} /\ IntBits \in 3 .. 2 ^ Steps

Infinity == 0       \* INFINITY_REUSE
Word == 2 ^ (2 ^ Steps)

\* the largest power of two in val, by halving the bits that may hold it
Log2(val) ==
    LET step[i \in 0 .. Steps] ==       \* <<the value left, its logarithm so far>>
          IF i = 0 THEN <<val, 0>>
          ELSE LET s == 2 ^ (Steps - i)
                   v == step[i - 1][1]
               IN IF v >= 2 ^ s THEN <<v \div 2 ^ s, step[i - 1][2] + s>> ELSE step[i - 1]
    IN step[Steps][2]

\* 2 << r, for an r the int has no room for: the bits that are left, with the
\* sign extended, after a shift whose amount is masked (or the bits of the
\* full width, if the compiler widened the shift)
Overflowing(r) ==
    LET bits == 2 ^ ((r % IntBits) + 1) % 2 ^ IntBits
    IN {IF bits >= 2 ^ (IntBits - 1) THEN Word - 2 ^ IntBits + bits ELSE bits,
        (2 ^ (r + 1)) % Word}

\* the possible results
ShaveBitsPwr2(val) ==
    LET r == Log2(val - 1) IN IF r + 1 < IntBits - 1 THEN {2 ^ (r + 1)} ELSE Overflowing(r)

\* ReuseStats::GetBin, its possible results
GetBin(value, binindividual, maxtracking, invalid) ==
    IF value = invalid \/ (maxtracking # Infinity /\ value > maxtracking) THEN {invalid}
    ELSE IF binindividual # Infinity /\ value > binindividual THEN ShaveBitsPwr2(value)
    ELSE {value}

-----------------------------------------------------------------------------
(* What the bins are meant to be.                                           *)

IsPowerOf2(n) == \E k \in 0 .. 2 ^ Steps - 1 : n = 2 ^ k

\* the bin of a distance: itself, or the smallest power of two that is not
\* less
BinOf(d, binindividual) ==
    IF binindividual = Infinity \/ d <= binindividual THEN d
    ELSE CHOOSE n \in d .. 2 * d : IsPowerOf2(n) /\ \A k \in d .. n - 1 : ~IsPowerOf2(k)
=============================================================================

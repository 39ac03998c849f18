---------------------------- MODULE LevelBudget ----------------------------
(***************************************************************************)
(* How many bits per key each level of an integer Rosetta gets: calBPK,    *)
(* levelFrequency and g of include/new/rosetta.hpp and, the same, of       *)
(* include/new/elastic_rosetta.hpp.  R is the distance between the least   *)
(* and the greatest key.                                                   *)
(*                                                                         *)
(* The code computes in doubles.  Its frequencies all have the denominator *)
(* 1 << log(R), written one here, and only quotients of their differences  *)
(* are used, so they are kept as numerators, exactly.  A quotient in       *)
(* doubles may fall short of the exact one in its last place; this shows   *)
(* where the exact number of bits is whole, as one bit less.               *)
(***************************************************************************)
EXTENDS Integers, FiniteSetsExt

CONSTANTS
    levels_,        \* number of levels: 64 in the code
    Pow2,           \* Pow2[n] is 2^n
    CeilExp,        \* CeilExp[k] is the least whole number above e^k
    IntBits,        \* bits of an int: 32
    bits_per_key,   \* what the constructor is told
    NaN             \* 0.0 / 0.0, and what becomes of it as a u64

Level == 0 .. levels_ - 1

ASSUME BudgetAssumption ==
    /\ levels_ \in Nat \ {0} /\ IntBits \in Nat \ {0} /\ bits_per_key \in Nat
    /\ NaN \notin Int

ASSUME Pow2Assumption ==
    /\ Pow2 \in [0 .. levels_ -> Nat \ {0}]
    /\ Pow2[0] = 1
    /\ \A n \in Level : Pow2[n + 1] = 2 * Pow2[n]

\* (e / 2)^k is more than 1 and more than k - 1.
ASSUME CeilExpAssumption ==
    /\ CeilExp \in [1 .. levels_ - 1 -> Nat]
    /\ \A k \in 1 .. levels_ - 1 : CeilExp[k] > Pow2[k] /\ CeilExp[k] > (k - 1) * Pow2[k]
    /\ levels_ > 1 => CeilExp[1] = 3

\* (int)log(R) for R from 1 on: the greatest k with e^k <= R.  e^levels_ is more
\* than any R.
log(R) == Max({k \in 1 .. levels_ - 1 : CeilExp[k] <= R} \cup {0})

\* An int with the bit x set.
Signed(x) == IF x = IntBits - 1 THEN -Pow2[x] ELSE Pow2[x]

\* What 1 << x may come to: from IntBits on it is undefined, and a build takes
\* the distance modulo IntBits or shifts a wider number.
IntShift(x) == IF x < IntBits THEN {Signed(x)} ELSE {Signed(x % IntBits), Pow2[x]}

\* Times one.
g(x, R, one) ==
    IF x < log(R) THEN one ELSE IF x = log(R) THEN R - one + 1 ELSE 0

\* The sum of g over count heights from r on, times one.
SumOfG(r, count, R, one) ==
    LET ret[i \in 0 .. count] == IF i = 0 THEN 0 ELSE ret[i - 1] + g(r + i - 1, R, one)
    IN  ret[count]

\* Variant: the sum ends one height too early.
levelFrequencyShort(r, R, one) ==
    IF r >= log(R) THEN 0 ELSE SumOfG(r, log(R) - r, R, one)

\* How often a query asks a level of height r, times one.
levelFrequency(r, R, one) ==
    IF r > log(R) THEN 0 ELSE SumOfG(r, log(R) - r + 1, R, one)

Sign(n) == IF n < 0 THEN -1 ELSE 1

\* The vectors calBPK may come to, each entry converted to u64.
calBPK(R, one) ==
    LET fre == [i \in Level |-> levelFrequency(levels_ - i - 1, R, one)]
        Asked == {i \in Level : fre[i] # 0}
        fre_max == fre[levels_ - 1]
        fre_min == IF Asked = {} THEN 0 ELSE fre[Min(Asked)]
        span == fre_max - fre_min
        times(i) == (bits_per_key \div 2) * (2 * span - (fre_max - fre[i])) * Sign(span)
        bits == [i \in Level |-> IF i \notin Asked THEN 0
                                 ELSE IF span = 0 THEN NaN
                                 ELSE times(i) \div (span * Sign(span))]
        Whole == {i \in Asked : /\ span # 0
                                /\ fre[i] \notin {fre_min, fre_max}
                                /\ bits[i] > 0
                                /\ times(i) % (span * Sign(span)) = 0}
    IN  {[i \in Level |-> IF i \in short THEN bits[i] - 1 ELSE bits[i]]
            : short \in SUBSET Whole}

\* The constructor leaves all entries at 0 for a single key.
Budgets(R) ==
    IF R = 0 THEN {[i \in Level |-> 0]}
    ELSE UNION {calBPK(R, one) : one \in IntShift(log(R))}

=============================================================================

--------------------------- MODULE WorkloadProofs ---------------------------
(***************************************************************************)
(* The sequential drivers of Workload, with the bits per key of            *)
(* LevelBudget, for any number of levels, any width of int, any keys and   *)
(* files of any length.                                                    *)
(***************************************************************************)
EXTENDS Workload, SequenceTheorems, Induction

----------------------------------------------------------------------------
(* Arithmetic.                                                             *)

LEMMA DivMod ==
    ASSUME NEW m \in Nat \ {0}, NEW k \in Nat
    PROVE  /\ k \div m \in Nat /\ k % m \in Nat
           /\ k = (k \div m) * m + (k % m)
           /\ k % m < m
  BY SMTT(30)

\* There is one quotient and one remainder.
LEMMA OneQuotient ==
    ASSUME NEW m \in Nat \ {0}, NEW c \in Nat, NEW r \in Nat, r < m
    PROVE  (c * m + r) \div m = c /\ (c * m + r) % m = r
<1> DEFINE k == c * m + r
<1>1. k \in Nat /\ c * m \in Nat
  OBVIOUS
<1> HIDE DEF k
<1>2. PICK a \in Nat, u \in Nat : k = a * m + u /\ u < m /\ a = k \div m /\ u = k % m
  BY <1>1, DivMod
<1>3. k = c * m + r
  BY DEF k
<1>4. a = c
  <2>1. ~(a < c)
    <3> SUFFICES ASSUME a < c
                 PROVE  FALSE
      OBVIOUS
    <3>1. (c - a) * m >= m
      BY SMTT(30)
    <3>2. c * m = a * m + (c - a) * m
      BY SMTT(30)
    <3> QED
      BY <1>2, <1>3, <3>1, <3>2
  <2>2. ~(c < a)
    <3> SUFFICES ASSUME c < a
                 PROVE  FALSE
      OBVIOUS
    <3>1. (a - c) * m >= m
      BY SMTT(30)
    <3>2. a * m = c * m + (a - c) * m
      BY SMTT(30)
    <3> QED
      BY <1>2, <1>3, <3>1, <3>2
  <2> QED
    BY <2>1, <2>2
<1>5. u = r
  <2>1. c * m + u = c * m + r
    BY <1>2, <1>3, <1>4, Zenon
  <2> DEFINE p == c * m
  <2>2. p \in Nat
    BY <1>1
  <2> HIDE DEF p
  <2>3. p + u = p + r
    BY <2>1, Zenon DEF p
  <2> QED
    BY <2>2, <2>3
<1> QED
  BY <1>2, <1>4, <1>5 DEF k

\* A common factor of both sides does not change a quotient.
LEMMA CommonFactor ==
    ASSUME NEW x \in Nat, NEW m \in Nat \ {0}, NEW a \in Nat \ {0}
    PROVE  /\ (x * a) \div (m * a) = x \div m
           /\ (x * a) % (m * a) = 0 <=> x % m = 0
<1>1. PICK c \in Nat, r \in Nat : x = c * m + r /\ r < m /\ c = x \div m /\ r = x % m
  BY DivMod
<1> DEFINE n == m * a
           s == r * a
<1>2. n \in Nat \ {0} /\ s \in Nat
  BY SMTT(30)
<1>3. x * a = c * n + s
  <2>1. (c * m + r) * a = c * n + s
    BY SMTT(30)
  <2> QED
    BY <1>1, <2>1, Zenon
<1>4. s < n
  <2>1. (m - 1 - r) * a \in Nat
    BY <1>1, SMTT(30)
  <2>2. n = s + a + (m - 1 - r) * a
    BY <1>1, SMTT(30)
  <2> HIDE DEF n, s
  <2> QED
    BY <1>2, <2>1, <2>2
<1>5. s = 0 <=> r = 0
  BY SMTT(30)
<1> HIDE DEF n, s
<1>6. (x * a) \div n = c /\ (x * a) % n = s
  BY <1>2, <1>3, <1>4, OneQuotient
<1> QED
  BY <1>1, <1>5, <1>6, Zenon DEF n

----------------------------------------------------------------------------
(* The bits per key of each level.                                         *)

\* log and the powers of two.
LEMMA LogFacts ==
    ASSUME NEW R \in 0 .. Pow2[levels_] - 1
    PROVE  /\ log(R) \in Level
           /\ R <= 2 => log(R) = 0
           /\ R > 2 => /\ log(R) >= 1
                       /\ R > Pow2[log(R)]
                       /\ R > (log(R) - 1) * Pow2[log(R)]
<1> DEFINE T == {k \in 1 .. levels_ - 1 : CeilExp[k] <= R} \cup {0}
<1>1. levels_ \in Nat \ {0} /\ Pow2[levels_] \in Nat \ {0} /\ levels_ - 1 \in Nat /\ R \in Nat
  BY BudgetAssumption, Pow2Assumption
<1>2. log(R) \in T /\ \A y \in T : y <= log(R)
  <2>1. T \in SUBSET (0 .. levels_ - 1) /\ T # {}
    BY <1>1
  <2>2. \E x \in T : \A y \in T : x >= y
    <3> HIDE DEF T
    <3>1. PICK x \in T : \A y \in T : y <= x
      BY <1>1, <2>1, GreatestElement
    <3> QED
      BY <1>1, <2>1, <3>1
  <2>3. log(R) = CHOOSE x \in T : \A y \in T : x >= y
    BY DEF log, Max
  <2>4. log(R) \in T /\ \A y \in T : log(R) >= y
    <3> HIDE DEF T
    <3> QED
      BY <2>2, <2>3, Zenon
  <2> QED
    BY <1>1, <2>1, <2>4
<1>3. log(R) \in Level
  BY <1>1, <1>2 DEF Level
<1>4. ASSUME log(R) # 0
      PROVE  /\ log(R) \in 1 .. levels_ - 1
             /\ R > Pow2[log(R)] /\ R > (log(R) - 1) * Pow2[log(R)]
  <2>1. log(R) \in 1 .. levels_ - 1 /\ CeilExp[log(R)] <= R
    BY <1>2, <1>4
  <2>2. /\ CeilExp[log(R)] \in Nat
        /\ CeilExp[log(R)] > Pow2[log(R)] /\ CeilExp[log(R)] > (log(R) - 1) * Pow2[log(R)]
    BY <2>1, CeilExpAssumption
  <2>3. Pow2[log(R)] \in Nat /\ log(R) - 1 \in Nat
    BY <1>1, <2>1, Pow2Assumption
  <2>4. (log(R) - 1) * Pow2[log(R)] \in Nat
    BY <2>3
  <2> QED
    BY <1>1, <2>1, <2>2, <2>3, <2>4
<1>5. ASSUME R <= 2, log(R) # 0
      PROVE  FALSE
  <2>1. log(R) \in 1 .. levels_ - 1 /\ R > Pow2[log(R)]
    BY <1>4, <1>5
  <2>2. log(R) - 1 \in Level /\ (log(R) - 1) + 1 = log(R)
    BY <1>1, <2>1 DEF Level
  <2> DEFINE below == log(R) - 1
  <2>3. below \in Level /\ below \in 0 .. levels_ /\ below + 1 = log(R)
    BY <1>1, <2>2 DEF Level
  <2> HIDE DEF below
  <2>4. Pow2[below + 1] = 2 * Pow2[below]
    BY <2>3, Pow2Assumption
  <2>5. Pow2[below] \in Nat \ {0}
    BY <2>3, Pow2Assumption
  <2>6. R > Pow2[below + 1]
    BY <2>1, <2>3, Zenon
  <2> QED
    BY <1>1, <1>5, <2>4, <2>5, <2>6
<1>6. ASSUME R > 2
      PROVE  log(R) # 0
  <2>1. levels_ > 1
    <3> SUFFICES ASSUME levels_ = 1
                 PROVE  FALSE
      BY <1>1
    <3>1. Pow2[0 + 1] = 2 * Pow2[0] /\ Pow2[0] = 1
      BY Pow2Assumption DEF Level
    <3> QED
      BY <1>1, <1>6, <3>1
  <2>2. 1 \in T
    BY <1>1, <1>6, <2>1, CeilExpAssumption
  <2> QED
    BY <1>2, <2>2
<1> QED
  BY <1>1, <1>3, <1>4, <1>5, <1>6 DEF Level

\* The shifted one is not zero, and its distance from zero is a power of two that is
\* not above the one meant.
LEMMA ShiftFacts ==
    ASSUME NEW x \in Level, NEW one \in IntShift(x)
    PROVE  one \in Int /\ one # 0 /\ one <= Pow2[x] /\ -one <= Pow2[x]
<1>1. levels_ \in Nat /\ IntBits \in Nat \ {0} /\ x \in Nat /\ x \in 0 .. levels_
  BY BudgetAssumption DEF Level
<1>2. x % IntBits \in 0 .. x
  <2>1. x \div IntBits \in Nat /\ x % IntBits \in Nat
        /\ x = (x \div IntBits) * IntBits + (x % IntBits)
    BY <1>1, DivMod
  <2>2. (x \div IntBits) * IntBits \in Nat
    BY <1>1, <2>1
  <2> QED
    BY <1>1, <2>1, <2>2
<1>3. ASSUME NEW y \in 0 .. x
      PROVE  Pow2[y] \in Nat \ {0} /\ Pow2[y] <= Pow2[x]
  <2>1. y \in 0 .. levels_
    BY <1>1
  <2>2. /\ Pow2 \in [0 .. levels_ -> Nat]
        /\ \A n \in 0 .. levels_ - 1 : Pow2[n + 1] = 2 * Pow2[n]
    BY Pow2Assumption DEF Level
  <2>3. y <= x
    BY <1>1
  <2>4. Pow2[y] <= Pow2[x]
    BY <1>1, <2>1, <2>2, <2>3, DoublingGrows
  <2> QED
    BY <2>1, <2>4, Pow2Assumption
<1>4. PICK y \in 0 .. x : one = Pow2[y] \/ one = -Pow2[y]
  <2>1. x \in 0 .. x
    BY <1>1
  <2> QED
    BY <1>2, <2>1 DEF IntShift, Signed
<1> QED
  BY <1>1, <1>3, <1>4

\* g is one below the height of the key range and the rest of it there.
LEMMA SumOfGIs ==
    ASSUME NEW R \in Nat, NEW one \in Int, NEW r \in Nat, log(R) \in Nat, r <= log(R)
    PROVE  SumOfG(r, log(R) - r + 1, R, one) = (log(R) - r) * one + (R - one + 1)
<1> DEFINE d == log(R) - r
           count == log(R) - r + 1
           Step(n, x) == x + g(r + n - 1, R, one)
           Defines(f) == f = [n \in 0 .. count |-> IF n = 0 THEN 0 ELSE Step(n, f[n - 1])]
           ret == CHOOSE f : Defines(f)
           At(n) == IF n <= d THEN n * one ELSE d * one + (R - one + 1)
           sum == [n \in 0 .. count |-> At(n)]
<1>1. d \in Nat /\ count \in Nat /\ count = d + 1 /\ r + d = log(R)
  OBVIOUS
<1>2. ASSUME NEW n \in 1 .. count
      PROVE  At(n) = Step(n, At(n - 1))
  <2>1. CASE n <= d
    <3>1. n - 1 \in Nat /\ n - 1 <= d /\ r + n - 1 < log(R)
      BY <1>1, <2>1
    <3>2. g(r + n - 1, R, one) = one
      BY <3>1 DEF g
    <3>3. n * one = (n - 1) * one + one
      OBVIOUS
    <3>4. At(n) = n * one /\ At(n - 1) = (n - 1) * one
      BY <2>1, <3>1
    <3> QED
      BY <3>2, <3>3, <3>4
  <2>2. CASE n = count
    <3>1. r + n - 1 = log(R) /\ n - 1 = d /\ ~(n <= d) /\ d <= d
      BY <1>1, <2>2
    <3>2. g(r + n - 1, R, one) = R - one + 1
      <4>1. ~(log(R) < log(R))
        OBVIOUS
      <4> QED
        BY <3>1, <4>1 DEF g
    <3>3. At(n) = d * one + (R - one + 1) /\ At(n - 1) = d * one
      BY <3>1, Zenon
    <3> QED
      BY <3>2, <3>3
  <2> QED
    BY <1>1, <2>1, <2>2
<1>3. At(0) = 0
  BY <1>1
<1>4. SumOfG(r, log(R) - r + 1, R, one) = ret[count]
  BY DEF SumOfG
<1> HIDE DEF Step, At
<1>5. Defines(sum)
  <2>1. ASSUME NEW n \in 0 .. count
        PROVE  sum[n] = IF n = 0 THEN 0 ELSE Step(n, sum[n - 1])
    <3>1. CASE n = 0
      BY <1>3, <3>1
    <3>2. CASE n \in 1 .. count
      <4>1. n # 0 /\ n - 1 \in 0 .. count
        BY <1>1, <3>2
      <4>2. sum[n] = At(n) /\ sum[n - 1] = At(n - 1)
        BY <4>1
      <4> QED
        BY <1>2, <3>2, <4>1, <4>2
    <3> QED
      BY <1>1, <3>1, <3>2
  <2> QED
    BY <2>1
<1>6. Defines(ret)
  BY <1>5, Zenon
<1> HIDE DEF ret
<1>7. ASSUME NEW n \in 0 .. count
      PROVE  ret[n] = IF n = 0 THEN 0 ELSE Step(n, ret[n - 1])
  BY <1>6
<1> HIDE DEF count
<1> DEFINE P == {n \in Nat : n <= count => ret[n] = At(n)}
<1>8. 0 \in P
  BY <1>1, <1>3, <1>7
<1>9. ASSUME NEW n \in P
      PROVE  n + 1 \in P
  <2> SUFFICES ASSUME n + 1 <= count
               PROVE  ret[n + 1] = At(n + 1)
    OBVIOUS
  <2>1. n + 1 \in 1 .. count /\ n + 1 \in 0 .. count /\ n + 1 # 0 /\ (n + 1) - 1 = n
        /\ ret[n] = At(n)
    BY <1>1
  <2> QED
    BY <1>2, <1>7, <2>1
<1>10. P \subseteq Nat
  OBVIOUS
<1>11. count \in P
  <2> HIDE DEF P
  <2> QED
    BY <1>1, <1>8, <1>9, <1>10, SetInduction
<1>12. ret[count] = At(count)
  BY <1>11
<1>13. At(count) = d * one + (R - one + 1)
  BY <1>1 DEF At
<1> QED
  BY <1>4, <1>12, <1>13 DEF count

\* A level above the key range is not asked, the others are.
LEMMA FrequencyIs ==
    ASSUME NEW R \in 1 .. Pow2[levels_] - 1, NEW one \in IntShift(log(R)), NEW r \in Level
    PROVE  /\ r > log(R) => levelFrequency(r, R, one) = 0
           /\ r <= log(R) =>
                /\ levelFrequency(r, R, one) = (log(R) - r) * one + (R - one + 1)
                /\ levelFrequency(r, R, one) # 0
<1>1. R \in Nat /\ R >= 1 /\ log(R) \in Level /\ log(R) \in Nat /\ r \in Nat
      /\ R \in 0 .. Pow2[levels_] - 1
  <2>1. Pow2[levels_] \in Nat /\ levels_ \in Nat
    BY BudgetAssumption, Pow2Assumption
  <2> QED
    BY <2>1, LogFacts DEF Level
<1>2. one \in Int /\ one # 0 /\ one <= Pow2[log(R)] /\ -one <= Pow2[log(R)]
  BY <1>1, ShiftFacts
<1>3. Pow2[log(R)] \in Nat \ {0} /\ Pow2[0] = 1
  <2>1. log(R) \in 0 .. levels_
    BY <1>1, BudgetAssumption DEF Level
  <2> QED
    BY <2>1, Pow2Assumption
<1>4. CASE r > log(R)
  BY <1>1, <1>4 DEF levelFrequency
<1>5. CASE r <= log(R)
  <2>1. levelFrequency(r, R, one) = (log(R) - r) * one + (R - one + 1)
    <3>1. ~(r > log(R))
      BY <1>1, <1>5
    <3>2. SumOfG(r, log(R) - r + 1, R, one) = (log(R) - r) * one + (R - one + 1)
      BY <1>1, <1>2, <1>5, SumOfGIs
    <3> QED
      BY <3>1, <3>2, Zenon DEF levelFrequency
  <2> DEFINE d == log(R) - r
             L == log(R)
             P == Pow2[log(R)]
  <2>2. d \in Nat /\ L \in Nat /\ d <= L /\ P \in Nat \ {0}
    BY <1>1, <1>3, <1>5
  <2>3. R >= P /\ (L >= 1 => R > (L - 1) * P)
    <3>1. CASE R > 2
      BY <1>1, <1>3, <3>1, LogFacts
    <3>2. CASE R <= 2
      <4>1. L = 0 /\ P = 1
        BY <1>1, <1>3, <3>2, LogFacts
      <4> HIDE DEF L, P
      <4> QED
        BY <1>1, <4>1
    <3> QED
      BY <1>1, <3>1, <3>2
  <2>4. one <= P /\ -one <= P
    BY <1>2
  <2> HIDE DEF d, L, P
  <2>5. d * one + (R - one + 1) # 0
    <3>1. CASE one > 0
      <4>1. d * one \in Nat
        BY <1>2, <2>2, <3>1, SMTT(30)
      <4> QED
        BY <1>1, <1>2, <2>2, <2>3, <2>4, <4>1
    <3>2. CASE one < 0 /\ d = 0
      <4>1. d * one = 0
        BY <1>2, <3>2
      <4> QED
        BY <1>1, <1>2, <3>2, <4>1
    <3>3. CASE one < 0 /\ d > 0
      <4> DEFINE u == -one
      <4>1. u \in Nat \ {0} /\ u <= P /\ one = -u
        BY <1>2, <2>4, <3>3
      <4> HIDE DEF u
      <4>2. (d - 1) * u <= (L - 1) * P
        <5>1. d - 1 \in Nat /\ L - d \in Nat /\ P - u \in Nat
          BY <2>2, <3>3, <4>1
        <5>2. (L - 1) * P = (d - 1) * u + (d - 1) * (P - u) + (L - d) * P
          BY <2>2, <4>1, SMTT(30)
        <5>3. (d - 1) * (P - u) \in Nat /\ (L - d) * P \in Nat /\ (d - 1) * u \in Nat
          BY <2>2, <4>1, <5>1, SMTT(30)
        <5> QED
          BY <5>2, <5>3
      <4>3. d * one - one = -((d - 1) * u)
        BY <2>2, <4>1, SMTT(30)
      <4>4. (d - 1) * u \in Int /\ (L - 1) * P \in Int /\ d * one \in Int
        BY <1>2, <2>2, <4>1
      <4> QED
        BY <1>1, <1>2, <2>2, <2>3, <3>3, <4>2, <4>3, <4>4
    <3> QED
      BY <1>2, <2>2, <3>1, <3>2, <3>3
  <2>6. levelFrequency(r, R, one) = d * one + (R - one + 1)
    BY <2>1 DEF d
  <2> QED
    BY <1>1, <1>5, <2>1, <2>5, <2>6
<1> QED
  BY <1>1, <1>4, <1>5

HalfBits == bits_per_key \div 2

\* Before they are divided by the height L of the key range.
BitsTimes(L, r) == HalfBits * (2 * L - r)

\* What calBPK comes to, level by level.
IsBudget(R, b) ==
    /\ DOMAIN b = Level
    /\ \A r \in Level :
         LET at == b[levels_ - 1 - r]
             L == log(R)
         IN  /\ r > L => at = 0
             /\ L = 0 /\ r = 0 => at = NaN
             /\ L # 0 /\ r <= L => at = BitsTimes(L, r) \div L
                                   \/ /\ at = (BitsTimes(L, r) \div L) - 1
                                      /\ r \notin {0, L}
                                      /\ BitsTimes(L, r) \div L > 0
                                      /\ BitsTimes(L, r) % L = 0

LEMMA calBPKIs ==
    ASSUME NEW R \in 1 .. Pow2[levels_] - 1, NEW one \in IntShift(log(R)),
           NEW b \in calBPK(R, one)
    PROVE  IsBudget(R, b)
<1> DEFINE L == log(R)
           c == R - one + 1
           fre == [n \in Level |-> levelFrequency(levels_ - n - 1, R, one)]
           Asked == {n \in Level : fre[n] # 0}
           fre_max == fre[levels_ - 1]
           fre_min == IF Asked = {} THEN 0 ELSE fre[Min(Asked)]
           span == fre_max - fre_min
           times(n) == (bits_per_key \div 2) * (2 * span - (fre_max - fre[n])) * Sign(span)
           bits == [n \in Level |-> IF n \notin Asked THEN 0
                                    ELSE IF span = 0 THEN NaN
                                    ELSE times(n) \div (span * Sign(span))]
           Whole == {n \in Asked : /\ span # 0
                                   /\ fre[n] \notin {fre_min, fre_max}
                                   /\ bits[n] > 0
                                   /\ times(n) % (span * Sign(span)) = 0}
<1>1. PICK short \in SUBSET Whole :
            b = [n \in Level |-> IF n \in short THEN bits[n] - 1 ELSE bits[n]]
  BY DEF calBPK
<1>2. /\ levels_ \in Nat \ {0} /\ L \in Level /\ L \in Nat /\ L <= levels_ - 1
      /\ R \in Nat /\ levels_ - 1 \in Level /\ bits_per_key \in Nat
  <2>1. Pow2[levels_] \in Nat /\ levels_ \in Nat \ {0} /\ bits_per_key \in Nat
    BY BudgetAssumption, Pow2Assumption
  <2>2. R \in 0 .. Pow2[levels_] - 1
    BY <2>1
  <2>3. L \in Level
    BY <2>2, LogFacts
  <2> QED
    BY <2>1, <2>2, <2>3 DEF Level
<1>3. one \in Int /\ one # 0 /\ c \in Int
  BY <1>2, ShiftFacts
<1>4. HalfBits \in Nat
  BY <1>2, DivMod DEF HalfBits
<1>5. ASSUME NEW n \in Level
      PROVE  LET r == levels_ - 1 - n
             IN  /\ r \in Level /\ levels_ - n - 1 = r /\ n = levels_ - 1 - r
                 /\ r > L => fre[n] = 0
                 /\ r <= L => fre[n] = (L - r) * one + c /\ fre[n] # 0
  <2> DEFINE r == levels_ - 1 - n
  <2>1. r \in Level /\ levels_ - n - 1 = r /\ n = levels_ - 1 - r
    BY <1>2 DEF Level
  <2>2. fre[n] = levelFrequency(r, R, one)
    BY <2>1
  <2> HIDE DEF r
  <2>3. /\ r > L => fre[n] = 0
        /\ r <= L => fre[n] = (L - r) * one + c /\ fre[n] # 0
    <3> HIDE DEF fre
    <3> QED
      BY <2>1, <2>2, FrequencyIs
  <2> QED
    BY <2>1, <2>3 DEF r
<1> HIDE DEF fre
<1>6. Asked = {n \in Level : levels_ - 1 - n <= L}
  BY <1>2, <1>5 DEF Level
<1>7. fre_max = L * one + c
  <2>1. levels_ - 1 - (levels_ - 1) = 0 /\ 0 <= L /\ (L - 0) * one = L * one
    BY <1>2
  <2>2. fre[levels_ - 1] = (L - 0) * one + c
    BY <1>2, <1>5, <2>1
  <2> QED
    BY <2>1, <2>2
<1>8. fre_min = c
  <2> DEFINE top == levels_ - 1 - L
  <2> HIDE DEF Asked, L
  <2>1. top \in Level /\ levels_ - 1 - top = L /\ top \in Asked
    <3>1. top \in Level /\ levels_ - 1 - top = L /\ levels_ - 1 - top <= L
      BY <1>2 DEF Level
    <3> HIDE DEF top
    <3> QED
      BY <1>6, <3>1
  <2>2. \A n \in Asked : top <= n
    <3>1. \A n \in Level : levels_ - 1 - n <= L => top <= n
      BY <1>2 DEF Level
    <3> QED
      BY <1>6, <3>1
  <2> USE DEF Asked, L
  <2>3. Min(Asked) = top
    <3>1. Min(Asked) = CHOOSE x \in Asked : \A y \in Asked : x <= y
      BY DEF Min
    <3>2. \A n \in Asked : n \in Int
      BY <1>2 DEF Level
    <3> HIDE DEF Asked, top
    <3>3. Min(Asked) \in Asked /\ \A y \in Asked : Min(Asked) <= y
      BY <2>1, <2>2, <3>1, Zenon
    <3> QED
      BY <2>1, <2>2, <3>2, <3>3
  <2>4. fre[top] = (L - L) * one + c
    <3>1. L <= L
      BY <1>2
    <3> QED
      BY <1>5, <2>1, <3>1
  <2>5. (L - L) * one = 0
    BY <1>2, <1>3
  <2> HIDE DEF Asked
  <2>6. fre_min = fre[top]
    BY <2>1, <2>3, Zenon
  <2> QED
    BY <1>3, <2>4, <2>5, <2>6
<1> HIDE DEF fre_max, fre_min, c
<1>9. span = L * one
  BY <1>2, <1>3, <1>7, <1>8
<1> HIDE DEF span
<1> DEFINE a == IF one < 0 THEN -one ELSE one
<1>10. a \in Nat \ {0} /\ (L # 0 => span # 0 /\ span * Sign(span) = L * a)
       /\ (L = 0 => span = 0)
  <2>1. a \in Nat \ {0}
    BY <1>3
  <2>2. CASE L = 0
    BY <1>3, <1>9, <2>1, <2>2
  <2>3. CASE L # 0 /\ one > 0
    <3>1. span \in Nat \ {0} /\ a = one
      BY <1>2, <1>3, <1>9, <2>3, SMTT(30)
    <3>2. Sign(span) = 1
      BY <3>1 DEF Sign
    <3>3. span * 1 = span /\ ~(span = 0)
      BY <3>1
    <3> QED
      BY <1>9, <2>1, <2>3, <3>1, <3>2, <3>3
  <2>4. CASE L # 0 /\ one < 0
    <3>1. a = -one
      BY <2>4
    <3> HIDE DEF a
    <3>2. L * a \in Nat \ {0}
      BY <1>2, <2>1, <2>4, SMTT(30)
    <3>3. L * one = -(L * a)
      <4>1. one = -a
        BY <1>3, <3>1
      <4>2. L * (-a) = -(L * a)
        BY <1>2, <2>1
      <4> QED
        BY <4>1, <4>2
    <3> DEFINE La == L * a
    <3>4. La \in Nat \ {0} /\ span = -La
      BY <1>9, <3>2, <3>3
    <3> HIDE DEF La
    <3>5. span < 0 /\ span # 0 /\ span * (-1) = La
      BY <3>4
    <3>6. Sign(span) = -1
      BY <3>5 DEF Sign
    <3>7. span * Sign(span) = L * a
      BY <3>5, <3>6 DEF La
    <3> QED
      BY <2>1, <2>4, <3>5, <3>7
  <2> QED
    BY <1>2, <1>3, <2>2, <2>3, <2>4
<1>11. ASSUME NEW r \in Level, r <= L, L # 0
       PROVE  LET n == levels_ - 1 - r
              IN  /\ BitsTimes(L, r) \in Nat
                  /\ times(n) = BitsTimes(L, r) * a
                  /\ fre[n] \notin {fre_min, fre_max} => r \notin {0, L}
  <2> DEFINE n == levels_ - 1 - r
  <2>1. n \in Level /\ levels_ - 1 - n = r /\ r \in Nat
    BY <1>2 DEF Level
  <2>2. fre[n] = (L - r) * one + c
    BY <1>5, <1>11, <2>1
  <2>3. 2 * L - r \in Nat
    BY <1>2, <1>11, <2>1
  <2>4. BitsTimes(L, r) \in Nat
    BY <1>4, <2>3 DEF BitsTimes
  <2>5. 2 * span - (fre_max - fre[n]) = (2 * L - r) * one
    BY <1>2, <1>3, <1>7, <1>9, <2>1, <2>2, SMTT(30)
  <2>6. one * Sign(span) = a
    <3>1. CASE one > 0
      <4>1. span \in Nat
        BY <1>2, <1>3, <1>9, <3>1, SMTT(30)
      <4>2. Sign(span) = 1
        BY <4>1 DEF Sign
      <4> QED
        BY <1>3, <3>1, <4>2
    <3>2. CASE one < 0
      <4>1. span < 0
        BY <1>2, <1>3, <1>9, <1>11, <3>2, SMTT(30)
      <4>2. Sign(span) = -1
        BY <4>1 DEF Sign
      <4> QED
        BY <1>3, <3>2, <4>2
    <3> QED
      BY <1>3, <3>1, <3>2
  <2>7. times(n) = BitsTimes(L, r) * a
    <3> DEFINE k == 2 * L - r
               s == Sign(span)
    <3>1. k \in Nat /\ s \in Int
      BY <2>3 DEF Sign
    <3>2. times(n) = HalfBits * (k * one) * s
      BY <2>5 DEF HalfBits
    <3>3. one * s = a
      BY <2>6
    <3>4. BitsTimes(L, r) = HalfBits * k
      BY DEF BitsTimes
    <3> HIDE DEF k, s
    <3>5. HalfBits * (k * one) * s = (HalfBits * k) * (one * s)
      BY <1>3, <1>4, <3>1, SMTT(30)
    <3> QED
      BY <3>2, <3>3, <3>4, <3>5, Zenon
  <2>8. ASSUME r \in {0, L}
        PROVE  fre[n] \in {fre_min, fre_max}
    <3>1. CASE r = 0
      <4>1. (L - r) * one + c = L * one + c
        BY <1>2, <3>1
      <4> QED
        BY <1>7, <2>2, <4>1
    <3>2. CASE r = L
      <4>1. (L - r) * one + c = c
        BY <1>2, <1>3, <3>2
      <4> QED
        BY <1>8, <2>2, <4>1
    <3> QED
      BY <2>8, <3>1, <3>2
  <2> QED
    BY <2>4, <2>7, <2>8
<1> HIDE DEF times, a, L
<1>12. ASSUME NEW r \in Level, r > L
       PROVE  b[levels_ - 1 - r] = 0
  <2> DEFINE n == levels_ - 1 - r
  <2>1. n \in Level /\ n \notin Asked
    <3>1. n \in Level /\ ~(levels_ - 1 - n <= L)
      BY <1>2, <1>12 DEF Level
    <3> QED
      BY <1>6, <3>1
  <2>2. n \notin short
    BY <2>1
  <2> HIDE DEF n, Asked, Whole
  <2>3. b[n] = 0
    BY <1>1, <2>1, <2>2
  <2> QED
    BY <2>3 DEF n
<1>13. ASSUME NEW r \in Level, r <= L
       PROVE  LET n == levels_ - 1 - r
              IN  n \in Level /\ n \in Asked
  BY <1>2, <1>6, <1>13 DEF Level
<1>14. ASSUME L = 0
       PROVE  b[levels_ - 1 - 0] = NaN
  <2> DEFINE n == levels_ - 1 - 0
  <2>1. n \in Level /\ n \in Asked /\ span = 0
    <3>1. 0 \in Level /\ 0 <= L
      BY <1>2, <1>14 DEF Level
    <3> QED
      BY <1>10, <1>13, <1>14, <3>1
  <2>2. n \notin short
    BY <2>1
  <2> HIDE DEF n, Asked, Whole
  <2>3. b[n] = NaN
    BY <1>1, <2>1, <2>2
  <2> QED
    BY <2>3 DEF n
<1>15. ASSUME NEW r \in Level, r <= L, L # 0
       PROVE  \/ b[levels_ - 1 - r] = BitsTimes(L, r) \div L
              \/ /\ b[levels_ - 1 - r] = (BitsTimes(L, r) \div L) - 1
                 /\ r \notin {0, L}
                 /\ BitsTimes(L, r) \div L > 0
                 /\ BitsTimes(L, r) % L = 0
  <2> DEFINE n == levels_ - 1 - r
             X == BitsTimes(L, r)
  <2>1. n \in Level /\ n \in Asked /\ span # 0
    BY <1>10, <1>13, <1>15
  <2>2. X \in Nat /\ times(n) = X * a /\ (fre[n] \notin {fre_min, fre_max} => r \notin {0, L})
    BY <1>11, <1>15
  <2> HIDE DEF X
  <2>3. /\ (X * a) \div (L * a) = X \div L
        /\ (X * a) % (L * a) = 0 <=> X % L = 0
    BY <1>2, <1>10, <1>15, <2>2, CommonFactor
  <2>4. span * Sign(span) = L * a
    BY <1>10, <1>15
  <2> HIDE DEF n
  <2>5. bits[n] = X \div L
    <3>1. bits[n] = times(n) \div (span * Sign(span))
      <4> HIDE DEF Asked
      <4> QED
        BY <2>1
    <3> QED
      BY <2>2, <2>3, <2>4, <3>1, Zenon
  <2> HIDE DEF bits
  <2>6. CASE n \in short
    <3>1. b[n] = bits[n] - 1
      BY <1>1, <2>1, <2>6
    <3>2. /\ fre[n] \notin {fre_min, fre_max}
          /\ bits[n] > 0
          /\ times(n) % (span * Sign(span)) = 0
      BY <2>6
    <3>3. X % L = 0
      BY <2>2, <2>3, <2>4, <3>2, Zenon
    <3>4. b[n] = (X \div L) - 1 /\ X \div L > 0
      BY <2>5, <3>1, <3>2
    <3> QED
      BY <2>2, <3>2, <3>3, <3>4 DEF n, X
  <2>7. CASE n \notin short
    <3>1. b[n] = bits[n]
      BY <1>1, <2>1, <2>7
    <3> QED
      BY <2>5, <3>1 DEF n, X
  <2> QED
    BY <2>6, <2>7
<1>16. DOMAIN b = Level
  BY <1>1
<1> QED
  BY <1>12, <1>14, <1>15, <1>16 DEF IsBudget, L

\* A quotient does not fall, and rises from a multiple on.
LEMMA QuotientGrows ==
    ASSUME NEW m \in Nat \ {0}, NEW x \in Nat, NEW y \in Nat
    PROVE  /\ x <= y => x \div m <= y \div m
           /\ x < y /\ y % m = 0 => x \div m <= (y \div m) - 1
<1>1. PICK c \in Nat, r \in Nat : x = c * m + r /\ r < m /\ c = x \div m
  BY DivMod
<1>2. PICK d \in Nat, s \in Nat : y = d * m + s /\ s < m /\ d = y \div m /\ s = y % m
  BY DivMod
<1>3. ASSUME c > d
      PROVE  x > y
  <2>1. c - d - 1 \in Nat
    BY <1>3
  <2>2. c * m = d * m + m + (c - d - 1) * m
    BY SMTT(30)
  <2>3. (c - d - 1) * m \in Nat /\ c * m \in Nat /\ d * m \in Nat
    BY <2>1, SMTT(30)
  <2> QED
    BY <1>1, <1>2, <2>2, <2>3
<1>4. ASSUME c = d, s = 0
      PROVE  x >= y
  <2> DEFINE p == d * m
  <2>1. p \in Nat
    OBVIOUS
  <2>2. x = p + r /\ y = p + s
    BY <1>1, <1>2, <1>4, Zenon
  <2> HIDE DEF p
  <2> QED
    BY <1>4, <2>1, <2>2
<1> QED
  BY <1>1, <1>2, <1>3, <1>4

\* What BudgetFallsWithHeight says of a vector.
Falls(R, b) ==
    LET half == bits_per_key \div 2
        at(r) == b[levels_ - 1 - r]
    IN  /\ \A r \in Level : r > log(R) \/ R = 0 => at(r) = 0
        /\ R \in {1, 2} <=> at(0) = NaN
        /\ R > 2 => /\ at(0) = 2 * half
                    /\ at(log(R)) = half
                    /\ \A r \in 1 .. log(R) : at(r) <= at(r - 1)

LEMMA IsBudgetFalls ==
    ASSUME NEW R \in 1 .. Pow2[levels_] - 1, NEW b, IsBudget(R, b)
    PROVE  Falls(R, b)
<1> DEFINE L == log(R)
           at(r) == b[levels_ - 1 - r]
           X(r) == BitsTimes(L, r)
<1>1. /\ levels_ \in Nat \ {0} /\ L \in Level /\ L \in Nat /\ R \in Nat /\ R # 0
      /\ 0 \in Level /\ (R <= 2 => L = 0) /\ (R > 2 => L >= 1) /\ HalfBits \in Nat
      /\ NaN \notin Int
  <2>1. Pow2[levels_] \in Nat /\ levels_ \in Nat \ {0} /\ bits_per_key \in Nat /\ NaN \notin Int
    BY BudgetAssumption, Pow2Assumption
  <2>2. R \in 0 .. Pow2[levels_] - 1
    BY <2>1
  <2>3. HalfBits \in Nat
    BY <2>1, DivMod DEF HalfBits
  <2> QED
    BY <2>1, <2>2, <2>3, LogFacts DEF Level
<1>2. ASSUME NEW r \in Level
      PROVE  /\ r > L => at(r) = 0
             /\ L = 0 /\ r = 0 => at(r) = NaN
             /\ L # 0 /\ r <= L => \/ at(r) = X(r) \div L
                                   \/ /\ at(r) = (X(r) \div L) - 1
                                      /\ r \notin {0, L}
                                      /\ X(r) \div L > 0
                                      /\ X(r) % L = 0
  BY DEF IsBudget
<1> HIDE DEF at, X
<1>3. ASSUME NEW r \in Level, r <= L
      PROVE  X(r) \in Nat /\ (r # 0 => r - 1 \in Level /\ X(r - 1) = X(r) + HalfBits)
  <2> HIDE DEF L
  <2>1. r \in Nat /\ 2 * L - r \in Nat
    BY <1>1, <1>3 DEF Level
  <2>2. X(r) \in Nat
    BY <1>1, <2>1 DEF X, BitsTimes
  <2>3. ASSUME r # 0
        PROVE  r - 1 \in Level /\ X(r - 1) = X(r) + HalfBits
    <3>1. r - 1 \in Level
      BY <1>1, <2>1, <2>3 DEF Level
    <3>2. HalfBits * (2 * L - (r - 1)) = HalfBits * (2 * L - r) + HalfBits
      BY <1>1, <2>1, SMTT(30)
    <3> QED
      BY <3>1, <3>2 DEF X, BitsTimes
  <2> QED
    BY <2>2, <2>3
<1>4. ASSUME R > 2
      PROVE  /\ at(0) = 2 * HalfBits
             /\ at(L) = HalfBits
             /\ \A r \in 1 .. L : at(r) <= at(r - 1)
  <2> HIDE DEF L
  <2>0. L \in Nat \ {0} /\ L # 0 /\ 0 <= L /\ L <= L
    BY <1>1, <1>4
  <2>1. X(0) \div L = 2 * HalfBits /\ X(L) \div L = HalfBits
    <3>1. X(0) = (2 * HalfBits) * L + 0
      BY <1>1, <2>0, SMTT(30) DEF X, BitsTimes
    <3>2. X(L) = HalfBits * L + 0
      BY <1>1, <2>0, SMTT(30) DEF X, BitsTimes
    <3>3. 2 * HalfBits \in Nat /\ 0 \in Nat /\ 0 < L
      BY <1>1, <2>0
    <3> QED
      BY <1>1, <2>0, <3>1, <3>2, <3>3, OneQuotient
  <2>2. at(0) = 2 * HalfBits /\ at(L) = HalfBits
    BY <1>1, <1>2, <2>0, <2>1
  <2>3. ASSUME NEW r \in 1 .. L
        PROVE  at(r) <= at(r - 1)
    <3>1. r \in Level /\ r <= L /\ r # 0 /\ r - 1 <= L
      BY <1>1, <2>0 DEF Level
    <3>2. r - 1 \in Level /\ X(r) \in Nat /\ X(r - 1) = X(r) + HalfBits
      BY <1>3, <3>1
    <3>3. X(r - 1) \in Nat /\ X(r) <= X(r - 1)
      BY <1>1, <3>2
    <3> DEFINE q == X(r) \div L
               p == X(r - 1) \div L
    <3>4. q \in Nat /\ p \in Nat /\ q <= p
          /\ (X(r) < X(r - 1) /\ X(r - 1) % L = 0 => q <= p - 1)
      BY <2>0, <3>2, <3>3, DivMod, QuotientGrows
    <3>5. at(r) \in Int /\ at(r) <= q
      <4>1. at(r) = q \/ at(r) = q - 1
        BY <1>2, <2>0, <3>1
      <4> HIDE DEF q
      <4> QED
        BY <3>4, <4>1
    <3>6. \/ at(r - 1) = p
          \/ at(r - 1) = p - 1 /\ p > 0 /\ X(r - 1) % L = 0
      BY <1>2, <2>0, <3>1, <3>2
    <3>7. CASE at(r - 1) = p
      <4> HIDE DEF p, q
      <4> QED
        BY <3>4, <3>5, <3>7
    <3>8. CASE at(r - 1) = p - 1 /\ p > 0 /\ X(r - 1) % L = 0
      <4>1. HalfBits # 0
        <5> SUFFICES ASSUME HalfBits = 0
                     PROVE  FALSE
          OBVIOUS
        <5>1. X(r - 1) = 0 * L + 0
          <6>1. 2 * L - (r - 1) \in Int /\ \A z \in Int : 0 * z = 0
            BY <2>0
          <6> QED
            BY <2>0, <6>1 DEF X, BitsTimes
        <5>2. 0 \in Nat /\ 0 < L
          BY <2>0
        <5>3. p = 0
          BY <2>0, <5>1, <5>2, OneQuotient
        <5> QED
          BY <3>8, <5>3
      <4>2. X(r) < X(r - 1)
        BY <1>1, <3>2, <4>1
      <4>3. q <= p - 1
        BY <3>4, <3>8, <4>2
      <4> HIDE DEF p, q
      <4> QED
        BY <3>4, <3>5, <3>8, <4>3
    <3> QED
      BY <3>6, <3>7, <3>8
  <2> QED
    BY <2>2, <2>3
<1>5. \A r \in Level : r > log(R) \/ R = 0 => at(r) = 0
  BY <1>1, <1>2
<1>6. R \in {1, 2} <=> at(0) = NaN
  <2>1. CASE R \in {1, 2}
    BY <1>1, <1>2, <2>1
  <2>2. CASE R \notin {1, 2}
    <3>1. at(0) \in Int
      BY <1>1, <1>4, <2>2
    <3> QED
      BY <1>1, <2>2, <3>1
  <2> QED
    BY <2>1, <2>2
<1> QED
  BY <1>4, <1>5, <1>6 DEF Falls, at, HalfBits

\* Whatever vector the constructor comes to falls with the height.
LEMMA BudgetsFallLemma ==
    ASSUME NEW R \in 0 .. Pow2[levels_] - 1, NEW b \in Budgets(R)
    PROVE  Falls(R, b) /\ DOMAIN b = Level
<1>1. levels_ \in Nat \ {0} /\ Pow2[levels_] \in Nat /\ NaN \notin Int
  BY BudgetAssumption, Pow2Assumption
<1>2. CASE R = 0
  <2>1. b = [n \in Level |-> 0]
    BY <1>2 DEF Budgets
  <2>2. \A r \in Level : levels_ - 1 - r \in Level
    BY <1>1 DEF Level
  <2>3. \A r \in Level : b[levels_ - 1 - r] = 0
    BY <2>1, <2>2
  <2>4. 0 \in Level /\ ~(R > 2) /\ R \notin {1, 2}
    BY <1>1, <1>2 DEF Level
  <2>5. b[levels_ - 1 - 0] # NaN
    BY <1>1, <2>3, <2>4
  <2> QED
    BY <2>1, <2>3, <2>4, <2>5 DEF Falls
<1>3. CASE R # 0
  <2>1. R \in 1 .. Pow2[levels_] - 1
    BY <1>1, <1>3
  <2>2. PICK one \in IntShift(log(R)) : b \in calBPK(R, one)
    BY <1>3 DEF Budgets
  <2>3. IsBudget(R, b)
    BY <2>1, <2>2, calBPKIs
  <2> QED
    BY <2>1, <2>3, IsBudgetFalls DEF IsBudget
<1> QED
  BY <1>2, <1>3

----------------------------------------------------------------------------
(* Least and greatest elements, and cardinalities.                         *)

LEMMA PairFacts ==
    ASSUME NEW x \in Int, NEW y \in Int
    PROVE  /\ Max({x, y}) = IF x >= y THEN x ELSE y
           /\ Min({x, y}) = IF x <= y THEN x ELSE y
<1>1. /\ Max({x, y}) = CHOOSE u \in {x, y} : \A v \in {x, y} : u >= v
      /\ Min({x, y}) = CHOOSE u \in {x, y} : \A v \in {x, y} : u <= v
  BY DEF Max, Min
<1>2. /\ \E u \in {x, y} : \A v \in {x, y} : u >= v
      /\ \E u \in {x, y} : \A v \in {x, y} : u <= v
  OBVIOUS
<1>3. /\ Max({x, y}) \in {x, y} /\ \A v \in {x, y} : Max({x, y}) >= v
      /\ Min({x, y}) \in {x, y} /\ \A v \in {x, y} : Min({x, y}) <= v
  BY <1>1, <1>2, Zenon
<1> QED
  BY <1>3

LEMMA SmallerOf ==
    ASSUME NEW x \in Nat, NEW y \in Nat
    PROVE  /\ Min({x, y}) \in Nat
           /\ x <= y => Min({x, y}) = x
           /\ y <= x => Min({x, y}) = y
<1>1. Min({x, y}) = IF x <= y THEN x ELSE y
  BY PairFacts
<1> QED
  BY <1>1

LEMMA LeastAndGreatest ==
    ASSUME NEW N \in Nat, NEW T \in SUBSET (0 .. N), T # {}
    PROVE  /\ Min(T) \in T /\ \A y \in T : Min(T) <= y
           /\ Max(T) \in T /\ \A y \in T : Max(T) >= y
           /\ Max(T) - Min(T) \in 0 .. N
<1>1. T \in SUBSET Nat
  OBVIOUS
<1>2. PICK x \in T : \A y \in T : x <= y
  BY <1>1, LeastElement
<1>3. PICK z \in T : \A y \in T : y <= z
  BY GreatestElement
<1>4. \A y \in T : z >= y
  BY <1>1, <1>3
<1>5. Min(T) = CHOOSE u \in T : \A v \in T : u <= v
  BY DEF Min
<1>6. Max(T) = CHOOSE u \in T : \A v \in T : u >= v
  BY DEF Max
<1>7. Min(T) \in T /\ \A y \in T : Min(T) <= y
  BY <1>2, <1>5, Zenon
<1>8. Max(T) \in T /\ \A y \in T : Max(T) >= y
  BY <1>4, <1>6, Zenon
<1>9. Max(T) - Min(T) \in 0 .. N
  <2>1. Max(T) \in 0 .. N /\ Min(T) \in 0 .. N /\ Min(T) <= Max(T)
    BY <1>7, <1>8
  <2> QED
    BY <2>1
<1> QED
  BY <1>7, <1>8, <1>9

\* Numbers of a sequence's elements are no more than it is long.
LEMMA PartOfSequence ==
    ASSUME NEW n \in Nat, NEW T \in SUBSET (1 .. n)
    PROVE  IsFiniteSet(T) /\ Cardinality(T) \in 0 .. n
<1>1. IsFiniteSet(1 .. n) /\ Cardinality(1 .. n) = n
  <2>1. 1 \in Int /\ n \in Int /\ n - 1 + 1 = n /\ (1 > n => n = 0)
    OBVIOUS
  <2> QED
    BY <2>1, FS_Interval
<1>2. IsFiniteSet(T) /\ Cardinality(T) <= Cardinality(1 .. n)
  BY <1>1, FS_Subset
<1>3. Cardinality(T) \in Nat
  BY <1>2, FS_CardinalityType
<1> QED
  BY <1>1, <1>2, <1>3

----------------------------------------------------------------------------
(* Types.                                                                  *)

TypeInv ==
    /\ TypeOK
    /\ driver \in {"workload", "workload_u64"}
    /\ percent \in Percents

StreamType == [lines : 0 .. MaxLines, newline : BOOLEAN, good : BOOLEAN]

LEMMA StreamOfFile ==
    ASSUME NEW file \in Files
    PROVE  Stream(file) \in StreamType
  BY DEF Files, Stream, StreamType

LEMMA KeysAreWords ==
    MaxWord \in Nat /\ MaxWord + 1 = Pow2[levels_] /\ Keys \subseteq 0 .. MaxWord
<1>1. levels_ \in 0 .. levels_
  BY BudgetAssumption
<1>2. Pow2[levels_] \in Nat \ {0}
  BY <1>1, Pow2Assumption
<1> QED
  BY <1>2, WorkloadAssumption DEF MaxWord

LEMMA TypeInit == Init => TypeInv
<1> SUFFICES ASSUME Init
             PROVE  TypeInv
  OBVIOUS
<1> USE WorkloadAssumption DEF Init
<1>1. load_file \in Files /\ txn_file \in Files
  BY DEF Files
<1>2. infile \in StreamType
  BY <1>1, StreamOfFile
<1>3. << >> \in Seq(Keys) /\ Len(<< >>) = 0 /\ DOMAIN << >> = {}
  OBVIOUS
<1> QED
  BY <1>1, <1>2, <1>3 DEF TypeInv, TypeOK, StreamType

\* What reading one key leaves of a stream.
LEMMA ReadType ==
    ASSUME infile \in StreamType,
           infile' = [infile EXCEPT !.lines = Max({@ - 1, 0}),
                                    !.good = \/ infile.lines > 1
                                             \/ infile.lines = 1 /\ infile.newline]
    PROVE  /\ infile' \in StreamType
           /\ infile'.newline = infile.newline
           /\ infile'.lines = IF infile.lines = 0 THEN 0 ELSE infile.lines - 1
           /\ infile'.good <=> infile.lines > 1 \/ (infile.lines = 1 /\ infile.newline)
<1>1. MaxLines \in Nat /\ infile.lines \in 0 .. MaxLines /\ infile.newline \in BOOLEAN
  BY WorkloadAssumption DEF StreamType
<1>2. Max({infile.lines - 1, 0}) = IF infile.lines = 0 THEN 0 ELSE infile.lines - 1
  <2>1. infile.lines - 1 \in Int /\ 0 \in Int
    BY <1>1
  <2>2. Max({infile.lines - 1, 0}) = IF infile.lines - 1 >= 0 THEN infile.lines - 1 ELSE 0
    BY <2>1, PairFacts
  <2> QED
    BY <1>1, <2>2
<1> DEFINE m == Max({infile.lines - 1, 0})
           b == infile.lines > 1 \/ (infile.lines = 1 /\ infile.newline)
<1>3. infile' = [infile EXCEPT !.lines = m, !.good = b]
  OBVIOUS
<1>4. m = IF infile.lines = 0 THEN 0 ELSE infile.lines - 1
  BY <1>2
<1>5. b \in BOOLEAN
  BY <1>1
<1> HIDE DEF m
<1>6. m \in 0 .. MaxLines
  BY <1>1, <1>4
<1> HIDE DEF b
<1>7. infile' \in StreamType /\ infile'.newline = infile.newline
      /\ infile'.lines = m /\ infile'.good = b
  BY <1>3, <1>5, <1>6 DEF StreamType
<1> QED
  BY <1>4, <1>7 DEF b

LEMMA TypeStep == TypeInv /\ [Next]_vars => TypeInv'
<1> SUFFICES ASSUME TypeInv, [Next]_vars
             PROVE  TypeInv'
  OBVIOUS
<1>0. /\ driver' = driver /\ percent' = percent /\ query_type' = query_type
  BY DEF Next, vars, args, CheckArgs, LoadKey, LoadTxn, ReadKey, OpenTxnFile,
         selectKeysToInsert, CreateUndefined, createFilter, Query, CountTruePositives
<1>1. /\ infile \in StreamType /\ {load_file, txn_file} \subseteq Files
      /\ load_keys \in Seq(Keys) /\ txn_keys \in Seq(Keys)
      /\ Len(load_keys) <= kNumIntRecords /\ Len(txn_keys) <= kNumIntRecords
      /\ insert_keys \in SUBSET Keys /\ level \in {0, levels_}
      /\ Len(load_keys) \in Nat /\ Len(txn_keys) \in Nat
      /\ i \in 0 .. Len(txn_keys) /\ positives \in 0 .. i
      /\ true_positives \in 0 .. Len(txn_keys)
      /\ driver \in {"workload", "workload_u64"}
  BY LenProperties DEF TypeInv, TypeOK, StreamType
<1>2. ASSUME CheckArgs
      PROVE  TypeInv'
  <2>1. {load_file', txn_file'} \subseteq Files /\ infile' \in StreamType
        /\ phase' \in {"wrong args", "load"}
    <3>1. CASE WrongArgs
      BY <1>1, <1>2, <3>1 DEF CheckArgs, files
    <3>2. CASE ~WrongArgs
      BY <1>1, <1>2, <3>2, StreamOfFile DEF CheckArgs, files
    <3> QED
      BY <3>1, <3>2
  <2> QED
    BY <1>0, <1>2, <2>1 DEF CheckArgs, args, data, counts, StreamType, TypeInv, TypeOK
<1>3. ASSUME LoadKey \/ LoadTxn
      PROVE  TypeInv'
  <2>1. infile' \in StreamType
    BY <1>1, <1>3, ReadType DEF LoadKey, LoadTxn, ReadKey
  <2>2. PICK key \in Keys :
             \/ /\ load_keys' = Append(load_keys, key) /\ Len(load_keys) < kNumIntRecords
                /\ UNCHANGED txn_keys
             \/ /\ txn_keys' = Append(txn_keys, key) /\ Len(txn_keys) < kNumIntRecords
                /\ UNCHANGED load_keys
    BY <1>3 DEF LoadKey, LoadTxn, ReadKey, MoreKeys
  <2>3. /\ Append(load_keys, key) \in Seq(Keys)
        /\ Len(Append(load_keys, key)) = Len(load_keys) + 1
        /\ Append(txn_keys, key) \in Seq(Keys)
        /\ Len(Append(txn_keys, key)) = Len(txn_keys) + 1
        /\ Len(load_keys) \in Nat /\ Len(txn_keys) \in Nat
    BY <1>1, AppendProperties
  <2>4. kNumIntRecords \in Nat
    BY WorkloadAssumption
  <2>5. /\ load_keys' \in Seq(Keys) /\ txn_keys' \in Seq(Keys)
        /\ Len(load_keys') <= kNumIntRecords /\ Len(txn_keys') <= kNumIntRecords
        /\ Len(txn_keys') >= Len(txn_keys) /\ Len(txn_keys') \in Nat
    <3>1. CASE load_keys' = Append(load_keys, key) /\ Len(load_keys) < kNumIntRecords
               /\ txn_keys' = txn_keys
      BY <1>1, <2>3, <2>4, <3>1
    <3>2. CASE txn_keys' = Append(txn_keys, key) /\ Len(txn_keys) < kNumIntRecords
               /\ load_keys' = load_keys
      BY <1>1, <2>3, <2>4, <3>2
    <3> QED
      BY <2>2, <3>1, <3>2
  <2>6. i' \in 0 .. Len(txn_keys') /\ true_positives' \in 0 .. Len(txn_keys')
    <3>1. i' = i /\ true_positives' = true_positives
      BY <1>3 DEF LoadKey, LoadTxn, ReadKey, counts
    <3> QED
      BY <1>1, <2>5, <3>1
  <2> QED
    BY <1>0, <1>3, <2>1, <2>5, <2>6
    DEF LoadKey, LoadTxn, ReadKey, args, counts, StreamType, TypeInv, TypeOK
<1>4. ASSUME OpenTxnFile
      PROVE  TypeInv'
  <2>1. infile' \in StreamType
    BY <1>4, StreamOfFile DEF OpenTxnFile
  <2> QED
    BY <1>0, <1>4, <2>1 DEF OpenTxnFile, args, data, counts, StreamType, TypeInv, TypeOK
<1>5. ASSUME selectKeysToInsert
      PROVE  TypeInv'
  <2>1. PICK chosen \in kSubset(num_insert_keys, DOMAIN load_keys) :
             insert_keys' = {load_keys[n] : n \in chosen}
    BY <1>5 DEF selectKeysToInsert
  <2>2. chosen \subseteq DOMAIN load_keys
    BY DEF kSubset
  <2>3. \A n \in DOMAIN load_keys : load_keys[n] \in Keys
    BY <1>1, ElementOfSeq, LenProperties
  <2>4. insert_keys' \in SUBSET Keys
    <3>1. ASSUME NEW key \in insert_keys'
          PROVE  key \in Keys
      <4>1. PICK n \in chosen : key = load_keys[n]
        BY <2>1
      <4> QED
        BY <2>2, <2>3, <4>1
    <3> QED
      BY <3>1
  <2>5. << >> \in Seq(Keys) /\ Len(<< >>) = 0 /\ 0 <= kNumIntRecords
    BY WorkloadAssumption
  <2> QED
    BY <1>0, <1>5, <2>4, <2>5 DEF selectKeysToInsert, args, files, counts, TypeInv, TypeOK
<1>6. ASSUME CreateUndefined
      PROVE  TypeInv'
  BY <1>0, <1>6 DEF CreateUndefined, args, files, data, counts, TypeInv, TypeOK
<1>7. ASSUME createFilter
      PROVE  TypeInv'
  <2>1. DOMAIN bpk' \in {{}, Level}
    <3>1. CASE driver = "workload_u64"
      <4>1. insert_keys # {} /\ bpk' \in Budgets(Max(insert_keys) - Min(insert_keys))
        BY <1>7, <3>1 DEF createFilter
      <4>2. Max(insert_keys) - Min(insert_keys) \in 0 .. MaxWord
        <5>1. insert_keys \in SUBSET (0 .. MaxWord) /\ MaxWord \in Nat
          BY <1>1, KeysAreWords
        <5> QED
          BY <4>1, <5>1, LeastAndGreatest
      <4> QED
        BY <4>1, <4>2, BudgetsFallLemma DEF MaxWord
    <3>2. CASE driver = "workload"
      <4>1. bpk' = [n \in {m \in Level : OverBitStrings /\ m < level} |-> bits_per_key]
        BY <1>7, <3>2 DEF createFilter
      <4>2. {m \in Level : OverBitStrings /\ m < level} \in {{}, Level}
        <5>1. /\ levels_ \in Nat \ {0} /\ Level \subseteq Nat
              /\ \A m \in Level : m < levels_
          BY BudgetAssumption DEF Level
        <5>2. CASE level = 0 \/ ~OverBitStrings
          <6>1. \A m \in Level : ~(OverBitStrings /\ m < level)
            BY <5>1, <5>2
          <6>2. {m \in Level : OverBitStrings /\ m < level} = {}
            BY <6>1
          <6> QED
            BY <6>2
        <5>3. CASE level = levels_ /\ OverBitStrings
          <6>1. \A m \in Level : OverBitStrings /\ m < level
            BY <5>1, <5>3
          <6>2. {m \in Level : OverBitStrings /\ m < level} = Level
            BY <6>1
          <6> QED
            BY <6>2
        <5> QED
          BY <1>1, <5>2, <5>3
      <4> QED
        BY <4>1, <4>2
    <3> QED
      BY <1>1, <3>1, <3>2
  <2> QED
    BY <1>0, <1>7, <2>1 DEF createFilter, args, files, counts, TypeInv, TypeOK
<1>8. ASSUME Query
      PROVE  TypeInv'
  <2>1. i < NumQueries /\ i' = i + 1 /\ positives' \in {positives, positives + 1}
    BY <1>8 DEF Query
  <2>2. Len(txn_keys) \in Nat /\ NumQueries \in {Len(txn_keys), Len(txn_keys) - 1}
    BY <1>1 DEF NumQueries
  <2> DEFINE n == Len(txn_keys)
  <2>3. i' \in 0 .. n /\ positives' \in 0 .. i'
    <3>1. n \in Nat /\ i \in 0 .. n /\ positives \in 0 .. i
      BY <1>1
    <3>2. i < n
      <4>1. NumQueries = n \/ NumQueries = n - 1
        BY <2>2
      <4> HIDE DEF n
      <4> QED
        BY <2>1, <3>1, <4>1
    <3> HIDE DEF n
    <3> QED
      BY <2>1, <3>1, <3>2
  <2> QED
    BY <1>0, <1>8, <2>3 DEF Query, args, files, data, TypeInv, TypeOK
<1>9. ASSUME CountTruePositives
      PROVE  TypeInv'
  <2> DEFINE T == {n \in DOMAIN txn_keys : TruePositive(Kind(n), txn_keys[n])}
  <2>1. T \in SUBSET (1 .. Len(txn_keys)) /\ Len(txn_keys) \in Nat
    BY <1>1, LenProperties
  <2>2. true_positives' = Cardinality(T)
    BY <1>9 DEF CountTruePositives
  <2> HIDE DEF T
  <2>3. true_positives' \in 0 .. Len(txn_keys)
    BY <2>1, <2>2, PartOfSequence
  <2>4. phase' \in {"assertion failed", "done"}
    BY <1>9 DEF CountTruePositives
  <2> QED
    BY <1>0, <1>9, <2>3, <2>4 DEF CountTruePositives, args, files, data, TypeInv, TypeOK
<1>10. CASE UNCHANGED vars
  BY <1>0, <1>10 DEF vars, args, files, data, counts, TypeInv, TypeOK
<1> QED
  BY <1>2, <1>3, <1>4, <1>5, <1>6, <1>7, <1>8, <1>9, <1>10 DEF Next

\* The variables keep their types: at most kNumIntRecords keys are read from a file,
\* no more queries made than there are keys to ask for, and as many bits-per-key
\* entries written as the filter has levels, or none.
THEOREM TypesCorrect == Spec => []TypeOK
<1>1. TypeInv => TypeOK
  BY DEF TypeInv
<1> QED
  BY TypeInit, TypeStep, <1>1, PTL DEF Spec

----------------------------------------------------------------------------
(* What the drivers build over and when they do not.                       *)

\* The keys a stream still gives.
Rest(stream) ==
    IF ~stream.good THEN 0
    ELSE stream.lines + IF stream.newline \/ stream.lines = 0 THEN 1 ELSE 0

BeforeFiles == {"args", "wrong args"}

Reading == {"load", "txn"}

LoadInv ==
    /\ phase \in BeforeFiles => load_keys = << >>
    /\ phase \in BeforeFiles \cup {"load"} => txn_keys = << >>
    /\ phase = "load" =>
          Min({kNumIntRecords, Len(load_keys) + Rest(infile)}) = KeysIn(load_file)
    /\ phase = "txn" =>
          /\ Len(load_keys) = KeysIn(load_file)
          /\ Min({kNumIntRecords, Len(txn_keys) + Rest(infile)}) = KeysIn(txn_file)
    /\ phase \in BeforeFiles \cup Reading =>
          (level = 0 <=> Len(load_keys) + Len(txn_keys) = 0)
    /\ phase \notin BeforeFiles \cup Reading =>
          /\ level = 0 <=> KeysIn(load_file) + KeysIn(txn_file) = 0
          /\ insert_keys = {} <=> KeysIn(load_file) * percent < 100
    /\ UndefinedExactlyWithoutKeys

LEMMA RestFacts ==
    /\ kNumIntRecords \in Nat
    /\ \A stream \in StreamType : Rest(stream) \in Nat
    /\ \A file \in Files :
          /\ KeysIn(file) \in Nat
          /\ KeysIn(file) = Min({kNumIntRecords, 0 + Rest(Stream(file))})
<1>1. kNumIntRecords \in Nat /\ MaxLines \in Nat
  BY WorkloadAssumption
<1>2. ASSUME NEW stream \in StreamType
      PROVE  Rest(stream) \in Nat
  <2>1. stream.lines \in Nat
    BY <1>1 DEF StreamType
  <2> QED
    BY <2>1 DEF Rest
<1>3. ASSUME NEW file \in Files
      PROVE  /\ KeysIn(file) \in Nat
             /\ KeysIn(file) = Min({kNumIntRecords, 0 + Rest(Stream(file))})
  <2>1. file.lines \in Nat /\ file.exists \in BOOLEAN
    BY <1>1 DEF Files
  <2>2. /\ Stream(file).good = file.exists
        /\ Stream(file).lines = file.lines
        /\ Stream(file).newline = file.newline
    BY DEF Stream
  <2> DEFINE n == file.lines + IF file.newline \/ file.lines = 0 THEN 1 ELSE 0
  <2>3. n \in Nat
    BY <2>1
  <2>4. CASE file.exists
    <3>1. Rest(Stream(file)) = n
      BY <2>2, <2>4 DEF Rest
    <3>2. KeysIn(file) = Min({kNumIntRecords, n})
      BY <2>4 DEF KeysIn
    <3> HIDE DEF n
    <3>3. Min({kNumIntRecords, n}) \in Nat
      BY <1>1, <2>3, SmallerOf
    <3>4. 0 + n = n
      BY <2>3
    <3> QED
      BY <3>1, <3>2, <3>3, <3>4
  <2>5. CASE ~file.exists
    <3>1. Rest(Stream(file)) = 0 /\ KeysIn(file) = 0
      BY <2>2, <2>5 DEF Rest, KeysIn
    <3>2. Min({kNumIntRecords, 0}) = 0
      BY <1>1, SmallerOf
    <3> QED
      BY <3>1, <3>2
  <2> QED
    BY <2>4, <2>5
<1> QED
  BY <1>1, <1>2, <1>3

\* Reading a key takes one of those the stream still gives.
LEMMA ReadTakesOne ==
    ASSUME infile \in StreamType, infile.good,
           infile' = [infile EXCEPT !.lines = Max({@ - 1, 0}),
                                    !.good = \/ infile.lines > 1
                                             \/ infile.lines = 1 /\ infile.newline]
    PROVE  Rest(infile') + 1 = Rest(infile)
<1>1. /\ infile'.newline = infile.newline
      /\ infile'.lines = IF infile.lines = 0 THEN 0 ELSE infile.lines - 1
      /\ infile'.good <=> infile.lines > 1 \/ (infile.lines = 1 /\ infile.newline)
  BY ReadType
<1>2. infile.lines \in Nat /\ infile.newline \in BOOLEAN
  BY WorkloadAssumption DEF StreamType
<1>3. CASE infile.lines = 0
  BY <1>1, <1>2, <1>3 DEF Rest
<1>4. CASE infile.lines = 1
  BY <1>1, <1>2, <1>4 DEF Rest
<1>5. CASE infile.lines > 1
  <2>1. infile'.good /\ infile'.lines = infile.lines - 1 /\ infile.lines - 1 # 0 /\ infile.lines # 0
    BY <1>1, <1>2, <1>5
  <2>2. Rest(infile) = infile.lines + IF infile.newline THEN 1 ELSE 0
    BY <2>1 DEF Rest
  <2>3. Rest(infile') = infile.lines - 1 + IF infile.newline THEN 1 ELSE 0
    BY <1>1, <2>1 DEF Rest
  <2> QED
    BY <1>2, <2>2, <2>3
<1> QED
  BY <1>2, <1>3, <1>4, <1>5

\* When no more keys are read, a file has given what it does.
LEMMA AllRead ==
    ASSUME NEW keys, Len(keys) \in Nat, Len(keys) <= kNumIntRecords, ~MoreKeys(keys),
           infile \in StreamType
    PROVE  Min({kNumIntRecords, Len(keys) + Rest(infile)}) = Len(keys)
<1> DEFINE n == Len(keys)
           m == n + Rest(infile)
<1>1. kNumIntRecords \in Nat /\ Rest(infile) \in Nat /\ m \in Nat /\ n <= m
  BY RestFacts
<1>2. CASE n = kNumIntRecords
  <2>1. kNumIntRecords <= m
    BY <1>1, <1>2
  <2> QED
    BY <1>1, <1>2, <2>1, SmallerOf
<1>3. CASE ~infile.good
  <2>1. Rest(infile) = 0
    BY <1>3 DEF Rest
  <2>2. m = n
    BY <2>1
  <2> HIDE DEF m
  <2>3. Min({kNumIntRecords, m}) = n
    BY <1>1, <2>2, SmallerOf
  <2> QED
    BY <2>3 DEF m
<1> QED
  BY <1>1, <1>2, <1>3 DEF MoreKeys

LEMMA LoadInit == Init => LoadInv
<1> SUFFICES ASSUME Init
             PROVE  LoadInv
  OBVIOUS
<1>1. phase = "args" /\ load_keys = << >> /\ txn_keys = << >> /\ level = 0 /\ Len(<< >>) = 0
  BY DEF Init
<1>2. Len(load_keys) + Len(txn_keys) = 0
  BY <1>1
<1> QED
  BY <1>1, <1>2 DEF LoadInv, BeforeFiles, Reading, UndefinedExactlyWithoutKeys

LEMMA LoadStep == TypeInv /\ LoadInv /\ [Next]_vars => LoadInv'
<1> SUFFICES ASSUME TypeInv, LoadInv, [Next]_vars
             PROVE  LoadInv'
  OBVIOUS
<1>0. /\ driver' = driver /\ percent' = percent /\ filter_type' = filter_type
  BY DEF Next, vars, args, CheckArgs, LoadKey, LoadTxn, ReadKey, OpenTxnFile,
         selectKeysToInsert, CreateUndefined, createFilter, Query, CountTruePositives
<1>1. /\ infile \in StreamType /\ load_file \in Files /\ txn_file \in Files
      /\ load_keys \in Seq(Keys) /\ txn_keys \in Seq(Keys)
      /\ Len(load_keys) <= kNumIntRecords /\ Len(txn_keys) <= kNumIntRecords
      /\ Len(load_keys) \in Nat /\ Len(txn_keys) \in Nat
      /\ percent \in Nat /\ levels_ # 0 /\ Len(<< >>) = 0
      /\ KeysIn(load_file) \in Nat /\ KeysIn(txn_file) \in Nat
      /\ driver \in {"workload", "workload_u64"}
  BY LenProperties, RestFacts, WorkloadAssumption, BudgetAssumption
  DEF TypeInv, TypeOK, StreamType
<1> USE DEF BeforeFiles, Reading
<1>2. ASSUME CheckArgs
      PROVE  LoadInv'
  <2>1. /\ load_keys' = << >> /\ txn_keys' = << >> /\ level' = level
        /\ Len(load_keys) + Len(txn_keys) = 0 /\ level = 0
    <3>1. phase = "args" /\ load_keys' = load_keys /\ txn_keys' = txn_keys /\ level' = level
      BY <1>2 DEF CheckArgs, data
    <3>2. load_keys = << >> /\ txn_keys = << >>
      BY <3>1 DEF LoadInv
    <3>3. Len(load_keys) + Len(txn_keys) = 0
      BY <1>1, <3>2
    <3>4. level = 0
      BY <3>1, <3>3 DEF LoadInv
    <3> QED
      BY <3>1, <3>2, <3>3, <3>4
  <2>2. Len(load_keys') + Len(txn_keys') = 0 /\ level' = 0
    BY <1>1, <2>1
  <2>3. CASE WrongArgs
    <3>1. phase' = "wrong args"
      BY <1>2, <2>3 DEF CheckArgs
    <3> QED
      BY <2>1, <2>2, <3>1 DEF LoadInv, UndefinedExactlyWithoutKeys
  <2>4. CASE ~WrongArgs
    <3>1. phase' = "load" /\ load_file' \in Files /\ infile' = Stream(load_file')
      BY <1>2, <2>4 DEF CheckArgs
    <3>2. Min({kNumIntRecords, 0 + Rest(infile')}) = KeysIn(load_file')
      BY <3>1, RestFacts
    <3>3. Len(load_keys') = 0
      BY <1>1, <2>1
    <3> QED
      BY <2>1, <2>2, <3>1, <3>2, <3>3 DEF LoadInv, UndefinedExactlyWithoutKeys
  <2> QED
    BY <2>3, <2>4
<1>3. ASSUME LoadKey
      PROVE  LoadInv'
  <2>1. /\ phase = "load" /\ phase' = "load" /\ load_file' = load_file /\ level' = levels_
        /\ txn_keys' = txn_keys /\ infile.good
    BY <1>3 DEF LoadKey, ReadKey, MoreKeys
  <2>2. PICK key \in Keys : load_keys' = Append(load_keys, key)
    BY <1>3 DEF LoadKey, ReadKey
  <2>3. Len(load_keys') = Len(load_keys) + 1
    BY <1>1, <2>2, AppendProperties
  <2>4. Rest(infile') + 1 = Rest(infile)
    BY <1>1, <1>3, <2>1, ReadTakesOne DEF LoadKey, ReadKey
  <2>5. infile' \in StreamType
    BY <1>1, <1>3, ReadType DEF LoadKey, ReadKey
  <2>6. Len(load_keys') + Rest(infile') = Len(load_keys) + Rest(infile)
    BY <1>1, <2>3, <2>4, <2>5, RestFacts
  <2>7. Min({kNumIntRecords, Len(load_keys') + Rest(infile')}) = KeysIn(load_file')
    BY <2>1, <2>6 DEF LoadInv
  <2>8. txn_keys' = << >>
    BY <2>1 DEF LoadInv
  <2>9. Len(load_keys') + Len(txn_keys') # 0 /\ level' # 0
    BY <1>1, <2>1, <2>3, <2>8
  <2> QED
    BY <2>1, <2>7, <2>8, <2>9 DEF LoadInv, UndefinedExactlyWithoutKeys
<1>4. ASSUME OpenTxnFile
      PROVE  LoadInv'
  <2>1. /\ phase = "load" /\ phase' = "txn" /\ load_file' = load_file
        /\ txn_file' \in Files /\ infile' = Stream(txn_file')
        /\ load_keys' = load_keys /\ txn_keys' = txn_keys /\ level' = level
        /\ ~MoreKeys(load_keys)
    BY <1>4 DEF OpenTxnFile, data
  <2>2. Len(load_keys) = KeysIn(load_file)
    BY <1>1, <2>1, AllRead DEF LoadInv
  <2>3. txn_keys = << >>
    BY <2>1 DEF LoadInv
  <2>4. Min({kNumIntRecords, 0 + Rest(infile')}) = KeysIn(txn_file')
    BY <2>1, RestFacts
  <2>5. Len(txn_keys') = 0
    BY <1>1, <2>1, <2>3
  <2>6. level' = 0 <=> Len(load_keys') + Len(txn_keys') = 0
    BY <2>1 DEF LoadInv
  <2> QED
    BY <2>1, <2>2, <2>4, <2>5, <2>6 DEF LoadInv, UndefinedExactlyWithoutKeys
<1>5. ASSUME LoadTxn
      PROVE  LoadInv'
  <2>1. /\ phase = "txn" /\ phase' = "txn" /\ load_file' = load_file /\ txn_file' = txn_file
        /\ level' = levels_ /\ load_keys' = load_keys /\ infile.good
    BY <1>5 DEF LoadTxn, ReadKey, MoreKeys
  <2>2. PICK key \in Keys : txn_keys' = Append(txn_keys, key)
    BY <1>5 DEF LoadTxn, ReadKey
  <2>3. Len(txn_keys') = Len(txn_keys) + 1
    BY <1>1, <2>2, AppendProperties
  <2>4. Rest(infile') + 1 = Rest(infile)
    BY <1>1, <1>5, <2>1, ReadTakesOne DEF LoadTxn, ReadKey
  <2>5. infile' \in StreamType
    BY <1>1, <1>5, ReadType DEF LoadTxn, ReadKey
  <2>6. Len(txn_keys') + Rest(infile') = Len(txn_keys) + Rest(infile)
    BY <1>1, <2>3, <2>4, <2>5, RestFacts
  <2>7. /\ Len(load_keys') = KeysIn(load_file')
        /\ Min({kNumIntRecords, Len(txn_keys') + Rest(infile')}) = KeysIn(txn_file')
    BY <2>1, <2>6 DEF LoadInv
  <2>8. Len(load_keys') + Len(txn_keys') # 0 /\ level' # 0
    BY <1>1, <2>1, <2>3
  <2> QED
    BY <2>1, <2>7, <2>8 DEF LoadInv, UndefinedExactlyWithoutKeys
<1>6. ASSUME selectKeysToInsert
      PROVE  LoadInv'
  <2>1. /\ phase = "txn" /\ phase' = "create" /\ load_file' = load_file /\ txn_file' = txn_file
        /\ level' = level /\ ~MoreKeys(txn_keys)
    BY <1>6 DEF selectKeysToInsert, files
  <2>2. Len(load_keys) = KeysIn(load_file)
    BY <2>1 DEF LoadInv
  <2>3. Len(txn_keys) = KeysIn(txn_file)
    BY <1>1, <2>1, AllRead DEF LoadInv
  <2>4. level' = 0 <=> KeysIn(load_file') + KeysIn(txn_file') = 0
    BY <2>1, <2>2, <2>3 DEF LoadInv
  <2>5. PICK chosen \in kSubset(num_insert_keys, DOMAIN load_keys) :
             insert_keys' = {load_keys[n] : n \in chosen}
    BY <1>6 DEF selectKeysToInsert
  <2>6. chosen \in SUBSET (1 .. Len(load_keys)) /\ Cardinality(chosen) = num_insert_keys
    BY <1>1, LenProperties DEF kSubset
  <2>7. chosen = {} <=> num_insert_keys = 0
    BY <1>1, <2>6, PartOfSequence, FS_EmptySet
  <2>8. insert_keys' = {} <=> chosen = {}
    BY <2>5
  <2>9. num_insert_keys = 0 <=> KeysIn(load_file) * percent < 100
    <3> DEFINE k == KeysIn(load_file) * percent
    <3>1. k \in Nat
      BY <1>1
    <3>2. num_insert_keys = k \div 100
      BY <2>2 DEF num_insert_keys
    <3> HIDE DEF k
    <3>3. k \div 100 = 0 <=> k < 100
      BY <3>1
    <3> QED
      BY <3>2, <3>3 DEF k
  <2>10. insert_keys' = {} <=> KeysIn(load_file') * percent' < 100
    BY <1>0, <2>1, <2>7, <2>8, <2>9
  <2> QED
    BY <2>1, <2>4, <2>10 DEF LoadInv, UndefinedExactlyWithoutKeys
<1>7. ASSUME CreateUndefined \/ createFilter
      PROVE  LoadInv'
  <2>1. /\ phase = "create" /\ phase' \in {"undefined", "execute"}
        /\ load_file' = load_file /\ txn_file' = txn_file
        /\ level' = level /\ insert_keys' = insert_keys
    BY <1>7 DEF CreateUndefined, createFilter, files, data
  <2>2. /\ level = 0 <=> KeysIn(load_file) + KeysIn(txn_file) = 0
        /\ insert_keys = {} <=> KeysIn(load_file) * percent < 100
    BY <2>1 DEF LoadInv
  <2>3. phase' = "undefined" <=>
            \/ driver = "workload_u64" /\ insert_keys = {}
            \/ driver = "workload" /\ filter_type = "ElasticRosetta" /\ level = 0
    <3>1. CASE CreateUndefined
      BY <3>1 DEF CreateUndefined, OverBitStrings
    <3>2. CASE createFilter
      BY <3>2 DEF createFilter
    <3> QED
      BY <1>7, <3>1, <3>2
  <2> QED
    BY <1>0, <2>1, <2>2, <2>3 DEF LoadInv, UndefinedExactlyWithoutKeys
<1>8. ASSUME Query \/ CountTruePositives
      PROVE  LoadInv'
  <2>1. /\ phase = "execute" /\ phase' \in {"execute", "assertion failed", "done"}
        /\ load_file' = load_file /\ txn_file' = txn_file
        /\ level' = level /\ insert_keys' = insert_keys
    BY <1>8 DEF Query, CountTruePositives, files, data
  <2> QED
    BY <1>0, <2>1 DEF LoadInv, UndefinedExactlyWithoutKeys
<1>9. CASE UNCHANGED vars
  BY <1>0, <1>9 DEF vars, args, files, data, LoadInv, UndefinedExactlyWithoutKeys
<1> QED
  BY <1>2, <1>3, <1>4, <1>5, <1>6, <1>7, <1>8, <1>9 DEF Next

\* The drivers end up building a u64 filter over no key exactly when the percentage of
\* the keys in the file comes to less than one, and an ElasticRosetta over strings of no
\* bits exactly when neither file gives a key: the keys of a file are counted as the
\* loop "while (count < num_records && infile.good())" of bench.hpp counts them.
THEOREM UndefinedWithoutKeys == Spec => []UndefinedExactlyWithoutKeys
<1>1. TypeInv /\ LoadInv => UndefinedExactlyWithoutKeys
  BY DEF LoadInv
<1> QED
  BY TypeInit, TypeStep, LoadInit, LoadStep, <1>1, PTL DEF Spec

----------------------------------------------------------------------------
(* The budget of the filter the u64 driver builds.                         *)

BudgetInv ==
    driver = "workload_u64" /\ phase \in {"execute", "done"} =>
        /\ insert_keys # {}
        /\ bpk \in Budgets(Max(insert_keys) - Min(insert_keys))

LEMMA BudgetInit == Init => BudgetInv
  BY DEF Init, BudgetInv

LEMMA BudgetStep == TypeInv /\ BudgetInv /\ [Next]_vars => BudgetInv'
<1> SUFFICES ASSUME BudgetInv, [Next]_vars
             PROVE  BudgetInv'
  OBVIOUS
<1>1. ASSUME CheckArgs \/ LoadKey \/ OpenTxnFile \/ LoadTxn \/ selectKeysToInsert
             \/ CreateUndefined
      PROVE  BudgetInv'
  <2>1. phase' \notin {"execute", "done"}
    BY <1>1 DEF CheckArgs, LoadKey, LoadTxn, ReadKey, OpenTxnFile, selectKeysToInsert,
                CreateUndefined
  <2> QED
    BY <2>1 DEF BudgetInv
<1>2. ASSUME createFilter
      PROVE  BudgetInv'
  BY <1>2 DEF createFilter, BudgetInv, args
<1>3. ASSUME Query \/ CountTruePositives
      PROVE  BudgetInv'
  <2>1. /\ driver' = driver /\ insert_keys' = insert_keys /\ bpk' = bpk /\ phase = "execute"
    BY <1>3 DEF Query, CountTruePositives, args, data
  <2> QED
    BY <2>1 DEF BudgetInv
<1>4. CASE UNCHANGED vars
  BY <1>4 DEF vars, args, data, BudgetInv
<1> QED
  BY <1>1, <1>2, <1>3, <1>4 DEF Next

\* The vector calBPK comes to, whatever the int shift of g comes to and whichever
\* quotient falls short by one, gives the leaves twice the half of bits_per_key and the
\* height of the key range that half, no level more than the one below it, and nothing
\* to the levels above; and leaves the leaves' entry undefined for key ranges of 1 and 2.
THEOREM BudgetsFall == Spec => []BudgetFallsWithHeight
<1>1. TypeInv /\ BudgetInv => BudgetFallsWithHeight
  <2> SUFFICES ASSUME TypeInv, BudgetInv, driver = "workload_u64",
                      phase \in {"execute", "done"}
               PROVE  Falls(Max(insert_keys) - Min(insert_keys), bpk)
    BY DEF BudgetFallsWithHeight, Falls
  <2>1. insert_keys # {} /\ bpk \in Budgets(Max(insert_keys) - Min(insert_keys))
    BY DEF BudgetInv
  <2>2. insert_keys \in SUBSET (0 .. MaxWord) /\ MaxWord \in Nat
    BY KeysAreWords DEF TypeInv, TypeOK
  <2>3. Max(insert_keys) - Min(insert_keys) \in 0 .. MaxWord
    BY <2>1, <2>2, LeastAndGreatest
  <2> QED
    BY <2>1, <2>3, BudgetsFallLemma DEF MaxWord
<1> QED
  BY TypeInit, TypeStep, BudgetInit, BudgetStep, <1>1, PTL DEF Spec

----------------------------------------------------------------------------
(* Answers.                                                                *)

TruePositivesUpTo(n) == {m \in 1 .. n : TruePositive(Kind(m), txn_keys[m])}

Supported ==
    /\ AskedAsBuilt
    /\ filter_type \in PointFilters => query_type \notin {"range", "mix"}

AnswersInv ==
    /\ phase \notin {"execute", "done", "assertion failed"} => i = 0
    /\ phase = "execute" /\ Supported => positives >= Cardinality(TruePositivesUpTo(i))
    /\ AssertionHoldsAsBuilt

\* What is a true positive is answered as one, where that is supported.
LEMMA TruePositiveIsAnswered ==
    ASSUME TypeInv, Supported, NEW n \in Nat, NEW key \in Keys,
           TruePositive(Kind(n), key)
    PROVE  MustBePositive(Kind(n), key) /\ ~NeverPositive(Kind(n), key)
<1> DEFINE kind == Kind(n)
<1>1. kind = "range" => query_type \in {"range", "mix"}
  BY DEF Kind
<1>2. CASE kind = "point"
  <2>1. key \in insert_keys
    BY <1>2 DEF TruePositive
  <2> QED
    BY <1>2, <2>1 DEF MustBePositive, Holds, NeverPositive, Supported
<1>3. CASE kind = "range"
  <2>1. From(key) # {} /\ BelowUpper(Min(From(key)), key)
    BY <1>3 DEF TruePositive
  <2>2. insert_keys \in SUBSET (0 .. MaxWord) /\ MaxWord \in Nat
    BY KeysAreWords DEF TypeInv, TypeOK
  <2> DEFINE k == Min(From(key))
  <2>3. k \in insert_keys /\ k >= key
    <3>1. From(key) \in SUBSET (0 .. MaxWord)
      BY <2>2 DEF From
    <3>2. k \in From(key)
      BY <2>1, <2>2, <3>1, LeastAndGreatest
    <3> QED
      BY <3>2 DEF From
  <2> HIDE DEF k
  <2>4. BelowUpper(k, key)
    BY <2>1 DEF k
  <2>5. ~OverBitStrings
    BY DEF Supported, AskedAsBuilt
  <2>6. Upper(key) \in Nat /\ key \in Nat /\ k \in Nat
    <3>1. key + kIntRangeSize \in Nat /\ Pow2[levels_] \in Nat \ {0} /\ key \in Nat
      <4>1. MaxWord \in Nat /\ MaxWord + 1 = Pow2[levels_] /\ key \in 0 .. MaxWord
            /\ kIntRangeSize \in 1 .. MaxWord
        BY KeysAreWords, WorkloadAssumption
      <4> QED
        BY <4>1
    <3> QED
      BY <2>2, <2>3, <3>1, DivMod DEF Upper
  <2>7. /\ key <= k /\ k <= Upper(key)
        /\ driver = "workload_u64" => ~(Upper(key) <= key)
    <3>1. CASE driver = "workload_u64" /\ Upper(key) > key /\ k <= Upper(key)
      BY <2>3, <2>6, <3>1
    <3>2. CASE driver = "workload" /\ k < Upper(key)
      BY <2>3, <2>6, <3>2
    <3> QED
      BY <2>4, <2>5, <3>1, <3>2 DEF BelowUpper
  <2>8. filter_type \notin PointFilters
    BY <1>1, <1>3 DEF Supported
  <2> QED
    BY <1>3, <2>3, <2>7, <2>8
    DEF MustBePositive, Holds, NeverPositive, Supported, AskedAsBuilt
<1> QED
  BY <1>2, <1>3 DEF TruePositive

LEMMA AnswersInit == Init => AnswersInv
  BY DEF Init, AnswersInv, AssertionHoldsAsBuilt

LEMMA AnswersStep == TypeInv /\ AnswersInv /\ [Next]_vars => AnswersInv'
<1> SUFFICES ASSUME TypeInv, AnswersInv, [Next]_vars
             PROVE  AnswersInv'
  OBVIOUS
<1>0. driver' = driver /\ filter_type' = filter_type /\ query_type' = query_type
  BY DEF Next, vars, args, CheckArgs, LoadKey, LoadTxn, ReadKey, OpenTxnFile,
         selectKeysToInsert, CreateUndefined, createFilter, Query, CountTruePositives
<1>1. /\ txn_keys \in Seq(Keys) /\ Len(txn_keys) \in Nat
      /\ i \in 0 .. Len(txn_keys) /\ positives \in 0 .. i
      /\ i \in Nat /\ positives \in Nat
      /\ phase \in {"args", "wrong args", "load", "txn", "create", "execute",
                    "undefined", "assertion failed", "done"}
  <2>1. /\ txn_keys \in Seq(Keys) /\ i \in 0 .. Len(txn_keys) /\ positives \in 0 .. i
        /\ phase \in {"args", "wrong args", "load", "txn", "create", "execute",
                      "undefined", "assertion failed", "done"}
    BY DEF TypeInv, TypeOK
  <2>2. Len(txn_keys) \in Nat
    BY <2>1, LenProperties
  <2>3. \A n \in Nat : \A m \in 0 .. n : m \in Nat
    OBVIOUS
  <2>4. i \in Nat
    BY <2>1, <2>2, <2>3, Zenon
  <2>5. positives \in Nat
    BY <2>1, <2>3, <2>4, Zenon
  <2> QED
    BY <2>1, <2>2, <2>4, <2>5
<1>2. Supported' <=> Supported
  BY <1>0 DEF Supported, AskedAsBuilt, OverBitStrings
<1>3. ASSUME CheckArgs \/ LoadKey \/ OpenTxnFile \/ LoadTxn \/ selectKeysToInsert
             \/ CreateUndefined
      PROVE  AnswersInv'
  <2>1. /\ phase \in {"args", "load", "txn", "create"} /\ i' = i
        /\ phase' \in {"wrong args", "load", "txn", "create", "undefined"}
    BY <1>3 DEF CheckArgs, LoadKey, LoadTxn, ReadKey, OpenTxnFile, selectKeysToInsert,
                CreateUndefined, counts
  <2> QED
    BY <2>1 DEF AnswersInv, AssertionHoldsAsBuilt
<1>4. ASSUME createFilter
      PROVE  AnswersInv'
  <2>1. phase = "create" /\ phase' = "execute" /\ i' = i /\ positives' = positives
    BY <1>4 DEF createFilter, counts
  <2>2. i = 0
    BY <2>1 DEF AnswersInv
  <2>3. positives' = 0 /\ i' = 0
    BY <1>1, <2>1, <2>2
  <2>4. TruePositivesUpTo(i)' = {}
    BY <2>3 DEF TruePositivesUpTo
  <2>5. Cardinality(TruePositivesUpTo(i)') = 0
    BY <2>4, FS_EmptySet
  <2>6. positives' >= Cardinality(TruePositivesUpTo(i)')
    BY <2>3, <2>5
  <2> QED
    BY <2>1, <2>6 DEF AnswersInv, AssertionHoldsAsBuilt
<1>5. ASSUME Query
      PROVE  AnswersInv'
  <2>1. /\ phase = "execute" /\ phase' = "execute" /\ i < NumQueries /\ i' = i + 1
        /\ txn_keys' = txn_keys /\ insert_keys' = insert_keys
    BY <1>5 DEF Query, data
  <2> SUFFICES ASSUME Supported
               PROVE  positives' >= Cardinality(TruePositivesUpTo(i)')
    BY <1>2, <2>1 DEF AnswersInv, AssertionHoldsAsBuilt
  <2> DEFINE Before == TruePositivesUpTo(i)
             After == TruePositivesUpTo(i)'
             True == TruePositive(Kind(i + 1), txn_keys[i + 1])
  <2>2. i \in Nat /\ i + 1 \in 1 .. Len(txn_keys)
    <3> DEFINE n == Len(txn_keys)
    <3>1. n \in Nat /\ i \in 0 .. n /\ (NumQueries = n \/ NumQueries = n - 1)
      BY <1>1 DEF NumQueries
    <3> HIDE DEF n
    <3>2. i \in Nat /\ i + 1 \in 1 .. n
      BY <2>1, <3>1
    <3> QED
      BY <3>2 DEF n
  <2>4. After = Before \cup IF True THEN {i + 1} ELSE {}
    <3>1. After = {n \in 1 .. i + 1 : TruePositive(Kind(n), txn_keys[n])}
      BY <1>0, <2>1
      DEF TruePositivesUpTo, TruePositive, Kind, From, BelowUpper, OverBitStrings
    <3>2. 1 .. i + 1 = (1 .. i) \cup {i + 1}
      BY <2>2
    <3> QED
      BY <3>1, <3>2 DEF TruePositivesUpTo
  <2>5. IsFiniteSet(Before) /\ Cardinality(Before) \in Nat
    <3>1. Before \in SUBSET (1 .. i)
      BY DEF TruePositivesUpTo
    <3> QED
      BY <2>2, <3>1, PartOfSequence
  <2>6. positives >= Cardinality(Before) /\ positives \in Nat
    BY <1>1, <2>1, <2>2 DEF AnswersInv
  <2>7. CASE True
    <3>1. Cardinality(After) = Cardinality(Before) + 1
      <4>1. i + 1 \notin Before
        BY <2>2 DEF TruePositivesUpTo
      <4> QED
        BY <2>4, <2>5, <2>7, <4>1, FS_AddElement
    <3>2. txn_keys[i + 1] \in Keys /\ i + 1 \in Nat
      <4>1. txn_keys[i + 1] \in Keys
        BY <1>1, <2>2, ElementOfSeq
      <4> QED
        BY <2>2, <4>1
    <3>3. /\ MustBePositive(Kind(i + 1), txn_keys[i + 1])
          /\ ~NeverPositive(Kind(i + 1), txn_keys[i + 1])
      BY <2>7, <3>2, TruePositiveIsAnswered
    <3>4. positives' = positives + 1
      BY <1>5, <3>3 DEF Query
    <3> QED
      BY <2>5, <2>6, <3>1, <3>4
  <2>8. CASE ~True
    <3>1. After = Before
      BY <2>4, <2>8
    <3>2. positives' \in {positives, positives + 1}
      BY <1>5 DEF Query
    <3> QED
      BY <2>5, <2>6, <3>1, <3>2
  <2> QED
    BY <2>7, <2>8
<1>6. ASSUME CountTruePositives
      PROVE  AnswersInv'
  <2> DEFINE All == {n \in DOMAIN txn_keys : TruePositive(Kind(n), txn_keys[n])}
  <2>1. /\ phase = "execute" /\ phase' \in {"done", "assertion failed"} /\ i >= NumQueries
        /\ positives' = positives /\ true_positives' = Cardinality(All)
        /\ phase' = "assertion failed" => positives < true_positives'
    BY <1>6 DEF CountTruePositives
  <2> SUFFICES ASSUME Supported
               PROVE  positives' >= true_positives' /\ ~(positives' < true_positives')
    <3>1. AssertionHoldsAsBuilt' <=>
            (Supported' => /\ phase' # "assertion failed"
                           /\ phase' = "done" => positives' >= true_positives')
      BY DEF AssertionHoldsAsBuilt, Supported
    <3> QED
      BY <1>2, <2>1, <3>1 DEF AnswersInv
  <2>2. All \subseteq TruePositivesUpTo(i)
    <3>1. CASE query_type = "count-long"
      <4>1. \A n : Kind(n) = "count-long"
        BY <3>1 DEF Kind
      <4>2. \A n, key : ~TruePositive(Kind(n), key)
        BY <4>1 DEF TruePositive
      <4> QED
        BY <4>2
    <3>2. CASE query_type # "count-long"
      <4>1. i >= Len(txn_keys)
        BY <2>1, <3>2 DEF NumQueries
      <4>2. DOMAIN txn_keys \subseteq 1 .. i
        <5>1. \A n, m \in Nat : m >= n => 1 .. n \subseteq 1 .. m
          OBVIOUS
        <5>2. DOMAIN txn_keys = 1 .. Len(txn_keys)
          BY <1>1, LenProperties
        <5> QED
          BY <1>1, <4>1, <5>1, <5>2
      <4> QED
        BY <4>2 DEF TruePositivesUpTo
    <3> QED
      BY <3>1, <3>2
  <2>3. TruePositivesUpTo(i) \in SUBSET (1 .. i) /\ i \in Nat
    <3>1. i \in Nat
      BY <1>1
    <3> QED
      BY <3>1 DEF TruePositivesUpTo
  <2> HIDE DEF All
  <2>4. /\ Cardinality(All) <= Cardinality(TruePositivesUpTo(i))
        /\ Cardinality(All) \in Nat /\ Cardinality(TruePositivesUpTo(i)) \in Nat
    BY <2>2, <2>3, PartOfSequence, FS_Subset
  <2>5. positives >= Cardinality(TruePositivesUpTo(i)) /\ positives \in Nat
    <3>1. positives \in Nat
      BY <1>1
    <3> QED
      BY <2>1, <3>1 DEF AnswersInv
  <2> DEFINE most == Cardinality(TruePositivesUpTo(i))
             all == Cardinality(All)
  <2>6. /\ all <= most /\ all \in Nat /\ most \in Nat
        /\ positives >= most /\ positives \in Nat
        /\ positives' = positives /\ true_positives' = all
    BY <2>1, <2>4, <2>5
  <2> HIDE DEF most, all
  <2> QED
    BY <2>6
<1>7. CASE UNCHANGED vars
  <2>1. /\ phase' = phase /\ i' = i /\ positives' = positives
        /\ true_positives' = true_positives
        /\ txn_keys' = txn_keys /\ insert_keys' = insert_keys
    BY <1>7 DEF vars, data, counts
  <2>2. TruePositivesUpTo(i)' = TruePositivesUpTo(i)
    BY <1>0, <2>1
    DEF TruePositivesUpTo, TruePositive, Kind, From, BelowUpper, OverBitStrings
  <2> QED
    BY <1>0, <1>2, <2>1, <2>2 DEF AnswersInv, AssertionHoldsAsBuilt, AskedAsBuilt, OverBitStrings
<1> QED
  BY <1>3, <1>4, <1>5, <1>6, <1>7 DEF Next

\* The answers to a filter that is asked as it was built, about what it supports, never
\* come to fewer positives than there are true ones, so that the assertion of
\* bench/workload.cpp cannot fail there: each range that CountTruePositives counts is a
\* range the filter was asked and had to accept, for wrapped and half-open ones, too.
THEOREM AssertionAsBuilt == Spec => []AssertionHoldsAsBuilt
<1>1. TypeInv /\ AnswersInv => AssertionHoldsAsBuilt
  BY DEF AnswersInv
<1> QED
  BY TypeInit, TypeStep, AnswersInit, AnswersStep, <1>1, PTL DEF Spec

=============================================================================

----------------------------- MODULE Induction -----------------------------
(***************************************************************************)
(* Induction, stated about sets instead of predicates, so that its steps   *)
(* can be cited by name.  Each fact comes from those before it, and the    *)
(* first from the library's theorem that strict inclusion is well-founded  *)
(* on the finite subsets of a set: of the sets 0 .. n, for n in T, one is  *)
(* the smallest.                                                           *)
(***************************************************************************)
EXTENDS Integers, FiniteSetTheorems, WellFoundedInduction, TLAPS

\* A set of natural numbers that has an element has a least one.
LEMMA LeastElement ==
    ASSUME NEW T \in SUBSET Nat, T # {}
    PROVE  \E x \in T : \A y \in T : x <= y
<1> DEFINE I == {0 .. n : n \in T}
<1>1. I \subseteq FiniteSubsetsOf(Nat) /\ I # {}
  <2>1. ASSUME NEW n \in T
        PROVE  IsFiniteSet(0 .. n) /\ 0 .. n \in SUBSET Nat
    BY FS_Interval
  <2> QED
    BY <2>1 DEF FiniteSubsetsOf
<1>2. PICK s \in I : \A u \in I : <<u, s>> \notin StrictSubsetOrdering(Nat)
  BY <1>1, FS_StrictSubsetOrderingWellFounded, WFMin, Zenon
<1>3. PICK x \in T : s = 0 .. x
  OBVIOUS
<1>4. ASSUME NEW y \in T
      PROVE  x <= y
  <2>1. <<0 .. y, s>> \notin StrictSubsetOrdering(Nat)
    BY <1>2
  <2> SUFFICES ASSUME y < x
               PROVE  FALSE
    BY <1>3
  <2>2. x \in 0 .. x /\ x \notin 0 .. y
    OBVIOUS
  <2>3. 0 .. y \subseteq s /\ 0 .. y # s /\ s \in SUBSET Nat /\ 0 .. y \in SUBSET Nat
    BY <1>3, <2>2
  <2> QED
    BY <2>1, <2>3, Zenon DEF StrictSubsetOrdering
<1> QED
  BY <1>4

\* A set of natural numbers that has an element and a bound has a greatest one.
LEMMA GreatestElement ==
    ASSUME NEW N \in Nat, NEW T \in SUBSET (0 .. N), T # {}
    PROVE  \E x \in T : \A y \in T : y <= x
<1> DEFINE U == {N - x : x \in T}
<1>1. U \in SUBSET Nat /\ U # {}
  <2>1. ASSUME NEW x \in T
        PROVE  N - x \in Nat
    OBVIOUS
  <2>2. PICK x \in T : TRUE
    OBVIOUS
  <2> QED
    BY <2>1, <2>2
<1>2. PICK u \in U : \A v \in U : u <= v
  <2> HIDE DEF U
  <2> QED
    BY <1>1, LeastElement
<1>3. PICK x \in T : u = N - x
  OBVIOUS
<1>4. ASSUME NEW y \in T
      PROVE  y <= x
  <2>1. N - x <= N - y
    BY <1>2, <1>3
  <2> QED
    BY <2>1
<1> QED
  BY <1>4

\* A set that holds zero, and with a number the next one, holds them all.
LEMMA SetInduction ==
    ASSUME NEW P \in SUBSET Nat, 0 \in P, \A n \in P : n + 1 \in P
    PROVE  P = Nat
<1> SUFFICES ASSUME Nat \ P # {}
             PROVE  FALSE
  OBVIOUS
<1>1. PICK x \in Nat \ P : \A y \in Nat \ P : x <= y
  BY LeastElement
<1>2. x - 1 \in Nat /\ x - 1 \in P
  BY <1>1
<1> QED
  BY <1>1, <1>2

\* What doubles from one index to the next grows with the index.
LEMMA DoublingGrows ==
    ASSUME NEW N \in Nat, NEW d \in [0 .. N -> Nat],
           \A n \in 0 .. N - 1 : d[n + 1] = 2 * d[n],
           NEW low \in 0 .. N, NEW high \in 0 .. N, low <= high
    PROVE  d[low] <= d[high]
<1> DEFINE P == {k \in Nat : low + k <= N => d[low] <= d[low + k]}
<1>1. 0 \in P
  OBVIOUS
<1>2. ASSUME NEW k \in P
      PROVE  k + 1 \in P
  <2> SUFFICES ASSUME low + (k + 1) <= N
               PROVE  d[low] <= d[low + (k + 1)]
    OBVIOUS
  <2>1. low + k \in 0 .. N - 1 /\ low + (k + 1) = (low + k) + 1
    OBVIOUS
  <2>2. d[low] <= d[low + k] /\ d[low] \in Nat /\ d[low + k] \in Nat
    BY <2>1
  <2>3. d[low + (k + 1)] = 2 * d[low + k]
    BY <2>1
  <2> QED
    BY <2>2, <2>3
<1>3. P \subseteq Nat
  OBVIOUS
<1>4. high - low \in Nat /\ low + (high - low) = high
  OBVIOUS
<1>5. high - low \in P
  <2> HIDE DEF P
  <2>1. P = Nat
    BY <1>1, <1>2, <1>3, SetInduction
  <2> QED
    BY <1>4, <2>1
<1> QED
  BY <1>4, <1>5

\* f starts with x0 and goes on, up to N, as g says: g[<<i, x>>] is its value at i
\* when x is its value at i - 1.
Continues(f, N, x0, g) ==
    /\ f[0] = x0
    /\ \A i \in 1 .. N : f[i] = g[<<i, f[i - 1]>>]

StaysIn(g, N, S) == \A i \in 1 .. N, x \in S : g[<<i, x>>] \in S

\* A function on 0 .. N can be defined by its first value and by what each value
\* makes of the one before.
LEMMA RecursiveFunction ==
    ASSUME NEW N \in Nat, NEW S, NEW x0 \in S, NEW g, StaysIn(g, N, S)
    PROVE  \E f \in [0 .. N -> S] : Continues(f, N, x0, g)
<1> DEFINE P == {n \in Nat : n <= N => \E f \in [0 .. n -> S] : Continues(f, n, x0, g)}
<1>1. 0 \in P
  <2>1. [i \in 0 .. 0 |-> x0] \in [0 .. 0 -> S] /\ Continues([i \in 0 .. 0 |-> x0], 0, x0, g)
    BY DEF Continues
  <2> QED
    BY <2>1
<1>2. ASSUME NEW n \in P
      PROVE  n + 1 \in P
  <2>0. n + 1 \in Nat
    OBVIOUS
  <2> SUFFICES ASSUME n + 1 <= N
               PROVE  \E f \in [0 .. n + 1 -> S] : Continues(f, n + 1, x0, g)
    BY <2>0, Zenon
  <2>1. PICK f \in [0 .. n -> S] : Continues(f, n, x0, g)
    OBVIOUS
  <2> DEFINE h == [i \in 0 .. n + 1 |-> IF i <= n THEN f[i] ELSE g[<<n + 1, f[n]>>]]
  <2>2. n + 1 \in 1 .. N /\ f[n] \in S
    OBVIOUS
  <2>3. h \in [0 .. n + 1 -> S]
    <3>1. g[<<n + 1, f[n]>>] \in S
      BY <2>2 DEF StaysIn
    <3> QED
      BY <3>1
  <2>4. h[0] = x0
    BY <2>1 DEF Continues
  <2>5. ASSUME NEW i \in 1 .. n + 1
        PROVE  h[i] = g[<<i, h[i - 1]>>]
    <3>1. CASE i <= n
      <4>1. i \in 1 .. n /\ i - 1 \in 0 .. n + 1 /\ i - 1 <= n /\ i \in 0 .. n + 1
        BY <3>1
      <4>2. h[i] = f[i] /\ h[i - 1] = f[i - 1]
        BY <4>1
      <4> QED
        BY <2>1, <4>1, <4>2 DEF Continues
    <3>2. CASE i = n + 1
      <4>1. h[n + 1] = g[<<n + 1, f[n]>>] /\ h[n] = f[n] /\ (n + 1) - 1 = n
        OBVIOUS
      <4> QED
        BY <3>2, <4>1
    <3> QED
      BY <3>1, <3>2
  <2> QED
    BY <2>3, <2>4, <2>5 DEF Continues
<1>3. P \subseteq Nat
  OBVIOUS
<1>4. N \in P
  <2> HIDE DEF P
  <2> QED
    BY <1>1, <1>2, <1>3, SetInduction
<1> QED
  BY <1>4

=============================================================================

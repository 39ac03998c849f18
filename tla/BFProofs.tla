------------------------------ MODULE BFProofs ------------------------------
(***************************************************************************)
(* The first Bloom filter never denies a key and counts its ones right,    *)
(* for every set of keys, every hash function and every size, however      *)
(* often keys are added, the filter cleaned, written and read back.        *)
(*                                                                         *)
(* add() sets its bits one by one; what it does is an induction over the   *)
(* probes (lemma AddingSetsProbes), in which the bits set so far stay set  *)
(* and ones_ stays the number of them.                                     *)
(***************************************************************************)
EXTENDS BF, Induction

----------------------------------------------------------------------------
(* The bitmap.                                                             *)

\* A filter is an object with these fields.
Objects == [nr_probe_ : Nat, bits_ : Nat, ones_ : Nat, bm_ : SUBSET Nat]

LEMMA IntervalSize ==
    ASSUME NEW n \in Nat
    PROVE  IsFiniteSet(0 .. n - 1) /\ Cardinality(0 .. n - 1) = n
<1>1. n - 1 \in Int /\ 0 \in Int
  OBVIOUS
<1>2. /\ IsFiniteSet(0 .. n - 1)
      /\ Cardinality(0 .. n - 1) = IF 0 > n - 1 THEN 0 ELSE (n - 1) - 0 + 1
  BY <1>1, FS_Interval
<1>3. (IF 0 > n - 1 THEN 0 ELSE (n - 1) - 0 + 1) = n
  OBVIOUS
<1> QED
  BY <1>2, <1>3

\* A filter with another bitmap.
Replaced(b, m, k) == [b EXCEPT !.bm_ = m, !.ones_ = k]

LEMMA BitmapReplaced ==
    ASSUME NEW b \in Objects, NEW m \in SUBSET Nat, NEW k \in Nat
    PROVE  /\ Replaced(b, m, k) \in Objects
           /\ Replaced(b, m, k).nr_probe_ = b.nr_probe_ /\ Replaced(b, m, k).bits_ = b.bits_
           /\ Replaced(b, m, k).bm_ = m /\ Replaced(b, m, k).ones_ = k
<1>1. ASSUME NEW c, c = Replaced(b, m, k)
      PROVE  /\ c \in Objects /\ c.nr_probe_ = b.nr_probe_ /\ c.bits_ = b.bits_
             /\ c.bm_ = m /\ c.ones_ = k
  BY <1>1 DEF Replaced, Objects
<1> QED
  BY <1>1

\* Setting a bit of the bitmap leaves a bitmap whose ones are counted, and the
\* assertion holds on the way: an index that is not set yet is not one of the
\* ones_ indices that are.
LEMMA set1KeepsFilter ==
    ASSUME NEW b \in Objects, Filter(b), NEW idx \in 0 .. b.bits_ - 1
    PROVE  /\ set1(b, idx) \in Objects /\ Filter(set1(b, idx))
           /\ set1(b, idx).nr_probe_ = b.nr_probe_ /\ set1(b, idx).bits_ = b.bits_
           /\ set1(b, idx).bm_ = b.bm_ \cup {idx}
           /\ set1Asserts(b, idx)
<1> DEFINE Indices == 0 .. b.bits_ - 1
           c == [b EXCEPT !.bm_ = @ \cup {idx}, !.ones_ = @ + 1]
<1>1. /\ b.bits_ \in Nat /\ b.nr_probe_ \in Nat /\ b.ones_ \in Nat
      /\ b.bm_ \subseteq Indices /\ b.ones_ = Cardinality(b.bm_)
      /\ idx \in Nat /\ idx < b.bits_
  BY DEF Objects, Filter
<1>2. IsFiniteSet(Indices) /\ Cardinality(Indices) = b.bits_
  BY <1>1, IntervalSize
<1>3. IsFiniteSet(b.bm_)
  BY <1>1, <1>2, FS_Subset
<1>4. CASE idx \in b.bm_
  <2>1. set1(b, idx) = b
    BY <1>4 DEF set1, test1
  <2>2. b.bm_ = b.bm_ \cup {idx}
    BY <1>4
  <2> QED
    BY <1>1, <1>4, <2>1, <2>2 DEF set1Asserts, test1
<1>5. CASE idx \notin b.bm_
  <2>1. set1(b, idx) = c
    BY <1>1, <1>5 DEF set1, test1
  <2>2. /\ c \in Objects /\ c.nr_probe_ = b.nr_probe_ /\ c.bits_ = b.bits_
        /\ c.bm_ = b.bm_ \cup {idx} /\ c.ones_ = b.ones_ + 1
    <3> DEFINE m == b.bm_ \cup {idx}
               k == b.ones_ + 1
    <3>1. m \in SUBSET Nat /\ k \in Nat
      BY <1>1
    <3>2. c = Replaced(b, m, k)
      BY DEF Replaced
    <3> HIDE DEF c, m, k
    <3>3. /\ c \in Objects /\ c.nr_probe_ = b.nr_probe_ /\ c.bits_ = b.bits_
          /\ c.bm_ = m /\ c.ones_ = k
      BY <3>1, <3>2, BitmapReplaced
    <3> QED
      BY <3>3 DEF m, k
  <2>3. Cardinality(b.bm_ \cup {idx}) = b.ones_ + 1
    BY <1>1, <1>3, <1>5, FS_AddElement
  <2>4. b.ones_ < b.bits_
    <3>1. b.bm_ \cup {idx} \subseteq Indices
      BY <1>1
    <3>2. Cardinality(b.bm_ \cup {idx}) <= Cardinality(Indices)
      BY <1>2, <3>1, FS_Subset
    <3> QED
      BY <1>1, <1>2, <2>3, <3>2
  <2> HIDE DEF c
  <2>5. Filter(c)
    BY <1>1, <2>2, <2>3 DEF Filter
  <2> QED
    BY <2>1, <2>2, <2>4, <2>5 DEF set1Asserts
<1> QED
  BY <1>4, <1>5

----------------------------------------------------------------------------
(* add().                                                                  *)

\* A probe is an index of the bitmap.
LEMMA ProbeInside ==
    ASSUME hash \in Hashes, NEW key \in Keys, NEW i \in Nat \ {0}, NEW bits \in Nat \ {0}
    PROVE  Probe(key, i, bits) \in 0 .. bits - 1
<1>1. hash[key].hash64 \in Nat /\ hash[key].inc \in Nat /\ HashRange \in Nat \ {0}
  BY BFAssumption
<1>2. ASSUME NEW a \in Nat, NEW m \in Nat \ {0}
      PROVE  a % m \in 0 .. m - 1
  BY SMTT(30)
<1>3. (i - 1) * hash[key].inc \in Nat
  BY <1>1, SMTT(30)
<1>4. hash[key].hash64 + (i - 1) * hash[key].inc \in Nat
  BY <1>1, <1>3
<1>5. (hash[key].hash64 + (i - 1) * hash[key].inc) % HashRange \in Nat
  BY <1>1, <1>2, <1>4
<1> QED
  BY <1>2, <1>5 DEF Probe

\* The filter after each probe, by its first value and by what each probe does.
LEMMA AddingSteps ==
    ASSUME hash \in Hashes, NEW f \in Objects, Divides(f), NEW key \in Keys
    PROVE  /\ Adding(f, key)[0] = f
           /\ \A i \in 1 .. f.nr_probe_ :
                Adding(f, key)[i] = set1(Adding(f, key)[i - 1], Probe(key, i, f.bits_))
<1> DEFINE n == f.nr_probe_
           Go(i, b) == set1(b, Probe(key, i, f.bits_))
           Defines(a) == a = [i \in 0 .. n |-> IF i = 0 THEN f ELSE Go(i, a[i - 1])]
           after == CHOOSE a : Defines(a)
<1>1. n \in Nat /\ f.bits_ \in Nat /\ (n > 0 => f.bits_ > 0)
  BY DEF Objects, Divides
<1>2. ASSUME NEW i \in 1 .. n, NEW b \in Objects
      PROVE  Go(i, b) \in Objects
  <2> DEFINE idx == Probe(key, i, f.bits_)
             m == b.bm_ \cup {idx}
             k == b.ones_ + 1
  <2>1. idx \in Nat
    BY <1>1, ProbeInside
  <2> HIDE DEF idx
  <2>2. m \in SUBSET Nat /\ k \in Nat
    BY <2>1 DEF Objects
  <2>3. set1(b, idx) = b \/ set1(b, idx) = Replaced(b, m, k)
    BY DEF set1, Replaced
  <2> HIDE DEF m, k
  <2>4. set1(b, idx) \in Objects
    BY <2>2, <2>3, BitmapReplaced
  <2> QED
    BY <2>4 DEF idx
<1>3. \E a : Defines(a)
  <2> DEFINE g == [y \in (1 .. n) \X Objects |-> Go(y[1], y[2])]
  <2>1. ASSUME NEW i \in 1 .. n, NEW b \in Objects
        PROVE  g[<<i, b>>] = Go(i, b) /\ g[<<i, b>>] \in Objects
    BY <1>2
  <2> HIDE DEF g
  <2>2. StaysIn(g, n, Objects)
    BY <2>1 DEF StaysIn
  <2> HIDE DEF n, Go
  <2>3. PICK a \in [0 .. n -> Objects] : Continues(a, n, f, g)
    BY <1>1, <2>2, RecursiveFunction
  <2>4. ASSUME NEW i \in 0 .. n
        PROVE  a[i] = IF i = 0 THEN f ELSE Go(i, a[i - 1])
    <3>1. CASE i = 0
      BY <2>3, <3>1 DEF Continues
    <3>2. CASE i # 0
      <4>1. i \in 1 .. n /\ i - 1 \in 0 .. n
        BY <1>1, <3>2
      <4> QED
        BY <2>1, <2>3, <3>2, <4>1 DEF Continues
    <3> QED
      BY <3>1, <3>2
  <2>5. a = [i \in 0 .. n |-> IF i = 0 THEN f ELSE Go(i, a[i - 1])]
    BY <2>4
  <2> QED
    BY <2>5
<1>4. Defines(after)
  BY <1>3
<1>5. Adding(f, key) = after
  BY DEF Adding
<1> HIDE DEF after
<1>6. ASSUME NEW i \in 0 .. n
      PROVE  after[i] = IF i = 0 THEN f ELSE Go(i, after[i - 1])
  BY <1>4
<1> HIDE DEF Defines
<1>7. after[0] = f
  BY <1>1, <1>6
<1>8. ASSUME NEW i \in 1 .. n
      PROVE  after[i] = Go(i, after[i - 1])
  <2>1. i \in 0 .. n /\ i # 0
    BY <1>1
  <2> QED
    BY <1>6, <2>1
<1> QED
  BY <1>5, <1>7, <1>8

\* Whatever bits the filter has: add() leaves its size alone, sets the bit of
\* every probe, clears none, and counts what it sets; no assertion fails.
LEMMA AddingSetsProbes ==
    ASSUME hash \in Hashes, NEW f \in Objects, Filter(f), Divides(f), NEW key \in Keys
    PROVE  LET after == Adding(f, key)
               g == after[f.nr_probe_]
           IN  /\ \A i \in 1 .. f.nr_probe_ :
                    set1Asserts(after[i - 1], Probe(key, i, f.bits_))
               /\ g \in Objects /\ Filter(g)
               /\ g.nr_probe_ = f.nr_probe_ /\ g.bits_ = f.bits_
               /\ f.bm_ \subseteq g.bm_
               /\ \A i \in 1 .. f.nr_probe_ : Probe(key, i, f.bits_) \in g.bm_
<1> DEFINE after == Adding(f, key)
           n == f.nr_probe_
           Done(i) == /\ after[i] \in Objects /\ Filter(after[i])
                      /\ after[i].nr_probe_ = n /\ after[i].bits_ = f.bits_
                      /\ f.bm_ \subseteq after[i].bm_
                      /\ \A j \in 1 .. i : Probe(key, j, f.bits_) \in after[i].bm_
           P == {i \in Nat : i <= n => Done(i)}
<1>1. n \in Nat /\ f.bits_ \in Nat /\ (n > 0 => f.bits_ \in Nat \ {0})
  BY DEF Objects, Divides
<1>2. /\ after[0] = f
      /\ \A i \in 1 .. n : after[i] = set1(after[i - 1], Probe(key, i, f.bits_))
  BY AddingSteps
<1> HIDE DEF after
<1>3. ASSUME NEW i \in 1 .. n, Done(i - 1)
      PROVE  Done(i) /\ set1Asserts(after[i - 1], Probe(key, i, f.bits_))
  <2> DEFINE b == after[i - 1]
             idx == Probe(key, i, f.bits_)
  <2>1. idx \in 0 .. b.bits_ - 1
    BY <1>1, <1>3, ProbeInside
  <2>2. after[i] = set1(b, idx)
    BY <1>2
  <2>3. /\ b \in Objects /\ Filter(b) /\ b.nr_probe_ = n /\ b.bits_ = f.bits_
        /\ f.bm_ \subseteq b.bm_
        /\ \A j \in 1 .. i - 1 : Probe(key, j, f.bits_) \in b.bm_
    BY <1>3
  <2> HIDE DEF b
  <2>4. /\ after[i] \in Objects /\ Filter(after[i])
        /\ after[i].nr_probe_ = n /\ after[i].bits_ = f.bits_
        /\ after[i].bm_ = b.bm_ \cup {idx}
        /\ set1Asserts(b, idx)
    BY <2>1, <2>2, <2>3, set1KeepsFilter
  <2>5. ASSUME NEW j \in 1 .. i
        PROVE  Probe(key, j, f.bits_) \in after[i].bm_
    <3>1. j \in 1 .. i - 1 \/ j = i
      OBVIOUS
    <3> QED
      BY <2>3, <2>4, <3>1
  <2> QED
    BY <2>3, <2>4, <2>5 DEF b
<1>4. 0 \in P
  BY <1>1, <1>2
<1>5. ASSUME NEW i \in P
      PROVE  i + 1 \in P
  <2> SUFFICES ASSUME i + 1 <= n
               PROVE  Done(i + 1)
    OBVIOUS
  <2>1. i + 1 \in 1 .. n /\ (i + 1) - 1 = i /\ Done(i)
    BY <1>1
  <2> HIDE DEF Done
  <2> QED
    BY <1>3, <2>1
<1>6. P \subseteq Nat
  OBVIOUS
<1>7. ASSUME NEW i \in 0 .. n
      PROVE  Done(i)
  <2> HIDE DEF P, Done
  <2>1. P = Nat
    BY <1>4, <1>5, <1>6, SetInduction
  <2>2. i \in P /\ i <= n
    BY <1>1, <2>1
  <2> QED
    BY <2>2 DEF P
<1>8. ASSUME NEW i \in 1 .. n
      PROVE  set1Asserts(after[i - 1], Probe(key, i, f.bits_))
  <2>1. i - 1 \in 0 .. n
    BY <1>1
  <2> HIDE DEF Done
  <2> QED
    BY <1>3, <1>7, <2>1
<1>9. Done(n)
  <2>1. n \in 0 .. n
    BY <1>1
  <2> HIDE DEF Done
  <2> QED
    BY <1>7, <2>1
<1> QED
  BY <1>8, <1>9 DEF after

----------------------------------------------------------------------------
(* The invariant.                                                          *)

\* A filter that can be asked denies none of the keys of K.
Holds(f, K) == Divides(f) => \A key \in K : test(f, key)

\* TypeOK, and that what is in memory and what was written are filters that hold
\* the keys they were given.
IInv ==
    /\ TypeOK
    /\ outcome # "assertion failed"
    /\ bf # none => bf \in Objects /\ Holds(bf, keys)
    /\ image # none => image.bf \in Objects /\ Holds(image.bf, image.keys)

\* Bits that are set stay set, so that a key stays in.
LEMMA MoreBitsHoldMore ==
    ASSUME NEW f, NEW g, NEW key, g.nr_probe_ = f.nr_probe_, g.bits_ = f.bits_,
           f.bm_ \subseteq g.bm_, test(f, key)
    PROVE  test(g, key)
  BY DEF test, test1

LEMMA addKeepsIInv ==
    ASSUME IInv, add
    PROVE  IInv'
<1>1. /\ outcome = "ok" /\ bf # none /\ Divides(bf) /\ hash' = hash /\ image' = image
      /\ hash \in Hashes /\ keys \subseteq Keys /\ bf \in Objects /\ Filter(bf)
      /\ Holds(bf, keys)
  BY DEF add, IInv, TypeOK
<1>2. PICK key \in Keys :
        IF \A i \in 1 .. bf.nr_probe_ :
              set1Asserts(Adding(bf, key)[i - 1], Probe(key, i, bf.bits_))
        THEN /\ bf' = Adding(bf, key)[bf.nr_probe_]
             /\ keys' = keys \cup {key}
             /\ UNCHANGED outcome
        ELSE /\ outcome' = "assertion failed"
             /\ UNCHANGED <<bf, keys>>
  BY DEF add
<1> DEFINE g == Adding(bf, key)[bf.nr_probe_]
<1>3. /\ \A i \in 1 .. bf.nr_probe_ :
            set1Asserts(Adding(bf, key)[i - 1], Probe(key, i, bf.bits_))
      /\ g \in Objects /\ Filter(g) /\ g.nr_probe_ = bf.nr_probe_ /\ g.bits_ = bf.bits_
      /\ bf.bm_ \subseteq g.bm_
      /\ \A i \in 1 .. bf.nr_probe_ : Probe(key, i, bf.bits_) \in g.bm_
  BY <1>1, AddingSetsProbes
<1>4. bf' = g /\ keys' = keys \cup {key} /\ outcome' = outcome
  BY <1>2, <1>3
<1> HIDE DEF g
<1>5. test(g, key)
  <2>1. ASSUME NEW i \in 1 .. g.nr_probe_
        PROVE  Probe(key, i, g.bits_) < g.bits_
    <3>1. bf.nr_probe_ \in Nat /\ bf.bits_ \in Nat /\ i \in Nat \ {0} /\ bf.nr_probe_ > 0
      BY <1>1, <1>3 DEF Objects
    <3>2. bf.bits_ \in Nat \ {0}
      BY <1>1, <3>1 DEF Divides
    <3>3. Probe(key, i, bf.bits_) \in 0 .. bf.bits_ - 1
      BY <1>1, <3>1, <3>2, ProbeInside
    <3> QED
      BY <1>3, <3>2, <3>3
  <2> QED
    BY <1>3, <2>1 DEF test, test1
<1>6. \A k \in keys \cup {key} : test(g, k)
  <2>1. \A k \in keys : test(bf, k)
    BY <1>1 DEF Holds
  <2> QED
    BY <1>3, <1>5, <2>1, MoreBitsHoldMore
<1>7. Holds(bf, keys)'
  BY <1>1, <1>4, <1>6 DEF Holds, test, Probe, Divides
<1>8. (image # none => image.bf \in Objects /\ Holds(image.bf, image.keys))'
  BY <1>1 DEF IInv, Holds, test, Probe
<1>9. TypeOK'
  BY <1>1, <1>3, <1>4 DEF IInv, TypeOK
<1> QED
  BY <1>1, <1>3, <1>4, <1>7, <1>8, <1>9 DEF IInv

LEMMA NextKeepsIInv ==
    IInv /\ [Next]_vars => IInv'
<1> SUFFICES ASSUME IInv, [Next]_vars
             PROVE  IInv'
  OBVIOUS
<1> USE DEF Holds, test, Probe, Divides
<1>1. CASE New
  <2>1. PICK bpk \in BitsPerKey, nkeys \in NumKeys :
          bf' = [nr_probe_ |-> NumProbes(bpk), bits_ |-> bpk * nkeys, ones_ |-> 0, bm_ |-> {}]
    BY <1>1 DEF New
  <2>2. keys' = {} /\ hash' = hash /\ image' = image /\ outcome' = outcome
    BY <1>1 DEF New
  <2>3. NumProbes(bpk) \in Nat /\ bpk * nkeys \in Nat
    <3>1. bpk \in Nat /\ nkeys \in Nat
      BY BFAssumption
    <3>2. bpk * nkeys \in Nat
      BY <3>1, SMTT(30)
    <3> QED
      BY <3>1, <3>2 DEF NumProbes
  <2>4. bf' \in Objects
    BY <2>1, <2>3 DEF Objects
  <2>5. bf'.nr_probe_ \in Nat /\ bf'.bits_ \in Nat /\ bf'.bm_ = {} /\ bf'.ones_ = 0
    BY <2>1, <2>3
  <2>6. Filter(bf)'
    BY <2>5, FS_EmptySet DEF Filter
  <2>7. TypeOK'
    BY <2>2, <2>6 DEF IInv, TypeOK, Filter
  <2> QED
    BY <2>2, <2>4, <2>7 DEF IInv
<1>2. CASE add
  BY <1>2, addKeepsIInv
<1>3. CASE DivideByZero
  BY <1>3 DEF DivideByZero, IInv, TypeOK, Filter
<1>4. CASE clean
  <2>1. /\ bf # none /\ bf' = [bf EXCEPT !.ones_ = 0, !.bm_ = {}] /\ keys' = {}
        /\ hash' = hash /\ image' = image /\ outcome' = outcome
    BY <1>4 DEF clean
  <2>2. bf \in Objects
    BY <2>1 DEF IInv
  <2>3. bf' \in Objects
    BY <2>1, <2>2 DEF Objects
  <2>4. bf'.nr_probe_ \in Nat /\ bf'.bits_ \in Nat /\ bf'.bm_ = {} /\ bf'.ones_ = 0
    BY <2>1, <2>2 DEF Objects
  <2>5. Filter(bf)'
    BY <2>4, FS_EmptySet DEF Filter
  <2>6. TypeOK'
    BY <2>1, <2>5 DEF IInv, TypeOK, Filter
  <2> QED
    BY <2>1, <2>3, <2>6 DEF IInv
<1>5. CASE Delete
  BY <1>5 DEF Delete, IInv, TypeOK, Filter
<1>6. CASE serialize
  <2>1. /\ bf # none /\ image' = [bf |-> bf, keys |-> keys]
        /\ hash' = hash /\ keys' = keys /\ bf' = bf /\ outcome' = outcome
    BY <1>6 DEF serialize
  <2>2. image'.bf = bf /\ image'.keys = keys
    BY <2>1
  <2>3. TypeOK'
    BY <2>1, <2>2 DEF IInv, TypeOK, Filter
  <2> QED
    BY <2>1, <2>2, <2>3 DEF IInv
<1>7. CASE deserialize
  BY <1>7 DEF deserialize, IInv, TypeOK, Filter
<1>8. CASE UNCHANGED vars
  BY <1>8 DEF vars, IInv, TypeOK, Filter
<1> QED
  BY <1>1, <1>2, <1>3, <1>4, <1>5, <1>6, <1>7, <1>8 DEF Next

LEMMA InvariantHolds ==
    Spec => []IInv
<1>1. Init => IInv
  BY DEF Init, IInv, TypeOK
<1> QED
  BY <1>1, NextKeepsIInv, PTL DEF Spec

----------------------------------------------------------------------------
(* What follows.                                                           *)

\* The ones of a filter lie inside its bitmap and ones_ counts them, through
\* repeated keys, colliding probes, clean() and reloads.
THEOREM OnesAreCounted ==
    Spec => []TypeOK
<1>1. IInv => TypeOK
  BY DEF IInv
<1> QED
  BY <1>1, InvariantHolds, PTL

\* A filter never denies a key added to it since it was new or cleaned, also not
\* one that was added before the image it was read from was written.
THEOREM NoFalseNegatives ==
    Spec => []NoFalseNegative
<1>1. IInv => NoFalseNegative
  BY DEF IInv, NoFalseNegative, Holds
<1> QED
  BY <1>1, InvariantHolds, PTL

\* assert(ones_ < bits_) in bitmap::set1 never fails: an index that is not yet
\* among the ones is not counted yet, even when the filter is full.
THEOREM AssertionInSet1 ==
    Spec => []AssertionInSet1Holds
<1>1. IInv => AssertionInSet1Holds
  BY DEF IInv, AssertionInSet1Holds
<1> QED
  BY <1>1, InvariantHolds, PTL

=============================================================================

-------------------------------- MODULE BF --------------------------------
(***************************************************************************)
(* BF and bitmap of include/lib.hpp, the Bloom filter of the first version *)
(* of Rosetta: sized for nkeys keys but filled one key at a time, before   *)
(* and after it was written and read back, and beyond nkeys.  bitmap       *)
(* counts its ones as they are set.                                        *)
(***************************************************************************)
EXTENDS Integers, Sequences, FiniteSets

CONSTANTS
    Keys,         \* what may be added and tested
    BitsPerKey,   \* arguments bpk of the constructor
    NumKeys,      \* arguments nkeys of the constructor
    Hashes,       \* the pairs of a hash and its bf_inc that keys may have
    HashRange,    \* number of values of a u64: 2^64
    none          \* no filter, no image

ASSUME BFAssumption ==
    /\ BitsPerKey \subseteq Nat
    /\ NumKeys \subseteq Nat
    /\ HashRange \in Nat \ {0}
    /\ Hashes \subseteq [Keys -> [hash64 : 0 .. HashRange - 1, inc : 0 .. HashRange - 1]]

VARIABLES
    hash,      \* the hash function (never changes)
    keys,      \* the keys in the filter (history)
    bf,        \* the BF in memory, or none
    image,     \* what serialize() wrote, and the keys then in bf, or none
    outcome    \* "ok", or how the last add() or test() ended the program

vars == <<hash, keys, bf, image, outcome>>

----------------------------------------------------------------------------
(* class bitmap, as the set bm_ of the indices of its ones.                *)

test1(b, idx) == idx < b.bits_ /\ idx \in b.bm_

\* Variant: the ones are counted though they were there.
set1CountsAll(b, idx) == [b EXCEPT !.bm_ = @ \cup {idx}, !.ones_ = @ + 1]

set1(b, idx) ==
    IF idx < b.bits_ /\ ~test1(b, idx)
    THEN [b EXCEPT !.bm_ = @ \cup {idx}, !.ones_ = @ + 1]
    ELSE b

\* assert(ones_ < bits_) in set1.
set1Asserts(b, idx) == idx < b.bits_ /\ ~test1(b, idx) => b.ones_ < b.bits_

----------------------------------------------------------------------------
(* class BF.                                                               *)

\* (u64)(log(2.0) * (double)bpk): none for a bpk of 1.
NumProbes(bpk) == (bpk * 6931) \div 10000

\* The index of probe i: t is hash64, then hash64 + inc, ... in u64.
Probe(key, i, bits) ==
    ((hash[key].hash64 + (i - 1) * hash[key].inc) % HashRange) % bits

\* Variant: t is incremented before it is used.
testFromSecondProbe(f, key) ==
    \A i \in 1 .. f.nr_probe_ : test1(f, Probe(key, i + 1, f.bits_))

test(f, key) == \A i \in 1 .. f.nr_probe_ : test1(f, Probe(key, i, f.bits_))

\* The filter after each probe of add().
Adding(f, key) ==
    LET after[i \in 0 .. f.nr_probe_] ==
          IF i = 0 THEN f ELSE set1(after[i - 1], Probe(key, i, f.bits_))
    IN  after

New ==
    /\ bf = none
    /\ \E bpk \in BitsPerKey, nkeys \in NumKeys :
         bf' = [nr_probe_ |-> NumProbes(bpk), bits_ |-> bpk * nkeys,
                ones_ |-> 0, bm_ |-> {}]
    /\ keys' = {}
    /\ UNCHANGED <<hash, image, outcome>>

\* t % bits is asked for only if there is a probe to make.
Divides(f) == f.nr_probe_ > 0 => f.bits_ > 0

add ==
    /\ outcome = "ok"
    /\ bf # none
    /\ Divides(bf)
    /\ \E key \in Keys :
         LET after == Adding(bf, key)
         IN  IF \A i \in 1 .. bf.nr_probe_ :
                    set1Asserts(after[i - 1], Probe(key, i, bf.bits_))
             THEN /\ bf' = after[bf.nr_probe_]
                  /\ keys' = keys \cup {key}
                  /\ UNCHANGED outcome
             ELSE /\ outcome' = "assertion failed"
                  /\ UNCHANGED <<bf, keys>>
    /\ UNCHANGED <<hash, image>>

\* add() and test() on a filter of no bits.
DivideByZero ==
    /\ outcome = "ok"
    /\ bf # none
    /\ ~Divides(bf)
    /\ outcome' = "division by zero"
    /\ UNCHANGED <<hash, keys, bf, image>>

\* Variant: clean() leaves the count.
cleanKeepsOnes ==
    /\ outcome = "ok"
    /\ bf # none
    /\ bf' = [bf EXCEPT !.bm_ = {}]
    /\ keys' = {}
    /\ UNCHANGED <<hash, image, outcome>>

clean ==
    /\ outcome = "ok"
    /\ bf # none
    /\ bf' = [bf EXCEPT !.ones_ = 0, !.bm_ = {}]
    /\ keys' = {}
    /\ UNCHANGED <<hash, image, outcome>>

serialize ==
    /\ outcome = "ok"
    /\ bf # none
    /\ image' = [bf |-> bf, keys |-> keys]
    /\ UNCHANGED <<hash, keys, bf, outcome>>

\* A new object; what was added after the image was written is not in it.
deserialize ==
    /\ outcome = "ok"
    /\ image # none
    /\ bf' = image.bf
    /\ keys' = image.keys
    /\ UNCHANGED <<hash, image, outcome>>

Delete ==
    /\ outcome = "ok"
    /\ bf # none
    /\ bf' = none
    /\ keys' = {}
    /\ UNCHANGED <<hash, image, outcome>>

Init ==
    /\ hash \in Hashes
    /\ keys = {}
    /\ bf = none
    /\ image = none
    /\ outcome = "ok"

Next == \/ New \/ add \/ DivideByZero \/ clean \/ Delete
        \/ serialize \/ deserialize

Spec == Init /\ [][Next]_vars

----------------------------------------------------------------------------
(* Properties.                                                             *)

Filter(f) ==
    /\ f.nr_probe_ \in Nat
    /\ f.bits_ \in Nat
    /\ f.bm_ \subseteq 0 .. f.bits_ - 1
    /\ f.ones_ = Cardinality(f.bm_)

\* Every variable keeps its type, the ones lie inside the bitmap, and ones_
\* counts them: through repeated keys, colliding probes, clean() and reloads.
TypeOK ==
    /\ hash \in Hashes
    /\ keys \subseteq Keys
    /\ bf # none => Filter(bf)
    /\ image # none => Filter(image.bf) /\ image.keys \subseteq Keys
    /\ outcome \in {"ok", "division by zero", "assertion failed"}

\* A filter never denies a key that was added since it was new or cleaned, with
\* any number of writes and reloads between, and beyond the number of keys it
\* was sized for.
NoFalseNegative ==
    bf # none /\ Divides(bf) => \A key \in keys : test(bf, key)

\* assert(ones_ < bits_) in set1 never fails, not even on a filter that is full.
AssertionInSet1Holds == outcome # "assertion failed"

=============================================================================

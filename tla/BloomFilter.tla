---------------------------- MODULE BloomFilter ----------------------------
(***************************************************************************)
(* The Bloom filter of include/new/bloom_filter.hpp, which every level of  *)
(* Rosetta and every unit of Elastic_BF is made of: how it is built, what  *)
(* it answers, and how it goes to a byte image and back.                   *)
(*                                                                         *)
(* The object that reads an image back is not the one that wrote it: the   *)
(* constructor it comes from, Bloom(id), leaves bits_per_key_ and k_       *)
(* unset.  What the filter answers must not depend on them.                *)
(*                                                                         *)
(* Lengths are narrowed on the way: the number of keys and bits_per_key to *)
(* an int when a filter is built, the length of its data to a u32 when it  *)
(* is written.  An image keeps as many bytes as the u32 says, and whoever  *)
(* reads it takes the last of them for the number of probes.               *)
(***************************************************************************)
EXTENDS Integers, Sequences

CONSTANTS
    Keys,        \* what may be inserted and looked up
    Ids,         \* identities of filters: seeds of the hash function
    KeyVectors,  \* the vectors of keys a filter may be built over
    BitsPerKey,  \* arguments bits_per_key of the constructor, a u64
    Hashes,      \* the hash functions MurmurHash3 may turn out to be
    HashRange,   \* number of values of a hash, a u32: 2^32
    SizeRange,   \* number of values of filter_data_size_, a u32: 2^32
    MaxInt,      \* greatest int: 2^31 - 1
    WordRange,   \* number of values of a size_t: 2^64
    MaxBytes,    \* length of the longest array that can be allocated
    CharBits,    \* bits in a char: 8
    MinBits,     \* least number of bits of a filter: 64
    MaxProbes,   \* greatest number of probes: 30
    Garbage,     \* what an unset size_t may hold
    none         \* no filter, no image

HashWord == 0 .. HashRange - 1

ASSUME SizesAssumption ==
    /\ {HashRange, SizeRange, WordRange, CharBits, MinBits, MaxProbes} \subseteq Nat \ {0}
    /\ MaxInt \in Nat /\ MaxBytes \in Nat

ASSUME KeysAssumption ==
    /\ \A v \in KeyVectors : v \in Seq(Keys)
    /\ BitsPerKey \subseteq Nat
    /\ none \notin KeyVectors

\* hbase[0] and hbase[1] of a key, for a filter's id.
ASSUME HashesAssumption ==
    \A f \in Hashes : f \in [Ids -> [Keys -> [h : HashWord, delta : HashWord]]]

VARIABLES
    hash,       \* the hash function (never changes)
    keys,       \* the vector the filter was built over (history)
    built,      \* the BloomFilter as the constructor left it, or none (history)
    bf,         \* the BloomFilter in memory, or none
    image       \* the bytes serialize() wrote, or none

vars == <<hash, keys, built, bf, image>>

----------------------------------------------------------------------------
(* class Bloom.  Its data: the bytes, the last of which holds the number   *)
(* of probes, and the bits that are set in the others.                     *)

AtMost(m, n) == IF n > m THEN m ELSE n
AtLeast(m, n) == IF n < m THEN m ELSE n

\* A u64 or size_t where an int is declared.
AsInt(n) == ((n + MaxInt + 1) % (2 * (MaxInt + 1))) - (MaxInt + 1)

\* Variant: the number of probes is not bounded below.
NumProbesUnbounded(bpk) == AtMost(MaxProbes, (bpk * 69) \div 100)

\* static_cast<size_t>(bits_per_key * 0.69), then the two bounds.
NumProbes(bpk) == AtMost(MaxProbes, AtLeast(1, (bpk * 69) \div 100))

\* The conversion of -1 or less to a size_t is undefined; the bounds still hold.
ProbeCounts(bpk) == IF bpk < -1 THEN 1 .. MaxProbes ELSE {NumProbes(bpk)}

\* n * bits_per_key_ as a size_t, at least MinBits, in whole bytes.
NumBytes(n, bpk) ==
    LET bits == AtLeast(MinBits, (n * bpk) % WordRange)
    IN  ((bits + CharBits - 1) % WordRange) \div CharBits

\* resize throws if there is no memory; with no byte h % bits divides by zero.
CanBuild(n, bpk) == NumBytes(n, bpk) \in (IF n > 0 THEN 1 ELSE 0) .. MaxBytes

\* The bits a key is stored at: h, h + delta, ... in u32 arithmetic.
BitPositions(id, key, bits, k) ==
    {((hash[id][key].h + j * hash[id][key].delta) % HashRange) % bits : j \in 0 .. k - 1}

\* Variant: bits is not rounded up with bytes.
CreateFilterUnrounded(v, n, bpk, k, id) ==
    LET bits == AtLeast(MinBits, (n * bpk) % WordRange)
    IN  [size |-> NumBytes(n, bpk) + 1,
         bits |-> UNION {BitPositions(id, v[i], bits, k) : i \in 1 .. n},
         probes |-> k]

\* CreateFilter: the bit array with the number of probes in a last byte.
CreateFilter(v, n, bpk, k, id) ==
    LET bytes == NumBytes(n, bpk)
    IN  [size |-> bytes + 1,
         bits |-> UNION {BitPositions(id, v[i], bytes * CharBits, k) : i \in 1 .. n},
         probes |-> k]

\* Variant: the probes are those of the Bloom object.
KeyMayMatchOwnProbes(filter, key) ==
    /\ filter.data.size >= 2
    /\ BitPositions(filter.id, key, (filter.data.size - 1) * CharBits, filter.k)
         \subseteq filter.data.bits

\* The probes are those of the data, not those of the Bloom object reading it.
KeyMayMatch(filter, key) ==
    /\ filter.data.size >= 2
    /\ \/ filter.data.probes > MaxProbes
       \/ BitPositions(filter.id, key, (filter.data.size - 1) * CharBits, filter.data.probes)
            \subseteq filter.data.bits

Matches(filter) == {key \in Keys : KeyMayMatch(filter, key)}

----------------------------------------------------------------------------
(* class BloomFilter.                                                      *)

\* The vector's length becomes int n, and bits_per_key an int and a size_t again.
Create ==
    /\ keys = none
    /\ \E v \in KeyVectors, id \in Ids, bits_per_key \in BitsPerKey :
         LET n == AsInt(Len(v))
             bpk == AsInt(bits_per_key)
         IN  /\ CanBuild(n, bpk)
             /\ \E k \in ProbeCounts(bpk) :
                  bf' = [id |-> id, bits_per_key |-> bpk % WordRange, k |-> k,
                         data |-> CreateFilter(v, n, bpk, k, id)]
             /\ keys' = v
    /\ built' = bf'
    /\ UNCHANGED <<hash, image>>

\* The constructor throws, or is killed, and leaves no object.
CreateFails ==
    /\ keys = none
    /\ \E v \in KeyVectors, bits_per_key \in BitsPerKey :
         /\ ~CanBuild(AsInt(Len(v)), AsInt(bits_per_key))
         /\ keys' = v
    /\ UNCHANGED <<hash, built, bf, image>>

\* filter_data_.size() as a u32.
AsU32(size) == size % SizeRange

\* What the bits of a byte are worth as a number, from the highest bit on.  (A
\* char with its sign bit set is more than MaxProbes either way.)
ByteValue(bits, byte) ==
    LET value[j \in 0 .. CharBits] ==
          IF j = 0 THEN 0
          ELSE 2 * value[j - 1] + (IF byte * CharBits + CharBits - j \in bits THEN 1 ELSE 0)
    IN  value[CharBits]

\* The first bytes of the data, as many as a u32 can count, read as data again.
Truncated(data) ==
    LET size == AsU32(data.size)
    IN  IF size = data.size THEN data
        ELSE [size |-> size,
              bits |-> {b \in data.bits : b < (size - 1) * CharBits},
              probes |-> ByteValue(data.bits, size - 1)]

\* Variant: the number of probes is written from the Bloom object.
serializeOwnProbes ==
    /\ bf # none
    /\ image' = [id |-> bf.id, data |-> [Truncated(bf.data) EXCEPT !.probes = bf.k]]
    /\ UNCHANGED <<hash, keys, built, bf>>

\* The object's parameters k_ and bits_per_key_ are not written.
serialize ==
    /\ bf # none
    /\ image' = [id |-> bf.id, data |-> Truncated(bf.data)]
    /\ UNCHANGED <<hash, keys, built, bf>>

\* A new object, in this process or another, from the image.
deserialize ==
    /\ image # none
    /\ \E bpk \in Garbage, k \in Garbage :
         bf' = [id |-> image.id, bits_per_key |-> bpk, k |-> k, data |-> image.data]
    /\ UNCHANGED <<hash, keys, built, image>>

\* The process that holds the filter deletes it or ends.
Delete ==
    /\ bf # none
    /\ bf' = none
    /\ UNCHANGED <<hash, keys, built, image>>

Init ==
    /\ hash \in Hashes
    /\ keys = none
    /\ built = none
    /\ bf = none
    /\ image = none

Next == Create \/ CreateFails \/ serialize \/ deserialize \/ Delete

Spec == Init /\ [][Next]_vars

----------------------------------------------------------------------------
(* Properties.                                                             *)

Data == [size : Nat, bits : SUBSET Nat, probes : Nat]

\* What is stored is data of which no set bit lies outside the array.
WellFormed(filter) ==
    /\ filter.id \in Ids
    /\ filter.data \in Data
    /\ filter.data.bits \subseteq 0 .. (filter.data.size - 1) * CharBits - 1

\* Every bit set lies inside the array, in a truncated image too; a constructor
\* leaves a number of probes within its bounds.
TypeOK ==
    /\ hash \in Hashes
    /\ keys \in KeyVectors \cup {none}
    /\ built # none => WellFormed(built) /\ built.data.probes \in 1 .. MaxProbes
    /\ bf # none => WellFormed(bf)
    /\ image # none => WellFormed(image) /\ image.data.size < SizeRange

\* The length of the data can be written: it has fewer than 2^32 bytes.
DataFits == built.data.size < SizeRange

\* A filter never denies a key it was built over, if an int can count the keys:
\* the object the constructor left at any length, and after any number of
\* reloads up to the length a u32 can hold.
NoFalseNegative ==
    /\ bf # none
    /\ Len(keys) <= MaxInt
    /\ bf = built \/ DataFits
    => \A i \in 1 .. Len(keys) : KeyMayMatch(bf, keys[i])

\* A reloaded filter, of a length a u32 can hold, gives the answers of the
\* filter that was built, the wrong ones included, for any number of keys and
\* whatever its unset parameters hold.
ReloadKeepsAnswers == bf # none /\ DataFits => Matches(bf) = Matches(built)

\* Writing a reloaded filter again gives the image it came from, whole or not.
ImageIsStable == [][image # none => image' = image]_vars

=============================================================================

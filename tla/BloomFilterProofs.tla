------------------------- MODULE BloomFilterProofs -------------------------
(***************************************************************************)
(* A Bloom filter never denies a key it was built over, and a reload does  *)
(* not change one answer, for every hash function and every vector of keys *)
(* of the lengths the narrowed integers can hold: an int for the number of *)
(* keys, a u32 for the length of the data.  The filter in memory holds the *)
(* data CreateFilter made, or the first bytes of it, and the image always  *)
(* the first bytes of it, as many as a u32 counts.                         *)
(***************************************************************************)
EXTENDS BloomFilter, Induction

\* The filter that was built holds what CreateFilter made of the keys.
FromKeys ==
    \E id \in Ids, bpk \in Int, k \in 1 .. MaxProbes :
        /\ CanBuild(AsInt(Len(keys)), bpk)
        /\ built.id = id
        /\ built.data = CreateFilter(keys, AsInt(Len(keys)), bpk, k, id)

\* A filter reads the data it was built with, or what an image kept of them.
Reads(filter) ==
    \/ filter = built
    \/ filter.id = built.id /\ filter.data = Truncated(built.data)

IInv ==
    /\ hash \in Hashes
    /\ keys \in KeyVectors \cup {none}
    /\ keys = none => built = none
    /\ built = none => bf = none /\ image = none
    /\ built # none => keys \in KeyVectors /\ FromKeys
    /\ bf # none => Reads(bf)
    /\ image # none => image = [id |-> built.id, data |-> Truncated(built.data)]

----------------------------------------------------------------------------
(* Narrowed integers.                                                      *)

\* A remainder is smaller than the divisor and not greater than the dividend,
\* which it is if that is smaller than the divisor.
LEMMA RemainderInRange ==
    ASSUME NEW m \in Nat \ {0}, NEW n \in Nat
    PROVE  n % m \in 0 .. m - 1 /\ n % m <= n /\ (n < m => n % m = n)
  BY SMTT(30)

\* An int never counts more keys than there are, and all of them up to MaxInt.
LEMMA IntCounts ==
    ASSUME NEW n \in Nat
    PROVE  AsInt(n) \in Int /\ AsInt(n) <= n /\ (n <= MaxInt => AsInt(n) = n)
<1> DEFINE a == n + MaxInt + 1
           m == 2 * (MaxInt + 1)
<1>1. MaxInt \in Nat
  BY SizesAssumption
<1>2. a \in Nat /\ m \in Nat \ {0}
  BY <1>1
<1>3. a % m \in 0 .. m - 1 /\ a % m <= a /\ (a < m => a % m = a)
  <2> HIDE DEF a, m
  <2> QED
    BY <1>2, RemainderInRange
<1>4. AsInt(n) = (a % m) - (MaxInt + 1)
  BY DEF AsInt
<1>5. n <= MaxInt => a < m
  BY <1>1
<1>6. a - (MaxInt + 1) = n
  BY <1>1
<1>7. a % m \in Int
  <2> HIDE DEF a, m
  <2> QED
    BY <1>2, <1>3
<1> QED
  <2> DEFINE r == a % m
  <2> HIDE DEF r
  <2>1. r \in Int /\ AsInt(n) = r - (MaxInt + 1) /\ r <= a /\ (n <= MaxInt => r = a)
    BY <1>3, <1>4, <1>5, <1>7 DEF r
  <2> HIDE DEF a
  <2>2. a \in Nat
    BY <1>2
  <2> QED
    BY <1>1, <1>6, <2>1, <2>2

----------------------------------------------------------------------------
(* What an image keeps of the data.                                        *)

\* The length of what is kept can be written, and is not greater; data of a
\* length that can be written are kept whole.
LEMMA KeptLength ==
    ASSUME NEW data, data.size \in Nat
    PROVE  /\ Truncated(data).size = AsU32(data.size)
           /\ AsU32(data.size) \in 0 .. SizeRange - 1 /\ AsU32(data.size) <= data.size
           /\ data.size < SizeRange => Truncated(data) = data
<1>1. SizeRange \in Nat \ {0}
  BY SizesAssumption
<1>2. /\ AsU32(data.size) \in 0 .. SizeRange - 1 /\ AsU32(data.size) <= data.size
      /\ data.size < SizeRange => AsU32(data.size) = data.size
  BY <1>1, RemainderInRange DEF AsU32
<1> QED
  BY <1>2 DEF Truncated

\* What an image kept is kept whole by the next one.
LEMMA TruncatedOnce ==
    ASSUME NEW data, data.size \in Nat
    PROVE  Truncated(Truncated(data)) = Truncated(data)
<1> DEFINE kept == Truncated(data)
<1>1. kept.size \in Nat /\ kept.size < SizeRange
  BY KeptLength, SizesAssumption
<1> HIDE DEF kept
<1>2. Truncated(kept) = kept
  BY <1>1, KeptLength
<1> QED
  BY <1>2 DEF kept

\* A byte is worth a natural number.
LEMMA ByteValueIsNatural ==
    ASSUME NEW bits, NEW byte
    PROVE  ByteValue(bits, byte) \in Nat
<1> DEFINE Go(n, x) == 2 * x + (IF byte * CharBits + CharBits - n \in bits THEN 1 ELSE 0)
           Defines(a) == a = [j \in 0 .. CharBits |-> IF j = 0 THEN 0 ELSE Go(j, a[j - 1])]
           value == CHOOSE a : Defines(a)
<1>1. CharBits \in Nat
  BY SizesAssumption
<1>2. ASSUME NEW n \in 1 .. CharBits, NEW x \in Nat
      PROVE  Go(n, x) \in Nat
  OBVIOUS
<1> HIDE DEF Go
<1>3. \E a : Defines(a)
  <2> DEFINE g == [y \in (1 .. CharBits) \X Nat |-> Go(y[1], y[2])]
  <2>1. ASSUME NEW n \in 1 .. CharBits, NEW x \in Nat
        PROVE  g[<<n, x>>] = Go(n, x) /\ g[<<n, x>>] \in Nat
    BY <1>2
  <2> HIDE DEF g
  <2>2. StaysIn(g, CharBits, Nat)
    BY <2>1 DEF StaysIn
  <2>3. PICK a \in [0 .. CharBits -> Nat] : Continues(a, CharBits, 0, g)
    BY <1>1, <2>2, RecursiveFunction
  <2>4. ASSUME NEW n \in 0 .. CharBits
        PROVE  a[n] = IF n = 0 THEN 0 ELSE Go(n, a[n - 1])
    <3>1. CASE n = 0
      BY <2>3, <3>1 DEF Continues
    <3>2. CASE n # 0
      <4>1. n \in 1 .. CharBits /\ n - 1 \in 0 .. CharBits
        BY <1>1, <3>2
      <4> QED
        BY <2>1, <2>3, <3>2, <4>1 DEF Continues
    <3> QED
      BY <3>1, <3>2
  <2>5. a = [n \in 0 .. CharBits |-> IF n = 0 THEN 0 ELSE Go(n, a[n - 1])]
    BY <2>4
  <2> QED
    BY <2>5
<1>4. Defines(value)
  BY <1>3
<1>5. ByteValue(bits, byte) = value[CharBits]
  BY DEF ByteValue, Go
<1> HIDE DEF value
<1>6. ASSUME NEW n \in 0 .. CharBits
      PROVE  value[n] = IF n = 0 THEN 0 ELSE Go(n, value[n - 1])
  BY <1>4
<1> HIDE DEF Defines
<1> DEFINE P == {n \in Nat : n <= CharBits => value[n] \in Nat}
<1>7. 0 \in P
  BY <1>1, <1>6
<1>8. ASSUME NEW n \in P
      PROVE  n + 1 \in P
  <2>1. CASE n + 1 <= CharBits
    <3>1. n + 1 \in 1 .. CharBits /\ n + 1 \in 0 .. CharBits /\ (n + 1) - 1 = n
      BY <1>1, <2>1
    <3>2. value[n] \in Nat
      BY <1>1, <2>1
    <3>3. value[n + 1] = Go(n + 1, value[n])
      BY <1>6, <3>1
    <3> QED
      BY <1>2, <3>1, <3>2, <3>3
  <2>2. CASE ~(n + 1 <= CharBits)
    BY <2>2
  <2> QED
    BY <2>1, <2>2
<1>9. P = Nat
  <2> HIDE DEF P
  <2>1. P \in SUBSET Nat
    BY DEF P
  <2> QED
    BY <1>7, <1>8, <2>1, SetInduction
<1> QED
  BY <1>1, <1>5, <1>9

----------------------------------------------------------------------------
(* The bit array.                                                          *)

\* A probe falls inside the array, wrapped hash or not.
LEMMA ProbeInRange ==
    ASSUME NEW h \in Nat, NEW j \in Nat, NEW d \in Nat,
           NEW r \in Nat \ {0}, NEW b \in Nat \ {0}
    PROVE  ((h + j * d) % r) % b \in 0 .. b - 1
<1> DEFINE n == h + j * d
           m == n % r
<1>1. n \in Nat
  <2>1. j * d \in Nat
    BY SMTT(30)
  <2>. QED
    BY <2>1
<1> HIDE DEF n
<1>2. m \in Nat
  <2>1. m \in 0 .. r - 1
    BY <1>1, RemainderInRange
  <2>. QED
    BY <2>1
<1> HIDE DEF m
<1>3. m % b \in 0 .. b - 1
  BY <1>2, RemainderInRange
<1>. QED
  BY <1>3 DEF m, n

\* CreateFilter writes inside the array it allocates, however the hash values
\* fall.
LEMMA CreateFilterInside ==
    ASSUME hash \in Hashes, NEW v \in KeyVectors, NEW bpk \in Int,
           NEW k \in 1 .. MaxProbes, NEW id \in Ids, CanBuild(AsInt(Len(v)), bpk)
    PROVE  /\ CreateFilter(v, AsInt(Len(v)), bpk, k, id) \in Data
           /\ CreateFilter(v, AsInt(Len(v)), bpk, k, id).bits
                \subseteq 0 .. NumBytes(AsInt(Len(v)), bpk) * CharBits - 1
           /\ NumBytes(AsInt(Len(v)), bpk) \in Nat
           /\ AsInt(Len(v)) > 0 => NumBytes(AsInt(Len(v)), bpk) > 0
<1> DEFINE n == AsInt(Len(v))
           bytes == NumBytes(n, bpk)
           bits == bytes * CharBits
           filter == CreateFilter(v, n, bpk, k, id)
<1>1. v \in Seq(Keys) /\ Len(v) \in Nat
  BY KeysAssumption
<1>2. /\ HashRange \in Nat \ {0} /\ CharBits \in Nat \ {0}
      /\ MaxProbes \in Nat \ {0} /\ MaxBytes \in Nat
  BY SizesAssumption
<1>3. n \in Int /\ n <= Len(v)
  BY <1>1, IntCounts
<1> HIDE DEF n
<1>4. bytes \in Nat /\ (n > 0 => bytes > 0)
  BY <1>2, <1>3 DEF CanBuild, n
<1>5. filter = [size |-> bytes + 1,
                bits |-> UNION {BitPositions(id, v[i], bits, k) : i \in 1 .. n},
                probes |-> k]
  BY DEF CreateFilter
<1> HIDE DEF bytes, filter
<1>6. bits \in Nat /\ (n > 0 => bits > 0)
  BY <1>2, <1>4
<1> HIDE DEF bits
<1>7. ASSUME NEW i \in 1 .. n
      PROVE  BitPositions(id, v[i], bits, k) \subseteq 0 .. bits - 1
  <2>1. v[i] \in Keys /\ bits \in Nat \ {0}
    BY <1>1, <1>3, <1>6
  <2>2. hash[id][v[i]] \in [h : HashWord, delta : HashWord]
    BY <2>1, HashesAssumption
  <2>3. hash[id][v[i]].h \in Nat /\ hash[id][v[i]].delta \in Nat
    BY <1>2, <2>2 DEF HashWord
  <2>4. ASSUME NEW j \in 0 .. k - 1
        PROVE  ((hash[id][v[i]].h + j * hash[id][v[i]].delta) % HashRange) % bits
                 \in 0 .. bits - 1
    <3>1. j \in Nat
      BY <1>2
    <3>. QED
      BY <1>2, <2>1, <2>3, <3>1, ProbeInRange
  <2>. QED
    BY <2>4 DEF BitPositions
<1>8. UNION {BitPositions(id, v[i], bits, k) : i \in 1 .. n} \subseteq 0 .. bits - 1
  BY <1>7
<1>9. 0 .. bits - 1 \subseteq Nat
  BY <1>6
<1>10. filter \in Data
  BY <1>4, <1>5, <1>8, <1>9 DEF Data
<1>11. filter.bits \subseteq 0 .. bits - 1
  BY <1>5, <1>8
<1>. QED
  BY <1>4, <1>10, <1>11 DEF bits, bytes, filter, n

\* No bit of what an image keeps lies outside the array it is read as.
LEMMA TruncatedInside ==
    ASSUME NEW data \in Data, data.bits \subseteq 0 .. (data.size - 1) * CharBits - 1
    PROVE  /\ Truncated(data) \in Data
           /\ Truncated(data).bits \subseteq 0 .. (Truncated(data).size - 1) * CharBits - 1
<1> DEFINE size == AsU32(data.size)
           all == data.bits
<1>1. data.size \in Nat /\ all \subseteq Nat
  BY DEF Data
<1>2. size \in Nat
  BY <1>1, KeptLength, SizesAssumption
<1>3. CASE size = data.size
  BY <1>3 DEF Truncated
<1>4. CASE size # data.size
  <2> DEFINE n == (size - 1) * CharBits
             value == ByteValue(all, size - 1)
  <2>1. Truncated(data) = [size |-> size, bits |-> {b \in all : b < n}, probes |-> value]
    BY <1>4 DEF Truncated
  <2>2. value \in Nat
    BY ByteValueIsNatural
  <2>3. n \in Int
    BY <1>2, SizesAssumption
  <2> HIDE DEF size, all, n, value
  <2>4. ASSUME NEW b \in all, b < n
        PROVE  b \in Nat /\ b \in 0 .. n - 1
    <3>1. b \in Nat
      BY <1>1
    <3> QED
      BY <2>3, <2>4, <3>1
  <2> DEFINE kept == {b \in all : b < n}
  <2>5. kept \in SUBSET Nat /\ kept \subseteq 0 .. n - 1
    BY <2>4
  <2> HIDE DEF kept
  <2>6. Truncated(data) \in Data
    <3>1. Truncated(data) = [size |-> size, bits |-> kept, probes |-> value]
      BY <2>1 DEF kept
    <3> QED
      BY <1>2, <2>2, <2>5, <3>1 DEF Data
  <2> QED
    BY <2>1, <2>5, <2>6 DEF n, kept
<1> QED
  BY <1>3, <1>4

\* The filter that was built is one its parameters allow.
LEMMA BuiltWell ==
    ASSUME IInv, built # none
    PROVE  /\ built.id \in Ids /\ built.data \in Data
           /\ built.data.probes \in 1 .. MaxProbes
           /\ built.data.bits \subseteq 0 .. (built.data.size - 1) * CharBits - 1
<1>1. keys \in KeyVectors /\ hash \in Hashes
  BY DEF IInv
<1>2. PICK id \in Ids, bpk \in Int, k \in 1 .. MaxProbes :
        /\ CanBuild(AsInt(Len(keys)), bpk)
        /\ built.id = id
        /\ built.data = CreateFilter(keys, AsInt(Len(keys)), bpk, k, id)
  BY DEF IInv, FromKeys
<1> DEFINE n == AsInt(Len(keys))
           bytes == NumBytes(n, bpk)
<1>3. /\ built.data \in Data
      /\ built.data.bits \subseteq 0 .. bytes * CharBits - 1
      /\ bytes \in Nat
  BY <1>1, <1>2, CreateFilterInside
<1>4. built.data.size = bytes + 1 /\ built.data.probes = k
  BY <1>2 DEF CreateFilter
<1> HIDE DEF bytes
<1>5. (bytes + 1) - 1 = bytes
  BY <1>3
<1> QED
  BY <1>2, <1>3, <1>4, <1>5

\* A constructor chooses a number of probes within the bounds.
LEMMA ProbesBounded ==
    ASSUME NEW bpk \in Int
    PROVE  ProbeCounts(bpk) \subseteq 1 .. MaxProbes
<1>1. MaxProbes \in Nat \ {0}
  BY SizesAssumption
<1>2. NumProbes(bpk) \in 1 .. MaxProbes
  <2>1. (bpk * 69) \div 100 \in Int
    OBVIOUS
  <2>. QED
    BY <1>1, <2>1 DEF NumProbes, AtMost, AtLeast
<1>. QED
  BY <1>2 DEF ProbeCounts

----------------------------------------------------------------------------
(* The invariant.                                                          *)

\* Whatever a filter reads, its image is that of the filter that was built.
LEMMA ImageOfAnyFilter ==
    ASSUME IInv, bf # none
    PROVE  /\ built # none
           /\ bf.id = built.id
           /\ Truncated(bf.data) = Truncated(built.data)
<1>1. built # none /\ Reads(bf)
  BY DEF IInv
<1>2. built.data.size \in Nat
  BY <1>1, BuiltWell DEF Data
<1>. QED
  BY <1>1, <1>2, TruncatedOnce DEF Reads

\* The data made of the same keys with the same hash function are the same.
LEMMA SameData ==
    ASSUME hash' = hash, NEW v, keys' = v,
           NEW bpk, NEW k, NEW id
    PROVE  /\ CreateFilter(keys, AsInt(Len(keys)), bpk, k, id)'
                = CreateFilter(v, AsInt(Len(v)), bpk, k, id)
           /\ CanBuild(AsInt(Len(keys)), bpk)' <=> CanBuild(AsInt(Len(v)), bpk)
<1>1. AsInt(Len(keys))' = AsInt(Len(v))
  BY DEF AsInt
<1>. QED
  BY <1>1 DEF CreateFilter, BitPositions, CanBuild, NumBytes, AtLeast

LEMMA InitEstablishesIInv ==
    Init => IInv
  BY DEF Init, IInv

LEMMA NextKeepsIInv ==
    IInv /\ [Next]_vars => IInv'
<1> SUFFICES ASSUME IInv, [Next]_vars
             PROVE  IInv'
  OBVIOUS
<1>1. CASE Create
  <2>1. PICK v \in KeyVectors, id \in Ids, bits_per_key \in BitsPerKey :
          /\ CanBuild(AsInt(Len(v)), AsInt(bits_per_key))
          /\ \E k \in ProbeCounts(AsInt(bits_per_key)) :
               bf' = [id |-> id, bits_per_key |-> AsInt(bits_per_key) % WordRange, k |-> k,
                      data |-> CreateFilter(v, AsInt(Len(v)), AsInt(bits_per_key), k, id)]
          /\ keys' = v
    BY <1>1 DEF Create
  <2>2. AsInt(bits_per_key) \in Int
    BY KeysAssumption, IntCounts
  <2>3. PICK k \in 1 .. MaxProbes :
          bf' = [id |-> id, bits_per_key |-> AsInt(bits_per_key) % WordRange, k |-> k,
                 data |-> CreateFilter(v, AsInt(Len(v)), AsInt(bits_per_key), k, id)]
    BY <2>1, <2>2, ProbesBounded
  <2>4. /\ keys = none /\ built' = bf' /\ UNCHANGED <<hash, image>>
        /\ built = none /\ image = none /\ hash \in Hashes
    BY <1>1 DEF Create, IInv
  <2>5. keys' # none /\ keys' \in KeyVectors
    BY <2>1, KeysAssumption
  <2>6. FromKeys'
    <3> DEFINE bpk == AsInt(bits_per_key)
    <3>1. bpk \in Int /\ CanBuild(AsInt(Len(v)), bpk)
          /\ built'.id = id /\ built'.data = CreateFilter(v, AsInt(Len(v)), bpk, k, id)
      BY <2>1, <2>2, <2>3, <2>4
    <3>. QED
      BY <2>1, <2>4, <3>1, SameData DEF FromKeys
  <2>. QED
    BY <2>4, <2>5, <2>6 DEF IInv, Reads
<1>2. ASSUME UNCHANGED <<hash, keys, built>>,
             bf' \in {bf, none} \/ (image # none /\ bf'.id = image.id
                                                 /\ bf'.data = image.data),
             image' = image \/ (bf # none /\ image' = [id |-> bf.id, data |-> Truncated(bf.data)])
      PROVE  IInv'
  <2>1. Truncated(built.data)' = Truncated(built.data)
    BY <1>2 DEF Truncated, AsU32, ByteValue
  <2>2. built # none => keys \in KeyVectors /\ FromKeys'
    BY <1>2, SameData DEF IInv, FromKeys
  <2>3. built = none => bf' = none /\ image' = none
    BY <1>2 DEF IInv
  <2>4. bf' # none => Reads(bf)'
    BY <1>2, <2>1 DEF IInv, Reads
  <2>5. image' # none => image' = [id |-> built.id, data |-> Truncated(built.data)]
    BY <1>2, ImageOfAnyFilter DEF IInv
  <2>. QED
    BY <1>2, <2>1, <2>2, <2>3, <2>4, <2>5 DEF IInv
<1>3. CASE CreateFails
  <2>1. keys' \in KeyVectors /\ keys = none /\ UNCHANGED <<hash, built, bf, image>>
    BY <1>3 DEF CreateFails
  <2>2. built = none /\ bf = none /\ image = none
    BY <2>1 DEF IInv
  <2>. QED
    BY <2>1, <2>2 DEF IInv
<1>4. CASE serialize
  BY <1>2, <1>4 DEF serialize
<1>5. CASE deserialize
  BY <1>2, <1>5 DEF deserialize
<1>6. CASE Delete
  BY <1>2, <1>6 DEF Delete
<1>7. CASE UNCHANGED vars
  BY <1>2, <1>7 DEF vars
<1>. QED
  BY <1>1, <1>3, <1>4, <1>5, <1>6, <1>7 DEF Next

LEMMA InvariantHolds ==
    Spec => []IInv
<1>. QED
  BY InitEstablishesIInv, NextKeepsIInv, PTL DEF Spec

\* Below the u32 boundary every object reads the data that were built.
LEMMA ReadsWhatWasBuilt ==
    ASSUME IInv, bf # none, bf = built \/ DataFits
    PROVE  built # none /\ bf.id = built.id /\ bf.data = built.data
<1>1. built # none /\ Reads(bf)
  BY DEF IInv
<1>2. built.data.size \in Nat
  BY <1>1, BuiltWell DEF Data
<1>3. DataFits => Truncated(built.data) = built.data
  BY <1>2, KeptLength DEF DataFits
<1>. QED
  BY <1>1, <1>3 DEF Reads

----------------------------------------------------------------------------
(* The theorems.                                                           *)

\* A Bloom filter never denies one of at most 2^31 - 1 keys it was built over,
\* before it is written at any length, and after reloads if its data have fewer
\* than 2^32 bytes.
THEOREM NoFalseNegatives ==
    Spec => []NoFalseNegative
<1>1. IInv => NoFalseNegative
  <2> SUFFICES ASSUME IInv, bf # none, Len(keys) <= MaxInt, bf = built \/ DataFits,
                      NEW i \in 1 .. Len(keys)
               PROVE  KeyMayMatch(bf, keys[i])
    BY DEF NoFalseNegative
  <2>1. built # none /\ bf.id = built.id /\ bf.data = built.data
    BY ReadsWhatWasBuilt
  <2>2. keys \in KeyVectors /\ hash \in Hashes
    BY <2>1 DEF IInv
  <2>3. PICK id \in Ids, bpk \in Int, k \in 1 .. MaxProbes :
          /\ CanBuild(AsInt(Len(keys)), bpk)
          /\ built.id = id
          /\ built.data = CreateFilter(keys, AsInt(Len(keys)), bpk, k, id)
    BY <2>1 DEF IInv, FromKeys
  <2> DEFINE n == AsInt(Len(keys))
             bytes == NumBytes(n, bpk)
  <2>4. Len(keys) \in Nat
    BY <2>2, KeysAssumption
  <2>5. n = Len(keys)
    BY <2>4, IntCounts
  <2>6. bytes \in Nat /\ (n > 0 => bytes > 0)
    BY <2>2, <2>3, CreateFilterInside
  <2>7. /\ built.data.size = bytes + 1
        /\ built.data.probes = k
        /\ BitPositions(id, keys[i], bytes * CharBits, k) \subseteq built.data.bits
    BY <2>3, <2>5 DEF CreateFilter
  <2> HIDE DEF bytes, n
  <2>8. bytes + 1 >= 2 /\ (bytes + 1) - 1 = bytes
    BY <2>4, <2>5, <2>6
  <2>. QED
    BY <2>1, <2>3, <2>7, <2>8 DEF KeyMayMatch
<1>. QED
  BY <1>1, InvariantHolds, PTL

\* Every answer of a reloaded filter, whose data a u32 can count, is the answer
\* of the filter that was built: the unset members of the object that reads it
\* do not count.
THEOREM ReloadsKeepAnswers ==
    Spec => []ReloadKeepsAnswers
<1>1. IInv => ReloadKeepsAnswers
  <2> SUFFICES ASSUME IInv, bf # none, DataFits
               PROVE  Matches(bf) = Matches(built)
    BY DEF ReloadKeepsAnswers
  <2>1. bf.id = built.id /\ bf.data = built.data
    BY ReadsWhatWasBuilt
  <2>. QED
    BY <2>1 DEF Matches, KeyMayMatch
<1>. QED
  BY <1>1, InvariantHolds, PTL

\* Types are right, and no bit is set outside the array, in a filter that was
\* built or in what a truncated image is read as.
THEOREM TypesCorrect ==
    Spec => []TypeOK
<1>1. IInv => TypeOK
  <2> SUFFICES ASSUME IInv
               PROVE  TypeOK
    OBVIOUS
  <2>1. built # none => WellFormed(built) /\ built.data.probes \in 1 .. MaxProbes
    BY BuiltWell DEF WellFormed
  <2>2. ASSUME NEW filter, built # none, filter.id = built.id,
               filter.data = Truncated(built.data)
        PROVE  WellFormed(filter) /\ filter.data.size < SizeRange
    <3>1. built.data.size \in Nat /\ SizeRange \in Nat
      BY <2>2, BuiltWell, SizesAssumption DEF Data
    <3>2. filter.data.size < SizeRange
      BY <2>2, <3>1, KeptLength
    <3>. QED
      BY <2>2, <3>2, BuiltWell, TruncatedInside DEF WellFormed
  <2>3. bf # none => WellFormed(bf)
    BY <2>1, <2>2 DEF IInv, Reads
  <2>4. image # none => WellFormed(image) /\ image.data.size < SizeRange
    BY <2>2 DEF IInv
  <2>5. hash \in Hashes /\ keys \in KeyVectors \cup {none}
    BY DEF IInv
  <2>. QED
    BY <2>1, <2>3, <2>4, <2>5 DEF TypeOK
<1>. QED
  BY <1>1, InvariantHolds, PTL

\* Once there is an image, no step changes it: BloomFilter::serialize writes the
\* same bytes again from the filter that was built and from any that was read
\* back, truncated or not, although k_ and bits_per_key_ of the latter are unset.
THEOREM ImagesAreStable ==
    Spec => ImageIsStable
<1>1. IInv /\ [Next]_vars => [image # none => image' = image]_vars
  <2> SUFFICES ASSUME IInv, Next, image # none
               PROVE  image' = image
    OBVIOUS
  <2>1. CASE serialize
    BY <2>1, ImageOfAnyFilter DEF serialize, IInv
  <2>2. CASE Create
    BY <2>2 DEF Create
  <2>3. CASE CreateFails \/ deserialize \/ Delete
    BY <2>3 DEF CreateFails, deserialize, Delete
  <2>. QED
    BY <2>1, <2>2, <2>3 DEF Next
<1>. QED
  BY <1>1, InvariantHolds, PTL DEF Spec, ImageIsStable

=============================================================================

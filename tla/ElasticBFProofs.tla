-------------------------- MODULE ElasticBFProofs --------------------------
(***************************************************************************)
(* What an elastic filter keeps of its promise when it is added to,        *)
(* written to a buffer that may hold others, and read back with any number *)
(* of its units, for every set of keys, number and length of units.        *)
(*                                                                         *)
(* The invariant is about the buffer: behind every header there is the     *)
(* whole image of the filter that the header was written for, and there is *)
(* a header at the start.  So wherever a reader finds a header it finds    *)
(* the units, however it came there.                                       *)
(***************************************************************************)
EXTENDS ElasticBF, SequenceTheorems, Induction

----------------------------------------------------------------------------
(* The filter in memory.                                                   *)

\* The keys are in every unit that was opened.
KeysInUnits(f) == \A i \in 1 .. f.open_size_ : f.keys \subseteq f.bf_vec_[i].maybe

\* What TypeOK, NoFalseNegative and FewerUnitsDenyLess say of a filter.
Good(f) ==
    /\ f \in Filter
    /\ Len(f.bf_vec_) = f.open_size_
    /\ f.open_size_ <= f.size_
    /\ KeysInUnits(f)
    /\ f.whole \subseteq Answers(f)
    /\ f.open_size_ = f.size_ => Answers(f) = f.whole

LEMMA FilterFields ==
    ASSUME NEW f \in Filter
    PROVE  /\ f.version \in {"new", "old"}
           /\ f.size_ \in Nat /\ f.size_ <= MaxUnits
           /\ f.open_size_ \in Nat
           /\ f.bf_vec_ \in Seq(Unit)
           /\ f.keys \subseteq Keys /\ f.whole \subseteq Keys
BY BoundsAssumption DEF Filter

LEMMA UnitFields ==
    ASSUME NEW u \in Unit
    PROVE  u.maybe \subseteq Keys /\ u.words \in Nat /\ u.words >= 1
<1>1. u.maybe \subseteq Keys /\ u.words \in UnitSizes
  BY DEF Unit
<1>2. u.words \in Nat \ {0}
  BY <1>1, UnitSizesAssumption
<1> QED
  BY <1>1, <1>2

\* A filter with all its units, and its keys in them, may take its own answers
\* for those of the whole.
LEMMA WholeIsGood ==
    ASSUME NEW f \in Filter, Len(f.bf_vec_) = f.size_, f.open_size_ = f.size_, KeysInUnits(f)
    PROVE  Good(WithWhole(f)) /\ Len(WithWhole(f).bf_vec_) = WithWhole(f).size_
<1> DEFINE g == WithWhole(f)
<1>1. /\ g.version = f.version /\ g.size_ = f.size_ /\ g.open_size_ = f.open_size_
      /\ g.bf_vec_ = f.bf_vec_ /\ g.keys = f.keys /\ g.whole = Answers(f)
  BY DEF WithWhole, Filter
<1>2. Answers(f) \subseteq Keys
  BY DEF Answers
<1>3. g \in Filter
  BY <1>2 DEF WithWhole, Filter
<1> HIDE DEF g
<1>4. Answers(g) = Answers(f)
  BY <1>1 DEF Answers
<1>5. KeysInUnits(g)
  BY <1>1 DEF KeysInUnits
<1>6. g.open_size_ <= g.size_
  BY <1>1, FilterFields
<1>7. Good(g) /\ Len(g.bf_vec_) = g.size_
  BY <1>1, <1>3, <1>4, <1>5, <1>6 DEF Good
<1> QED
  BY <1>7 DEF g

\* The constructors make a good filter.
LEMMA CreatedIsGood ==
    ASSUME Create
    PROVE  Good(ebf')
<1>1. PICK version \in {"new", "old"}, n \in 0 .. MaxUnits, K \in SUBSET Keys :
        \E units \in [1 .. n -> {u \in Unit : K \subseteq u.maybe}] :
           ebf' = WithWhole([version |-> version, size_ |-> n, open_size_ |-> n,
                             bf_vec_ |-> units, keys |-> K, whole |-> {}])
  BY DEF Create
<1>2. PICK units \in [1 .. n -> {u \in Unit : K \subseteq u.maybe}] :
        ebf' = WithWhole([version |-> version, size_ |-> n, open_size_ |-> n,
                          bf_vec_ |-> units, keys |-> K, whole |-> {}])
  BY <1>1
<1> DEFINE f == [version |-> version, size_ |-> n, open_size_ |-> n,
                 bf_vec_ |-> units, keys |-> K, whole |-> {}]
<1>3. n \in Nat
  BY BoundsAssumption
<1>4. units \in Seq(Unit) /\ Len(units) = n
  BY <1>3
<1>5. f \in Filter
  BY <1>4 DEF Filter
<1>6. KeysInUnits(f)
  BY DEF KeysInUnits
<1> QED
  BY <1>2, <1>4, <1>5, <1>6, WholeIsGood

\* add() puts the key into every unit.
LEMMA AddedIsGood ==
    ASSUME Good(ebf), AllUnitsThere(ebf), NEW key \in Keys
    PROVE  Good(WithWhole([ebf EXCEPT !.bf_vec_ = Added(ebf, key), !.keys = @ \cup {key}]))
<1> DEFINE f == [ebf EXCEPT !.bf_vec_ = Added(ebf, key), !.keys = @ \cup {key}]
           units == Added(ebf, key)
<1>1. ebf \in Filter /\ Len(ebf.bf_vec_) = ebf.size_ /\ ebf.open_size_ = ebf.size_
  BY DEF Good, AllUnitsThere
<1>2. ebf.size_ \in Nat /\ ebf.bf_vec_ \in Seq(Unit) /\ ebf.keys \subseteq Keys
  BY <1>1, FilterFields
<1>3. ASSUME NEW i \in 1 .. ebf.size_
      PROVE  /\ units[i] \in Unit
             /\ ebf.keys \cup {key} \subseteq units[i].maybe
  <2>1. ebf.bf_vec_[i] \in Unit
    BY <1>1, <1>2
  <2>2. units[i] = [ebf.bf_vec_[i] EXCEPT !.maybe = @ \cup {key}]
    BY DEF Added
  <2>3. ebf.keys \subseteq ebf.bf_vec_[i].maybe
    BY <1>1 DEF Good, KeysInUnits
  <2> QED
    BY <2>1, <2>2, <2>3 DEF Unit
<1>4. units \in [1 .. ebf.size_ -> Unit]
  BY <1>3 DEF Added
<1>5. units \in Seq(Unit) /\ Len(units) = ebf.size_
  <2> HIDE DEF units
  <2> QED
    BY <1>2, <1>4
<1> HIDE DEF units
<1>6. f = [ebf EXCEPT !.bf_vec_ = units, !.keys = @ \cup {key}]
  BY DEF units
<1>7. /\ f.size_ = ebf.size_ /\ f.open_size_ = ebf.size_ /\ f.bf_vec_ = units
      /\ f.keys = ebf.keys \cup {key}
  BY <1>1, <1>6 DEF Filter
<1>8. f \in Filter
  BY <1>1, <1>2, <1>5, <1>6 DEF Filter
<1> HIDE DEF f
<1>9. KeysInUnits(f)
  BY <1>3, <1>7 DEF KeysInUnits
<1>10. Good(WithWhole(f))
  BY <1>5, <1>7, <1>8, <1>9, WholeIsGood
<1> QED
  BY <1>10 DEF f

----------------------------------------------------------------------------
(* The image of a filter.                                                  *)

UnitWord(u) == [tag |-> "unit", unit |-> u]

DataWord == [tag |-> "data"]

\* What a buffer is made of.
BufferWord == {Header(f) : f \in Filter} \cup {UnitWord(u) : u \in Unit} \cup {DataWord}

\* A word behind a header, in the same image.
Inside(word) == word \in BufferWord /\ word.tag # "header"

LEMMA HeaderFields ==
    ASSUME NEW f
    PROVE  /\ Header(f).tag = "header" /\ Header(f).size_ = f.size_ /\ Header(f).filter = f
           /\ Header(f).serialized_size_ = AsU32(serializedSize(f))
BY DEF Header

LEMMA InsideWords ==
    /\ \A u \in Unit : Inside(UnitWord(u)) /\ UnitWord(u).unit = u
    /\ Inside(DataWord)
BY DEF Inside, UnitWord, DataWord, BufferWord

LEMMA UnitImageShape ==
    ASSUME NEW u \in Unit
    PROVE  /\ UnitImage(u) \in Seq(BufferWord)
           /\ Len(UnitImage(u)) = u.words
           /\ UnitImage(u)[1] = UnitWord(u)
           /\ \A n \in 1 .. u.words : Inside(UnitImage(u)[n])
<1> DEFINE first == <<UnitWord(u)>>
           rest == [n \in 1 .. u.words - 1 |-> DataWord]
           words == u.words
<1>1. words \in Nat /\ words >= 1 /\ words - 1 \in Nat
  BY UnitFields
<1>2. UnitImage(u) = first \o rest
  BY DEF UnitImage, UnitWord, DataWord
<1>3. UnitWord(u) \in BufferWord /\ DataWord \in BufferWord
  BY DEF BufferWord
<1>4. Inside(UnitWord(u)) /\ Inside(DataWord)
  BY InsideWords
<1>5. first \in Seq(BufferWord) /\ Len(first) = 1 /\ first[1] = UnitWord(u)
  BY <1>3
<1>6. rest \in [1 .. words - 1 -> BufferWord]
  BY <1>3
<1>7. \A n \in 1 .. words - 1 : rest[n] = DataWord
  OBVIOUS
<1> HIDE DEF first, rest, words
<1>8. rest \in Seq(BufferWord) /\ Len(rest) = words - 1
  BY <1>1, <1>6
<1>9. /\ first \o rest \in Seq(BufferWord)
      /\ Len(first \o rest) = Len(first) + Len(rest)
      /\ \A n \in 1 .. Len(first) + Len(rest) :
           (first \o rest)[n] = IF n <= Len(first) THEN first[n] ELSE rest[n - Len(first)]
  BY <1>5, <1>8, ConcatProperties
<1>10. Len(first) + Len(rest) = words
  BY <1>1, <1>5, <1>8
<1>11. (first \o rest)[1] = UnitWord(u)
  BY <1>1, <1>5, <1>9, <1>10
<1>12. ASSUME NEW n \in 1 .. words
       PROVE  Inside((first \o rest)[n])
  <2>1. CASE n = 1
    BY <1>4, <1>11, <2>1
  <2>2. CASE n # 1
    <3>1. n - 1 \in 1 .. words - 1 /\ ~(n <= 1)
      BY <1>1, <2>2
    <3>2. (first \o rest)[n] = rest[n - 1]
      BY <1>5, <1>9, <1>10, <3>1
    <3> QED
      BY <1>4, <1>7, <3>1, <3>2
  <2> QED
    BY <2>1, <2>2
<1>13. /\ UnitImage(u) \in Seq(BufferWord)
       /\ Len(UnitImage(u)) = words
       /\ UnitImage(u)[1] = UnitWord(u)
       /\ \A n \in 1 .. words : Inside(UnitImage(u)[n])
  BY <1>2, <1>9, <1>10, <1>11, <1>12
<1> QED
  BY <1>13 DEF words

\* The units are all there.
Complete(f) == f \in Filter /\ Len(f.bf_vec_) = f.size_

LEMMA CompleteUnits ==
    ASSUME NEW f, Complete(f)
    PROVE  /\ f.size_ \in Nat
           /\ \A i \in 1 .. f.size_ : f.bf_vec_[i] \in Unit
BY FilterFields DEF Complete

\* The partial sums of serializedSize, one from the one before.
LEMMA UnitWordsSteps ==
    ASSUME NEW f, Complete(f)
    PROVE  /\ UnitWords(f)[0] = 0
           /\ \A i \in 1 .. f.size_ :
                UnitWords(f)[i] = UnitWords(f)[i - 1] + f.bf_vec_[i].words
<1> DEFINE n == f.size_
           Go(i, x) == x + f.bf_vec_[i].words
           Defines(a) == a = [i \in 0 .. n |-> IF i = 0 THEN 0 ELSE Go(i, a[i - 1])]
           words == CHOOSE a : Defines(a)
<1>1. n \in Nat
  BY CompleteUnits
<1>2. ASSUME NEW i \in 1 .. n, NEW x \in Nat
      PROVE  Go(i, x) \in Nat
  BY CompleteUnits, UnitFields
<1>3. \E a : Defines(a)
  <2> DEFINE g == [y \in (1 .. n) \X Nat |-> Go(y[1], y[2])]
  <2>1. ASSUME NEW i \in 1 .. n, NEW x \in Nat
        PROVE  g[<<i, x>>] = Go(i, x) /\ g[<<i, x>>] \in Nat
    BY <1>2
  <2> HIDE DEF g
  <2>2. StaysIn(g, n, Nat)
    BY <2>1 DEF StaysIn
  <2> HIDE DEF n, Go
  <2>3. PICK a \in [0 .. n -> Nat] : Continues(a, n, 0, g)
    BY <1>1, <2>2, RecursiveFunction
  <2>4. ASSUME NEW i \in 0 .. n
        PROVE  a[i] = IF i = 0 THEN 0 ELSE Go(i, a[i - 1])
    <3>1. CASE i = 0
      BY <2>3, <3>1 DEF Continues
    <3>2. CASE i # 0
      <4>1. i \in 1 .. n /\ i - 1 \in 0 .. n
        BY <1>1, <3>2
      <4> QED
        BY <2>1, <2>3, <3>2, <4>1 DEF Continues
    <3> QED
      BY <3>1, <3>2
  <2>5. a = [i \in 0 .. n |-> IF i = 0 THEN 0 ELSE Go(i, a[i - 1])]
    BY <2>4
  <2> QED
    BY <2>5
<1>4. Defines(words)
  BY <1>3
<1>5. UnitWords(f) = words
  BY DEF UnitWords
<1> HIDE DEF words
<1>6. ASSUME NEW i \in 0 .. n
      PROVE  words[i] = IF i = 0 THEN 0 ELSE Go(i, words[i - 1])
  BY <1>4
<1> HIDE DEF Defines
<1>7. words[0] = 0
  BY <1>1, <1>6
<1>8. \A i \in 1 .. n : i \in 0 .. n /\ i # 0
  BY <1>1
<1> QED
  BY <1>5, <1>6, <1>7, <1>8

\* The images of the first units, one from the one before.
LEMMA UnitImagesSteps ==
    ASSUME NEW f, Complete(f)
    PROVE  /\ UnitImages(f)[0] = << >>
           /\ \A i \in 1 .. f.size_ :
                UnitImages(f)[i] = UnitImages(f)[i - 1] \o UnitImage(f.bf_vec_[i])
<1> DEFINE n == f.size_
           Go(i, x) == x \o UnitImage(f.bf_vec_[i])
           S == Seq(BufferWord)
           Defines(a) == a = [i \in 0 .. n |-> IF i = 0 THEN << >> ELSE Go(i, a[i - 1])]
           dst == CHOOSE a : Defines(a)
<1>1. n \in Nat /\ << >> \in S
  BY CompleteUnits
<1>2. ASSUME NEW i \in 1 .. n, NEW x \in S
      PROVE  Go(i, x) \in S
  <2>1. UnitImage(f.bf_vec_[i]) \in S
    BY CompleteUnits, UnitImageShape
  <2> QED
    BY <2>1, ConcatProperties
<1> HIDE DEF S
<1>3. \E a : Defines(a)
  <2> DEFINE g == [y \in (1 .. n) \X S |-> Go(y[1], y[2])]
  <2>1. ASSUME NEW i \in 1 .. n, NEW x \in S
        PROVE  g[<<i, x>>] = Go(i, x) /\ g[<<i, x>>] \in S
    BY <1>2
  <2> HIDE DEF g
  <2>2. StaysIn(g, n, S)
    BY <2>1 DEF StaysIn
  <2> HIDE DEF n, Go
  <2>3. PICK a \in [0 .. n -> S] : Continues(a, n, << >>, g)
    BY <1>1, <2>2, RecursiveFunction
  <2>4. ASSUME NEW i \in 0 .. n
        PROVE  a[i] = IF i = 0 THEN << >> ELSE Go(i, a[i - 1])
    <3>1. CASE i = 0
      BY <2>3, <3>1 DEF Continues
    <3>2. CASE i # 0
      <4>1. i \in 1 .. n /\ i - 1 \in 0 .. n
        BY <1>1, <3>2
      <4> QED
        BY <2>1, <2>3, <3>2, <4>1 DEF Continues
    <3> QED
      BY <3>1, <3>2
  <2>5. a = [i \in 0 .. n |-> IF i = 0 THEN << >> ELSE Go(i, a[i - 1])]
    BY <2>4
  <2> QED
    BY <2>5
<1>4. Defines(dst)
  BY <1>3
<1>5. UnitImages(f) = dst
  BY DEF UnitImages
<1> HIDE DEF dst
<1>6. ASSUME NEW i \in 0 .. n
      PROVE  dst[i] = IF i = 0 THEN << >> ELSE Go(i, dst[i - 1])
  BY <1>4
<1> HIDE DEF Defines
<1>7. dst[0] = << >>
  BY <1>1, <1>6
<1>8. \A i \in 1 .. n : i \in 0 .. n /\ i # 0
  BY <1>1
<1> QED
  BY <1>5, <1>6, <1>7, <1>8

\* The image of the first i units: as long as they are together, without a header,
\* and each unit where the lengths of those before it say.
UnitsShape(f, i) ==
    /\ UnitWords(f)[i] \in Nat
    /\ UnitImages(f)[i] \in Seq(BufferWord)
    /\ Len(UnitImages(f)[i]) = UnitWords(f)[i]
    /\ \A n \in 1 .. UnitWords(f)[i] : Inside(UnitImages(f)[i][n])
    /\ \A j \in 1 .. i :
         /\ UnitWords(f)[j - 1] \in Nat
         /\ UnitWords(f)[j - 1] + 1 <= UnitWords(f)[i]
         /\ UnitImages(f)[i][UnitWords(f)[j - 1] + 1] = UnitWord(f.bf_vec_[j])

LEMMA UnitsShapeStep ==
    ASSUME NEW f, Complete(f), NEW i \in 1 .. f.size_, UnitsShape(f, i - 1)
    PROVE  UnitsShape(f, i)
<1> DEFINE u == f.bf_vec_[i]
           w0 == UnitWords(f)[i - 1]
           w1 == UnitWords(f)[i]
           d0 == UnitImages(f)[i - 1]
           d1 == UnitImages(f)[i]
           image == UnitImage(u)
<1>1. u \in Unit /\ u.words \in Nat /\ u.words >= 1
  BY CompleteUnits, UnitFields
<1>2. w1 = w0 + u.words /\ d1 = d0 \o image
  BY UnitWordsSteps, UnitImagesSteps
<1>3. /\ w0 \in Nat /\ d0 \in Seq(BufferWord) /\ Len(d0) = w0
      /\ \A n \in 1 .. w0 : Inside(d0[n])
  BY DEF UnitsShape
<1>4. /\ image \in Seq(BufferWord) /\ Len(image) = u.words /\ image[1] = UnitWord(u)
      /\ \A n \in 1 .. u.words : Inside(image[n])
  BY <1>1, UnitImageShape
<1>5. \A j \in 1 .. i - 1 :
        /\ UnitWords(f)[j - 1] \in Nat
        /\ UnitWords(f)[j - 1] + 1 <= w0
        /\ d0[UnitWords(f)[j - 1] + 1] = UnitWord(f.bf_vec_[j])
  BY DEF UnitsShape
<1> DEFINE words == u.words
<1> HIDE DEF w0, w1, d0, d1, image, words
<1>6. words \in Nat /\ words >= 1 /\ w1 = w0 + words /\ Len(image) = words
  BY <1>1, <1>2, <1>4 DEF words
<1>7. w1 \in Nat /\ w0 + 1 <= w1
  BY <1>3, <1>6
<1>8. /\ d1 \in Seq(BufferWord)
      /\ Len(d1) = w1
      /\ \A n \in 1 .. w1 : d1[n] = IF n <= w0 THEN d0[n] ELSE image[n - w0]
  <2>1. /\ d0 \o image \in Seq(BufferWord)
        /\ Len(d0 \o image) = Len(d0) + Len(image)
        /\ \A n \in 1 .. Len(d0) + Len(image) :
             (d0 \o image)[n] = IF n <= Len(d0) THEN d0[n] ELSE image[n - Len(d0)]
    BY <1>3, <1>4, ConcatProperties
  <2>2. Len(d0) + Len(image) = w1 /\ Len(d0) = w0
    BY <1>3, <1>6
  <2>3. d1 = d0 \o image
    BY <1>2
  <2> QED
    BY <2>1, <2>2, <2>3
<1>9. ASSUME NEW n \in 1 .. w1
      PROVE  Inside(d1[n])
  <2>1. CASE n <= w0
    BY <1>3, <1>8, <2>1
  <2>2. CASE ~(n <= w0)
    <3>1. n - w0 \in 1 .. words
      BY <1>3, <1>6, <1>7, <2>2
    <3> QED
      BY <1>4, <1>8, <2>2, <3>1 DEF words
  <2> QED
    BY <2>1, <2>2
<1>10. ASSUME NEW j \in 1 .. i
       PROVE  /\ UnitWords(f)[j - 1] \in Nat
              /\ UnitWords(f)[j - 1] + 1 <= w1
              /\ d1[UnitWords(f)[j - 1] + 1] = UnitWord(f.bf_vec_[j])
  <2> DEFINE k == UnitWords(f)[j - 1]
  <2>0. i \in Nat
    BY CompleteUnits
  <2>1. CASE j \in 1 .. i - 1
    <3>1. k \in Nat /\ k + 1 <= w0 /\ d0[k + 1] = UnitWord(f.bf_vec_[j])
      BY <1>5, <2>1
    <3> HIDE DEF k
    <3>2. k + 1 \in 1 .. w1 /\ k + 1 <= w1
      BY <1>3, <1>7, <3>1
    <3>3. d1[k + 1] = d0[k + 1]
      BY <1>8, <3>1, <3>2
    <3>4. k \in Nat /\ k + 1 <= w1 /\ d1[k + 1] = UnitWord(f.bf_vec_[j])
      BY <3>1, <3>2, <3>3
    <3> QED
      BY <3>4 DEF k
  <2>2. CASE j = i
    <3>1. k = w0
      BY <2>2 DEF w0
    <3> HIDE DEF k
    <3>2. k \in Nat /\ k + 1 \in 1 .. w1 /\ ~(k + 1 <= w0) /\ (k + 1) - w0 = 1 /\ k + 1 <= w1
      BY <1>3, <1>7, <3>1
    <3>3. d1[k + 1] = image[(k + 1) - w0]
      BY <1>8, <3>2
    <3>4. d1[k + 1] = UnitWord(f.bf_vec_[j])
      BY <1>4, <2>2, <3>2, <3>3
    <3>5. k \in Nat /\ k + 1 <= w1 /\ d1[k + 1] = UnitWord(f.bf_vec_[j])
      BY <3>2, <3>4
    <3> QED
      BY <3>5 DEF k
  <2> QED
    BY <2>0, <2>1, <2>2
<1> QED
  BY <1>7, <1>8, <1>9, <1>10 DEF UnitsShape, w1, d1

LEMMA UnitsHaveShape ==
    ASSUME NEW f, Complete(f), NEW i \in 0 .. f.size_
    PROVE  UnitsShape(f, i)
<1> DEFINE P == {n \in Nat : n <= f.size_ => UnitsShape(f, n)}
<1>0. f.size_ \in Nat
  BY CompleteUnits
<1>1. 0 \in P
  <2>1. UnitWords(f)[0] = 0 /\ UnitImages(f)[0] = << >>
    BY UnitWordsSteps, UnitImagesSteps
  <2>2. << >> \in Seq(BufferWord) /\ Len(<< >>) = 0
    OBVIOUS
  <2>3. UnitsShape(f, 0)
    BY <2>1, <2>2 DEF UnitsShape
  <2> QED
    BY <2>3
<1>2. ASSUME NEW n \in P
      PROVE  n + 1 \in P
  <2> SUFFICES ASSUME n + 1 <= f.size_
               PROVE  UnitsShape(f, n + 1)
    OBVIOUS
  <2>1. n + 1 \in 1 .. f.size_ /\ (n + 1) - 1 = n /\ n <= f.size_
    BY <1>0
  <2>2. UnitsShape(f, n)
    BY <2>1
  <2>3. UnitsShape(f, (n + 1) - 1)
    BY <2>1, <2>2
  <2> QED
    BY <2>1, <2>3, UnitsShapeStep
<1>3. P \subseteq Nat
  OBVIOUS
<1>4. i \in P
  <2> HIDE DEF P
  <2>1. P = Nat
    BY <1>1, <1>2, <1>3, SetInduction
  <2> QED
    BY <1>0, <2>1
<1> QED
  BY <1>0, <1>4

\* An image is as long as serializedSize() says, starts with the only header in
\* it, and has each unit where the lengths of those before it say.
LEMMA ImageShape ==
    ASSUME NEW f, Complete(f)
    PROVE  /\ serializedSize(f) \in Nat /\ serializedSize(f) >= 1
           /\ Image(f) \in Seq(BufferWord)
           /\ Len(Image(f)) = serializedSize(f)
           /\ Image(f)[1] = Header(f)
           /\ \A n \in 2 .. serializedSize(f) : Inside(Image(f)[n])
           /\ \A j \in 1 .. f.size_ :
                /\ UnitWords(f)[j - 1] \in Nat
                /\ UnitWords(f)[j - 1] + 2 <= serializedSize(f)
                /\ Image(f)[UnitWords(f)[j - 1] + 2] = UnitWord(f.bf_vec_[j])
<1> DEFINE w == UnitWords(f)[f.size_]
           d == UnitImages(f)[f.size_]
           first == <<Header(f)>>
           size == serializedSize(f)
<1>1. f.size_ \in Nat /\ f \in Filter
  BY CompleteUnits DEF Complete
<1>2. UnitsShape(f, f.size_)
  BY <1>1, UnitsHaveShape
<1>3. /\ w \in Nat /\ d \in Seq(BufferWord) /\ Len(d) = w
      /\ \A n \in 1 .. w : Inside(d[n])
  BY <1>2 DEF UnitsShape
<1>4. \A j \in 1 .. f.size_ :
         /\ UnitWords(f)[j - 1] \in Nat
         /\ UnitWords(f)[j - 1] + 1 <= w
         /\ d[UnitWords(f)[j - 1] + 1] = UnitWord(f.bf_vec_[j])
  BY <1>2 DEF UnitsShape
<1>5. Header(f) \in BufferWord
  BY <1>1 DEF BufferWord
<1>6. first \in Seq(BufferWord) /\ Len(first) = 1 /\ first[1] = Header(f)
  BY <1>5
<1>7. size = 1 + w /\ Image(f) = first \o d
  BY DEF serializedSize, Image
<1> HIDE DEF w, d, first, size
<1>8. size \in Nat /\ size >= 1
  BY <1>3, <1>7
<1>9. /\ Image(f) \in Seq(BufferWord) /\ Len(Image(f)) = size
      /\ \A n \in 1 .. size : Image(f)[n] = IF n <= 1 THEN first[n] ELSE d[n - 1]
  BY <1>3, <1>6, <1>7, ConcatProperties
<1>10. Image(f)[1] = Header(f)
  BY <1>6, <1>8, <1>9
<1>11. ASSUME NEW n \in 2 .. size
       PROVE  Inside(Image(f)[n])
  <2>1. n \in 1 .. size /\ ~(n <= 1) /\ n - 1 \in 1 .. w
    BY <1>3, <1>7, <1>8
  <2> QED
    BY <1>3, <1>9, <2>1
<1>12. ASSUME NEW j \in 1 .. f.size_
       PROVE  /\ UnitWords(f)[j - 1] \in Nat
              /\ UnitWords(f)[j - 1] + 2 <= size
              /\ Image(f)[UnitWords(f)[j - 1] + 2] = UnitWord(f.bf_vec_[j])
  <2> DEFINE k == UnitWords(f)[j - 1]
  <2>1. k \in Nat /\ k + 1 <= w /\ d[k + 1] = UnitWord(f.bf_vec_[j])
    BY <1>4
  <2> HIDE DEF k
  <2>2. k + 2 \in 1 .. size /\ ~(k + 2 <= 1) /\ (k + 2) - 1 = k + 1 /\ k + 2 <= size
    BY <1>3, <1>7, <2>1
  <2>3. k \in Nat /\ k + 2 <= size /\ Image(f)[k + 2] = UnitWord(f.bf_vec_[j])
    BY <1>9, <2>1, <2>2
  <2> QED
    BY <2>3 DEF k
<1> QED
  BY <1>8, <1>9, <1>10, <1>11, <1>12 DEF size

----------------------------------------------------------------------------
(* What a reader finds.                                                    *)

\* Behind p there is the whole image of f.
ImageLies(b, p, f) ==
    /\ p + serializedSize(f) <= Len(b)
    /\ \A n \in 1 .. serializedSize(f) : b[p + n] = Image(f)[n]

\* The j-th unit lies where the lengths of those before it say.
LEMMA UnitAt ==
    ASSUME NEW b, NEW p \in Nat, NEW f, Complete(f), ImageLies(b, p, f), NEW j \in 1 .. f.size_
    PROVE  /\ UnitWords(f)[j - 1] \in Nat
           /\ b[p + 2 + UnitWords(f)[j - 1]].unit = f.bf_vec_[j]
<1> DEFINE k == UnitWords(f)[j - 1]
           size == serializedSize(f)
<1>1. /\ k \in Nat /\ k + 2 <= size /\ size \in Nat
      /\ Image(f)[k + 2] = UnitWord(f.bf_vec_[j])
  BY ImageShape
<1>2. \A n \in 1 .. size : b[p + n] = Image(f)[n]
  BY DEF ImageLies
<1> HIDE DEF k, size
<1>3. k + 2 \in 1 .. size /\ p + 2 + k = p + (k + 2)
  BY <1>1
<1>4. b[p + 2 + k] = UnitWord(f.bf_vec_[j])
  BY <1>1, <1>2, <1>3
<1>5. k \in Nat /\ b[p + 2 + k].unit = f.bf_vec_[j]
  BY <1>1, <1>4 DEF UnitWord
<1> QED
  BY <1>5 DEF k

\* The reader, going from unit to unit by their lengths, reads the units that
\* were written, as many as it wants.
LEMMA ReadsWhatWasWritten ==
    ASSUME src \in Nat, NEW f, Complete(f), ImageLies(buffer, src, f), NEW n \in 0 .. f.size_
    PROVE  ReadUnits(n) = [i \in 1 .. n |-> f.bf_vec_[i]]
<1> DEFINE Defines(a) == a = [i \in 0 .. n |-> IF i = 0 THEN src + 2
                                               ELSE a[i - 1] + buffer[a[i - 1]].unit.words]
           pos == CHOOSE a : Defines(a)
           At(i) == src + 2 + UnitWords(f)[i]
<1>0. f.size_ \in Nat /\ n \in Nat /\ src \in Nat
  BY CompleteUnits
<1>1. ASSUME NEW i \in 1 .. n
      PROVE  /\ buffer[At(i - 1)].unit = f.bf_vec_[i]
             /\ At(i) = At(i - 1) + buffer[At(i - 1)].unit.words
             /\ i \in 0 .. n /\ i # 0 /\ i - 1 \in 0 .. n
  <2>1. i \in 1 .. f.size_ /\ i \in 0 .. n /\ i # 0 /\ i - 1 \in 0 .. n
    BY <1>0
  <2>2. /\ UnitWords(f)[i - 1] \in Nat
        /\ buffer[At(i - 1)].unit = f.bf_vec_[i]
    BY <1>0, <2>1, UnitAt
  <2>3. UnitWords(f)[i] = UnitWords(f)[i - 1] + f.bf_vec_[i].words
    BY <2>1, UnitWordsSteps
  <2>4. f.bf_vec_[i].words \in Nat
    BY <2>1, CompleteUnits, UnitFields
  <2>5. At(i) = At(i - 1) + f.bf_vec_[i].words
    <3> DEFINE x == UnitWords(f)[i - 1]
               y == f.bf_vec_[i].words
    <3>1. x \in Nat /\ y \in Nat
      BY <2>2, <2>4
    <3> HIDE DEF x, y
    <3>2. src + 2 + (x + y) = (src + 2 + x) + y
      BY <1>0, <3>1
    <3> QED
      BY <2>3, <3>2 DEF x, y
  <2> QED
    BY <2>1, <2>2, <2>5
<1>2. At(0) = src + 2
  <2>1. UnitWords(f)[0] = 0
    BY UnitWordsSteps
  <2> QED
    BY <1>0, <2>1
<1> HIDE DEF At
<1>3. \E a : Defines(a)
  <2> DEFINE a == [i \in 0 .. n |-> At(i)]
  <2>1. ASSUME NEW i \in 0 .. n
        PROVE  a[i] = IF i = 0 THEN src + 2 ELSE a[i - 1] + buffer[a[i - 1]].unit.words
    <3>1. CASE i = 0
      BY <1>2, <3>1
    <3>2. CASE i # 0
      <4>1. i \in 1 .. n
        BY <1>0, <3>2
      <4>2. a[i] = At(i) /\ a[i - 1] = At(i - 1)
        BY <1>1, <4>1
      <4> HIDE DEF a
      <4> QED
        BY <1>1, <3>2, <4>1, <4>2
    <3> QED
      BY <3>1, <3>2
  <2>2. a = [i \in 0 .. n |-> a[i]]
    OBVIOUS
  <2> HIDE DEF a
  <2>3. a = [i \in 0 .. n |-> IF i = 0 THEN src + 2
                              ELSE a[i - 1] + buffer[a[i - 1]].unit.words]
    BY <2>1, <2>2
  <2> QED
    BY <2>3
<1>4. Defines(pos)
  BY <1>3
<1>5. ReadUnits(n) = [i \in 1 .. n |-> buffer[pos[i - 1]].unit]
  BY DEF ReadUnits
<1> HIDE DEF pos
<1>6. ASSUME NEW i \in 0 .. n
      PROVE  pos[i] = IF i = 0 THEN src + 2 ELSE pos[i - 1] + buffer[pos[i - 1]].unit.words
  BY <1>4
<1> HIDE DEF Defines
<1> DEFINE P == {i \in Nat : i <= n => pos[i] = At(i)}
<1>7. 0 \in P
  BY <1>0, <1>2, <1>6
<1>8. ASSUME NEW i \in P
      PROVE  i + 1 \in P
  <2>0. i + 1 \in Nat
    OBVIOUS
  <2> SUFFICES ASSUME i + 1 <= n
               PROVE  pos[i + 1] = At(i + 1)
    BY <2>0
  <2>1. pos[i] = At(i) /\ i + 1 \in 1 .. n /\ (i + 1) - 1 = i
    BY <1>0
  <2>2. pos[i + 1] = pos[i] + buffer[pos[i]].unit.words
    <3>1. i + 1 \in 0 .. n /\ i + 1 # 0
      BY <1>0, <2>1
    <3> QED
      BY <1>6, <2>1, <3>1
  <2>3. At(i + 1) = At(i) + buffer[At(i)].unit.words
    BY <1>1, <2>1
  <2> QED
    BY <2>1, <2>2, <2>3
<1>9. P \subseteq Nat
  OBVIOUS
<1>10. ASSUME NEW i \in 0 .. n
       PROVE  pos[i] = At(i)
  <2>1. i \in P
    <3> HIDE DEF P
    <3>1. P = Nat
      BY <1>7, <1>8, <1>9, SetInduction
    <3> QED
      BY <1>0, <3>1
  <2> QED
    BY <1>0, <2>1
<1>11. ASSUME NEW i \in 1 .. n
       PROVE  buffer[pos[i - 1]].unit = f.bf_vec_[i]
  BY <1>1, <1>10
<1> QED
  BY <1>5, <1>11

\* A filter reopened with some of the units of a good one is good: what it does
\* not read it cannot deny with.
LEMMA ReopenedIsGood ==
    ASSUME NEW f, Good(f), AllUnitsThere(f), NEW n \in 0 .. f.size_, NEW units,
           units = [i \in 1 .. n |-> f.bf_vec_[i]]
    PROVE  Good([f EXCEPT !.open_size_ = n, !.bf_vec_ = units])
<1> DEFINE g == [f EXCEPT !.open_size_ = n, !.bf_vec_ = units]
<1>1. /\ f \in Filter /\ Len(f.bf_vec_) = f.size_ /\ f.open_size_ = f.size_
      /\ KeysInUnits(f) /\ Answers(f) = f.whole
  BY DEF Good, AllUnitsThere
<1>2. f.size_ \in Nat /\ f.size_ <= MaxUnits /\ f.bf_vec_ \in Seq(Unit) /\ n \in Nat /\ n <= f.size_
  BY <1>1, FilterFields
<1>3. \A i \in 1 .. n : f.bf_vec_[i] \in Unit /\ i \in 1 .. f.size_
  BY <1>1, <1>2
<1>4. units \in [1 .. n -> Unit] /\ \A i \in 1 .. n : units[i] = f.bf_vec_[i]
  BY <1>3
<1>5. units \in Seq(Unit) /\ Len(units) = n
  <2>1. units \in [1 .. n -> Unit]
    BY <1>4
  <2> QED
    BY <1>2, <2>1
<1>6. n \in 0 .. MaxUnits
  BY <1>2, BoundsAssumption
<1>7. g \in Filter
  BY <1>1, <1>5, <1>6 DEF Filter
<1>8. /\ g.size_ = f.size_ /\ g.open_size_ = n /\ g.bf_vec_ = units
      /\ g.keys = f.keys /\ g.whole = f.whole
  BY <1>1 DEF Filter
<1> HIDE DEF g
<1>9. KeysInUnits(g)
  BY <1>1, <1>3, <1>4, <1>8 DEF KeysInUnits
<1>10. Answers(f) \subseteq Answers(g)
  BY <1>1, <1>3, <1>4, <1>8 DEF Answers
<1>11. n = f.size_ => Answers(g) = Answers(f)
  BY <1>1, <1>3, <1>4, <1>8 DEF Answers
<1>12. Good(g)
  BY <1>1, <1>2, <1>5, <1>7, <1>8, <1>9, <1>10, <1>11 DEF Good
<1> QED
  BY <1>12 DEF g

\* What the u32 of the header keeps of a size.
LEMMA KeptOfASize ==
    ASSUME NEW x \in Nat
    PROVE  /\ AsU32(x) \in Nat
           /\ AsU32(x) <= x
           /\ x < 2 * MaxInt => AsU32(x) = x
           /\ x >= 2 * MaxInt => AsU32(x) + 1 < x
<1> DEFINE m == 2 * MaxInt
           q == x \div m
           r == x % m
<1>1. m \in Nat /\ m >= 2
  BY MaxIntAssumption
<1> HIDE DEF m
<1>2. q \in Int /\ r \in 0 .. m - 1 /\ x = m * q + r
  BY <1>1
<1> HIDE DEF q, r
<1>3. q >= 0
  <2> SUFFICES ASSUME q <= -1
               PROVE  FALSE
    BY <1>2
  <2>1. m * q <= m * (-1)
    BY <1>1, <1>2
  <2> QED
    BY <1>1, <1>2, <2>1
<1>4. CASE q = 0
  <2>1. x = r
    BY <1>1, <1>2, <1>4
  <2>2. r \in Nat /\ r <= x /\ (x < m => r = x) /\ (x >= m => r + 1 < x)
    BY <1>1, <1>2, <2>1
  <2> QED
    BY <2>2 DEF m, r, AsU32
<1>5. CASE q >= 1
  <2>1. m * q >= m
    BY <1>1, <1>2, <1>5
  <2>2. m * q \in Nat
    BY <1>1, <1>2, <1>3
  <2>3. r \in Nat /\ r <= x /\ (x < m => r = x) /\ (x >= m => r + 1 < x)
    <3> DEFINE y == m * q
    <3> HIDE DEF y
    <3>1. y \in Nat /\ y >= m /\ x = y + r
      BY <1>2, <2>1, <2>2 DEF y
    <3> QED
      BY <1>1, <1>2, <3>1
  <2> QED
    BY <2>3 DEF m, r, AsU32
<1> QED
  BY <1>2, <1>3, <1>4, <1>5

----------------------------------------------------------------------------
(* The invariant.                                                          *)

\* Behind every header there is the image of a good filter with all its units,
\* of a size that its writer could assert.
ImageBehind(b, p) ==
    /\ Good(b[p + 1].filter)
    /\ AllUnitsThere(b[p + 1].filter)
    /\ ~AssertionFails(b[p + 1].filter)
    /\ ImageLies(b, p, b[p + 1].filter)

BufferInv(b) ==
    /\ b \in Seq(BufferWord)
    /\ b # << >> => b[1].tag = "header"
    /\ \A p \in 0 .. Len(b) - 1 : b[p + 1].tag = "header" => ImageBehind(b, p)

\* src is where it started, or behind the image read last as far as the size in
\* its header reaches.
LastRead(b, image) ==
    /\ image.start < Len(b)
    /\ b[image.start + 1].tag = "header"
    /\ image.end = image.start + serializedSize(b[image.start + 1].filter)
    /\ src = image.start + 1 + AsU32(serializedSize(b[image.start + 1].filter))

ReadImage == [start : Nat, end : Nat]

LEMMA ReadImageFields ==
    ASSUME NEW seq \in Seq(ReadImage), NEW n \in 1 .. Len(seq)
    PROVE  seq[n] \in ReadImage /\ seq[n].start \in Nat /\ seq[n].end \in Nat
<1>1. seq[n] \in ReadImage
  OBVIOUS
<1> QED
  BY <1>1 DEF ReadImage

ReaderInv ==
    /\ src \in Nat
    /\ read \in Seq(ReadImage)
    /\ \A n \in 1 .. Len(read) : read[n].end <= Len(buffer)
    /\ read = << >> => src = 0
    /\ read # << >> => LastRead(buffer, read[Len(read)])

FilterInv == ebf # none => Good(ebf)

OutcomeInv ==
    /\ images \in 0 .. MaxImages
    /\ outcome \in {"ok", "missing unit", "too many units", "misread", "assertion"}
    /\ outcome = "misread" => read # << >>

IInv == FilterInv /\ BufferInv(buffer) /\ ReaderInv /\ OutcomeInv

LEMMA InitInvariant == Init => IInv
<1> SUFFICES ASSUME Init
             PROVE  IInv
  OBVIOUS
<1>1. FilterInv
  BY DEF Init, FilterInv
<1>2. BufferInv(buffer)
  BY DEF Init, BufferInv
<1>3. ReaderInv
  BY DEF Init, ReaderInv
<1>4. OutcomeInv
  BY BoundsAssumption DEF Init, OutcomeInv
<1> QED
  BY <1>1, <1>2, <1>3, <1>4 DEF IInv

\* A header that the invariant knows of belongs to a complete filter.
LEMMA BehindHeader ==
    ASSUME BufferInv(buffer), NEW p \in Nat, p < Len(buffer), buffer[p + 1].tag = "header"
    PROVE  LET f == buffer[p + 1].filter
           IN  /\ Good(f) /\ AllUnitsThere(f) /\ Complete(f) /\ ~AssertionFails(f)
               /\ ImageLies(buffer, p, f)
               /\ buffer[p + 1] = Header(f)
               /\ serializedSize(f) \in Nat
               /\ p + serializedSize(f) <= Len(buffer)
<1> DEFINE f == buffer[p + 1].filter
<1>1. p \in 0 .. Len(buffer) - 1
  BY DEF BufferInv
<1>2. Good(f) /\ AllUnitsThere(f) /\ ~AssertionFails(f) /\ ImageLies(buffer, p, f)
  BY <1>1 DEF BufferInv, ImageBehind
<1> HIDE DEF f
<1>3. Complete(f)
  BY <1>2 DEF Good, AllUnitsThere, Complete
<1>4. serializedSize(f) \in Nat /\ serializedSize(f) >= 1 /\ Image(f)[1] = Header(f)
  BY <1>3, ImageShape
<1>5. buffer[p + 1] = Header(f) /\ p + serializedSize(f) <= Len(buffer)
  <2>1. 1 \in 1 .. serializedSize(f)
    BY <1>4
  <2> QED
    BY <1>2, <1>4, <2>1 DEF ImageLies
<1>6. /\ Good(f) /\ AllUnitsThere(f) /\ Complete(f) /\ ~AssertionFails(f)
      /\ ImageLies(buffer, p, f) /\ buffer[p + 1] = Header(f)
      /\ serializedSize(f) \in Nat /\ p + serializedSize(f) <= Len(buffer)
  BY <1>2, <1>3, <1>4, <1>5
<1> QED
  BY <1>6 DEF f

\* serialize() puts a whole image behind what the buffer holds.
LEMMA BufferExtended ==
    ASSUME NEW b, BufferInv(b), NEW f, Good(f), AllUnitsThere(f), ~AssertionFails(f)
    PROVE  /\ BufferInv(b \o Image(f))
           /\ Len(b \o Image(f)) >= Len(b)
           /\ \A n \in 1 .. Len(b) : (b \o Image(f))[n] = b[n]
<1> DEFINE image == Image(f)
           size == serializedSize(f)
           c == b \o image
<1>1. Complete(f)
  BY DEF Good, AllUnitsThere, Complete
<1>2. /\ size \in Nat /\ size >= 1 /\ image \in Seq(BufferWord) /\ Len(image) = size
      /\ image[1] = Header(f)
      /\ \A n \in 2 .. size : Inside(image[n])
  BY <1>1, ImageShape
<1>3. b \in Seq(BufferWord) /\ Len(b) \in Nat
  BY DEF BufferInv
<1> HIDE DEF size, image
<1>4. /\ c \in Seq(BufferWord)
      /\ Len(c) = Len(b) + size
      /\ \A n \in 1 .. Len(b) + size : c[n] = IF n <= Len(b) THEN b[n] ELSE image[n - Len(b)]
  BY <1>2, <1>3, ConcatProperties
<1> HIDE DEF c
<1>5. \A n \in 1 .. Len(b) : c[n] = b[n]
  BY <1>2, <1>3, <1>4
<1>6. ASSUME NEW n \in 1 .. size
      PROVE  c[Len(b) + n] = image[n]
  <2>1. Len(b) + n \in 1 .. Len(b) + size /\ ~(Len(b) + n <= Len(b)) /\ (Len(b) + n) - Len(b) = n
    BY <1>2, <1>3
  <2> QED
    BY <1>4, <2>1
<1>7. c[1].tag = "header"
  <2>1. CASE Len(b) = 0
    <3>1. b = << >> /\ Len(b) + 1 = 1 /\ 1 \in 1 .. size
      BY <1>2, <1>3, <2>1
    <3>2. c[Len(b) + 1] = image[1]
      BY <1>6, <3>1
    <3>3. c[1] = image[1]
      BY <3>1, <3>2, Zenon
    <3> QED
      BY <1>2, <3>3, HeaderFields
  <2>2. CASE Len(b) # 0
    <3>1. 1 \in 1 .. Len(b) /\ b # << >>
      BY <1>3, <2>2
    <3> QED
      BY <1>5, <3>1 DEF BufferInv
  <2> QED
    BY <2>1, <2>2
<1>8. ASSUME NEW p \in 0 .. Len(c) - 1, c[p + 1].tag = "header"
      PROVE  ImageBehind(c, p)
  <2>1. CASE p < Len(b)
    <3>1. p + 1 \in 1 .. Len(b) /\ p \in 0 .. Len(b) - 1 /\ p \in Nat
      BY <1>3, <1>4, <2>1
    <3>2. c[p + 1] = b[p + 1]
      BY <1>5, <3>1
    <3> DEFINE g == b[p + 1].filter
    <3>3. ImageBehind(b, p)
      BY <1>8, <3>1, <3>2 DEF BufferInv
    <3>4. Good(g) /\ AllUnitsThere(g) /\ ~AssertionFails(g) /\ ImageLies(b, p, g)
      BY <3>3 DEF ImageBehind
    <3>5. c[p + 1].filter = g
      BY <3>2
    <3> HIDE DEF g
    <3>6. Complete(g)
      BY <3>4 DEF Good, AllUnitsThere, Complete
    <3>7. ImageLies(c, p, g)
      <4>1. serializedSize(g) \in Nat /\ p + serializedSize(g) <= Len(b)
        BY <3>4, <3>6, ImageShape DEF ImageLies
      <4>2. p + serializedSize(g) <= Len(c)
        BY <1>2, <1>3, <1>4, <3>1, <4>1
      <4>3. ASSUME NEW n \in 1 .. serializedSize(g)
            PROVE  c[p + n] = Image(g)[n]
        <5>1. p + n \in 1 .. Len(b)
          BY <1>3, <3>1, <4>1
        <5>2. b[p + n] = Image(g)[n]
          BY <3>4 DEF ImageLies
        <5> QED
          BY <1>5, <5>1, <5>2
      <4> QED
        BY <4>2, <4>3 DEF ImageLies
    <3> QED
      BY <3>4, <3>5, <3>7 DEF ImageBehind
  <2>2. CASE p = Len(b)
    <3>1. c[p + 1] = image[1]
      BY <1>2, <1>6, <2>2
    <3>2. c[p + 1].filter = f
      BY <1>2, <3>1, HeaderFields
    <3>3. ImageLies(c, p, f)
      <4>1. p + size <= Len(c)
        BY <1>2, <1>3, <1>4, <2>2
      <4>2. \A n \in 1 .. size : c[p + n] = image[n]
        BY <1>6, <2>2
      <4> QED
        BY <4>1, <4>2 DEF ImageLies, size, image
    <3> QED
      BY <3>2, <3>3 DEF ImageBehind
  <2>3. CASE p > Len(b)
    <3> DEFINE n == (p + 1) - Len(b)
    <3>1. n \in 2 .. size /\ n \in 1 .. size /\ Len(b) + n = p + 1
      BY <1>2, <1>3, <1>4, <2>3
    <3> HIDE DEF n
    <3>2. c[p + 1] = image[n]
      BY <1>6, <3>1, Zenon
    <3>3. Inside(c[p + 1])
      BY <1>2, <3>1, <3>2, Zenon
    <3> QED
      BY <1>8, <3>3 DEF Inside
  <2> QED
    BY <1>3, <2>1, <2>2, <2>3
<1>9. Len(c) >= Len(b)
  BY <1>2, <1>3, <1>4
<1>10. BufferInv(c)
  BY <1>4, <1>7, <1>8 DEF BufferInv
<1> QED
  BY <1>5, <1>9, <1>10 DEF c, image

----------------------------------------------------------------------------
(* Each step preserves it.                                                 *)

\* Create, add, Delete and the steps that end a behaviour leave buffer and reader alone.
LEMMA ReaderUnchanged ==
    ASSUME BufferInv(buffer), ReaderInv, UNCHANGED <<buffer, src, read>>
    PROVE  BufferInv(buffer)' /\ ReaderInv'
<1>1. buffer' = buffer /\ src' = src /\ read' = read
  OBVIOUS
<1>2. ReaderInv'
  BY <1>1 DEF ReaderInv, LastRead
<1>3. BufferInv(buffer')
  BY <1>1
<1> QED
  BY <1>2, <1>3

LEMMA InMemorySteps ==
    ASSUME IInv, Create \/ add \/ Delete
    PROVE  IInv'
<1>1. UNCHANGED <<buffer, src, images, read, outcome>>
  BY DEF Create, add, Delete
<1>2. BufferInv(buffer)' /\ ReaderInv'
  BY <1>1, ReaderUnchanged DEF IInv
<1>3. OutcomeInv'
  BY <1>1 DEF IInv, OutcomeInv
<1>4. FilterInv'
  <2>1. CASE Create
    BY <2>1, CreatedIsGood DEF FilterInv
  <2>2. CASE add
    <3>1. Good(ebf) /\ AllUnitsThere(ebf)
      BY <2>2 DEF add, IInv, FilterInv
    <3>2. PICK key \in Keys :
            ebf' = WithWhole([ebf EXCEPT !.bf_vec_ = Added(ebf, key), !.keys = @ \cup {key}])
      BY <2>2 DEF add
    <3> QED
      BY <3>1, <3>2, AddedIsGood DEF FilterInv
  <2>3. CASE Delete
    BY <2>3 DEF Delete, FilterInv
  <2> QED
    BY <2>1, <2>2, <2>3
<1> QED
  BY <1>2, <1>3, <1>4 DEF IInv

LEMMA FailingSteps ==
    ASSUME IInv, SerializeTooLong \/ UseMissingUnit \/ Misread
    PROVE  IInv'
<1>1. UNCHANGED <<ebf, buffer, src, images, read>>
  BY DEF SerializeTooLong, UseMissingUnit, Misread
<1>2. BufferInv(buffer)' /\ ReaderInv'
  BY <1>1, ReaderUnchanged DEF IInv
<1>3. FilterInv'
  BY <1>1 DEF IInv, FilterInv
<1>4. OutcomeInv'
  <2>1. CASE SerializeTooLong \/ UseMissingUnit
    BY <1>1, <2>1 DEF SerializeTooLong, UseMissingUnit, IInv, OutcomeInv
  <2>2. CASE Misread
    <3>1. /\ outcome' \in {"too many units", "misread"}
          /\ outcome' = "misread" => header.tag # "header"
          /\ src < Len(buffer)
      BY <2>2 DEF Misread
    <3>2. ASSUME read = << >>, outcome' = "misread"
          PROVE  FALSE
      <4>1. src = 0 /\ buffer \in Seq(BufferWord)
        BY <3>2 DEF IInv, ReaderInv, BufferInv
      <4>2. src + 1 = 1 /\ buffer # << >>
        <5>1. 0 < Len(buffer)
          BY <3>1, <4>1
        <5> QED
          BY <4>1, <5>1, EmptySeq
      <4>3. header = buffer[1]
        BY <4>2 DEF header
      <4>4. buffer[1].tag = "header"
        BY <4>2 DEF IInv, BufferInv
      <4> QED
        BY <3>1, <3>2, <4>3, <4>4
    <3> QED
      BY <1>1, <3>1, <3>2 DEF IInv, OutcomeInv
  <2> QED
    BY <2>1, <2>2
<1> QED
  BY <1>2, <1>3, <1>4 DEF IInv

LEMMA SerializeStep ==
    ASSUME IInv, serialize
    PROVE  IInv'
<1>1. /\ buffer' = buffer \o Image(ebf) /\ images' = images + 1 /\ images < MaxImages
      /\ UNCHANGED <<ebf, src, read, outcome>>
      /\ Good(ebf) /\ AllUnitsThere(ebf) /\ ~AssertionFails(ebf)
  BY DEF serialize, IInv, FilterInv
<1>2. BufferInv(buffer) /\ ReaderInv /\ OutcomeInv
  BY DEF IInv
<1>3. /\ BufferInv(buffer')
      /\ Len(buffer') >= Len(buffer)
      /\ \A n \in 1 .. Len(buffer) : buffer'[n] = buffer[n]
  BY <1>1, <1>2, BufferExtended
<1>4. FilterInv'
  BY <1>1 DEF FilterInv
<1>5. OutcomeInv'
  <2>1. images' \in 0 .. MaxImages
    <3>1. images \in 0 .. MaxImages /\ MaxImages \in Nat
      BY <1>2, BoundsAssumption DEF OutcomeInv
    <3>2. images' = images + 1 /\ images < MaxImages
      BY <1>1
    <3> QED
      BY <3>1, <3>2
  <2> QED
    BY <1>1, <1>2, <2>1 DEF OutcomeInv
<1>6. Len(buffer) \in Nat /\ Len(buffer') \in Nat
  BY <1>2, <1>3 DEF BufferInv
<1>7. ReaderInv'
  <2>1. /\ src \in Nat /\ read \in Seq(ReadImage)
        /\ \A n \in 1 .. Len(read) : read[n].end <= Len(buffer)
        /\ read = << >> => src = 0
        /\ read # << >> => LastRead(buffer, read[Len(read)])
    BY <1>2 DEF ReaderInv
  <2>2. ASSUME NEW n \in 1 .. Len(read)
        PROVE  read[n].end <= Len(buffer')
    <3>1. read[n].end \in Nat /\ read[n].end <= Len(buffer)
      BY <2>1, ReadImageFields
    <3> QED
      BY <1>3, <1>6, <3>1
  <2>3. ASSUME read # << >>
        PROVE  LastRead(buffer, read[Len(read)])'
    <3> DEFINE image == read[Len(read)]
    <3>0. Len(read) \in 1 .. Len(read)
      BY <2>1, <2>3
    <3>1. image.start \in Nat
      BY <2>1, <3>0, ReadImageFields
    <3>2. LastRead(buffer, image)
      BY <2>1, <2>3
    <3>3. read'[Len(read')] = image
      BY <1>1
    <3> HIDE DEF image
    <3>4. image.start \in Nat /\ image.start < Len(buffer)
      BY <3>1, <3>2 DEF LastRead
    <3>5. image.start + 1 \in 1 .. Len(buffer) /\ image.start < Len(buffer')
      BY <1>3, <1>6, <3>4
    <3>6. buffer'[image.start + 1] = buffer[image.start + 1]
      BY <1>3, <3>5
    <3> QED
      BY <1>1, <3>2, <3>3, <3>5, <3>6 DEF LastRead
  <2> QED
    BY <1>1, <2>1, <2>2, <2>3 DEF ReaderInv
<1> QED
  BY <1>3, <1>4, <1>5, <1>7 DEF IInv

LEMMA DeserializeStep ==
    ASSUME IInv, deserialize
    PROVE  IInv'
<1> DEFINE f == header.filter
           image == ImageAt(src)
<1>1. /\ src < Len(buffer) /\ header.tag = "header" /\ outcome = "ok"
      /\ src' = src + 1 + header.serialized_size_
      /\ read' = Append(read, ImageAt(src))
      /\ UNCHANGED <<buffer, images, outcome>>
  BY DEF deserialize
<1>2. PICK open_size \in 0 .. header.size_ :
        ebf' = [f EXCEPT !.open_size_ = open_size, !.bf_vec_ = ReadUnits(open_size)]
  BY DEF deserialize
<1>3. BufferInv(buffer) /\ ReaderInv /\ OutcomeInv /\ src \in Nat
  BY DEF IInv, ReaderInv
<1>4. /\ Good(f) /\ AllUnitsThere(f) /\ Complete(f)
      /\ ImageLies(buffer, src, f)
      /\ header = Header(f)
      /\ serializedSize(f) \in Nat
      /\ src + serializedSize(f) <= Len(buffer)
  BY <1>1, <1>3, BehindHeader DEF header
<1>5. header.size_ = f.size_ /\ header.serialized_size_ = AsU32(serializedSize(f))
  BY <1>4, HeaderFields
<1>6. FilterInv'
  <2>1. open_size \in 0 .. f.size_
    BY <1>5
  <2>2. ReadUnits(open_size) = [i \in 1 .. open_size |-> f.bf_vec_[i]]
    BY <1>3, <1>4, <2>1, ReadsWhatWasWritten
  <2>3. Good([f EXCEPT !.open_size_ = open_size, !.bf_vec_ = ReadUnits(open_size)])
    BY <1>4, <2>1, <2>2, ReopenedIsGood
  <2> QED
    BY <1>2, <2>3 DEF FilterInv
<1>7. OutcomeInv'
  BY <1>1, <1>3 DEF OutcomeInv
<1>8. /\ image.start = src /\ image.end = src + serializedSize(f)
      /\ image \in ReadImage
  <2>1. Len(Image(f)) = serializedSize(f)
    BY <1>4, ImageShape
  <2>2. image = [start |-> src, end |-> src + serializedSize(f)]
    BY <2>1 DEF ImageAt
  <2>3. src + serializedSize(f) \in Nat
    BY <1>3, <1>4
  <2> HIDE DEF image
  <2> QED
    BY <1>3, <2>2, <2>3 DEF ReadImage
<1> HIDE DEF image
<1>9. ReaderInv'
  <2>1. read \in Seq(ReadImage) /\ \A n \in 1 .. Len(read) : read[n].end <= Len(buffer)
    BY <1>3 DEF ReaderInv
  <2>2. /\ read' \in Seq(ReadImage) /\ Len(read') = Len(read) + 1
        /\ read' # << >>
        /\ read'[Len(read')] = image
        /\ \A n \in 1 .. Len(read) : read'[n] = read[n]
    BY <1>1, <1>8, <2>1 DEF image
  <2>3. src' \in Nat /\ src' = src + 1 + AsU32(serializedSize(f))
    <3>1. AsU32(serializedSize(f)) \in Nat
      BY <1>4, KeptOfASize
    <3>2. src' = src + 1 + AsU32(serializedSize(f))
      BY <1>1, <1>5
    <3> QED
      BY <1>3, <3>1, <3>2
  <2>4. ASSUME NEW n \in 1 .. Len(read')
        PROVE  read'[n].end <= Len(buffer)
    <3>1. CASE n \in 1 .. Len(read)
      BY <2>1, <2>2, <3>1
    <3>2. CASE n = Len(read')
      BY <1>4, <1>8, <2>2, <3>2
    <3> QED
      BY <2>1, <2>2, <3>1, <3>2
  <2>5. /\ image.start < Len(buffer')
        /\ buffer'[image.start + 1].tag = "header"
        /\ image.end = image.start + serializedSize(buffer'[image.start + 1].filter)
        /\ src' = image.start + 1 + AsU32(serializedSize(buffer'[image.start + 1].filter))
    <3>1. buffer'[image.start + 1] = header
      BY <1>1, <1>8 DEF header
    <3> QED
      BY <1>1, <1>8, <2>3, <3>1
  <2>6. LastRead(buffer, read[Len(read)])'
    BY <2>2, <2>5 DEF LastRead
  <2> QED
    BY <1>1, <2>2, <2>3, <2>4, <2>6 DEF ReaderInv
<1> QED
  BY <1>1, <1>3, <1>6, <1>7, <1>9 DEF IInv

LEMMA RewindStep ==
    ASSUME IInv, Rewind
    PROVE  IInv'
<1>1. /\ UNCHANGED <<ebf, buffer, images, outcome>> /\ src' = 0 /\ read' = << >>
      /\ outcome = "ok"
  BY DEF Rewind
<1>2. FilterInv' /\ BufferInv(buffer)' /\ OutcomeInv'
  BY <1>1 DEF IInv, FilterInv, OutcomeInv
<1>3. ReaderInv'
  BY <1>1 DEF ReaderInv
<1> QED
  BY <1>2, <1>3 DEF IInv

LEMMA StutteringStep ==
    ASSUME IInv, UNCHANGED vars
    PROVE  IInv'
<1>1. UNCHANGED <<ebf, buffer, src, images, read, outcome>>
  BY DEF vars
<1>2. BufferInv(buffer)' /\ ReaderInv'
  BY <1>1, ReaderUnchanged DEF IInv
<1> QED
  BY <1>1, <1>2 DEF IInv, FilterInv, OutcomeInv

LEMMA NextInvariant == IInv /\ [Next]_vars => IInv'
BY InMemorySteps, FailingSteps, SerializeStep, DeserializeStep, RewindStep, StutteringStep
   DEF Next

THEOREM InvariantHolds == Spec => []IInv
BY InitInvariant, NextInvariant, PTL DEF Spec

----------------------------------------------------------------------------
(* What follows.                                                           *)

\* The filter in memory has the units it says it has opened, a buffer holds
\* headers, units and their data, and the reader never passes the end of the
\* buffer by more than a header, also behind an image whose size wrapped.
THEOREM TypesCorrect ==
    Spec => []TypeOK
<1>1. ASSUME IInv
      PROVE  TypeOK
  <2>1. BufferInv(buffer) /\ ReaderInv /\ OutcomeInv /\ FilterInv
    BY <1>1 DEF IInv
  <2>2. buffer \in Seq(BufferWord) /\ Len(buffer) \in Nat
    BY <2>1 DEF BufferInv
  <2>3. ASSUME NEW n \in 1 .. Len(buffer)
        PROVE  buffer[n].tag \in {"header", "unit", "data"}
    <3>1. buffer[n] \in BufferWord
      BY <2>2
    <3> QED
      BY <3>1 DEF BufferWord, Header, UnitWord, DataWord
  <2>4. src \in 0 .. Len(buffer) + 1
    <3>1. CASE read = << >>
      BY <2>1, <2>2, <3>1 DEF ReaderInv
    <3>2. CASE read # << >>
      <4> DEFINE image == read[Len(read)]
                 p == image.start
                 f == buffer[p + 1].filter
      <4>1. read \in Seq(ReadImage) /\ LastRead(buffer, image)
        BY <2>1, <3>2 DEF ReaderInv
      <4>2. Len(read) \in 1 .. Len(read)
        BY <3>2, <4>1
      <4>3. p \in Nat
        BY <4>1, <4>2, ReadImageFields
      <4>4. p < Len(buffer) /\ buffer[p + 1].tag = "header" /\ src = p + 1 + AsU32(serializedSize(f))
        BY <4>1 DEF LastRead
      <4> HIDE DEF p
      <4>5. serializedSize(f) \in Nat /\ p + serializedSize(f) <= Len(buffer)
        BY <2>1, <4>3, <4>4, BehindHeader
      <4>6. AsU32(serializedSize(f)) \in Nat /\ AsU32(serializedSize(f)) <= serializedSize(f)
        BY <4>5, KeptOfASize
      <4> HIDE DEF f
      <4> QED
        BY <2>2, <4>3, <4>4, <4>5, <4>6
    <3> QED
      BY <3>1, <3>2
  <2>5. \A n \in DOMAIN read : 0 <= read[n].start /\ read[n].end <= Len(buffer)
    <3>1. read \in Seq(ReadImage) /\ \A n \in 1 .. Len(read) : read[n].end <= Len(buffer)
      BY <2>1 DEF ReaderInv
    <3>2. DOMAIN read = 1 .. Len(read)
      BY <3>1
    <3>3. \A n \in 1 .. Len(read) : read[n].start \in Nat
      BY <3>1, ReadImageFields
    <3> QED
      BY <3>1, <3>2, <3>3
  <2>6. ebf # none => /\ ebf \in Filter
                      /\ Len(ebf.bf_vec_) = ebf.open_size_
                      /\ ebf.open_size_ <= ebf.size_
    BY <2>1 DEF FilterInv, Good
  <2> QED
    BY <2>1, <2>3, <2>4, <2>5, <2>6 DEF TypeOK, OutcomeInv
<1> QED
  BY <1>1, InvariantHolds, PTL

\* A filter with any of its units, built or read back, added to before it was
\* written or after, denies none of its keys.
THEOREM NoFalseNegatives ==
    Spec => []NoFalseNegative
<1>1. ASSUME IInv, ebf # none
      PROVE  ebf.keys \subseteq Answers(ebf)
  <2>1. KeysInUnits(ebf) /\ ebf.keys \subseteq Keys
    BY <1>1, FilterFields DEF IInv, FilterInv, Good
  <2> QED
    BY <2>1 DEF KeysInUnits, Answers
<1>2. IInv => NoFalseNegative
  BY <1>1 DEF NoFalseNegative
<1> QED
  BY <1>2, InvariantHolds, PTL

\* What a reader loses by opening fewer units is denials, never keys; with all
\* of them it has the filter that was written.
THEOREM FewerUnitsDenyFewer ==
    Spec => []FewerUnitsDenyLess
<1>1. IInv => FewerUnitsDenyLess
  BY DEF IInv, FilterInv, Good, FewerUnitsDenyLess
<1> QED
  BY <1>1, InvariantHolds, PTL

\* A reader at the start of a buffer that something was written to finds a header.
THEOREM FirstFilterCanBeRead ==
    Spec => []FirstFilterIsReadable
<1>1. IInv => FirstFilterIsReadable
  BY DEF IInv, OutcomeInv, FirstFilterIsReadable
<1> QED
  BY <1>1, InvariantHolds, PTL

\* A reader stops a header behind the image it read, or, when the image is too
\* long for a u32, inside it, which only the first version can write.
THEOREM ReaderOvershoots ==
    Spec => []ReaderOvershootsByHeader
<1>1. ASSUME IInv, read # << >>
      PROVE  LET image == Last(read)
                 long == image.end - image.start >= 2 * MaxInt
             IN  /\ long => buffer[image.start + 1].filter.version = "old" /\ src < image.end
                 /\ ~long => src = image.end + 1
  <2> DEFINE image == read[Len(read)]
             p == image.start
             f == buffer[p + 1].filter
             size == serializedSize(f)
  <2>1. read \in Seq(ReadImage) /\ LastRead(buffer, image) /\ BufferInv(buffer)
    BY <1>1 DEF IInv, ReaderInv
  <2>2. Len(read) \in 1 .. Len(read)
    BY <1>1, <2>1
  <2>3. p \in Nat
    BY <2>1, <2>2, ReadImageFields
  <2>4. /\ p < Len(buffer) /\ buffer[p + 1].tag = "header"
        /\ image.end = p + size /\ src = p + 1 + AsU32(size)
    BY <2>1 DEF LastRead
  <2>5. Last(read) = image
    BY DEF Last
  <2>6. p = image.start
    OBVIOUS
  <2> HIDE DEF p, image
  <2>7. size \in Nat /\ Good(f) /\ ~AssertionFails(f)
    BY <2>1, <2>3, <2>4, BehindHeader
  <2>8. f.version \in {"new", "old"} /\ (f.version = "new" => ~(size >= MaxInt))
    BY <2>7, FilterFields DEF Good, AssertionFails
  <2>9. f = buffer[p + 1].filter
    OBVIOUS
  <2> HIDE DEF f, size
  <2>10. MaxInt \in Nat /\ MaxInt >= 1
    BY MaxIntAssumption
  <2>11. image.end - p = size
    BY <2>3, <2>4, <2>7
  <2>12. CASE size >= 2 * MaxInt
    <3>1. f.version = "old"
      BY <2>7, <2>8, <2>10, <2>12
    <3>2. AsU32(size) \in Nat /\ AsU32(size) + 1 < size
      BY <2>7, <2>12, KeptOfASize
    <3>3. src < image.end
      BY <2>3, <2>4, <2>7, <3>2
    <3> QED
      BY <2>5, <2>6, <2>9, <2>11, <2>12, <3>1, <3>3
  <2>13. CASE ~(size >= 2 * MaxInt)
    <3>1. size < 2 * MaxInt
      BY <2>7, <2>10, <2>13
    <3>2. AsU32(size) = size
      BY <2>7, <3>1, KeptOfASize
    <3>3. src = image.end + 1
      BY <2>3, <2>4, <2>7, <3>2
    <3> QED
      BY <2>5, <2>6, <2>11, <2>13, <3>3
  <2> QED
    BY <2>12, <2>13
<1>2. IInv => ReaderOvershootsByHeader
  BY <1>1 DEF ReaderOvershootsByHeader
<1> QED
  BY <1>2, InvariantHolds, PTL

=============================================================================

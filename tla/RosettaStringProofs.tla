------------------------ MODULE RosettaStringProofs ------------------------
(***************************************************************************)
(* What holds of the bit-string search for every number of levels, every   *)
(* key set and everything the Bloom filters may wrongly affirm.            *)
(*                                                                         *)
(* With p passed by value the string search implements the integer search, *)
(* so that what RosettaProofs says of the one holds of the other.  With p  *)
(* passed by reference it does not, and two things remain: p stays a bit   *)
(* string of levels_ bits, and a leaf that is accepted lies in the range,  *)
(* because below a node handed to doubt only bits inside the node are set. *)
(***************************************************************************)
EXTENDS RosettaString, SequenceTheorems, Induction, TLAPS

----------------------------------------------------------------------------
(* Arithmetic.                                                             *)

\* A larger power of two is a multiple of a smaller one.
LEMMA Pow2Divides ==
    ASSUME NEW k \in 0 .. levels_, NEW e \in 0 .. levels_, k <= e
    PROVE  \E q \in Nat \ {0} : Pow2[e] = q * Pow2[k]
<1> DEFINE P == {d \in Nat : k + d <= levels_ =>
                                \E q \in Nat \ {0} : Pow2[k + d] = q * Pow2[k]}
<1> USE LevelsAssumption, Pow2Assumption
<1>1. 0 \in P
  <2>1. Pow2[k + 0] = 1 * Pow2[k]
    OBVIOUS
  <2> QED
    BY <2>1
<1>2. ASSUME NEW d \in P
      PROVE  d + 1 \in P
  <2> SUFFICES ASSUME k + (d + 1) <= levels_
               PROVE  \E q \in Nat \ {0} : Pow2[k + (d + 1)] = q * Pow2[k]
    OBVIOUS
  <2>1. k + d \in Level /\ k + (d + 1) = (k + d) + 1
    BY DEF Level
  <2>2. PICK q \in Nat \ {0} : Pow2[k + d] = q * Pow2[k]
    BY <2>1 DEF Level
  <2>3. Pow2[k + (d + 1)] = 2 * Pow2[k + d] /\ Pow2[k] \in Nat
    BY <2>1
  <2>4. \A x \in Nat : 2 * (q * x) = (2 * q) * x
    OBVIOUS
  <2>5. Pow2[k + (d + 1)] = (2 * q) * Pow2[k] /\ 2 * q \in Nat \ {0}
    BY <2>2, <2>3, <2>4
  <2> QED
    BY <2>5
<1>3. P \subseteq Nat
  OBVIOUS
<1>4. e - k \in Nat /\ k + (e - k) = e
  OBVIOUS
<1>5. e - k \in P
  <2> HIDE DEF P
  <2>1. P = Nat
    BY <1>1, <1>2, <1>3, SetInduction
  <2> QED
    BY <1>4, <2>1
<1> QED
  BY <1>4, <1>5

\* Quotient and remainder.
LEMMA DivMod ==
    ASSUME NEW m \in Nat \ {0}, NEW k \in Nat
    PROVE  /\ k \div m \in Nat /\ k % m \in Nat
           /\ k = (k \div m) * m + (k % m)
           /\ k % m < m
  BY SMTT(30)

\* The words between two multiples have the same first word.
LEMMA MaskBetween ==
    ASSUME NEW m \in Nat \ {0}, NEW k \in Nat, NEW c \in Nat, c * m <= k, k < c * m + m
    PROVE  k - (k % m) = c * m
<1>1. PICK a \in Nat, r \in Nat : k = a * m + r /\ r < m /\ r = k % m
  BY DivMod
<1>2. a = c
  <2>1. ~(a < c)
    <3> SUFFICES ASSUME a < c
                 PROVE  FALSE
      OBVIOUS
    <3>1. (c - a) * m >= m
      BY SMTT(30)
    <3>2. c * m = a * m + (c - a) * m
      BY SMTT(30)
    <3> QED
      BY <1>1, <3>1, <3>2
  <2>2. ~(c < a)
    <3> SUFFICES ASSUME c < a
                 PROVE  FALSE
      OBVIOUS
    <3>1. (a - c) * m >= m
      BY SMTT(30)
    <3>2. a * m = c * m + (a - c) * m
      BY SMTT(30)
    <3> QED
      BY <1>1, <3>1, <3>2
  <2> QED
    BY <2>1, <2>2
<1> QED
  BY <1>1, <1>2

\* Adding m to a number whose quotient by m is even does not change what is left
\* when a multiple of 2 * m is masked out.
LEMMA EvenHasRoom ==
    ASSUME NEW m \in Nat \ {0}, NEW q \in Nat \ {0}, NEW s \in Nat, (s \div m) % 2 # 1
    PROVE  (s + m) - ((s + m) % (q * (2 * m))) = s - (s % (q * (2 * m)))
<1> DEFINE P == q * (2 * m)
<1>1. P \in Nat \ {0}
  BY SMTT(30)
<1>2. PICK b \in Nat, r \in Nat : s = b * (2 * m) + r /\ r < m
  <2>1. PICK a \in Nat, r \in Nat : s = a * m + r /\ r < m /\ a = s \div m
    BY DivMod
  <2>2. a % 2 = 0
    BY <2>1
  <2>3. a = 2 * (a \div 2) /\ a \div 2 \in Nat
    BY <2>2
  <2>4. a * m = (a \div 2) * (2 * m)
    BY <2>3, SMTT(30)
  <2> QED
    BY <2>1, <2>3, <2>4
<1> HIDE DEF P
<1>3. PICK c \in Nat, u \in Nat : s = c * P + u /\ u < P
  BY <1>1, DivMod
<1>4. u + m < P
  <2>1. c * P = (c * q) * (2 * m) /\ c * q \in Nat
    BY SMTT(30) DEF P
  <2> DEFINE d == b - c * q
  <2>2. d \in Int /\ u = d * (2 * m) + r
    <3>1. u = b * (2 * m) + r - (c * q) * (2 * m)
      BY <1>2, <1>3, <2>1
    <3> QED
      BY <2>1, <3>1, SMTT(30)
  <2> HIDE DEF d
  <2>3. d < q
    <3> SUFFICES ASSUME d >= q
                 PROVE  FALSE
      BY <2>2
    <3>1. d * (2 * m) >= q * (2 * m)
      BY <2>2, SMTT(30)
    <3> QED
      BY <1>2, <1>3, <2>2, <3>1 DEF P
  <2>4. d * (2 * m) <= (q - 1) * (2 * m)
    BY <2>2, <2>3, SMTT(30)
  <2>5. (q - 1) * (2 * m) = P - 2 * m
    BY SMTT(30) DEF P
  <2>6. d * (2 * m) \in Int /\ P \in Nat
    BY <1>1, <2>2
  <2> QED
    BY <1>2, <2>2, <2>4, <2>5, <2>6
<1>5. /\ c * P <= s /\ s < c * P + P
      /\ c * P <= s + m /\ s + m < c * P + P
  BY <1>1, <1>3, <1>4
<1>6. s - (s % P) = c * P
  BY <1>1, <1>5, MaskBetween
<1>7. (s + m) - ((s + m) % P) = c * P
  <2>1. s + m \in Nat
    OBVIOUS
  <2> QED
    BY <1>1, <1>5, <2>1, MaskBetween
<1> QED
  BY <1>6, <1>7 DEF P

\* Setting a bit leaves the bits before it alone, and makes the number no smaller.
LEMMA SetBitInside ==
    ASSUME NEW s \in Nat, NEW i \in Level, NEW e \in 0 .. levels_, levels_ - i - 1 < e
    PROVE  /\ SetBit(s, i) \in Nat
           /\ s <= SetBit(s, i)
           /\ SetBit(s, i) - (SetBit(s, i) % Pow2[e]) = s - (s % Pow2[e])
<1> DEFINE k == levels_ - i - 1
<1>1. k \in Level /\ k + 1 \in 0 .. levels_ /\ k + 1 <= e /\ k \in 0 .. levels_
  BY LevelsAssumption DEF Level
<1>2. Pow2[k] \in Nat \ {0} /\ Pow2[k + 1] = 2 * Pow2[k]
  BY <1>1, Pow2Assumption
<1>3. PICK q \in Nat \ {0} : Pow2[e] = q * Pow2[k + 1]
  BY <1>1, Pow2Divides
<1>4. SetBit(s, i) = IF (s \div Pow2[k]) % 2 = 1 THEN s ELSE s + Pow2[k]
  BY DEF SetBit
<1> HIDE DEF k
<1>5. CASE (s \div Pow2[k]) % 2 = 1
  BY <1>4, <1>5
<1>6. CASE (s \div Pow2[k]) % 2 # 1
  <2>1. (s + Pow2[k]) - ((s + Pow2[k]) % (q * (2 * Pow2[k]))) = s - (s % (q * (2 * Pow2[k])))
    BY <1>2, <1>6, EvenHasRoom
  <2>2. Pow2[e] = q * (2 * Pow2[k])
    BY <1>2, <1>3
  <2>3. SetBit(s, i) = s + Pow2[k]
    BY <1>4, <1>6
  <2> QED
    BY <1>2, <2>1, <2>2, <2>3
<1> QED
  BY <1>5, <1>6

\* A bit string with a bit set is a bit string.
LEMMA SetBitIsAWord ==
    ASSUME NEW s \in Word, NEW i \in Level
    PROVE  SetBit(s, i) \in Word
<1>1. Pow2[levels_] \in Nat \ {0} /\ s \in Nat /\ s < Pow2[levels_]
  BY LevelsAssumption, Pow2Assumption DEF Word
<1>2. levels_ \in 0 .. levels_ /\ levels_ - i - 1 < levels_
  BY LevelsAssumption DEF Level
<1>3. SetBit(s, i) \in Nat /\ SetBit(s, i) - (SetBit(s, i) % Pow2[levels_]) = s - (s % Pow2[levels_])
  BY <1>1, <1>2, SetBitInside
<1>4. s - (s % Pow2[levels_]) = 0
  <2>1. 0 * Pow2[levels_] = 0
    BY <1>1
  <2>2. 0 * Pow2[levels_] <= s /\ s < 0 * Pow2[levels_] + Pow2[levels_]
    BY <1>1, <2>1
  <2> QED
    BY <1>1, <2>1, <2>2, MaskBetween
<1>5. SetBit(s, i) % Pow2[levels_] < Pow2[levels_] /\ SetBit(s, i) % Pow2[levels_] \in Nat
  BY <1>1, <1>3, DivMod
<1> QED
  BY <1>1, <1>3, <1>4, <1>5 DEF Word

----------------------------------------------------------------------------
(* Types.                                                                  *)

\* Where the bytes stand.
Place(i) == Pow2[levels_ - i * ByteBits]

Bytes == 1 .. Pow2[ByteBits] - 1

LEMMA BytesFit ==
    /\ NumBytes \in Nat
    /\ NumBytes * ByteBits = levels_
    /\ \A i \in 0 .. NumBytes : /\ levels_ - i * ByteBits \in 0 .. levels_
                                /\ Place(i) \in Nat \ {0}
<1>0. levels_ \in Nat \ {0} /\ ByteBits \in Nat \ {0} /\ levels_ % ByteBits = 0
  BY LevelsAssumption, ByteAssumption
<1>1. NumBytes \in Nat
  BY <1>0, DivMod DEF NumBytes
<1>2. NumBytes * ByteBits = levels_
  <2>1. levels_ = (levels_ \div ByteBits) * ByteBits + (levels_ % ByteBits)
    BY <1>0, DivMod
  <2>2. (levels_ \div ByteBits) * ByteBits \in Nat
    BY <1>0, <1>1 DEF NumBytes
  <2> QED
    BY <1>0, <2>1, <2>2 DEF NumBytes
<1>3. ASSUME NEW i \in 0 .. NumBytes
      PROVE  levels_ - i * ByteBits \in 0 .. levels_
  <2>1. NumBytes * ByteBits = i * ByteBits + (NumBytes - i) * ByteBits
    BY <1>0, <1>1, SMTT(30)
  <2>2. i * ByteBits \in Nat /\ (NumBytes - i) * ByteBits \in Nat
    BY <1>0, <1>1, SMTT(30)
  <2> QED
    BY <1>0, <1>2, <2>1, <2>2
<1> QED
  BY <1>1, <1>2, <1>3, Pow2Assumption DEF Place

LEMMA ByteFits ==
    ASSUME NEW s \in Word, NEW i \in 1 .. NumBytes
    PROVE  Byte(s, i) \in Nat /\ Byte(s, i) < Pow2[ByteBits]
<1>1. i \in 0 .. NumBytes
  BY BytesFit
<1>2. Pow2[levels_ - i * ByteBits] \in Nat \ {0} /\ Pow2[ByteBits] \in Nat \ {0}
  BY <1>1, BytesFit, Pow2Assumption, ByteAssumption DEF Place
<1>3. s \in Nat
  BY DEF Word
<1>4. s \div Pow2[levels_ - i * ByteBits] \in Nat
  BY <1>2, <1>3, DivMod
<1> QED
  BY <1>2, <1>4, DivMod DEF Byte

\* The string after i bytes, one after the other.
KeepsBytes(s, ret) ==
    /\ ret \in [0 .. NumBytes -> Seq(Bytes)]
    /\ ret[0] = << >>
    /\ \A i \in 1 .. NumBytes :
         ret[i] = IF Byte(s, i) # 0 THEN Append(ret[i - 1], Byte(s, i)) ELSE ret[i - 1]

LEMMA bitArray2StrKeeps ==
    ASSUME NEW s \in Word
    PROVE  \E ret : KeepsBytes(s, ret) /\ bitArray2Str(s) = ret[NumBytes]
<1> DEFINE B == 1 .. Pow2[ByteBits] - 1
           Next1(i, x) == IF Byte(s, i) # 0 THEN Append(x, Byte(s, i)) ELSE x
           Defines(f) == f = [i \in 0 .. NumBytes |->
                                IF i = 0 THEN << >>
                                ELSE IF Byte(s, i) # 0 THEN Append(f[i - 1], Byte(s, i))
                                     ELSE f[i - 1]]
           ret == CHOOSE f : Defines(f)
<1>1. NumBytes \in Nat
  BY BytesFit
<1>2. ASSUME NEW i \in 1 .. NumBytes, Byte(s, i) # 0
      PROVE  Byte(s, i) \in B
  <2>1. Pow2[ByteBits] \in Nat
    BY Pow2Assumption, ByteAssumption
  <2> QED
    BY <1>2, <2>1, ByteFits
<1> HIDE DEF B
<1>3. \E f : Defines(f)
  <2> DEFINE g == [y \in (1 .. NumBytes) \X Seq(B) |-> Next1(y[1], y[2])]
  <2>1. ASSUME NEW i \in 1 .. NumBytes, NEW x \in Seq(B)
        PROVE  g[<<i, x>>] = Next1(i, x) /\ g[<<i, x>>] \in Seq(B)
    <3>1. g[<<i, x>>] = Next1(i, x)
      OBVIOUS
    <3>2. Next1(i, x) \in Seq(B)
      BY <1>2, AppendProperties
    <3> QED
      BY <3>1, <3>2
  <2> HIDE DEF g
  <2> DEFINE S == Seq(B)
             x0 == << >>
  <2>2. x0 \in S /\ StaysIn(g, NumBytes, S)
    BY <2>1 DEF StaysIn
  <2> HIDE DEF S, x0
  <2>3. PICK f \in [0 .. NumBytes -> S] : Continues(f, NumBytes, x0, g)
    BY <1>1, <2>2, RecursiveFunction
  <2>4. ASSUME NEW i \in 0 .. NumBytes
        PROVE  f[i] = IF i = 0 THEN << >> ELSE Next1(i, f[i - 1])
    <3>1. CASE i = 0
      BY <2>3, <3>1 DEF x0, Continues
    <3>2. CASE i # 0
      <4>1. i \in 1 .. NumBytes /\ i - 1 \in 0 .. NumBytes
        BY <1>1, <3>2
      <4> QED
        BY <2>1, <2>3, <3>2, <4>1 DEF S, Continues
    <3> QED
      BY <3>1, <3>2
  <2>5. f = [i \in 0 .. NumBytes |-> IF i = 0 THEN << >> ELSE Next1(i, f[i - 1])]
    BY <2>4
  <2> QED
    BY <2>5
<1>4. Defines(ret)
  BY <1>3
<1>5. bitArray2Str(s) = ret[NumBytes]
  BY DEF bitArray2Str
<1> HIDE DEF ret
<1>5a. ASSUME NEW i \in 0 .. NumBytes
      PROVE  ret[i] = IF i = 0 THEN << >> ELSE Next1(i, ret[i - 1])
  BY <1>4
<1> HIDE DEF Defines
<1> DEFINE P == {i \in Nat : i <= NumBytes => ret[i] \in Seq(B)}
<1>6. 0 \in P
  <2>1. 0 \in 0 .. NumBytes
    BY <1>1
  <2>2. ret[0] = << >> /\ << >> \in Seq(B)
    BY <1>5a, <2>1
  <2> QED
    BY <2>2
<1>7. ASSUME NEW i \in P
      PROVE  i + 1 \in P
  <2> SUFFICES ASSUME i + 1 <= NumBytes
               PROVE  ret[i + 1] \in Seq(B)
    OBVIOUS
  <2>1. i + 1 \in 1 .. NumBytes /\ (i + 1) - 1 = i /\ ret[i] \in Seq(B)
    BY <1>1
  <2>2. ret[i + 1] = Next1(i + 1, ret[i])
    <3>1. i + 1 \in 0 .. NumBytes /\ i + 1 # 0
      BY <1>1
    <3> QED
      BY <1>5a, <2>1, <3>1
  <2> QED
    BY <1>2, <2>1, <2>2, AppendProperties
<1>8. P \subseteq Nat
  OBVIOUS
<1>9. ret \in [0 .. NumBytes -> Seq(B)]
  <2>1. ASSUME NEW i \in 0 .. NumBytes
        PROVE  ret[i] \in Seq(B)
    <3>1. i \in Nat /\ i <= NumBytes
      BY <1>1
    <3>2. i \in P
      <4> HIDE DEF P
      <4> QED
        BY <1>6, <1>7, <1>8, <3>1, SetInduction
    <3> QED
      BY <3>1, <3>2
  <2>2. ret = [i \in 0 .. NumBytes |-> ret[i]]
    BY <1>4 DEF Defines
  <2> QED
    BY <2>1, <2>2
<1>10. ret[0] = << >>
  <2>1. 0 \in 0 .. NumBytes
    BY <1>1
  <2> QED
    BY <1>5a, <2>1
<1>11. ASSUME NEW i \in 1 .. NumBytes
       PROVE  ret[i] = Next1(i, ret[i - 1])
  <2>1. i \in 0 .. NumBytes /\ i # 0
    BY <1>1
  <2> QED
    BY <1>5a, <2>1
<1> QED
  BY <1>5, <1>9, <1>10, <1>11 DEF B, Bytes, KeepsBytes

\* bitArray2Str returns a string of bytes, none of them zero.
LEMMA bitArray2StrType ==
    ASSUME NEW s \in Word
    PROVE  bitArray2Str(s) \in Seq(1 .. Pow2[ByteBits] - 1)
<1>1. NumBytes \in 0 .. NumBytes
  BY BytesFit
<1> QED
  BY <1>1, bitArray2StrKeeps DEF KeepsBytes, Bytes

\* A call that sets a bit first sets one there is.
RightBelowRoot ==
    \A n \in 1 .. Len(stack) : stack[n].right => stack[n].l > 1

TInv == TypeOK /\ RightBelowRoot

\* The first pending call, and its string.
LEMMA TopCall ==
    ASSUME TInv, result = "running"
    PROVE  /\ stack # << >> /\ Len(stack) \in Nat \ {0} /\ stack \in Seq(Calls)
           /\ top = stack[1] /\ top \in Calls
           /\ top.fn \in {"range_query", "doubt"}
           /\ top.l \in 1 .. levels_ + 1
           /\ node \in Word /\ node \in Nat
           /\ low \in Nat /\ high \in Nat
<1>1. stack # << >> /\ stack \in Seq(Calls) /\ Len(stack) \in Nat \ {0}
  BY EmptySeq DEF TInv, TypeOK
<1>2. top = stack[1] /\ top \in Calls
  BY <1>1, HeadTailProperties DEF top
<1>3. /\ top.fn \in {"range_query", "doubt"} /\ top.l \in 1 .. levels_ + 1
      /\ top.own \in Word /\ top.right \in BOOLEAN
  BY <1>2 DEF Calls
<1>4. top.right => top.l - 2 \in Level
  <2>1. top.right => top.l > 1
    BY <1>1, <1>2 DEF TInv, RightBelowRoot
  <2> QED
    BY <1>3, <2>1, LevelsAssumption DEF Level
<1>5. p \in Word /\ low \in Word /\ high \in Word
  BY DEF TInv, TypeOK
<1>6. node \in Word
  BY <1>3, <1>4, <1>5, SetBitIsAWord DEF node
<1> QED
  BY <1>1, <1>2, <1>3, <1>5, <1>6 DEF Word

\* The stack after the first call is dropped, replaced or split.
LEMMA StackAfter ==
    ASSUME NEW S, NEW s \in Seq(S), s # << >>
    PROVE  /\ Tail(s) \in Seq(S)
           /\ Len(Tail(s)) = Len(s) - 1
           /\ \A n \in 1 .. Len(s) - 1 : Tail(s)[n] = s[n + 1]
           /\ Len(s) \in Nat \ {0}
           /\ Len(s) # 1 => Tail(s) # << >>
           /\ Len(s) = 1 => Tail(s) = << >>
           /\ \A a \in S :
                /\ <<a>> \o Tail(s) \in Seq(S) /\ Len(<<a>> \o Tail(s)) = Len(s)
                /\ <<a>> \o Tail(s) # << >> /\ (<<a>> \o Tail(s))[1] = a
                /\ \A n \in 2 .. Len(s) : (<<a>> \o Tail(s))[n] = s[n]
           /\ \A a, b \in S :
                /\ <<a, b>> \o Tail(s) \in Seq(S) /\ Len(<<a, b>> \o Tail(s)) = Len(s) + 1
                /\ <<a, b>> \o Tail(s) # << >>
                /\ (<<a, b>> \o Tail(s))[1] = a /\ (<<a, b>> \o Tail(s))[2] = b
                /\ \A n \in 3 .. Len(s) + 1 : (<<a, b>> \o Tail(s))[n] = s[n - 1]
<1>1. /\ Tail(s) \in Seq(S) /\ Len(Tail(s)) = Len(s) - 1 /\ Len(s) \in Nat \ {0}
      /\ \A n \in 1 .. Len(s) - 1 : Tail(s)[n] = s[n + 1]
  BY EmptySeq, HeadTailProperties
<1>2. /\ Len(s) # 1 => Tail(s) # << >>
      /\ Len(s) = 1 => Tail(s) = << >>
  <2>1. Len(<< >>) = 0 /\ (Tail(s) # << >> => Len(Tail(s)) \in Nat \ {0})
    BY <1>1, EmptySeq
  <2>2. CASE Len(s) = 1
    BY <1>1, <2>1, <2>2
  <2>3. CASE Len(s) # 1
    <3>1. Len(Tail(s)) # 0
      BY <1>1, <2>3
    <3> QED
      BY <2>1, <2>3, <3>1
  <2> QED
    BY <2>2, <2>3
<1>3. ASSUME NEW a \in S
      PROVE  /\ <<a>> \o Tail(s) \in Seq(S) /\ Len(<<a>> \o Tail(s)) = Len(s)
             /\ <<a>> \o Tail(s) # << >> /\ (<<a>> \o Tail(s))[1] = a
             /\ \A n \in 2 .. Len(s) : (<<a>> \o Tail(s))[n] = s[n]
  <2> DEFINE t == <<a>> \o Tail(s)
  <2>1. <<a>> \in Seq(S) /\ Len(<<a>>) = 1 /\ <<a>>[1] = a
    OBVIOUS
  <2>2. /\ t \in Seq(S) /\ Len(t) = Len(s)
        /\ \A n \in 1 .. Len(s) : t[n] = IF n <= 1 THEN <<a>>[n] ELSE Tail(s)[n - 1]
    BY <1>1, <2>1, ConcatProperties
  <2> HIDE DEF t
  <2>3. ASSUME NEW n \in 2 .. Len(s)
        PROVE  t[n] = s[n]
    <3>1. n \in 1 .. Len(s) /\ n - 1 \in 1 .. Len(s) - 1 /\ (n - 1) + 1 = n /\ ~(n <= 1)
      BY <1>1
    <3> QED
      BY <1>1, <2>2, <3>1
  <2>4. t # << >> /\ t[1] = a
    BY <1>1, <2>1, <2>2, EmptySeq
  <2> QED
    BY <2>2, <2>3, <2>4 DEF t
<1>4. ASSUME NEW a \in S, NEW b \in S
      PROVE  /\ <<a, b>> \o Tail(s) \in Seq(S) /\ Len(<<a, b>> \o Tail(s)) = Len(s) + 1
             /\ <<a, b>> \o Tail(s) # << >>
             /\ (<<a, b>> \o Tail(s))[1] = a /\ (<<a, b>> \o Tail(s))[2] = b
             /\ \A n \in 3 .. Len(s) + 1 : (<<a, b>> \o Tail(s))[n] = s[n - 1]
  <2> DEFINE t == <<a, b>> \o Tail(s)
  <2>1. <<a, b>> \in Seq(S) /\ Len(<<a, b>>) = 2 /\ <<a, b>>[1] = a /\ <<a, b>>[2] = b
    OBVIOUS
  <2>2. /\ t \in Seq(S) /\ Len(t) = Len(s) + 1
        /\ \A n \in 1 .. Len(s) + 1 : t[n] = IF n <= 2 THEN <<a, b>>[n] ELSE Tail(s)[n - 2]
    BY <1>1, <2>1, ConcatProperties
  <2> HIDE DEF t
  <2>3. ASSUME NEW n \in 3 .. Len(s) + 1
        PROVE  t[n] = s[n - 1]
    <3>1. /\ n \in 1 .. Len(s) + 1 /\ n - 2 \in 1 .. Len(s) - 1 /\ (n - 2) + 1 = n - 1
          /\ ~(n <= 2)
      BY <1>1
    <3> QED
      BY <1>1, <2>2, <3>1
  <2>4. t # << >> /\ t[1] = a /\ t[2] = b
    BY <1>1, <2>1, <2>2, EmptySeq
  <2> QED
    BY <2>2, <2>3, <2>4 DEF t
<1> QED
  BY <1>1, <1>2, <1>3, <1>4

LEMMA ShiftOfLevel ==
    ASSUME NEW l \in Nat, NEW v \in Nat
    PROVE  v - (l - 2) - 1 = v - l + 1
  OBVIOUS

LEMMA LeafWidth ==
    ASSUME NEW l \in Nat, l = levels_ + 1
    PROVE  levels_ - l + 1 = 0 /\ l # 1 /\ levels_ - (l - 2) - 1 = 0
<1>1. levels_ \in Nat /\ levels_ # 0
  BY LevelsAssumption
<1>2. levels_ - (l - 2) - 1 = levels_ - l + 1
  BY <1>1, ShiftOfLevel
<1>3. levels_ - l + 1 = 0 /\ l # 1
  BY <1>1
<1> QED
  BY <1>2, <1>3

\* Nodes one bit wide are not split: the root's string is at most levels_ long.
LEMMA SplitsAboveLeaves ==
    ASSUME TInv, RangeSplit
    PROVE  top.l <= levels_
<1>1. result = "running" /\ ~Disjoint /\ ~Contained
  BY DEF RangeSplit, Running
<1> SUFFICES ASSUME top.l = levels_ + 1
             PROVE  FALSE
  BY <1>1, TopCall, LevelsAssumption
<1>2. /\ levels_ - top.l + 1 = 0 /\ top.l # 1
      /\ levels_ - (top.l - 2) - 1 = 0
  <2>1. top.l \in Nat
    BY <1>1, TopCall
  <2> QED
    BY <2>1, LeafWidth
<1>3. Prefix(node, top.l - 2) = node
  <2>1. node % 1 = 0 /\ node \in Nat
    BY <1>1, TopCall, SMTT(30)
  <2> QED
    BY <1>2, <2>1, Pow2Assumption DEF Prefix
<1>4. upper_bound = node
  BY <1>1, <1>2, <1>3, TopCall, Pow2Assumption DEF upper_bound
<1> QED
  BY <1>1, <1>4, TopCall DEF Disjoint, Contained

\* The two calls a call makes.
LEMMA ChildrenAreCalls ==
    ASSUME TInv, result = "running", top.l <= levels_,
           NEW fn \in {"range_query", "doubt"}, NEW right \in BOOLEAN
    PROVE  /\ Child(fn, right) \in Calls
           /\ Child(fn, right).fn = fn /\ Child(fn, right).l = top.l + 1
           /\ Child(fn, right).own = node /\ Child(fn, right).right = right
<1>1. top.l + 1 \in 1 .. levels_ + 1 /\ node \in Word
  BY TopCall, LevelsAssumption
<1> QED
  BY <1>1 DEF Child, Calls

\* The shared string stays a bit string of levels_ bits.
LEMMA ShareIsAWord ==
    ASSUME TInv, result = "running", Share
    PROVE  p' \in Word
  BY TopCall DEF Share, TInv, TypeOK

LEMMA ReturnFalseKeepsTInv ==
    ASSUME TInv, result = "running", ReturnFalse
    PROVE  TInv'
<1>1. /\ stack' = Tail(stack) /\ p' \in Word
      /\ result' = IF Len(stack) = 1 THEN "false" ELSE "running"
      /\ UNCHANGED <<passing, keys, bfs, low, high, leaf, min_accept>>
  BY ShareIsAWord DEF ReturnFalse, filter
<1>2. /\ stack' \in Seq(Calls) /\ Len(stack') = Len(stack) - 1 /\ Len(stack) \in Nat \ {0}
      /\ \A n \in 1 .. Len(stack) - 1 : stack'[n] = stack[n + 1]
      /\ Len(stack) # 1 => stack' # << >>
      /\ Len(stack) = 1 => stack' = << >>
  BY <1>1, TopCall, StackAfter
<1>3. TypeOK'
  BY <1>1, <1>2 DEF TInv, TypeOK, Results
<1>4. RightBelowRoot'
  <2>1. \A n \in 1 .. Len(stack') : n + 1 \in 1 .. Len(stack) /\ stack'[n] = stack[n + 1]
    BY <1>2
  <2> QED
    BY <2>1 DEF TInv, RightBelowRoot
<1> QED
  BY <1>3, <1>4 DEF TInv

LEMMA RecurseKeepsTInv ==
    ASSUME TInv, result = "running", top.l <= levels_,
           NEW fn \in {"range_query", "doubt"}, Recurse(fn)
    PROVE  TInv'
<1> DEFINE a == Child(fn, FALSE)
           b == Child(fn, TRUE)
<1>1. /\ stack' = <<a, b>> \o Tail(stack) /\ p' \in Word
      /\ UNCHANGED <<passing, keys, bfs, low, high, result, leaf, min_accept>>
  BY ShareIsAWord DEF Recurse, filter
<1>2. a \in Calls /\ b \in Calls /\ ~a.right /\ b.l = top.l + 1 /\ top.l \in 1 .. levels_ + 1
  BY ChildrenAreCalls, TopCall
<1> HIDE DEF a, b
<1>3. /\ stack' \in Seq(Calls) /\ Len(stack') = Len(stack) + 1 /\ stack' # << >>
      /\ stack'[1] = a /\ stack'[2] = b /\ Len(stack) \in Nat \ {0} /\ stack # << >>
      /\ \A n \in 3 .. Len(stack) + 1 : stack'[n] = stack[n - 1]
  BY <1>1, <1>2, TopCall, StackAfter
<1>4. TypeOK'
  BY <1>1, <1>3 DEF TInv, TypeOK
<1>5. RightBelowRoot'
  <2> SUFFICES ASSUME NEW n \in 1 .. Len(stack'), stack'[n].right
               PROVE  stack'[n].l > 1
    BY DEF RightBelowRoot
  <2>1. CASE n = 1
    BY <1>2, <1>3, <2>1
  <2>2. CASE n = 2
    BY <1>2, <1>3, <2>2
  <2>3. CASE n \in 3 .. Len(stack) + 1
    <3>1. n - 1 \in 1 .. Len(stack) /\ stack'[n] = stack[n - 1]
      BY <1>3, <2>3
    <3> QED
      BY <3>1 DEF TInv, RightBelowRoot
  <2> QED
    BY <1>3, <2>1, <2>2, <2>3
<1> QED
  BY <1>4, <1>5 DEF TInv

LEMMA StepKeepsTInv ==
    ASSUME TInv, Step
    PROVE  TInv'
<1>1. CASE RangeDisjoint
  BY <1>1, ReturnFalseKeepsTInv DEF RangeDisjoint, Running
<1>2. CASE RangeContained
  <2> DEFINE c == [fn |-> "doubt", l |-> top.l, own |-> node, right |-> FALSE]
  <2>1. /\ result = "running" /\ stack' = <<c>> \o Tail(stack) /\ Share
        /\ UNCHANGED <<passing, keys, bfs, low, high, result, leaf, min_accept>>
    BY <1>2 DEF RangeContained, Running, filter
  <2>2. c \in Calls /\ ~c.right
    BY <2>1, TopCall DEF Calls
  <2> HIDE DEF c
  <2>3. /\ stack' \in Seq(Calls) /\ Len(stack') = Len(stack) /\ stack' # << >>
        /\ stack'[1] = c /\ Len(stack) \in Nat \ {0} /\ stack # << >>
        /\ \A n \in 2 .. Len(stack) : stack'[n] = stack[n]
    BY <2>1, <2>2, TopCall, StackAfter
  <2>4. TypeOK'
    BY <2>1, <2>3, ShareIsAWord DEF TInv, TypeOK
  <2>5. RightBelowRoot'
    BY <2>2, <2>3 DEF TInv, RightBelowRoot
  <2> QED
    BY <2>4, <2>5 DEF TInv
<1>3. CASE RangeSplit
  BY <1>3, SplitsAboveLeaves, RecurseKeepsTInv DEF RangeSplit, Running
<1>4. CASE DoubtUndefined
  <2>1. stack' = << >> /\ Len(stack') = 0
    BY <1>4 DEF DoubtUndefined
  <2> QED
    BY <1>4, <2>1 DEF DoubtUndefined, TInv, TypeOK, Results, RightBelowRoot, filter
<1>5. CASE DoubtRejected
  BY <1>5, ReturnFalseKeepsTInv DEF DoubtRejected, Running
<1>6. CASE DoubtAccepted
  <2>1. /\ result = "running" /\ stack' = << >> /\ Len(stack') = 0 /\ Share
        /\ leaf' = node /\ min_accept' = bitArray2Str(node) /\ result' = "true"
        /\ UNCHANGED <<passing, keys, bfs, low, high>>
    BY <1>6 DEF DoubtAccepted, Running, filter
  <2>2. p' \in Word /\ leaf' \in Word
    BY <2>1, ShareIsAWord, TopCall
  <2>3. min_accept' \in Seq(1 .. Pow2[ByteBits] - 1)
    BY <2>1, TopCall, bitArray2StrType
  <2> QED
    BY <2>1, <2>2, <2>3 DEF TInv, TypeOK, Results, RightBelowRoot
<1>7. CASE DoubtSplit
  BY <1>7, RecurseKeepsTInv DEF DoubtSplit, Running
<1> QED
  BY <1>1, <1>2, <1>3, <1>4, <1>5, <1>6, <1>7 DEF Step

LEMMA PrefixSmaller ==
    ASSUME NEW m \in Nat \ {0}, NEW k \in Nat
    PROVE  k - (k % m) \in 0 .. k
  BY SMTT(30)

\* A prefix of a bit string is one.
LEMMA PrefixIsAWord ==
    ASSUME NEW k \in Word, NEW i \in Level
    PROVE  Prefix(k, i) \in Word
<1> DEFINE m == Pow2[levels_ - i - 1]
<1>1. m \in Nat \ {0}
  BY LevelsAssumption, Pow2Assumption DEF Level
<1>2. k \in Nat /\ Pow2[levels_] \in Nat /\ k <= Pow2[levels_] - 1
  BY LevelsAssumption, Pow2Assumption DEF Word
<1>3. Prefix(k, i) = k - (k % m)
  BY DEF Prefix
<1> HIDE DEF m
<1>4. k - (k % m) \in 0 .. k
  BY <1>1, <1>2, PrefixSmaller
<1> QED
  BY <1>2, <1>3, <1>4 DEF Word

LEMMA NextKeepsTInv ==
    TInv /\ [Next]_vars => TInv'
<1> SUFFICES ASSUME TInv, [Next]_vars
             PROVE  TInv'
  OBVIOUS
<1>1. CASE Construct
  <2>1. PICK K \in KeySets, F \in Spurious :
          /\ keys' = K
          /\ bfs' = [i \in Level |-> {Prefix(k, i) : k \in K}
                                       \cup {w \in Word : <<i, w>> \in F}]
    BY <1>1 DEF Construct
  <2>2. /\ result = "empty" /\ result' = "ready"
        /\ UNCHANGED <<passing, low, high, p, stack, leaf, min_accept>>
    BY <1>1 DEF Construct
  <2>3. K \in SUBSET Word
    BY KeySetsAssumption
  <2>4. bfs' \in [Level -> SUBSET Word]
    BY <2>1, <2>3, PrefixIsAWord
  <2> QED
    BY <2>1, <2>2, <2>3, <2>4 DEF TInv, TypeOK, Results, RightBelowRoot
<1>2. CASE Ask
  <2> DEFINE c == [fn |-> "range_query", l |-> 1, own |-> 0, right |-> FALSE]
  <2>1. /\ low' \in Word /\ high' \in Word /\ p' = 0 /\ leaf' = 0 /\ min_accept' = << >>
        /\ stack' = <<c>> /\ result' = "running" /\ UNCHANGED <<passing, keys, bfs>>
    BY <1>2 DEF Ask, filter
  <2>2. 0 \in Word /\ 1 \in 1 .. levels_ + 1
    BY LevelsAssumption, Pow2Assumption DEF Word
  <2>3. c \in Calls /\ ~c.right
    BY <2>2 DEF Calls
  <2> HIDE DEF c
  <2>4. stack' \in Seq(Calls) /\ stack' # << >> /\ Len(stack') = 1 /\ stack'[1] = c
    BY <2>1, <2>3
  <2>5. TypeOK'
    BY <2>1, <2>2, <2>4 DEF TInv, TypeOK, Results
  <2> QED
    BY <2>3, <2>4, <2>5 DEF TInv, RightBelowRoot
<1>3. CASE Step
  BY <1>3, StepKeepsTInv
<1>4. CASE UNCHANGED vars
  BY <1>4 DEF vars, TInv, TypeOK, RightBelowRoot
<1> QED
  BY <1>1, <1>2, <1>3, <1>4 DEF Next

LEMMA TypesHold ==
    Spec => []TInv
<1>1. Init => TInv
  <2> SUFFICES ASSUME Init
               PROVE  TInv
    OBVIOUS
  <2>1. 0 \in Word /\ stack = << >> /\ Len(stack) = 0
    BY LevelsAssumption, Pow2Assumption DEF Word, Init
  <2> QED
    BY <2>1 DEF Init, TInv, TypeOK, Results, RightBelowRoot
<1> QED
  BY <1>1, NextKeepsTInv, PTL DEF Spec

----------------------------------------------------------------------------
(* p passed by value: the integer search, call by call.                    *)

\* The mapping of IntegerSearch, with the theorems about the integer search.  The
\* life of a filter plays no part in them, and gets values of no meaning.
Search == INSTANCE RosettaProofs WITH
    keys <- ByValue(keys, {}),
    bfs <- ByValue(bfs, [i \in Level |-> {}]),
    low <- ByValue(low, 0),
    high <- ByValue(high, 0),
    stack <- ByValue([n \in DOMAIN stack |-> AsIntegerCall(stack[n])], << >>),
    result <- ByValue(result, "empty"),
    min_accept <- ByValue(leaf, 0),
    IntBits <- 1,
    Kinds <- {},
    MaxUnits <- 0,
    UnitSpurious <- {},
    none <- "none",
    kind <- "none",
    object <- "none",
    units <- << >>,
    image <- "none",
    built <- "none"

\* The pending calls, as the integer search makes them.
calls == [n \in DOMAIN stack |-> AsIntegerCall(stack[n])]

LEMMA SameDomains ==
    Search!Level = Level /\ Search!Word = Word /\ Search!MaxWord = Pow2[levels_] - 1
  BY DEF Search!Level, Level, Search!Word, Word, Search!MaxWord

\* The pending calls map to pending calls.
LEMMA CallsAreSearchCalls ==
    ASSUME TInv
    PROVE  /\ Len(stack) \in Nat /\ calls \in Seq(Search!Calls) /\ Len(calls) = Len(stack)
           /\ \A n \in 1 .. Len(stack) : calls[n] = AsIntegerCall(stack[n])
           /\ (calls = << >> <=> stack = << >>)
<1>1. stack \in Seq(Calls) /\ Len(stack) \in Nat /\ DOMAIN stack = 1 .. Len(stack)
  BY LenProperties DEF TInv, TypeOK
<1>2. ASSUME NEW n \in 1 .. Len(stack)
      PROVE  AsIntegerCall(stack[n]) \in Search!Calls
  <2>1. stack[n] \in Calls /\ (stack[n].right => stack[n].l > 1)
    BY <1>1, ElementOfSeq DEF TInv, RightBelowRoot
  <2>2. /\ stack[n].fn \in {"range_query", "doubt"} /\ stack[n].l \in 1 .. levels_ + 1
        /\ stack[n].own \in Word
    BY <2>1 DEF Calls
  <2>3. stack[n].right => stack[n].l - 2 \in Level
    BY <2>1, <2>2, LevelsAssumption DEF Level
  <2>4. (IF stack[n].right THEN SetBit(stack[n].own, stack[n].l - 2) ELSE stack[n].own) \in Word
    BY <2>2, <2>3, SetBitIsAWord
  <2> QED
    BY <2>2, <2>4, SameDomains DEF AsIntegerCall, Search!Calls
<1>3. calls = [n \in 1 .. Len(stack) |-> AsIntegerCall(stack[n])]
  BY <1>1 DEF calls
<1>4. calls \in Seq(Search!Calls) /\ Len(calls) = Len(stack)
  <2> DEFINE f(n) == AsIntegerCall(stack[n])
  <2>1. \A n \in 1 .. Len(stack) : f(n) \in Search!Calls
    BY <1>2
  <2>2. calls = [n \in 1 .. Len(stack) |-> f(n)]
    BY <1>3
  <2> HIDE DEF f
  <2>3. calls \in [1 .. Len(stack) -> Search!Calls]
    BY <2>1, <2>2
  <2> QED
    BY <1>1, <2>3, SeqDef, LenProperties
<1>5. calls = << >> <=> stack = << >>
  BY <1>1, <1>4, EmptySeq
<1> QED
  BY <1>1, <1>3, <1>4, <1>5

\* What IntegerSearch sees while p is passed by value.
LEMMA Seen ==
    ASSUME passing = "value"
    PROVE  /\ ByValue(keys, {}) = keys
           /\ ByValue(bfs, [i \in Level |-> {}]) = bfs
           /\ ByValue(low, 0) = low /\ ByValue(high, 0) = high
           /\ ByValue([n \in DOMAIN stack |-> AsIntegerCall(stack[n])], << >>) = calls
           /\ ByValue(result, "empty") = result
           /\ ByValue(leaf, 0) = leaf
  BY DEF ByValue, calls

\* The node of the first pending call, and the tests made on it.
LEMMA TopByValue ==
    ASSUME TInv, Search!IInv, passing = "value", result = "running"
    PROVE  /\ calls # << >> /\ Search!top = calls[1]
           /\ calls[1] = [fn |-> top.fn, l |-> top.l, p |-> node]
           /\ top.l \in 1 .. levels_ + 1 /\ node \in Word
           /\ node % Pow2[levels_ - top.l + 1] = 0
           /\ node + Pow2[levels_ - top.l + 1] <= Pow2[levels_]
           /\ Search!Add(node, Search!pow_1(top.l)) = node + Pow2[levels_ - top.l + 1] - 1
<1>1. /\ stack # << >> /\ top = stack[1] /\ 1 \in 1 .. Len(stack)
      /\ top.l \in 1 .. levels_ + 1 /\ node \in Word
  BY TopCall
<1>2. calls # << >> /\ calls[1] = AsIntegerCall(top) /\ calls \in Seq(Search!Calls)
  BY <1>1, CallsAreSearchCalls
<1>3. AsIntegerCall(top) = [fn |-> top.fn, l |-> top.l, p |-> node]
  BY DEF AsIntegerCall, node
<1>4. Search!top = calls[1]
  BY <1>2, Seen, HeadTailProperties DEF Search!top
<1>5. /\ Search!top.p % Search!Size(Search!top.l) = 0
      /\ Search!End(Search!top) <= Search!MaxWord + 1
      /\ Search!Add(Search!top.p, Search!pow_1(Search!top.l)) = Search!End(Search!top) - 1
  BY Seen, Search!TopNode, SameDomains, LevelsAssumption, Pow2Assumption,
     KeySetsAssumption, SpuriousAssumption
<1>6. Search!top.p = node /\ Search!top.l = top.l
  BY <1>2, <1>3, <1>4
<1>7. Search!Size(top.l) = Pow2[levels_ - top.l + 1]
  BY DEF Search!Size
<1>8. Search!End(Search!top) = node + Pow2[levels_ - top.l + 1]
  BY <1>6, <1>7 DEF Search!End
<1>9. Search!MaxWord + 1 = Pow2[levels_]
  BY LevelsAssumption, Pow2Assumption, SameDomains
<1>10. node % Pow2[levels_ - top.l + 1] = 0
  BY <1>5, <1>6, <1>7
<1>11. node + Pow2[levels_ - top.l + 1] <= Pow2[levels_]
  BY <1>5, <1>8, <1>9
<1>12. Search!Add(node, Search!pow_1(top.l)) = node + Pow2[levels_ - top.l + 1] - 1
  <2>1. Search!Add(node, Search!pow_1(top.l)) = Search!End(Search!top) - 1
    BY <1>5, <1>6, Zenon
  <2>2. node \in Nat /\ Pow2[levels_ - top.l + 1] \in Nat
    BY <1>1, LevelsAssumption, Pow2Assumption DEF Word
  <2>3. (node + Pow2[levels_ - top.l + 1]) - 1 = node + Pow2[levels_ - top.l + 1] - 1
    BY <2>2
  <2> QED
    BY <1>8, <2>1, <2>3, Zenon
<1> QED
  BY <1>1, <1>2, <1>3, <1>4, <1>10, <1>11, <1>12

\* Half of a node is free for its right child.
LEMMA RightHalf ==
    ASSUME NEW m \in Nat \ {0}, NEW s \in Nat, s % (2 * m) = 0
    PROVE  (s \div m) % 2 # 1
<1>1. 2 * m \in Nat \ {0}
  OBVIOUS
<1>2. PICK c \in Nat : s = c * (2 * m)
  <2>1. s = (s \div (2 * m)) * (2 * m) + (s % (2 * m)) /\ s \div (2 * m) \in Nat
    BY <1>1, DivMod
  <2>2. (s \div (2 * m)) * (2 * m) \in Nat
    BY <1>1, <2>1
  <2>3. s = (s \div (2 * m)) * (2 * m)
    BY <2>1, <2>2
  <2> QED
    BY <2>1, <2>3
<1>3. s \div m = 2 * c
  <2>1. s = (s \div m) * m + (s % m) /\ s \div m \in Nat /\ s % m \in Nat /\ s % m < m
    BY DivMod
  <2>2. (2 * c) * m = s
    BY <1>2
  <2>3. (2 * c) * m <= s /\ s < (2 * c) * m + m /\ 2 * c \in Nat
    BY <2>2
  <2>4. s - (s % m) = (2 * c) * m
    BY <2>3, MaskBetween
  <2>5. (s \div m) * m = (2 * c) * m
    BY <2>1, <2>4
  <2> QED
    BY <2>1, <2>3, <2>5, SMTT(30)
<1> QED
  BY <1>3

\* range_query and doubt make the tests of the integer search.
LEMMA TestsByValue ==
    ASSUME TInv, Search!IInv, passing = "value", result = "running"
    PROVE  /\ Disjoint <=> Search!Disjoint(node, top.l)
           /\ Contained <=> Search!Contained(node, top.l)
           /\ top.l > 1 => Prefix(node, top.l - 2) = node
<1> DEFINE m == Pow2[levels_ - top.l + 1]
<1>1. /\ top.l \in 1 .. levels_ + 1 /\ node \in Nat /\ low \in Nat /\ high \in Nat
      /\ node % m = 0 /\ node + m <= Pow2[levels_]
      /\ Search!Add(node, Search!pow_1(top.l)) = node + m - 1
  BY TopCall, TopByValue
<1>2. m \in Nat \ {0} /\ Pow2[levels_] \in Nat
  BY <1>1, LevelsAssumption, Pow2Assumption
<1>3. top.l > 1 => Prefix(node, top.l - 2) = node
  <2> SUFFICES ASSUME top.l > 1
               PROVE  Prefix(node, top.l - 2) = node
    OBVIOUS
  <2>1. levels_ - (top.l - 2) - 1 = levels_ - top.l + 1
    BY <1>1, LevelsAssumption, ShiftOfLevel
  <2>2. Prefix(node, top.l - 2) = node - (node % m)
    BY <2>1 DEF Prefix
  <2> QED
    BY <1>1, <2>2
<1>4. upper_bound = node + m - 1
  <2>1. upper_bound = (IF top.l = 1 THEN 0 ELSE Prefix(node, top.l - 2)) + m - 1
    BY DEF upper_bound
  <2>2. top.l = 1 => node = 0
    <3> SUFFICES ASSUME top.l = 1
                 PROVE  node = 0
      OBVIOUS
    <3>1. levels_ - top.l + 1 = levels_
      BY LevelsAssumption
    <3>2. m = Pow2[levels_]
      BY <3>1
    <3> QED
      BY <1>1, <1>2, <3>2
  <2>3. (IF top.l = 1 THEN 0 ELSE Prefix(node, top.l - 2)) = node
    BY <1>1, <1>3, <2>2
  <2> QED
    BY <2>1, <2>3
<1>5. node + m - 1 \in Nat
  BY <1>1, <1>2
<1> HIDE DEF m
<1>6. Disjoint <=> Search!Disjoint(node, top.l)
  <2>1. Search!Disjoint(node, top.l) <=> node > high \/ node + m - 1 < low
    BY <1>1, Seen DEF Search!Disjoint
  <2> QED
    BY <1>1, <1>4, <1>5, <2>1 DEF Disjoint
<1>7. Contained <=> Search!Contained(node, top.l)
  <2>1. Search!Contained(node, top.l) <=> node >= low /\ node + m - 1 <= high
    BY <1>1, Seen DEF Search!Contained
  <2> QED
    BY <1>1, <1>4, <1>5, <2>1 DEF Contained
<1> QED
  BY <1>3, <1>6, <1>7

LEMMA TwoFieldsReplaced ==
    ASSUME NEW f, NEW l, NEW q, NEW x, NEW y,
           NEW c, c = [[fn |-> f, l |-> l, p |-> q] EXCEPT !.p = x, !.l = y]
    PROVE  c = [fn |-> f, l |-> y, p |-> x]
  OBVIOUS

\* The children of the first call are the children of its integer call.
LEMMA ChildrenByValue ==
    ASSUME TInv, Search!IInv, passing = "value", result = "running", top.l <= levels_,
           NEW fn, fn = top.fn
    PROVE  Search!Children(Search!top) =
              <<AsIntegerCall(Child(fn, FALSE)), AsIntegerCall(Child(fn, TRUE))>>
<1> DEFINE h == Pow2[levels_ - top.l]
<1>1. /\ top.l \in 1 .. levels_ /\ node \in Nat
      /\ Search!top = [fn |-> top.fn, l |-> top.l, p |-> node]
      /\ node % Pow2[levels_ - top.l + 1] = 0
      /\ node + Pow2[levels_ - top.l + 1] <= Pow2[levels_]
  BY TopCall, TopByValue, LevelsAssumption
<1>2. h \in Nat \ {0} /\ Pow2[levels_ - top.l + 1] = 2 * h /\ Pow2[levels_] \in Nat
  <2>1. levels_ - top.l \in Level
    BY <1>1, LevelsAssumption DEF Level
  <2> QED
    BY <2>1, LevelsAssumption, Pow2Assumption DEF Level
<1>3. Search!Add(node, Search!pow_r_1(top.l)) = node + h
  <2>1. Search!Add(node, h) = node + h
    <3>1. node + h <= Search!MaxWord
      BY <1>1, <1>2, SameDomains
    <3> QED
      BY <1>1, <1>2, <3>1, Search!AddInside, SameDomains, LevelsAssumption, Pow2Assumption,
         KeySetsAssumption, SpuriousAssumption
  <2> QED
    BY <2>1 DEF Search!pow_r_1
<1>4. SetBit(node, top.l - 1) = node + h
  <2>1. levels_ - (top.l - 1) - 1 = levels_ - top.l
    BY <1>1, LevelsAssumption
  <2>2. (node \div h) % 2 # 1
    <3>1. node % (2 * h) = 0
      BY <1>1, <1>2
    <3> HIDE DEF h
    <3> QED
      BY <1>1, <1>2, <3>1, RightHalf
  <2> QED
    BY <2>1, <2>2 DEF SetBit
<1>5. AsIntegerCall(Child(fn, FALSE)) = [fn |-> fn, l |-> top.l + 1, p |-> node]
  BY DEF AsIntegerCall, Child
<1>6. AsIntegerCall(Child(fn, TRUE)) = [fn |-> fn, l |-> top.l + 1, p |-> node + h]
  <2>1. (top.l + 1) - 2 = top.l - 1
    BY <1>1
  <2>2. AsIntegerCall(Child(fn, TRUE)) =
            [fn |-> fn, l |-> top.l + 1, p |-> SetBit(node, (top.l + 1) - 2)]
    BY DEF AsIntegerCall, Child
  <2> QED
    BY <1>4, <2>1, <2>2
<1> HIDE DEF h
<1>7. Search!Children(Search!top) = << [fn |-> fn, l |-> top.l + 1, p |-> node],
                                       [fn |-> fn, l |-> top.l + 1, p |-> node + h] >>
  <2> DEFINE c == Search!top
             a == [fn |-> top.fn, l |-> top.l, p |-> node]
  <2>1. c = a
    BY <1>1
  <2>2. a.fn = fn /\ a.l = top.l /\ a.p = node
    OBVIOUS
  <2>3. Search!Add(a.p, Search!pow_r_1(a.l)) = node + h
    BY <1>3, <2>2
  <2>4. [a EXCEPT !.l = a.l + 1] = [fn |-> fn, l |-> top.l + 1, p |-> node]
    OBVIOUS
  <2> DEFINE r == [c EXCEPT !.p = Search!Add(c.p, Search!pow_r_1(c.l)), !.l = c.l + 1]
             sum == node + h
             next == top.l + 1
  <2>5. r = [a EXCEPT !.p = sum, !.l = next]
    BY <2>1, <2>2, <2>3
  <2> HIDE DEF r, sum, next
  <2>6. r = [fn |-> top.fn, l |-> next, p |-> sum]
    BY <2>5, TwoFieldsReplaced
  <2>7. Search!Children(c) = << [c EXCEPT !.l = c.l + 1], r >>
    BY DEF Search!Children, r
  <2>8. [c EXCEPT !.l = c.l + 1] = [fn |-> fn, l |-> top.l + 1, p |-> node]
    BY <2>1, <2>4
  <2> HIDE DEF c, a
  <2> QED
    BY <2>6, <2>7, <2>8 DEF c, sum, next
<1> QED
  BY <1>5, <1>6, <1>7

\* Mapping the calls of a stack commutes with what a step does to the stack.
Mapped(s) == [n \in DOMAIN s |-> AsIntegerCall(s[n])]

IntegerCalls == {AsIntegerCall(c) : c \in Calls}

LEMMA MappedStack ==
    ASSUME NEW s \in Seq(Calls)
    PROVE  /\ Mapped(s) \in Seq(IntegerCalls) /\ Len(Mapped(s)) = Len(s)
           /\ \A n \in 1 .. Len(s) : Mapped(s)[n] = AsIntegerCall(s[n])
<1>1. Len(s) \in Nat /\ DOMAIN s = 1 .. Len(s)
  BY LenProperties
<1>2. \A n \in 1 .. Len(s) : s[n] \in Calls
  BY ElementOfSeq
<1>3. Mapped(s) \in [1 .. Len(s) -> IntegerCalls]
  BY <1>1, <1>2 DEF Mapped, IntegerCalls
<1>4. \A n \in 1 .. Len(s) : Mapped(s)[n] = AsIntegerCall(s[n])
  BY <1>1 DEF Mapped
<1>5. Mapped(s) \in Seq(IntegerCalls) /\ Len(Mapped(s)) = Len(s)
  BY <1>1, <1>3, SeqDef, LenProperties
<1> QED
  BY <1>4, <1>5

LEMMA MappedStackAfter ==
    ASSUME NEW s \in Seq(Calls), s # << >>
    PROVE  /\ Mapped(Tail(s)) = Tail(Mapped(s))
           /\ \A a \in Calls :
                Mapped(<<a>> \o Tail(s)) = <<AsIntegerCall(a)>> \o Tail(Mapped(s))
           /\ \A a, b \in Calls :
                Mapped(<<a, b>> \o Tail(s)) =
                    <<AsIntegerCall(a), AsIntegerCall(b)>> \o Tail(Mapped(s))
<1> DEFINE ms == Mapped(s)
<1>1. /\ ms \in Seq(IntegerCalls) /\ Len(ms) = Len(s) /\ Len(s) \in Nat \ {0}
      /\ \A n \in 1 .. Len(s) : ms[n] = AsIntegerCall(s[n])
      /\ ms # << >>
  BY MappedStack, EmptySeq
<1>2. /\ Tail(s) \in Seq(Calls) /\ Len(Tail(s)) = Len(s) - 1
      /\ \A n \in 1 .. Len(s) - 1 : Tail(s)[n] = s[n + 1]
  BY StackAfter
<1> HIDE DEF ms
<1>3. /\ Tail(ms) \in Seq(IntegerCalls) /\ Len(Tail(ms)) = Len(s) - 1
      /\ \A n \in 1 .. Len(s) - 1 : Tail(ms)[n] = ms[n + 1]
  BY <1>1, StackAfter
<1>4. Mapped(Tail(s)) = Tail(ms)
  <2>1. /\ Mapped(Tail(s)) \in Seq(IntegerCalls) /\ Len(Mapped(Tail(s))) = Len(s) - 1
        /\ \A n \in 1 .. Len(s) - 1 : Mapped(Tail(s))[n] = AsIntegerCall(Tail(s)[n])
    BY <1>2, MappedStack
  <2>2. ASSUME NEW n \in 1 .. Len(s) - 1
        PROVE  Mapped(Tail(s))[n] = Tail(ms)[n]
    <3>1. n + 1 \in 1 .. Len(s)
      BY <1>1
    <3> QED
      BY <1>1, <1>2, <1>3, <2>1, <3>1
  <2> QED
    BY <1>3, <2>1, <2>2, SeqEqual
<1>5. ASSUME NEW a \in Calls
      PROVE  Mapped(<<a>> \o Tail(s)) = <<AsIntegerCall(a)>> \o Tail(ms)
  <2> DEFINE t == <<a>> \o Tail(s)
             mt == <<AsIntegerCall(a)>> \o Tail(ms)
  <2>1. t \in Seq(Calls) /\ Len(t) = Len(s) /\ t[1] = a /\ \A n \in 2 .. Len(s) : t[n] = s[n]
    BY StackAfter
  <2>2. /\ mt \in Seq(IntegerCalls) /\ Len(mt) = Len(s) /\ mt[1] = AsIntegerCall(a)
        /\ \A n \in 2 .. Len(s) : mt[n] = ms[n]
    <3>1. AsIntegerCall(a) \in IntegerCalls
      BY DEF IntegerCalls
    <3> QED
      BY <1>1, <3>1, StackAfter
  <2> HIDE DEF t, mt
  <2>3. /\ Mapped(t) \in Seq(IntegerCalls) /\ Len(Mapped(t)) = Len(s)
        /\ \A n \in 1 .. Len(s) : Mapped(t)[n] = AsIntegerCall(t[n])
    BY <2>1, MappedStack
  <2>4. ASSUME NEW n \in 1 .. Len(s)
        PROVE  Mapped(t)[n] = mt[n]
    <3>1. CASE n = 1
      BY <2>1, <2>2, <2>3, <3>1
    <3>2. CASE n \in 2 .. Len(s)
      BY <1>1, <2>1, <2>2, <2>3, <3>2
    <3> QED
      BY <1>1, <3>1, <3>2
  <2>5. Mapped(t) = mt
    BY <2>2, <2>3, <2>4, SeqEqual
  <2> QED
    BY <2>5 DEF t, mt
<1>6. ASSUME NEW a \in Calls, NEW b \in Calls
      PROVE  Mapped(<<a, b>> \o Tail(s)) =
                 <<AsIntegerCall(a), AsIntegerCall(b)>> \o Tail(ms)
  <2> DEFINE t == <<a, b>> \o Tail(s)
             mt == <<AsIntegerCall(a), AsIntegerCall(b)>> \o Tail(ms)
  <2>1. /\ t \in Seq(Calls) /\ Len(t) = Len(s) + 1 /\ t[1] = a /\ t[2] = b
        /\ \A n \in 3 .. Len(s) + 1 : t[n] = s[n - 1]
    BY StackAfter
  <2>2. /\ mt \in Seq(IntegerCalls) /\ Len(mt) = Len(s) + 1
        /\ mt[1] = AsIntegerCall(a) /\ mt[2] = AsIntegerCall(b)
        /\ \A n \in 3 .. Len(s) + 1 : mt[n] = ms[n - 1]
    <3>1. AsIntegerCall(a) \in IntegerCalls /\ AsIntegerCall(b) \in IntegerCalls
      BY DEF IntegerCalls
    <3> QED
      BY <1>1, <3>1, StackAfter
  <2> HIDE DEF t, mt
  <2>3. /\ Mapped(t) \in Seq(IntegerCalls) /\ Len(Mapped(t)) = Len(s) + 1
        /\ \A n \in 1 .. Len(s) + 1 : Mapped(t)[n] = AsIntegerCall(t[n])
    BY <2>1, MappedStack
  <2>4. ASSUME NEW n \in 1 .. Len(s) + 1
        PROVE  Mapped(t)[n] = mt[n]
    <3>1. CASE n = 1
      BY <2>1, <2>2, <2>3, <3>1
    <3>2. CASE n = 2
      BY <2>1, <2>2, <2>3, <3>2
    <3>3. CASE n \in 3 .. Len(s) + 1
      <4>1. n - 1 \in 1 .. Len(s)
        BY <1>1, <3>3
      <4> QED
        BY <1>1, <2>1, <2>2, <2>3, <3>3, <4>1
    <3> QED
      BY <1>1, <3>1, <3>2, <3>3
  <2>5. Mapped(t) = mt
    BY <2>2, <2>3, <2>4, SeqEqual
  <2> QED
    BY <2>5 DEF t, mt
<1> QED
  BY <1>4, <1>5, <1>6 DEF ms

\* What IntegerSearch sees after a step that leaves passing alone.
LEMMA SeenNext ==
    ASSUME passing = "value", passing' = passing
    PROVE  /\ ByValue(keys, {})' = keys'
           /\ ByValue(bfs, [i \in Level |-> {}])' = bfs'
           /\ ByValue(low, 0)' = low' /\ ByValue(high, 0)' = high'
           /\ ByValue([n \in DOMAIN stack |-> AsIntegerCall(stack[n])], << >>)' = Mapped(stack')
           /\ ByValue(result, "empty")' = result'
           /\ ByValue(leaf, 0)' = leaf'
  BY DEF ByValue, Mapped, AsIntegerCall, SetBit

LEMMA ReturnFalseByValue ==
    ASSUME TInv, passing = "value", result = "running", ReturnFalse
    PROVE  Search!ReturnFalse
<1>1. stack \in Seq(Calls) /\ stack # << >>
  BY TopCall
<1>2. /\ passing' = passing /\ stack' = Tail(stack)
      /\ result' = IF Len(stack) = 1 THEN "false" ELSE "running"
      /\ keys' = keys /\ bfs' = bfs /\ low' = low /\ high' = high /\ leaf' = leaf
  BY DEF ReturnFalse, filter
<1>3. calls = Mapped(stack) /\ Len(calls) = Len(stack)
  BY <1>1, MappedStack DEF calls, Mapped
<1>4. Mapped(stack') = Tail(calls)
  BY <1>1, <1>2, <1>3, MappedStackAfter
<1> QED
  BY <1>2, <1>3, <1>4, Seen, SeenNext DEF Search!ReturnFalse

LEMMA RecurseByValue ==
    ASSUME TInv, Search!IInv, passing = "value", result = "running", top.l <= levels_,
           Recurse(top.fn)
    PROVE  Search!Recurse
<1> DEFINE a == Child(top.fn, FALSE)
           b == Child(top.fn, TRUE)
<1>1. stack \in Seq(Calls) /\ stack # << >> /\ top.fn \in {"range_query", "doubt"}
  BY TopCall
<1>2. /\ passing' = passing /\ stack' = <<a, b>> \o Tail(stack) /\ result' = result
      /\ keys' = keys /\ bfs' = bfs /\ low' = low /\ high' = high /\ leaf' = leaf
  BY DEF Recurse, filter
<1>3. a \in Calls /\ b \in Calls
  BY <1>1, ChildrenAreCalls
<1>4. Search!Children(Search!top) = <<AsIntegerCall(a), AsIntegerCall(b)>>
  BY ChildrenByValue
<1> HIDE DEF a, b
<1>5. calls = Mapped(stack)
  BY DEF calls, Mapped
<1>6. Mapped(stack') = <<AsIntegerCall(a), AsIntegerCall(b)>> \o Tail(calls)
  BY <1>1, <1>2, <1>3, <1>5, MappedStackAfter
<1> QED
  BY <1>2, <1>4, <1>6, Seen, SeenNext DEF Search!Recurse

\* Each step is the step of the same name of the integer search.
LEMMA StepByValue ==
    ASSUME TInv, Search!IInv, passing = "value", Step
    PROVE  Search!Step
<1>1. result = "running"
  BY DEF Step, RangeDisjoint, RangeContained, RangeSplit, DoubtUndefined, DoubtRejected,
         DoubtAccepted, DoubtSplit, Running
<1> DEFINE st == Search!top
<1>2. /\ st.fn = top.fn /\ st.l = top.l /\ st.p = node
      /\ st = [fn |-> top.fn, l |-> top.l, p |-> node]
      /\ top.l \in 1 .. levels_ + 1 /\ node \in Word
  BY <1>1, TopByValue
<1>3. \A fn : Search!Running(fn) <=> Running(fn)
  BY <1>1, <1>2, Seen DEF Search!Running, Running
<1>4. /\ Disjoint <=> Search!Disjoint(st.p, st.l)
      /\ Contained <=> Search!Contained(st.p, st.l)
      /\ top.l > 1 => Prefix(node, top.l - 2) = node
  <2>1. /\ Disjoint <=> Search!Disjoint(node, top.l)
        /\ Contained <=> Search!Contained(node, top.l)
        /\ top.l > 1 => Prefix(node, top.l - 2) = node
    BY <1>1, TestsByValue
  <2> HIDE DEF st
  <2> QED
    BY <1>2, <2>1
<1>5. top.l > 1 => (Vouched <=> st.p \in bfs[st.l - 2])
  BY <1>2, <1>4 DEF Vouched
<1>6. CASE RangeDisjoint
  BY <1>1, <1>3, <1>4, <1>6, ReturnFalseByValue
     DEF RangeDisjoint, Search!Step, Search!RangeDisjoint
<1>7. CASE RangeContained
  <2> DEFINE c == [fn |-> "doubt", l |-> top.l, own |-> node, right |-> FALSE]
  <2>1. stack \in Seq(Calls) /\ stack # << >>
    BY <1>1, TopCall
  <2>2. /\ passing' = passing /\ stack' = <<c>> \o Tail(stack) /\ result' = result
        /\ keys' = keys /\ bfs' = bfs /\ low' = low /\ high' = high /\ leaf' = leaf
    BY <1>7 DEF RangeContained, filter
  <2>3. c \in Calls
    BY <1>2 DEF Calls
  <2>4. AsIntegerCall(c) = [st EXCEPT !.fn = "doubt"]
    <3>1. AsIntegerCall(c) = [fn |-> "doubt", l |-> top.l, p |-> node]
      BY DEF AsIntegerCall
    <3> QED
      BY <1>2, <3>1
  <2> HIDE DEF c
  <2>5. calls = Mapped(stack)
    BY DEF calls, Mapped
  <2>6. Mapped(stack') = <<[st EXCEPT !.fn = "doubt"]>> \o Tail(calls)
    BY <2>1, <2>2, <2>3, <2>4, <2>5, MappedStackAfter
  <2>7. Search!Running("range_query") /\ ~Search!Disjoint(st.p, st.l) /\ Search!Contained(st.p, st.l)
    BY <1>3, <1>4, <1>7 DEF RangeContained
  <2> QED
    BY <2>2, <2>6, <2>7, Seen, SeenNext DEF Search!Step, Search!RangeContained
<1>8. CASE RangeSplit
  <2>1. top.l <= levels_ /\ top.fn = "range_query" /\ Recurse("range_query")
    BY <1>8, SplitsAboveLeaves DEF RangeSplit, Running
  <2>2. Search!Recurse
    BY <1>1, <2>1, RecurseByValue
  <2>3. Search!Running("range_query") /\ ~Search!Disjoint(st.p, st.l) /\ ~Search!Contained(st.p, st.l)
    BY <1>3, <1>4, <1>8 DEF RangeSplit
  <2> QED
    BY <2>2, <2>3 DEF Search!Step, Search!RangeSplit
<1>9. CASE DoubtUndefined
  <2>1. /\ passing' = passing /\ stack' = << >> /\ result' = "undefined"
        /\ keys' = keys /\ bfs' = bfs /\ low' = low /\ high' = high /\ leaf' = leaf
        /\ top.l = 1
    BY <1>9 DEF DoubtUndefined, filter
  <2>2. Mapped(stack') = << >>
    BY <2>1 DEF Mapped
  <2>3. Search!Running("doubt") /\ st.l = 1
    BY <1>2, <1>3, <1>9, <2>1 DEF DoubtUndefined
  <2> QED
    BY <2>1, <2>2, <2>3, Seen, SeenNext DEF Search!Step, Search!DoubtUndefined
<1>10. CASE DoubtRejected
  <2>1. Search!Running("doubt") /\ st.l > 1 /\ st.p \notin ByValue(bfs, [i \in Level |-> {}])[st.l - 2]
    BY <1>2, <1>3, <1>5, <1>10, Seen DEF DoubtRejected
  <2>2. Search!ReturnFalse
    BY <1>1, <1>10, ReturnFalseByValue DEF DoubtRejected
  <2> QED
    BY <2>1, <2>2, SameDomains DEF Search!Step, Search!DoubtRejected
<1>11. CASE DoubtAccepted
  <2>1. /\ passing' = passing /\ stack' = << >> /\ result' = "true"
        /\ keys' = keys /\ bfs' = bfs /\ low' = low /\ high' = high /\ leaf' = node
        /\ top.l > levels_ /\ Vouched
    BY <1>11 DEF DoubtAccepted, filter
  <2>2. Mapped(stack') = << >>
    BY <2>1 DEF Mapped
  <2>3. Search!Running("doubt") /\ st.l > levels_
    BY <1>2, <1>3, <1>11, <2>1 DEF DoubtAccepted
  <2>4. st.p \in bfs[st.l - 2]
    <3>1. top.l > 1
      BY <1>2, <2>1, LevelsAssumption
    <3> QED
      BY <1>5, <2>1, <3>1
  <2> QED
    BY <1>2, <2>1, <2>2, <2>3, <2>4, Seen, SeenNext DEF Search!Step, Search!DoubtAccepted
<1>12. CASE DoubtSplit
  <2>1. top.l <= levels_ /\ top.fn = "doubt" /\ Recurse("doubt") /\ top.l > 1 /\ Vouched
    BY <1>12 DEF DoubtSplit, Running
  <2>2. Search!Recurse
    BY <1>1, <2>1, RecurseByValue
  <2>3. Search!Running("doubt") /\ st.l > 1 /\ st.l <= levels_ /\ st.p \in bfs[st.l - 2]
    BY <1>2, <1>3, <1>5, <1>12, <2>1 DEF DoubtSplit
  <2> QED
    BY <2>2, <2>3, Seen DEF Search!Step, Search!DoubtSplit
<1> QED
  BY <1>6, <1>7, <1>8, <1>9, <1>10, <1>11, <1>12 DEF Step

LEMMA NextByValue ==
    ASSUME TInv, Search!IInv, [Next]_vars
    PROVE  [Search!Next]_(Search!vars)
<1>1. passing' = passing
  BY DEF Next, Construct, Ask, Step, RangeDisjoint, RangeContained, RangeSplit, DoubtUndefined,
         DoubtRejected, DoubtAccepted, DoubtSplit, ReturnFalse, Recurse, filter, vars
<1>2. CASE passing # "value"
  BY <1>1, <1>2 DEF Search!vars, ByValue
<1>3. CASE passing = "value"
  <2>1. CASE Construct
    <3>1. PICK K \in KeySets, F \in Spurious :
            /\ keys' = K
            /\ bfs' = [i \in Level |-> {Prefix(k, i) : k \in K}
                                         \cup {w \in Word : <<i, w>> \in F}]
      BY <2>1 DEF Construct
    <3>2. bfs' = [i \in Search!Level |-> {Search!Mask(k, i) : k \in K}
                                           \cup {w \in Search!Word : <<i, w>> \in F}]
      BY <3>1, SameDomains DEF Prefix, Search!Mask
    <3>3. /\ result = "empty" /\ result' = "ready" /\ low' = low /\ high' = high
          /\ stack' = stack /\ leaf' = leaf
      BY <2>1 DEF Construct
    <3>4. Mapped(stack') = calls
      BY <3>3 DEF Mapped, calls
    <3> QED
      BY <1>1, <1>3, <3>1, <3>2, <3>3, <3>4, Seen, SeenNext DEF Search!Next, Search!Construct
  <2>2. CASE Ask
    <3> DEFINE c == [fn |-> "range_query", l |-> 1, own |-> 0, right |-> FALSE]
    <3>1. /\ result \in {"ready", "true", "false"} /\ low' \in Word /\ high' \in Word
          /\ stack' = <<c>> /\ result' = "running" /\ leaf' = 0 /\ keys' = keys /\ bfs' = bfs
      BY <2>2 DEF Ask, filter
    <3>2. AsIntegerCall(c) = [fn |-> "range_query", p |-> 0, l |-> 1]
      BY DEF AsIntegerCall
    <3> HIDE DEF c
    <3>3. Mapped(<<c>>) = <<AsIntegerCall(c)>>
      BY DEF Mapped
    <3> QED
      BY <1>1, <1>3, <3>1, <3>2, <3>3, Seen, SeenNext, SameDomains DEF Search!Next, Search!Ask
  <2>3. CASE Step
    BY <1>3, <2>3, StepByValue DEF Search!Next
  <2>4. CASE UNCHANGED vars
    BY <2>4 DEF vars, Search!vars, ByValue, AsIntegerCall, SetBit
  <2> QED
    BY <2>1, <2>2, <2>3, <2>4 DEF Next
<1> QED
  BY <1>2, <1>3

LEMMA InitByValue ==
    Init => Search!Init
  BY SameDomains DEF Init, Search!Init, ByValue

\* The states the string search reaches are, seen through the mapping, states
\* of the integer search's invariant.
LEMMA SearchInvariantHolds ==
    Spec => []Search!IInv
<1>1. Init => Search!IInv
  BY InitByValue, Search!InitEstablishesIInv, SameDomains, LevelsAssumption, Pow2Assumption,
     KeySetsAssumption, SpuriousAssumption
<1>2. TInv /\ Search!IInv /\ [Next]_vars => Search!IInv'
  BY NextByValue, Search!NextKeepsIInv, SameDomains, LevelsAssumption, Pow2Assumption,
     KeySetsAssumption, SpuriousAssumption
<1> QED
  BY <1>1, <1>2, TypesHold, PTL DEF Spec

\* With p passed by value, every version of the string search runs the integer
\* search (the safety part of ImplementsIntegerSearch; that every query ends is
\* checked by TLC).
THEOREM RunsTheIntegerSearch ==
    Spec => IntegerSearch!Spec
<1>1. Init => IntegerSearch!Init
  BY InitByValue DEF IntegerSearch!Init, Search!Init, IntegerSearch!Level, Search!Level
<1>2. TInv /\ Search!IInv /\ [Next]_vars => [IntegerSearch!Next]_(IntegerSearch!vars)
  <2> USE DEF Search!top, IntegerSearch!top, Search!Running, IntegerSearch!Running,
            Search!ReturnFalse, IntegerSearch!ReturnFalse, Search!Recurse, IntegerSearch!Recurse,
            Search!Children, IntegerSearch!Children, Search!Add, IntegerSearch!Add,
            Search!pow_1, IntegerSearch!pow_1, Search!pow_r_1, IntegerSearch!pow_r_1,
            Search!Level, IntegerSearch!Level, Search!Word, IntegerSearch!Word,
            Search!MaxWord, IntegerSearch!MaxWord, Search!Disjoint, IntegerSearch!Disjoint,
            Search!Contained, IntegerSearch!Contained, Search!Mask, IntegerSearch!Mask
  <2>1. Search!Construct <=> IntegerSearch!Construct
    BY DEF Search!Construct, IntegerSearch!Construct
  <2>2. Search!Ask <=> IntegerSearch!Ask
    BY DEF Search!Ask, IntegerSearch!Ask
  <2>3. Search!RangeDisjoint <=> IntegerSearch!RangeDisjoint
    BY DEF Search!RangeDisjoint, IntegerSearch!RangeDisjoint
  <2>4. Search!RangeContained <=> IntegerSearch!RangeContained
    BY DEF Search!RangeContained, IntegerSearch!RangeContained
  <2>5. Search!RangeSplit <=> IntegerSearch!RangeSplit
    BY DEF Search!RangeSplit, IntegerSearch!RangeSplit
  <2>6. Search!DoubtUndefined <=> IntegerSearch!DoubtUndefined
    BY DEF Search!DoubtUndefined, IntegerSearch!DoubtUndefined
  <2>7. Search!DoubtRejected <=> IntegerSearch!DoubtRejected
    BY DEF Search!DoubtRejected, IntegerSearch!DoubtRejected
  <2>8. Search!DoubtAccepted <=> IntegerSearch!DoubtAccepted
    BY DEF Search!DoubtAccepted, IntegerSearch!DoubtAccepted
  <2>9. Search!DoubtSplit <=> IntegerSearch!DoubtSplit
    BY DEF Search!DoubtSplit, IntegerSearch!DoubtSplit
  <2>10. Search!vars = IntegerSearch!vars
    BY DEF Search!vars, IntegerSearch!vars
  <2>11. Search!vars' = IntegerSearch!vars'
    BY DEF Search!vars, IntegerSearch!vars
  <2> QED
    BY <2>1, <2>2, <2>3, <2>4, <2>5, <2>6, <2>7, <2>8, <2>9, <2>10, <2>11, NextByValue
       DEF Search!Next, IntegerSearch!Next, Search!Step, IntegerSearch!Step
<1> QED
  BY <1>1, <1>2, TypesHold, SearchInvariantHolds, PTL DEF Spec, IntegerSearch!Spec

----------------------------------------------------------------------------
(* p passed by reference: an accepted leaf lies in the range.              *)

\* range_query returns what doubt says: below a call of doubt there are only
\* calls of range_query.
DoubtsFirst ==
    \A n \in 1 .. Len(stack) : \A m \in 1 .. n :
        stack[n].fn = "doubt" => stack[m].fn = "doubt"

Width(c) == levels_ - c.l + 1

\* The string is inside the range with its last e bits set to '1', and the
\* pending calls of doubt set none of the bits before.
StaysInside(e) ==
    /\ low <= p
    /\ (p - (p % Pow2[e])) + (Pow2[e] - 1) <= high
    /\ \A n \in 1 .. Len(stack) :
         stack[n].fn = "doubt" =>
             Width(stack[n]) <= e /\ (stack[n].right => Width(stack[n]) < e)

DoubtStaysInside ==
    passing = "reference" /\ stack # << >> /\ stack[1].fn = "doubt" =>
        \E e \in 0 .. levels_ : StaysInside(e)

RInv ==
    /\ DoubtsFirst
    /\ DoubtStaysInside
    /\ passing = "reference" => AcceptedLeafInRange

\* What a call of doubt finds is inside the same node of e bits as what the
\* last one left.
LEMMA NodeStaysInside ==
    ASSUME TInv, passing = "reference", result = "running", top.fn = "doubt",
           NEW e \in 0 .. levels_, StaysInside(e)
    PROVE  /\ low <= node /\ (node - (node % Pow2[e])) + (Pow2[e] - 1) <= high
           /\ Width(top) <= e
<1>1. /\ p \in Nat /\ low \in Nat /\ node \in Nat /\ top = stack[1] /\ 1 \in 1 .. Len(stack)
      /\ top.l \in 1 .. levels_ + 1 /\ (top.right => top.l > 1)
  BY TopCall DEF TInv, TypeOK, Word, RightBelowRoot
<1>2. Width(top) <= e /\ (top.right => Width(top) < e)
  BY <1>1 DEF StaysInside
<1>3. CASE ~top.right
  BY <1>2, <1>3 DEF node, StaysInside
<1>4. CASE top.right
  <2>1. top.l - 2 \in Level
    BY <1>1, <1>4, LevelsAssumption DEF Level
  <2>2. levels_ - (top.l - 2) - 1 < e
    <3>1. levels_ - (top.l - 2) - 1 = levels_ - top.l + 1
      BY <1>1, LevelsAssumption, ShiftOfLevel
    <3> QED
      BY <1>2, <1>4, <3>1 DEF Width
  <2>3. /\ p <= SetBit(p, top.l - 2)
        /\ SetBit(p, top.l - 2) - (SetBit(p, top.l - 2) % Pow2[e]) = p - (p % Pow2[e])
    BY <1>1, <2>1, <2>2, SetBitInside
  <2>4. node = SetBit(p, top.l - 2)
    BY <1>4 DEF node
  <2>5. low <= p /\ (p - (p % Pow2[e])) + (Pow2[e] - 1) <= high
    BY DEF StaysInside
  <2> QED
    BY <1>1, <1>2, <2>3, <2>4, <2>5
<1> QED
  BY <1>3, <1>4

\* The node that range_query hands to doubt.
LEMMA ContainedIsInside ==
    ASSUME TInv, result = "running", Contained
    PROVE  LET e == levels_ - top.l + 1
           IN  /\ e \in 0 .. levels_
               /\ low <= node /\ (node - (node % Pow2[e])) + (Pow2[e] - 1) <= high
<1> DEFINE e == levels_ - top.l + 1
<1>1. top.l \in 1 .. levels_ + 1 /\ node \in Word /\ node \in Nat /\ low \in Nat /\ high \in Nat
  BY TopCall
<1>2. e \in 0 .. levels_
  BY <1>1, LevelsAssumption
<1>3. Pow2[e] \in Nat \ {0} /\ Pow2[levels_] \in Nat \ {0}
  BY <1>2, LevelsAssumption, Pow2Assumption
<1>4. node >= low /\ high >= upper_bound
  BY DEF Contained
<1>5. (IF top.l = 1 THEN 0 ELSE Prefix(node, top.l - 2)) = node - (node % Pow2[e])
  <2>1. CASE top.l = 1
    <3>1. e = levels_
      BY <2>1, LevelsAssumption
    <3>2. node < Pow2[e]
      BY <1>1, <1>3, <3>1 DEF Word
    <3>3. 0 * Pow2[e] = 0
      BY <1>3
    <3> HIDE DEF e
    <3>4. node - (node % Pow2[e]) = 0
      BY <1>1, <1>3, <3>2, <3>3, MaskBetween
    <3> QED
      BY <2>1, <3>4
  <2>2. CASE top.l # 1
    <3>1. levels_ - (top.l - 2) - 1 = e
      BY <1>1, LevelsAssumption, ShiftOfLevel
    <3> HIDE DEF e
    <3> QED
      BY <2>2, <3>1 DEF Prefix
  <2> QED
    BY <2>1, <2>2
<1>6. upper_bound = (node - (node % Pow2[e])) + (Pow2[e] - 1)
  BY <1>5 DEF upper_bound
<1> HIDE DEF e
<1>7. node % Pow2[e] \in Nat
  BY <1>1, <1>3, DivMod
<1>8. low <= node /\ (node - (node % Pow2[e])) + (Pow2[e] - 1) <= high
  BY <1>1, <1>3, <1>4, <1>6, <1>7
<1> QED
  BY <1>2, <1>8 DEF e

\* A call that returns false leaves the string inside the node.
LEMMA ReturnFalseKeepsRInv ==
    ASSUME TInv, RInv, result = "running", ReturnFalse
    PROVE  RInv'
<1>1. /\ stack' = Tail(stack) /\ result' = IF Len(stack) = 1 THEN "false" ELSE "running"
      /\ p' = (IF passing = "reference" THEN node ELSE p)
      /\ UNCHANGED <<passing, keys, bfs, low, high, leaf, min_accept>>
  BY DEF ReturnFalse, Share, filter
<1>2. /\ Len(stack') = Len(stack) - 1 /\ Len(stack) \in Nat \ {0} /\ top = stack[1]
      /\ \A n \in 1 .. Len(stack) - 1 : stack'[n] = stack[n + 1]
      /\ stack' \in Seq(Calls)
  BY <1>1, TopCall, StackAfter
<1>3. ASSUME NEW n \in 1 .. Len(stack')
      PROVE  n + 1 \in 1 .. Len(stack) /\ stack'[n] = stack[n + 1]
  BY <1>2
<1>4. DoubtsFirst'
  <2> SUFFICES ASSUME NEW n \in 1 .. Len(stack'), NEW m \in 1 .. n, stack'[n].fn = "doubt"
               PROVE  stack'[m].fn = "doubt"
    BY DEF DoubtsFirst
  <2>1. m \in 1 .. Len(stack') /\ m + 1 \in 1 .. n + 1
    BY <1>2
  <2> QED
    BY <1>3, <2>1 DEF RInv, DoubtsFirst
<1>5. DoubtStaysInside'
  <2> SUFFICES ASSUME passing = "reference", stack' # << >>, stack'[1].fn = "doubt"
               PROVE  \E e \in 0 .. levels_ : StaysInside(e)'
    BY <1>1 DEF DoubtStaysInside
  <2>1. 1 \in 1 .. Len(stack')
    BY <1>2, EmptySeq
  <2>2. top.fn = "doubt" /\ stack # << >>
    <3>1. 2 \in 1 .. Len(stack) /\ stack[2].fn = "doubt" /\ 1 \in 1 .. 2
      BY <1>3, <2>1
    <3> QED
      BY <1>2, <3>1, TopCall DEF RInv, DoubtsFirst
  <2>3. PICK e \in 0 .. levels_ : StaysInside(e)
    BY <1>2, <2>2 DEF RInv, DoubtStaysInside
  <2>4. low <= node /\ (node - (node % Pow2[e])) + (Pow2[e] - 1) <= high
    BY <2>2, <2>3, NodeStaysInside
  <2>5. \A n \in 1 .. Len(stack') : stack'[n].fn = "doubt" =>
            Width(stack'[n]) <= e /\ (stack'[n].right => Width(stack'[n]) < e)
    BY <1>3, <2>3 DEF StaysInside
  <2>6. StaysInside(e)'
    BY <1>1, <2>4, <2>5 DEF StaysInside, Width
  <2> QED
    BY <2>6
<1> QED
  BY <1>1, <1>4, <1>5 DEF RInv, AcceptedLeafInRange

\* So do its two calls: they set no bit before the node's own.
LEMMA RecurseKeepsRInv ==
    ASSUME TInv, RInv, result = "running", top.l <= levels_, Recurse(top.fn)
    PROVE  RInv'
<1> DEFINE a == Child(top.fn, FALSE)
           b == Child(top.fn, TRUE)
<1>1. /\ stack' = <<a, b>> \o Tail(stack) /\ p' = (IF passing = "reference" THEN node ELSE p)
      /\ UNCHANGED <<passing, keys, bfs, low, high, result, leaf, min_accept>>
  BY DEF Recurse, Share, filter
<1>2. /\ a \in Calls /\ b \in Calls /\ top.l \in 1 .. levels_
      /\ a.fn = top.fn /\ a.l = top.l + 1 /\ ~a.right
      /\ b.fn = top.fn /\ b.l = top.l + 1 /\ b.right
  <2>1. top.fn \in {"range_query", "doubt"} /\ top.l \in 1 .. levels_
    BY TopCall, LevelsAssumption
  <2>2. /\ a \in Calls /\ a.fn = top.fn /\ a.l = top.l + 1 /\ a.right = FALSE
        /\ b \in Calls /\ b.fn = top.fn /\ b.l = top.l + 1 /\ b.right = TRUE
    BY <2>1, ChildrenAreCalls
  <2> HIDE DEF a, b
  <2> QED
    BY <2>1, <2>2
<1> HIDE DEF a, b
<1>3. /\ Len(stack') = Len(stack) + 1 /\ stack'[1] = a /\ stack'[2] = b
      /\ Len(stack) \in Nat \ {0} /\ top = stack[1] /\ stack # << >>
      /\ \A n \in 3 .. Len(stack) + 1 : stack'[n] = stack[n - 1]
  BY <1>1, <1>2, TopCall, StackAfter
<1>4. ASSUME NEW n \in 1 .. Len(stack')
      PROVE  \/ n \in {1, 2} /\ stack'[n] \in {a, b}
             \/ /\ n \in 3 .. Len(stack) + 1 /\ n - 1 \in 1 .. Len(stack)
                /\ stack'[n] = stack[n - 1]
  BY <1>3
<1>5. DoubtsFirst'
  <2> SUFFICES ASSUME NEW n \in 1 .. Len(stack'), NEW m \in 1 .. n, stack'[n].fn = "doubt"
               PROVE  stack'[m].fn = "doubt"
    BY DEF DoubtsFirst
  <2>1. m \in 1 .. Len(stack')
    BY <1>3
  <2>2. top.fn = "doubt"
    <3>1. CASE n \in {1, 2} /\ stack'[n] \in {a, b}
      BY <1>2, <3>1
    <3>2. CASE n - 1 \in 1 .. Len(stack) /\ stack'[n] = stack[n - 1]
      <4>1. 1 \in 1 .. n - 1
        BY <3>2
      <4> QED
        BY <1>3, <3>2, <4>1 DEF RInv, DoubtsFirst
    <3> QED
      BY <1>4, <3>1, <3>2
  <2>3. CASE m \in {1, 2} /\ stack'[m] \in {a, b}
    BY <1>2, <2>2, <2>3
  <2>4. CASE m \in 3 .. Len(stack) + 1
    <3>1. /\ n - 1 \in 1 .. Len(stack) /\ stack'[n] = stack[n - 1]
          /\ m - 1 \in 1 .. n - 1 /\ stack'[m] = stack[m - 1]
      BY <1>3, <1>4, <2>1, <2>4
    <3> QED
      BY <3>1 DEF RInv, DoubtsFirst
  <2> QED
    BY <1>4, <2>1, <2>3, <2>4
<1>6. DoubtStaysInside'
  <2> SUFFICES ASSUME passing = "reference", stack'[1].fn = "doubt"
               PROVE  \E e \in 0 .. levels_ : StaysInside(e)'
    BY <1>1 DEF DoubtStaysInside
  <2>1. top.fn = "doubt"
    BY <1>2, <1>3
  <2>2. PICK e \in 0 .. levels_ : StaysInside(e)
    BY <1>3, <2>1 DEF RInv, DoubtStaysInside
  <2>3. /\ low <= node /\ (node - (node % Pow2[e])) + (Pow2[e] - 1) <= high
        /\ Width(top) <= e
    BY <2>1, <2>2, NodeStaysInside
  <2>4. Width(a) < e /\ Width(b) < e
    <3>1. levels_ \in Nat /\ top.l \in Nat /\ levels_ - top.l + 1 <= e
      BY <1>2, <2>3, LevelsAssumption DEF Width
    <3>2. levels_ - (top.l + 1) + 1 < e
      BY <3>1
    <3> QED
      BY <1>2, <3>2 DEF Width
  <2>5. ASSUME NEW n \in 1 .. Len(stack'), stack'[n].fn = "doubt"
        PROVE  Width(stack'[n]) <= e /\ (stack'[n].right => Width(stack'[n]) < e)
    <3>1. CASE stack'[n] \in {a, b}
      <4>1. Width(a) \in Int /\ Width(b) \in Int
        BY <1>2, LevelsAssumption DEF Width
      <4> QED
        BY <2>4, <3>1, <4>1
    <3>2. CASE n - 1 \in 1 .. Len(stack) /\ stack'[n] = stack[n - 1]
      BY <2>2, <2>5, <3>2 DEF StaysInside
    <3> QED
      BY <1>4, <3>1, <3>2
  <2>6. StaysInside(e)'
    BY <1>1, <2>3, <2>5 DEF StaysInside, Width
  <2> QED
    BY <2>6
<1> QED
  BY <1>1, <1>5, <1>6 DEF RInv, AcceptedLeafInRange

LEMMA StepKeepsRInv ==
    ASSUME TInv, RInv, Step
    PROVE  RInv'
<1>1. CASE RangeDisjoint
  BY <1>1, ReturnFalseKeepsRInv DEF RangeDisjoint, Running
<1>2. CASE RangeContained
  <2> DEFINE c == [fn |-> "doubt", l |-> top.l, own |-> node, right |-> FALSE]
  <2>1. /\ result = "running" /\ top.fn = "range_query" /\ Contained
        /\ stack' = <<c>> \o Tail(stack) /\ p' = (IF passing = "reference" THEN node ELSE p)
        /\ UNCHANGED <<passing, keys, bfs, low, high, result, leaf, min_accept>>
    BY <1>2 DEF RangeContained, Running, Share, filter
  <2>2. c \in Calls /\ c.fn = "doubt" /\ c.right = FALSE /\ c.l = top.l
    BY <2>1, TopCall DEF Calls
  <2>3. PICK e \in 0 .. levels_ :
          /\ e = levels_ - top.l + 1
          /\ low <= node /\ (node - (node % Pow2[e])) + (Pow2[e] - 1) <= high
    BY <2>1, ContainedIsInside
  <2>4. Width(c) = e
    BY <2>2, <2>3 DEF Width
  <2> HIDE DEF c
  <2>5. /\ Len(stack') = Len(stack) /\ stack'[1] = c /\ Len(stack) \in Nat \ {0}
        /\ \A n \in 2 .. Len(stack) : stack'[n] = stack[n]
        /\ top = stack[1]
    BY <2>1, <2>2, TopCall, StackAfter
  <2>6. ASSUME NEW n \in 2 .. Len(stack)
        PROVE  stack'[n].fn # "doubt"
    <3>1. n \in 1 .. Len(stack) /\ 1 \in 1 .. n
      OBVIOUS
    <3> QED
      BY <2>1, <2>5, <3>1 DEF RInv, DoubtsFirst
  <2>7. \A n \in 1 .. Len(stack') : stack'[n].fn = "doubt" => n = 1
    BY <2>5, <2>6
  <2>8. DoubtsFirst'
    <3> SUFFICES ASSUME NEW n \in 1 .. Len(stack'), NEW m \in 1 .. n, stack'[n].fn = "doubt"
                 PROVE  stack'[m].fn = "doubt"
      BY DEF DoubtsFirst
    <3>1. n = 1 /\ m = 1
      BY <2>7
    <3> QED
      BY <3>1
  <2>9. DoubtStaysInside'
    <3> SUFFICES ASSUME passing = "reference"
                 PROVE  StaysInside(e)'
      BY <2>1, <2>3 DEF DoubtStaysInside
    <3>1. p' = node /\ low' = low /\ high' = high
      BY <2>1
    <3>2. Width(c) <= e /\ ~c.right
      BY <2>2, <2>3, <2>4
    <3>3. \A n \in 1 .. Len(stack') : stack'[n].fn = "doubt" =>
              Width(stack'[n]) <= e /\ (stack'[n].right => Width(stack'[n]) < e)
      BY <2>5, <2>7, <3>2
    <3> QED
      BY <2>3, <3>1, <3>3 DEF StaysInside, Width
  <2> QED
    BY <2>1, <2>8, <2>9 DEF RInv, AcceptedLeafInRange
<1>3. CASE RangeSplit
  <2>1. result = "running" /\ top.fn = "range_query" /\ Recurse("range_query") /\ top.l <= levels_
    BY <1>3, SplitsAboveLeaves DEF RangeSplit, Running
  <2> QED
    BY <2>1, RecurseKeepsRInv
<1>4. CASE DoubtUndefined
  <2>1. stack' = << >> /\ Len(stack') = 0 /\ result' = "undefined"
    BY <1>4 DEF DoubtUndefined
  <2> QED
    BY <2>1 DEF RInv, DoubtsFirst, DoubtStaysInside, AcceptedLeafInRange
<1>5. CASE DoubtRejected
  BY <1>5, ReturnFalseKeepsRInv DEF DoubtRejected, Running
<1>6. CASE DoubtAccepted
  <2>1. /\ result = "running" /\ top.fn = "doubt" /\ top.l > levels_ /\ Vouched
        /\ stack' = << >> /\ Len(stack') = 0 /\ leaf' = node
        /\ UNCHANGED <<passing, keys, bfs, low, high>>
    BY <1>6 DEF DoubtAccepted, Running, filter
  <2>2. ASSUME passing = "reference"
        PROVE  low <= node /\ node <= high /\ node \in bfs[levels_ - 1]
    <3>1. /\ stack # << >> /\ top = stack[1] /\ node \in Nat /\ high \in Nat
          /\ top.l = levels_ + 1
      BY <2>1, TopCall, LevelsAssumption
    <3>2. PICK e \in 0 .. levels_ : StaysInside(e)
      BY <2>1, <2>2, <3>1 DEF RInv, DoubtStaysInside
    <3>3. low <= node /\ (node - (node % Pow2[e])) + (Pow2[e] - 1) <= high
      BY <2>1, <2>2, <3>2, NodeStaysInside
    <3>4. node <= high
      <4> DEFINE m == Pow2[e]
      <4>1. m \in Nat \ {0}
        BY Pow2Assumption
      <4>2. (node - (node % m)) + (m - 1) <= high
        BY <3>3
      <4> HIDE DEF m
      <4>3. node % m \in Nat /\ node % m < m
        BY <3>1, <4>1, DivMod
      <4> QED
        BY <3>1, <4>1, <4>2, <4>3
    <3>5. node \in bfs[levels_ - 1]
      <4>1. top.l - 2 = levels_ - 1
        BY <3>1, LevelsAssumption
      <4>2. levels_ - (levels_ - 1) - 1 = 0
        BY LevelsAssumption
      <4>3. Prefix(node, levels_ - 1) = node - (node % 1) /\ node % 1 = 0
        <5>1. node % 1 = 0
          BY <3>1, SMTT(30)
        <5> QED
          BY <4>2, <5>1, Pow2Assumption DEF Prefix
      <4>4. Prefix(node, levels_ - 1) = node
        BY <3>1, <4>3
      <4> QED
        BY <2>1, <4>1, <4>4 DEF Vouched
    <3> QED
      BY <3>3, <3>4, <3>5
  <2>3. DoubtsFirst' /\ DoubtStaysInside'
    BY <2>1 DEF DoubtsFirst, DoubtStaysInside
  <2> QED
    BY <2>1, <2>2, <2>3 DEF RInv, AcceptedLeafInRange
<1>7. CASE DoubtSplit
  <2>1. result = "running" /\ top.fn = "doubt" /\ Recurse("doubt") /\ top.l <= levels_
    BY <1>7 DEF DoubtSplit, Running
  <2> QED
    BY <2>1, RecurseKeepsRInv
<1> QED
  BY <1>1, <1>2, <1>3, <1>4, <1>5, <1>6, <1>7 DEF Step

LEMMA LeafByReference ==
    Spec => []RInv
<1>1. Init => RInv
  <2> SUFFICES ASSUME Init
               PROVE  RInv
    OBVIOUS
  <2>1. stack = << >> /\ Len(stack) = 0 /\ result = "empty"
    BY DEF Init
  <2> QED
    BY <2>1 DEF RInv, DoubtsFirst, DoubtStaysInside, AcceptedLeafInRange
<1>2. TInv /\ RInv /\ [Next]_vars => RInv'
  <2> SUFFICES ASSUME TInv, RInv, [Next]_vars
               PROVE  RInv'
    OBVIOUS
  <2>1. CASE Construct
    <3>1. stack' = << >> /\ Len(stack') = 0 /\ result' = "ready"
      BY <2>1 DEF Construct, TInv, TypeOK
    <3> QED
      BY <3>1 DEF RInv, DoubtsFirst, DoubtStaysInside, AcceptedLeafInRange
  <2>2. CASE Ask
    <3> DEFINE c == [fn |-> "range_query", l |-> 1, own |-> 0, right |-> FALSE]
    <3>1. stack' = <<c>> /\ result' = "running" /\ c.fn = "range_query"
      BY <2>2 DEF Ask
    <3> HIDE DEF c
    <3>2. Len(stack') = 1 /\ stack'[1] = c
      BY <3>1
    <3>3. \A n \in 1 .. Len(stack') : stack'[n].fn # "doubt"
      BY <3>1, <3>2
    <3>4. DoubtsFirst' /\ DoubtStaysInside' /\ AcceptedLeafInRange'
      BY <3>1, <3>2, <3>3 DEF DoubtsFirst, DoubtStaysInside, AcceptedLeafInRange
    <3> QED
      BY <3>4 DEF RInv
  <2>3. CASE Step
    BY <2>3, StepKeepsRInv
  <2>4. CASE UNCHANGED vars
    BY <2>4 DEF vars, RInv, DoubtsFirst, DoubtStaysInside, StaysInside, Width,
                AcceptedLeafInRange
  <2> QED
    BY <2>1, <2>2, <2>3, <2>4 DEF Next
<1> QED
  BY <1>1, <1>2, TypesHold, PTL DEF Spec

----------------------------------------------------------------------------
(* What follows for the caller of the string search.                       *)

\* Every variable keeps its type: the recursion goes no deeper than the last
\* level, the shared string stays a string of levels_ bits however many bits are
\* left set in it, and the string seek returns has no zero byte.
THEOREM TypesCorrect ==
    Spec => []TypeOK
<1>1. TInv => TypeOK
  BY DEF TInv
<1> QED
  BY <1>1, TypesHold, PTL

\* The string search with p passed by value is the integer search.
LEMMA MappedSearch ==
    Spec => Search!Spec
<1> QED
  BY InitByValue, NextByValue, TypesHold, SearchInvariantHolds, PTL DEF Spec, Search!Spec

\* With p passed by value range_query never denies a range that holds a key.
THEOREM NoFalseNegativesByValue ==
    Spec => []NoFalseNegativeByValue
<1>1. Spec => []Search!NoFalseNegative
  BY MappedSearch, Search!NoFalseNegatives, SameDomains, LevelsAssumption, Pow2Assumption,
     KeySetsAssumption, SpuriousAssumption
<1>2. Search!NoFalseNegative => NoFalseNegativeByValue
  BY DEF Search!NoFalseNegative, Search!KeysInRange, NoFalseNegativeByValue, NoFalseNegative,
         KeysInRange, ByValue
<1> QED
  BY <1>1, <1>2, PTL

\* However p was shared on the way, the leaf a query comes to lies in the range
\* and the last filter vouches for it.
THEOREM AcceptedLeavesInRange ==
    Spec => []AcceptedLeafInRange
<1>1. Spec => []Search!AnswerIsLeastVouched
  BY MappedSearch, Search!AnswersAreLeastVouched, SameDomains, LevelsAssumption,
     Pow2Assumption, KeySetsAssumption, SpuriousAssumption
<1>2. TypeOK /\ RInv /\ Search!AnswerIsLeastVouched => AcceptedLeafInRange
  <2> SUFFICES ASSUME TypeOK, RInv, Search!AnswerIsLeastVouched
               PROVE  AcceptedLeafInRange
    OBVIOUS
  <2>1. CASE passing # "value"
    BY <2>1, PassingsAssumption DEF TypeOK, RInv
  <2>2. CASE passing = "value"
    <3> SUFFICES ASSUME result = "true"
                 PROVE  low <= leaf /\ leaf <= high /\ leaf \in bfs[levels_ - 1]
      BY DEF AcceptedLeafInRange
    <3>1. Search!VouchedBy(bfs, leaf)
      BY <2>2, Seen DEF Search!AnswerIsLeastVouched
    <3>2. /\ low <= leaf /\ leaf <= high
          /\ \A i \in Level : Search!InsideRange(leaf, i) => Search!Mask(leaf, i) \in bfs[i]
      BY <2>2, <3>1, Seen, SameDomains DEF Search!VouchedBy
    <3>3. levels_ - 1 \in Level /\ levels_ - (levels_ - 1) - 1 = 0
      BY LevelsAssumption DEF Level
    <3>4. leaf \in Nat /\ low \in Nat /\ high \in Nat
      BY DEF TypeOK, Word
    <3>5. Search!Mask(leaf, levels_ - 1) = leaf
      <4>1. leaf % 1 = 0
        BY <3>4, SMTT(30)
      <4>2. leaf - (leaf % 1) = leaf
        BY <3>4, <4>1
      <4> QED
        BY <3>3, <4>2, Pow2Assumption DEF Search!Mask
    <3>6. Search!InsideRange(leaf, levels_ - 1)
      <4>1. leaf + 1 - 1 = leaf
        BY <3>4
      <4> QED
        BY <2>2, <3>2, <3>3, <3>4, <3>5, <4>1, Seen, Pow2Assumption DEF Search!InsideRange
    <3> QED
      BY <3>2, <3>3, <3>5, <3>6
  <2> QED
    BY <2>1, <2>2
<1>3. Spec => [](TypeOK /\ RInv)
  BY TypesCorrect, LeafByReference, PTL
<1> QED
  BY <1>1, <1>2, <1>3, PTL

----------------------------------------------------------------------------
(* The string that seek returns.                                           *)

\* The number that the first bytes of str spell, one byte after the other.
AddsBytes(str, f) ==
    /\ f \in [0 .. Len(str) -> Nat]
    /\ f[0] = 0
    /\ \A i \in 1 .. Len(str) : f[i] = f[i - 1] + str[i] * Place(i)

LEMMA str2BitArrayAdds ==
    ASSUME NEW str \in Seq(Bytes), Len(str) <= NumBytes
    PROVE  \E f : AddsBytes(str, f) /\ str2BitArray(str) = f[Len(str)]
<1> DEFINE N == Len(str)
           Next1(i, x) == x + str[i] * Pow2[levels_ - i * ByteBits]
           Defines(f) == f = [i \in 0 .. Len(str) |-> IF i = 0 THEN 0 ELSE Next1(i, f[i - 1])]
           ret == CHOOSE f : Defines(f)
<1>1. N \in Nat /\ NumBytes \in Nat
  BY BytesFit, LenProperties
<1>2. ASSUME NEW i \in 1 .. N, NEW x \in Nat
      PROVE  Next1(i, x) \in Nat
  <2>1. Pow2[levels_ - i * ByteBits] \in Nat
    BY <1>1, BytesFit DEF Place
  <2>2. str[i] \in Nat
    <3>1. str[i] \in Bytes
      BY ElementOfSeq
    <3> QED
      BY <3>1 DEF Bytes
  <2>3. \A y, z \in Nat : x + y * z \in Nat
    OBVIOUS
  <2> QED
    BY <2>1, <2>2, <2>3
<1> DEFINE g == [y \in (1 .. N) \X Nat |-> Next1(y[1], y[2])]
<1>3. ASSUME NEW i \in 1 .. N, NEW x \in Nat
      PROVE  g[<<i, x>>] = Next1(i, x) /\ g[<<i, x>>] \in Nat
  <2>1. g[<<i, x>>] = Next1(i, x)
    OBVIOUS
  <2> QED
    BY <1>2, <2>1
<1> HIDE DEF g
<1>4. StaysIn(g, N, Nat)
  <2> HIDE DEF N, Next1
  <2>1. ASSUME NEW i \in 1 .. N, NEW x \in Nat
        PROVE  g[<<i, x>>] \in Nat
    BY <1>3
  <2> QED
    BY <2>1, Zenon DEF StaysIn
<1> HIDE DEF Next1
<1>5. PICK f \in [0 .. N -> Nat] : Continues(f, N, 0, g)
  BY <1>1, <1>4, RecursiveFunction
<1>6. ASSUME NEW i \in 1 .. N
      PROVE  f[i] = Next1(i, f[i - 1])
  <2>1. i - 1 \in 0 .. N /\ f[i - 1] \in Nat
    BY <1>1, <1>5
  <2> QED
    BY <1>3, <1>5, <2>1 DEF Continues
<1>7. f[0] = 0
  BY <1>5 DEF Continues
<1>8. Defines(f)
  <2>1. ASSUME NEW i \in 0 .. N
        PROVE  f[i] = IF i = 0 THEN 0 ELSE Next1(i, f[i - 1])
    <3>1. i = 0 \/ i \in 1 .. N
      BY <1>1
    <3> QED
      BY <1>6, <1>7, <3>1
  <2> QED
    BY <1>5, <2>1
<1>9. Defines(ret)
  BY <1>8, Zenon
<1>10. str2BitArray(str) = ret[Len(str)]
  BY DEF str2BitArray, Next1
<1> HIDE DEF ret
<1>11. ASSUME NEW i \in 0 .. N
       PROVE  ret[i] = IF i = 0 THEN 0 ELSE Next1(i, ret[i - 1])
  BY <1>9
<1> DEFINE P == {i \in Nat : i <= N => ret[i] = f[i]}
<1>12. 0 \in P
  <2>1. 0 \in 0 .. N
    BY <1>1
  <2> QED
    BY <1>7, <1>11, <2>1
<1>13. ASSUME NEW i \in P
       PROVE  i + 1 \in P
  <2> SUFFICES ASSUME i + 1 <= N
               PROVE  ret[i + 1] = f[i + 1]
    OBVIOUS
  <2>1. i + 1 \in 1 .. N /\ i + 1 \in 0 .. N /\ i + 1 # 0 /\ (i + 1) - 1 = i /\ ret[i] = f[i]
    BY <1>1
  <2> QED
    BY <1>6, <1>11, <2>1
<1>14. P \subseteq Nat
  OBVIOUS
<1>15. N \in P
  <2> HIDE DEF P
  <2> QED
    BY <1>1, <1>12, <1>13, <1>14, SetInduction
<1>16. ret[N] = f[N]
  BY <1>15
<1>17. AddsBytes(str, f)
  BY <1>5, <1>6, <1>7 DEF AddsBytes, Next1, Place
<1> QED
  BY <1>10, <1>16, <1>17

\* One more byte adds what it is worth at its place.
LEMMA str2BitArrayAppend ==
    ASSUME NEW str \in Seq(Bytes), Len(str) < NumBytes, NEW b \in Bytes
    PROVE  /\ str2BitArray(str) \in Nat
           /\ str2BitArray(Append(str, b)) = str2BitArray(str) + b * Place(Len(str) + 1)
<1> DEFINE more == Append(str, b)
           n == Len(str)
<1>1. /\ n \in Nat /\ NumBytes \in Nat /\ more \in Seq(Bytes) /\ Len(more) = n + 1
      /\ \A i \in 1 .. n : more[i] = str[i]
      /\ more[n + 1] = b
  BY BytesFit, LenProperties, AppendProperties
<1> HIDE DEF more
<1>2. PICK f : AddsBytes(str, f) /\ str2BitArray(str) = f[n]
  BY <1>1, str2BitArrayAdds
<1>3. PICK h : AddsBytes(more, h) /\ str2BitArray(more) = h[n + 1]
  BY <1>1, str2BitArrayAdds
<1> HIDE DEF n
<1> DEFINE P == {i \in Nat : i <= n => h[i] = f[i]}
<1>4. 0 \in P
  BY <1>2, <1>3 DEF AddsBytes
<1>5. ASSUME NEW i \in P
      PROVE  i + 1 \in P
  <2> SUFFICES ASSUME i + 1 <= n
               PROVE  h[i + 1] = f[i + 1]
    OBVIOUS
  <2>1. i + 1 \in 1 .. n /\ i + 1 \in 1 .. n + 1 /\ (i + 1) - 1 = i /\ h[i] = f[i]
    BY <1>1
  <2>2. f[i + 1] = f[i] + str[i + 1] * Place(i + 1)
    BY <1>2, <2>1 DEF AddsBytes, n
  <2>3. h[i + 1] = h[i] + more[i + 1] * Place(i + 1)
    BY <1>1, <1>3, <2>1 DEF AddsBytes
  <2> QED
    BY <1>1, <2>1, <2>2, <2>3
<1>6. P \subseteq Nat
  OBVIOUS
<1>7. h[n] = f[n]
  <2>1. n \in P
    <3> HIDE DEF P
    <3> QED
      BY <1>1, <1>4, <1>5, <1>6, SetInduction
  <2> QED
    BY <2>1
<1>8. h[n + 1] = h[n] + b * Place(n + 1)
  <2>1. n + 1 \in 1 .. n + 1 /\ (n + 1) - 1 = n
    BY <1>1
  <2> QED
    BY <1>1, <1>3, <2>1 DEF AddsBytes
<1>9. f[n] \in Nat
  BY <1>1, <1>2 DEF AddsBytes, n
<1> QED
  BY <1>2, <1>3, <1>7, <1>8, <1>9 DEF n, more

LEMMA str2BitArrayEmpty ==
    str2BitArray(<< >>) = 0
<1>1. << >> \in Seq(Bytes) /\ Len(<< >>) = 0 /\ 0 <= NumBytes
  BY BytesFit
<1>2. PICK f : AddsBytes(<< >>, f) /\ str2BitArray(<< >>) = f[Len(<< >>)]
  BY <1>1, str2BitArrayAdds
<1> QED
  BY <1>1, <1>2 DEF AddsBytes

\* Powers of two are multiplied by adding their exponents.
LEMMA Pow2Sum ==
    ASSUME NEW m \in Nat, NEW n \in Nat, m + n <= levels_
    PROVE  Pow2[m + n] = Pow2[m] * Pow2[n]
<1> DEFINE P == {d \in Nat : m + d <= levels_ => Pow2[m + d] = Pow2[m] * Pow2[d]}
<1> USE LevelsAssumption, Pow2Assumption
<1>1. 0 \in P
  <2>1. m + 0 = m /\ (m <= levels_ => Pow2[m] \in Nat)
    OBVIOUS
  <2> QED
    BY <2>1
<1>2. ASSUME NEW d \in P
      PROVE  d + 1 \in P
  <2> SUFFICES ASSUME m + (d + 1) <= levels_
               PROVE  Pow2[m + (d + 1)] = Pow2[m] * Pow2[d + 1]
    OBVIOUS
  <2>1. m + d \in Level /\ d \in Level /\ m + (d + 1) = (m + d) + 1
    BY DEF Level
  <2>2. Pow2[m + (d + 1)] = 2 * Pow2[m + d] /\ Pow2[d + 1] = 2 * Pow2[d]
    BY <2>1
  <2>3. Pow2[m + d] = Pow2[m] * Pow2[d]
    BY <2>1 DEF Level
  <2>4. Pow2[m] \in Nat /\ Pow2[d] \in Nat
    BY <2>1 DEF Level
  <2>5. \A x, y \in Nat : 2 * (x * y) = x * (2 * y)
    BY SMTT(30)
  <2> QED
    BY <2>2, <2>3, <2>4, <2>5
<1>3. P \subseteq Nat
  OBVIOUS
<1>4. n \in P
  <2> HIDE DEF P
  <2> QED
    BY <1>1, <1>2, <1>3, SetInduction
<1> QED
  BY <1>4

\* A byte further to the left is worth as many times more as there are bytes.
LEMMA PlaceBefore ==
    ASSUME NEW i \in 1 .. NumBytes
    PROVE  /\ Pow2[ByteBits] \in Nat \ {0} /\ Pow2[ByteBits] >= 2
           /\ Place(i - 1) = Pow2[ByteBits] * Place(i)
<1>1. /\ i - 1 \in 0 .. NumBytes /\ i \in 0 .. NumBytes
      /\ levels_ \in Nat \ {0} /\ ByteBits \in Nat \ {0} /\ ByteBits <= levels_
  BY BytesFit, LevelsAssumption, ByteAssumption
<1> DEFINE e == levels_ - i * ByteBits
<1>2. e \in Nat /\ levels_ - (i - 1) * ByteBits \in 0 .. levels_
  BY <1>1, BytesFit
<1>3. levels_ - (i - 1) * ByteBits = ByteBits + e
  <2>1. (i - 1) * ByteBits = i * ByteBits - ByteBits
    BY <1>1, SMTT(30)
  <2>2. i * ByteBits \in Int
    BY <1>1
  <2> QED
    BY <1>1, <2>1, <2>2
<1>4. Pow2[ByteBits + e] = Pow2[ByteBits] * Pow2[e]
  <2> HIDE DEF e
  <2>1. ByteBits + e <= levels_
    BY <1>1, <1>2, <1>3
  <2> QED
    BY <1>1, <1>2, <2>1, Pow2Sum
<1>5. Pow2[ByteBits] \in Nat \ {0}
  BY <1>1, Pow2Assumption
<1>6. Pow2[ByteBits] >= 2
  <2>1. ByteBits - 1 \in Level /\ (ByteBits - 1) + 1 = ByteBits
    BY <1>1 DEF Level
  <2>2. Pow2[ByteBits] = 2 * Pow2[ByteBits - 1]
    BY <2>1, Pow2Assumption
  <2>3. Pow2[ByteBits - 1] \in Nat \ {0}
    BY <1>1, <2>1, Pow2Assumption
  <2> QED
    BY <2>2, <2>3
<1> QED
  BY <1>3, <1>4, <1>5, <1>6 DEF Place

LEMMA PlaceFalls ==
    ASSUME NEW i \in 0 .. NumBytes, NEW j \in 0 .. NumBytes, i <= j
    PROVE  Place(j) <= Place(i)
<1> DEFINE k == levels_ - j * ByteBits
           e == levels_ - i * ByteBits
<1>1. k \in 0 .. levels_ /\ e \in 0 .. levels_ /\ Place(j) \in Nat \ {0} /\ Place(i) \in Nat \ {0}
  BY BytesFit
<1>2. k <= e
  <2>1. i \in Nat /\ j \in Nat /\ ByteBits \in Nat /\ levels_ \in Nat
    BY BytesFit, LevelsAssumption, ByteAssumption
  <2>2. j * ByteBits = i * ByteBits + (j - i) * ByteBits
    BY <2>1, SMTT(30)
  <2>3. (j - i) * ByteBits \in Nat /\ i * ByteBits \in Nat
    BY <2>1, SMTT(30)
  <2> QED
    BY <2>1, <2>2, <2>3
<1> HIDE DEF k, e
<1>3. PICK q \in Nat \ {0} : Pow2[e] = q * Pow2[k]
  BY <1>1, <1>2, Pow2Divides
<1>4. Place(i) = q * Place(j)
  BY <1>3 DEF Place, k, e
<1>5. \A x \in Nat : q * x >= x
  BY SMTT(30)
<1> QED
  BY <1>1, <1>4, <1>5

\* What a multiple of a * q leaves is a multiple of q and what q leaves.
LEMMA ModuloProduct ==
    ASSUME NEW s \in Nat, NEW a \in Nat \ {0}, NEW q \in Nat \ {0}
    PROVE  s - (s % q) = (s - (s % (a * q))) + ((s \div q) % a) * q
<1>1. PICK k \in Nat, r \in Nat : k = s \div q /\ r = s % q /\ s = k * q + r /\ r < q
  BY DivMod
<1>2. PICK c \in Nat, d \in Nat : d = k % a /\ k = c * a + d /\ d < a
  BY DivMod
<1> DEFINE m == a * q
<1>3. m \in Nat \ {0}
  BY SMTT(30)
<1>4. s = c * m + (d * q + r)
  <2>1. (c * a + d) * q = c * m + d * q
    BY SMTT(30)
  <2>2. s = (c * a + d) * q + r
    BY <1>1, <1>2, Zenon
  <2>3. s = (c * m + d * q) + r
    BY <2>1, <2>2, Zenon
  <2>4. c * m \in Nat /\ d * q \in Nat
    BY <1>3
  <2> DEFINE x == c * m
             y == d * q
  <2> HIDE DEF x, y
  <2>5. s = (x + y) + r /\ x \in Nat /\ y \in Nat
    BY <2>3, <2>4, Zenon DEF x, y
  <2>6. s = x + (y + r)
    BY <2>5
  <2> QED
    BY <2>6, Zenon DEF x, y
<1>5. d * q + r < m
  <2>1. (a - 1 - d) * q \in Nat
    BY <1>2, SMTT(30)
  <2>2. m = d * q + q + (a - 1 - d) * q
    BY <1>2, SMTT(30)
  <2>3. d * q \in Nat
    BY <1>2
  <2> QED
    BY <1>1, <2>1, <2>2, <2>3
<1> HIDE DEF m
<1>6. c * m \in Nat /\ d * q \in Nat
  BY <1>3
<1>7. s - (s % m) = c * m
  <2>1. c * m <= s /\ s < c * m + m
    BY <1>1, <1>3, <1>4, <1>5, <1>6
  <2> QED
    BY <1>3, <2>1, MaskBetween
<1>8. s - r = (s - (s % m)) + d * q
  BY <1>4, <1>6, <1>7
<1>9. r = s % q /\ d = (s \div q) % a
  BY <1>1, <1>2, Zenon
<1> QED
  BY <1>8, <1>9, Zenon DEF m

\* What the first i bytes of s are worth.
Front(s, i) == s - (s % Place(i))

LEMMA FrontSteps ==
    ASSUME NEW s \in Word
    PROVE  /\ Front(s, 0) = 0
           /\ Front(s, NumBytes) = s
           /\ \A i \in 1 .. NumBytes : Front(s, i) = Front(s, i - 1) + Byte(s, i) * Place(i)
           /\ \A i \in 0 .. NumBytes : Front(s, i) \in Nat
<1>1. s \in Nat /\ s < Pow2[levels_] /\ levels_ \in Nat /\ ByteBits \in Nat
  <2>1. levels_ \in Nat /\ Pow2[levels_] \in Nat
    BY LevelsAssumption, Pow2Assumption
  <2>2. ByteBits \in Nat
    BY <2>1, ByteAssumption
  <2> QED
    BY <2>1, <2>2 DEF Word
<1>2. Place(0) = Pow2[levels_] /\ Pow2[levels_] \in Nat \ {0}
  <2>1. levels_ - 0 * ByteBits = levels_
    BY <1>1
  <2> QED
    BY <1>1, <2>1, Pow2Assumption DEF Place
<1>3. Place(NumBytes) = 1
  <2>1. levels_ - NumBytes * ByteBits = 0
    BY <1>1, BytesFit
  <2> QED
    BY <2>1, Pow2Assumption DEF Place
<1>4. Front(s, 0) = 0
  <2>1. 0 * Pow2[levels_] = 0
    BY <1>2
  <2>2. 0 * Pow2[levels_] <= s /\ s < 0 * Pow2[levels_] + Pow2[levels_]
    BY <1>1, <1>2, <2>1
  <2>3. s - (s % Pow2[levels_]) = 0
    BY <1>1, <1>2, <2>1, <2>2, MaskBetween
  <2> QED
    BY <1>2, <2>3 DEF Front
<1>5. Front(s, NumBytes) = s
  <2>1. s % 1 = 0
    BY <1>1, SMTT(30)
  <2> QED
    BY <1>1, <1>3, <2>1 DEF Front
<1>6. ASSUME NEW i \in 1 .. NumBytes
      PROVE  Front(s, i) = Front(s, i - 1) + Byte(s, i) * Place(i)
  <2>1. Pow2[ByteBits] \in Nat \ {0} /\ Place(i) \in Nat \ {0}
        /\ Place(i - 1) = Pow2[ByteBits] * Place(i)
    <3>1. i \in 0 .. NumBytes
      BY BytesFit
    <3> QED
      BY <3>1, PlaceBefore, BytesFit
  <2>2. s - (s % Place(i))
           = (s - (s % (Pow2[ByteBits] * Place(i)))) + ((s \div Place(i)) % Pow2[ByteBits]) * Place(i)
    BY <1>1, <2>1, ModuloProduct
  <2>3. Byte(s, i) = (s \div Place(i)) % Pow2[ByteBits]
    BY DEF Byte, Place
  <2> QED
    BY <2>1, <2>2, <2>3 DEF Front
<1>7. ASSUME NEW i \in 0 .. NumBytes
      PROVE  Front(s, i) \in Nat
  <2>1. Place(i) \in Nat \ {0}
    BY BytesFit
  <2>2. s \div Place(i) \in Nat /\ s = (s \div Place(i)) * Place(i) + (s % Place(i))
        /\ s % Place(i) \in Nat
    BY <1>1, <2>1, DivMod
  <2>3. (s \div Place(i)) * Place(i) \in Nat
    BY <2>1, <2>2
  <2> QED
    BY <2>2, <2>3 DEF Front
<1> QED
  BY <1>4, <1>5, <1>6, <1>7

\* A zero byte, and one that has another byte behind it, among the first i bytes.
Zero(s, i) == \E j \in 1 .. i : Byte(s, j) = 0

Gap(s, i) == \E j, k \in 1 .. i : j < k /\ Byte(s, j) = 0 /\ Byte(s, k) # 0

\* str, made of the first i bytes of s, is worth what they are, or more when a
\* byte has moved to the left over a zero byte.
Worth(s, i, str) ==
    /\ Len(str) <= i
    /\ Len(str) = i <=> ~Zero(s, i)
    /\ str2BitArray(str) \in Nat
    /\ IF Gap(s, i) THEN str2BitArray(str) > Front(s, i)
                    ELSE str2BitArray(str) = Front(s, i)

LEMMA ZeroByteKeepsWorth ==
    ASSUME NEW s \in Word, NEW i \in 1 .. NumBytes, NEW str \in Seq(Bytes),
           Worth(s, i - 1, str), Byte(s, i) = 0
    PROVE  Worth(s, i, str)
<1>1. i \in Nat \ {0} /\ i \in 0 .. NumBytes /\ i - 1 \in 0 .. NumBytes /\ Len(str) \in Nat
  BY BytesFit, LenProperties
<1>2. Front(s, i) = Front(s, i - 1)
  <2>1. Front(s, i) = Front(s, i - 1) + Byte(s, i) * Place(i) /\ Front(s, i - 1) \in Nat
    BY <1>1, FrontSteps
  <2>2. Byte(s, i) * Place(i) = 0
    <3>1. Place(i) \in Nat
      BY <1>1, BytesFit
    <3>2. 0 * Place(i) = 0
      BY <3>1
    <3> QED
      BY <3>2
  <2> QED
    BY <2>1, <2>2
<1>3. Zero(s, i)
  BY <1>1 DEF Zero
<1>4. Gap(s, i) <=> Gap(s, i - 1)
  <2>1. ASSUME NEW k \in 1 .. i, Byte(s, k) # 0
        PROVE  k \in 1 .. i - 1
    <3>1. k # i
      BY <2>1
    <3> QED
      BY <1>1, <3>1
  <2>2. ASSUME NEW k \in 1 .. i - 1, NEW j \in 1 .. i, j < k
        PROVE  j \in 1 .. i - 1
    BY <1>1, <2>2
  <2>3. 1 .. i - 1 \subseteq 1 .. i
    BY <1>1
  <2> QED
    BY <2>1, <2>2, <2>3 DEF Gap
<1>5. Len(str) <= i /\ Len(str) # i
  BY <1>1 DEF Worth
<1> QED
  BY <1>2, <1>3, <1>4, <1>5 DEF Worth

LEMMA OtherByteKeepsWorth ==
    ASSUME NEW s \in Word, NEW i \in 1 .. NumBytes, NEW str \in Seq(Bytes),
           Worth(s, i - 1, str), Byte(s, i) # 0
    PROVE  Worth(s, i, Append(str, Byte(s, i)))
<1> DEFINE b == Byte(s, i)
           n == Len(str)
           v == str2BitArray(str)
           w == str2BitArray(Append(str, b))
<1>1. /\ i \in Nat \ {0} /\ i \in 0 .. NumBytes /\ i - 1 \in 0 .. NumBytes
      /\ n \in Nat /\ n <= i - 1 /\ n < NumBytes /\ n + 1 \in 0 .. NumBytes
  <2>1. i \in Nat \ {0} /\ NumBytes \in Nat /\ n \in Nat
    BY BytesFit, LenProperties
  <2>2. n <= i - 1
    BY DEF Worth
  <2> HIDE DEF n
  <2> QED
    BY <2>1, <2>2
<1>2. b \in Bytes /\ b \in Nat \ {0}
  <2>1. b \in Nat /\ b < Pow2[ByteBits] /\ b # 0
    BY ByteFits
  <2>2. Pow2[ByteBits] \in Nat
    BY PlaceBefore
  <2> HIDE DEF b
  <2> QED
    BY <2>1, <2>2 DEF Bytes
<1>3. v \in Nat /\ w = v + b * Place(n + 1)
  <2> HIDE DEF b
  <2> QED
    BY <1>1, <1>2, str2BitArrayAppend
<1>4. Front(s, i) = Front(s, i - 1) + b * Place(i) /\ Front(s, i - 1) \in Nat
  BY <1>1, FrontSteps
<1>5. Append(str, b) \in Seq(Bytes) /\ Len(Append(str, b)) = n + 1
  <2> HIDE DEF b
  <2> QED
    BY <1>2, AppendProperties
<1>6. Place(n + 1) \in Nat /\ Place(i) \in Nat /\ b * Place(n + 1) \in Nat /\ b * Place(i) \in Nat
  <2>1. Place(n + 1) \in Nat /\ Place(i) \in Nat
    BY <1>1, BytesFit
  <2> HIDE DEF b, n
  <2> QED
    BY <1>2, <2>1
<1>7. n = i - 1 <=> ~Zero(s, i - 1)
  BY DEF Worth
<1>8. IF Gap(s, i - 1) THEN v > Front(s, i - 1) ELSE v = Front(s, i - 1)
  BY DEF Worth
<1>9. Byte(s, i) # 0
  OBVIOUS
<1> HIDE DEF b, n, v, w
<1>10. CASE n = i - 1
  <2>1. ASSUME NEW j \in 1 .. i
        PROVE  Byte(s, j) # 0
    <3>1. j = i \/ j \in 1 .. i - 1
      BY <1>1
    <3> QED
      BY <1>7, <1>9, <1>10, <3>1 DEF Zero
  <2>2. ~Zero(s, i) /\ ~Gap(s, i) /\ ~Gap(s, i - 1)
    <3>1. 1 .. i - 1 \subseteq 1 .. i
      BY <1>1
    <3> QED
      BY <2>1, <3>1 DEF Zero, Gap
  <2>3. n + 1 = i
    BY <1>1, <1>10
  <2>4. w = Front(s, i)
    BY <1>3, <1>4, <1>8, <2>2, <2>3
  <2>5. w \in Nat
    BY <1>3, <1>6
  <2> QED
    BY <1>1, <1>5, <2>2, <2>3, <2>4, <2>5 DEF Worth, b, w
<1>11. CASE n < i - 1
  <2>1. n # i - 1 /\ n + 1 <= i - 1
    BY <1>1, <1>11
  <2>2. PICK j \in 1 .. i - 1 : Byte(s, j) = 0
    BY <1>7, <2>1 DEF Zero
  <2>3. j \in 1 .. i /\ i \in 1 .. i /\ j < i
    BY <1>1
  <2>4. Zero(s, i) /\ Gap(s, i)
    BY <1>9, <2>2, <2>3 DEF Zero, Gap
  <2>5. v >= Front(s, i - 1)
    BY <1>3, <1>4, <1>8
  <2>6. Place(n + 1) > Place(i)
    <3>1. Place(i - 1) <= Place(n + 1)
      BY <1>1, <2>1, PlaceFalls
    <3>2. /\ Pow2[ByteBits] \in Nat /\ Pow2[ByteBits] >= 2
          /\ Place(i - 1) = Pow2[ByteBits] * Place(i)
          /\ Place(i) \in Nat \ {0}
      BY <1>1, PlaceBefore, BytesFit
    <3>3. \A x \in Nat, y \in Nat \ {0} : x >= 2 => x * y > y
      BY SMTT(30)
    <3>4. Place(i - 1) > Place(i)
      BY <3>2, <3>3
    <3>5. Place(i - 1) \in Nat
      BY <1>1, BytesFit
    <3> QED
      BY <1>6, <3>1, <3>4, <3>5
  <2>7. b * Place(n + 1) > b * Place(i)
    <3>1. \A x \in Nat \ {0}, y, z \in Nat : y > z => x * y > x * z
      BY SMTT(30)
    <3> QED
      BY <1>2, <1>6, <2>6, <3>1
  <2>8. w > Front(s, i) /\ w \in Nat
    BY <1>3, <1>4, <1>6, <2>5, <2>7
  <2>9. n + 1 <= i /\ n + 1 # i
    BY <1>1, <2>1
  <2> QED
    BY <1>5, <2>4, <2>8, <2>9 DEF Worth, b, w
<1> QED
  BY <1>1, <1>10, <1>11

\* The round trip of a key of levels_ bits through bytes.
LEMMA RoundTrip ==
    ASSUME NEW s \in Word
    PROVE  IF Gap(s, NumBytes) THEN str2BitArray(bitArray2Str(s)) > s
                               ELSE str2BitArray(bitArray2Str(s)) = s
<1>1. PICK ret : KeepsBytes(s, ret) /\ bitArray2Str(s) = ret[NumBytes]
  BY bitArray2StrKeeps
<1> DEFINE P == {i \in Nat : i <= NumBytes => Worth(s, i, ret[i])}
<1>2. 0 \in P
  <2>1. ret[0] = << >> /\ Len(<< >>) = 0 /\ Front(s, 0) = 0 /\ 1 .. 0 = {}
    BY <1>1, FrontSteps DEF KeepsBytes
  <2> QED
    BY <2>1, str2BitArrayEmpty DEF Worth, Zero, Gap
<1>3. ASSUME NEW i \in P
      PROVE  i + 1 \in P
  <2> SUFFICES ASSUME i + 1 <= NumBytes
               PROVE  Worth(s, i + 1, ret[i + 1])
    OBVIOUS
  <2>1. i \in 0 .. NumBytes /\ i + 1 \in 1 .. NumBytes /\ (i + 1) - 1 = i /\ Worth(s, i, ret[i])
    BY BytesFit
  <2>2. /\ ret[i] \in Seq(Bytes)
        /\ ret[i + 1] = IF Byte(s, i + 1) # 0 THEN Append(ret[i], Byte(s, i + 1)) ELSE ret[i]
    BY <1>1, <2>1 DEF KeepsBytes
  <2>3. CASE Byte(s, i + 1) = 0
    BY <2>1, <2>2, <2>3, ZeroByteKeepsWorth
  <2>4. CASE Byte(s, i + 1) # 0
    BY <2>1, <2>2, <2>4, OtherByteKeepsWorth
  <2> QED
    BY <2>3, <2>4
<1>4. P \subseteq Nat
  OBVIOUS
<1>5. NumBytes \in P
  <2> HIDE DEF P
  <2> QED
    BY <1>2, <1>3, <1>4, BytesFit, SetInduction
<1>6. Worth(s, NumBytes, bitArray2Str(s))
  BY <1>1, <1>5, BytesFit
<1> QED
  BY <1>6, FrontSteps DEF Worth

\* The string seek returns is made of the leaf it stopped at.
StringOfLeaf == result = "true" => min_accept = bitArray2Str(leaf)

LEMMA StringOfLeafHolds ==
    Spec => []StringOfLeaf
<1>1. Init => StringOfLeaf
  BY DEF Init, StringOfLeaf
<1>2. TypeOK /\ StringOfLeaf /\ [Next]_vars => StringOfLeaf'
  <2> SUFFICES ASSUME TypeOK, StringOfLeaf, [Next]_vars
               PROVE  StringOfLeaf'
    OBVIOUS
  <2>1. CASE Construct
    BY <2>1 DEF Construct, StringOfLeaf
  <2>2. CASE Ask
    BY <2>2 DEF Ask, StringOfLeaf
  <2>3. ASSUME ReturnFalse \/ Recurse("range_query") \/ Recurse("doubt"), result = "running"
        PROVE  StringOfLeaf'
    BY <2>3 DEF ReturnFalse, Recurse, StringOfLeaf
  <2>4. CASE RangeDisjoint \/ RangeSplit \/ DoubtRejected \/ DoubtSplit
    BY <2>3, <2>4 DEF RangeDisjoint, RangeSplit, DoubtRejected, DoubtSplit, Running
  <2>5. CASE RangeContained
    BY <2>5 DEF RangeContained, Running, StringOfLeaf
  <2>6. CASE DoubtUndefined
    BY <2>6 DEF DoubtUndefined, StringOfLeaf
  <2>7. CASE DoubtAccepted
    BY <2>7 DEF DoubtAccepted, bitArray2Str, Byte, NumBytes, StringOfLeaf
  <2>8. CASE UNCHANGED vars
    BY <2>8 DEF vars, bitArray2Str, Byte, NumBytes, StringOfLeaf
  <2> QED
    BY <2>1, <2>2, <2>4, <2>5, <2>6, <2>7, <2>8 DEF Next, Step
<1> QED
  BY <1>1, <1>2, TypesCorrect, PTL DEF Spec

\* The string seek returns, read back as a key, is the leaf the query stopped at
\* unless the leaf has a zero byte before another byte; then it is a greater key,
\* and a scan that starts from it starts too late.
THEOREM SeekStringsNameLeaves ==
    Spec => []SeekStringNamesLeaf
<1>1. TypeOK /\ StringOfLeaf => SeekStringNamesLeaf
  <2> SUFFICES ASSUME TypeOK, min_accept = bitArray2Str(leaf)
               PROVE  IF Gap(leaf, NumBytes) THEN str2BitArray(min_accept) > leaf
                                             ELSE str2BitArray(min_accept) = leaf
    BY DEF StringOfLeaf, SeekStringNamesLeaf, Gap
  <2>1. leaf \in Word
    BY DEF TypeOK
  <2> QED
    BY <2>1, RoundTrip
<1> QED
  BY <1>1, TypesCorrect, StringOfLeafHolds, PTL

=============================================================================

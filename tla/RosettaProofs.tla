---------------------------- MODULE RosettaProofs ---------------------------
(***************************************************************************)
(* The integer search of RosettaU64, and the filters of ElasticRosetta     *)
(* through all their lives, are right for every number of levels and       *)
(* units, every key set, every behaviour of the Bloom filters and every    *)
(* range.                                                                  *)
(*                                                                         *)
(* For one search the argument is TilingInvariant: the pending calls tile  *)
(* the key space from the first of them to its end, so dropping the first  *)
(* call loses only its own node, and a node is dropped only when it lies   *)
(* outside the range or when a filter, which never denies the prefix of a  *)
(* key, denies its prefix.                                                 *)
(*                                                                         *)
(* A filter keeps its promise through all its lives: built, asked, given   *)
(* more keys, written, deleted and read back with some of its units.  The  *)
(* search invariants carry over: a life changes keys and filters only      *)
(* between queries, when no call is pending, so only FiltersHoldKeys has   *)
(* to be shown again.  It follows from what the units and the image hold.  *)
(* The first Rosetta leaves the search of RosettaU64 when a shift          *)
(* overflows an int; on a narrow range it never does.                      *)
(***************************************************************************)
EXTENDS ElasticRosetta, SequenceTheorems, Induction

----------------------------------------------------------------------------
(* Arithmetic.                                                             *)

\* The remainder is zero exactly on multiples.
LEMMA MultipleHasNoRemainder ==
    ASSUME NEW m \in Nat \ {0}, NEW k \in Nat, NEW q \in Int, k = q * m
    PROVE  k % m = 0
  BY SMTT(30)

LEMMA NoRemainderIsMultiple ==
    ASSUME NEW m \in Nat \ {0}, NEW k \in Nat, k % m = 0
    PROVE  \E q \in Int : k = q * m
<1> DEFINE q == k \div m
<1>1. k = m * q + (k % m)
  BY SMTT(30)
<1>2. q \in Int
  BY SMTT(30)
<1> HIDE DEF q
<1>3. k = q * m
  BY <1>1, <1>2
<1>. QED
  BY <1>2, <1>3

\* Both halves of an aligned node are aligned.
LEMMA HalvesAligned ==
    ASSUME NEW h \in Nat \ {0}, NEW p \in Nat, p % (2 * h) = 0
    PROVE  p % h = 0 /\ (p + h) % h = 0
<1>0. 2 * h \in Nat \ {0}
  OBVIOUS
<1>1. PICK q \in Int : p = q * (2 * h)
  BY <1>0, NoRemainderIsMultiple
<1>2. p = (2 * q) * h /\ p + h = (2 * q + 1) * h
  BY <1>1
<1>. QED
  BY <1>2, MultipleHasNoRemainder

\* Masking any word of an aligned node gives the node's first word.
LEMMA MaskInNode ==
    ASSUME NEW m \in Nat \ {0}, NEW p \in Nat, NEW k \in Nat,
           p % m = 0, p <= k, k < p + m
    PROVE  k - (k % m) = p
  BY SMTT(30)

LEMMA MaskSmaller ==
    ASSUME NEW m \in Nat \ {0}, NEW k \in Nat
    PROVE  k - (k % m) \in 0 .. k
  BY SMTT(30)

\* The widths of the nodes, as range_query and doubt compute them.
LEMMA SizeFacts ==
    /\ Size(1) = MaxWord + 1
    /\ Size(levels_ + 1) = 1
    /\ MaxWord \in Nat
    /\ \A l \in 1 .. levels_ + 1 : Size(l) \in Nat \ {0} /\ pow_1(l) = Size(l) - 1
    /\ \A l \in 1 .. levels_ :
         Size(l) = 2 * Size(l + 1) /\ pow_r_1(l) = Size(l + 1)
<1>. USE LevelsAssumption, Pow2Assumption
<1>1. Size(1) = MaxWord + 1 /\ Size(levels_ + 1) = 1 /\ MaxWord \in Nat
  BY DEF Size, MaxWord
<1>2. ASSUME NEW l \in 1 .. levels_ + 1
      PROVE  Size(l) \in Nat \ {0} /\ pow_1(l) = Size(l) - 1
  BY DEF Size, pow_1, MaxWord
<1>3. ASSUME NEW l \in 1 .. levels_
      PROVE  Size(l) = 2 * Size(l + 1) /\ pow_r_1(l) = Size(l + 1)
  <2>1. levels_ - l \in Level /\ levels_ - l + 1 = (levels_ - l) + 1
    BY DEF Level
  <2>2. Pow2[levels_ - l + 1] = 2 * Pow2[levels_ - l]
    BY <2>1
  <2>3. levels_ - (l + 1) + 1 = levels_ - l
    OBVIOUS
  <2>. QED
    BY <2>2, <2>3 DEF Size, pow_r_1
<1>. QED
  BY <1>1, <1>2, <1>3

\* u64 addition does not wrap inside the key space.
LEMMA AddInside ==
    ASSUME NEW a \in Nat, NEW b \in Nat, a + b <= MaxWord
    PROVE  Add(a, b) = a + b
<1>1. ASSUME NEW m \in Nat \ {0}, NEW c \in Nat, c < m
      PROVE  c % m = c
  BY <1>1, SMTT(30)
<1>2. Pow2[levels_] \in Nat \ {0} /\ a + b < Pow2[levels_]
  BY LevelsAssumption, Pow2Assumption DEF MaxWord
<1>. QED
  BY <1>1, <1>2 DEF Add

----------------------------------------------------------------------------
(* The call stack.                                                         *)

\* Dropping, replacing and splitting the first element of a sequence.
LEMMA DropTop ==
    ASSUME NEW S, NEW s \in Seq(S), s # << >>
    PROVE  /\ Tail(s) \in Seq(S)
           /\ Len(Tail(s)) = Len(s) - 1
           /\ \A n \in 1 .. Len(s) - 1 : Tail(s)[n] = s[n + 1]
  BY HeadTailProperties

LEMMA ReplaceTop ==
    ASSUME NEW S, NEW s \in Seq(S), s # << >>, NEW a \in S,
           NEW t, t = <<a>> \o Tail(s)
    PROVE  /\ t \in Seq(S)
           /\ Len(t) = Len(s)
           /\ t[1] = a
           /\ \A n \in 2 .. Len(s) : t[n] = s[n]
<1>1. Len(s) \in Nat \ {0}
  BY EmptySeq
<1>2. <<a>> \in Seq(S) /\ Len(<<a>>) = 1 /\ <<a>>[1] = a
  OBVIOUS
<1>3. /\ t \in Seq(S)
      /\ Len(t) = Len(s)
      /\ \A n \in 1 .. Len(s) : t[n] = IF n <= 1 THEN <<a>>[n] ELSE Tail(s)[n - 1]
  BY <1>1, <1>2, DropTop, ConcatProperties
<1>4. ASSUME NEW n \in 2 .. Len(s)
      PROVE  t[n] = s[n]
  <2>1. n - 1 \in 1 .. Len(s) - 1 /\ (n - 1) + 1 = n /\ ~(n <= 1)
    BY <1>1
  <2>. QED
    BY <1>3, <2>1, DropTop
<1>. QED
  BY <1>1, <1>2, <1>3, <1>4

LEMMA SplitTop ==
    ASSUME NEW S, NEW s \in Seq(S), s # << >>, NEW a \in S, NEW b \in S,
           NEW t, t = <<a, b>> \o Tail(s)
    PROVE  /\ t \in Seq(S)
           /\ Len(t) = Len(s) + 1
           /\ t[1] = a
           /\ t[2] = b
           /\ \A n \in 3 .. Len(s) + 1 : t[n] = s[n - 1]
<1>1. Len(s) \in Nat \ {0}
  BY EmptySeq
<1>2. /\ <<a, b>> \in Seq(S) /\ Len(<<a, b>>) = 2
      /\ <<a, b>>[1] = a /\ <<a, b>>[2] = b
  OBVIOUS
<1>3. /\ t \in Seq(S)
      /\ Len(t) = Len(s) + 1
      /\ \A n \in 1 .. Len(s) + 1 :
            t[n] = IF n <= 2 THEN <<a, b>>[n] ELSE Tail(s)[n - 2]
  BY <1>1, <1>2, DropTop, ConcatProperties
<1>4. ASSUME NEW n \in 3 .. Len(s) + 1
      PROVE  t[n] = s[n - 1]
  <2>1. n - 2 \in 1 .. Len(s) - 1 /\ (n - 2) + 1 = n - 1 /\ ~(n <= 2)
    BY <1>1
  <2>. QED
    BY <1>3, <2>1, DropTop
<1>. QED
  BY <1>1, <1>2, <1>3, <1>4

\* The invariant: the search invariant and the properties it maintains.
IInv ==
    /\ TypeOK
    /\ TilingInvariant
    /\ NoFalseNegative
    /\ SeekIsLowerBound
    /\ UndefinedOnlyOnWholeRange

\* The first pending call, and the bounds range_query computes for it.
LEMMA TopNode ==
    ASSUME IInv, result = "running"
    PROVE  /\ stack # << >> /\ Len(stack) \in Nat \ {0}
           /\ top = stack[1] /\ top \in Calls
           /\ top.p \in Nat /\ top.l \in 1 .. levels_ + 1
           /\ Size(top.l) \in Nat \ {0}
           /\ top.p % Size(top.l) = 0
           /\ End(top) <= MaxWord + 1
           /\ Add(top.p, pow_1(top.l)) = End(top) - 1
           /\ low \in Nat /\ high \in Nat
           /\ keys \in SUBSET Nat
<1>1. stack # << >> /\ stack \in Seq(Calls) /\ Len(stack) \in Nat \ {0}
  BY EmptySeq DEF IInv, TypeOK
<1>2. top = stack[1] /\ top \in Calls
  BY <1>1, HeadTailProperties DEF top
<1>3. top.p \in Nat /\ top.l \in 1 .. levels_ + 1 /\ Word \subseteq Nat
  BY <1>2, SizeFacts DEF Calls, Word
<1>4. 1 \in 1 .. Len(stack)
  BY <1>1
<1>5. top.p % Size(top.l) = 0 /\ End(top) <= Pow2[levels_]
  BY <1>2, <1>4 DEF IInv, TilingInvariant, NodesAligned
<1>6. Size(top.l) \in Nat \ {0} /\ pow_1(top.l) = Size(top.l) - 1
  BY <1>3, SizeFacts
<1>7. Pow2[levels_] = MaxWord + 1
  BY LevelsAssumption, Pow2Assumption DEF MaxWord
<1>8. Add(top.p, pow_1(top.l)) = End(top) - 1
  BY <1>3, <1>5, <1>6, <1>7, SizeFacts, AddInside DEF End
<1>. QED
  BY <1>1, <1>2, <1>3, <1>5, <1>6, <1>7, <1>8 DEF IInv, TypeOK

----------------------------------------------------------------------------
(* The three things a step does to the call stack.                         *)

\* A call that returns false loses its node only, and there was nothing there.
LEMMA ReturnFalseKeepsIInv ==
    ASSUME IInv, result = "running", ReturnFalse,
           ~(low = 0 /\ high = MaxWord),
           \A k \in KeysInRange : k < top.p \/ End(top) <= k
    PROVE  IInv'
<1> DEFINE t == Tail(stack)
<1>1. /\ t \in Seq(Calls) /\ Len(t) = Len(stack) - 1
      /\ \A n \in 1 .. Len(stack) - 1 : t[n] = stack[n + 1]
      /\ Len(stack) \in Nat \ {0} /\ top = stack[1]
  BY TopNode, DropTop DEF IInv, TypeOK
<1>2. /\ stack' = t
      /\ result' = IF Len(stack) = 1 THEN "false" ELSE "running"
      /\ UNCHANGED <<keys, bfs, low, high, min_accept>>
  BY DEF ReturnFalse
<1> HIDE DEF t
<1>3. ASSUME NEW k \in KeysInRange
      PROVE  End(top) <= k /\ k \in Nat /\ k <= MaxWord
  <2>1. top.p <= k
    BY <1>1, TopNode DEF IInv, TilingInvariant, NothingBehind
  <2>2. k \in Nat /\ k <= MaxWord
    BY SizeFacts DEF KeysInRange, IInv, TypeOK, Word
  <2>. QED
    BY <2>1, <2>2, TopNode
<1>4. End(top) = IF Len(stack) = 1 THEN Pow2[levels_] ELSE stack[2].p
  BY <1>1 DEF IInv, TilingInvariant, CallsCoverTheRest
<1>5. TypeOK'
  <2>1. stack' # << >> <=> Len(stack) # 1
    BY <1>1, <1>2, EmptySeq
  <2>. QED
    BY <1>1, <1>2, <2>1 DEF IInv, TypeOK, Results
<1>6. TilingInvariant'
  <2>1. FiltersHoldKeys'
    BY <1>2 DEF IInv, TilingInvariant, FiltersHoldKeys
  <2>2. ASSUME NEW n \in 1 .. Len(stack')
        PROVE  /\ n + 1 \in 1 .. Len(stack)
               /\ stack'[n] = stack[n + 1]
               /\ n # Len(stack') => stack'[n + 1] = stack[(n + 1) + 1]
               /\ n = Len(stack') <=> n + 1 = Len(stack)
    BY <1>1, <1>2
  <2>3. NodesAligned'
    BY <2>2 DEF IInv, TilingInvariant, NodesAligned, End
  <2>4. CallsCoverTheRest'
    BY <2>2 DEF IInv, TilingInvariant, CallsCoverTheRest, End
  <2>5. NothingBehind'
    <3> SUFFICES ASSUME stack' # << >>, NEW k \in KeysInRange
                 PROVE  stack'[1].p <= k
      BY <1>2 DEF NothingBehind, KeysInRange
    <3>1. Len(stack') \in Nat \ {0}
      BY <1>1, <1>2, EmptySeq
    <3>2. stack'[1] = stack[2] /\ Len(stack) # 1
      BY <3>1, <1>1, <1>2
    <3>. QED
      BY <3>2, <1>3, <1>4
  <2>6. DoubtInside'
    BY <1>2, <2>2 DEF IInv, TilingInvariant, DoubtInside, End
  <2>7. WholeRangeAtRoot'
    BY <1>2 DEF WholeRangeAtRoot
  <2>. QED
    BY <2>1, <2>3, <2>4, <2>5, <2>6, <2>7 DEF TilingInvariant
<1>7. NoFalseNegative'
  <2> SUFFICES ASSUME Len(stack) = 1, NEW k \in KeysInRange
               PROVE  FALSE
    BY <1>2 DEF NoFalseNegative, KeysInRange
  <2>1. End(top) = MaxWord + 1
    BY <1>4, LevelsAssumption, Pow2Assumption DEF MaxWord
  <2>. QED
    BY <1>3, <2>1, SizeFacts
<1>8. SeekIsLowerBound' /\ UndefinedOnlyOnWholeRange'
  BY <1>2 DEF SeekIsLowerBound, UndefinedOnlyOnWholeRange
<1>. QED
  BY <1>5, <1>6, <1>7, <1>8 DEF IInv

\* range_query hands a node inside the range to doubt.
LEMMA ContainedKeepsIInv ==
    ASSUME IInv, RangeContained
    PROVE  IInv'
<1> DEFINE c == [top EXCEPT !.fn = "doubt"]
<1>1. result = "running" /\ Contained(top.p, top.l)
      /\ stack' = <<c>> \o Tail(stack)
      /\ UNCHANGED <<keys, bfs, low, high, result, min_accept>>
  BY DEF RangeContained, Running
<1>2. stack # << >> /\ Len(stack) \in Nat \ {0} /\ top = stack[1] /\ top \in Calls
  BY <1>1, TopNode
<1>3. c \in Calls /\ c.p = top.p /\ c.l = top.l /\ End(c) = End(top)
  BY <1>2 DEF Calls, End
<1>4. stack \in Seq(Calls)
  BY DEF IInv, TypeOK
<1> HIDE DEF c
<1>5. /\ stack' \in Seq(Calls) /\ Len(stack') = Len(stack)
      /\ stack'[1] = c /\ \A n \in 2 .. Len(stack) : stack'[n] = stack[n]
  BY <1>1, <1>2, <1>3, <1>4, ReplaceTop
<1>6. stack' # << >>
  BY <1>2, <1>5
<1>7. ASSUME NEW n \in 1 .. Len(stack)
      PROVE  /\ stack'[n].p = stack[n].p /\ stack'[n].l = stack[n].l
             /\ End(stack'[n]) = End(stack[n])
             /\ n # 1 => stack'[n] = stack[n]
  <2>1. CASE n = 1
    BY <2>1, <1>2, <1>3, <1>5
  <2>2. CASE n # 1
    BY <2>2, <1>2, <1>5
  <2>. QED
    BY <2>1, <2>2
<1>8. TypeOK'
  BY <1>1, <1>2, <1>5, <1>6 DEF IInv, TypeOK
<1>9. TilingInvariant'
  <2>1. FiltersHoldKeys'
    BY <1>1 DEF IInv, TilingInvariant, FiltersHoldKeys
  <2>2. NodesAligned'
    BY <1>5, <1>7 DEF IInv, TilingInvariant, NodesAligned, End
  <2>3. CallsCoverTheRest'
    <3>1. ASSUME NEW n \in 1 .. Len(stack), n # Len(stack)
          PROVE  n + 1 \in 1 .. Len(stack) /\ stack'[n + 1].p = stack[n + 1].p
      BY <3>1, <1>2, <1>7
    <3>. QED
      BY <1>5, <1>7, <3>1 DEF IInv, TilingInvariant, CallsCoverTheRest, End
  <2>4. NothingBehind'
    <3>1. stack'[1].p = stack[1].p
      BY <1>2, <1>7
    <3>. QED
      BY <1>1, <1>2, <3>1 DEF IInv, TilingInvariant, NothingBehind, KeysInRange
  <2>5. DoubtInside'
    <3>1. low <= top.p /\ End(top) - 1 <= high
      BY <1>1, TopNode DEF Contained
    <3>2. ASSUME NEW n \in 1 .. Len(stack), stack'[n].fn = "doubt"
          PROVE  low <= stack'[n].p /\ End(stack'[n]) - 1 <= high
      <4>1. CASE n = 1
        BY <4>1, <3>1, <1>7, <1>2
      <4>2. CASE n # 1
        BY <4>2, <3>2, <1>7 DEF IInv, TilingInvariant, DoubtInside
      <4>. QED
        BY <4>1, <4>2
    <3>. QED
      BY <1>1, <1>5, <3>2 DEF DoubtInside, End
  <2>6. WholeRangeAtRoot'
    BY <1>1, <1>2, <1>3, <1>5 DEF IInv, TilingInvariant, WholeRangeAtRoot
  <2>. QED
    BY <2>1, <2>2, <2>3, <2>4, <2>5, <2>6 DEF TilingInvariant
<1>10. NoFalseNegative' /\ SeekIsLowerBound' /\ UndefinedOnlyOnWholeRange'
  BY <1>1 DEF NoFalseNegative, SeekIsLowerBound, UndefinedOnlyOnWholeRange
<1>. QED
  BY <1>8, <1>9, <1>10 DEF IInv

\* A call that recurses is replaced by the calls on the halves of its node.
LEMMA RecurseKeepsIInv ==
    ASSUME IInv, result = "running", Recurse, top.l <= levels_,
           ~(low = 0 /\ high = MaxWord)
    PROVE  IInv'
<1> DEFINE h == Size(top.l + 1)
           a == [top EXCEPT !.l = @ + 1]
           b == [top EXCEPT !.p = Add(@, pow_r_1(top.l)), !.l = @ + 1]
<1>1. /\ stack' = <<a, b>> \o Tail(stack)
      /\ UNCHANGED <<keys, bfs, low, high, result, min_accept>>
  BY DEF Recurse, Children
<1>2. /\ stack # << >> /\ Len(stack) \in Nat \ {0} /\ top = stack[1] /\ top \in Calls
      /\ top.p \in Nat /\ top.l \in 1 .. levels_ /\ End(top) <= MaxWord + 1
      /\ top.p % Size(top.l) = 0
  BY TopNode, LevelsAssumption
<1>3. /\ h \in Nat \ {0} /\ Size(top.l) = 2 * h /\ pow_r_1(top.l) = h
      /\ End(top) = top.p + 2 * h
  <2>1. top.l + 1 \in 1 .. levels_ + 1
    BY <1>2, LevelsAssumption
  <2>2. h \in Nat \ {0}
    BY <2>1, SizeFacts
  <2>3. Size(top.l) = 2 * h /\ pow_r_1(top.l) = h
    BY <1>2, SizeFacts
  <2>. QED
    BY <1>2, <2>2, <2>3 DEF End
<1>4. Add(top.p, pow_r_1(top.l)) = top.p + h
  BY <1>2, <1>3, AddInside, SizeFacts
<1>5. /\ a.fn = top.fn /\ a.p = top.p /\ a.l = top.l + 1
      /\ b.fn = top.fn /\ b.p = top.p + h /\ b.l = top.l + 1
  BY <1>2, <1>4 DEF Calls
<1>6. a \in Calls /\ b \in Calls
  <2>1. top.l + 1 \in 1 .. levels_ + 1 /\ top.fn \in {"range_query", "doubt"}
    BY <1>2, LevelsAssumption DEF Calls
  <2>2. top.p \in Word /\ top.p + h \in Word
    BY <1>2, <1>3, SizeFacts DEF Word
  <2>. QED
    BY <1>2, <1>4, <2>1, <2>2 DEF Calls
<1>7. /\ End(a) = top.p + h /\ End(b) = End(top)
      /\ Size(a.l) = h /\ Size(b.l) = h
  BY <1>2, <1>3, <1>5 DEF End
<1>8. a.p % h = 0 /\ b.p % h = 0
  BY <1>2, <1>3, <1>5, HalvesAligned
<1>9. stack \in Seq(Calls)
  BY DEF IInv, TypeOK
<1> HIDE DEF a, b, h
<1>10. /\ stack' \in Seq(Calls) /\ Len(stack') = Len(stack) + 1
       /\ stack'[1] = a /\ stack'[2] = b
       /\ \A n \in 3 .. Len(stack) + 1 : stack'[n] = stack[n - 1]
  BY <1>1, <1>2, <1>6, <1>9, SplitTop
<1>11. stack' # << >>
  BY <1>2, <1>10, EmptySeq
<1>12. Pow2[levels_] = MaxWord + 1
  BY LevelsAssumption, Pow2Assumption DEF MaxWord
<1>13. TypeOK'
  BY <1>1, <1>2, <1>10, <1>11 DEF IInv, TypeOK
<1>14. TilingInvariant'
  <2>1. FiltersHoldKeys'
    BY <1>1 DEF IInv, TilingInvariant, FiltersHoldKeys
  <2>2. ASSUME NEW n \in 3 .. Len(stack) + 1
        PROVE  n - 1 \in 2 .. Len(stack) /\ stack'[n] = stack[n - 1]
    BY <1>2, <1>10
  <2>3. ASSUME NEW n \in 1 .. Len(stack)
        PROVE  /\ stack[n].p % Size(stack[n].l) = 0
               /\ End(stack[n]) <= MaxWord + 1
               /\ End(stack[n]) = IF n = Len(stack) THEN MaxWord + 1
                                                    ELSE stack[n + 1].p
               /\ stack[n].fn = "doubt" =>
                    low <= stack[n].p /\ End(stack[n]) - 1 <= high
    BY <1>12 DEF IInv, TilingInvariant, NodesAligned, CallsCoverTheRest, DoubtInside
  <2>4. NodesAligned'
    <3> SUFFICES ASSUME NEW n \in 1 .. Len(stack) + 1
                 PROVE  /\ stack'[n].p % Size(stack'[n].l) = 0
                        /\ End(stack'[n]) <= MaxWord + 1
      BY <1>10, <1>12 DEF NodesAligned, End, Size
    <3>1. CASE n = 1
      <4>1. End(a) <= MaxWord + 1
        BY <1>2, <1>3, <1>7, SizeFacts
      <4>2. stack'[n] = a
        BY <3>1, <1>10
      <4>. QED
        BY <4>1, <4>2, <1>7, <1>8
    <3>2. CASE n = 2
      BY <3>2, <1>2, <1>3, <1>5, <1>7, <1>8, <1>10
    <3>3. CASE n \in 3 .. Len(stack) + 1
      BY <3>3, <2>2, <2>3
    <3>. QED
      BY <3>1, <3>2, <3>3, <1>2
  <2>5. CallsCoverTheRest'
    <3> SUFFICES ASSUME NEW n \in 1 .. Len(stack) + 1
                 PROVE  End(stack'[n]) = IF n = Len(stack) + 1 THEN MaxWord + 1
                                                            ELSE stack'[n + 1].p
      BY <1>10, <1>12 DEF CallsCoverTheRest, End, Size
    <3>1. CASE n = 1
      BY <3>1, <1>2, <1>5, <1>7, <1>10
    <3>2. CASE n = 2
      <4>1. End(stack'[2]) = End(stack[1])
        BY <1>2, <1>7, <1>10
      <4>2. CASE Len(stack) = 1
        BY <3>2, <4>1, <4>2, <2>3
      <4>3. CASE Len(stack) # 1
        BY <3>2, <4>1, <4>3, <2>3, <2>2, <1>2
      <4>. QED
        BY <4>2, <4>3
    <3>3. CASE n \in 3 .. Len(stack) + 1
      <4>1. CASE n = Len(stack) + 1
        BY <3>3, <4>1, <2>2, <2>3, <1>2
      <4>2. CASE n # Len(stack) + 1
        <5>1. n + 1 \in 3 .. Len(stack) + 1 /\ (n + 1) - 1 = n /\ (n - 1) + 1 = n
          BY <3>3, <4>2, <1>2
        <5>2. stack'[n] = stack[n - 1] /\ stack'[n + 1] = stack[n]
          BY <5>1, <3>3, <1>10
        <5>3. n - 1 \in 1 .. Len(stack) /\ n - 1 # Len(stack)
          BY <3>3, <4>2, <1>2
        <5>4. End(stack[n - 1]) = stack[(n - 1) + 1].p
          BY <5>3, <2>3
        <5>. QED
          BY <4>2, <5>1, <5>2, <5>4
      <4>. QED
        BY <4>1, <4>2
    <3>. QED
      BY <3>1, <3>2, <3>3, <1>2
  <2>6. NothingBehind'
    <3>1. stack'[1].p = stack[1].p
      BY <1>2, <1>5, <1>10
    <3>. QED
      BY <1>1, <1>2, <3>1 DEF IInv, TilingInvariant, NothingBehind, KeysInRange
  <2>7. DoubtInside'
    <3> SUFFICES ASSUME NEW n \in 1 .. Len(stack) + 1, stack'[n].fn = "doubt"
                 PROVE  low <= stack'[n].p /\ End(stack'[n]) - 1 <= high
      BY <1>1, <1>10 DEF DoubtInside, End, Size
    <3>1. top.fn = "doubt" => low <= top.p /\ End(top) - 1 <= high
      BY <1>2, <2>3
    <3>2. CASE n = 1
      BY <3>1, <3>2, <1>2, <1>3, <1>5, <1>7, <1>10, TopNode
    <3>3. CASE n = 2
      BY <3>1, <3>3, <1>2, <1>3, <1>5, <1>7, <1>10, TopNode
    <3>4. CASE n \in 3 .. Len(stack) + 1
      BY <3>4, <2>2, <2>3
    <3>. QED
      BY <3>2, <3>3, <3>4, <1>2
  <2>8. WholeRangeAtRoot'
    BY <1>1 DEF WholeRangeAtRoot
  <2>. QED
    BY <2>1, <2>4, <2>5, <2>6, <2>7, <2>8 DEF TilingInvariant
<1>15. NoFalseNegative' /\ SeekIsLowerBound' /\ UndefinedOnlyOnWholeRange'
  BY <1>1 DEF NoFalseNegative, SeekIsLowerBound, UndefinedOnlyOnWholeRange
<1>. QED
  BY <1>13, <1>14, <1>15 DEF IInv

----------------------------------------------------------------------------
(* The invariant.                                                          *)

LEMMA InitEstablishesIInv ==
    Init => IInv
<1> SUFFICES ASSUME Init
             PROVE  IInv
  OBVIOUS
<1>1. stack = << >> /\ Len(stack) = 0
  BY DEF Init
<1>2. TypeOK
  BY <1>1, SizeFacts DEF Init, TypeOK, Results, Word
<1>3. TilingInvariant
  BY <1>1 DEF Init, TilingInvariant, FiltersHoldKeys, NodesAligned,
              CallsCoverTheRest, NothingBehind, DoubtInside, WholeRangeAtRoot
<1>4. NoFalseNegative /\ SeekIsLowerBound /\ UndefinedOnlyOnWholeRange
  BY DEF Init, NoFalseNegative, SeekIsLowerBound, UndefinedOnlyOnWholeRange
<1>. QED
  BY <1>2, <1>3, <1>4 DEF IInv

\* A constructed filter holds the prefixes of its keys, whatever else the
\* Bloom filters affirm.
LEMMA ConstructKeepsIInv ==
    ASSUME IInv, Construct
    PROVE  IInv'
<1>1. PICK K \in KeySets, F \in Spurious :
         /\ keys' = K
         /\ bfs' = [i \in Level |-> {Mask(k, i) : k \in K}
                                      \cup {w \in Word : <<i, w>> \in F}]
  BY DEF Construct
<1>2. K \in SUBSET Word
  BY KeySetsAssumption
<1>3. /\ result = "empty" /\ result' = "ready"
      /\ UNCHANGED <<low, high, stack, min_accept>>
  BY DEF Construct
<1>4. stack = << >> /\ Len(stack) = 0
  BY <1>3, EmptySeq DEF IInv, TypeOK
<1>5. ASSUME NEW k \in Word, NEW i \in Level
      PROVE  Mask(k, i) \in Word
  <2>1. Pow2[levels_ - i - 1] \in Nat \ {0}
    BY LevelsAssumption, Pow2Assumption DEF Level
  <2>2. k \in Nat /\ k <= MaxWord /\ MaxWord \in Nat
    BY SizeFacts DEF Word
  <2>3. Mask(k, i) \in 0 .. k
    BY <2>1, <2>2, MaskSmaller DEF Mask
  <2>. QED
    BY <2>2, <2>3 DEF Word
<1>6. bfs' \in [Level -> SUBSET Word]
  BY <1>1, <1>2, <1>5
<1>7. TypeOK'
  BY <1>1, <1>2, <1>3, <1>6 DEF IInv, TypeOK, Results
<1>8. TilingInvariant'
  <2>1. FiltersHoldKeys'
    BY <1>1 DEF FiltersHoldKeys, Mask
  <2>. QED
    BY <1>3, <1>4, <2>1 DEF TilingInvariant, NodesAligned, CallsCoverTheRest,
                            NothingBehind, DoubtInside, WholeRangeAtRoot
<1>9. NoFalseNegative' /\ SeekIsLowerBound' /\ UndefinedOnlyOnWholeRange'
  BY <1>3 DEF NoFalseNegative, SeekIsLowerBound, UndefinedOnlyOnWholeRange
<1>. QED
  BY <1>7, <1>8, <1>9 DEF IInv

\* A query starts with one call, on the root, which holds every word.
LEMMA AskKeepsIInv ==
    ASSUME TypeOK, FiltersHoldKeys, Ask
    PROVE  IInv'
<1> DEFINE c == [fn |-> "range_query", p |-> 0, l |-> 1]
<1>1. /\ low' \in Word /\ high' \in Word /\ stack' = <<c>>
      /\ result' = "running" /\ min_accept' = 0 /\ UNCHANGED <<keys, bfs>>
  BY DEF Ask
<1>2. c \in Calls /\ c.fn = "range_query" /\ c.p = 0 /\ c.l = 1
  BY SizeFacts, LevelsAssumption DEF Calls, Word
<1> HIDE DEF c
<1>3. /\ stack' \in Seq(Calls) /\ stack' # << >> /\ Len(stack') = 1
      /\ stack'[1] = c
  BY <1>1, <1>2
<1>4. End(c) = Pow2[levels_] /\ c.p % Size(c.l) = 0
  <2>1. Size(1) \in Nat \ {0}
    BY SizeFacts, LevelsAssumption
  <2>2. Pow2[levels_] = MaxWord + 1
    BY LevelsAssumption, Pow2Assumption DEF MaxWord
  <2>3. Size(1) = Pow2[levels_] /\ 0 = 0 * Size(1)
    BY <2>1, <2>2, SizeFacts
  <2>. QED
    BY <1>2, <2>1, <2>3, MultipleHasNoRemainder DEF End
<1>5. TypeOK'
  BY <1>1, <1>3, SizeFacts DEF TypeOK, Results, Word
<1>6. TilingInvariant'
  <2>1. FiltersHoldKeys'
    BY <1>1 DEF FiltersHoldKeys
  <2>2. ASSUME NEW n \in 1 .. Len(stack')
        PROVE  n = 1 /\ stack'[n] = c
    BY <1>3
  <2>3. NodesAligned' /\ CallsCoverTheRest'
    <3>1. Pow2[levels_] \in Nat
      BY LevelsAssumption, Pow2Assumption
    <3>. QED
      BY <1>3, <1>4, <2>2, <3>1 DEF NodesAligned, CallsCoverTheRest, End, Size
  <2>4. NothingBehind'
    BY <1>1, <1>2, <1>3, SizeFacts DEF TypeOK, NothingBehind, KeysInRange, Word
  <2>5. DoubtInside' /\ WholeRangeAtRoot'
    BY <1>2, <1>3, <2>2 DEF DoubtInside, WholeRangeAtRoot
  <2>. QED
    BY <2>1, <2>3, <2>4, <2>5 DEF TilingInvariant
<1>7. NoFalseNegative' /\ SeekIsLowerBound' /\ UndefinedOnlyOnWholeRange'
  BY <1>1 DEF NoFalseNegative, SeekIsLowerBound, UndefinedOnlyOnWholeRange
<1>. QED
  BY <1>5, <1>6, <1>7 DEF IInv

\* Each step of a query is one of the three moves above, or ends the query.
LEMMA StepKeepsIInv ==
    ASSUME IInv, Step
    PROVE  IInv'
<1>1. CASE RangeDisjoint
  <2>1. result = "running" /\ ReturnFalse /\ (top.p > high \/ End(top) - 1 < low)
    BY <1>1, TopNode DEF RangeDisjoint, Running, Disjoint
  <2>2. ~(low = 0 /\ high = MaxWord)
    <3> SUFFICES ASSUME low = 0, high = MaxWord
                 PROVE  FALSE
      OBVIOUS
    <3>1. top.p + Size(top.l) <= MaxWord + 1
      BY <2>1, TopNode DEF End
    <3>. QED
      BY <2>1, <3>1, TopNode, SizeFacts DEF End
  <2>3. ASSUME NEW k \in KeysInRange
        PROVE  k < top.p \/ End(top) <= k
    BY <2>1, TopNode DEF KeysInRange, End
  <2>. QED
    BY <2>1, <2>2, <2>3, ReturnFalseKeepsIInv
<1>2. CASE RangeContained
  BY <1>2, ContainedKeepsIInv
<1>3. CASE RangeSplit
  <2>1. result = "running" /\ Recurse /\ ~Disjoint(top.p, top.l) /\ ~Contained(top.p, top.l)
    BY <1>3 DEF RangeSplit, Running
  <2>2. /\ ~(top.p > high) /\ ~(End(top) - 1 < low)
        /\ ~(top.p >= low /\ End(top) - 1 <= high)
    BY <2>1, TopNode DEF Disjoint, Contained
  <2>3. top.l <= levels_
    <3>1. top.l # levels_ + 1
      BY <2>1, <2>2, TopNode, SizeFacts DEF End
    <3>. QED
      BY <2>1, <3>1, TopNode, LevelsAssumption
  <2>4. ~(low = 0 /\ high = MaxWord)
    BY <2>1, <2>2, TopNode, SizeFacts DEF End
  <2>. QED
    BY <2>1, <2>3, <2>4, RecurseKeepsIInv
<1>4. CASE DoubtUndefined
  <2>1. /\ result = "running" /\ top.fn = "doubt" /\ top.l = 1
        /\ stack' = << >> /\ result' = "undefined"
        /\ UNCHANGED <<keys, bfs, low, high, min_accept>>
    BY <1>4 DEF DoubtUndefined, Running
  <2>2. low = 0 /\ high = MaxWord
    <3>1. low <= top.p /\ End(top) - 1 <= high
      BY <2>1, TopNode DEF IInv, TilingInvariant, DoubtInside
    <3>2. End(top) = top.p + MaxWord + 1 /\ End(top) <= MaxWord + 1
      BY <2>1, TopNode, SizeFacts DEF End
    <3>3. low \in 0 .. MaxWord /\ high \in 0 .. MaxWord
      BY DEF IInv, TypeOK, Word
    <3>. QED
      BY <2>1, <3>1, <3>2, <3>3, TopNode, SizeFacts
  <2>3. TypeOK'
    BY <2>1 DEF IInv, TypeOK, Results
  <2>4. TilingInvariant'
    BY <2>1 DEF IInv, TilingInvariant, FiltersHoldKeys, NodesAligned,
                CallsCoverTheRest, NothingBehind, DoubtInside, WholeRangeAtRoot
  <2>. QED
    BY <2>1, <2>2, <2>3, <2>4
       DEF IInv, NoFalseNegative, SeekIsLowerBound, UndefinedOnlyOnWholeRange, MaxWord
<1>5. CASE DoubtRejected
  <2>1. /\ result = "running" /\ top.l > 1 /\ ReturnFalse
        /\ top.p \notin bfs[top.l - 2]
    BY <1>5 DEF DoubtRejected, Running
  <2>2. ~(low = 0 /\ high = MaxWord)
    BY <2>1, TopNode DEF IInv, TilingInvariant, WholeRangeAtRoot
  <2>3. ASSUME NEW k \in KeysInRange, top.p <= k, k < End(top)
        PROVE  FALSE
    <3>1. top.l - 2 \in Level /\ levels_ - (top.l - 2) - 1 = levels_ - top.l + 1
      BY <2>1, TopNode, LevelsAssumption DEF Level
    <3>2. Mask(k, top.l - 2) = k - (k % Size(top.l))
      BY <3>1 DEF Mask, Size
    <3>3. k \in keys /\ k \in Nat
      BY <2>1, TopNode DEF KeysInRange
    <3>4. Mask(k, top.l - 2) = top.p
      BY <2>1, <2>3, <3>2, <3>3, TopNode, MaskInNode DEF End
    <3>. QED
      BY <2>1, <3>1, <3>3, <3>4 DEF IInv, TilingInvariant, FiltersHoldKeys
  <2>4. ASSUME NEW k \in KeysInRange
        PROVE  k < top.p \/ End(top) <= k
    <3>1. k \in Nat
      BY <2>1, TopNode DEF KeysInRange
    <3>. QED
      BY <2>1, <2>3, <3>1, TopNode DEF End
  <2>. QED
    BY <2>1, <2>2, <2>4, ReturnFalseKeepsIInv
<1>6. CASE DoubtAccepted
  <2>1. /\ result = "running" /\ top.fn = "doubt" /\ top.l > levels_
        /\ min_accept' = top.p /\ result' = "true" /\ stack' = << >>
        /\ UNCHANGED <<keys, bfs, low, high>>
    BY <1>6 DEF DoubtAccepted, Running
  <2>2. top.l = levels_ + 1 /\ End(top) = top.p + 1 /\ top.p \in Word
    <3>1. top.l = levels_ + 1 /\ top \in Calls
      BY <2>1, TopNode, LevelsAssumption
    <3>2. Size(top.l) = 1 /\ top.p \in Word
      BY <3>1, SizeFacts DEF Calls
    <3>. QED
      BY <3>1, <3>2 DEF End
  <2>3. low <= top.p /\ top.p <= high
    BY <2>1, <2>2, TopNode DEF IInv, TilingInvariant, DoubtInside
  <2>4. \A k \in KeysInRange : top.p <= k
    BY <2>1, TopNode DEF IInv, TilingInvariant, NothingBehind
  <2>5. ~(low = 0 /\ high = MaxWord)
    BY <2>1, <2>2, TopNode, LevelsAssumption DEF IInv, TilingInvariant, WholeRangeAtRoot
  <2>6. TypeOK'
    BY <2>1, <2>2 DEF IInv, TypeOK, Results
  <2>7. TilingInvariant'
    BY <2>1 DEF IInv, TilingInvariant, FiltersHoldKeys, NodesAligned,
                CallsCoverTheRest, NothingBehind, DoubtInside, WholeRangeAtRoot
  <2>8. SeekIsLowerBound'
    BY <2>1, <2>3, <2>4 DEF SeekIsLowerBound, KeysInRange
  <2>. QED
    BY <2>1, <2>5, <2>6, <2>7, <2>8
       DEF IInv, NoFalseNegative, UndefinedOnlyOnWholeRange, MaxWord
<1>7. CASE DoubtSplit
  <2>1. result = "running" /\ top.l > 1 /\ top.l <= levels_ /\ Recurse
    BY <1>7 DEF DoubtSplit, Running
  <2>2. ~(low = 0 /\ high = MaxWord)
    BY <2>1, TopNode DEF IInv, TilingInvariant, WholeRangeAtRoot
  <2>. QED
    BY <2>1, <2>2, RecurseKeepsIInv
<1>. QED
  BY <1>1, <1>2, <1>3, <1>4, <1>5, <1>6, <1>7 DEF Step

LEMMA NextKeepsIInv ==
    IInv /\ [Next]_vars => IInv'
<1> SUFFICES ASSUME IInv, [Next]_vars
             PROVE  IInv'
  OBVIOUS
<1>1. CASE Construct
  BY <1>1, ConstructKeepsIInv
<1>2. CASE Ask
  BY <1>2, AskKeepsIInv DEF IInv, TilingInvariant
<1>3. CASE Step
  BY <1>3, StepKeepsIInv
<1>4. CASE UNCHANGED vars
  BY <1>4 DEF vars, IInv, TypeOK, TilingInvariant, FiltersHoldKeys, NodesAligned,
     CallsCoverTheRest, NothingBehind, DoubtInside, WholeRangeAtRoot,
     NoFalseNegative, SeekIsLowerBound, UndefinedOnlyOnWholeRange, KeysInRange, End, Size
<1>. QED
  BY <1>1, <1>2, <1>3, <1>4 DEF Next

\* The invariant holds in every behaviour.
LEMMA InvariantHolds ==
    Spec => []IInv
<1>. QED
  BY InitEstablishesIInv, NextKeepsIInv, PTL DEF Spec

----------------------------------------------------------------------------
(* Why the answer is exact.                                                *)

\* The invariant says what the filters vouch for, and the answer follows it.
VInv == VouchInvariant /\ AnswerIsLeastVouched

\* The first word of the node of level i around p.
LEMMA MaskFacts ==
    ASSUME NEW p \in Nat, NEW i \in Level
    PROVE  /\ levels_ - i - 1 \in 0 .. levels_
           /\ Pow2[levels_ - i - 1] \in Nat \ {0}
           /\ Mask(p, i) \in Nat
           /\ Mask(p, i) <= p
           /\ Mask(p, i) % Pow2[levels_ - i - 1] = 0
<1> DEFINE m == Pow2[levels_ - i - 1]
<1>1. levels_ - i - 1 \in 0 .. levels_ /\ m \in Nat \ {0}
  BY LevelsAssumption, Pow2Assumption DEF Level
<1>2. Mask(p, i) = p - (p % m)
  BY DEF Mask
<1> HIDE DEF m
<1>3. p - (p % m) \in 0 .. p
  BY <1>1, MaskSmaller
<1>4. p - (p % m) = (p \div m) * m /\ p \div m \in Int
  BY <1>1, SMTT(30)
<1>5. (p - (p % m)) % m = 0
  BY <1>1, <1>3, <1>4, MultipleHasNoRemainder
<1> QED
  BY <1>1, <1>2, <1>3, <1>5 DEF m

\* The words of a node have the same first word at every level above.
LEMMA SameAncestor ==
    ASSUME NEW p \in Nat, NEW q \in Nat, NEW i \in Level,
           p <= q, q < Mask(p, i) + Pow2[levels_ - i - 1]
    PROVE  Mask(q, i) = Mask(p, i)
<1>1. Mask(p, i) <= q
  BY MaskFacts
<1> QED
  BY <1>1, MaskFacts, MaskInNode DEF Mask

\* The level that doubt asks about a node is the one whose nodes are as wide.
LEMMA OwnLevel ==
    ASSUME IInv, result = "running", top.l > 1
    PROVE  /\ top.l - 2 \in Level
           /\ Pow2[levels_ - (top.l - 2) - 1] = Size(top.l)
           /\ \A w \in Nat : top.p <= w /\ w < End(top) => Mask(w, top.l - 2) = top.p
<1>1. top.l - 2 \in Level /\ levels_ - (top.l - 2) - 1 = levels_ - top.l + 1
  BY TopNode, LevelsAssumption DEF Level
<1>2. Pow2[levels_ - (top.l - 2) - 1] = Size(top.l)
  BY <1>1 DEF Size
<1>3. ASSUME NEW w \in Nat, top.p <= w, w < End(top)
      PROVE  Mask(w, top.l - 2) = top.p
  <2>1. Mask(w, top.l - 2) = w - (w % Size(top.l))
    BY <1>2 DEF Mask
  <2> QED
    BY <1>3, <2>1, TopNode, MaskInNode DEF End
<1> QED
  BY <1>1, <1>2, <1>3

\* A word is vouched for, or not, as before: the filters and the range are.
LEMMA SameVouched ==
    ASSUME UNCHANGED <<bfs, low, high>>
    PROVE  \A w : VouchedBy(bfs, w)' = VouchedBy(bfs, w)
  BY DEF VouchedBy, InsideRange, Mask

\* A call that returns false loses its node, and no word there is vouched for.
LEMMA ReturnFalseKeepsVInv ==
    ASSUME IInv, VInv, result = "running", ReturnFalse,
           \A w \in Word : VouchedBy(bfs, w) => w < top.p \/ End(top) <= w
    PROVE  VInv'
<1>1. /\ stack' = Tail(stack) /\ Len(stack') = Len(stack) - 1
      /\ \A n \in 1 .. Len(stack) - 1 : stack'[n] = stack[n + 1]
      /\ Len(stack) \in Nat \ {0} /\ top = stack[1]
      /\ stack' \in Seq(Calls)
  BY TopNode, DropTop DEF IInv, TypeOK, ReturnFalse
<1>2. /\ result' = IF Len(stack) = 1 THEN "false" ELSE "running"
      /\ UNCHANGED <<keys, bfs, low, high, min_accept>>
  BY DEF ReturnFalse
<1>3. ASSUME NEW w \in Word, VouchedBy(bfs, w)
      PROVE  End(top) <= w
  <2>1. top.p <= w
    BY <1>1, <1>3, TopNode DEF VInv, VouchInvariant, NothingVouchedBehind
  <2> QED
    BY <1>3, <2>1, TopNode, SizeFacts DEF Word, End
<1>4. End(top) = IF Len(stack) = 1 THEN Pow2[levels_] ELSE stack[2].p
  <2>1. 1 \in 1 .. Len(stack) /\ (1 = Len(stack) <=> Len(stack) = 1)
    BY <1>1
  <2>2. End(stack[1]) = IF 1 = Len(stack) THEN Pow2[levels_] ELSE stack[1 + 1].p
    BY <2>1 DEF IInv, TilingInvariant, CallsCoverTheRest
  <2> QED
    BY <1>1, <2>2
<1>5. \A n \in 1 .. Len(stack') : n + 1 \in 1 .. Len(stack) /\ stack'[n] = stack[n + 1]
  BY <1>1
<1>6. NodesInAncestors'
  BY <1>5 DEF VInv, VouchInvariant, NodesInAncestors, Ancestors, End, Mask
<1>7. AncestorsAsked'
  BY <1>2, <1>5 DEF VInv, VouchInvariant, AncestorsAsked, Ancestors, InsideRange, Mask
<1>8. NothingVouchedBehind'
  <2> SUFFICES ASSUME stack' # << >>, NEW w \in Word, VouchedBy(bfs, w)
               PROVE  stack'[1].p <= w
    BY <1>2, SameVouched DEF NothingVouchedBehind
  <2>1. Len(stack') \in Nat \ {0}
    BY <1>1, EmptySeq
  <2>2. stack'[1] = stack[2] /\ Len(stack) # 1
    BY <2>1, <1>1
  <2> QED
    BY <2>2, <1>3, <1>4
<1>9. AnswerIsLeastVouched'
  <2> SUFFICES ASSUME Len(stack) = 1, NEW w \in Word, VouchedBy(bfs, w)
               PROVE  FALSE
    BY <1>2, SameVouched DEF AnswerIsLeastVouched
  <2>1. End(top) = MaxWord + 1
    BY <1>4, LevelsAssumption, Pow2Assumption DEF MaxWord
  <2> QED
    BY <1>3, <2>1, SizeFacts DEF Word
<1> QED
  BY <1>6, <1>7, <1>8, <1>9 DEF VInv, VouchInvariant

\* A node handed to doubt lies in no wider node inside the range.
LEMMA ContainedKeepsVInv ==
    ASSUME IInv, VInv, RangeContained
    PROVE  VInv'
<1> DEFINE c == [top EXCEPT !.fn = "doubt"]
<1>1. /\ result = "running" /\ top.fn = "range_query"
      /\ stack' = <<c>> \o Tail(stack)
      /\ UNCHANGED <<keys, bfs, low, high, result, min_accept>>
  BY DEF RangeContained, Running
<1>2. /\ stack # << >> /\ Len(stack) \in Nat \ {0} /\ top = stack[1] /\ top \in Calls
      /\ stack \in Seq(Calls)
  BY <1>1, TopNode DEF IInv, TypeOK
<1>3. c \in Calls /\ c.p = top.p /\ c.l = top.l
  BY <1>2 DEF Calls
<1> HIDE DEF c
<1>4. /\ Len(stack') = Len(stack)
      /\ stack'[1] = c /\ \A n \in 2 .. Len(stack) : stack'[n] = stack[n]
  BY <1>1, <1>2, <1>3, ReplaceTop
<1>5. ASSUME NEW n \in 1 .. Len(stack)
      PROVE  stack'[n].p = stack[n].p /\ stack'[n].l = stack[n].l
  BY <1>2, <1>3, <1>4
<1>6. NodesInAncestors'
  BY <1>4, <1>5 DEF VInv, VouchInvariant, NodesInAncestors, Ancestors, End, Size, Mask
<1>7. AncestorsAsked'
  <2> SUFFICES ASSUME NEW n \in 1 .. Len(stack), NEW i \in Ancestors(stack[n]),
                      InsideRange(stack[n].p, i)
               PROVE  stack'[n].fn = "doubt" /\ Mask(stack[n].p, i) \in bfs[i]
    BY <1>1, <1>4, <1>5 DEF AncestorsAsked, Ancestors, InsideRange, Mask
  <2>1. stack[n].fn = "doubt" /\ Mask(stack[n].p, i) \in bfs[i]
    BY DEF VInv, VouchInvariant, AncestorsAsked
  <2>2. n # 1
    BY <1>1, <1>2, <2>1
  <2> QED
    BY <1>4, <2>1, <2>2
<1>8. NothingVouchedBehind'
  <2>1. stack'[1].p = stack[1].p
    BY <1>2, <1>5
  <2> QED
    BY <1>1, <1>2, <2>1, SameVouched DEF VInv, VouchInvariant, NothingVouchedBehind
<1>9. AnswerIsLeastVouched'
  BY <1>1 DEF AnswerIsLeastVouched
<1> QED
  BY <1>6, <1>7, <1>8, <1>9 DEF VInv, VouchInvariant

\* The node of a call that recurses is asked about, or not inside the range.
LEMMA RecurseKeepsVInv ==
    ASSUME IInv, VInv, result = "running", Recurse, top.l <= levels_,
           top.l > 1 /\ InsideRange(top.p, top.l - 2) =>
               top.fn = "doubt" /\ top.p \in bfs[top.l - 2]
    PROVE  VInv'
<1> DEFINE h == Size(top.l + 1)
           a == [top EXCEPT !.l = @ + 1]
           b == [top EXCEPT !.p = Add(@, pow_r_1(top.l)), !.l = @ + 1]
<1>1. /\ stack' = <<a, b>> \o Tail(stack)
      /\ UNCHANGED <<keys, bfs, low, high, result, min_accept>>
  BY DEF Recurse, Children
<1>2. /\ stack # << >> /\ Len(stack) \in Nat \ {0} /\ top = stack[1] /\ top \in Calls
      /\ top.p \in Nat /\ top.l \in 1 .. levels_ /\ End(top) <= MaxWord + 1
      /\ stack \in Seq(Calls)
  BY TopNode, LevelsAssumption DEF IInv, TypeOK
<1>3. /\ h \in Nat \ {0} /\ pow_r_1(top.l) = h /\ End(top) = top.p + 2 * h
  <2>1. top.l + 1 \in 1 .. levels_ + 1
    BY <1>2, LevelsAssumption
  <2> QED
    BY <1>2, <2>1, SizeFacts DEF End
<1>4. Add(top.p, pow_r_1(top.l)) = top.p + h
  BY <1>2, <1>3, AddInside, SizeFacts
<1>5. /\ a.fn = top.fn /\ a.p = top.p /\ a.l = top.l + 1
      /\ b.fn = top.fn /\ b.p = top.p + h /\ b.l = top.l + 1
  BY <1>2, <1>4 DEF Calls
<1>6. a \in Calls /\ b \in Calls
  <2>1. top.l + 1 \in 1 .. levels_ + 1 /\ top.fn \in {"range_query", "doubt"}
    BY <1>2, LevelsAssumption DEF Calls
  <2>2. top.p \in Word /\ top.p + h \in Word
    BY <1>2, <1>3, SizeFacts DEF Word
  <2> QED
    BY <1>2, <1>4, <2>1, <2>2 DEF Calls
<1>7. End(a) = top.p + h /\ End(b) = End(top)
  BY <1>2, <1>3, <1>5 DEF End
<1> HIDE DEF a, b, h
<1>8. /\ Len(stack') = Len(stack) + 1
      /\ stack'[1] = a /\ stack'[2] = b
      /\ \A n \in 3 .. Len(stack) + 1 : stack'[n] = stack[n - 1]
  BY <1>1, <1>2, <1>6, SplitTop
\* A child has the ancestors of the node, and the node itself.
<1>9. ASSUME NEW i \in Level, i + 2 <= top.l, NEW c \in {a, b}
      PROVE  /\ Mask(c.p, i) = Mask(top.p, i)
             /\ End(c) <= Mask(c.p, i) + Pow2[levels_ - i - 1]
             /\ InsideRange(top.p, i) => c.fn = "doubt" /\ Mask(top.p, i) \in bfs[i]
  <2>1. End(top) <= Mask(top.p, i) + Pow2[levels_ - i - 1]
    <3>1. CASE i + 2 = top.l
      <4>1. top.l > 1 /\ i = top.l - 2 /\ top.p < End(top)
        BY <1>2, <1>3, <3>1 DEF Level
      <4>2. Mask(top.p, i) = top.p /\ Pow2[levels_ - i - 1] = Size(top.l)
        BY <1>2, <4>1, OwnLevel
      <4> QED
        BY <1>2, <1>3, <4>2 DEF End
    <3>2. CASE i + 2 < top.l
      BY <1>2, <3>2 DEF VInv, VouchInvariant, NodesInAncestors, Ancestors
    <3> QED
      BY <1>2, <1>9, <3>1, <3>2 DEF Level
  <2>2. /\ c.p \in Nat /\ top.p <= c.p /\ c.p < End(c) /\ End(c) <= End(top)
        /\ c.fn = top.fn /\ End(c) \in Nat
    BY <1>2, <1>3, <1>5, <1>7
  <2>3. Mask(c.p, i) = Mask(top.p, i)
    <3>1. Mask(top.p, i) \in Nat /\ Pow2[levels_ - i - 1] \in Nat /\ End(top) \in Nat
      <4>1. top.p \in Nat /\ End(top) \in Nat
        BY <1>2, <1>3
      <4> QED
        BY <4>1, MaskFacts
    <3>2. c.p < Mask(top.p, i) + Pow2[levels_ - i - 1]
      BY <2>1, <2>2, <3>1
    <3> QED
      BY <1>2, <2>2, <3>2, SameAncestor
  <2>4. InsideRange(top.p, i) => c.fn = "doubt" /\ Mask(top.p, i) \in bfs[i]
    <3>1. CASE i + 2 = top.l
      <4>1. top.l > 1 /\ i = top.l - 2 /\ top.p < End(top)
        BY <1>2, <1>3, <3>1 DEF Level
      <4>2. Mask(top.p, i) = top.p
        BY <1>2, <4>1, OwnLevel
      <4> QED
        BY <2>2, <4>1, <4>2
    <3>2. CASE i + 2 < top.l
      BY <1>2, <2>2, <3>2 DEF VInv, VouchInvariant, AncestorsAsked, Ancestors
    <3> QED
      BY <1>2, <1>9, <3>1, <3>2 DEF Level
  <2>5. End(c) <= Mask(top.p, i) + Pow2[levels_ - i - 1]
    <3>1. Mask(top.p, i) \in Nat /\ Pow2[levels_ - i - 1] \in Nat /\ End(top) \in Nat
      <4>1. top.p \in Nat /\ End(top) \in Nat
        BY <1>2, <1>3
      <4> QED
        BY <4>1, MaskFacts
    <3> QED
      BY <2>1, <2>2, <3>1
  <2> QED
    BY <2>3, <2>4, <2>5
<1>10. ASSUME NEW n \in 1 .. Len(stack')
       PROVE  \/ stack'[n] \in {a, b}
              \/ n - 1 \in 1 .. Len(stack) /\ stack'[n] = stack[n - 1]
  <2>1. n \in {1, 2} \/ n \in 3 .. Len(stack) + 1
    BY <1>2, <1>8
  <2> QED
    BY <1>2, <1>8, <2>1
<1>11. ASSUME NEW c \in {a, b}, NEW i \in Ancestors(c)
       PROVE  i \in Level /\ i + 2 <= top.l
  BY <1>2, <1>5 DEF Ancestors, Level
<1>12. NodesInAncestors'
  <2> SUFFICES ASSUME NEW n \in 1 .. Len(stack'), NEW i \in Ancestors(stack'[n])
               PROVE  End(stack'[n]) <= Mask(stack'[n].p, i) + Pow2[levels_ - i - 1]
    BY DEF NodesInAncestors, Ancestors, End, Size, Mask
  <2>1. CASE stack'[n] \in {a, b}
    BY <1>9, <1>11, <2>1
  <2>2. CASE n - 1 \in 1 .. Len(stack) /\ stack'[n] = stack[n - 1]
    BY <2>2 DEF VInv, VouchInvariant, NodesInAncestors
  <2> QED
    BY <1>10, <2>1, <2>2
<1>13. AncestorsAsked'
  <2> SUFFICES ASSUME NEW n \in 1 .. Len(stack'), NEW i \in Ancestors(stack'[n]),
                      InsideRange(stack'[n].p, i)
               PROVE  stack'[n].fn = "doubt" /\ Mask(stack'[n].p, i) \in bfs[i]
    BY <1>1 DEF AncestorsAsked, Ancestors, InsideRange, Mask
  <2>1. CASE stack'[n] \in {a, b}
    <3>1. /\ i \in Level
          /\ Mask(stack'[n].p, i) = Mask(top.p, i)
          /\ InsideRange(top.p, i) =>
               stack'[n].fn = "doubt" /\ Mask(top.p, i) \in bfs[i]
      BY <1>9, <1>11, <2>1
    <3> QED
      BY <3>1 DEF InsideRange
  <2>2. CASE n - 1 \in 1 .. Len(stack) /\ stack'[n] = stack[n - 1]
    BY <2>2 DEF VInv, VouchInvariant, AncestorsAsked
  <2> QED
    BY <1>10, <2>1, <2>2
<1>14. NothingVouchedBehind'
  <2>1. stack'[1].p = stack[1].p
    BY <1>2, <1>5, <1>8
  <2> QED
    BY <1>1, <1>2, <2>1, SameVouched DEF VInv, VouchInvariant, NothingVouchedBehind
<1>15. AnswerIsLeastVouched'
  BY <1>1 DEF AnswerIsLeastVouched
<1> QED
  BY <1>12, <1>13, <1>14, <1>15 DEF VInv, VouchInvariant

\* Without pending calls there is nothing to say about them.
LEMMA NoCallsKeepVouch ==
    ASSUME stack' = << >>
    PROVE  VouchInvariant'
<1>1. Len(stack') = 0
  OBVIOUS
<1> QED
  BY <1>1 DEF VouchInvariant, NodesInAncestors, AncestorsAsked, NothingVouchedBehind

LEMMA StepKeepsVInv ==
    ASSUME IInv, VInv, Step
    PROVE  VInv'
<1> DEFINE i == top.l - 2
<1>1. CASE RangeDisjoint
  <2>1. result = "running" /\ ReturnFalse /\ (top.p > high \/ End(top) - 1 < low)
    BY <1>1, TopNode DEF RangeDisjoint, Running, Disjoint
  <2>2. ASSUME NEW w \in Word, VouchedBy(bfs, w)
        PROVE  w < top.p \/ End(top) <= w
    BY <2>1, <2>2, TopNode, SizeFacts DEF VouchedBy, End, Word
  <2> QED
    BY <2>1, <2>2, ReturnFalseKeepsVInv
<1>2. CASE RangeContained
  BY <1>2, ContainedKeepsVInv
<1>3. CASE RangeSplit
  <2>1. /\ result = "running" /\ Recurse
        /\ ~(top.p > high) /\ ~(End(top) - 1 < low)
        /\ ~(top.p >= low /\ End(top) - 1 <= high)
    BY <1>3, TopNode DEF RangeSplit, Running, Disjoint, Contained
  <2>2. top.l <= levels_
    <3>1. top.l # levels_ + 1
      BY <2>1, TopNode, SizeFacts DEF End
    <3> QED
      BY <2>1, <3>1, TopNode, LevelsAssumption
  <2>3. ASSUME top.l > 1
        PROVE  ~InsideRange(top.p, i)
    <3>1. Mask(top.p, i) = top.p /\ Pow2[levels_ - i - 1] = Size(top.l)
      BY <2>1, <2>3, TopNode, OwnLevel DEF End
    <3> QED
      BY <2>1, <3>1, TopNode DEF InsideRange, End
  <2> QED
    BY <2>1, <2>2, <2>3, RecurseKeepsVInv
<1>4. CASE DoubtUndefined
  <2>1. stack' = << >> /\ result' = "undefined"
    BY <1>4 DEF DoubtUndefined
  <2> QED
    BY <2>1, NoCallsKeepVouch DEF VInv, AnswerIsLeastVouched
<1>5. CASE DoubtRejected
  <2>1. /\ result = "running" /\ top.l > 1 /\ ReturnFalse
        /\ top.p \notin bfs[i] /\ top.fn = "doubt"
    BY <1>5 DEF DoubtRejected, Running
  <2>2. ASSUME NEW w \in Word, VouchedBy(bfs, w), top.p <= w, w < End(top)
        PROVE  FALSE
    <3>1. i \in Level /\ Mask(w, i) = top.p /\ Pow2[levels_ - i - 1] = Size(top.l)
      BY <2>1, <2>2, OwnLevel, SizeFacts DEF Word
    <3>2. low <= top.p /\ End(top) - 1 <= high
      BY <2>1, TopNode DEF IInv, TilingInvariant, DoubtInside
    <3>3. InsideRange(w, i)
      <4>1. End(top) = top.p + Pow2[levels_ - i - 1]
        BY <3>1 DEF End
      <4>2. top.p \in Nat /\ Pow2[levels_ - i - 1] \in Nat /\ low \in Nat /\ high \in Nat
        BY <2>1, <3>1, TopNode, SizeFacts DEF IInv, TypeOK, Word
      <4> QED
        BY <3>1, <3>2, <4>1, <4>2 DEF InsideRange
    <3> QED
      BY <2>1, <2>2, <3>1, <3>3 DEF VouchedBy
  <2>3. ASSUME NEW w \in Word, VouchedBy(bfs, w)
        PROVE  w < top.p \/ End(top) <= w
    <3>1. top.p \in Nat /\ Size(top.l) \in Nat
      BY <2>1, TopNode, SizeFacts DEF IInv, TypeOK, Word
    <3>2. w \in Nat /\ End(top) \in Nat
      BY <3>1 DEF Word, End
    <3> QED
      BY <2>2, <2>3, <3>1, <3>2
  <2> QED
    BY <2>1, <2>3, ReturnFalseKeepsVInv
<1>6. CASE DoubtAccepted
  <2>1. /\ result = "running" /\ top.fn = "doubt" /\ top.l > levels_
        /\ top.p \in bfs[i]
        /\ min_accept' = top.p /\ result' = "true" /\ stack' = << >>
        /\ UNCHANGED <<keys, bfs, low, high>>
    BY <1>6 DEF DoubtAccepted, Running
  <2>2. top.l = levels_ + 1 /\ top.l > 1 /\ End(top) = top.p + 1 /\ top = stack[1]
    <3>1. top.l = levels_ + 1
      BY <2>1, TopNode, LevelsAssumption
    <3> QED
      BY <2>1, <3>1, TopNode, SizeFacts, LevelsAssumption DEF End
  <2>3. low <= top.p /\ top.p <= high
    BY <2>1, <2>2, TopNode DEF IInv, TilingInvariant, DoubtInside
  <2>4. ASSUME NEW j \in Level, InsideRange(top.p, j)
        PROVE  Mask(top.p, j) \in bfs[j]
    <3>1. CASE j + 2 < top.l
      BY <2>1, <2>2, <2>4, <3>1, TopNode DEF VInv, VouchInvariant, AncestorsAsked, Ancestors
    <3>2. CASE j = i
      BY <2>1, <2>2, <3>2, TopNode, OwnLevel
    <3> QED
      BY <2>2, <3>1, <3>2, LevelsAssumption DEF Level
  <2>5. VouchedBy(bfs, top.p)
    BY <2>3, <2>4 DEF VouchedBy
  <2>6. \A w \in Word : VouchedBy(bfs, w) => top.p <= w
    BY <2>1, <2>2, TopNode DEF VInv, VouchInvariant, NothingVouchedBehind
  <2>7. AnswerIsLeastVouched'
    BY <2>1, <2>5, <2>6 DEF AnswerIsLeastVouched, VouchedBy, InsideRange, Mask
  <2> QED
    BY <2>1, <2>7, NoCallsKeepVouch DEF VInv
<1>7. CASE DoubtSplit
  <2>1. /\ result = "running" /\ top.fn = "doubt" /\ top.l <= levels_ /\ Recurse
        /\ top.p \in bfs[i]
    BY <1>7 DEF DoubtSplit, Running
  <2> QED
    BY <2>1, RecurseKeepsVInv
<1> QED
  BY <1>1, <1>2, <1>3, <1>4, <1>5, <1>6, <1>7 DEF Step

\* The root's node has no ancestors, and no word lies before it.
LEMMA AskKeepsVInv ==
    ASSUME Ask
    PROVE  VInv'
<1> DEFINE c == [fn |-> "range_query", p |-> 0, l |-> 1]
<1>1. stack' = <<c>> /\ result' = "running"
  BY DEF Ask
<1>2. Len(stack') = 1 /\ stack'[1] = c /\ c.l = 1 /\ c.p = 0
  BY <1>1
<1> HIDE DEF c
<1>3. \A n \in 1 .. Len(stack') : Ancestors(stack'[n]) = {}
  BY <1>2 DEF Ancestors, Level
<1>4. NodesInAncestors' /\ AncestorsAsked'
  BY <1>3 DEF NodesInAncestors, AncestorsAsked, Ancestors
<1>5. NothingVouchedBehind'
  BY <1>2, SizeFacts DEF NothingVouchedBehind, Word
<1>6. AnswerIsLeastVouched'
  BY <1>1 DEF AnswerIsLeastVouched
<1> QED
  BY <1>4, <1>5, <1>6 DEF VInv, VouchInvariant

LEMMA NextKeepsVInv ==
    IInv /\ VInv /\ [Next]_vars => VInv'
<1> SUFFICES ASSUME IInv, VInv, [Next]_vars
             PROVE  VInv'
  OBVIOUS
<1>1. CASE Construct
  <2>1. stack = << >> /\ stack' = stack /\ result' = "ready"
    BY <1>1 DEF Construct, IInv, TypeOK
  <2> QED
    BY <2>1, NoCallsKeepVouch DEF VInv, AnswerIsLeastVouched
<1>2. CASE Ask
  BY <1>2, AskKeepsVInv
<1>3. CASE Step
  BY <1>3, StepKeepsVInv
<1>4. CASE UNCHANGED vars
  BY <1>4 DEF vars, VInv, VouchInvariant, AnswerIsLeastVouched, NodesInAncestors,
     AncestorsAsked, NothingVouchedBehind, Ancestors, VouchedBy, InsideRange, Mask, End, Size
<1> QED
  BY <1>1, <1>2, <1>3, <1>4 DEF Next

LEMMA VouchInvariantHolds ==
    Spec => []VInv
<1>1. Init => VInv
  <2> SUFFICES ASSUME Init
               PROVE  VInv
    OBVIOUS
  <2>1. stack = << >> /\ Len(stack) = 0 /\ result = "empty"
    BY DEF Init
  <2> QED
    BY <2>1 DEF VInv, VouchInvariant, NodesInAncestors, AncestorsAsked,
                NothingVouchedBehind, AnswerIsLeastVouched
<1> QED
  BY <1>1, InvariantHolds, NextKeepsVInv, PTL DEF Spec

----------------------------------------------------------------------------
(* What follows for the caller of the filter.                              *)

\* Every variable keeps its type, the recursion never goes below the last
\* level (no shift by a negative distance, no filter past the end of bfs),
\* and a query has pending calls exactly while it runs.
THEOREM TypesCorrect ==
    Spec => []TypeOK
<1>1. IInv => TypeOK
  BY DEF IInv
<1>. QED
  BY <1>1, InvariantHolds, PTL

\* The pending calls always tile what is left of the key space, and every level
\* that can be asked about their nodes was asked.
THEOREM SearchIsExhaustive ==
    Spec => []SearchInvariant
<1>1. IInv /\ VInv => SearchInvariant
  BY DEF IInv, VInv, SearchInvariant
<1>. QED
  BY <1>1, InvariantHolds, VouchInvariantHolds, PTL

\* The answer is exact: range_query and seek come to the least word that every
\* filter vouches for that can be asked about it, and to false if there is none.
THEOREM AnswersAreLeastVouched ==
    Spec => []AnswerIsLeastVouched
<1>1. VInv => AnswerIsLeastVouched
  BY DEF VInv
<1>. QED
  BY <1>1, VouchInvariantHolds, PTL

\* range_query on integers never denies a range that holds a key.
THEOREM NoFalseNegatives ==
    Spec => []NoFalseNegative
<1>1. IInv => NoFalseNegative
  BY DEF IInv
<1>. QED
  BY <1>1, InvariantHolds, PTL

\* A scan that starts at what seek returns misses no key of the range.
THEOREM SeekReturnsLowerBound ==
    Spec => []SeekIsLowerBound
<1>1. IInv => SeekIsLowerBound
  BY DEF IInv
<1>. QED
  BY <1>1, InvariantHolds, PTL

\* The read of bfs[-1] happens on the whole key space and nowhere else.
THEOREM UndefinedOnlyOnWholeRanges ==
    Spec => []UndefinedOnlyOnWholeRange
<1>1. IInv => UndefinedOnlyOnWholeRange
  BY DEF IInv
<1>. QED
  BY <1>1, InvariantHolds, PTL

----------------------------------------------------------------------------
(* Refinement.                                                             *)

\* Every step of the search is a step of RangeFilter or leaves what
\* RangeFilter sees unchanged.
LEMMA StepImplementsPromise ==
    ASSUME IInv, IInv', [Next]_vars
    PROVE  [Promise!Next]_(Promise!vars)
<1>. USE DEF Promise!vars, Promise!Next, Promise!Answer
<1>1. KeysInRange = Promise!KeysInRange
  BY DEF KeysInRange, Promise!KeysInRange
<1>2. CASE Construct
  BY <1>2 DEF Construct, Promise!Construct
<1>3. CASE Ask
  BY <1>3 DEF Ask, Promise!Ask
<1>4. ASSUME result = "running", ReturnFalse
      PROVE  [Promise!Next]_(Promise!vars)
  <2>1. CASE result' = "false"
    <3>1. KeysInRange = {}
      BY <1>4, <2>1 DEF IInv, NoFalseNegative, KeysInRange, ReturnFalse
    <3>. QED
      BY <1>1, <1>4, <2>1, <3>1 DEF ReturnFalse, Promise!AnswerFalse
  <2>2. CASE result' = "running"
    BY <1>4, <2>2 DEF ReturnFalse
  <2>. QED
    BY <1>4, <2>1, <2>2 DEF ReturnFalse
<1>5. CASE RangeDisjoint
  BY <1>4, <1>5 DEF RangeDisjoint, Running
<1>6. CASE RangeContained
  BY <1>6 DEF RangeContained
<1>7. CASE RangeSplit
  BY <1>7 DEF RangeSplit, Recurse
<1>8. CASE DoubtUndefined
  <2>1. low = 0 /\ high = MaxWord
    BY <1>8 DEF IInv, UndefinedOnlyOnWholeRange, DoubtUndefined, MaxWord
  <2>2. Promise!WholeKeySpace
    BY <2>1, SizeFacts DEF Promise!WholeKeySpace, Word
  <2>. QED
    BY <1>8, <2>2 DEF DoubtUndefined, Running, Promise!LeaveUndefined
<1>9. CASE DoubtRejected
  BY <1>4, <1>9 DEF DoubtRejected, Running
<1>10. CASE DoubtAccepted
  <2>1. /\ result = "running" /\ result' = "true"
        /\ UNCHANGED <<keys, low, high>>
    BY <1>10 DEF DoubtAccepted, Running
  <2>2. min_accept' \in Word
    BY DEF IInv, TypeOK, Word, MaxWord
  <2>3. /\ low <= min_accept' /\ min_accept' <= high
        /\ \A k \in KeysInRange : min_accept' <= k
    BY <2>1 DEF IInv, SeekIsLowerBound, KeysInRange
  <2>. QED
    BY <1>1, <2>1, <2>2, <2>3 DEF Promise!AnswerTrue
<1>11. CASE DoubtSplit
  BY <1>11 DEF DoubtSplit, Recurse
<1>12. CASE UNCHANGED vars
  BY <1>12 DEF vars
<1>. QED
  BY <1>2, <1>3, <1>5, <1>6, <1>7, <1>8, <1>9, <1>10, <1>11, <1>12 DEF Next, Step

\* The integer search keeps what RangeFilter promises (its safety part; that
\* an answer comes is checked by TLC).
THEOREM ImplementsPromise ==
    Spec => Promise!Spec
<1>1. Init => Promise!Init
  BY DEF Init, Promise!Init
<1>. QED
  BY <1>1, InvariantHolds, StepImplementsPromise, PTL DEF Spec, Promise!Spec

----------------------------------------------------------------------------
(* The search of the first Rosetta.                                        *)

\* The hypothesis of NoFalseNegativeInNarrowRange.
NarrowRange == high - low + 1 < Pow2[IntBits]

\* Powers of two grow with the exponent.
LEMMA Pow2Monotone ==
    ASSUME NEW m \in 0 .. levels_, NEW n \in 0 .. levels_, m <= n
    PROVE  Pow2[m] <= Pow2[n]
<1>1. levels_ \in Nat /\ Pow2 \in [0 .. levels_ -> Nat]
  BY LevelsAssumption, Pow2Assumption
<1>2. \A k \in 0 .. levels_ - 1 : Pow2[k + 1] = 2 * Pow2[k]
  BY Pow2Assumption DEF Level
<1> QED
  BY <1>1, <1>2, DoublingGrows

\* What an int shifted and converted to u64 comes to is a number.
LEMMA ShiftIsANumber ==
    ASSUME NEW d \in 0 .. levels_, NEW half \in IntShift(d)
    PROVE  half \in Int
<1> USE LevelsAssumption, Pow2Assumption, IntBitsAssumption
<1>1. ASSUME NEW n \in 0 .. levels_
      PROVE  AsU64(n) \in Int
  BY DEF AsU64
<1>2. d % IntBits \in 0 .. levels_
  <2>1. IntBits \in Nat \ {0} /\ IntBits <= levels_
    OBVIOUS
  <2>2. d % IntBits \in 0 .. IntBits - 1
    BY <2>1, SMTT(30)
  <2> QED
    BY <2>1, <2>2
<1> QED
  BY <1>1, <1>2 DEF IntShift

\* A sum of u64 is a u64.
LEMMA AddIsAWord ==
    ASSUME NEW a \in Int, NEW b \in Int
    PROVE  Add(a, b) \in Word
<1>1. ASSUME NEW m \in Nat \ {0}, NEW c \in Int
      PROVE  c % m \in 0 .. m - 1
  BY SMTT(30)
<1>2. Pow2[levels_] \in Nat \ {0} /\ a + b \in Int
  BY LevelsAssumption, Pow2Assumption
<1> QED
  BY <1>1, <1>2 DEF Add, Word, MaxWord

\* The types survive every step of the first version, wide ranges included: the
\* recursion ends above the last level whatever the shift came to.
LEMMA OldStepKeepsTypes ==
    ASSUME TypeOK, OldStep
    PROVE  TypeOK'
<1>1. /\ result = "running" /\ stack # << >> /\ stack \in Seq(Calls)
      /\ top = stack[1] /\ top \in Calls /\ Len(stack) \in Nat \ {0}
  <2>1. result = "running"
    BY DEF OldStep, RangeDisjoint, RangeContained, RangeSplit, DoubtUndefined,
           DoubtRejected, DoubtAccepted, OldDoubtSplit, Running
  <2>2. stack # << >> /\ stack \in Seq(Calls)
    BY <2>1 DEF TypeOK
  <2> QED
    BY <2>1, <2>2, EmptySeq, HeadTailProperties DEF top
<1>2. /\ top.fn \in {"range_query", "doubt"} /\ top.p \in Word /\ top.l \in 1 .. levels_ + 1
      /\ top.p \in Nat /\ top.p <= MaxWord
  BY <1>1, SizeFacts DEF Calls, Word
<1>3. ASSUME ReturnFalse
      PROVE  TypeOK'
  <2>1. /\ stack' \in Seq(Calls) /\ Len(stack') = Len(stack) - 1
        /\ result' = IF Len(stack) = 1 THEN "false" ELSE "running"
        /\ UNCHANGED <<keys, bfs, low, high, min_accept>>
    BY <1>1, <1>3, DropTop DEF ReturnFalse
  <2>2. result' = "running" <=> stack' # << >>
    BY <1>1, <2>1, EmptySeq
  <2> QED
    BY <2>1, <2>2 DEF TypeOK, Results
<1>4. ASSUME NEW a \in Calls, NEW b \in Calls, stack' = <<a, b>> \o Tail(stack),
             UNCHANGED <<keys, bfs, low, high, result, min_accept>>
      PROVE  TypeOK'
  <2>1. stack' \in Seq(Calls) /\ Len(stack') = Len(stack) + 1
    BY <1>1, <1>4, SplitTop
  <2>2. stack' # << >>
    BY <1>1, <2>1, EmptySeq
  <2> QED
    BY <1>1, <1>4, <2>1, <2>2 DEF TypeOK
<1>5. CASE RangeDisjoint
  BY <1>3, <1>5 DEF RangeDisjoint
<1>6. CASE RangeContained
  <2> DEFINE c == [top EXCEPT !.fn = "doubt"]
  <2>1. stack' = <<c>> \o Tail(stack) /\ UNCHANGED <<keys, bfs, low, high, result, min_accept>>
    BY <1>6 DEF RangeContained
  <2>2. c \in Calls
    BY <1>1 DEF Calls
  <2> HIDE DEF c
  <2>3. stack' \in Seq(Calls) /\ Len(stack') = Len(stack)
    BY <1>1, <2>1, <2>2, ReplaceTop
  <2>4. stack' # << >>
    BY <1>1, <2>3, EmptySeq
  <2> QED
    BY <1>1, <2>1, <2>3, <2>4 DEF TypeOK
<1>7. CASE RangeSplit
  <2> DEFINE a == [top EXCEPT !.l = @ + 1]
             b == [top EXCEPT !.p = Add(@, pow_r_1(top.l)), !.l = @ + 1]
  <2>1. /\ stack' = <<a, b>> \o Tail(stack)
        /\ UNCHANGED <<keys, bfs, low, high, result, min_accept>>
        /\ ~Disjoint(top.p, top.l) /\ ~Contained(top.p, top.l)
    BY <1>7 DEF RangeSplit, Recurse, Children
  <2>2. top.l # levels_ + 1
    <3> SUFFICES ASSUME top.l = levels_ + 1
                 PROVE  FALSE
      OBVIOUS
    <3>1. pow_1(top.l) = 0
      BY <1>2, SizeFacts
    <3>2. Add(top.p, 0) = top.p
      BY <1>2, AddInside
    <3>3. low \in Nat /\ high \in Nat
      BY SizeFacts DEF TypeOK, Word
    <3> QED
      BY <1>2, <2>1, <3>1, <3>2, <3>3 DEF Disjoint, Contained
  <2>3. top.l \in 1 .. levels_ /\ top.l + 1 \in 1 .. levels_ + 1
    BY <1>2, <2>2, LevelsAssumption
  <2>4. Add(top.p, pow_r_1(top.l)) \in Word
    <3>1. pow_r_1(top.l) = Size(top.l + 1) /\ Size(top.l + 1) \in Nat \ {0}
      BY <2>3, SizeFacts
    <3> QED
      BY <1>2, <3>1, AddIsAWord
  <2>5. a \in Calls /\ b \in Calls
    BY <1>1, <1>2, <2>3, <2>4 DEF Calls
  <2> HIDE DEF a, b
  <2> QED
    BY <1>4, <2>1, <2>5
<1>8. CASE DoubtUndefined
  BY <1>8 DEF DoubtUndefined, TypeOK, Results
<1>9. CASE DoubtRejected
  BY <1>3, <1>9 DEF DoubtRejected
<1>10. CASE DoubtAccepted
  BY <1>2, <1>10 DEF DoubtAccepted, TypeOK, Results
<1>11. CASE OldDoubtSplit
  <2>1. PICK half \in IntShift(levels_ - top.l) :
          stack' = << [top EXCEPT !.l = @ + 1],
                      [top EXCEPT !.p = Add(@, half), !.l = @ + 1] >> \o Tail(stack)
    BY <1>11 DEF OldDoubtSplit
  <2> DEFINE a == [top EXCEPT !.l = @ + 1]
             b == [top EXCEPT !.p = Add(@, half), !.l = @ + 1]
  <2>2. /\ stack' = <<a, b>> \o Tail(stack)
        /\ UNCHANGED <<keys, bfs, low, high, result, min_accept>>
        /\ top.l <= levels_
    BY <1>11, <2>1 DEF OldDoubtSplit
  <2>3. levels_ - top.l \in 0 .. levels_ /\ top.l + 1 \in 1 .. levels_ + 1
    BY <1>2, <2>2, LevelsAssumption
  <2>4. Add(top.p, half) \in Word
    BY <1>2, <2>3, ShiftIsANumber, AddIsAWord
  <2>5. a \in Calls /\ b \in Calls
    BY <1>1, <1>2, <2>3, <2>4 DEF Calls
  <2> HIDE DEF a, b
  <2> QED
    BY <1>4, <2>2, <2>5
<1> QED
  BY <1>5, <1>6, <1>7, <1>8, <1>9, <1>10, <1>11 DEF OldStep

\* No node inside a narrow range is wide enough for the shift to overflow.
LEMMA NarrowOldStepIsStep ==
    ASSUME IInv, NarrowRange, OldStep
    PROVE  Step
<1>1. CASE OldDoubtSplit
  <2>1. /\ result = "running" /\ top.fn = "doubt" /\ top.l > 1 /\ top.l <= levels_
        /\ top.p \in bfs[top.l - 2]
        /\ UNCHANGED <<keys, bfs, low, high, result, min_accept>>
    BY <1>1 DEF OldDoubtSplit, Running
  <2> DEFINE n == levels_ - top.l + 1
  <2>2. n \in 0 .. levels_ /\ IntBits \in 0 .. levels_ /\ Size(top.l) = Pow2[n]
    BY <2>1, TopNode, LevelsAssumption, IntBitsAssumption DEF Size
  <2>3. Pow2[n] <= high - low + 1 /\ Pow2[n] \in Nat
    <3>1. low <= top.p /\ End(top) - 1 <= high
      BY <2>1, TopNode DEF IInv, TilingInvariant, DoubtInside
    <3>2. End(top) = top.p + Pow2[n]
      BY <2>2 DEF End
    <3> QED
      BY <2>1, <2>2, <3>1, <3>2, TopNode
  <2>4. n < IntBits
    <3>1. Pow2[n] < Pow2[IntBits] /\ Pow2[IntBits] \in Nat
      BY <2>2, <2>3, TopNode, <2>1, Pow2Assumption DEF NarrowRange
    <3> QED
      BY <2>2, <2>3, <3>1, Pow2Monotone
  <2>5. IntShift(levels_ - top.l) = {pow_r_1(top.l)}
    <3>1. levels_ - top.l < IntBits /\ levels_ - top.l # IntBits - 1
      BY <2>1, <2>2, <2>4, TopNode, LevelsAssumption
    <3> QED
      BY <3>1 DEF IntShift, AsU64, pow_r_1
  <2>6. Recurse
    BY <1>1, <2>1, <2>5 DEF OldDoubtSplit, Recurse, Children
  <2> QED
    BY <2>1, <2>6 DEF Step, DoubtSplit, Running
<1> QED
  BY <1>1 DEF OldStep, Step

----------------------------------------------------------------------------
(* The invariant.                                                          *)

\* The search is right: always, but for the first Rosetta on a wide range.
SearchIsRight ==
    /\ FiltersHoldKeys
    /\ kind # "old Rosetta" => IInv /\ VInv
    /\ NarrowRange => IInv

\* The filters say what the levels and the units say; every unit holds every
\* key; and the units in memory are the first of those the object was built
\* with, all of them unless a part of it was read back.
ObjectIsPrefix ==
    result # "empty" =>
        /\ built.levels = UpperLevels(bfs)
        /\ built.units \in Seq(SUBSET Word)
        /\ bfs = bfTest(built.levels, units)
        /\ \A j \in 1 .. Len(units) : keys \subseteq units[j]
        /\ Len(units) <= Len(built.units)
        /\ \A j \in 1 .. Len(units) : units[j] = built.units[j]
        /\ object = "built" \/ AlwaysWhole => Len(units) = Len(built.units)

\* An object that can be used was built over one of the key sets, and is only
\* deleted between queries.
ObjectIsUsable ==
    /\ object \in {"built", "reopened"} => result # "empty" /\ keys \in KeySets
    /\ object = "none" => Idle

\* An image holds its keys.
ImageHoldsKeys ==
    image # none =>
        /\ \A k \in image.keys, i \in 0 .. LastLevel - 1 : Mask(k, i) \in image.levels[i]
        /\ \A j \in 1 .. Len(image.units) : image.keys \subseteq image.units[j]

LInv ==
    /\ LifeTypeOK
    /\ SearchIsRight
    /\ ObjectIsPrefix
    /\ ObjectIsUsable
    /\ ImageHoldsKeys
    /\ ImageIsComplete

\* Between queries only the types and the filters have to be right.
LEMMA ResetIsRight ==
    ASSUME TypeOK', FiltersHoldKeys', stack' = << >>, result' = "ready"
    PROVE  IInv' /\ VInv'
<1>1. Len(stack') = 0
  OBVIOUS
<1>2. TilingInvariant'
  BY <1>1 DEF TilingInvariant, NodesAligned, CallsCoverTheRest, NothingBehind,
              DoubtInside, WholeRangeAtRoot
<1>3. NoFalseNegative' /\ SeekIsLowerBound' /\ UndefinedOnlyOnWholeRange'
  BY DEF NoFalseNegative, SeekIsLowerBound, UndefinedOnlyOnWholeRange
<1> QED
  BY <1>2, <1>3, NoCallsKeepVouch DEF IInv, VInv, AnswerIsLeastVouched

LEMMA InitIsRight ==
    Init => TypeOK /\ FiltersHoldKeys /\ IInv /\ VInv
<1> SUFFICES ASSUME Init
             PROVE  TypeOK /\ FiltersHoldKeys /\ IInv /\ VInv
  OBVIOUS
<1>1. Len(stack) = 0
  BY DEF Init
<1>2. VInv
  BY <1>1 DEF Init, VInv, VouchInvariant, NodesInAncestors, AncestorsAsked,
              NothingVouchedBehind, AnswerIsLeastVouched
<1> QED
  BY <1>2, InitEstablishesIInv DEF IInv, TilingInvariant

\* A key is its own prefix at the last level.
LEMMA MaskAtLastLevel ==
    ASSUME NEW k \in Word
    PROVE  Mask(k, LastLevel) = k
<1>1. Pow2[levels_ - LastLevel - 1] = 1
  <2>1. levels_ - LastLevel - 1 = 0
    BY LevelsAssumption DEF LastLevel
  <2> QED
    BY <2>1, Pow2Assumption
<1>2. k \in Nat /\ k % 1 = 0
  BY SizeFacts, SMTT(30) DEF Word
<1> QED
  BY <1>1, <1>2 DEF Mask

\* The filters hold the keys when the levels and every unit do.
LEMMA LevelsAndUnitsHoldKeys ==
    ASSUME NEW K \in SUBSET Word, NEW levels, NEW us,
           \A k \in K, i \in 0 .. LastLevel - 1 : Mask(k, i) \in levels[i],
           \A j \in 1 .. Len(us) : K \subseteq us[j]
    PROVE  \A k \in K, i \in Level : Mask(k, i) \in bfTest(levels, us)[i]
<1> SUFFICES ASSUME NEW k \in K, NEW i \in Level
             PROVE  Mask(k, i) \in bfTest(levels, us)[i]
  OBVIOUS
<1>1. CASE i = LastLevel
  <2>1. Mask(k, i) = k /\ k \in Word
    BY <1>1, MaskAtLastLevel
  <2> QED
    BY <1>1, <2>1 DEF bfTest
<1>2. CASE i # LastLevel
  <2>1. i \in 0 .. LastLevel - 1
    BY <1>2, LevelsAssumption DEF Level, LastLevel
  <2> QED
    BY <1>2, <2>1 DEF bfTest
<1> QED
  BY <1>1, <1>2

LEMMA bfTestType ==
    ASSUME NEW levels, NEW us, \A i \in 0 .. LastLevel - 1 : levels[i] \in SUBSET Word
    PROVE  bfTest(levels, us) \in [Level -> SUBSET Word]
<1>1. ASSUME NEW i \in Level, i # LastLevel
      PROVE  i \in 0 .. LastLevel - 1
  BY <1>1, LevelsAssumption DEF Level, LastLevel
<1>2. ASSUME NEW i \in Level
      PROVE  bfTest(levels, us)[i] \in SUBSET Word
  BY <1>1 DEF bfTest
<1> QED
  BY <1>2, Zenon DEF bfTest

\* What bfTest says of a level depends on the levels above the last and on the
\* units, and it leaves those levels as they are.
LEMMA bfTestLevels ==
    ASSUME NEW f, NEW us
    PROVE  /\ bfTest(UpperLevels(f), us) = bfTest(f, us)
           /\ UpperLevels(bfTest(f, us)) = UpperLevels(f)
<1>1. ASSUME NEW i \in Level, i # LastLevel
      PROVE  i \in 0 .. LastLevel - 1
  BY <1>1, LevelsAssumption DEF Level, LastLevel
<1>2. ASSUME NEW i \in 0 .. LastLevel - 1
      PROVE  i \in Level /\ i # LastLevel
  BY LevelsAssumption DEF Level, LastLevel
<1>3. ASSUME NEW i \in Level
      PROVE  bfTest(UpperLevels(f), us)[i] = bfTest(f, us)[i]
  BY <1>1 DEF bfTest, UpperLevels
<1>4. bfTest(UpperLevels(f), us) = bfTest(f, us)
  BY <1>3, Zenon DEF bfTest
<1>5. ASSUME NEW i \in 0 .. LastLevel - 1
      PROVE  bfTest(f, us)[i] = f[i]
  BY <1>2 DEF bfTest
<1> QED
  BY <1>4, <1>5 DEF UpperLevels

\* A set of prefixes, of words that exist.
LEMMA MaskIsAWord ==
    ASSUME NEW k \in Word, NEW i \in Level
    PROVE  Mask(k, i) \in Word
<1>1. k \in Nat /\ k <= MaxWord /\ MaxWord \in Nat
  BY SizeFacts DEF Word
<1> QED
  BY <1>1, MaskFacts DEF Word

----------------------------------------------------------------------------
(* The actions.                                                            *)

\* What the image says does not change unless it is written.
LEMMA SameImage ==
    ASSUME LInv, UNCHANGED image
    PROVE  ImageHoldsKeys' /\ ImageIsComplete'
  BY DEF LInv, ImageHoldsKeys, ImageIsComplete, Mask

LEMMA BuildKeepsLInv ==
    ASSUME LInv, Build
    PROVE  LInv'
<1>1. PICK K \in KeySets, F \in Spurious, n \in 0 .. MaxUnits :
        /\ keys' = K
        /\ \E extra \in [1 .. n -> UnitSpurious] :
             units' = [j \in 1 .. n |-> K \cup extra[j]]
        /\ bfs' = bfTest([i \in Level |-> {Mask(key, i) : key \in K}
                                            \cup {w \in Word : <<i, w>> \in F}], units')
  BY DEF Build
<1>2. /\ object = "none" /\ object' = "built" /\ result' = "ready"
      /\ built' = [levels |-> UpperLevels(bfs'), units |-> units']
      /\ UNCHANGED <<low, high, stack, min_accept, kind, image>>
  BY DEF Build
<1> DEFINE f == [i \in Level |-> {Mask(key, i) : key \in K}
                                    \cup {w \in Word : <<i, w>> \in F}]
<1>3. K \in SUBSET Word
  BY KeySetsAssumption
<1>4. n \in Nat /\ units' \in Seq(SUBSET Word) /\ Len(units') = n
      /\ \A j \in 1 .. n : K \subseteq units'[j]
  <2>1. PICK extra \in [1 .. n -> UnitSpurious] :
             units' = [j \in 1 .. n |-> K \cup extra[j]]
    BY <1>1
  <2>2. \A j \in 1 .. n : K \cup extra[j] \in SUBSET Word
    BY <1>3, UnitsAssumption
  <2>3. n \in Nat
    BY UnitsAssumption
  <2> QED
    BY <2>1, <2>2, <2>3
<1>5. \A i \in 0 .. LastLevel - 1 : f[i] \in SUBSET Word
  <2> SUFFICES ASSUME NEW i \in 0 .. LastLevel - 1
               PROVE  f[i] \in SUBSET Word
    OBVIOUS
  <2>1. i \in Level
    BY LevelsAssumption DEF Level, LastLevel
  <2>2. \A key \in K : Mask(key, i) \in Word
    BY <1>3, <2>1, MaskIsAWord
  <2> QED
    BY <2>1, <2>2
<1>6. \A key \in K, i \in 0 .. LastLevel - 1 : Mask(key, i) \in f[i]
  <2>1. \A i \in 0 .. LastLevel - 1 : i \in Level
    BY LevelsAssumption DEF Level, LastLevel
  <2> QED
    BY <2>1
<1>7. bfs' = bfTest(f, units')
  BY <1>1
<1> HIDE DEF f
<1>8. Idle /\ stack = << >>
  BY <1>2 DEF LInv, ObjectIsUsable, Idle, LifeTypeOK, TypeOK
<1>9. TypeOK'
  <2>1. bfs' \in [Level -> SUBSET Word]
    BY <1>5, <1>7, bfTestType
  <2> QED
    BY <1>1, <1>2, <1>3, <1>8, <2>1 DEF LInv, LifeTypeOK, TypeOK, Results
<1>10. FiltersHoldKeys'
  <2>1. \A k \in K, i \in Level : Mask(k, i) \in bfTest(f, units')[i]
    BY <1>3, <1>4, <1>6, LevelsAndUnitsHoldKeys
  <2> QED
    BY <1>1, <1>7, <2>1 DEF FiltersHoldKeys, Mask
<1>11. SearchIsRight'
  BY <1>2, <1>8, <1>9, <1>10, ResetIsRight DEF SearchIsRight
<1>12. ObjectIsPrefix'
  <2>1. bfs' = bfTest(UpperLevels(bfs'), units')
    BY <1>7, bfTestLevels
  <2>2. built'.levels = UpperLevels(bfs') /\ built'.units = units'
    BY <1>2
  <2>3. \A j \in 1 .. Len(units') : keys' \subseteq units'[j]
    BY <1>1, <1>4
  <2>4. Len(units') <= Len(built'.units)
    BY <1>4, <2>2
  <2> QED
    BY <1>4, <2>1, <2>2, <2>3, <2>4 DEF ObjectIsPrefix, UpperLevels, bfTest
<1>13. ObjectIsUsable'
  BY <1>1, <1>2 DEF ObjectIsUsable
<1>14. LifeTypeOK'
  BY <1>2, <1>4, <1>9 DEF LInv, LifeTypeOK
<1> QED
  BY <1>2, <1>11, <1>12, <1>13, <1>14, SameImage DEF LInv

\* A query changes neither the keys nor what is known of them.
LEMMA QueryKeepsLInv ==
    ASSUME LInv, Query
    PROVE  LInv'
<1>1. /\ object \in {"built", "reopened"}
      /\ UNCHANGED <<kind, object, units, image, built>>
  BY DEF Query, life
<1>2. UNCHANGED <<keys, bfs>> /\ result' # "empty"
  BY DEF Query, Ask, Step, OldStep, RangeDisjoint, RangeContained, RangeSplit,
         DoubtUndefined, DoubtRejected, DoubtAccepted, DoubtSplit, OldDoubtSplit,
         ReturnFalse, Recurse, Running
<1>3. TypeOK /\ FiltersHoldKeys
  BY DEF LInv, LifeTypeOK, SearchIsRight
<1>4. TypeOK' /\ SearchIsRight'
  <2>1. FiltersHoldKeys'
    BY <1>2, <1>3 DEF FiltersHoldKeys, Mask
  <2>2. CASE Ask
    <3>1. IInv' /\ VInv'
      BY <1>3, <2>2, AskKeepsIInv, AskKeepsVInv
    <3> QED
      BY <2>1, <3>1 DEF SearchIsRight, IInv
  <2>3. CASE kind = "old Rosetta" /\ OldStep
    <3>1. TypeOK'
      BY <1>3, <2>3, OldStepKeepsTypes
    <3>2. UNCHANGED <<low, high>>
      BY <2>3 DEF OldStep, RangeDisjoint, RangeContained, RangeSplit, DoubtUndefined,
         DoubtRejected, DoubtAccepted, OldDoubtSplit, ReturnFalse, Recurse
    <3>3. ASSUME NarrowRange'
          PROVE  IInv'
      <4>1. NarrowRange /\ IInv
        BY <3>2, <3>3 DEF NarrowRange, LInv, SearchIsRight
      <4> QED
        BY <2>3, <4>1, NarrowOldStepIsStep, StepKeepsIInv
    <3> QED
      BY <1>1, <2>1, <2>3, <3>1, <3>3 DEF SearchIsRight
  <2>4. CASE kind # "old Rosetta" /\ Step
    <3>1. IInv' /\ VInv'
      BY <2>4, StepKeepsIInv, StepKeepsVInv DEF LInv, SearchIsRight
    <3> QED
      BY <2>1, <3>1 DEF SearchIsRight, IInv
  <2> QED
    BY <2>2, <2>3, <2>4 DEF Query
<1>5. LifeTypeOK'
  BY <1>1, <1>4 DEF LInv, LifeTypeOK
<1>6. ObjectIsPrefix' /\ ObjectIsUsable'
  BY <1>1, <1>2 DEF LInv, ObjectIsPrefix, ObjectIsUsable, AlwaysWhole, UpperLevels, bfTest
<1> QED
  BY <1>1, <1>4, <1>5, <1>6, SameImage DEF LInv

\* An inserted key reaches every level and every unit.
LEMMA InsertKeepsLInv ==
    ASSUME LInv, Insert
    PROVE  LInv'
<1>1. /\ object \in {"built", "reopened"}
      /\ Len(units) = Len(built.units)
      /\ insertKey
      /\ bfs' = bfTest(bfs', units')
      /\ built' = [levels |-> UpperLevels(bfs'), units |-> units']
      /\ UNCHANGED <<kind, object, image>>
  BY DEF Insert, AllUnitsThere
<1>2. PICK key \in keys' : keys' = keys \cup {key} /\ units' = bfAdd(units, key)
  BY DEF Insert
<1>3. /\ result \in {"ready", "true", "false"} /\ result' = "ready"
      /\ keys' \in KeySets
      /\ UNCHANGED <<low, high, stack, min_accept>>
  BY <1>1 DEF insertKey
<1>4. keys' \in SUBSET Word /\ key \in Word
  BY <1>2, <1>3, KeySetsAssumption
<1>5. /\ Len(units) \in Nat /\ units' \in Seq(SUBSET Word) /\ Len(units') = Len(units)
      /\ \A j \in 1 .. Len(units) : units'[j] = units[j] \cup {key}
  BY <1>2, <1>4 DEF LInv, LifeTypeOK, bfAdd
<1>6. PICK new \in Word, F \in Spurious :
        /\ keys' = keys \cup {new}
        /\ bfs' = [i \in Level |-> bfs[i] \cup {Mask(new, i)}
                                     \cup {w \in Word : <<i, w>> \in F}]
  BY <1>1 DEF insertKey
<1>7. TypeOK'
  <2>1. bfs' \in [Level -> SUBSET Word]
    <3>1. \A i \in Level : Mask(new, i) \in Word
      BY MaskIsAWord
    <3>2. bfs \in [Level -> SUBSET Word]
      BY DEF LInv, LifeTypeOK, TypeOK
    <3> QED
      BY <1>6, <3>1, <3>2
  <2> QED
    BY <1>3, <1>4, <2>1 DEF LInv, LifeTypeOK, TypeOK, Results
<1>8. FiltersHoldKeys'
  <2>1. \A k \in keys, i \in Level : Mask(k, i) \in bfs[i]
    BY DEF LInv, SearchIsRight, FiltersHoldKeys
  <2>2. \A k \in keys', i \in Level : Mask(k, i) \in bfs'[i]
    BY <1>6, <2>1
  <2> QED
    BY <2>2 DEF FiltersHoldKeys, Mask
<1>9. stack' = << >>
  BY <1>3 DEF LInv, LifeTypeOK, TypeOK
<1>10. SearchIsRight'
  BY <1>3, <1>7, <1>8, <1>9, ResetIsRight DEF SearchIsRight
<1>11. ObjectIsPrefix'
  <2>1. bfs' = bfTest(UpperLevels(bfs'), units')
    BY <1>1, bfTestLevels
  <2>2. \A j \in 1 .. Len(units') : keys' \subseteq units'[j]
    BY <1>2, <1>3, <1>5 DEF LInv, ObjectIsPrefix
  <2> QED
    BY <1>1, <1>5, <2>1, <2>2 DEF ObjectIsPrefix, UpperLevels, bfTest
<1>12. ObjectIsUsable' /\ LifeTypeOK'
  BY <1>1, <1>3, <1>5, <1>7 DEF LInv, ObjectIsUsable, LifeTypeOK
<1> QED
  BY <1>1, <1>10, <1>11, <1>12, SameImage DEF LInv

\* Only an object with all its units is written.
LEMMA serializeKeepsLInv ==
    ASSUME LInv, serialize
    PROVE  LInv'
<1>1. /\ object \in {"built", "reopened"} /\ ~HasNullSlot
      /\ image' = [levels |-> UpperLevels(bfs), units |-> units, keys |-> keys, whole |-> built]
      /\ UNCHANGED <<kind, object, units, built>>
      /\ UNCHANGED <<keys, bfs, low, high, stack, result, min_accept>>
  BY DEF serialize, Written, vars
<1>2. result # "empty" /\ keys \in KeySets
  BY <1>1 DEF LInv, ObjectIsUsable
<1>3. object = "built" \/ AlwaysWhole
  BY <1>1 DEF HasNullSlot
<1>4. built.units = units
  BY <1>2, <1>3 DEF LInv, ObjectIsPrefix, LifeTypeOK
<1>5. UpperLevels(bfs) \in [0 .. LastLevel - 1 -> SUBSET Word]
  <2>1. \A i \in 0 .. LastLevel - 1 : i \in Level
    BY LevelsAssumption DEF Level, LastLevel
  <2> QED
    BY <2>1 DEF LInv, LifeTypeOK, TypeOK, UpperLevels
<1>6. LifeTypeOK'
  BY <1>1, <1>2, <1>5 DEF LInv, LifeTypeOK, TypeOK
<1>7. ImageHoldsKeys'
  <2>1. \A k \in keys, i \in 0 .. LastLevel - 1 : Mask(k, i) \in UpperLevels(bfs)[i]
    <3>1. \A i \in 0 .. LastLevel - 1 : i \in Level
      BY LevelsAssumption DEF Level, LastLevel
    <3> QED
      BY <3>1 DEF LInv, SearchIsRight, FiltersHoldKeys, UpperLevels
  <2>2. \A j \in 1 .. Len(units) : keys \subseteq units[j]
    BY <1>2 DEF LInv, ObjectIsPrefix
  <2> QED
    BY <1>1, <2>1, <2>2 DEF ImageHoldsKeys, Mask
<1>8. ImageIsComplete'
  BY <1>1, <1>2, <1>4 DEF LInv, ObjectIsPrefix, ImageIsComplete
<1>9. SearchIsRight'
  BY <1>1 DEF LInv, SearchIsRight, FiltersHoldKeys, NarrowRange, Mask, IInv, VInv,
     TypeOK, TilingInvariant, NodesAligned, CallsCoverTheRest, NothingBehind, DoubtInside,
     WholeRangeAtRoot, NoFalseNegative, SeekIsLowerBound, UndefinedOnlyOnWholeRange,
     KeysInRange, End, Size, VouchInvariant, AnswerIsLeastVouched, NodesInAncestors,
     AncestorsAsked, NothingVouchedBehind, Ancestors, VouchedBy, InsideRange
<1>10. ObjectIsPrefix' /\ ObjectIsUsable'
  BY <1>1 DEF LInv, ObjectIsPrefix, ObjectIsUsable, AlwaysWhole, UpperLevels, bfTest, Idle
<1> QED
  BY <1>6, <1>7, <1>8, <1>9, <1>10 DEF LInv

\* Opening fewer units leaves filters that hold every key.
LEMMA deSerializeKeepsLInv ==
    ASSUME LInv, deSerialize
    PROVE  LInv'
<1>1. /\ object = "none" /\ image # none
      /\ bfs' = bfTest(image.levels, units')
      /\ keys' = image.keys /\ built' = image.whole
      /\ object' = "reopened" /\ result' = "ready"
      /\ UNCHANGED <<low, high, stack, min_accept, kind, image>>
  BY DEF deSerialize, ReadBack
<1>2. PICK open_size \in 0 .. Len(image.units) :
        /\ AlwaysWhole => open_size = Len(image.units)
        /\ units' = SubSeq(image.units, 1, open_size)
  BY DEF deSerialize
<1>3. /\ image.levels \in [0 .. LastLevel - 1 -> SUBSET Word]
      /\ image.units \in Seq(SUBSET Word)
      /\ image.keys \in KeySets /\ image.keys \in SUBSET Word
      /\ image.whole.levels = image.levels /\ image.whole.units = image.units
  BY <1>1, KeySetsAssumption DEF LInv, LifeTypeOK, ImageIsComplete
<1>4. /\ units' \in Seq(SUBSET Word) /\ Len(units') = open_size
      /\ open_size \in Nat /\ open_size <= Len(image.units)
      /\ \A j \in 1 .. open_size : j \in 1 .. Len(image.units) /\ units'[j] = image.units[j]
  BY <1>2, <1>3
<1>5. \A j \in 1 .. Len(units') : image.keys \subseteq units'[j]
  BY <1>1, <1>4 DEF LInv, ImageHoldsKeys
<1>6. stack' = << >>
  BY <1>1 DEF LInv, LifeTypeOK, TypeOK, ObjectIsUsable, Idle
<1>7. TypeOK'
  <2>1. bfs' \in [Level -> SUBSET Word]
    BY <1>1, <1>3, bfTestType
  <2> QED
    BY <1>1, <1>3, <1>6, <2>1 DEF LInv, LifeTypeOK, TypeOK, Results
<1>8. FiltersHoldKeys'
  <2>1. \A k \in image.keys, i \in 0 .. LastLevel - 1 : Mask(k, i) \in image.levels[i]
    BY <1>1 DEF LInv, ImageHoldsKeys
  <2>2. \A k \in image.keys, i \in Level : Mask(k, i) \in bfTest(image.levels, units')[i]
    BY <1>3, <1>5, <2>1, LevelsAndUnitsHoldKeys
  <2> QED
    BY <1>1, <2>2 DEF FiltersHoldKeys, Mask
<1>9. SearchIsRight'
  BY <1>1, <1>6, <1>7, <1>8, ResetIsRight DEF SearchIsRight
<1>10. ObjectIsPrefix'
  <2>1. UpperLevels(bfs') = image.levels
    <3>1. UpperLevels(bfs') = UpperLevels(image.levels)
      BY <1>1, bfTestLevels
    <3> QED
      BY <1>3, <3>1 DEF UpperLevels
  <2>2. AlwaysWhole' = AlwaysWhole
    BY <1>1 DEF AlwaysWhole
  <2> QED
    BY <1>1, <1>2, <1>3, <1>4, <1>5, <2>1, <2>2 DEF ObjectIsPrefix, UpperLevels, bfTest
<1>11. ObjectIsUsable' /\ LifeTypeOK'
  BY <1>1, <1>3, <1>4, <1>7 DEF LInv, ObjectIsUsable, LifeTypeOK
<1> QED
  BY <1>1, <1>9, <1>10, <1>11, SameImage DEF LInv

\* A step that does nothing but take the object out of use.
LEMMA EndOfLifeKeepsLInv ==
    ASSUME LInv, object' \in {object, "none", "crashed"}, object' = "none" => Idle,
           UNCHANGED <<vars, kind, units, image, built>>
    PROVE  LInv'
<1>1. /\ UNCHANGED <<kind, units, image, built>>
      /\ UNCHANGED <<keys, bfs, low, high, stack, result, min_accept>>
  BY DEF vars
<1>2. LifeTypeOK'
  BY <1>1 DEF LInv, LifeTypeOK, TypeOK
<1>3. SearchIsRight'
  BY <1>1 DEF LInv, SearchIsRight, FiltersHoldKeys, NarrowRange, Mask, IInv, VInv,
     TypeOK, TilingInvariant, NodesAligned, CallsCoverTheRest, NothingBehind, DoubtInside,
     WholeRangeAtRoot, NoFalseNegative, SeekIsLowerBound, UndefinedOnlyOnWholeRange,
     KeysInRange, End, Size, VouchInvariant, AnswerIsLeastVouched, NodesInAncestors,
     AncestorsAsked, NothingVouchedBehind, Ancestors, VouchedBy, InsideRange
<1>4. ObjectIsPrefix' /\ ObjectIsUsable'
  BY <1>1 DEF LInv, ObjectIsPrefix, ObjectIsUsable, AlwaysWhole, UpperLevels, bfTest, Idle
<1> QED
  BY <1>1, <1>2, <1>3, <1>4, SameImage DEF LInv

LEMMA NextKeepsLInv ==
    LInv /\ [LifeNext]_allvars => LInv'
<1> SUFFICES ASSUME LInv, [LifeNext]_allvars
             PROVE  LInv'
  OBVIOUS
<1>1. CASE Build
  BY <1>1, BuildKeepsLInv
<1>2. CASE Query
  BY <1>2, QueryKeepsLInv
<1>3. CASE Insert
  BY <1>3, InsertKeepsLInv
<1>4. CASE InsertMissingUnit
  BY <1>4, EndOfLifeKeepsLInv DEF InsertMissingUnit
<1>5. CASE serialize
  BY <1>5, serializeKeepsLInv
<1>6. CASE SerializeNullSlot
  BY <1>6, EndOfLifeKeepsLInv DEF SerializeNullSlot
<1>7. CASE Delete
  BY <1>7, EndOfLifeKeepsLInv DEF Delete
<1>8. CASE deSerialize
  BY <1>8, deSerializeKeepsLInv
<1>9. CASE UNCHANGED allvars
  <2>1. UNCHANGED <<vars, kind, units, image, built>> /\ object' = object
    BY <1>9 DEF allvars, life
  <2>2. object = "none" => Idle
    BY DEF LInv, ObjectIsUsable
  <2> QED
    BY <2>1, <2>2, EndOfLifeKeepsLInv
<1> QED
  BY <1>1, <1>2, <1>3, <1>4, <1>5, <1>6, <1>7, <1>8, <1>9 DEF LifeNext

\* The invariant holds in every behaviour.
LEMMA LifeInvariantHolds ==
    LifeSpec => []LInv
<1>1. LifeInit => LInv
  <2> SUFFICES ASSUME LifeInit
               PROVE  LInv
    OBVIOUS
  <2>1. Init /\ result = "empty" /\ kind \in Kinds /\ object = "none"
        /\ units = << >> /\ image = none
    BY DEF LifeInit, Init
  <2> QED
    BY <2>1, InitIsRight DEF LInv, LifeTypeOK, SearchIsRight, ObjectIsPrefix,
       ObjectIsUsable, Idle, ImageHoldsKeys, ImageIsComplete
<1> QED
  BY <1>1, NextKeepsLInv, PTL DEF LifeSpec

----------------------------------------------------------------------------
(* What follows for the owner of the filter.                               *)

\* Every variable keeps its type through all lives, and the recursion of every
\* class stays above the last level, the first Rosetta's on wide ranges included.
THEOREM LifeTypesCorrect ==
    LifeSpec => []LifeTypeOK
<1>1. LInv => LifeTypeOK
  BY DEF LInv
<1> QED
  BY <1>1, LifeInvariantHolds, PTL

\* No image loses a level or a unit, also when what was read back is written again.
THEOREM ImagesAreComplete ==
    LifeSpec => []ImageIsComplete
<1>1. LInv => ImageIsComplete
  BY DEF LInv
<1> QED
  BY <1>1, LifeInvariantHolds, PTL

\* The first Rosetta denies no range of fewer than 2^IntBits words that holds a
\* key: the shift that goes wrong in doubt is out of its reach there.
THEOREM NarrowRangesAreRight ==
    LifeSpec => []NoFalseNegativeInNarrowRange
<1>1. LInv => NoFalseNegativeInNarrowRange
  BY DEF LInv, SearchIsRight, NarrowRange, IInv, NoFalseNegative, NoFalseNegativeInNarrowRange
<1> QED
  BY <1>1, LifeInvariantHolds, PTL

\* What fewer filters vouch for is vouched for by more that say less.
LEMMA VouchedByMore ==
    ASSUME NEW f, NEW g, NEW w, VouchedBy(f, w), \A i \in Level : f[i] \subseteq g[i]
    PROVE  VouchedBy(g, w)
  BY DEF VouchedBy

\* The units in memory say "maybe" where all the units do.
LEMMA WholeSaysLess ==
    ASSUME LInv, result # "empty"
    PROVE  \A i \in Level : bfTest(built.levels, built.units)[i] \subseteq bfs[i]
<1>1. Len(units) \in Nat /\ Len(built.units) \in Nat
  <2>1. units \in Seq(SUBSET Word) /\ built.units \in Seq(SUBSET Word)
    BY DEF LInv, ObjectIsPrefix, LifeTypeOK
  <2> QED
    BY <2>1
<1>2. Len(units) <= Len(built.units)
  BY DEF LInv, ObjectIsPrefix
<1>3. \A j \in 1 .. Len(units) : j \in 1 .. Len(built.units)
  BY <1>1, <1>2
<1>4. \A j \in 1 .. Len(units) : units[j] = built.units[j]
  BY DEF LInv, ObjectIsPrefix
<1>5. bfs = bfTest(built.levels, units)
  BY DEF LInv, ObjectIsPrefix
<1> QED
  BY <1>3, <1>4, <1>5 DEF bfTest

\* A filter opened with fewer units says "false" only where the filter with all
\* of them would.
THEOREM FewerUnitsAnswerMoreOften ==
    LifeSpec => []FewerUnitsAnswerMore
<1>1. LInv => FewerUnitsAnswerMore
  <2> SUFFICES ASSUME LInv, result = "false", kind # "old Rosetta",
                      NEW w \in Word, VouchedBy(bfTest(built.levels, built.units), w)
               PROVE  FALSE
    BY DEF FewerUnitsAnswerMore
  <2>2. \A i \in Level : bfTest(built.levels, built.units)[i] \subseteq bfs[i]
    BY WholeSaysLess
  <2>3. VouchedBy(bfs, w)
    BY <2>2, VouchedByMore
  <2> QED
    BY <2>3 DEF LInv, SearchIsRight, VInv, AnswerIsLeastVouched
<1> QED
  BY <1>1, LifeInvariantHolds, PTL

----------------------------------------------------------------------------
(* Refinement.                                                             *)

\* What RangeFilter sees of a class it speaks of.
LEMMA PromisedIsTheFilter ==
    ASSUME kind # "old Rosetta", kind' = kind, [Promise!Next]_(Promise!vars)
    PROVE  [PromiseForLife!Next]_(PromiseForLife!vars)
  BY DEF Promise!Next, Promise!vars, Promise!Construct, Promise!ChangeKeys, Promise!Ask,
     Promise!Answer, Promise!AnswerFalse, Promise!AnswerTrue, Promise!LeaveUndefined,
     Promise!KeysInRange, Promise!WholeKeySpace,
     PromiseForLife!Next, PromiseForLife!vars, PromiseForLife!Construct,
     PromiseForLife!ChangeKeys, PromiseForLife!Ask, PromiseForLife!Answer,
     PromiseForLife!AnswerFalse, PromiseForLife!AnswerTrue, PromiseForLife!LeaveUndefined,
     PromiseForLife!KeysInRange, PromiseForLife!WholeKeySpace, Promised

\* Every step of a life is a step of RangeFilter, or does not show there: what is
\* built, given a key or read back changes the keys, and all else only answers.
LEMMA LifeImplementsPromise ==
    ASSUME LInv, LInv', [LifeNext]_allvars
    PROVE  [PromiseForLife!Next]_(PromiseForLife!vars)
<1>1. kind' = kind
  BY DEF LifeNext, Build, Query, Insert, InsertMissingUnit, serialize, SerializeNullSlot,
         Delete, deSerialize, ReadBack, allvars, life
<1>2. CASE kind = "old Rosetta"
  BY <1>1, <1>2 DEF Promised, PromiseForLife!vars
<1>3. ASSUME kind # "old Rosetta"
      PROVE  [Promise!Next]_(Promise!vars)
  <2>1. ASSUME UNCHANGED vars
        PROVE  [Promise!Next]_(Promise!vars)
    BY <2>1 DEF vars, Promise!vars
  <2>2. ASSUME Idle, keys' \in KeySets, result' = "ready",
               UNCHANGED <<low, high, min_accept>>
        PROVE  [Promise!Next]_(Promise!vars)
    BY <2>2 DEF LInv, LifeTypeOK, TypeOK, Results, Idle,
                Promise!Next, Promise!Construct, Promise!ChangeKeys
  <2>3. CASE Build
    BY <2>2, <2>3 DEF Build, LInv, ObjectIsUsable
  <2>4. CASE Query
    <3>1. [Next]_vars
      BY <1>3, <2>4 DEF Query, Next
    <3>2. IInv /\ IInv'
      BY <1>1, <1>3 DEF LInv, SearchIsRight
    <3> QED
      BY <3>1, <3>2, StepImplementsPromise
  <2>5. CASE Insert
    <3>1. Idle /\ result' = "ready" /\ UNCHANGED <<low, high, min_accept>>
      BY <2>5 DEF Insert, insertKey, Idle
    <3>2. keys' \in KeySets
      BY <2>5 DEF Insert, insertKey
    <3> QED
      BY <2>2, <3>1, <3>2
  <2>6. CASE deSerialize
    <3>1. Idle /\ result' = "ready" /\ UNCHANGED <<low, high, min_accept>>
      BY <2>6 DEF deSerialize, ReadBack, LInv, ObjectIsUsable
    <3>2. keys' \in KeySets
      BY <2>6 DEF deSerialize, ReadBack, LInv, LifeTypeOK
    <3> QED
      BY <2>2, <3>1, <3>2
  <2> QED
    BY <2>1, <2>3, <2>4, <2>5, <2>6
       DEF LifeNext, InsertMissingUnit, serialize, SerializeNullSlot, Delete, allvars
<1> QED
  BY <1>1, <1>2, <1>3, PromisedIsTheFilter

\* Through all its lives every class but the first Rosetta keeps what RangeFilter
\* promises (its safety part; that an answer comes is checked by TLC).
THEOREM KeepsPromiseForLife ==
    LifeSpec => PromiseForLife!Spec
<1>1. LifeInit => PromiseForLife!Init
  BY DEF LifeInit, Init, Promised, PromiseForLife!Init
<1> QED
  BY <1>1, LifeInvariantHolds, LifeImplementsPromise, PTL DEF LifeSpec, PromiseForLife!Spec

=============================================================================

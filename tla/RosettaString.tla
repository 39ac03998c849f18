--------------------------- MODULE RosettaString ---------------------------
(***************************************************************************)
(* The bit-string Rosetta filter: the overloads of range_query, doubt and  *)
(* seek that walk over strings of '0' and '1'.                             *)
(*                                                                         *)
(* The walk is that of RosettaU64, with one difference: the right child is *)
(* made by assigning p[l - 1] = '1' in the caller's own p.  In             *)
(* include/rosetta.hpp and in both elastic_rosetta.hpp p is passed by      *)
(* value, and each call has a string of its own.  In                       *)
(* include/new/rosetta.hpp it is passed by reference: there is one string, *)
(* and nothing sets a bit back to '0' when a call returns false.           *)
(*                                                                         *)
(* A bit string of levels_ bits is written as the number it spells; its    *)
(* lexicographic order is then the order of the numbers.                   *)
(***************************************************************************)
EXTENDS Integers, Sequences

CONSTANTS
    levels_,           \* bits in a key
    Pow2,              \* Pow2[n] is 2^n
    ByteBits,          \* bits in a char: 8; divides levels_
    KeySets,           \* the key sets the constructor may be given
    Spurious,          \* the wrong answers of the filters, as in RosettaU64
    Passings           \* ways to pass p: "value", "reference", or both

Level == 0 .. levels_ - 1
Word == 0 .. Pow2[levels_] - 1

ASSUME LevelsAssumption == levels_ \in Nat \ {0}

ASSUME Pow2Assumption ==
    /\ Pow2 \in [0 .. levels_ -> Nat \ {0}]
    /\ Pow2[0] = 1
    /\ \A n \in Level : Pow2[n + 1] = 2 * Pow2[n]

ASSUME ByteAssumption ==
    ByteBits \in 1 .. levels_ /\ levels_ % ByteBits = 0

ASSUME KeySetsAssumption == \A K \in KeySets : K \subseteq Word

ASSUME SpuriousAssumption ==
    \A F \in Spurious : F \subseteq Level \X Word

ASSUME PassingsAssumption == Passings \subseteq {"value", "reference"}

VARIABLES
    passing,      \* how this version passes p
    keys,         \* the keys the filter was built over (history)
    bfs,          \* bfs[i]: the prefixes for which level i's test() is true
    low, high,    \* arguments of the running or last query
    p,            \* the string shared by all calls, if there is one
    stack,        \* the calls still to be made, innermost first
    result,       \* "running", or how the last query ended
    leaf,         \* the bits of the leaf the query stopped at (history)
    min_accept    \* the output parameter: a string of bytes

vars == <<passing, keys, bfs, low, high, p, stack, result, leaf, min_accept>>

\* What a query leaves alone.
filter == <<passing, keys, bfs>>

----------------------------------------------------------------------------
(* Bit strings.                                                            *)

\* s.substr(0, i + 1), padded with '0' up to levels_ bits.
Prefix(s, i) == s - (s % Pow2[levels_ - i - 1])

\* s with s[i] = '1'.
SetBit(s, i) ==
    IF (s \div Pow2[levels_ - i - 1]) % 2 = 1 THEN s ELSE s + Pow2[levels_ - i - 1]

NumBytes == levels_ \div ByteBits

\* Byte i, from 1, of the bit string s.
Byte(s, i) == (s \div Pow2[levels_ - i * ByteBits]) % Pow2[ByteBits]

\* Variant: the string ends at the first zero byte.
bitArray2StrUpToZero(s) ==
    LET n == CHOOSE i \in 0 .. NumBytes :
                 /\ \A j \in 1 .. i : Byte(s, j) # 0
                 /\ i < NumBytes => Byte(s, i + 1) = 0
    IN  [i \in 1 .. n |-> Byte(s, i)]

\* The bytes of s that are not zero, one after the other: a zero byte is left
\* out, wherever it is.
bitArray2Str(s) ==
    LET ret[i \in 0 .. NumBytes] ==
          IF i = 0 THEN << >>
          ELSE IF Byte(s, i) # 0 THEN Append(ret[i - 1], Byte(s, i)) ELSE ret[i - 1]
    IN  ret[NumBytes]

\* The bits of the bytes of str, filled up with '0' at the end.
str2BitArray(str) ==
    LET ret[i \in 0 .. Len(str)] ==
          IF i = 0 THEN 0 ELSE ret[i - 1] + str[i] * Pow2[levels_ - i * ByteBits]
    IN  ret[Len(str)]

----------------------------------------------------------------------------
(* The filter.                                                             *)

\* Keys come in as strings of levels_ bits (preTreatment, str2BitArray).
Construct ==
    /\ result = "empty"
    /\ \E K \in KeySets, F \in Spurious :
         /\ keys' = K
         /\ bfs' = [i \in Level |-> {Prefix(k, i) : k \in K}
                                      \cup {w \in Word : <<i, w>> \in F}]
    /\ result' = "ready"
    /\ UNCHANGED <<passing, low, high, p, stack, leaf, min_accept>>

----------------------------------------------------------------------------
(* Queries.                                                                *)

\* A call still to be made.  own is the caller's p as it was when the call's
\* caller started; right says that the caller sets p[l - 2] = '1' first.
Calls == [fn : {"range_query", "doubt"}, l : 1 .. levels_ + 1,
          own : Word, right : BOOLEAN]

top == Head(stack)

\* p as the first pending call finds it.
node == LET caller == IF passing = "reference" THEN p ELSE top.own
        IN  IF top.right THEN SetBit(caller, top.l - 2) ELSE caller

\* p.substr(0, l - 1) followed by '1's.
upper_bound ==
    (IF top.l = 1 THEN 0 ELSE Prefix(node, top.l - 2)) + Pow2[levels_ - top.l + 1] - 1

\* Variant: a node that ends where the range starts is taken as outside.
DisjointAtLow == node > high \/ low >= upper_bound

Disjoint == node > high \/ low > upper_bound

\* Variant: only the upper end of the range is compared.
ContainedBelowHigh == high >= upper_bound

Contained == node >= low /\ high >= upper_bound

Running(fn) == result = "running" /\ top.fn = fn

Ask ==
    /\ result \in {"ready", "true", "false"}
    /\ low' \in Word
    /\ high' \in Word
    /\ p' = 0
    /\ stack' = <<[fn |-> "range_query", l |-> 1, own |-> 0, right |-> FALSE]>>
    /\ result' = "running"
    /\ leaf' = 0
    /\ min_accept' = << >>
    /\ UNCHANGED filter

\* The assignments to p that precede a call reach the shared string.
Share == p' = IF passing = "reference" THEN node ELSE p

\* Variants: the last call's false is not passed on; a call is made again.
ReturnFalseUnreported ==
    /\ Share
    /\ stack' = Tail(stack)
    /\ UNCHANGED <<filter, low, high, result, leaf, min_accept>>

ReturnFalseAgain ==
    UNCHANGED vars

ReturnFalse ==
    /\ Share
    /\ stack' = Tail(stack)
    /\ result' = IF Len(stack) = 1 THEN "false" ELSE "running"
    /\ UNCHANGED <<filter, low, high, leaf, min_accept>>

\* Variant: the calls start from the string the caller was given.
ChildOfCaller(fn, isRight) ==
    [fn |-> fn, l |-> top.l + 1, own |-> top.own, right |-> isRight]

Child(fn, isRight) == [fn |-> fn, l |-> top.l + 1, own |-> node, right |-> isRight]

Recurse(fn) ==
    /\ Share
    /\ stack' = <<Child(fn, FALSE), Child(fn, TRUE)>> \o Tail(stack)
    /\ UNCHANGED <<filter, low, high, result, leaf, min_accept>>

RangeDisjoint ==
    /\ Running("range_query")
    /\ Disjoint
    /\ ReturnFalse

RangeContained ==
    /\ Running("range_query")
    /\ ~Disjoint
    /\ Contained
    /\ Share
    /\ stack' = <<[fn |-> "doubt", l |-> top.l, own |-> node, right |-> FALSE]>>
                   \o Tail(stack)
    /\ UNCHANGED <<filter, low, high, result, leaf, min_accept>>

RangeSplit ==
    /\ Running("range_query")
    /\ ~Disjoint
    /\ ~Contained
    /\ Recurse("range_query")

\* p.substr(0, l - 1) is looked up in bfs[l - 2]; for l = 1 there is none.
DoubtUndefined ==
    /\ Running("doubt")
    /\ top.l = 1
    /\ stack' = << >>
    /\ result' = "undefined"
    /\ UNCHANGED <<filter, low, high, p, leaf, min_accept>>

Vouched == Prefix(node, top.l - 2) \in bfs[top.l - 2]

DoubtRejected ==
    /\ Running("doubt")
    /\ top.l > 1
    /\ ~Vouched
    /\ ReturnFalse

DoubtAccepted ==
    /\ Running("doubt")
    /\ top.l > levels_
    /\ Vouched
    /\ Share
    /\ leaf' = node
    /\ min_accept' = bitArray2Str(node)
    /\ result' = "true"
    /\ stack' = << >>
    /\ UNCHANGED <<filter, low, high>>

DoubtSplit ==
    /\ Running("doubt")
    /\ top.l > 1
    /\ top.l <= levels_
    /\ Vouched
    /\ Recurse("doubt")

Step == \/ RangeDisjoint \/ RangeContained \/ RangeSplit
        \/ DoubtUndefined \/ DoubtRejected \/ DoubtAccepted \/ DoubtSplit

Init ==
    /\ passing \in Passings
    /\ keys = {}
    /\ bfs = [i \in Level |-> {}]
    /\ low = 0
    /\ high = 0
    /\ p = 0
    /\ stack = << >>
    /\ result = "empty"
    /\ leaf = 0
    /\ min_accept = << >>

Next == Construct \/ Ask \/ Step

Spec == Init /\ [][Next]_vars

\* A query runs in its caller's thread and waits for nothing.
FairSpec == Spec /\ WF_vars(Step)

----------------------------------------------------------------------------
(* Properties.                                                             *)

Results == {"empty", "ready", "running", "true", "false", "undefined"}

TypeOK ==
    /\ passing \in Passings
    /\ keys \in SUBSET Word
    /\ bfs \in [Level -> SUBSET Word]
    /\ {low, high, p, leaf} \subseteq Word
    /\ stack \in Seq(Calls)
    /\ result \in Results
    /\ min_accept \in Seq(1 .. Pow2[ByteBits] - 1)
    /\ result = "running" <=> stack # << >>

KeysInRange == {k \in keys : low <= k /\ k <= high}

\* A range that range_query denies holds no key.
NoFalseNegative == result = "false" => KeysInRange = {}

\* With p passed by value this is so; with p passed by reference it is not.
NoFalseNegativeByValue == passing = "value" => NoFalseNegative

\* A query that comes to "true" stopped at a leaf inside the range which the
\* last filter vouches for, however p was shared on the way.
AcceptedLeafInRange ==
    result = "true" => low <= leaf /\ leaf <= high /\ leaf \in bfs[levels_ - 1]

\* The string that seek returns, converted as every version converts a key, is
\* the leaf it stopped at when no zero byte stands before another byte there,
\* and a greater one when one does: a scan from it would start too late.
SeekStringNamesLeaf ==
    result = "true" =>
        LET ZeroInside == \E i, j \in 1 .. NumBytes :
                              i < j /\ Byte(leaf, i) = 0 /\ Byte(leaf, j) # 0
            key == str2BitArray(min_accept)
        IN  IF ZeroInside THEN key > leaf ELSE key = leaf

\* The call as an integer search makes it, when p is passed by value.
AsIntegerCall(c) ==
    [fn |-> c.fn, l |-> c.l,
     p |-> IF c.right THEN SetBit(c.own, c.l - 2) ELSE c.own]

\* With p passed by value the two searches are one: call by call, the string
\* search does what the integer search of RosettaU64 does.  Of a search with p
\* passed by reference it is said nothing: it is mapped to an unused filter.
ByValue(x, unused) == IF passing = "value" THEN x ELSE unused

IntegerSearch == INSTANCE RosettaU64 WITH
    keys <- ByValue(keys, {}),
    bfs <- ByValue(bfs, [i \in Level |-> {}]),
    low <- ByValue(low, 0),
    high <- ByValue(high, 0),
    stack <- ByValue([n \in DOMAIN stack |-> AsIntegerCall(stack[n])], << >>),
    result <- ByValue(result, "empty"),
    min_accept <- ByValue(leaf, 0)

ImplementsIntegerSearch == IntegerSearch!FairSpec

\* Every query ends.
QueryEnds == result = "running" ~> result # "running"

=============================================================================

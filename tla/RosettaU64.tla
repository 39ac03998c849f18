---------------------------- MODULE RosettaU64 ----------------------------
(***************************************************************************)
(* The integer Rosetta filter: construction, range_query, doubt and seek   *)
(* of include/new/rosetta.hpp.  Elastic_Rosetta in                         *)
(* include/new/elastic_rosetta.hpp runs the same recursion over bfTest.    *)
(*                                                                         *)
(* Level i keeps a Bloom filter over the (i+1)-bit prefixes of the keys,   *)
(* each prefix written as the word whose remaining bits are zero.  A node  *)
(* (p, l) of the search is the set of the words that share the first l-1   *)
(* bits of p.  range_query walks down from the root until a node lies      *)
(* inside the queried range; doubt then asks the filters, level by level,  *)
(* whether the node holds a key.                                           *)
(*                                                                         *)
(* Each recursive function returns true as soon as its first recursive     *)
(* call does, and otherwise returns what its second call returns.  The     *)
(* call stack is therefore the sequence of the calls still to be made,     *)
(* innermost first: a call that returns false is dropped, a call that      *)
(* recurses is replaced by its two calls, and a call that returns true     *)
(* ends the query.                                                         *)
(***************************************************************************)
EXTENDS Integers, Sequences

CONSTANTS
    levels_,    \* number of levels, and of bits in a key: 64 in the code
    Pow2,       \* Pow2[n] is the word 1lu << n, and Pow2[levels_] is 2^64
    KeySets,    \* the key sets the constructor may be given
    Spurious    \* which wrong "maybe"s the filters may give: each element
                \* is a set of <<level, prefix>> pairs

Level == 0 .. levels_ - 1
MaxWord == Pow2[levels_] - 1
Word == 0 .. MaxWord

ASSUME LevelsAssumption == levels_ \in Nat \ {0}

ASSUME Pow2Assumption ==
    /\ Pow2 \in [0 .. levels_ -> Nat \ {0}]
    /\ Pow2[0] = 1
    /\ \A n \in Level : Pow2[n + 1] = 2 * Pow2[n]

\* The constructor reads keys[0] and keys[num - 1]: its caller has to give it a
\* key (MCRosettaU64).  The search is right without one, too.
ASSUME KeySetsAssumption == \A K \in KeySets : K \subseteq Word

ASSUME SpuriousAssumption ==
    \A F \in Spurious : F \subseteq Level \X Word

VARIABLES
    keys,         \* the inserted keys (history: the filter forgets them)
    bfs,          \* bfs[i]: the words for which level i's test() is true
    low, high,    \* arguments of the running or last query
    stack,        \* the calls still to be made
    result,       \* "running", or how the last query ended
    min_accept    \* the output parameter of range_query

vars == <<keys, bfs, low, high, stack, result, min_accept>>

----------------------------------------------------------------------------
(* Construction.                                                           *)

\* Variant: one bit too many masked out.
MaskOneBitMore(key, i) == key - (key % Pow2[levels_ - i])

\* key & ~((1ul << (levels_ - i - 1)) - 1).  The code masks key_vec in place
\* from the last level up; masking with ever longer masks comes to the same.
Mask(key, i) == key - (key % Pow2[levels_ - i - 1])

\* A Bloom filter never denies what was put in it and may affirm other words;
\* for up to 2^31 - 1 keys, and across reloads for less than 4 GB of data
\* (module BloomFilter).
Construct ==
    /\ result = "empty"
    /\ \E K \in KeySets, F \in Spurious :
         /\ keys' = K
         /\ bfs' = [i \in Level |-> {Mask(k, i) : k \in K}
                                      \cup {w \in Word : <<i, w>> \in F}]
    /\ result' = "ready"
    /\ UNCHANGED <<low, high, stack, min_accept>>

----------------------------------------------------------------------------
(* Queries.                                                                *)

\* The width of the node (p, l), less one.
pow_1(l) == IF l = 1 THEN MaxWord ELSE Pow2[levels_ - l + 1] - 1

\* Variant: the right child starts one word late.
pow_r_1_plus_1(l) == Pow2[levels_ - l] + 1

\* Half the width of the node: the distance of its right child.
pow_r_1(l) == Pow2[levels_ - l]

\* u64 addition.
Add(a, b) == (a + b) % Pow2[levels_]

\* Variant: a node that starts at the end of the range is taken as outside.
DisjointAtHigh(p, l) == p >= high \/ Add(p, pow_1(l)) < low

Disjoint(p, l) == p > high \/ Add(p, pow_1(l)) < low

\* Variant: only the upper end of the range is compared.
ContainedBelowHigh(p, l) == Add(p, pow_1(l)) <= high

Contained(p, l) == p >= low /\ Add(p, pow_1(l)) <= high

Calls == [fn : {"range_query", "doubt"}, p : Word, l : 1 .. levels_ + 1]

top == Head(stack)

Running(fn) == result = "running" /\ top.fn = fn

\* range_query(low, high), and seek(key) as range_query(key, UINT64_MAX).
\* Nothing requires low <= high.
Ask ==
    /\ result \in {"ready", "true", "false"}
    /\ low' \in Word
    /\ high' \in Word
    /\ stack' = <<[fn |-> "range_query", p |-> 0, l |-> 1]>>
    /\ result' = "running"
    /\ min_accept' = 0
    /\ UNCHANGED <<keys, bfs>>

\* Variants: the last call's false is not passed on; a call is made again.
ReturnFalseUnreported ==
    /\ stack' = Tail(stack)
    /\ UNCHANGED <<keys, bfs, low, high, result, min_accept>>

ReturnFalseAgain ==
    UNCHANGED vars

ReturnFalse ==
    /\ stack' = Tail(stack)
    /\ result' = IF Len(stack) = 1 THEN "false" ELSE "running"
    /\ UNCHANGED <<keys, bfs, low, high, min_accept>>

\* Variant: the right half is searched first.
ChildrenRightFirst(c) == << [c EXCEPT !.p = Add(@, pow_r_1(c.l)), !.l = @ + 1],
                            [c EXCEPT !.l = @ + 1] >>

\* The two calls a call makes: on the left half of its node, then the right.
Children(c) == << [c EXCEPT !.l = @ + 1],
                  [c EXCEPT !.p = Add(@, pow_r_1(c.l)), !.l = @ + 1] >>

Recurse ==
    /\ stack' = Children(top) \o Tail(stack)
    /\ UNCHANGED <<keys, bfs, low, high, result, min_accept>>

RangeDisjoint ==
    /\ Running("range_query")
    /\ Disjoint(top.p, top.l)
    /\ ReturnFalse

RangeContained ==
    /\ Running("range_query")
    /\ ~Disjoint(top.p, top.l)
    /\ Contained(top.p, top.l)
    /\ stack' = <<[top EXCEPT !.fn = "doubt"]>> \o Tail(stack)
    /\ UNCHANGED <<keys, bfs, low, high, result, min_accept>>

RangeSplit ==
    /\ Running("range_query")
    /\ ~Disjoint(top.p, top.l)
    /\ ~Contained(top.p, top.l)
    /\ Recurse

\* doubt(p, 1) reads bfs[l - 2] = bfs[-1]: outside the vector, undefined.
DoubtUndefined ==
    /\ Running("doubt")
    /\ top.l = 1
    /\ stack' = << >>
    /\ result' = "undefined"
    /\ UNCHANGED <<keys, bfs, low, high, min_accept>>

DoubtRejected ==
    /\ Running("doubt")
    /\ top.l > 1
    /\ top.p \notin bfs[top.l - 2]
    /\ ReturnFalse

DoubtAccepted ==
    /\ Running("doubt")
    /\ top.l > levels_
    /\ top.p \in bfs[top.l - 2]
    /\ min_accept' = top.p
    /\ result' = "true"
    /\ stack' = << >>
    /\ UNCHANGED <<keys, bfs, low, high>>

\* Variant: an inner node is searched without its filter.
DoubtSplitUnchecked ==
    /\ Running("doubt")
    /\ top.l > 1
    /\ top.l <= levels_
    /\ Recurse

DoubtSplit ==
    /\ Running("doubt")
    /\ top.l > 1
    /\ top.l <= levels_
    /\ top.p \in bfs[top.l - 2]
    /\ Recurse

Step == \/ RangeDisjoint \/ RangeContained \/ RangeSplit
        \/ DoubtUndefined \/ DoubtRejected \/ DoubtAccepted \/ DoubtSplit

----------------------------------------------------------------------------

Init ==
    /\ keys = {}
    /\ bfs = [i \in Level |-> {}]
    /\ low = 0
    /\ high = 0
    /\ stack = << >>
    /\ result = "empty"
    /\ min_accept = 0

Next == Construct \/ Ask \/ Step

Spec == Init /\ [][Next]_vars

\* A query runs in its caller's thread and waits for nothing: as long as it
\* has a call to make, the thread makes it.
FairSpec == Spec /\ WF_vars(Step)

----------------------------------------------------------------------------
(* Properties.                                                             *)

Results == {"empty", "ready", "running", "true", "false", "undefined"}

\* Every variable keeps its type, a running query has a call to make and a
\* query that is not running has none.
TypeOK ==
    /\ keys \in SUBSET Word
    /\ bfs \in [Level -> SUBSET Word]
    /\ low \in Word
    /\ high \in Word
    /\ stack \in Seq(Calls)
    /\ result \in Results
    /\ min_accept \in Word
    /\ result = "running" <=> stack # << >>

KeysInRange == {k \in keys : low <= k /\ k <= high}

\* A call on the node (p, l) decides the words p .. End - 1.
Size(l) == Pow2[levels_ - l + 1]
End(c) == c.p + Size(c.l)

\* A range that range_query denies holds no key, wherever the pruning of
\* range_query and the filters consulted by doubt cut the search.
NoFalseNegative == result = "false" => KeysInRange = {}

\* What seek returns is in the range and not above the least key there: the
\* recursion must go left before right and report the leaf it stopped at.
SeekIsLowerBound ==
    result = "true" =>
        /\ low <= min_accept /\ min_accept <= high
        /\ \A k \in KeysInRange : min_accept <= k

\* The node of level i that holds the word w lies inside the range.
InsideRange(w, i) ==
    /\ low <= Mask(w, i)
    /\ Mask(w, i) + Pow2[levels_ - i - 1] - 1 <= high

\* The word w is in the range and vouched for by the filters f: every level
\* whose node around w lies inside the range says "maybe" to that node.
VouchedBy(f, w) ==
    /\ low <= w /\ w <= high
    /\ \A i \in Level : InsideRange(w, i) => Mask(w, i) \in f[i]

\* The answer is exact: the search says "true" just when some word is vouched
\* for by every level it can be asked of, and reports the least such word.  No
\* level is skipped, none is asked in vain, and no subtree is left too early.
AnswerIsLeastVouched ==
    /\ result = "false" => \A w \in Word : ~VouchedBy(bfs, w)
    /\ result = "true" =>
         /\ VouchedBy(bfs, min_accept)
         /\ \A w \in Word : VouchedBy(bfs, w) => min_accept <= w

\* The missing level above the first one is read exactly when the range is
\* the whole key space, by range_query(0, UINT64_MAX) or by seek(0).
UndefinedOnlyOnWholeRange ==
    result \in {"true", "false", "undefined"} =>
        (result = "undefined" <=> low = 0 /\ high = MaxWord)

\* Why the search is right, as an inductive invariant.  The filters hold the
\* prefixes of the keys.  The pending calls are on aligned nodes; they stand
\* in the order of the words and cover, without gap or overlap, everything
\* from the first of them to the end of the key space; and no key of the
\* range lies before them.  doubt is only called on nodes inside the range.
FiltersHoldKeys == \A k \in keys, i \in Level : Mask(k, i) \in bfs[i]

NodesAligned ==
    \A n \in 1 .. Len(stack) :
        /\ stack[n].p % Size(stack[n].l) = 0
        /\ End(stack[n]) <= Pow2[levels_]

CallsCoverTheRest ==
    \A n \in 1 .. Len(stack) :
        End(stack[n]) = IF n = Len(stack) THEN Pow2[levels_] ELSE stack[n + 1].p

NothingBehind ==
    stack # << >> => \A k \in KeysInRange : stack[1].p <= k

DoubtInside ==
    \A n \in 1 .. Len(stack) :
        stack[n].fn = "doubt" => low <= stack[n].p /\ End(stack[n]) - 1 <= high

WholeRangeAtRoot ==
    stack # << >> /\ low = 0 /\ high = MaxWord =>
        Len(stack) = 1 /\ stack[1].l = 1

TilingInvariant ==
    /\ FiltersHoldKeys
    /\ NodesAligned
    /\ CallsCoverTheRest
    /\ NothingBehind
    /\ DoubtInside
    /\ WholeRangeAtRoot

\* And why its answer is exact.  A pending call's node lies inside the nodes it
\* came from; of those, the ones inside the range were all asked, which for a
\* call of range_query means that there is none; and no word that the filters
\* vouch for lies before the first call.
Ancestors(c) == {i \in Level : i + 2 < c.l}

NodesInAncestors ==
    \A n \in 1 .. Len(stack) : \A i \in Ancestors(stack[n]) :
        End(stack[n]) <= Mask(stack[n].p, i) + Pow2[levels_ - i - 1]

AncestorsAsked ==
    \A n \in 1 .. Len(stack) : \A i \in Ancestors(stack[n]) :
        InsideRange(stack[n].p, i) =>
            stack[n].fn = "doubt" /\ Mask(stack[n].p, i) \in bfs[i]

NothingVouchedBehind ==
    stack # << >> => \A w \in Word : VouchedBy(bfs, w) => stack[1].p <= w

VouchInvariant ==
    /\ NodesInAncestors
    /\ AncestorsAsked
    /\ NothingVouchedBehind

SearchInvariant == TilingInvariant /\ VouchInvariant

\* Every query ends.
QueryEnds == result = "running" ~> result # "running"

\* The filter does what RangeFilter promises.
Promise == INSTANCE RangeFilter

ImplementsRangeFilter == Promise!FairSpec

=============================================================================

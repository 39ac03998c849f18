--------------------------- MODULE RosettaOldU64 ---------------------------
(***************************************************************************)
(* The integer search of the first version, include/rosetta.hpp.  It is    *)
(* RosettaU64 but for the right child in doubt, p + (1 << (levels_ - l)):  *)
(* there 1 is an int, not a u64, so the distance is right only while it    *)
(* fits an int.  This version also takes keys after it was built, and      *)
(* reports none: min_accept is a history variable here.                    *)
(***************************************************************************)
EXTENDS RosettaU64

CONSTANT IntBits    \* bits of an int: 32, half of levels_

ASSUME IntBitsAssumption == IntBits \in 1 .. levels_

\* Variant: an int with one bit less.
AsU64Narrower(n) == IF n >= IntBits - 2 THEN Pow2[levels_] - Pow2[n] ELSE Pow2[n]

\* An int converted to u64: its top bit is a sign, and is extended.
AsU64(n) == IF n = IntBits - 1 THEN Pow2[levels_] - Pow2[n] ELSE Pow2[n]

\* What 1 << d may come to.  From IntBits on it is undefined; the shift
\* instruction takes the distance modulo IntBits, and a build that widens the
\* operand first shifts by d.
IntShift(d) == IF d < IntBits THEN {AsU64(d)} ELSE {AsU64(d % IntBits), Pow2[d]}

OldDoubtSplit ==
    /\ Running("doubt")
    /\ top.l > 1
    /\ top.l <= levels_
    /\ top.p \in bfs[top.l - 2]
    /\ \E half \in IntShift(levels_ - top.l) :
         stack' = << [top EXCEPT !.l = @ + 1],
                     [top EXCEPT !.p = Add(@, half), !.l = @ + 1] >> \o Tail(stack)
    /\ UNCHANGED <<keys, bfs, low, high, result, min_accept>>

OldStep == \/ RangeDisjoint \/ RangeContained \/ RangeSplit
           \/ DoubtUndefined \/ DoubtRejected \/ DoubtAccepted \/ OldDoubtSplit

\* This version takes keys between queries, too.  KeySets bounds how many; the
\* bits set for a key may let other words in.
insertKey ==
    /\ result \in {"ready", "true", "false"}
    /\ \E key \in Word, F \in Spurious :
         /\ keys \cup {key} \in KeySets
         /\ keys' = keys \cup {key}
         /\ bfs' = [i \in Level |-> bfs[i] \cup {Mask(key, i)}
                                       \cup {w \in Word : <<i, w>> \in F}]
    /\ result' = "ready"
    /\ UNCHANGED <<low, high, stack, min_accept>>

OldNext == Construct \/ insertKey \/ Ask \/ OldStep

OldSpec == Init /\ [][OldNext]_vars

----------------------------------------------------------------------------

\* On ranges of fewer than 2^32 words the old version is right: no node inside
\* such a range is wide enough for doubt to shift a one out of an int.
NoFalseNegativeInNarrowRange ==
    result = "false" /\ high - low + 1 < Pow2[IntBits] => KeysInRange = {}

=============================================================================

-------------------------- MODULE MCRosettaString --------------------------
(* RosettaString on short strings, for TLC. *)
EXTENDS RosettaString, FiniteSets

CONSTANTS MaxKeys,      \* keys in a filter
          MaxSpurious   \* false positives over all levels

MCPow2 == [n \in 0 .. levels_ |-> 2 ^ n]

MCWord == 0 .. 2 ^ levels_ - 1

\* The subsets of S with at most n elements.
AtMost(n, S) ==
    LET sub[i \in 0 .. n] ==
          IF i = 0 THEN {{}} ELSE {A \cup {x} : A \in sub[i - 1], x \in S} \cup {{}}
    IN  sub[n]

MCKeySets == AtMost(MaxKeys, MCWord)

\* A filter is only ever asked about the prefixes of its own level.
Prefixes == {x \in (0 .. levels_ - 1) \X MCWord :
                 x[2] % 2 ^ (levels_ - x[1] - 1) = 0}

MCSpurious == AtMost(MaxSpurious, Prefixes)

=============================================================================

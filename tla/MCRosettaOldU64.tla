-------------------------- MODULE MCRosettaOldU64 --------------------------
(* RosettaOldU64 with ints of half a word, for TLC. *)
EXTENDS RosettaOldU64, FiniteSets

MCPow2 == [n \in 0 .. levels_ |-> 2 ^ n]

\* One key, and behind it a second one.
MCKeySets == {{k, m} : k \in 0 .. 2 ^ levels_ - 1, m \in 0 .. 2 ^ levels_ - 1}

\* Filters that are never wrong are enough to show the defect.
MCSpurious == {{}}

=============================================================================

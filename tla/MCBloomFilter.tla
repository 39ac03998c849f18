--------------------------- MODULE MCBloomFilter ---------------------------
(* BloomFilter with hash values, arrays and integers of a few bits, for TLC. *)
EXTENDS BloomFilter

CONSTANTS
    MaxVector,      \* greatest number of keys in a filter, in any combination
    LongVectors     \* numbers of keys an int may not hold

\* Short vectors, and long ones whose first key is unlike the others.
MCKeyVectors ==
    UNION {[1 .. n -> Keys] : n \in 0 .. MaxVector}
      \cup {[i \in 1 .. n |-> IF i = 1 THEN pair[1] ELSE pair[2]] :
              n \in LongVectors, pair \in {p \in Keys \X Keys : p[1] # p[2]}}

\* Every pair of first positions, with a step of none, one, or all but one,
\* for the filters with id 0; another function for the others.
MCHashes ==
    {[id \in Ids |-> IF id = 0 THEN f ELSE [key \in Keys |-> [h |-> 0, delta |-> 1]]] :
      f \in [Keys -> [h : 0 .. HashRange - 1, delta : {0, 1, HashRange - 1}]]}

=============================================================================

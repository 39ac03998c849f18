------------------------------- MODULE MCBF -------------------------------
(* BF with small hash values, for TLC. *)
EXTENDS BF

\* Every pair of hashes, with a step of none, one, or all but one.
MCHashes ==
    [Keys -> [hash64 : 0 .. HashRange - 1, inc : {0, 1, HashRange - 1}]]

=============================================================================

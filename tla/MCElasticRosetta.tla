------------------------ MODULE MCElasticRosetta ------------------------
(* ElasticRosetta on a small key space, for TLC. *)
EXTENDS ElasticRosetta

MCPow2 == [n \in 0 .. levels_ |-> 2 ^ n]

\* Two keys and their union: the first versions come to two keys from one.
MCKeySets == {{2}, {7}, {2, 7}, {3, 5}}

\* The upper levels give no wrong answer, or each of them one.
MCSpurious == {{}, {<<0, 0>>, <<1, 2>>}}

\* A unit says "maybe" to its keys, and to one word besides.
MCUnitSpurious == {{}, {1}}

=============================================================================

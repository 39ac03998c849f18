----------------------------- MODULE MCWorkload -----------------------------
(* Workload with few keys and short files, for TLC. *)
EXTENDS Workload

MCPow2 == [n \in 0 .. levels_ |-> 2 ^ n]

MCCeilExp == <<3, 8, 21, 55>>

=============================================================================

----------------------- MODULE MCWorkloadMultiThread -----------------------
(* WorkloadMultiThread with a few threads and transactions, for TLC. *)
EXTENDS WorkloadMultiThread

\* No threads, fewer than none, and up to three.
MCThreadCounts == {-1, 0, 1, 2, 3}

=============================================================================

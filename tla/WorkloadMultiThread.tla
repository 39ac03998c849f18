------------------------ MODULE WorkloadMultiThread ------------------------
(***************************************************************************)
(* bench/workload_multi_thread.cpp: main() cuts the transaction keys into  *)
(* one slice per thread, the threads put their slices to the shared filter *)
(* and count the positives, main() joins them and compares the sum with    *)
(* the number of keys that are really there.                               *)
(*                                                                         *)
(* The filter is built before the first thread starts and only read after  *)
(* that, so a query is one step and its answer is fixed in advance.  The   *)
(* answer is one-sided, except that FilterBloom answers "false" to every   *)
(* range, a combination of arguments that main() accepts.                  *)
(***************************************************************************)
EXTENDS Integers, FiniteSets

CONSTANTS
    ThreadCounts,    \* what atoi may make of the argument num_threads
    Filters,         \* arguments filter_type: "Bloom", or "SuRF" for its variants
    QueryTypes,      \* arguments query_type: "point", "range"
    MaxTxns          \* bound on txn_keys.size(), for TLC

ASSUME ThreadCountsAssumption == ThreadCounts \subseteq Int
ASSUME MaxTxnsAssumption == MaxTxns \in Nat

VARIABLES
    num_threads,     \* arguments, of which nothing checks the first
    filter_type,
    query_type,
    num_txns,        \* txn_keys.size()
    positive,        \* the transactions the filter answers "true"
    present,         \* the transactions whose key or range holds a key
    main,            \* what main() does: slice, create, join or report; or ended
    next,            \* i of the loop main() is in
    phase,           \* of each thread
    i,               \* loop variable of each thread
    positives,       \* local counter of each thread
    out_positives,   \* thread_args[t].out_positives
    total,           \* main()'s sum over out_positives
    executed         \* how often each transaction was executed (history)

vars == <<num_threads, filter_type, query_type, num_txns, positive, present,
          main, next, phase, i, positives, out_positives, total, executed>>

\* The run's input, and what a thread works on.
input == <<num_threads, filter_type, query_type, num_txns, positive, present>>
work == <<i, positives, executed>>

Thread == 0 .. num_threads - 1
Txn == 0 .. num_txns - 1

----------------------------------------------------------------------------

\* FilterBloom::lookupRange answers "false" and prints that it has no ranges.
AnswersQueries == ~(filter_type = "Bloom" /\ query_type = "range")

\* main() looks every transaction up among the inserted keys: the key itself,
\* or a key behind it and before getUpperBoundKey of it, where the filter is
\* asked for the closed range.  So what is present is a part of what is positive
\* if the filter answers this type of query.
true_positives == Cardinality(present)

num_txns_per_thread == num_txns \div num_threads

\* Variant: a slice starts with the last transaction of the one before.
start_pos_overlapping(t) == IF t = 0 THEN 0 ELSE num_txns_per_thread * t - 1

start_pos(t) == num_txns_per_thread * t
end_pos(t) == num_txns_per_thread * (t + 1)

\* The arrays for the threads and their arguments, and the bounds of the slices.
Slice ==
    /\ main = "slice"
    /\ num_threads > 0
    /\ main' = "create"
    /\ UNCHANGED <<input, work, next, phase, out_positives, total>>

\* new throws at a negative length, or if there is no memory.
AllocationFails ==
    /\ main = "slice"
    /\ main' = "failed"
    /\ UNCHANGED <<input, work, next, phase, out_positives, total>>

\* num_txns / num_threads, when atoi has made 0 of the last argument.
DivisionByZero ==
    /\ main = "slice"
    /\ num_threads = 0
    /\ main' = "undefined"
    /\ UNCHANGED <<input, work, next, phase, out_positives, total>>

\* Variant: a slice's first transaction is left out.
CreateThreadLate ==
    /\ main = "create"
    /\ next < num_threads
    /\ phase' = [phase EXCEPT ![next] = "running"]
    /\ i' = [i EXCEPT ![next] = start_pos(next) + 1]
    /\ next' = next + 1
    /\ UNCHANGED <<input, main, positives, out_positives, total, executed>>

\* main() fills thread_args and starts the thread of the next slice.
CreateThread ==
    /\ main = "create"
    /\ next < num_threads
    /\ phase' = [phase EXCEPT ![next] = "running"]
    /\ i' = [i EXCEPT ![next] = start_pos(next)]
    /\ next' = next + 1
    /\ UNCHANGED <<input, main, positives, out_positives, total, executed>>

\* pthread_create may fail; exit(-1) ends the process and its threads.
CreateFails ==
    /\ main = "create"
    /\ next < num_threads
    /\ main' = "failed"
    /\ phase' = [t \in Thread |-> "none"]
    /\ UNCHANGED <<input, work, next, out_positives, total>>

AllCreated ==
    /\ main = "create"
    /\ next = num_threads
    /\ main' = "join"
    /\ next' = 0
    /\ UNCHANGED <<input, work, phase, out_positives, total>>

\* One query of execute_workload's loop.
Query(t) ==
    /\ phase[t] = "running"
    /\ i[t] < end_pos(t)
    /\ positives' = [positives EXCEPT ![t] = IF i[t] \in positive THEN @ + 1 ELSE @]
    /\ executed' = [executed EXCEPT ![i[t]] = @ + 1]
    /\ i' = [i EXCEPT ![t] = @ + 1]
    /\ UNCHANGED <<input, main, next, phase, out_positives, total>>

\* Variants: a thread waits to be past its end; a thread adds to its counter.
ExitThreadPastEnd(t) ==
    /\ phase[t] = "running"
    /\ i[t] > end_pos(t)
    /\ out_positives' = [out_positives EXCEPT ![t] = positives[t]]
    /\ phase' = [phase EXCEPT ![t] = "exited"]
    /\ UNCHANGED <<input, work, main, next, total>>

ExitThreadAddsOne(t) ==
    /\ phase[t] = "running"
    /\ i[t] >= end_pos(t)
    /\ out_positives' = [out_positives EXCEPT ![t] = positives[t] + 1]
    /\ phase' = [phase EXCEPT ![t] = "exited"]
    /\ UNCHANGED <<input, work, main, next, total>>

\* The counter is published once, as the thread ends.
ExitThread(t) ==
    /\ phase[t] = "running"
    /\ i[t] >= end_pos(t)
    /\ out_positives' = [out_positives EXCEPT ![t] = positives[t]]
    /\ phase' = [phase EXCEPT ![t] = "exited"]
    /\ UNCHANGED <<input, work, main, next, total>>

\* Variant: main() does not wait.
JoinThreadEarly ==
    /\ main = "join"
    /\ next < num_threads
    /\ next' = next + 1
    /\ UNCHANGED <<input, work, main, phase, out_positives, total>>

\* pthread_join waits for the thread.
JoinThread ==
    /\ main = "join"
    /\ next < num_threads
    /\ phase[next] = "exited"
    /\ next' = next + 1
    /\ UNCHANGED <<input, work, main, phase, out_positives, total>>

\* pthread_join may report an error; exit(-1) ends the threads that still run.
JoinFails ==
    /\ main = "join"
    /\ next < num_threads
    /\ main' = "failed"
    /\ phase' = [t \in Thread |-> "none"]
    /\ UNCHANGED <<input, work, next, out_positives, total>>

\* main()'s loop over the counters: what the first n come to.
SumOfFirst ==
    LET sum[n \in 0 .. num_threads] ==
          IF n = 0 THEN 0 ELSE sum[n - 1] + out_positives[n - 1]
    IN  sum

AllJoined ==
    /\ main = "join"
    /\ next = num_threads
    /\ main' = "report"
    /\ total' = SumOfFirst[num_threads]
    /\ UNCHANGED <<input, work, next, phase, out_positives>>

\* Both counts are over different transactions when a remainder was left out.
false_positives == total - true_positives

\* What main() does when it is not told that a thread cannot be made or joined.
MainGoesOn ==
    \/ Slice \/ AllocationFails \/ DivisionByZero
    \/ CreateThread \/ AllCreated
    \/ JoinThread \/ AllJoined

MainStep == MainGoesOn \/ CreateFails \/ JoinFails

ThreadStep(t) == Query(t) \/ ExitThread(t)

Init ==
    /\ num_threads \in ThreadCounts
    /\ filter_type \in Filters
    /\ query_type \in QueryTypes
    /\ num_txns \in 0 .. MaxTxns
    /\ present \in SUBSET Txn
    /\ positive \in SUBSET Txn
    /\ IF AnswersQueries THEN present \subseteq positive ELSE positive = {}
    /\ main = "slice"
    /\ next = 0
    /\ phase = [t \in Thread |-> "none"]
    /\ i = [t \in Thread |-> 0]
    /\ positives = [t \in Thread |-> 0]
    /\ out_positives = [t \in Thread |-> 0]
    /\ total = 0
    /\ executed = [n \in Txn |-> 0]

Next == MainStep \/ \E t \in Thread : ThreadStep(t)

Spec == Init /\ [][Next]_vars

\* The operating system runs every thread that can run.  A join need never
\* report an error: main() may wait for as long as the thread does.
FairSpec ==
    /\ Spec
    /\ WF_vars(MainGoesOn)
    /\ \A t \in UNION {0 .. n - 1 : n \in ThreadCounts} :
         WF_vars(t \in Thread /\ ThreadStep(t))

----------------------------------------------------------------------------
(* Properties.                                                             *)

TypeOK ==
    /\ num_threads \in ThreadCounts /\ filter_type \in Filters /\ query_type \in QueryTypes
    /\ num_txns \in 0 .. MaxTxns
    /\ positive \in SUBSET Txn
    /\ present \in SUBSET Txn
    /\ main \in {"slice", "create", "join", "report", "failed", "undefined"}
    /\ main \in {"create", "join", "report"} => num_threads > 0
    /\ next \in (0 .. num_threads) \cup {0}
    /\ phase \in [Thread -> {"none", "running", "exited"}]
    /\ i \in [Thread -> 0 .. num_txns]
    /\ positives \in [Thread -> 0 .. num_txns]
    /\ out_positives \in [Thread -> 0 .. num_txns]
    /\ total \in 0 .. num_txns
    /\ executed \in [Txn -> Nat]

\* No interleaving of the threads makes two of them execute a transaction.
NoTxnExecutedTwice == \A n \in Txn : executed[n] <= 1

\* What main() sums up is what the threads counted: no thread is still
\* counting, or has not yet published, when main() reads its counter.
TotalIsWhatWasExecuted ==
    main = "report" =>
        total = Cardinality({n \in positive : executed[n] = 1})

\* assert(false_positives >= 0), line 234 of the program.
AssertionHolds == main = "report" => false_positives >= 0

\* It holds when the transactions divide evenly among the threads and the filter
\* answers this type of query at all.
AssertionHoldsOnEvenSlices ==
    main = "report" /\ AnswersQueries /\ num_txns % num_threads = 0 => false_positives >= 0

\* main() comes to its report, exits because an array, a thread or a join failed,
\* or divides by zero.
MainEnds == <>(main \in {"report", "failed", "undefined"})

=============================================================================

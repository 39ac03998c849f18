--------------------- MODULE WorkloadMultiThreadProofs ---------------------
(***************************************************************************)
(* What the threads execute and count, for any number of threads and of    *)
(* transactions and in every interleaving: no transaction twice, and in    *)
(* the end what main() sums up is what was executed.                       *)
(*                                                                         *)
(* The slices do not overlap, and a thread stays in its slice.  This alone *)
(* is not inductive: a step of a thread increments executed[i[t]], so one  *)
(* must know that the rest of a thread's slice, and all of the slice of a  *)
(* thread that was not created yet, has not been executed.                 *)
(***************************************************************************)
EXTENDS WorkloadMultiThread, Induction

----------------------------------------------------------------------------
(* Slices.                                                                 *)

LEMMA TimesMonotone ==
    ASSUME NEW k \in Nat, NEW a \in Nat, NEW b \in Nat, a <= b
    PROVE  k * a <= k * b
<1>1. PICK d \in Nat : b = a + d
  <2>1. b - a \in Nat /\ b = a + (b - a)
    OBVIOUS
  <2> QED
    BY <2>1
<1>2. k * b = k * a + k * d
  BY <1>1
<1>3. k * a \in Nat /\ k * d \in Nat
  BY <1>1
<1> QED
  BY <1>2, <1>3

\* Every slice lies among the transactions, and behind the slices before it.
LEMMA Slices ==
    ASSUME num_txns \in Nat, num_threads \in Nat \ {0}
    PROVE  /\ num_txns_per_thread \in Nat
           /\ \A t \in Thread : /\ start_pos(t) \in Nat
                                /\ end_pos(t) \in Nat
                                /\ start_pos(t) <= end_pos(t)
                                /\ end_pos(t) <= num_txns
           /\ \A t, u \in Thread : t < u => end_pos(t) <= start_pos(u)
<1> DEFINE k == num_txns_per_thread
<1>1. k \in Nat /\ k * num_threads <= num_txns
  BY DEF num_txns_per_thread
<1> HIDE DEF k
<1>2. ASSUME NEW t \in Thread
      PROVE  /\ start_pos(t) \in Nat
             /\ end_pos(t) \in Nat
             /\ start_pos(t) <= end_pos(t)
             /\ end_pos(t) <= num_txns
  <2>1. t \in Nat /\ t + 1 \in Nat /\ t <= t + 1 /\ t + 1 <= num_threads /\ num_threads \in Nat
    BY DEF Thread
  <2>2. k * t <= k * (t + 1) /\ k * (t + 1) <= k * num_threads
    BY <1>1, <2>1, TimesMonotone
  <2>3. k * t \in Nat /\ k * (t + 1) \in Nat /\ k * num_threads \in Nat
    BY <1>1, <2>1
  <2>4. start_pos(t) = k * t /\ end_pos(t) = k * (t + 1)
    BY DEF start_pos, end_pos, k
  <2> QED
    BY <1>1, <2>2, <2>3, <2>4
<1>3. ASSUME NEW t \in Thread, NEW u \in Thread, t < u
      PROVE  end_pos(t) <= start_pos(u)
  <2>1. t + 1 \in Nat /\ u \in Nat /\ t + 1 <= u
    BY <1>3 DEF Thread
  <2>2. k * (t + 1) <= k * u
    BY <1>1, <2>1, TimesMonotone
  <2> QED
    BY <2>2 DEF start_pos, end_pos, k
<1> QED
  BY <1>1, <1>2, <1>3 DEF k

----------------------------------------------------------------------------
(* The inductive invariant.                                                *)

Types ==
    /\ num_txns \in Nat
    /\ num_threads \in Int
    /\ main \in {"slice", "create", "join", "report", "failed", "undefined"}
    /\ main \in {"create", "join", "report"} => num_threads > 0
    /\ next \in (0 .. num_threads) \cup {0}
    /\ phase \in [Thread -> {"none", "running", "exited"}]
    /\ i \in [Thread -> Nat]
    /\ executed \in [Txn -> Nat]

\* A thread that does not exist yet has executed nothing, and none will.
SliceUntouched ==
    main \in {"slice", "create"} =>
        \A t \in Thread : t >= next =>
            /\ phase[t] = "none"
            /\ \A n \in Txn : start_pos(t) <= n /\ n < end_pos(t) => executed[n] = 0

\* A running thread is in its slice, and has not been where it is going.
RestUntouched ==
    \A t \in Thread : phase[t] = "running" =>
        /\ start_pos(t) <= i[t]
        /\ i[t] <= end_pos(t)
        /\ \A n \in Txn : i[t] <= n /\ n < end_pos(t) => executed[n] = 0

SliceInvariant == Types /\ SliceUntouched /\ RestUntouched /\ NoTxnExecutedTwice

LEMMA SliceInvariantInit == Init => SliceInvariant
<1> SUFFICES ASSUME Init PROVE SliceInvariant
  OBVIOUS
<1>1. num_txns \in Nat
  BY MaxTxnsAssumption DEF Init
<1>2. Types
  BY <1>1, ThreadCountsAssumption DEF Init, Types, Thread
<1>3. SliceUntouched
  BY DEF Init, SliceUntouched
<1>4. RestUntouched
  BY DEF Init, RestUntouched
<1>5. NoTxnExecutedTwice
  BY DEF Init, NoTxnExecutedTwice
<1> QED
  BY <1>2, <1>3, <1>4, <1>5 DEF SliceInvariant

\* main() starts the next thread at the beginning of an untouched slice.
LEMMA CreateThreadKeeps ==
    ASSUME SliceInvariant, CreateThread PROVE SliceInvariant'
<1> USE DEF SliceInvariant, Types
<1>1. /\ next \in Thread /\ next + 1 \in 0 .. num_threads
      /\ main = "create" /\ main' = main
      /\ num_txns' = num_txns /\ num_threads' = num_threads /\ num_threads \in Nat \ {0}
      /\ executed' = executed /\ next' = next + 1
      /\ i' = [i EXCEPT ![next] = start_pos(next)]
      /\ phase' = [phase EXCEPT ![next] = "running"]
  BY DEF CreateThread, input, Thread
<1>2. \A t \in Thread : /\ start_pos(t) \in Nat /\ end_pos(t) \in Nat
                        /\ start_pos(t) <= end_pos(t)
  BY <1>1, Slices
<1>3. \A t : start_pos(t)' = start_pos(t) /\ end_pos(t)' = end_pos(t)
  BY <1>1 DEF start_pos, end_pos, num_txns_per_thread
<1>4. Txn' = Txn /\ Thread' = Thread
  BY <1>1 DEF Txn, Thread
<1>5. Types'
  BY <1>1, <1>2, <1>4
<1>6. SliceUntouched'
  <2> SUFFICES ASSUME NEW t \in Thread, t >= next + 1
               PROVE  /\ phase'[t] = "none"
                      /\ \A n \in Txn : start_pos(t) <= n /\ n < end_pos(t) => executed[n] = 0
    BY <1>1, <1>3, <1>4 DEF SliceUntouched
  <2>1. t # next /\ t >= next
    BY <1>1 DEF Thread
  <2> QED
    BY <1>1, <2>1 DEF SliceUntouched
<1>7. RestUntouched'
  <2> SUFFICES ASSUME NEW t \in Thread, phase'[t] = "running"
               PROVE  /\ start_pos(t) <= i'[t]
                      /\ i'[t] <= end_pos(t)
                      /\ \A n \in Txn : i'[t] <= n /\ n < end_pos(t) => executed[n] = 0
    BY <1>1, <1>3, <1>4 DEF RestUntouched
  <2>1. CASE t = next
    <3>1. i'[t] = start_pos(t)
      BY <1>1, <2>1
    <3>2. t >= next
      BY <1>1, <2>1 DEF Thread
    <3> QED
      BY <1>1, <1>2, <3>1, <3>2 DEF SliceUntouched
  <2>2. CASE t # next
    <3>1. i'[t] = i[t] /\ phase[t] = "running"
      BY <1>1, <2>2
    <3> QED
      BY <3>1 DEF RestUntouched
  <2> QED
    BY <2>1, <2>2
<1>8. NoTxnExecutedTwice'
  BY <1>1, <1>4 DEF NoTxnExecutedTwice
<1> QED
  BY <1>5, <1>6, <1>7, <1>8

\* A query executes the transaction its thread has come to, in its own slice.
LEMMA QueryKeeps ==
    ASSUME SliceInvariant, NEW t \in Thread, Query(t) PROVE SliceInvariant'
<1> USE DEF SliceInvariant, Types
<1>0. num_threads \in Nat \ {0}
  BY DEF Thread
<1>1. /\ phase[t] = "running" /\ i[t] < end_pos(t)
      /\ executed' = [executed EXCEPT ![i[t]] = @ + 1]
      /\ i' = [i EXCEPT ![t] = @ + 1]
      /\ phase' = phase /\ main' = main /\ next' = next /\ num_txns' = num_txns
      /\ num_threads' = num_threads
  BY DEF Query, input
<1>2. /\ \A u \in Thread : /\ start_pos(u) \in Nat /\ end_pos(u) \in Nat
                           /\ start_pos(u) <= end_pos(u) /\ end_pos(u) <= num_txns
      /\ \A u, v \in Thread : u < v => end_pos(u) <= start_pos(v)
  BY <1>0, Slices
<1>3. \A u : start_pos(u)' = start_pos(u) /\ end_pos(u)' = end_pos(u)
  BY <1>1 DEF start_pos, end_pos, num_txns_per_thread
<1>4. Txn' = Txn /\ Thread' = Thread
  BY <1>1 DEF Txn, Thread
<1>5. start_pos(t) <= i[t] /\ i[t] \in Txn /\ executed[i[t]] = 0
  <2>1. start_pos(t) <= i[t]
    BY <1>1 DEF RestUntouched
  <2>2. i[t] \in Txn
    BY <1>1, <1>2 DEF Txn
  <2>3. executed[i[t]] = 0
    BY <1>1, <2>2 DEF RestUntouched
  <2> QED
    BY <2>1, <2>2, <2>3
<1>6. executed'[i[t]] = 1 /\ \A n \in Txn : n # i[t] => executed'[n] = executed[n]
  BY <1>1, <1>5
<1>7. Types'
  BY <1>1, <1>4, <1>5
\* The transaction is in no slice but its thread's.
<1>8. ASSUME NEW u \in Thread, u # t
      PROVE  ~ (start_pos(u) <= i[t] /\ i[t] < end_pos(u))
  <2>1. CASE u < t
    BY <1>2, <1>5, <2>1
  <2>2. CASE t < u
    BY <1>1, <1>2, <2>2
  <2> QED
    BY <1>8, <2>1, <2>2 DEF Thread
<1>9. SliceUntouched'
  <2> SUFFICES ASSUME main \in {"slice", "create"}, NEW u \in Thread, u >= next
               PROVE  /\ phase[u] = "none"
                      /\ \A n \in Txn : start_pos(u) <= n /\ n < end_pos(u) => executed'[n] = 0
    BY <1>1, <1>3, <1>4 DEF SliceUntouched
  <2>1. phase[u] = "none" /\ u # t
    BY <1>1 DEF SliceUntouched
  <2>2. ASSUME NEW n \in Txn, start_pos(u) <= n, n < end_pos(u) PROVE executed'[n] = 0
    <3>1. n # i[t]
      BY <1>8, <2>1, <2>2
    <3>2. executed[n] = 0
      BY <2>2 DEF SliceUntouched
    <3> QED
      BY <1>6, <3>1, <3>2
  <2> QED
    BY <2>1, <2>2
<1>10. RestUntouched'
  <2> SUFFICES ASSUME NEW u \in Thread, phase[u] = "running"
               PROVE  /\ start_pos(u) <= i'[u]
                      /\ i'[u] <= end_pos(u)
                      /\ \A n \in Txn : i'[u] <= n /\ n < end_pos(u) => executed'[n] = 0
    BY <1>1, <1>3, <1>4 DEF RestUntouched
  <2>1. CASE u = t
    <3>1. i'[u] = i[u] + 1
      BY <1>1, <2>1
    <3>2. start_pos(u) <= i'[u] /\ i'[u] <= end_pos(u)
      BY <1>1, <1>2, <1>5, <2>1, <3>1
    <3>3. ASSUME NEW n \in Txn, i'[u] <= n, n < end_pos(u) PROVE executed'[n] = 0
      <4>1. i[t] <= n /\ n # i[t]
        BY <2>1, <3>1, <3>3 DEF Txn
      <4>2. executed[n] = 0
        BY <1>1, <2>1, <3>3, <4>1 DEF RestUntouched
      <4> QED
        BY <1>6, <4>1, <4>2
    <3> QED
      BY <3>2, <3>3
  <2>2. CASE u # t
    <3>1. i'[u] = i[u]
      BY <1>1, <2>2
    <3>2. /\ start_pos(u) <= i[u] /\ i[u] <= end_pos(u)
          /\ \A n \in Txn : i[u] <= n /\ n < end_pos(u) => executed[n] = 0
      BY DEF RestUntouched
    <3>3. ASSUME NEW n \in Txn, i[u] <= n, n < end_pos(u) PROVE executed'[n] = 0
      <4>1. start_pos(u) <= n
        BY <1>2, <3>2, <3>3 DEF Txn
      <4>2. n # i[t]
        BY <1>8, <2>2, <3>3, <4>1
      <4> QED
        BY <1>6, <3>2, <3>3, <4>2
    <3> QED
      BY <3>1, <3>2, <3>3
  <2> QED
    BY <2>1, <2>2
<1>11. NoTxnExecutedTwice'
  BY <1>4, <1>6, <1>5 DEF NoTxnExecutedTwice
<1> QED
  BY <1>7, <1>9, <1>10, <1>11

\* The other steps start no thread and execute nothing.
LEMMA OtherStepsKeep ==
    ASSUME SliceInvariant,
           num_txns' = num_txns, num_threads' = num_threads,
           executed' = executed, i' = i,
           phase' \in [Thread -> {"none", "running", "exited"}],
           \A t \in Thread : phase'[t] = "running" => phase[t] = "running",
           main' \in {"slice", "create", "join", "report", "failed", "undefined"},
           main' \in {"create", "join", "report"} => num_threads > 0,
           next' \in (0 .. num_threads) \cup {0},
           main' \in {"slice", "create"} =>
               /\ main \in {"slice", "create"}
               /\ next' = next
               /\ \A t \in Thread : phase[t] = "none" => phase'[t] = "none"
    PROVE  SliceInvariant'
<1> USE DEF SliceInvariant, Types
<1>1. \A t : start_pos(t)' = start_pos(t) /\ end_pos(t)' = end_pos(t)
  BY DEF start_pos, end_pos, num_txns_per_thread
<1>2. Txn' = Txn /\ Thread' = Thread
  BY DEF Txn, Thread
<1>3. Types'
  BY <1>2
<1>4. SliceUntouched'
  BY <1>1, <1>2 DEF SliceUntouched
<1>5. RestUntouched'
  BY <1>1, <1>2 DEF RestUntouched
<1>6. NoTxnExecutedTwice'
  BY <1>2 DEF NoTxnExecutedTwice
<1> QED
  BY <1>3, <1>4, <1>5, <1>6

LEMMA SliceInvariantNext == SliceInvariant /\ [Next]_vars => SliceInvariant'
<1> SUFFICES ASSUME SliceInvariant, [Next]_vars PROVE SliceInvariant'
  OBVIOUS
<1> USE DEF input, work
<1>1. Types
  BY DEF SliceInvariant
<1>2. CASE CreateThread
  BY <1>2, CreateThreadKeeps
<1>3. CASE Slice \/ AllocationFails \/ DivisionByZero
  <2>1. CASE Slice
    BY <1>1, <2>1, OtherStepsKeep DEF Slice, Types
  <2>2. CASE AllocationFails \/ DivisionByZero
    BY <1>1, <2>2, OtherStepsKeep DEF AllocationFails, DivisionByZero, Types
  <2> QED
    BY <1>3, <2>1, <2>2
<1>10. CASE CreateFails \/ JoinFails
  BY <1>1, <1>10, OtherStepsKeep DEF CreateFails, JoinFails, Types
<1>4. CASE AllCreated
  BY <1>1, <1>4, OtherStepsKeep DEF AllCreated, Types
<1>5. CASE JoinThread
  <2>1. next' \in 0 .. num_threads
    BY <1>1, <1>5 DEF JoinThread, Types
  <2> QED
    BY <1>1, <1>5, <2>1, OtherStepsKeep DEF JoinThread, Types
<1>6. CASE AllJoined
  BY <1>1, <1>6, OtherStepsKeep DEF AllJoined, Types
<1>7. ASSUME NEW t \in Thread, Query(t) PROVE SliceInvariant'
  BY <1>7, QueryKeeps
<1>8. ASSUME NEW t \in Thread, ExitThread(t) PROVE SliceInvariant'
  BY <1>1, <1>8, OtherStepsKeep DEF ExitThread, Types
<1>9. CASE UNCHANGED vars
  BY <1>1, <1>9, OtherStepsKeep DEF vars, Types
<1> QED
  BY <1>2, <1>3, <1>4, <1>5, <1>6, <1>7, <1>8, <1>9, <1>10
     DEF Next, MainStep, MainGoesOn, ThreadStep

\* Threads stay in their slices, and a slice is untouched until its thread
\* has come there (execute_workload's loop and the slicing of main()).
THEOREM SliceInvariantHolds == Spec => []SliceInvariant
<1> QED
  BY SliceInvariantInit, SliceInvariantNext, PTL DEF Spec

\* No interleaving makes two threads execute the same transaction, for any
\* number of threads and transactions (thread_args[i].start_pos, end_pos).
THEOREM NoTxnIsExecutedTwice == Spec => []NoTxnExecutedTwice
<1>1. SliceInvariant => NoTxnExecutedTwice
  BY DEF SliceInvariant
<1> QED
  BY <1>1, SliceInvariantHolds, PTL

----------------------------------------------------------------------------
(* What the threads count.  A counter is the number of positives in the    *)
(* part of its slice that its thread has been through, and all of that     *)
(* part was executed; when main() sums the counters up every thread has    *)
(* been through all of its slice and published its counter.                *)

\* The positives that thread t has been through.
Counted(t) == {n \in positive : start_pos(t) <= n /\ n < i[t]}

\* The positives in the slices of the first m threads.
Before(m) == {n \in positive : n < start_pos(m)}

Created(t) == phase[t] \in {"running", "exited"}

Inputs ==
    /\ num_threads \in ThreadCounts /\ filter_type \in Filters /\ query_type \in QueryTypes
    /\ num_txns \in 0 .. MaxTxns
    /\ positive \in SUBSET Txn
    /\ present \in SUBSET Txn
    /\ AnswersQueries => present \subseteq positive

Bounds ==
    /\ i \in [Thread -> 0 .. num_txns]
    /\ positives \in [Thread -> 0 .. num_txns]
    /\ out_positives \in [Thread -> 0 .. num_txns]
    /\ total \in 0 .. num_txns

\* A thread has its counter at zero until it starts.
CountersStartAtZero ==
    main \in {"slice", "create"} => \A t \in Thread : t >= next => positives[t] = 0

CountersAreRight ==
    \A t \in Thread : Created(t) =>
        /\ positives[t] = Cardinality(Counted(t))
        /\ \A n \in Counted(t) : executed[n] = 1

ExitedThreadsArePublished ==
    \A t \in Thread : phase[t] = "exited" => i[t] = end_pos(t) /\ out_positives[t] = positives[t]

\* The remainder of the division is nobody's.
RemainderUntouched == \A n \in Txn : start_pos(num_threads) <= n => executed[n] = 0

\* main() waits for the threads in their order, and has created them so.
MainKnowsThreads ==
    /\ main = "slice" => next = 0
    /\ main = "create" => \A t \in Thread : t < next => Created(t)
    /\ main = "join" => \A t \in Thread : Created(t) /\ (t < next => phase[t] = "exited")
    /\ main = "report" => (\A t \in Thread : phase[t] = "exited") /\ total = SumOfFirst[num_threads]

CountInvariant ==
    /\ Inputs
    /\ Bounds
    /\ CountersStartAtZero
    /\ CountersAreRight
    /\ ExitedThreadsArePublished
    /\ RemainderUntouched
    /\ MainKnowsThreads

LEMMA FinitePositives ==
    ASSUME Inputs
    PROVE  /\ num_txns \in Nat
           /\ \A S \in SUBSET positive :
                /\ IsFiniteSet(S)
                /\ Cardinality(S) \in 0 .. num_txns
<1>1. num_txns \in Nat /\ Txn = 0 .. num_txns - 1 /\ positive \subseteq Txn
  BY MaxTxnsAssumption DEF Inputs, Txn
<1>2. IsFiniteSet(Txn) /\ Cardinality(Txn) = num_txns
  <2>1. 0 \in Int /\ num_txns - 1 \in Int
    BY <1>1
  <2>2. IsFiniteSet(0 .. num_txns - 1)
        /\ Cardinality(0 .. num_txns - 1)
             = IF 0 > num_txns - 1 THEN 0 ELSE (num_txns - 1) - 0 + 1
    BY <2>1, FS_Interval
  <2>3. (IF 0 > num_txns - 1 THEN 0 ELSE (num_txns - 1) - 0 + 1) = num_txns
    BY <1>1
  <2> QED
    BY <1>1, <2>2, <2>3, Zenon
<1>3. ASSUME NEW S \in SUBSET positive
      PROVE  IsFiniteSet(S) /\ Cardinality(S) \in 0 .. num_txns
  <2>1. S \in SUBSET Txn
    BY <1>1
  <2>2. IsFiniteSet(S) /\ Cardinality(S) <= Cardinality(Txn)
    BY <1>2, <2>1, FS_Subset
  <2>3. Cardinality(S) \in Nat
    BY <2>2, FS_CardinalityType
  <2> QED
    BY <1>1, <1>2, <2>2, <2>3
<1> QED
  BY <1>1, <1>3

\* The slices are cut at start_pos(0), ..., start_pos(num_threads).
LEMMA Cuts ==
    ASSUME num_txns \in Nat, num_threads \in Nat \ {0}
    PROVE  /\ start_pos(0) = 0
           /\ \A t : end_pos(t) = start_pos(t + 1)
           /\ \A m \in 0 .. num_threads : start_pos(m) \in Nat /\ start_pos(m) <= num_txns
           /\ \A t \in Thread : end_pos(t) <= start_pos(num_threads)
<1> DEFINE k == num_txns_per_thread
<1>1. k \in Nat /\ k * num_threads <= num_txns /\ num_threads \in Nat
  BY DEF num_txns_per_thread
<1>2. start_pos(0) = 0 /\ \A t : end_pos(t) = start_pos(t + 1)
  BY <1>1 DEF start_pos, end_pos
<1> HIDE DEF k
<1>3. ASSUME NEW m \in 0 .. num_threads
      PROVE  k * m \in Nat /\ k * m <= k * num_threads
  <2>1. m \in Nat /\ m <= num_threads
    BY <1>1
  <2> QED
    BY <1>1, <2>1, TimesMonotone
<1>4. k * num_threads \in Nat
  BY <1>1
<1>5. ASSUME NEW m \in 0 .. num_threads
      PROVE  start_pos(m) \in Nat /\ start_pos(m) <= num_txns
  BY <1>1, <1>3, <1>4 DEF start_pos, k
<1>6. ASSUME NEW t \in Thread
      PROVE  end_pos(t) <= start_pos(num_threads)
  <2>1. t + 1 \in 0 .. num_threads
    BY <1>1 DEF Thread
  <2> QED
    BY <1>3, <2>1 DEF start_pos, end_pos, k
<1> QED
  BY <1>2, <1>5, <1>6

\* The counters' sum, by main()'s loop.
LEMMA SumSteps ==
    ASSUME num_threads \in Nat, out_positives \in [Thread -> Nat]
    PROVE  /\ SumOfFirst[0] = 0
           /\ \A m \in 1 .. num_threads : SumOfFirst[m] = SumOfFirst[m - 1] + out_positives[m - 1]
<1> DEFINE Go(n, x) == x + out_positives[n - 1]
           Defines(a) == a = [n \in 0 .. num_threads |-> IF n = 0 THEN 0 ELSE Go(n, a[n - 1])]
           sum == CHOOSE a : Defines(a)
<1>1. num_threads \in Nat
  OBVIOUS
<1>2. ASSUME NEW n \in 1 .. num_threads, NEW x \in Nat
      PROVE  Go(n, x) \in Nat
  <2>1. n - 1 \in Thread
    BY <1>1 DEF Thread
  <2> QED
    BY <2>1
<1>3. \E a : Defines(a)
  <2> DEFINE g == [y \in (1 .. num_threads) \X Nat |-> Go(y[1], y[2])]
  <2>1. ASSUME NEW n \in 1 .. num_threads, NEW x \in Nat
        PROVE  g[<<n, x>>] = Go(n, x) /\ g[<<n, x>>] \in Nat
    BY <1>2
  <2> HIDE DEF g
  <2>2. StaysIn(g, num_threads, Nat)
    BY <2>1 DEF StaysIn
  <2> HIDE DEF Go
  <2>3. PICK a \in [0 .. num_threads -> Nat] : Continues(a, num_threads, 0, g)
    BY <1>1, <2>2, RecursiveFunction
  <2>4. ASSUME NEW n \in 0 .. num_threads
        PROVE  a[n] = IF n = 0 THEN 0 ELSE Go(n, a[n - 1])
    <3>1. CASE n = 0
      BY <2>3, <3>1 DEF Continues
    <3>2. CASE n # 0
      <4>1. n \in 1 .. num_threads /\ n - 1 \in 0 .. num_threads
        BY <1>1, <3>2
      <4> QED
        BY <2>1, <2>3, <3>2, <4>1 DEF Continues
    <3> QED
      BY <3>1, <3>2
  <2>5. a = [n \in 0 .. num_threads |-> IF n = 0 THEN 0 ELSE Go(n, a[n - 1])]
    BY <2>4
  <2> QED
    BY <2>5
<1>4. Defines(sum)
  BY <1>3
<1>5. SumOfFirst = sum
  BY DEF SumOfFirst
<1> HIDE DEF sum
<1>6. ASSUME NEW n \in 0 .. num_threads
      PROVE  sum[n] = IF n = 0 THEN 0 ELSE Go(n, sum[n - 1])
  BY <1>4
<1> HIDE DEF Defines
<1>7. sum[0] = 0
  BY <1>1, <1>6
<1>8. \A n \in 1 .. num_threads : n \in 0 .. num_threads /\ n # 0
  BY <1>1
<1> QED
  BY <1>5, <1>6, <1>7, <1>8

\* When every thread has exited, the sum of the first m counters is the number of
\* positives in their slices, and all of these were executed: one slice is added
\* after the other, and they do not overlap.
LEMMA SumIsCount ==
    ASSUME num_threads \in Nat \ {0}, Inputs, Bounds, CountersAreRight, ExitedThreadsArePublished,
           \A t \in Thread : phase[t] = "exited",
           NEW m \in 0 .. num_threads
    PROVE  /\ SumOfFirst[m] = Cardinality(Before(m))
           /\ \A n \in Before(m) : executed[n] = 1
<1> DEFINE Right(n) == /\ SumOfFirst[n] = Cardinality(Before(n))
                       /\ \A x \in Before(n) : executed[x] = 1
           P == {n \in Nat : n <= num_threads => Right(n)}
<1>0. num_threads \in Nat /\ num_txns \in Nat /\ Txn \subseteq Nat /\ positive \subseteq Txn
  BY FinitePositives DEF Txn, Inputs
<1>1. out_positives \in [Thread -> Nat]
  BY <1>0 DEF Bounds
<1>2. 0 \in P
  <2>1. Before(0) = {}
    <3>1. start_pos(0) = 0 /\ positive \subseteq Nat
      BY <1>0, Cuts
    <3>2. \A x \in positive : ~(x < 0)
      BY <3>1
    <3> QED
      BY <3>1, <3>2 DEF Before
  <2> QED
    BY <1>1, <2>1, SumSteps, FS_EmptySet
<1>3. ASSUME NEW n \in P
      PROVE  n + 1 \in P
  <2>0. n + 1 \in Nat
    OBVIOUS
  <2> SUFFICES ASSUME n + 1 <= num_threads
               PROVE  Right(n + 1)
    BY <2>0, Zenon
  <2>1. n \in Thread /\ n <= num_threads /\ n + 1 \in 1 .. num_threads /\ (n + 1) - 1 = n
    BY <1>0 DEF Thread
  <2>2. Right(n)
    BY <2>1
  <2> DEFINE own == {x \in positive : start_pos(n) <= x /\ x < start_pos(n + 1)}
  <2>3. Counted(n) = own
    <3>1. i[n] = end_pos(n)
      BY <2>1 DEF ExitedThreadsArePublished
    <3> QED
      BY <1>0, <3>1, Cuts DEF Counted
  <2>4. out_positives[n] = Cardinality(own) /\ \A x \in own : executed[x] = 1
    BY <2>1, <2>3 DEF CountersAreRight, ExitedThreadsArePublished, Created
  <2>5. start_pos(n) \in Nat /\ start_pos(n + 1) \in Nat /\ start_pos(n) <= start_pos(n + 1)
    <3>1. end_pos(n) = start_pos(n + 1) /\ start_pos(n) <= end_pos(n)
      BY <1>0, <2>1, Cuts, Slices
    <3>2. n \in 0 .. num_threads /\ n + 1 \in 0 .. num_threads
      BY <2>1
    <3> QED
      BY <1>0, <3>1, <3>2, Cuts
  <2>6. Before(n + 1) = Before(n) \cup own /\ Before(n) \cap own = {}
    <3> DEFINE a == start_pos(n)
               b == start_pos(n + 1)
    <3>1. a \in Nat /\ b \in Nat /\ a <= b /\ positive \subseteq Nat
      BY <1>0, <2>5
    <3>2. /\ Before(n) = {x \in positive : x < a}
          /\ Before(n + 1) = {x \in positive : x < b}
          /\ own = {x \in positive : a <= x /\ x < b}
      BY DEF Before
    <3> HIDE DEF a, b, own
    <3>3. \A x \in positive : (x < b <=> x < a \/ (a <= x /\ x < b)) /\ ~(x < a /\ a <= x)
      BY <3>1
    <3> QED
      BY <3>2, <3>3
  <2>7. /\ IsFiniteSet(Before(n)) /\ IsFiniteSet(own)
        /\ Cardinality(Before(n)) \in Nat /\ Cardinality(own) \in Nat
    BY FinitePositives DEF Before
  <2> HIDE DEF own
  <2>8. Cardinality(Before(n + 1)) = Cardinality(Before(n)) + Cardinality(own)
    <3>1. Cardinality(Before(n) \cup own)
            = Cardinality(Before(n)) + Cardinality(own) - Cardinality(Before(n) \cap own)
      BY <2>7, FS_Union
    <3>2. Cardinality(Before(n) \cap own) = 0
      BY <2>6, FS_EmptySet
    <3>3. Cardinality(Before(n)) + Cardinality(own) - 0 = Cardinality(Before(n)) + Cardinality(own)
      BY <2>7
    <3> QED
      BY <2>6, <3>1, <3>2, <3>3, Zenon
  <2>9. SumOfFirst[n + 1] = SumOfFirst[n] + out_positives[n]
    BY <1>1, <2>1, SumSteps
  <2>10. SumOfFirst[n + 1] = Cardinality(Before(n + 1))
    BY <2>2, <2>4, <2>8, <2>9
  <2>11. \A x \in Before(n + 1) : executed[x] = 1
    BY <2>2, <2>4, <2>6
  <2> QED
    BY <2>10, <2>11
<1>4. P \subseteq Nat
  OBVIOUS
<1>5. m \in P
  <2> HIDE DEF P
  <2>1. P = Nat
    BY <1>2, <1>3, <1>4, SetInduction
  <2> QED
    BY <1>0, <2>1
<1> QED
  BY <1>0, <1>5

LEMMA CountInvariantInit == Init => CountInvariant
<1> SUFFICES ASSUME Init PROVE CountInvariant
  OBVIOUS
<1>1. Inputs
  BY DEF Init, Inputs
<1>2. num_txns \in Nat
  BY <1>1, FinitePositives
<1>3. Bounds
  BY <1>2 DEF Init, Bounds
<1>4. CountersStartAtZero
  BY DEF Init, CountersStartAtZero
<1>5. CountersAreRight /\ ExitedThreadsArePublished
  BY DEF Init, CountersAreRight, ExitedThreadsArePublished, Created
<1>6. RemainderUntouched
  BY DEF Init, RemainderUntouched
<1>7. MainKnowsThreads
  BY DEF Init, MainKnowsThreads, Thread
<1> QED
  BY <1>1, <1>3, <1>4, <1>5, <1>6, <1>7 DEF CountInvariant

\* The new thread has counted nothing yet, and has been nowhere.
LEMMA CreateThreadCounts ==
    ASSUME SliceInvariant, CountInvariant, CreateThread PROVE CountInvariant'
<1> USE DEF SliceInvariant, Types
<1>1. /\ next \in Thread /\ main = "create" /\ main' = main
      /\ num_txns' = num_txns /\ num_threads' = num_threads
      /\ positive' = positive /\ UNCHANGED <<filter_type, query_type, present>>
      /\ executed' = executed /\ next' = next + 1
      /\ positives' = positives /\ out_positives' = out_positives /\ total' = total
      /\ i' = [i EXCEPT ![next] = start_pos(next)]
      /\ phase' = [phase EXCEPT ![next] = "running"]
  BY DEF CreateThread, input, Thread
<1>2. /\ Inputs /\ Bounds /\ CountersStartAtZero /\ CountersAreRight
      /\ ExitedThreadsArePublished /\ RemainderUntouched /\ MainKnowsThreads
  BY DEF CountInvariant
<1>3. \A t : start_pos(t)' = start_pos(t) /\ end_pos(t)' = end_pos(t)
  BY <1>1 DEF start_pos, end_pos, num_txns_per_thread
<1>4. Txn' = Txn /\ Thread' = Thread
  BY <1>1 DEF Txn, Thread
<1>5. Inputs'
  BY <1>1, <1>2, <1>4 DEF Inputs, AnswersQueries
<1>6. Bounds'
  <2>1. start_pos(next) \in 0 .. num_txns
    BY <1>1, Slices
  <2> QED
    BY <1>1, <1>2, <1>4, <2>1 DEF Bounds
<1>7. CountersStartAtZero'
  <2>1. \A t \in Thread : t >= next + 1 => t >= next
    BY <1>1 DEF Thread
  <2> QED
    BY <1>1, <1>2, <1>4, <2>1 DEF CountersStartAtZero
<1>8. ASSUME NEW t \in Thread
      PROVE  /\ Created(t)' => positives'[t] = Cardinality(Counted(t)')
             /\ Created(t)' => \A n \in Counted(t)' : executed'[n] = 1
             /\ phase'[t] = "exited" => phase[t] = "exited" /\ t # next
             /\ t # next => phase'[t] = phase[t] /\ i'[t] = i[t]
             /\ Created(t) => Created(t)'
             /\ t = next => Created(t)'
  <2>1. CASE t = next
    <3>1. positives[t] = 0
      BY <1>1, <1>2, <1>4, <2>1 DEF CountersStartAtZero, Thread
    <3>2. Counted(t)' = {}
      <4>1. i'[t] = start_pos(t) /\ start_pos(t) \in Nat /\ positive \subseteq Nat
        BY <1>1, <1>2, <2>1, Slices DEF Inputs, Txn
      <4>2. \A n \in positive : ~(start_pos(t) <= n /\ n < start_pos(t))
        BY <4>1
      <4> QED
        BY <1>1, <1>3, <4>1, <4>2 DEF Counted
    <3>3. phase'[t] = "running"
      BY <1>1, <2>1
    <3> QED
      BY <1>1, <2>1, <3>1, <3>2, <3>3, FS_EmptySet DEF Created
  <2>2. CASE t # next
    <3>1. phase'[t] = phase[t] /\ i'[t] = i[t]
      BY <1>1, <2>2
    <3>2. Counted(t)' = Counted(t) /\ (Created(t)' <=> Created(t))
      BY <1>1, <1>3, <3>1 DEF Counted, Created
    <3> QED
      BY <1>1, <1>2, <2>2, <3>1, <3>2 DEF CountersAreRight
  <2> QED
    BY <2>1, <2>2
<1>9. CountersAreRight'
  BY <1>4, <1>8 DEF CountersAreRight
<1>10. ExitedThreadsArePublished'
  BY <1>1, <1>2, <1>3, <1>4, <1>8 DEF ExitedThreadsArePublished
<1>11. RemainderUntouched'
  BY <1>1, <1>2, <1>3, <1>4 DEF RemainderUntouched
<1>12. MainKnowsThreads'
  <2>1. \A t \in Thread : t < next + 1 => t < next \/ t = next
    BY <1>1 DEF Thread
  <2> QED
    BY <1>1, <1>2, <1>4, <1>8, <2>1 DEF MainKnowsThreads
<1> QED
  BY <1>5, <1>6, <1>7, <1>9, <1>10, <1>11, <1>12 DEF CountInvariant

\* A query counts the transaction it executes, and no other.
LEMMA QueryCounts ==
    ASSUME SliceInvariant, CountInvariant, NEW t \in Thread, Query(t) PROVE CountInvariant'
<1> USE DEF SliceInvariant, Types
<1> DEFINE n == i[t]
<1>0. num_threads \in Nat \ {0}
  BY DEF Thread
<1>1. /\ phase[t] = "running" /\ n < end_pos(t)
      /\ executed' = [executed EXCEPT ![n] = @ + 1]
      /\ i' = [i EXCEPT ![t] = @ + 1]
      /\ positives' = [positives EXCEPT ![t] = IF n \in positive THEN @ + 1 ELSE @]
      /\ phase' = phase /\ main' = main /\ next' = next
      /\ num_txns' = num_txns /\ num_threads' = num_threads
      /\ positive' = positive /\ UNCHANGED <<filter_type, query_type, present>>
      /\ out_positives' = out_positives /\ total' = total
  BY DEF Query, input
<1>2. /\ Inputs /\ Bounds /\ CountersStartAtZero /\ CountersAreRight
      /\ ExitedThreadsArePublished /\ RemainderUntouched /\ MainKnowsThreads
  BY DEF CountInvariant
<1>3. \A u : start_pos(u)' = start_pos(u) /\ end_pos(u)' = end_pos(u)
  BY <1>1 DEF start_pos, end_pos, num_txns_per_thread
<1>4. Txn' = Txn /\ Thread' = Thread
  BY <1>1 DEF Txn, Thread
<1>5. /\ start_pos(t) \in Nat /\ end_pos(t) \in Nat /\ end_pos(t) <= num_txns
      /\ end_pos(t) <= start_pos(num_threads) /\ start_pos(num_threads) \in Nat
      /\ start_pos(t) <= n /\ n \in Nat
  <2>1. num_threads \in 0 .. num_threads
    BY <1>0
  <2> QED
    BY <1>0, <1>1, <2>1, Slices, Cuts DEF RestUntouched
<1>6. n \in Txn /\ executed[n] = 0 /\ executed'[n] = 1
  <2>1. n \in Txn
    BY <1>1, <1>5 DEF Txn
  <2>2. executed[n] = 0
    BY <1>1, <2>1 DEF RestUntouched
  <2> QED
    BY <1>1, <2>1, <2>2
<1>7. \A x \in Txn : x # n => executed'[x] = executed[x]
  BY <1>1
<1>8. i'[t] = n + 1 /\ \A u \in Thread : u # t => i'[u] = i[u] /\ positives'[u] = positives[u]
  BY <1>1
<1>9. positive \subseteq Txn /\ positive \subseteq Nat
  BY <1>2 DEF Inputs, Txn
<1> HIDE DEF n
<1>10. Counted(t) = {x \in positive : start_pos(t) <= x /\ x < n}
  BY DEF Counted, n
<1>11. Counted(t)' = {x \in positive : start_pos(t) <= x /\ x < n + 1}
  BY <1>1, <1>3, <1>8 DEF Counted
<1>12. Counted(t)' = Counted(t) \cup (positive \cap {n}) /\ n \notin Counted(t)
  <2>1. \A x \in positive : (start_pos(t) <= x /\ x < n + 1) <=> ((start_pos(t) <= x /\ x < n) \/ x = n)
    BY <1>5, <1>9
  <2>2. ~(n < n)
    BY <1>5
  <2> QED
    BY <1>10, <1>11, <2>1, <2>2
<1>13. positives'[t] = Cardinality(Counted(t)')
  <2>1. positives[t] = Cardinality(Counted(t)) /\ positives[t] \in Nat
    BY <1>1, <1>2 DEF CountersAreRight, Created, Bounds
  <2>2. IsFiniteSet(Counted(t))
    BY <1>2, FinitePositives DEF Counted
  <2>3. CASE n \in positive
    <3>1. Counted(t)' = Counted(t) \cup {n}
      BY <1>12, <2>3
    <3>2. Cardinality(Counted(t) \cup {n}) = Cardinality(Counted(t)) + 1
      BY <1>12, <2>2, FS_AddElement
    <3>3. positives'[t] = positives[t] + 1
      BY <1>1, <1>2, <2>3 DEF Bounds
    <3> QED
      BY <2>1, <3>1, <3>2, <3>3
  <2>4. CASE n \notin positive
    <3>1. Counted(t)' = Counted(t)
      BY <1>12, <2>4
    <3>2. positives'[t] = positives[t]
      BY <1>1, <1>2, <2>4 DEF Bounds
    <3> QED
      BY <2>1, <3>1, <3>2
  <2> QED
    BY <2>3, <2>4
<1>14. Inputs'
  BY <1>1, <1>2, <1>4 DEF Inputs, AnswersQueries
<1>15. Bounds'
  <2>1. Counted(t)' \in SUBSET positive
    BY <1>11
  <2>2. positives'[t] \in 0 .. num_txns
    BY <1>2, <1>13, <2>1, FinitePositives
  <2>3. n + 1 \in 0 .. num_txns
    BY <1>1, <1>5
  <2>4. positives' = [positives EXCEPT ![t] = positives'[t]]
    BY <1>1, <1>2 DEF Bounds
  <2>5. positives' \in [Thread -> 0 .. num_txns]
    BY <1>2, <2>2, <2>4 DEF Bounds
  <2>6. i' \in [Thread -> 0 .. num_txns]
    BY <1>1, <1>2, <2>3 DEF Bounds, n
  <2> QED
    BY <1>1, <1>2, <1>4, <2>5, <2>6 DEF Bounds
<1>16. CountersStartAtZero'
  <2>1. main \in {"slice", "create"} => ~(t >= next)
    BY <1>1 DEF SliceUntouched
  <2> QED
    BY <1>1, <1>2, <1>4, <1>8, <2>1 DEF CountersStartAtZero
<1>17. CountersAreRight'
  <2> SUFFICES ASSUME NEW u \in Thread, Created(u)'
               PROVE  /\ positives'[u] = Cardinality(Counted(u)')
                      /\ \A x \in Counted(u)' : executed'[x] = 1
    BY <1>4 DEF CountersAreRight
  <2>1. Created(u)
    BY <1>1 DEF Created
  <2>2. \A x \in Counted(u) : executed'[x] = 1
    BY <1>2, <1>6, <1>7, <1>9, <2>1 DEF CountersAreRight, Counted
  <2>3. CASE u = t
    BY <1>6, <1>12, <1>13, <2>2, <2>3
  <2>4. CASE u # t
    <3>1. Counted(u)' = Counted(u)
      BY <1>1, <1>3, <1>8, <2>4 DEF Counted
    <3> QED
      BY <1>2, <1>8, <2>1, <2>2, <2>4, <3>1 DEF CountersAreRight
  <2> QED
    BY <2>3, <2>4
<1>18. ExitedThreadsArePublished'
  BY <1>1, <1>2, <1>3, <1>4, <1>8 DEF ExitedThreadsArePublished
<1>19. RemainderUntouched'
  <2>1. \A x \in Txn : start_pos(num_threads) <= x => x # n
    BY <1>1, <1>5 DEF Txn, n
  <2> QED
    BY <1>1, <1>2, <1>3, <1>4, <1>7, <2>1 DEF RemainderUntouched
<1>20. MainKnowsThreads'
  <2>1. main # "report"
    BY <1>1, <1>2 DEF MainKnowsThreads
  <2> QED
    BY <1>1, <1>2, <1>4, <2>1 DEF MainKnowsThreads, Created
<1> QED
  BY <1>14, <1>15, <1>16, <1>17, <1>18, <1>19, <1>20 DEF CountInvariant

\* A thread that has come to the end of its slice publishes its counter.
LEMMA ExitThreadCounts ==
    ASSUME SliceInvariant, CountInvariant, NEW t \in Thread, ExitThread(t) PROVE CountInvariant'
<1> USE DEF SliceInvariant, Types
<1>0. num_threads \in Nat \ {0}
  BY DEF Thread
<1>1. /\ phase[t] = "running" /\ i[t] >= end_pos(t)
      /\ out_positives' = [out_positives EXCEPT ![t] = positives[t]]
      /\ phase' = [phase EXCEPT ![t] = "exited"]
      /\ num_txns' = num_txns /\ num_threads' = num_threads
      /\ positive' = positive /\ UNCHANGED <<filter_type, query_type, present>>
      /\ i' = i /\ positives' = positives /\ executed' = executed
      /\ main' = main /\ next' = next /\ total' = total
  BY DEF ExitThread, input, work
<1>2. /\ Inputs /\ Bounds /\ CountersStartAtZero /\ CountersAreRight
      /\ ExitedThreadsArePublished /\ RemainderUntouched /\ MainKnowsThreads
  BY DEF CountInvariant
<1>3. \A u : start_pos(u)' = start_pos(u) /\ end_pos(u)' = end_pos(u)
  BY <1>1 DEF start_pos, end_pos, num_txns_per_thread
<1>4. Txn' = Txn /\ Thread' = Thread
  BY <1>1 DEF Txn, Thread
<1>5. i[t] = end_pos(t)
  BY <1>0, <1>1, Slices DEF RestUntouched
<1>6. phase'[t] = "exited" /\ \A u \in Thread : u # t => phase'[u] = phase[u]
  BY <1>1
<1>7. \A u \in Thread : Created(u)' <=> Created(u)
  BY <1>1, <1>6 DEF Created
<1>8. Inputs' /\ RemainderUntouched'
  BY <1>1, <1>2, <1>3, <1>4 DEF Inputs, AnswersQueries, RemainderUntouched
<1>9. Bounds'
  BY <1>1, <1>2, <1>4 DEF Bounds
<1>10. CountersStartAtZero'
  BY <1>1, <1>2, <1>4 DEF CountersStartAtZero
<1>11. CountersAreRight'
  <2>1. \A u : Counted(u)' = Counted(u)
    BY <1>1, <1>3 DEF Counted
  <2> QED
    BY <1>1, <1>2, <1>4, <1>7, <2>1 DEF CountersAreRight
<1>12. ExitedThreadsArePublished'
  <2>1. /\ out_positives'[t] = positives[t]
        /\ \A u \in Thread : u # t => out_positives'[u] = out_positives[u]
    BY <1>1, <1>2 DEF Bounds
  <2> QED
    BY <1>1, <1>2, <1>3, <1>4, <1>5, <1>6, <2>1 DEF ExitedThreadsArePublished
<1>13. MainKnowsThreads'
  <2>1. main # "report"
    BY <1>1, <1>2 DEF MainKnowsThreads
  <2> QED
    BY <1>1, <1>2, <1>4, <1>6, <1>7, <2>1 DEF MainKnowsThreads
<1> QED
  BY <1>8, <1>9, <1>10, <1>11, <1>12, <1>13 DEF CountInvariant

\* main() sums up when it has seen every thread exit.
LEMMA AllJoinedCounts ==
    ASSUME SliceInvariant, CountInvariant, AllJoined PROVE CountInvariant'
<1>1. /\ main = "join" /\ next = num_threads /\ main' = "report"
      /\ total' = SumOfFirst[num_threads]
      /\ num_txns' = num_txns /\ num_threads' = num_threads
      /\ positive' = positive /\ UNCHANGED <<filter_type, query_type, present>>
      /\ i' = i /\ positives' = positives /\ executed' = executed
      /\ next' = next /\ phase' = phase /\ out_positives' = out_positives
  BY DEF AllJoined, input, work
<1>2. /\ Inputs /\ Bounds /\ CountersStartAtZero /\ CountersAreRight
      /\ ExitedThreadsArePublished /\ RemainderUntouched /\ MainKnowsThreads
  BY DEF CountInvariant
<1>3. /\ \A u : start_pos(u)' = start_pos(u) /\ end_pos(u)' = end_pos(u)
      /\ Txn' = Txn /\ Thread' = Thread
  BY <1>1 DEF start_pos, end_pos, num_txns_per_thread, Txn, Thread
<1>11. num_threads \in Nat \ {0}
  BY <1>1 DEF SliceInvariant, Types
<1>4. \A t \in Thread : phase[t] = "exited"
  BY <1>1, <1>2, <1>11 DEF MainKnowsThreads, Thread
<1>5. total' \in 0 .. num_txns
  <2>1. num_threads \in 0 .. num_threads
    BY <1>11
  <2>2. total' = Cardinality(Before(num_threads))
    BY <1>1, <1>2, <1>4, <1>11, <2>1, SumIsCount
  <2>3. Before(num_threads) \in SUBSET positive
    BY DEF Before
  <2> QED
    BY <1>2, <2>2, <2>3, FinitePositives
<1>6. Inputs' /\ RemainderUntouched' /\ CountersStartAtZero'
  BY <1>1, <1>2, <1>3 DEF Inputs, AnswersQueries, RemainderUntouched, CountersStartAtZero
<1>7. Bounds'
  BY <1>1, <1>2, <1>3, <1>5 DEF Bounds
<1>8. CountersAreRight'
  <2>1. \A u : Counted(u)' = Counted(u) /\ (Created(u)' <=> Created(u))
    BY <1>1, <1>3 DEF Counted, Created
  <2> QED
    BY <1>1, <1>2, <1>3, <2>1 DEF CountersAreRight
<1>9. ExitedThreadsArePublished'
  BY <1>1, <1>2, <1>3 DEF ExitedThreadsArePublished
<1>10. MainKnowsThreads'
  <2>1. SumOfFirst' = SumOfFirst
    BY <1>1 DEF SumOfFirst
  <2> QED
    BY <1>1, <1>3, <1>4, <2>1 DEF MainKnowsThreads
<1> QED
  BY <1>6, <1>7, <1>8, <1>9, <1>10 DEF CountInvariant

\* The other steps of main() count nothing; exit() ends all threads.
LEMMA MainStepsCount ==
    ASSUME SliceInvariant, CountInvariant,
           \/ Slice \/ AllocationFails \/ DivisionByZero
           \/ CreateFails \/ AllCreated \/ JoinThread \/ JoinFails
    PROVE  CountInvariant'
<1>1. /\ num_txns' = num_txns /\ num_threads' = num_threads
      /\ positive' = positive /\ UNCHANGED <<filter_type, query_type, present>>
      /\ i' = i /\ positives' = positives /\ executed' = executed
      /\ out_positives' = out_positives /\ total' = total
  BY DEF Slice, AllocationFails, DivisionByZero, CreateFails, AllCreated, JoinThread, JoinFails,
     input, work
<1>2. /\ Inputs /\ Bounds /\ CountersStartAtZero /\ CountersAreRight
      /\ ExitedThreadsArePublished /\ RemainderUntouched /\ MainKnowsThreads
  BY DEF CountInvariant
<1>3. /\ \A u : start_pos(u)' = start_pos(u) /\ end_pos(u)' = end_pos(u)
      /\ Txn' = Txn /\ Thread' = Thread
  BY <1>1 DEF start_pos, end_pos, num_txns_per_thread, Txn, Thread
<1>4. /\ main' \notin {"slice", "report"}
      /\ main' = "create" => main = "slice" /\ next' = next
      /\ \A t \in Thread : phase'[t] = phase[t] \/ phase'[t] = "none"
  BY DEF Slice, AllocationFails, DivisionByZero, CreateFails, AllCreated, JoinThread, JoinFails
<1>11. num_threads \in Int
  BY DEF SliceInvariant, Types
<1>5. Inputs' /\ RemainderUntouched'
  BY <1>1, <1>2, <1>3 DEF Inputs, AnswersQueries, RemainderUntouched
<1>6. Bounds'
  BY <1>1, <1>2, <1>3 DEF Bounds
<1>7. CountersStartAtZero'
  BY <1>1, <1>2, <1>3, <1>4 DEF CountersStartAtZero
<1>8. CountersAreRight'
  <2>1. \A u : Counted(u)' = Counted(u)
    BY <1>1, <1>3 DEF Counted
  <2>2. \A u \in Thread : Created(u)' => Created(u)
    BY <1>4 DEF Created
  <2> QED
    BY <1>1, <1>2, <1>3, <2>1, <2>2 DEF CountersAreRight
<1>9. ExitedThreadsArePublished'
  BY <1>1, <1>2, <1>3, <1>4 DEF ExitedThreadsArePublished
<1>10. MainKnowsThreads'
  <2>1. CASE AllocationFails \/ DivisionByZero \/ CreateFails \/ JoinFails
    BY <2>1 DEF AllocationFails, DivisionByZero, CreateFails, JoinFails, MainKnowsThreads
  <2>4. CASE Slice
    <3>1. main = "slice" /\ next' = next /\ main' = "create"
      BY <2>4 DEF Slice
    <3>2. \A t \in Thread : ~(t < 0)
      BY <1>11 DEF Thread
    <3> QED
      BY <1>2, <1>3, <3>1, <3>2 DEF MainKnowsThreads
  <2>2. CASE AllCreated
    <3>1. main = "create" /\ next = num_threads /\ next' = 0 /\ phase' = phase /\ main' = "join"
      BY <2>2 DEF AllCreated
    <3>2. \A t \in Thread : t < num_threads /\ ~(t < 0)
      BY <1>11 DEF Thread
    <3> QED
      BY <1>2, <1>3, <3>1, <3>2 DEF MainKnowsThreads, Created
  <2>3. CASE JoinThread
    <3>1. main = "join" /\ next' = next + 1 /\ phase' = phase /\ main' = main /\ phase[next] = "exited"
      BY <2>3 DEF JoinThread, work
    <3>2. \A t \in Thread : t < next + 1 => t < next \/ t = next
      BY DEF Thread, SliceInvariant, Types
    <3> QED
      BY <1>2, <1>3, <3>1, <3>2 DEF MainKnowsThreads, Created
  <2> QED
    BY <2>1, <2>2, <2>3, <2>4
<1> QED
  BY <1>5, <1>6, <1>7, <1>8, <1>9, <1>10 DEF CountInvariant

LEMMA StutteringCounts ==
    ASSUME CountInvariant, UNCHANGED vars PROVE CountInvariant'
<1>1. /\ \A u : start_pos(u)' = start_pos(u) /\ end_pos(u)' = end_pos(u)
      /\ Txn' = Txn /\ Thread' = Thread
  BY DEF vars, start_pos, end_pos, num_txns_per_thread, Txn, Thread
<1>2. \A u : Counted(u)' = Counted(u) /\ (Created(u)' <=> Created(u))
  BY <1>1 DEF vars, Counted, Created
<1>3. SumOfFirst' = SumOfFirst
  BY DEF vars, SumOfFirst
<1>4. Inputs' /\ Bounds' /\ CountersStartAtZero' /\ ExitedThreadsArePublished'
      /\ RemainderUntouched'
  BY <1>1 DEF vars, CountInvariant, Inputs, AnswersQueries, Bounds, CountersStartAtZero,
     ExitedThreadsArePublished, RemainderUntouched
<1>5. CountersAreRight'
  BY <1>1, <1>2 DEF vars, CountInvariant, CountersAreRight
<1>6. MainKnowsThreads'
  BY <1>1, <1>2, <1>3 DEF vars, CountInvariant, MainKnowsThreads
<1> QED
  BY <1>4, <1>5, <1>6 DEF CountInvariant

LEMMA CountInvariantNext ==
    SliceInvariant /\ CountInvariant /\ [Next]_vars => CountInvariant'
BY CreateThreadCounts, QueryCounts, ExitThreadCounts, AllJoinedCounts, MainStepsCount,
   StutteringCounts DEF Next, MainStep, MainGoesOn, ThreadStep

THEOREM CountInvariantHolds == Spec => []CountInvariant
BY CountInvariantInit, CountInvariantNext, SliceInvariantHolds, PTL DEF Spec

\* Every variable keeps its type: a thread never leaves the transactions, and no
\* counter exceeds their number, in whatever order the threads run.
THEOREM TypesCorrect == Spec => []TypeOK
<1>1. SliceInvariant /\ CountInvariant => TypeOK
  BY DEF SliceInvariant, Types, CountInvariant, Inputs, Bounds, TypeOK
<1> QED
  BY <1>1, SliceInvariantHolds, CountInvariantHolds, PTL

\* When main() comes to its report, every thread has exited and the sum is the
\* number of positives in the slices of all of them.
LEMMA ReportedTotal ==
    ASSUME SliceInvariant, CountInvariant, main = "report"
    PROVE  /\ total = Cardinality(Before(num_threads))
           /\ \A n \in Before(num_threads) : executed[n] = 1
           /\ Inputs
           /\ num_threads \in Nat \ {0}
<1>1. /\ Inputs /\ Bounds /\ CountersAreRight /\ ExitedThreadsArePublished
      /\ \A t \in Thread : phase[t] = "exited"
      /\ total = SumOfFirst[num_threads]
  BY DEF CountInvariant, MainKnowsThreads
<1>2. num_threads \in Nat \ {0} /\ num_threads \in 0 .. num_threads
  BY DEF SliceInvariant, Types
<1> QED
  BY <1>1, <1>2, SumIsCount

\* What main() reports is the number of positives that were executed: no
\* counter is read before its thread has published it, and none is lost.
THEOREM TotalCountsExecuted == Spec => []TotalIsWhatWasExecuted
<1>1. ASSUME SliceInvariant, CountInvariant, main = "report"
      PROVE  total = Cardinality({n \in positive : executed[n] = 1})
  <2>1. /\ total = Cardinality(Before(num_threads))
        /\ \A n \in Before(num_threads) : executed[n] = 1
        /\ Inputs /\ num_threads \in Nat \ {0}
    BY <1>1, ReportedTotal
  <2>2. num_txns \in Nat /\ positive \subseteq Txn /\ positive \subseteq Nat
    BY <2>1, FinitePositives DEF Inputs, Txn
  <2>3. start_pos(num_threads) \in Nat
    <3>1. num_threads \in 0 .. num_threads
      BY <2>1
    <3> QED
      BY <2>1, <2>2, <3>1, Cuts
  <2>4. \A n \in positive : n < start_pos(num_threads) \/ executed[n] = 0
    BY <1>1, <2>2, <2>3 DEF CountInvariant, RemainderUntouched
  <2>5. Before(num_threads) = {n \in positive : executed[n] = 1}
    BY <2>1, <2>4 DEF Before
  <2> QED
    BY <2>1, <2>5
<1>2. SliceInvariant /\ CountInvariant => TotalIsWhatWasExecuted
  BY <1>1 DEF TotalIsWhatWasExecuted
<1> QED
  BY <1>2, SliceInvariantHolds, CountInvariantHolds, PTL

\* The driver's assertion holds when the division leaves no remainder and the
\* filter answers this type of query: then all positives are counted, and what is
\* present is among them.
THEOREM AssertionOnEvenSlices == Spec => []AssertionHoldsOnEvenSlices
<1>1. ASSUME SliceInvariant, CountInvariant,
             main = "report", AnswersQueries, num_txns % num_threads = 0
      PROVE  false_positives >= 0
  <2>1. total = Cardinality(Before(num_threads)) /\ Inputs /\ num_threads \in Nat \ {0}
    BY <1>1, ReportedTotal
  <2>2. num_txns \in Nat /\ positive \subseteq Txn /\ present \subseteq positive
    BY <1>1, <2>1, FinitePositives DEF Inputs
  <2>3. start_pos(num_threads) = num_txns
    BY <1>1, <2>1, <2>2 DEF start_pos, num_txns_per_thread
  <2>4. \A n \in positive : n < num_txns
    BY <2>2 DEF Txn
  <2>5. Before(num_threads) = positive
    BY <2>3, <2>4 DEF Before
  <2>6. IsFiniteSet(positive) /\ Cardinality(positive) \in Nat /\ Cardinality(present) \in Nat
    BY <2>1, <2>2, FinitePositives
  <2>7. Cardinality(present) <= Cardinality(positive)
    BY <2>2, <2>6, FS_Subset
  <2> QED
    BY <2>1, <2>5, <2>6, <2>7 DEF false_positives, true_positives
<1>2. SliceInvariant /\ CountInvariant => AssertionHoldsOnEvenSlices
  BY <1>1 DEF AssertionHoldsOnEvenSlices
<1> QED
  BY <1>2, SliceInvariantHolds, CountInvariantHolds, PTL

=============================================================================

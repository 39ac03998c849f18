---------------------------- MODULE RangeFilter ----------------------------
(***************************************************************************)
(* What a Rosetta-style range filter promises its caller, whatever its     *)
(* levels, its Bloom filters and its recursion look like.                  *)
(*                                                                         *)
(* The filter is built over a set of keys and then asked about closed      *)
(* ranges.  Its error is one-sided: it may answer "true" for a range that  *)
(* holds no key, but it answers "false" only when there really is none,    *)
(* and the key it reports with "true" (what seek returns) is inside the    *)
(* range and not above the least key there, so that a caller that starts   *)
(* scanning at the reported key misses nothing.                            *)
(*                                                                         *)
(* One query is outside the promise: the range that spans the whole key    *)
(* space would be answered by a level above the topmost filter, and the    *)
(* implementation has none there (see RosettaU64).                         *)
(***************************************************************************)
EXTENDS Integers

CONSTANTS Word,      \* the key space, a non-empty set of integers
          KeySets    \* the key sets the filter may be built over

VARIABLES keys,        \* the keys the filter holds
          low, high,   \* the range of the last query
          result,      \* what the last query came to
          min_accept   \* the key reported by the last query, 0 if none

vars == <<keys, low, high, result, min_accept>>

Results == {"empty", "ready", "running", "true", "false", "undefined"}

KeysInRange == {k \in keys : low <= k /\ k <= high}

WholeKeySpace == \A w \in Word : low <= w /\ w <= high

----------------------------------------------------------------------------

Init == /\ keys = {}
        /\ low = 0
        /\ high = 0
        /\ result = "empty"
        /\ min_accept = 0

Construct == /\ result = "empty"
             /\ keys' \in KeySets
             /\ result' = "ready"
             /\ UNCHANGED <<low, high, min_accept>>

\* The filter takes keys after it was built, or is read back with the keys it
\* was written with.
ChangeKeys == /\ result \in {"ready", "true", "false"}
              /\ keys' \in KeySets
              /\ result' = "ready"
              /\ UNCHANGED <<low, high, min_accept>>

Ask == /\ result \in {"ready", "true", "false"}
       /\ low' \in Word
       /\ high' \in Word
       /\ result' = "running"
       /\ min_accept' = 0
       /\ UNCHANGED keys

AnswerFalse == /\ result = "running"
               /\ KeysInRange = {}
               /\ result' = "false"
               /\ UNCHANGED <<keys, low, high, min_accept>>

AnswerTrue == /\ result = "running"
              /\ result' = "true"
              /\ min_accept' \in Word
              /\ low <= min_accept' /\ min_accept' <= high
              /\ \A k \in KeysInRange : min_accept' <= k
              /\ UNCHANGED <<keys, low, high>>

LeaveUndefined == /\ result = "running"
                  /\ WholeKeySpace
                  /\ result' = "undefined"
                  /\ UNCHANGED <<keys, low, high, min_accept>>

Answer == AnswerFalse \/ AnswerTrue \/ LeaveUndefined

Next == Construct \/ ChangeKeys \/ Ask \/ Answer

Spec == Init /\ [][Next]_vars

\* A query that was asked is eventually answered.
FairSpec == Spec /\ WF_vars(Answer)

=============================================================================

------------------------------ MODULE Workload ------------------------------
(***************************************************************************)
(* The sequential drivers bench/workload.cpp and bench/workload_u64.cpp    *)
(* with what they call in bench.hpp, filter_factory.hpp and the adapters   *)
(* filter_*.hpp: check the arguments, load two files of keys, build a      *)
(* filter over part of the first, ask it about every key of the second,    *)
(* and compare the answers with the true ones.                             *)
(*                                                                         *)
(* workload.cpp keeps keys as strings, and for Rosetta and ElasticRosetta  *)
(* as strings of '0' and '1', over which the filter is built.  The         *)
(* adapters of the two ask with a u64 whatever the filter was built over:  *)
(* with the first eight characters of the string they are given.           *)
(* workload_u64.cpp builds them over u64 keys.                             *)
(*                                                                         *)
(* Filters answer one-sidedly when they are asked as they were built       *)
(* (RosettaU64, ElasticRosetta, BloomFilter, ElasticBF): the drivers load  *)
(* no more keys than an int counts, and write no filter to an image.  SuRF *)
(* stands for all filter types of the external library.  Keys are          *)
(* integers; e-mail keys are not modelled.                                 *)
(***************************************************************************)
EXTENDS LevelBudget, Sequences

CONSTANTS
    Filters,          \* filter types the user may ask for
    Queries,          \* query types
    Percents,         \* percentages of keys to insert
    Keys,             \* what a line, or an unset variable, may hold
    MaxLines,         \* bound on the lines of a file
    kNumIntRecords,   \* records loaded at most
    kIntRangeSize,    \* width of a range query, less one
    DigitBits         \* bits of a bit string that kIntRangeSize leaves alone: 3

MaxWord == Pow2[levels_] - 1

ASSUME WorkloadAssumption ==
    /\ Keys \subseteq 0 .. MaxWord
    /\ kIntRangeSize \in 1 .. MaxWord
    /\ DigitBits \in 0 .. levels_
    /\ MaxLines \in Nat /\ kNumIntRecords \in Nat
    /\ Percents \subseteq Nat

VARIABLES
    driver,         \* "workload" or "workload_u64"
    filter_type,    \* the arguments
    workload_type,
    query_type,
    percent,
    phase,          \* what main() does next, or how it ended
    load_file,      \* the file of keys to insert (history)
    txn_file,       \* the file of keys to ask for (history)
    infile,         \* the file being read: lines to come, and good()
    load_keys,
    txn_keys,
    level,          \* bits of the longest key that was read
    insert_keys,    \* the keys the filter is built over
    bpk,            \* bits per key of each level, if the filter has levels
    i,              \* queries made
    positives,
    true_positives

args == <<driver, filter_type, workload_type, query_type, percent>>
files == <<load_file, txn_file, infile>>
data == <<load_keys, txn_keys, level, insert_keys, bpk>>
counts == <<i, positives, true_positives>>
vars == <<args, phase, files, data, counts>>

Rosettas == {"Rosetta", "ElasticRosetta"}
PointFilters == {"Bloom", "ElasticBF"}

----------------------------------------------------------------------------
(* Arguments and files.                                                    *)

\* Usage asks for 0 < percent and offers alterByte; the checks let 0 through
\* and refuse alterByte, so that modifyKeyByte is never reached.
WrongArgs ==
    \/ percent > 100
    \/ workload_type = "alterByte"
    \/ driver = "workload_u64" /\ filter_type \notin Rosettas
    \/ driver = "workload_u64" /\ query_type \notin {"point", "range"}

\* A file is missing, or has lines, the last of which may end in a newline.
Files == [exists : BOOLEAN, lines : 0 .. MaxLines, newline : BOOLEAN]

Stream(file) == [lines |-> file.lines, newline |-> file.newline, good |-> file.exists]

CheckArgs ==
    /\ phase = "args"
    /\ IF WrongArgs
       THEN phase' = "wrong args" /\ UNCHANGED files
       ELSE /\ phase' = "load"
            /\ load_file' \in Files
            /\ infile' = Stream(load_file')
            /\ UNCHANGED txn_file
    /\ UNCHANGED <<args, data, counts>>

\* Variant: good() is tested behind the read.
MoreKeysIfRead(keys) ==
    Len(keys) < kNumIntRecords /\ infile.good /\ infile.lines > 0

\* Variant: one record more than the limit.
MoreKeysPastLimit(keys) == Len(keys) <= kNumIntRecords /\ infile.good

\* while (count < num_records && infile.good())
MoreKeys(keys) == Len(keys) < kNumIntRecords /\ infile.good

\* infile >> key.  good() ends with the last character; when there is no line
\* left nothing is read, and key is what it was before: unset.
ReadKey(keys) ==
    /\ MoreKeys(keys)
    /\ \E key \in Keys :
         \/ /\ phase = "load"
            /\ load_keys' = Append(keys, key)
            /\ UNCHANGED txn_keys
         \/ /\ phase = "txn"
            /\ txn_keys' = Append(keys, key)
            /\ UNCHANGED load_keys
    /\ infile' = [infile EXCEPT !.lines = Max({@ - 1, 0}),
                                !.good = \/ infile.lines > 1
                                         \/ infile.lines = 1 /\ infile.newline]
    /\ level' = levels_
    /\ UNCHANGED <<args, phase, load_file, txn_file, insert_keys, bpk, counts>>

LoadKey == phase = "load" /\ ReadKey(load_keys)

LoadTxn == phase = "txn" /\ ReadKey(txn_keys)

OpenTxnFile ==
    /\ phase = "load"
    /\ ~MoreKeys(load_keys)
    /\ phase' = "txn"
    /\ txn_file' \in Files
    /\ infile' = Stream(txn_file')
    /\ UNCHANGED <<args, load_file, data, counts>>

num_insert_keys == (Len(load_keys) * percent) \div 100

\* The keys are shuffled and the first of them taken.
selectKeysToInsert ==
    /\ phase = "txn"
    /\ ~MoreKeys(txn_keys)
    /\ \E chosen \in kSubset(num_insert_keys, DOMAIN load_keys) :
         insert_keys' = {load_keys[n] : n \in chosen}
    /\ load_keys' = << >>
    /\ phase' = "create"
    /\ UNCHANGED <<args, files, txn_keys, level, bpk, counts>>

----------------------------------------------------------------------------
(* The filter.                                                             *)

\* The adapters' lookup and lookupRange convert to u64.
OverBitStrings == driver = "workload" /\ filter_type \in Rosettas

\* Both u64 constructors read keys[num - 1].  Elastic_Rosetta asks for level - 1
\* filters, a u32: 2^32 - 1 without a key, all of them null.
CreateUndefined ==
    /\ phase = "create"
    /\ \/ driver = "workload_u64" /\ insert_keys = {}
       \/ OverBitStrings /\ filter_type = "ElasticRosetta" /\ level = 0
    /\ phase' = "undefined"
    /\ UNCHANGED <<args, files, data, counts>>

\* FilterFactory::createFilter.  Over strings every level gets bits_per_key.  For
\* the last one ElasticRosetta has its own units, and does not look at the entry.
createFilter ==
    /\ phase = "create"
    /\ \/ /\ driver = "workload_u64"
          /\ insert_keys # {}
          /\ bpk' \in Budgets(Max(insert_keys) - Min(insert_keys))
       \/ /\ driver = "workload"
          /\ filter_type = "ElasticRosetta" => level # 0
          /\ bpk' = [n \in {m \in Level : OverBitStrings /\ m < level} |-> bits_per_key]
    /\ phase' = "execute"
    /\ UNCHANGED <<args, files, load_keys, txn_keys, level, insert_keys, counts>>

AskedAsBuilt == ~OverBitStrings

\* key + kIntRangeSize, a u64.
Upper(key) == (key + kIntRangeSize) % Pow2[levels_]

\* The n-th query, from 1.
Kind(n) ==
    IF query_type # "mix" THEN query_type ELSE IF n % 2 = 1 THEN "point" ELSE "range"

\* Variant: the last key is left out for all kinds of queries.
NumQueriesOneLess == Len(txn_keys) - 1

NumQueries == IF query_type = "count-long" THEN Len(txn_keys) - 1 ELSE Len(txn_keys)

\* A key in what the filter is asked for.
Holds(kind, key) ==
    \/ kind = "point" /\ key \in insert_keys
    \/ kind = "range" /\ \E k \in insert_keys : key <= k /\ k <= Upper(key)

\* The adapters of filters without ranges answer false, workload_u64.cpp leaves
\* a range out that wraps, and approxCount makes no positives.
NeverPositive(kind, key) ==
    \/ kind \notin {"point", "range"}
    \/ kind = "range" /\ filter_type \in PointFilters
    \/ kind = "range" /\ driver = "workload_u64" /\ Upper(key) <= key

MustBePositive(kind, key) == AskedAsBuilt /\ Holds(kind, key)

Query ==
    /\ phase = "execute"
    /\ i < NumQueries
    /\ LET kind == Kind(i + 1)
           key == txn_keys[i + 1]
       IN  \/ /\ ~NeverPositive(kind, key)
              /\ positives' = positives + 1
           \/ /\ NeverPositive(kind, key) \/ ~MustBePositive(kind, key)
              /\ positives' = positives
    /\ i' = i + 1
    /\ UNCHANGED <<args, phase, files, data, true_positives>>

\* The upper bound that the least inserted key from key on is compared with.
\* Of a bit string it is the first eight digits plus kIntRangeSize, which
\* changes all but the first DigitBits of them to something greater than '1'.
BelowUpper(fetched_key, key) ==
    \/ /\ driver = "workload_u64"
       /\ Upper(key) > key
       /\ fetched_key <= Upper(key)
    \/ /\ driver = "workload"
       /\ ~OverBitStrings
       /\ fetched_key < Upper(key)
    \/ /\ OverBitStrings
       /\ fetched_key \div Pow2[levels_ - DigitBits] = key \div Pow2[levels_ - DigitBits]

\* lower_bound(key)
From(key) == {k \in insert_keys : k >= key}

TruePositive(kind, key) ==
    \/ kind = "point" /\ key \in insert_keys
    \/ kind = "range" /\ From(key) # {} /\ BelowUpper(Min(From(key)), key)

CountTruePositives ==
    /\ phase = "execute"
    /\ i >= NumQueries
    /\ true_positives' = 
           Cardinality({n \in DOMAIN txn_keys : TruePositive(Kind(n), txn_keys[n])})
    /\ phase' = IF driver = "workload" /\ positives < true_positives'
                THEN "assertion failed" ELSE "done"
    /\ UNCHANGED <<args, files, data, i, positives>>

----------------------------------------------------------------------------

Init ==
    /\ driver \in {"workload", "workload_u64"}
    /\ filter_type \in Filters
    /\ workload_type \in {"mixed", "alterByte"}
    /\ query_type \in Queries
    /\ percent \in Percents
    /\ phase = "args"
    /\ load_file = [exists |-> FALSE, lines |-> 0, newline |-> FALSE]
    /\ txn_file = load_file
    /\ infile = Stream(load_file)
    /\ load_keys = << >>
    /\ txn_keys = << >>
    /\ level = 0
    /\ insert_keys = {}
    /\ bpk = << >>
    /\ i = 0
    /\ positives = 0
    /\ true_positives = 0

Next == \/ CheckArgs \/ LoadKey \/ OpenTxnFile \/ LoadTxn \/ selectKeysToInsert
        \/ CreateUndefined \/ createFilter
        \/ Query \/ CountTruePositives

Spec == Init /\ [][Next]_vars

----------------------------------------------------------------------------
(* Properties.                                                             *)

\* Every variable keeps its type, and no more keys are inserted than asked for.
TypeOK ==
    /\ phase \in {"args", "wrong args", "load", "txn", "create", "execute",
                  "undefined", "assertion failed", "done"}
    /\ {load_file, txn_file} \subseteq Files
    /\ infile \in [lines : 0 .. MaxLines, newline : BOOLEAN, good : BOOLEAN]
    /\ load_keys \in Seq(Keys) /\ txn_keys \in Seq(Keys)
    /\ Len(load_keys) <= kNumIntRecords /\ Len(txn_keys) <= kNumIntRecords
    /\ level \in {0, levels_}
    /\ insert_keys \in SUBSET Keys
    /\ DOMAIN bpk \in {{}, Level}
    /\ i \in 0 .. Len(txn_keys)
    /\ positives \in 0 .. i
    /\ true_positives \in 0 .. Len(txn_keys)

\* Whatever the int shift of g comes to, and however the quotients are rounded,
\* the bits of an integer filter fall with the height of the level: the leaves
\* get twice the half of bits_per_key, the level at the height of the key range
\* that half, and none gets more than the one below it; higher levels get no
\* bits.  Only key ranges of 1 and 2 leave the leaves' number undefined.
BudgetFallsWithHeight ==
    driver = "workload_u64" /\ phase \in {"execute", "done"} =>
        LET R == Max(insert_keys) - Min(insert_keys)
            half == bits_per_key \div 2
            at(r) == bpk[levels_ - 1 - r]
        IN  /\ \A r \in Level : r > log(R) \/ R = 0 => at(r) = 0
            /\ R \in {1, 2} <=> at(0) = NaN
            /\ R > 2 => /\ at(0) = 2 * half
                        /\ at(log(R)) = half
                        /\ \A r \in 1 .. log(R) : at(r) <= at(r - 1)

\* How many keys a file gives: its lines, and one more that no line holds when
\* the last line ends in a newline, or there is none.
KeysIn(file) ==
    IF ~file.exists THEN 0
    ELSE Min({kNumIntRecords,
              file.lines + IF file.newline \/ file.lines = 0 THEN 1 ELSE 0})

\* The u64 filters are built over no key, which is undefined, exactly when the
\* percentage of the keys in the file comes to less than one; ElasticRosetta is
\* built over strings of no bits exactly when neither file gives a key.  An empty
\* file is no such case: the key that no line holds is taken.
UndefinedExactlyWithoutKeys ==
    phase \notin {"args", "wrong args", "load", "txn", "create"} =>
        (phase = "undefined" <=>
            \/ /\ driver = "workload_u64"
               /\ KeysIn(load_file) * percent < 100
            \/ /\ driver = "workload"
               /\ filter_type = "ElasticRosetta"
               /\ KeysIn(load_file) + KeysIn(txn_file) = 0)

\* The drivers count every range that holds a key: the answers to a filter that
\* is asked as it was built, about what it supports, never come to fewer
\* positives than true ones, for ranges that wrap and half-open counts, too.
AssertionHoldsAsBuilt ==
    /\ AskedAsBuilt
    /\ filter_type \in PointFilters => query_type \notin {"range", "mix"}
    =>  /\ phase # "assertion failed"
        /\ phase = "done" => positives >= true_positives

\* assert(false_positives >= 0) of bench/workload.cpp, line 284.
AssertionHolds == phase # "assertion failed"

=============================================================================

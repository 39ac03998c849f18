# Elastic-Rose: verification models

TLA+ models of Elastic-Rose, an implementation of the Rosetta range filter and
of an "elastic" variant that opens only part of its last level. A range filter
is built once over a set of keys and then answers whether a closed range *may*
hold a key: "false" must be right, "true" may be wrong. Everything a user of
the filter relies on follows from that one-sidedness, and from `seek` returning
a key from which a scan misses nothing.

The models are checked by TLC on small instances; the theorems in the
`...Proofs` modules are checked by TLAPS for every value of the constants.

## Inventory

| Component | Source | State | Operations | What is hard |
|---|---|---|---|---|
| Rosetta, integers | `include/new/rosetta.hpp` | `bfs`, `levels_`, `R_` | constructor, `lookupKey`, `range_query`, `doubt`, `seek` | order and bounds of the recursion, wrapping sums, the level above the first |
| Rosetta, bit strings | same | the same, and the string `p` shared by the calls | same | `p` passed by reference is never restored |
| Rosetta, first version | `include/rosetta.hpp` | `bfs`, `levels_` | `insertKey`, same queries | an int shift where a u64 is meant |
| Elastic_Rosetta (two versions) | `include/{,new/}elastic_rosetta.hpp` | `bfs_`, `last_level_ebf_` | same queries over `bfTest`, `serialize`, `deSerialize(open_size)` | reopening with part of the last level, writing again |
| Elastic_BF (two versions) | `include/{,new/}elastic_bf.hpp` | `bf_vec_`, `size_`, `open_size_`, `serialized_size_` | constructor, `add` (first), `test`, `serialize`, `deserialize` | counts that are stale after reopening, cursors |
| Bloom filter | `include/new/bloom_filter.hpp` | `filter_data_`, `id_`, `k_`, `bits_per_key_` | `CreateFilter`, `KeyMayMatch`, `serialize`, `deserialize` | parameters that are not stored, rounding, lengths narrowed to an int and a u32 |
| BF, bitmap | `include/lib.hpp` | `nr_probe_`, `bits_`, `ones_`, `bm_` | `add`, `test`, `clean`, `serialize` | zero bits, zero probes |
| Level budget | `calBPK`, `levelFrequency`, `g` | none | bits per key of each level | 0/0, int shifts, rounding |
| Conversions | `str2BitArray`, `bitArray2Str`, `maxBitArray` | none | bit strings to bytes and back | zero bytes |
| Multi-threaded driver | `bench/workload_multi_thread.cpp` | `thread_args`, positions, counters | slice, create, execute, join, sum | interleavings, the remainder of the division, arguments that are not checked |
| Sequential drivers, adapters, factory | `bench/workload.cpp`, `workload_u64.cpp`, `bench.hpp`, `filter*.hpp` | key vectors, `level`, the filter, counters | check arguments, load, select, build, ask, count, assert | file ends, percentages that come to nothing, ranges that wrap, keys of another type than the filter's |
| Hashes, BitVec, SuRF, generator | `include/hash.hpp`, ... | none | pure functions, scripts | - |

How they interact: a Rosetta owns one Bloom filter per level and asks level
`l - 2` from `doubt(p, l)`; an Elastic_Rosetta does the same through `bfTest`,
which for the last level asks an Elastic_BF, a conjunction of Bloom filters
with different hash identities. All calls are plain function calls in the
caller's thread. The only concurrency is the benchmark driver's: its threads
share one filter, read-only, and one array of counters, each writing its own
element. Nothing is persisted by the program itself; images are byte buffers in
the caller's hands, so "reload" may be another process and another day.

What makes them correct: no false negative (all filters); what `seek` returns
is a lower bound inside the range; every level that can be asked is asked; a
reloaded filter answers like the one that was written; opening fewer units only
adds positives; the threads' slices execute each transaction at most once and
the sum counts what was executed.

## Modules

| Module | Models | Correspondence |
|---|---|---|
| `RangeFilter` | the promise to the caller | one atomic `Answer` per query |
| `RosettaU64` | integer search | `stack` is the C++ call stack: the calls still to be made, innermost first. One action per way a call can go (disjoint, contained, split; undefined, rejected, accepted, split) |
| `RosettaOldU64` | first version, integers | `RosettaU64` with `OldDoubtSplit` for `DoubtSplit`, and `insertKey` between queries |
| `RosettaString` | bit-string search and conversions | same actions; `passing` is how the version passes `p`: by reference (current Rosetta: one string for all calls) or by value (first version, both Elastic_Rosettas: a string per call). `bitArray2Str` makes the string `seek` returns, `str2BitArray` reads it |
| `BloomFilter` | `Bloom`, `BloomFilter` | constructor and its failures, `serialize`, `deserialize`, destructor; `KeyMayMatch` as an operator. The number of keys and `bits_per_key` become ints (`AsInt`), a length a u32 (`AsU32`), and an image keeps the bytes the u32 counts (`Truncated`) |
| `ElasticBF` | `Elastic_BF`, both versions | units over a buffer of 8-byte words with the cursors `dst` and `src`; the size field keeps its width (`MaxInt`, `AsU32`) |
| `ElasticRosetta` | the life of a filter of all four classes | extends `RosettaOldU64`: its search, or that of `RosettaU64`, over `bfTest`, between construction, `insertKey` (first versions), `serialize`, deletion and `deSerialize(open_size)` |
| `BF` | first version's `BF` and `bitmap` | the bits, their count `ones_` and the probes, with the assertion and the division of `add` |
| `LevelBudget` | `calBPK`, `levelFrequency`, `g` | operators over exact quotients; `Budgets(R)` is the set of vectors a build may come to |
| `Workload` | both sequential drivers with what they call | one record read, one query made per step; `level`, `insert_keys` and `bpk` are what the constructor is given |
| `WorkloadMultiThread` | the multi-threaded driver | `main()` and the threads, one query per step, with every way `main()` can fail; what the filter answers and which transactions are present are fixed in advance |
| `RosettaProofs` | | theorems about `RosettaU64`, `RosettaOldU64` and `ElasticRosetta` |
| `WorkloadProofs` | | theorems about `Workload` and `LevelBudget` |
| `...Proofs` (`RosettaString`, `BloomFilter`, `BF`, `ElasticBF`, `WorkloadMultiThread`) | | theorems about the module of that name |
| `Induction` | | induction over natural numbers, least and greatest elements, and the existence of recursive functions, for the proofs |
| `MC*` | | constants for TLC |

They compose through one-sided answers. `BloomFilter` and `BF` show that a
filter never denies an inserted key; `RosettaU64`, `RosettaString` and
`ElasticBF` take a level or a unit to be the set of words it says "maybe" to, any
superset of what was inserted; `RosettaU64` implements `RangeFilter`, and
`ElasticRosetta`, which runs its search, does so across reloads and insertions;
`RosettaString` by value implements `RosettaU64`; `Workload`, which extends
`LevelBudget`, and `WorkloadMultiThread` take the answers to be one-sided where
the filter is asked as it was built, and any answers where it is not.

Conventions. `result`, `outcome` and `phase` say where an operation stands.
Undefined behaviour ends a behaviour ("undefined", "missing unit", "misread")
when what follows can be anything, and is a choice among the outcomes of a
build when they are few (`IntShift`, of a distance and of a quotient; an unset key is any key). Definitions marked *Variant* are
deliberate defects of the definition that follows them; nothing uses them: they
show, one by one, which property notices which defect.

Data is abstracted to what the properties tell apart. A bit string is the
number it spells, whose order is the strings' lexicographic order; keys have
exactly `levels_` bits, which the drivers and tests ensure (`preTreatment`). A
filter's wrong answers are any set of words (`Spurious`) in the searches. The
hash functions are any functions. `pow_r_1` at a leaf is a shift by a wrapped
`u64` whose value is never used and is not modelled.

## Runs

| Run | Instance | Shows |
|---|---|---|
| `rosetta_u64` | 3 levels, at most 2 keys, 1 wrong answer, any queries | the recursion denies no key, returns lower bounds, answers with the least word the filters vouch for, ends, implements `RangeFilter`; `SearchInvariant` is the invariant the proofs use |
| `rosetta_old_int_shift` (violation) | 4 levels, 2-bit int, up to 2 keys, inserted at any time | the first version denies a key of a wide range |
| `rosetta_string` | 3 levels, 2 keys, 1 wrong answer, 1-bit chars, both ways of passing `p` | by value it implements the integer search and denies no key; by reference it still ends, and what it accepts is in the range; the string `seek` returns names the accepted leaf exactly when no zero byte lies before a non-zero one |
| `rosetta_string_by_reference` (violation) | 4 levels, 1 key | by reference it denies a key |
| `bloom_filter` | 2 keys in vectors of 0 to 2, 8, 15 and 17, 576 pairs of hash functions; 3-bit chars and minimum, 2-bit u32 lengths, 4-bit int, arrays of up to 8 bytes | no false negative for keys an int counts, before a write at any length and after reloads of lengths a u32 holds; the same answers after such reloads; stable images, truncated ones included |
| `elastic_bf` | 1 key, 2 units, 2 images in a buffer, 4 words to 2 GB | no false negative, also for keys added behind a reopening; fewer units deny less; where the reader stops, on both sides of 2 and 4 GB |
| `elastic_rosetta_life` | 3 levels, 2 keys, 2 units, all four classes | the promise of `RangeFilter` outlives the object; fewer units answer more; no image loses a unit; the first Rosetta keeps the promise on ranges its int shift reaches |
| `bf` | 2 keys, 576 pairs of hashes, 0 to 6 bits, 0 to 2 probes | no false negative, and `set1`'s assertion never fails |
| `workload` | 5-bit keys, 3-bit int, both drivers, all arguments, files of up to 3 lines | how the bits of the levels fall, which inputs are undefined, and that the assertion holds when a filter is asked as it was built |
| `workload_assertion` (violation) | Rosetta, point queries | the assertion fails because it is not |
| `multi_thread` | -1 to 3 threads, up to 6 transactions, a filter with ranges and one without, both types of query | slices, sum, termination, and the driver's assertion when the division is even and the filter answers the queries |
| `multi_thread_assertion` (violation) | 3 threads, a filter that answers both types of query | the assertion fails when the division is not even |

Bounds. Three levels give a root, an inner node and a leaf level, two keys give
a key before, in and behind a range and prefixes that are shared and not
shared, and one wrong answer at any level gives a search that goes astray and
comes back. All 64 ranges, those with `low > high` included, are asked in every
order. The old version needs two levels more than an int has bits less one, the
by-reference search a bit to be left behind and a node to be skipped because of
it: four levels. One-bit chars make every pattern of zero and non-zero bytes a
key of three bytes. In `bloom_filter` the widths are shrunk together so that every
bound is met on both sides: minimum bits, whole bytes, 1 probe, `MaxProbes`;
an int of 4 bits (`MaxInt` 7) for 8, 15 and 17 keys, which it makes -8, -1 and 1,
and for 13 and 15 bits per key, which it makes -3 and -1; a u32 of 2 bits
(`SizeRange` 4) for data of up to 9 bytes; a size_t of 6 bits (`WordRange`) that the
product wraps; and `MaxBytes`, above which there is no memory.
In `elastic_bf` keys are tested independently of each other, so one key, which
may or may not be inserted, is enough; units of 1 and 4 words with a header of 1
make filters shorter than 2 GB, between 2 and 4 GB and longer, which wrap a u32.
`elastic_rosetta_life` takes fewer key
sets and wrong answers than `rosetta_u64`, which varies them, and all orders of
the operations; its key sets {2}, {7} and their union let a first version come
from one key to two; two units make none, some and all of them different things;
with a 2-bit int some ranges of three levels are wide and some are not. `bf`
starts at zero bits and zero probes, which the constructor can come to. In
`workload` the keys 1, 3, 10 and 23 and ranges of 9 make ranges that end on a
key, before one and behind the greatest word; their distances have a logarithm below, at and
above the sign bit of a 3-bit int, and reach 2, for which the budget is
undefined; the percentages 0, 60, 100 and 101 select nothing, less than all, all,
and are refused; three lines with a limit of two records, with and without a last
newline, or no file, are all ways in which reading ends. Six
transactions and three threads give empty, even and uneven slices; -1 and 0 are
the arguments with which `main()` throws and divides by zero.

Fairness. A query runs in its caller's thread and waits for nothing, so weak
fairness of its steps is assumed (`QueryEnds`, and the liveness of `RangeFilter`
in the refinements). The driver's threads and `main()` are scheduled by
the operating system, which runs every thread that can run: weak fairness of
each thread and of what `main()` does when no call fails, `MainGoesOn`
(`MainEnds`). Creating or joining a thread may fail but need never do so: `main()`
may wait in `pthread_join` as long as the thread runs. No other run assumes
fairness: `bloom_filter`, `elastic_bf`, `bf`, `workload` and the violations are
about safety. Deadlock checking is off where the system may stop: a query that ran
into undefined behaviour, a filter that nobody uses, a program that ended.

## What the violations are

- `include/new/rosetta.hpp:254` and `:294`. The string search sets a bit of the
  shared `p` and does not reset it when the call returns false. With keys of six
  bits and the key 20 alone, most ranges that hold the key are denied. The tests
  only print the answers; the driver would notice if it used string keys here.
- `include/rosetta.hpp:209`. `1 << (levels_ - l)` is an int. Ranges of 2^32
  words and more may be denied though they hold keys.
- `bench/filter_rosetta.hpp:32`. `workload.cpp` builds Rosetta and
  ElasticRosetta over strings of '0' and '1'; the adapters turn what they are
  asked for into a `u64` and ask the integer overloads, whose Bloom filters hash
  other bytes. An inserted key may be denied, and `assert(false_positives >= 0)`
  fails. `workload_u64.cpp` builds them over integers and asks rightly.
- `bench/workload_multi_thread.cpp:166`. The remainder of the division is not
  executed but is counted, and `assert(false_positives >= 0)` fails (with
  `VERBOSE` defined; it is compiled out by default). The same assertion fails with
  slices that divide evenly for filter Bloom and query range, which `main()`
  accepts (`:76`, `:105`): `FilterBloom::lookupRange` answers every range "false",
  and the true positives are counted all the same. The run leaves Bloom out, so
  that what it shows is the remainder; the theorem excludes the combination by
  `AnswersQueries`.

## Proofs

Every invariant and every action property that a passing run checks is a theorem
of a `...Proofs` module, and so is the safety part of each refinement, for every
value of the constants that their assumptions allow. The assumptions are in
the modules that declare the constants, are evaluated by every run, and say
only what the code ensures: there is at least one level, `Pow2` doubles, keys
have `levels_` bits, bit counts, ranges of values and bounds are numbers, a unit is not
empty and its length fits the u32 that tells it. One is
about numbers instead: `CeilExp[k]`, the least whole number above `e^k`, is more
than `2^k` and more than `(k - 1) * 2^k`.

### The integer search (`RosettaProofs`, first part)

Proved: type correctness, `SearchInvariant`, no false negative, the lower bound
of `seek`, exactly which word is the answer, when the search is undefined, and
that every step is a step or a stutter of `RangeFilter`.

That no key is denied is not inductive: a query that returns false has only
looked at pieces. The invariant says that the pending calls tile the key space
from the first of them to its end (`CallsCoverTheRest`), on aligned nodes
(`NodesAligned`), that no key of the range lies before the first of them
(`NothingBehind`), and that the filters hold all prefixes of the keys
(`FiltersHoldKeys`). A call that returns false takes its node away from the
front: it may, because the node is outside the range or its prefix is not in a
filter, and then it holds no key. A call that recurses replaces its node by its
halves. When the last call returns false the node taken away ends at the end of
the key space, so no key is left. When a leaf is accepted it is the first
pending call, so no key of the range is below it, and `doubt` is only called
inside the range (`DoubtInside`). The lemmas about nodes (`HalvesAligned`,
`MaskInNode`, `SizeFacts`) need only that `Pow2` doubles.

`AnswerIsLeastVouched` says more: the answer is exact in terms of what the
filters say. For it the invariant also knows what was asked (`VouchInvariant`):
the levels between the first node inside the range and a pending `doubt` have
said "maybe" to its prefixes, and no word that all of them vouch for lies before
the first pending call. A level is asked about a node exactly when the node is
inside the range, which a node that `range_query` splits is not.

### The life of a filter (`RosettaProofs`, second part)

Proved: type correctness, that no image loses a unit, that a filter with fewer
units vouches for every word the whole one vouched for, that the first Rosetta
is right on narrow ranges, and that all other classes implement the safety part
of `RangeFilter` across reloads and insertions. The search invariants above
carry over, because a life changes keys and filters only while no call is
pending: only `FiltersHoldKeys` has to be shown again, from what the units and
the image hold (`LInv`). The first Rosetta leaves the search of `RosettaU64` when
a shift overflows an int. On a narrow range it does not: a `doubt` on level `l`
covers `2^(levels_ - l + 1)` words of the range, and as powers grow with the
exponent (`Pow2Monotone`) the shift stays below the sign bit.

### The string search (`RosettaStringProofs`)

Proved: with `p` passed by value every step is the step of the same name of the
integer search (`RunsTheIntegerSearch`), so the theorems of `RosettaProofs`,
taken through an instance, give no false negative. The work is in the strings:
appending '1's to a prefix is adding the size of the node, and setting a bit of
an aligned node gives its right half. With `p` passed by reference two things
are left, and proved: the shared string stays a string of `levels_` bits, and
what is accepted is a leaf of the range that the last level vouches for. For
this the invariant says that below a node that was handed to `doubt` only bits
inside the node are set (`DoubtStaysInside`), so that the calls after it, up to
the next `range_query`, stay inside the range.

The string `seek` returns names the leaf exactly when no zero byte stands before
another byte there (`SeekStringsNameLeaves`, for any number of bytes): byte after
byte, the string made so far is worth what the bytes read are, until a byte moves
to the left over a zero byte; from then on it is worth more (`Worth`). `Front`
says what the first bytes of a word are worth, from quotients and remainders by
powers of two (`ModuloProduct`, `Pow2Sum`).

### Bloom filters (`BloomFilterProofs`, `BFProofs`, `ElasticBFProofs`)

`BloomFilterProofs`, for any hash functions, vectors of keys, bits per key and
widths of int, u32 and size_t. The invariant says that what is in memory is
either the object the constructor left or has the data of its image, and that
the image is what `Truncated` leaves of what was built. The boundaries of the
theorems are those of the code:

- `NoFalseNegatives`: if an int counts the keys (`MaxInt`, 2^31 - 1), the
  constructor's object denies none, whatever the length of its data, and neither
  does a reloaded one if a u32 holds that length (`DataFits`, less than 4 GB).
  With more keys the loop over `int n` leaves some or all of them out.
- `ReloadsKeepAnswers`: with `DataFits` alone. From 4 GB on a reloaded filter has
  another modulus, and takes another byte for the number of probes.
- `ImagesAreStable`: at every length. What was read from an image is written as
  that image again: the members a reader leaves unset are not written, and what
  a u32 counts once it counts again.
- `TypesCorrect`: no set bit lies outside the array, also in what is left of a
  truncated one.

`BFProofs`: `ones_` is the number of bits set, so the assertion of `set1` never
fails, and no added key is denied, through `clean` and reloads. A call of `add`
sets one probe after the other; that it sets all of them, counts each new one
once and loses none set before is an induction over the probes.

`ElasticBFProofs`: no false negative, fewer units deny less, where the reader
stops, and that the first filter of a buffer can be read. The invariant is about
the buffer: behind every header lies the whole image of a filter with all its
units, of a size its writer could assert, and the buffer begins with a header
(`BufferInv`). A write puts one more image behind (`BufferExtended`). That a
reader who goes from unit to unit by their lengths comes to the units that were
written (`ReadsWhatWasWritten`) is an induction over the units, for the lengths,
the bytes and the reader's position. `ReaderInv` says where the reader stands
behind the image it read last, as far as the u32 in its header reaches.

### The multi-threaded driver (`WorkloadMultiThreadProofs`)

Proved, for any argument `num_threads`, zero and negative ones included, and any
number of transactions: type correctness, that no transaction is executed twice,
that what `main()` sums up is what was executed, and the driver's assertion when
the division is even and the filter answers the type of query
(`AnswersQueries`: a Bloom filter asked for ranges does not). The slices lie among the
transactions and do not overlap (`Slices`), and a thread stays in its slice, but
the bound on `executed` is not inductive: a query increments it.
`SliceInvariant` says besides that the rest of a running thread's slice, from its
`i` on, has not been executed (`RestUntouched`), nor any of the slice of a thread
not created yet (`SliceUntouched`); for both a query of another thread matters
only in that it is in another slice. For the sum, `CountInvariant` says that a
thread's counter is the number of positives in the part of its slice it has been
through, that it is published when the thread has exited, that the remainder of
the division is nobody's, and which threads `main()` has seen exit. When it has
seen all, the sum of the first `m` counters is the number of positives in their
slices (`SumIsCount`), by induction over `main()`'s loop.

### The sequential drivers (`WorkloadProofs`)

Proved, for keys of any number of bits, an int of any width, and files and
vectors of keys of any length: type correctness, how the bits of the levels fall,
which inputs are undefined, and that the assertion holds when a filter is asked
as it was built.

`BudgetsFall` is a fact about `calBPK` for every distance of keys `R` and every
value `one` that `1 << log(R)` may come to, negative and wrapped ones included.
The sum of `levelFrequency` from height `r` on is `(log(R) - r) * one` and one
rest, which is the same for all heights (`SumOfGIs`). It is zero for no level
that the key range reaches (`FrequencyIs`): for a positive `one` this is plain,
and a negative one is made up for because `R` is at least `e^log(R)`, which is more
than `(log(R) - 1) * 2^log(R)`, which is what the assumption about `CeilExp` is
for. The differences of frequencies are all that counts then; in them the rest
falls out, and in their quotients `one` does, with its sign (`CommonFactor`). So
what the undefined shift comes to does not matter: a level of height `r` gets half of
`bits_per_key` times `(2 * log(R) - r) / log(R)`, or, between the leaves and
the greatest height, one bit less when that is whole (`calBPKIs`). A quotient that is one bit less than a whole number is still not
below that of the next height (`IsBudgetFalls`).

`UndefinedWithoutKeys` is not inductive: it only speaks of the end. `LoadInv`
counts instead: the keys read so far and those the stream still gives (`Rest`),
up to the limit, are those of the file (`KeysIn`); each read takes one away
(`ReadTakesOne`), the one behind the last newline included, and when the loop
stops the stream has none or the limit is reached (`AllRead`).

`AssertionAsBuilt` compares two counts that are made in different phases. While the
queries run, the positives are no fewer than the true positives among the
queries so far (`AnswersInv`); a query that is a true one was about a key of the
filter, for ranges that wrap and for the half-open comparison with the upper key,
too, and no adapter denies it unasked (`TruePositiveIsAnswered`). The count at the
end goes over all keys but those of a kind that is never positive, one of which
leaves the last key out.

### Induction

The library's induction theorems take a predicate as a parameter. `Induction`
states induction about sets instead: a set that holds 0, and with a number the
next one, holds all of them. It comes from the library's theorem that strict
inclusion of finite sets is well-founded, applied to the sets `0 .. n`.
`RecursiveFunction` gives from it a function with a first value and a step; the
recursive functions of the models (`bitArray2Str`, `str2BitArray`, `Adding`, `UnitWords`,
`UnitImages`, the position in `ReadUnits`, `ByteValue`, `SumOfFirst`, `SumOfG`) are written as the
code's loops, so that it, or the induction itself, applies to them. `GreatestElement`
and `DoublingGrows` are what the proofs need of maxima and of powers of two.

### Only model-checked

Liveness (`QueryEnds`, `MainEnds`, the fair part of the refinements): it rests on
fairness and `ENABLED`, which the prover does not handle. The four violations are
TLC's, too: each shows one behaviour of an instance.

## Not modelled

- Hash functions: any function stands for them. MurmurHash3 is vendored.
- `bench/bloom.hpp`: a copy of the algorithm of `new/bloom_filter.hpp`, which
  `BloomFilter` models line by line. SuRF: its submodule is empty here; the
  drivers' models take it to be a filter with one-sided answers.
- `BitVec`: nothing uses it. The tests: they print answers and assert little. The
  generator scripts produce input files.
- Of the drivers: keys that are e-mail addresses (strings of any length, whose
  order and prefixes are not those of words), the times, rates and counts that
  are printed, `approxCount`'s sum, and `getMemoryUsage`. `modifyKeyByte` cannot
  be reached: the check of the arguments (`workload.cpp:44`,
  `workload_multi_thread.cpp:87`) refuses exactly the workload type that would call
  it. `getUpperBoundKey`, which only `workload_multi_thread.cpp:147` calls, is not
  modelled: it bounds the half-open interval in which the driver counts, and
  enters `WorkloadMultiThread` as the set `present`, which is part of what a
  filter that has ranges answers for the closed one.
- Doubles: `LevelBudget` takes the sums of `levelFrequency` to be exact, and a
  quotient to be exact or rounded down past a whole number. The numbers of the
  code, multiples of `1 / (1 << logR)` in a 53-bit mantissa, keep to that as far
  as the bits of `R` fit.
- Levels and units beyond the lengths of `BloomFilter`: `RosettaU64`,
  `RosettaString`, `ElasticRosetta`, `ElasticBF` and `Workload` take a level or unit
  to be one-sided, in memory and after a reload. For the current version that is
  so, as `BloomFilter` shows, with at most 2^31 - 1 keys and less than 4 GB of
  data in each (`UnitFitsAssumption` in `ElasticBF`). A longer level makes the assertion at the end of
  `serialize()` fail (`new/rosetta.hpp:319`, `new/elastic_rosetta.hpp:335`), which is
  not modelled. The first version's `BF` has 64-bit lengths and no such limit.
- Memory that cannot be allocated, but where `BloomFilter` (`CreateFails`) and
  `WorkloadMultiThread` (`AllocationFails`) model it, and pointers that dangle
  after misuse of the interface (an image freed by the caller).

## Plan

Done: every module above, and the theorems listed under Proofs. Left: e-mail keys
of `workload.cpp`, if strings of different lengths are worth a key space of their
own.

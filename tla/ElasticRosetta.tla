-------------------------- MODULE ElasticRosetta --------------------------
(***************************************************************************)
(* The life of a filter: built, asked, written, deleted, read back and     *)
(* asked again, in this process or another, and in the first versions      *)
(* given more keys in between.                                             *)
(*                                                                         *)
(* Elastic_Rosetta keeps a Bloom filter for every level but the last, and  *)
(* an Elastic_BF for the last, of which deSerialize opens open_size units. *)
(* Rosetta keeps a Bloom filter for the last level too, which is here one  *)
(* unit that is always opened.  Both exist in a current version            *)
(* (include/new) and in a first one (include).  They are written and read  *)
(* back in the same way; the first versions also have insertKey.           *)
(*                                                                         *)
(* The search is that of RosettaU64, but for the first Rosetta, which      *)
(* searches integers as RosettaOldU64 does.  (The first Elastic_Rosetta    *)
(* searches strings, by value: see RosettaString.)  It asks the levels     *)
(* through bfTest; levels and units are sets of words, as there.           *)
(*                                                                         *)
(* In the current versions a level or unit holds less than 4 GB, the       *)
(* length that its u32 can tell (module BloomFilter); with a longer one    *)
(* the assertion at the end of serialize() would fail.                     *)
(***************************************************************************)
EXTENDS RosettaOldU64

CONSTANTS
    Kinds,          \* the classes: some of AllKinds
    MaxUnits,       \* bound on the units of the last level
    UnitSpurious,   \* which words besides the keys a unit may say "maybe" to
    none            \* no image

FirstVersions == {"old Rosetta", "old Elastic_Rosetta"}
AllKinds == {"Rosetta", "Elastic_Rosetta"} \cup FirstVersions

ASSUME KindsAssumption == Kinds \subseteq AllKinds
ASSUME UnitsAssumption ==
    MaxUnits \in Nat /\ \A S \in UnitSpurious : S \subseteq Word

VARIABLES
    kind,     \* the class
    object,   \* "none", "built", "reopened", or "crashed"
    units,    \* the units of the last level the object has in memory
    image,    \* the bytes serialize() wrote, or none
    built     \* the object with all its units (history)

life == <<kind, object, units, image, built>>
allvars == <<vars, life>>

LastLevel == levels_ - 1

\* Variant: one unit is enough.
bfTestAnyUnit(levels, us) ==
    [i \in Level |-> IF i = LastLevel
                     THEN {w \in Word : \E j \in 1 .. Len(us) : w \in us[j]}
                     ELSE levels[i]]

\* What bfTest says at each level: the units answer together for the last.
bfTest(levels, us) ==
    [i \in Level |-> IF i = LastLevel
                     THEN {w \in Word : \A j \in 1 .. Len(us) : w \in us[j]}
                     ELSE levels[i]]

UpperLevels(f) == [i \in 0 .. LastLevel - 1 |-> f[i]]

\* A Rosetta has no part to leave unopened.
AlwaysWhole == kind \in {"Rosetta", "old Rosetta"}

Idle == result \notin {"running", "undefined"}

----------------------------------------------------------------------------

\* Every unit is built over the untruncated keys, with a hash function and a
\* length of its own.
Build ==
    /\ object = "none"
    /\ built = none
    /\ \E K \in KeySets, F \in Spurious, n \in 0 .. MaxUnits :
         /\ AlwaysWhole => n = 1
         /\ keys' = K
         /\ \E extra \in [1 .. n -> UnitSpurious] :
              units' = [j \in 1 .. n |-> K \cup extra[j]]
         /\ bfs' = bfTest([i \in Level |-> {Mask(key, i) : key \in K}
                                             \cup {w \in Word : <<i, w>> \in F}], units')
    /\ built' = [levels |-> UpperLevels(bfs'), units |-> units']
    /\ object' = "built"
    /\ result' = "ready"
    /\ UNCHANGED <<low, high, stack, min_accept, kind, image>>

Query ==
    /\ object \in {"built", "reopened"}
    /\ \/ Ask
       \/ kind = "old Rosetta" /\ OldStep
       \/ kind # "old Rosetta" /\ Step
    /\ UNCHANGED life

AllUnitsThere == Len(units) = Len(built.units)

\* The last level's part of bfAdd: every unit takes the key.
bfAdd(us, key) == [j \in 1 .. Len(us) |-> us[j] \cup {key}]

\* insertKey of the first versions; the last level stays what its units say.
Insert ==
    /\ kind \in FirstVersions
    /\ object \in {"built", "reopened"}
    /\ AllUnitsThere
    /\ insertKey
    /\ \E key \in keys' :
         /\ keys' = keys \cup {key}
         /\ units' = bfAdd(units, key)
    /\ bfs' = bfTest(bfs', units')
    /\ built' = [levels |-> UpperLevels(bfs'), units |-> units']
    /\ UNCHANGED <<kind, object, image>>

\* Elastic_BF::add goes over size_ units, those not opened included.
InsertMissingUnit ==
    /\ kind = "old Elastic_Rosetta"
    /\ object = "reopened"
    /\ Idle
    /\ ~AllUnitsThere
    /\ object' = "crashed"
    /\ UNCHANGED <<vars, kind, units, image, built>>

\* deSerialize gives bfs_ of Elastic_Rosetta levels_ slots and fills all but
\* the last, which stays null.
HasNullSlot == object = "reopened" /\ ~AlwaysWhole

\* Variant: the levels are written from the last to the first.
WrittenBackwards(f) == [i \in 0 .. LastLevel - 1 |-> f[LastLevel - 1 - i]]

\* bfs_[0], bfs_[1], ... in this order.  In the image keys and whole are
\* history.
Written(f) == UpperLevels(f)

serialize ==
    /\ object \in {"built", "reopened"}
    /\ Idle
    /\ ~HasNullSlot
    /\ image' = [levels |-> Written(bfs), units |-> units, keys |-> keys, whole |-> built]
    /\ UNCHANGED <<vars, kind, object, units, built>>

\* serializedSize() goes through all slots of bfs_.
SerializeNullSlot ==
    /\ object = "reopened"
    /\ Idle
    /\ HasNullSlot
    /\ object' = "crashed"
    /\ UNCHANGED <<vars, kind, units, image, built>>

Delete ==
    /\ object \in {"built", "reopened"}
    /\ Idle
    /\ object' = "none"
    /\ UNCHANGED <<vars, kind, units, image, built>>

\* The new object holds what was written, and has not been asked yet.
ReadBack ==
    /\ bfs' = bfTest(image.levels, units')
    /\ keys' = image.keys
    /\ built' = image.whole
    /\ object' = "reopened"
    /\ result' = "ready"
    /\ UNCHANGED <<low, high, stack, min_accept, kind, image>>

\* Variant: a Rosetta, too, is read without its last level.
deSerializeAnyPart ==
    /\ object = "none"
    /\ image # none
    /\ \E open_size \in 0 .. Len(image.units) :
         units' = SubSeq(image.units, 1, open_size)
    /\ ReadBack

\* The units behind the first open_size are skipped (module ElasticBF).
deSerialize ==
    /\ object = "none"
    /\ image # none
    /\ \E open_size \in 0 .. Len(image.units) :
         /\ AlwaysWhole => open_size = Len(image.units)
         /\ units' = SubSeq(image.units, 1, open_size)
    /\ ReadBack

LifeInit ==
    /\ Init
    /\ kind \in Kinds
    /\ object = "none"
    /\ units = << >>
    /\ image = none
    /\ built = none

LifeNext == \/ Build \/ Query \/ Insert \/ InsertMissingUnit
            \/ serialize \/ SerializeNullSlot \/ Delete \/ deSerialize

LifeSpec == LifeInit /\ [][LifeNext]_allvars

\* The caller's thread goes on with a query that was asked.
FairLifeSpec == LifeSpec /\ WF_allvars(Query /\ result = "running")

----------------------------------------------------------------------------
(* Properties.                                                             *)

LifeTypeOK ==
    /\ TypeOK
    /\ kind \in Kinds
    /\ object \in {"none", "built", "reopened", "crashed"}
    /\ units \in Seq(SUBSET Word)
    /\ image # none => /\ image.levels \in [0 .. LastLevel - 1 -> SUBSET Word]
                       /\ image.units \in Seq(SUBSET Word)
                       /\ image.keys \in KeySets

\* A filter that was read back with fewer units denies no range that the filter
\* with all its units would not deny, however queries, insertions, writes and
\* reopenings follow one another: the units only ever narrow the answers.
FewerUnitsAnswerMore ==
    result = "false" /\ kind # "old Rosetta" =>
        \A w \in Word : ~VouchedBy(bfTest(built.levels, built.units), w)

\* An image holds every level and every unit there was when it was written, also
\* when it was written by an object that was read back: opening less, then
\* writing, would lose units for good.
ImageIsComplete ==
    image # none =>
        image.levels = image.whole.levels /\ image.units = image.whole.units

\* Through all its lives the filter keeps the promise of RangeFilter: reopening
\* part of it, or all, does not show, but for the keys that came after the image
\* was written.  Of the first Rosetta, which does not keep it on wide ranges
\* (NoFalseNegativeInNarrowRange), nothing is said: it is mapped to an unused
\* filter.
Promised(x, unused) == IF kind = "old Rosetta" THEN unused ELSE x

PromiseForLife == INSTANCE RangeFilter WITH
    keys <- Promised(keys, {}),
    low <- Promised(low, 0),
    high <- Promised(high, 0),
    result <- Promised(result, "empty"),
    min_accept <- Promised(min_accept, 0)

ImplementsRangeFilterForLife == PromiseForLife!FairSpec

=============================================================================

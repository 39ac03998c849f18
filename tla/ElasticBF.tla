----------------------------- MODULE ElasticBF -----------------------------
(***************************************************************************)
(* Elastic_BF: several Bloom filters over the same keys, of which a reader *)
(* may open as few as it wants.  include/new/elastic_bf.hpp is built over  *)
(* its keys; include/elastic_bf.hpp, the first version, starts empty and   *)
(* has add().  Both go to a buffer and back in the same way, and the       *)
(* buffer may hold several filters, one behind the other.                  *)
(*                                                                         *)
(* A unit is a Bloom filter: the keys it says "maybe" to, and its length.  *)
(* In the current version it is over at most 2^31 - 1 keys and holds less  *)
(* than 4 GB, for which BloomFilter shows that it denies no key and goes   *)
(* to an image whole.                                                      *)
(* Every unit and the header are aligned to 8 bytes, so the buffer is a    *)
(* sequence of words of 8 bytes; the header is one word.                   *)
(***************************************************************************)
EXTENDS Integers, Sequences, SequencesExt

CONSTANTS
    Keys,        \* what may be inserted and tested
    UnitSizes,   \* possible lengths of a unit's image, in words
    MaxUnits,    \* bound on the number of units
    MaxImages,   \* bound on the filters in the buffer
    MaxInt,      \* 2^31 bytes, in words: an int holds fewer
    none         \* no filter

ASSUME UnitSizesAssumption == UnitSizes \subseteq Nat \ {0}
ASSUME MaxIntAssumption == MaxInt \in Nat \ {0}

\* The u32 of a unit holds the length of its data; its header is one word more.
ASSUME UnitFitsAssumption == \A words \in UnitSizes : words <= 2 * MaxInt + 1

ASSUME BoundsAssumption == MaxUnits \in Nat /\ MaxImages \in Nat

VARIABLES
    ebf,       \* the filter in memory, or none
    buffer,    \* the words written so far; dst is behind the last
    src,       \* how many words the reader has passed
    images,    \* number of filters in the buffer
    read,      \* the images read since src was at the start (history)
    outcome    \* "ok", or what was undefined in the last call

vars == <<ebf, buffer, src, images, read, outcome>>

Unit == [maybe : SUBSET Keys, words : UnitSizes]

\* test(): the units that were opened, not all there are.
Answers(f) == {key \in Keys : \A i \in 1 .. f.open_size_ : key \in f.bf_vec_[i].maybe}

----------------------------------------------------------------------------
(* In memory.  keys and whole are history: the keys inserted, and the      *)
(* answers of the filter with all its units.                               *)

WithWhole(f) == [f EXCEPT !.whole = Answers(f)]

\* The units are built over the keys (new) or over none (old), each with a
\* hash function and a length of its own.
Create ==
    /\ ebf = none
    /\ \E version \in {"new", "old"}, n \in 0 .. MaxUnits, K \in SUBSET Keys :
         /\ version = "old" => K = {}
         /\ \E units \in [1 .. n -> {u \in Unit : K \subseteq u.maybe}] :
              ebf' = WithWhole([version |-> version, size_ |-> n, open_size_ |-> n,
                                bf_vec_ |-> units, keys |-> K, whole |-> {}])
    /\ UNCHANGED <<buffer, src, images, read, outcome>>

\* Variant: the key goes to the first unit only.
AddedToFirst(f, key) ==
    IF f.size_ = 0 THEN f.bf_vec_
    ELSE [f.bf_vec_ EXCEPT ![1].maybe = @ \cup {key}]

\* The units after a key was added; bits set for it may let other keys in,
\* which Create's choice of units stands for.
Added(f, key) ==
    [i \in 1 .. f.size_ |-> [f.bf_vec_[i] EXCEPT !.maybe = @ \cup {key}]]

AllUnitsThere(f) == Len(f.bf_vec_) = f.size_

add ==
    /\ outcome = "ok"
    /\ ebf # none
    /\ ebf.version = "old"
    /\ AllUnitsThere(ebf)
    /\ \E key \in Keys :
         ebf' = WithWhole([ebf EXCEPT !.bf_vec_ = Added(ebf, key),
                                      !.keys = @ \cup {key}])
    /\ UNCHANGED <<buffer, src, images, read, outcome>>

Delete ==
    /\ outcome = "ok"
    /\ ebf # none
    /\ ebf' = none
    /\ UNCHANGED <<buffer, src, images, read, outcome>>

----------------------------------------------------------------------------
(* To the buffer.                                                          *)

\* The words that the first i units take.
UnitWords(f) ==
    LET words[i \in 0 .. f.size_] ==
          IF i = 0 THEN 0 ELSE words[i - 1] + f.bf_vec_[i].words
    IN  words

\* Variant: the header is counted twice.
serializedSizeTwoHeaders(f) == 2 + UnitWords(f)[f.size_]

serializedSize(f) == 1 + UnitWords(f)[f.size_]

\* Variant: one bit less is kept.
AsU32NoTopBit(words) == words % MaxInt

\* A u64 size in the u32 of the header.
AsU32(words) == words % (2 * MaxInt)

Header(f) == [tag |-> "header", size_ |-> f.size_,
              serialized_size_ |-> AsU32(serializedSize(f)), filter |-> f]

UnitImage(u) == <<[tag |-> "unit", unit |-> u]>>
                  \o [n \in 1 .. u.words - 1 |-> [tag |-> "data"]]

\* The first i units, one behind the other.
UnitImages(f) ==
    LET dst[i \in 0 .. f.size_] ==
          IF i = 0 THEN << >> ELSE dst[i - 1] \o UnitImage(f.bf_vec_[i])
    IN  dst

\* Variant: the header is written behind the units.
ImageHeaderLast(f) == UnitImages(f)[f.size_] \o <<Header(f)>>

Image(f) == <<Header(f)>> \o UnitImages(f)[f.size_]

\* serialize() of the current version asserts that the bytes written are
\* (int)serializedSize().
AssertionFails(f) == f.version = "new" /\ serializedSize(f) >= MaxInt

serialize ==
    /\ outcome = "ok"
    /\ ebf # none
    /\ AllUnitsThere(ebf)
    /\ ~AssertionFails(ebf)
    /\ images < MaxImages
    /\ buffer' = buffer \o Image(ebf)
    /\ images' = images + 1
    /\ UNCHANGED <<ebf, src, read, outcome>>

SerializeTooLong ==
    /\ outcome = "ok"
    /\ ebf # none
    /\ AllUnitsThere(ebf)
    /\ AssertionFails(ebf)
    /\ outcome' = "assertion"
    /\ UNCHANGED <<ebf, buffer, src, images, read>>

\* serializedSize(), serialize() and add() go over size_ units, those that were
\* not opened included: the vector does not have them.
UseMissingUnit ==
    /\ outcome = "ok"
    /\ ebf # none
    /\ ~AllUnitsThere(ebf)
    /\ outcome' = "missing unit"
    /\ UNCHANGED <<ebf, buffer, src, images, read>>

----------------------------------------------------------------------------
(* And back.                                                               *)

\* Variant: every unit is read from where the first one is.
ReadFirstUnit(n) == [i \in 1 .. n |-> buffer[src + 2].unit]

\* The first n units behind the header at src, each found by the length of the
\* one before.
ReadUnits(n) ==
    LET pos[i \in 0 .. n] ==
          IF i = 0 THEN src + 2 ELSE pos[i - 1] + buffer[pos[i - 1]].unit.words
    IN  [i \in 1 .. n |-> buffer[pos[i - 1]].unit]

header == buffer[src + 1]

\* The words of the image whose header is at src.
ImageAt(pos) == [start |-> pos, end |-> pos + Len(Image(header.filter))]

\* A new object with open_size of the units.  serialized_size_ counts the
\* header, which src has passed already.
deserialize ==
    /\ outcome = "ok"
    /\ ebf = none
    /\ src < Len(buffer)
    /\ header.tag = "header"
    /\ \E open_size \in 0 .. header.size_ :
         ebf' = [header.filter EXCEPT !.open_size_ = open_size,
                                      !.bf_vec_ = ReadUnits(open_size)]
    /\ src' = src + 1 + header.serialized_size_
    /\ read' = Append(read, ImageAt(src))
    /\ UNCHANGED <<buffer, images, outcome>>

\* What is at src is not a header, or there are fewer units than asked for.
Misread ==
    /\ outcome = "ok"
    /\ ebf = none
    /\ src < Len(buffer)
    /\ outcome' = IF header.tag = "header" THEN "too many units" ELSE "misread"
    /\ UNCHANGED <<ebf, buffer, src, images, read>>

\* The caller goes back to the start of the buffer.
Rewind ==
    /\ outcome = "ok"
    /\ read # << >>
    /\ src' = 0
    /\ read' = << >>
    /\ UNCHANGED <<ebf, buffer, images, outcome>>

Init ==
    /\ ebf = none
    /\ buffer = << >>
    /\ src = 0
    /\ images = 0
    /\ read = << >>
    /\ outcome = "ok"

Next == \/ Create \/ add \/ Delete
        \/ serialize \/ SerializeTooLong \/ UseMissingUnit
        \/ deserialize \/ Misread \/ Rewind

Spec == Init /\ [][Next]_vars

----------------------------------------------------------------------------
(* Properties.                                                             *)

Filter == [version : {"new", "old"}, size_ : 0 .. MaxUnits, open_size_ : 0 .. MaxUnits,
           bf_vec_ : Seq(Unit), keys : SUBSET Keys, whole : SUBSET Keys]

\* Every variable keeps its type, a filter has in memory the units it opened,
\* and the reader is at most a header behind the end of the buffer.
TypeOK ==
    /\ ebf # none => /\ ebf \in Filter
                     /\ Len(ebf.bf_vec_) = ebf.open_size_
                     /\ ebf.open_size_ <= ebf.size_
    /\ \A n \in 1 .. Len(buffer) : buffer[n].tag \in {"header", "unit", "data"}
    /\ src \in 0 .. Len(buffer) + 1
    /\ images \in 0 .. MaxImages
    /\ \A n \in DOMAIN read : 0 <= read[n].start /\ read[n].end <= Len(buffer)
    /\ outcome \in {"ok", "missing unit", "too many units", "misread", "assertion"}

\* However many of its units are opened, and whether its keys came with the
\* constructor or through add(), a filter never denies one of them.
NoFalseNegative == ebf # none => ebf.keys \subseteq Answers(ebf)

\* The bargain of the elastic filter: opening fewer units lets more keys
\* through and denies none that all units together let through; opening all
\* gives the filter that was written.
FewerUnitsDenyLess ==
    ebf # none =>
        /\ ebf.whole \subseteq Answers(ebf)
        /\ ebf.open_size_ = ebf.size_ => Answers(ebf) = ebf.whole

\* The first filter of a buffer can always be read, whatever was written, added
\* or read before; only behind another filter does the reader miss a header.
FirstFilterIsReadable == outcome = "misread" => read # << >>

\* A read leaves src one header behind the end of the image, not at its end
\* where the next image starts, and does so however few units it opened; but
\* behind the header of an image of 4 GB or more it stops inside the image.  Only
\* the first version writes such an image, for which this says how it is misread.
ReaderOvershootsByHeader ==
    read # << >> =>
        LET image == Last(read)
            long == image.end - image.start >= 2 * MaxInt
        IN  /\ long => buffer[image.start + 1].filter.version = "old" /\ src < image.end
            /\ ~long => src = image.end + 1

=============================================================================

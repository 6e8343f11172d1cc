------------------------------ MODULE Versions ------------------------------
(***************************************************************************)
(* Is one version clearly after another: compareVersions and splitVersion  *)
(* (internal/release/version.go), and a plugin whose releases follow each  *)
(* other with nobody looking, each because it compares "higher" with the   *)
(* one before.                                                             *)
(*                                                                         *)
(* A version is kept as the parts splitVersion tells apart once the        *)
(* leading v is gone: what stood before a "!", and the segments between    *)
(* the dots, each a number with something after it.                        *)
(***************************************************************************)
EXTENDS Integers, Sequences, FiniteSets

CONSTANTS
  Numbers,    \* numbers a segment may start with
  Rests,      \* what may follow the number in a segment; "" is nothing
  Epochs,     \* integers that may stand before a "!"
  MaxLen,     \* bound: segments in a version
  Width,      \* bits of an int
  MaxServed,  \* bound: releases that follow each other
  None,       \* no epoch
  Garbled     \* what stands before the "!" is not an integer

Absent    == -1   \* a segment that starts with no digit
TooLarge  == -2   \* digits that do not fit an int

MaxInt == 2^(Width - 1) - 1
MinInt == -(2^(Width - 1))

ASSUME NumbersAssumption == Numbers \subseteq 0 .. MaxInt
ASSUME EpochsAssumption  == Epochs \subseteq MinInt .. MaxInt
ASSUME RestsAssumption   == "" \in Rests
ASSUME BoundAssumption   == MaxLen \in Nat /\ MaxServed \in Nat /\ Width \in Nat \ {0}

\* "" has no digits and no rest; a segment with neither is the empty string.
Segment == [number : Numbers \cup {Absent, TooLarge}, rest : Rests]

\* The epoch is None without a "!", and Garbled when no integer stands before it.
Text == [epoch : Epochs \cup {None, Garbled},
         segments : UNION {[1 .. n -> Segment] : n \in 1 .. MaxLen}]

-----------------------------------------------------------------------------
(* splitVersion: the epoch, the dotted numbers, and what trails them.  The *)
(* empty spine is the code's nil one: nothing here can be compared.        *)

\* The segments at which the spine ends.
Ends(segs) == {i \in DOMAIN segs : segs[i].number < 0 \/ segs[i].rest # ""}
First(S)   == CHOOSE i \in S : \A j \in S : i <= j

Spine(segs, n) == [i \in 1 .. n |-> segs[i].number]

\* The suffix that starts with segment s and goes on with segments i and later.
\* One empty segment, as after the dot of "1.", joins to the empty string.
Suffix(s, segs, i) ==
  IF s = [number |-> Absent, rest |-> ""] /\ i > Len(segs)
  THEN <<>>
  ELSE <<s>> \o SubSeq(segs, i, Len(segs))

EpochOf(text) == IF text.epoch = None THEN 0 ELSE text.epoch

\* The spine of text ends at segment i: digits too large for an int leave nothing
\* to compare; else the segment's number, if it has one, still counts.
SplitAt(text, i) ==
  LET segs == text.segments
      segment == segs[i]
  IN  CASE segment.number = TooLarge ->
             [epoch |-> EpochOf(text), spine |-> <<>>, suffix |-> segs]
        [] segment.number = Absent ->
             [epoch |-> EpochOf(text), spine |-> Spine(segs, i - 1),
              suffix |-> Suffix(segment, segs, i + 1)]
        [] OTHER ->
             [epoch |-> EpochOf(text), spine |-> Spine(segs, i),
              suffix |-> Suffix([number |-> Absent, rest |-> segment.rest], segs, i + 1)]

Split(text) ==
  LET segs == text.segments IN
  CASE text.epoch = Garbled ->
         [epoch |-> 0, spine |-> <<>>, suffix |-> segs]
    [] text.epoch # Garbled /\ Ends(segs) = {} ->
         [epoch |-> EpochOf(text), spine |-> Spine(segs, Len(segs)), suffix |-> <<>>]
    [] OTHER ->
         SplitAt(text, First(Ends(segs)))

-----------------------------------------------------------------------------
(* compareVersions.                                                        *)

\* Go's int: a difference wraps, from either end of the range to the other.
Wrap(x) == ((x - MinInt) % (MaxInt - MinInt + 1)) + MinInt

OrderOf(diff) == CASE diff > 0 -> "higher" [] diff < 0 -> "lower" [] OTHER -> "equal"

\* A missing part is zero: 1.2 and 1.2.0 are equal.
PartAt(parts, i) == IF i <= Len(parts) THEN parts[i] ELSE 0

\* The places where two spines differ, up to the longer one's end.
Differing(a, b) ==
  {i \in 1 .. (Len(a) + Len(b)) : PartAt(a, i) # PartAt(b, i)}

\* The part that decides: the first that differs.
LastDecides(a, b) == CHOOSE i \in Differing(a, b) : \A j \in Differing(a, b) : j <= i
AnyRiseDecides(a, b) ==
  CHOOSE i \in Differing(a, b) :
    PartAt(a, i) > PartAt(b, i) => \A j \in Differing(a, b) : PartAt(a, j) > PartAt(b, j)
Decides(a, b) == First(Differing(a, b))

CompareVersions(current, candidate) ==
  LET a == Split(current)  b == Split(candidate) IN
  IF a.epoch # b.epoch
  THEN OrderOf(Wrap(b.epoch - a.epoch))
  ELSE IF a.spine = <<>> \/ b.spine = <<>>
  THEN "unknown"
  ELSE IF Differing(a.spine, b.spine) # {}
  THEN LET i == Decides(a.spine, b.spine)
       IN  OrderOf(PartAt(b.spine, i) - PartAt(a.spine, i))
  ELSE IF a.suffix = b.suffix THEN "equal" ELSE "unknown"

-----------------------------------------------------------------------------
(* A plugin of a trusted owner: what it serves is replaced, with nobody    *)
(* looking, by a version that compares higher, and by nothing else.        *)

VARIABLE served   \* the versions served so far, the live one last

LastServed == served[Len(served)]

Init == \E t \in Text : served = <<t>>

Follow(t) ==
  /\ Len(served) < MaxServed
  /\ CompareVersions(LastServed, t) = "higher"
  /\ served' = Append(served, t)

Next == \E t \in Text : Follow(t)

Spec == Init /\ [][Next]_served

-----------------------------------------------------------------------------
(* Properties.                                                             *)

(***************************************************************************)
(* Releases that each follow the one before never go back: every one of    *)
(* them compares higher with all that were served before it, and those     *)
(* compare lower with it, however their suffixes and lengths vary.         *)
(***************************************************************************)
NeverGoesBack ==
  \A i, j \in DOMAIN served :
    i < j => /\ CompareVersions(served[i], served[j]) = "higher"
             /\ CompareVersions(served[j], served[i]) = "lower"

(***************************************************************************)
(* The comparison agrees with arithmetic: a version that follows another   *)
(* has the greater epoch or, with the same epoch, no lesser value when its *)
(* first three parts are read as the digits of one number, and the greater *)
(* value where neither has a fourth part to decide.                        *)
(***************************************************************************)
Base == MaxInt + 1

\* The value of the first three parts of a spine, as digits in Base.
Digit(spine, i) == IF i \in DOMAIN spine THEN spine[i] ELSE 0
Value(spine) == Digit(spine, 1) * Base * Base + Digit(spine, 2) * Base + Digit(spine, 3)

FollowsByValue ==
  \A i \in 1 .. (Len(served) - 1) :
    LET a == Split(served[i])  b == Split(served[i + 1]) IN
    \/ a.epoch < b.epoch
    \/ /\ a.epoch = b.epoch
       /\ Value(a.spine) <= Value(b.spine)
       /\ Len(a.spine) <= 3 /\ Len(b.spine) <= 3 => Value(a.spine) < Value(b.spine)

-----------------------------------------------------------------------------
(* What the repository says of this code, and the code does not do.        *)

(***************************************************************************)
(* "Is B clearly greater than A": a version that replaces another unseen   *)
(* has an epoch no lower than the one it replaces.                         *)
(***************************************************************************)
EpochNeverDrops ==
  \A i \in 1 .. (Len(served) - 1) :
    Split(served[i]).epoch <= Split(served[i + 1]).epoch
=============================================================================

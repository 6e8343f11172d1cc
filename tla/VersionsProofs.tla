--------------------------- MODULE VersionsProofs ----------------------------
(***************************************************************************)
(* Theorems about module Versions, for versions of any numbers, epochs and *)
(* suffixes: releases that follow each other with nobody looking go on     *)
(* upwards, as long as no difference between two epochs wraps.  (When one  *)
(* does they may not: run epoch_overflow.)                                 *)
(***************************************************************************)
EXTENDS Versions, WellFoundedInduction, TLAPS

\* compareVersions subtracts one epoch from another, and the difference is an int.
NoDifferenceWraps == \A e, f \in Epochs \cup {0} : f - e \in MinInt .. MaxInt

\* A difference that fits an int is kept as it is.
LEMMA Fits ==
  ASSUME NoDifferenceWraps, NEW e \in Epochs \cup {0}, NEW f \in Epochs \cup {0}
  PROVE  Wrap(f - e) = f - e
<1>1. PICK x : x = f - e
  OBVIOUS
<1>2. PICK least : least = MinInt
  OBVIOUS
<1>3. PICK most : most = MaxInt
  OBVIOUS
<1>4. least \in Int /\ most \in Int
  BY <1>2, <1>3, BoundAssumption DEF MinInt, MaxInt
<1>5. x \in Int /\ least <= x /\ x <= most
  BY <1>1, <1>2, <1>3 DEF NoDifferenceWraps
<1>6. (x - least) % (most - least + 1) = x - least
  BY <1>4, <1>5
<1>7. ((x - least) % (most - least + 1)) + least = x
  BY <1>4, <1>5, <1>6
<1> QED
  BY <1>1, <1>2, <1>3, <1>7 DEF Wrap

\* Numbers that are not all gone have a first.
LEMMA NatMin ==
  ASSUME NEW T, T \subseteq Nat, T # {}
  PROVE  \E x \in T : \A y \in T : x <= y
<1>1. \E x \in T : \A y \in T : ~ (<<y, x>> \in OpToRel(<, Nat))
  BY NatLessThanWellFounded, WFMin
<1>2. PICK x \in T : \A y \in T : ~ (<<y, x>> \in OpToRel(<, Nat))
  BY <1>1
<1>3. \A y \in T : ~(y < x)
  BY <1>2 DEF OpToRel
<1>4. ASSUME NEW y \in T PROVE x <= y
  <2>1. ~(y < x) /\ x \in Nat /\ y \in Nat
    BY <1>3
  <2> QED
    BY <2>1
<1> QED
  BY <1>4

LEMMA FirstIs ==
  ASSUME NEW S, S \subseteq Nat, S # {}
  PROVE  First(S) \in S /\ \A y \in S : First(S) <= y
<1>1. \E x \in S : \A y \in S : x <= y
  BY NatMin
<1> QED
  BY <1>1 DEF First

-----------------------------------------------------------------------------
(* What splitVersion makes of a version.                                   *)

\* The dotted numbers of a version.
IsSpine(spine) == \E n \in 0 .. MaxLen : spine \in [1 .. n -> 0 .. MaxInt]

LEMMA SpineIs ==
  ASSUME NEW n \in Nat, n <= MaxLen, NEW segs,
         \A i \in 1 .. n : segs[i].number \in 0 .. MaxInt
  PROVE  IsSpine(Spine(segs, n))
<1>1. n \in 0 .. MaxLen /\ Spine(segs, n) \in [1 .. n -> 0 .. MaxInt]
  BY BoundAssumption DEF Spine
<1> QED
  BY <1>1 DEF IsSpine

LEMMA SplitIs ==
  ASSUME NEW t \in Text
  PROVE  Split(t).epoch \in Epochs \cup {0} /\ IsSpine(Split(t).spine)
<1> DEFINE segs == t.segments
           i == First(Ends(segs))
<1>1. PICK n \in 1 .. MaxLen : segs \in [1 .. n -> Segment]
  BY DEF Text
<1>2. n \in Nat /\ n <= MaxLen /\ DOMAIN segs = 1 .. n /\ Len(segs) = n /\ MaxLen \in Nat
  BY <1>1, BoundAssumption
<1>3. \A j \in 1 .. n : segs[j].number \in Numbers \cup {Absent, TooLarge}
  BY <1>1 DEF Segment
<1>4. Numbers \subseteq 0 .. MaxInt /\ Absent < 0 /\ TooLarge < 0 /\ Absent # TooLarge
  BY NumbersAssumption DEF Absent, TooLarge
<1>5. \A j \in 1 .. n : j \notin Ends(segs) => segs[j].number \in 0 .. MaxInt
  BY <1>2, <1>3, <1>4 DEF Ends
<1>6. IsSpine(<<>>)
  <2>1. 0 \in 0 .. MaxLen /\ <<>> \in [1 .. 0 -> 0 .. MaxInt]
    BY <1>2
  <2> QED
    BY <2>1 DEF IsSpine
<1>7. t.epoch # Garbled => EpochOf(t) \in Epochs \cup {0}
  BY DEF Text, EpochOf
<1>8. CASE t.epoch = Garbled
  <2>1. Split(t) = [epoch |-> 0, spine |-> <<>>, suffix |-> segs]
    BY <1>8 DEF Split
  <2> QED
    BY <1>6, <2>1
<1>9. CASE t.epoch # Garbled /\ Ends(segs) = {}
  <2>1. Split(t) = [epoch |-> EpochOf(t), spine |-> Spine(segs, Len(segs)), suffix |-> <<>>]
    BY <1>9 DEF Split
  <2>2. IsSpine(Spine(segs, n))
    BY <1>2, <1>5, <1>9, SpineIs
  <2> QED
    BY <1>2, <1>7, <1>9, <2>1, <2>2
<1>10. CASE t.epoch # Garbled /\ Ends(segs) # {}
  <2>1. i \in 1 .. n /\ i \in Ends(segs) /\ \A j \in Ends(segs) : i <= j
    <3>1. Ends(segs) \subseteq 1 .. n
      BY <1>2 DEF Ends
    <3>2. Ends(segs) \subseteq Nat
      BY <1>2, <3>1
    <3> QED
      BY <1>10, <3>1, <3>2, FirstIs
  <2>2. \A j \in 1 .. n : j < i => segs[j].number \in 0 .. MaxInt
    BY <1>2, <1>5, <2>1
  <2>3. CASE segs[i].number = TooLarge
    <3>1. Split(t) = [epoch |-> EpochOf(t), spine |-> <<>>, suffix |-> segs]
      BY <1>4, <1>10, <2>3 DEF Split, SplitAt
    <3> QED
      BY <1>6, <1>7, <1>10, <3>1
  <2>4. CASE segs[i].number # TooLarge /\ segs[i].number = Absent
    <3>1. Split(t) = [epoch |-> EpochOf(t), spine |-> Spine(segs, i - 1),
                      suffix |-> Suffix(segs[i], segs, i + 1)]
      BY <1>4, <1>10, <2>4 DEF Split, SplitAt
    <3>2. i - 1 \in Nat /\ i - 1 <= MaxLen /\ \A j \in 1 .. (i - 1) : j \in 1 .. n /\ j < i
      BY <1>2, <2>1
    <3>3. IsSpine(Spine(segs, i - 1))
      BY <2>2, <3>2, SpineIs
    <3> QED
      BY <1>7, <1>10, <3>1, <3>3
  <2>5. CASE segs[i].number # TooLarge /\ segs[i].number # Absent
    <3>1. Split(t) = [epoch |-> EpochOf(t), spine |-> Spine(segs, i),
                      suffix |-> Suffix([number |-> Absent, rest |-> segs[i].rest], segs, i + 1)]
      BY <1>4, <1>10, <2>5 DEF Split, SplitAt
    <3>2. i \in Nat /\ i <= MaxLen /\ \A j \in 1 .. i : j \in 1 .. n /\ (j < i \/ j = i)
      BY <1>2, <2>1
    <3>3. segs[i].number \in 0 .. MaxInt
      BY <1>3, <1>4, <2>1, <2>5
    <3>4. IsSpine(Spine(segs, i))
      BY <2>2, <3>2, <3>3, SpineIs
    <3> QED
      BY <1>7, <1>10, <3>1, <3>4
  <2> QED
    BY <2>3, <2>4, <2>5
<1> QED
  BY <1>8, <1>9, <1>10

-----------------------------------------------------------------------------
(* Which of two spines is the greater.                                     *)

\* The first part that differs is the greater in y; a missing part is 0.
Rises(x, y) ==
  \E d \in Nat \ {0} :
    /\ PartAt(x, d) < PartAt(y, d)
    /\ \A j \in Nat \ {0} : j < d => PartAt(x, j) = PartAt(y, j)

LEMMA PartIs ==
  ASSUME NEW x, IsSpine(x), NEW i \in Nat \ {0}
  PROVE  /\ PartAt(x, i) \in Nat
         /\ i > Len(x) => PartAt(x, i) = 0
         /\ i <= Len(x) => PartAt(x, i) \in 0 .. MaxInt
         /\ Len(x) \in Nat /\ Len(x) <= MaxLen
<1>1. PICK n \in 0 .. MaxLen : x \in [1 .. n -> 0 .. MaxInt]
  BY DEF IsSpine
<1>2. MaxLen \in Nat /\ n \in Nat /\ n <= MaxLen
  BY <1>1, BoundAssumption
<1>3. Len(x) = n
  BY <1>1, <1>2
<1>4. CASE i <= n
  <2>1. x[i] \in 0 .. MaxInt /\ PartAt(x, i) = x[i]
    BY <1>1, <1>2, <1>3, <1>4 DEF PartAt
  <2>2. x[i] \in Nat
    BY <2>1
  <2> QED
    BY <1>2, <1>3, <1>4, <2>1, <2>2
<1>5. CASE ~(i <= n)
  <2>1. PartAt(x, i) = 0 /\ i > Len(x) /\ ~(i <= Len(x))
    BY <1>2, <1>3, <1>5 DEF PartAt
  <2> QED
    BY <1>2, <1>3, <2>1
<1> QED
  BY <1>4, <1>5

\* The part that decides is the one that rises.
LEMMA DecidesIs ==
  ASSUME NEW x, NEW y, IsSpine(x), IsSpine(y)
  PROVE  Rises(x, y) <=>
           /\ Differing(x, y) # {}
           /\ PartAt(x, Decides(x, y)) < PartAt(y, Decides(x, y))
<1> DEFINE D == Differing(x, y)
           i == Decides(x, y)
<1>1. Len(x) \in Nat /\ Len(y) \in Nat
  BY PartIs, 1 \in Nat \ {0}
<1>2. \A j \in Nat \ {0} : j \notin D => PartAt(x, j) = PartAt(y, j)
  <2>1. SUFFICES ASSUME NEW j \in Nat \ {0}, j \notin D, PartAt(x, j) # PartAt(y, j)
                 PROVE  FALSE
    OBVIOUS
  <2>2. ~(j \in 1 .. (Len(x) + Len(y)))
    BY <2>1 DEF Differing
  <2>3. j > Len(x) /\ j > Len(y)
    BY <1>1, <2>2
  <2>4. PartAt(x, j) = 0 /\ PartAt(y, j) = 0
    BY <2>3, PartIs
  <2> QED
    BY <2>1, <2>4
<1>3. D \subseteq Nat \ {0} /\ D \subseteq Nat
  BY <1>1 DEF Differing
<1>4. D # {} => i \in D /\ \A j \in D : i <= j
  BY <1>3, FirstIs DEF Decides
<1>5. ASSUME D # {}, PartAt(x, i) < PartAt(y, i)
      PROVE  Rises(x, y)
  <2>1. i \in Nat \ {0} /\ \A j \in D : i <= j
    BY <1>3, <1>4, <1>5
  <2>2. ASSUME NEW j \in Nat \ {0}, j < i PROVE PartAt(x, j) = PartAt(y, j)
    <3>1. j \notin D
      BY <2>1, <2>2
    <3> QED
      BY <1>2, <3>1
  <2> QED
    BY <1>5, <2>1, <2>2 DEF Rises
<1>6. ASSUME Rises(x, y)
      PROVE  D # {} /\ PartAt(x, i) < PartAt(y, i)
  <2>1. PICK d \in Nat \ {0} :
          /\ PartAt(x, d) < PartAt(y, d)
          /\ \A j \in Nat \ {0} : j < d => PartAt(x, j) = PartAt(y, j)
    BY <1>6 DEF Rises
  <2>2. PartAt(x, d) \in Nat /\ PartAt(y, d) \in Nat
    BY PartIs
  <2>3. d \in D
    BY <1>2, <2>1, <2>2
  <2>4. i \in D /\ i <= d /\ i \in Nat \ {0}
    BY <1>3, <1>4, <2>3
  <2>5. PartAt(x, i) # PartAt(y, i)
    BY <2>4 DEF Differing
  <2>6. ~(i < d)
    BY <2>1, <2>4, <2>5
  <2>7. i = d
    BY <2>4, <2>6
  <2> QED
    BY <2>1, <2>3, <2>7
<1> QED
  BY <1>5, <1>6

LEMMA RisesOn ==
  ASSUME NEW x, NEW y, NEW z, IsSpine(x), IsSpine(y), IsSpine(z),
         Rises(x, y), Rises(y, z)
  PROVE  Rises(x, z)
<1>1. PICK d \in Nat \ {0} :
        /\ PartAt(x, d) < PartAt(y, d)
        /\ \A j \in Nat \ {0} : j < d => PartAt(x, j) = PartAt(y, j)
  BY DEF Rises
<1>2. PICK e \in Nat \ {0} :
        /\ PartAt(y, e) < PartAt(z, e)
        /\ \A j \in Nat \ {0} : j < e => PartAt(y, j) = PartAt(z, j)
  BY DEF Rises
<1>3. \A j \in Nat \ {0} : PartAt(x, j) \in Nat /\ PartAt(y, j) \in Nat /\ PartAt(z, j) \in Nat
  BY PartIs
<1>4. CASE d <= e
  <2>1. PartAt(x, d) < PartAt(z, d)
    <3>1. CASE d = e
      BY <1>1, <1>2, <1>3, <3>1
    <3>2. CASE d < e
      BY <1>1, <1>2, <1>3, <3>2
    <3> QED
      BY <1>4, <3>1, <3>2
  <2>2. \A j \in Nat \ {0} : j < d => PartAt(x, j) = PartAt(z, j)
    BY <1>1, <1>2, <1>4
  <2> QED
    BY <2>1, <2>2 DEF Rises
<1>5. CASE e < d
  <2>1. PartAt(x, e) < PartAt(z, e)
    BY <1>1, <1>2, <1>3, <1>5
  <2>2. \A j \in Nat \ {0} : j < e => PartAt(x, j) = PartAt(z, j)
    BY <1>1, <1>2, <1>5
  <2> QED
    BY <2>1, <2>2 DEF Rises
<1> QED
  BY <1>4, <1>5

LEMMA DecidesAt ==
  ASSUME NEW x, NEW y, IsSpine(x), IsSpine(y), Differing(x, y) # {}
  PROVE  Decides(x, y) \in Nat \ {0}
<1>1. Len(x) \in Nat /\ Len(y) \in Nat
  BY PartIs, 1 \in Nat \ {0}
<1>2. Differing(x, y) \subseteq Nat \ {0} /\ Differing(x, y) \subseteq Nat
  BY <1>1 DEF Differing
<1>3. Decides(x, y) \in Differing(x, y)
  BY <1>2, FirstIs DEF Decides
<1> QED
  BY <1>2, <1>3

\* What rises does not fall: read from y to x, the same part decides.
LEMMA DifferingIsMutual ==
  ASSUME NEW x, NEW y, IsSpine(x), IsSpine(y)
  PROVE  Differing(y, x) = Differing(x, y) /\ Decides(y, x) = Decides(x, y)
<1>1. Len(x) \in Nat /\ Len(y) \in Nat
  BY PartIs, 1 \in Nat \ {0}
<1>2. Len(x) + Len(y) = Len(y) + Len(x)
  BY <1>1
<1>3. Differing(y, x) = Differing(x, y)
  BY <1>2 DEF Differing
<1> QED
  BY <1>3 DEF Decides

-----------------------------------------------------------------------------
(* What "higher" means.                                                    *)

\* a and b are what splitVersion makes of two versions.
After(a, b) ==
  \/ a.epoch < b.epoch
  \/ a.epoch = b.epoch /\ a.spine # <<>> /\ b.spine # <<>> /\ Rises(a.spine, b.spine)

LEMMA OrderIs ==
  ASSUME NEW d \in Int
  PROVE  /\ OrderOf(d) = "higher" <=> d > 0
         /\ OrderOf(d) = "lower" <=> d < 0
<1>1. CASE d > 0
  BY <1>1 DEF OrderOf
<1>2. CASE d < 0
  BY <1>2 DEF OrderOf
<1>3. CASE d = 0
  BY <1>3 DEF OrderOf
<1> QED
  BY <1>1, <1>2, <1>3

LEMMA EpochsAreInts == Epochs \cup {0} \subseteq Int
<1>1. \A e \in Epochs : e \in MinInt .. MaxInt
  BY EpochsAssumption
<1> QED
  BY <1>1

LEMMA CompareIs ==
  ASSUME NoDifferenceWraps, NEW s \in Text, NEW t \in Text
  PROVE  /\ CompareVersions(s, t) = "higher" <=> After(Split(s), Split(t))
         /\ CompareVersions(t, s) = "lower" <=> After(Split(s), Split(t))
<1>1. PICK a : a = Split(s)
  OBVIOUS
<1>2. PICK b : b = Split(t)
  OBVIOUS
<1>3. a.epoch \in Epochs \cup {0} /\ IsSpine(a.spine)
  BY <1>1, SplitIs
<1>4. b.epoch \in Epochs \cup {0} /\ IsSpine(b.spine)
  BY <1>2, SplitIs
<1>5. a.epoch \in Int /\ b.epoch \in Int
  BY <1>3, <1>4, EpochsAreInts
<1>6. CASE a.epoch # b.epoch
  <2>1. CompareVersions(s, t) = OrderOf(b.epoch - a.epoch)
    BY <1>1, <1>2, <1>3, <1>4, <1>6, Fits DEF CompareVersions
  <2>2. CompareVersions(t, s) = OrderOf(a.epoch - b.epoch)
    BY <1>1, <1>2, <1>3, <1>4, <1>6, Fits DEF CompareVersions
  <2>3. b.epoch - a.epoch \in Int /\ a.epoch - b.epoch \in Int
    BY <1>5
  <2>4. After(a, b) <=> a.epoch < b.epoch
    BY <1>5, <1>6 DEF After
  <2>5. /\ b.epoch - a.epoch > 0 <=> a.epoch < b.epoch
        /\ a.epoch - b.epoch < 0 <=> a.epoch < b.epoch
    BY <1>5
  <2> QED
    BY <1>1, <1>2, <2>1, <2>2, <2>3, <2>4, <2>5, OrderIs
<1>7. CASE a.epoch = b.epoch /\ (a.spine = <<>> \/ b.spine = <<>>)
  <2>1. CompareVersions(s, t) = "unknown" /\ CompareVersions(t, s) = "unknown"
    BY <1>1, <1>2, <1>7 DEF CompareVersions
  <2>2. ~After(a, b)
    BY <1>5, <1>7 DEF After
  <2> QED
    BY <1>1, <1>2, <2>1, <2>2
<1>8. CASE /\ a.epoch = b.epoch /\ a.spine # <<>> /\ b.spine # <<>>
           /\ Differing(a.spine, b.spine) = {}
  <2>1. Differing(b.spine, a.spine) = {}
    BY <1>3, <1>4, <1>8, DifferingIsMutual
  <2>2. CompareVersions(s, t) \in {"equal", "unknown"}
    BY <1>1, <1>2, <1>8 DEF CompareVersions
  <2>3. CompareVersions(t, s) \in {"equal", "unknown"}
    BY <1>1, <1>2, <1>8, <2>1 DEF CompareVersions
  <2>4. ~Rises(a.spine, b.spine)
    BY <1>3, <1>4, <1>8, DecidesIs
  <2>5. ~After(a, b)
    BY <1>5, <1>8, <2>4 DEF After
  <2> QED
    BY <1>1, <1>2, <2>2, <2>3, <2>5
<1>9. CASE /\ a.epoch = b.epoch /\ a.spine # <<>> /\ b.spine # <<>>
           /\ Differing(a.spine, b.spine) # {}
  <2>1. PICK i : i = Decides(a.spine, b.spine)
    OBVIOUS
  <2>2. Differing(b.spine, a.spine) # {} /\ Decides(b.spine, a.spine) = i
    BY <1>3, <1>4, <1>9, <2>1, DifferingIsMutual
  <2>3. CompareVersions(s, t) = OrderOf(PartAt(b.spine, i) - PartAt(a.spine, i))
    BY <1>1, <1>2, <1>9, <2>1 DEF CompareVersions
  <2>4. CompareVersions(t, s) = OrderOf(PartAt(a.spine, i) - PartAt(b.spine, i))
    BY <1>1, <1>2, <1>9, <2>2 DEF CompareVersions
  <2>5. i \in Nat \ {0}
    BY <1>3, <1>4, <1>9, <2>1, DecidesAt
  <2>6. PartAt(a.spine, i) \in Nat /\ PartAt(b.spine, i) \in Nat
    BY <1>3, <1>4, <2>5, PartIs
  <2>7. /\ PartAt(b.spine, i) - PartAt(a.spine, i) \in Int
        /\ PartAt(a.spine, i) - PartAt(b.spine, i) \in Int
        /\ PartAt(b.spine, i) - PartAt(a.spine, i) > 0
             <=> PartAt(a.spine, i) < PartAt(b.spine, i)
        /\ PartAt(a.spine, i) - PartAt(b.spine, i) < 0
             <=> PartAt(a.spine, i) < PartAt(b.spine, i)
    BY <2>6
  <2>8. Rises(a.spine, b.spine) <=> PartAt(a.spine, i) < PartAt(b.spine, i)
    BY <1>3, <1>4, <1>9, <2>1, DecidesIs
  <2>9. After(a, b) <=> PartAt(a.spine, i) < PartAt(b.spine, i)
    BY <1>5, <1>9, <2>8 DEF After
  <2> QED
    BY <1>1, <1>2, <2>3, <2>4, <2>7, <2>9, OrderIs
<1> QED
  BY <1>6, <1>7, <1>8, <1>9

LEMMA AfterOn ==
  ASSUME NEW s \in Text, NEW t \in Text, NEW u \in Text,
         After(Split(s), Split(t)), After(Split(t), Split(u))
  PROVE  After(Split(s), Split(u))
<1>1. PICK a : a = Split(s)
  OBVIOUS
<1>2. PICK b : b = Split(t)
  OBVIOUS
<1>3. PICK c : c = Split(u)
  OBVIOUS
<1>4. /\ a.epoch \in Int /\ b.epoch \in Int /\ c.epoch \in Int
      /\ IsSpine(a.spine) /\ IsSpine(b.spine) /\ IsSpine(c.spine)
  BY <1>1, <1>2, <1>3, SplitIs, EpochsAreInts
<1>5. CASE a.epoch < b.epoch \/ b.epoch < c.epoch
  <2>1. a.epoch <= b.epoch /\ b.epoch <= c.epoch
    BY <1>1, <1>2, <1>3, <1>4 DEF After
  <2>2. a.epoch < c.epoch
    BY <1>4, <1>5, <2>1
  <2> QED
    BY <1>1, <1>3, <2>2 DEF After
<1>6. CASE ~(a.epoch < b.epoch) /\ ~(b.epoch < c.epoch)
  <2>1. a.epoch = b.epoch /\ a.spine # <<>> /\ b.spine # <<>> /\ Rises(a.spine, b.spine)
    BY <1>1, <1>2, <1>6 DEF After
  <2>2. b.epoch = c.epoch /\ c.spine # <<>> /\ Rises(b.spine, c.spine)
    BY <1>2, <1>3, <1>6 DEF After
  <2>3. Rises(a.spine, c.spine)
    BY <1>4, <2>1, <2>2, RisesOn
  <2> QED
    BY <1>1, <1>3, <2>1, <2>2, <2>3 DEF After
<1> QED
  BY <1>5, <1>6

-----------------------------------------------------------------------------
(* A plugin whose releases follow each other with nobody looking.          *)

ServedAlways ==
  /\ served \in Seq(Text) /\ Len(served) > 0
  /\ \A i, j \in 1 .. Len(served) : i < j => After(Split(served[i]), Split(served[j]))

LEMMA NextServed ==
  ASSUME NoDifferenceWraps, ServedAlways, [Next]_served
  PROVE  ServedAlways'
<1>1. CASE UNCHANGED served
  BY <1>1 DEF ServedAlways
<1>2. ASSUME NEW t \in Text, Follow(t)
      PROVE  ServedAlways'
  <2>1. PICK n : n = Len(served)
    OBVIOUS
  <2>2. served \in Seq(Text) /\ n \in Nat /\ n > 0 /\ served[n] \in Text
    BY <2>1 DEF ServedAlways
  <2>3. served' = Append(served, t) /\ CompareVersions(served[n], t) = "higher"
    BY <1>2, <2>1 DEF Follow, LastServed
  <2>4. After(Split(served[n]), Split(t))
    BY <2>2, <2>3, CompareIs
  <2>5. /\ served' \in Seq(Text) /\ Len(served') = n + 1
        /\ served'[n + 1] = t
        /\ \A i \in 1 .. n : served'[i] = served[i] /\ served[i] \in Text
    BY <2>1, <2>2, <2>3
  <2>6. ASSUME NEW i \in 1 .. (n + 1), NEW j \in 1 .. (n + 1), i < j
        PROVE  After(Split(served'[i]), Split(served'[j]))
    <3>1. i \in 1 .. n
      BY <2>2, <2>6
    <3>2. CASE j = n + 1
      <4>1. CASE i = n
        BY <2>4, <2>5, <3>1, <3>2, <4>1
      <4>2. CASE i < n
        <5>1. After(Split(served[i]), Split(served[n]))
          BY <2>1, <2>2, <3>1, <4>2 DEF ServedAlways
        <5>2. After(Split(served[i]), Split(t))
          BY <2>2, <2>4, <2>5, <3>1, <5>1, AfterOn
        <5> QED
          BY <2>5, <3>1, <3>2, <5>2
      <4> QED
        BY <2>2, <3>1, <4>1, <4>2
    <3>3. CASE j \in 1 .. n
      <4>1. After(Split(served[i]), Split(served[j]))
        BY <2>1, <2>6, <3>1, <3>3 DEF ServedAlways
      <4> QED
        BY <2>5, <3>1, <3>3, <4>1
    <3> QED
      BY <2>2, <3>2, <3>3
  <2> QED
    BY <2>2, <2>5, <2>6 DEF ServedAlways
<1> QED
  BY <1>1, <1>2 DEF Next

LEMMA Served ==
  ASSUME NoDifferenceWraps
  PROVE  Spec => []ServedAlways
<1>1. Init => ServedAlways
  <2>1. SUFFICES ASSUME NEW t \in Text, served = <<t>>
                 PROVE  ServedAlways
    BY DEF Init
  <2>2. served \in Seq(Text) /\ Len(served) = 1
    BY <2>1
  <2> QED
    BY <2>2 DEF ServedAlways
<1>2. ServedAlways /\ [Next]_served => ServedAlways'
  BY NextServed
<1> QED
  BY <1>1, <1>2, PTL DEF Spec

(***************************************************************************)
(* Releases that each compare higher than the one before them compare      *)
(* higher with everything served earlier: compareVersions, which is a      *)
(* comparison of epochs, of dotted numbers and of nothing else when it     *)
(* answers "higher", is transitive, and reads the other way round when its *)
(* arguments are swapped.                                                  *)
(***************************************************************************)
THEOREM NeverBack ==
  ASSUME NoDifferenceWraps
  PROVE  Spec => []NeverGoesBack
<1>1. ASSUME ServedAlways
      PROVE  NeverGoesBack
  <2>1. served \in Seq(Text) /\ DOMAIN served = 1 .. Len(served)
    BY <1>1 DEF ServedAlways
  <2>2. ASSUME NEW i \in DOMAIN served, NEW j \in DOMAIN served, i < j
        PROVE  /\ CompareVersions(served[i], served[j]) = "higher"
               /\ CompareVersions(served[j], served[i]) = "lower"
    <3>1. served[i] \in Text /\ served[j] \in Text
      BY <2>1, <2>2
    <3>2. After(Split(served[i]), Split(served[j]))
      BY <1>1, <2>1, <2>2 DEF ServedAlways
    <3> QED
      BY <1>1, <3>1, <3>2, CompareIs
  <2> QED
    BY <2>2 DEF NeverGoesBack
<1>2. ServedAlways => NeverGoesBack
  BY <1>1
<1> QED
  BY <1>2, Served, PTL

-----------------------------------------------------------------------------
(* The comparison agrees with arithmetic.                                  *)

\* A greater digit weighs more than all those after it.
LEMMA DigitsWeigh ==
  ASSUME NEW M \in Nat, NEW x \in 0 .. M, NEW y \in 0 .. M, NEW u \in 0 .. M,
         NEW v \in 0 .. M, x < y
  PROVE  x * (M + 1) + u < y * (M + 1) + v
  OBVIOUS

LEMMA RisesByValue ==
  ASSUME NEW x, NEW y, IsSpine(x), IsSpine(y), Rises(x, y)
  PROVE  /\ Value(x) <= Value(y)
         /\ Len(x) <= 3 /\ Len(y) <= 3 => Value(x) < Value(y)
<1>1. PICK d \in Nat \ {0} :
        /\ PartAt(x, d) < PartAt(y, d)
        /\ \A j \in Nat \ {0} : j < d => PartAt(x, j) = PartAt(y, j)
  BY DEF Rises
<1>2. d \in Nat \ {0} /\ d <= Len(y) /\ Len(y) \in Nat /\ MaxInt \in Nat
  <2>1. PartAt(x, d) \in Nat /\ PartAt(y, d) \in Nat
    BY PartIs
  <2>2. ~(d > Len(y))
    BY <1>1, <2>1, PartIs
  <2>3. Len(y) \in Nat
    BY PartIs
  <2>4. PartAt(y, d) \in 0 .. MaxInt
    BY <2>2, <2>3, PartIs
  <2>5. MaxInt \in Int
    BY BoundAssumption DEF MaxInt
  <2> QED
    BY <2>1, <2>2, <2>3, <2>4, <2>5
<1>3. ASSUME NEW z, IsSpine(z), NEW i \in 1 .. 3
      PROVE  Digit(z, i) = PartAt(z, i) /\ Digit(z, i) \in 0 .. MaxInt
  <2>1. PICK n \in 0 .. MaxLen : z \in [1 .. n -> 0 .. MaxInt]
    BY <1>3 DEF IsSpine
  <2>2. n \in Nat /\ Len(z) = n /\ DOMAIN z = 1 .. n
    BY <2>1, BoundAssumption
  <2>3. i \in DOMAIN z <=> i <= Len(z)
    BY <2>2
  <2>4. Digit(z, i) = PartAt(z, i)
    BY <2>3 DEF Digit, PartAt
  <2>5. i \in Nat \ {0} /\ 0 \in 0 .. MaxInt
    BY <1>2
  <2>6. PartAt(z, i) \in 0 .. MaxInt
    <3>1. CASE i <= Len(z)
      BY <1>3, <2>5, <3>1, PartIs
    <3>2. CASE i > Len(z)
      BY <1>3, <2>5, <3>2, PartIs
    <3> QED
      BY <2>2, <3>1, <3>2
  <2> QED
    BY <2>4, <2>6
<1>4. PICK x1, x2, x3 : x1 = Digit(x, 1) /\ x2 = Digit(x, 2) /\ x3 = Digit(x, 3)
  OBVIOUS
<1>5. PICK y1, y2, y3 : y1 = Digit(y, 1) /\ y2 = Digit(y, 2) /\ y3 = Digit(y, 3)
  OBVIOUS
<1>6. /\ x1 \in 0 .. MaxInt /\ x2 \in 0 .. MaxInt /\ x3 \in 0 .. MaxInt
      /\ y1 \in 0 .. MaxInt /\ y2 \in 0 .. MaxInt /\ y3 \in 0 .. MaxInt
  BY <1>3, <1>4, <1>5
<1>7. /\ x1 = PartAt(x, 1) /\ x2 = PartAt(x, 2) /\ x3 = PartAt(x, 3)
      /\ y1 = PartAt(y, 1) /\ y2 = PartAt(y, 2) /\ y3 = PartAt(y, 3)
  BY <1>3, <1>4, <1>5
<1>8. PICK B : B = MaxInt + 1
  OBVIOUS
<1>9. B \in Nat /\ Value(x) = x1 * B * B + x2 * B + x3 /\ Value(y) = y1 * B * B + y2 * B + y3
  BY <1>2, <1>4, <1>5, <1>8 DEF Value, Base
<1>10. CASE x1 < y1
  <2>1. x1 * B + x2 < y1 * B + y2
    BY <1>2, <1>6, <1>8, <1>10, DigitsWeigh
  <2> QED
    BY <1>2, <1>6, <1>8, <1>9, <2>1
<1>11. CASE x1 = y1 /\ x2 < y2
  <2>1. x2 * B + x3 < y2 * B + y3
    BY <1>2, <1>6, <1>8, <1>11, DigitsWeigh
  <2> QED
    BY <1>2, <1>6, <1>8, <1>9, <1>11, <2>1
<1>12. CASE x1 = y1 /\ x2 = y2 /\ x3 < y3
  BY <1>2, <1>6, <1>8, <1>9, <1>12
<1>13. \/ x1 < y1
       \/ x1 = y1 /\ x2 < y2
       \/ x1 = y1 /\ x2 = y2 /\ x3 < y3
       \/ x1 = y1 /\ x2 = y2 /\ x3 = y3 /\ Len(y) > 3
  <2>1. CASE d = 1
    BY <1>1, <1>7, <2>1
  <2>2. CASE d = 2
    BY <1>1, <1>7, <2>2
  <2>3. CASE d = 3
    BY <1>1, <1>7, <2>3
  <2>4. CASE d > 3
    BY <1>1, <1>2, <1>7, <2>4
  <2> QED
    BY <1>2, <2>1, <2>2, <2>3, <2>4
<1>14. CASE x1 = y1 /\ x2 = y2 /\ x3 = y3 /\ Len(y) > 3
  <2>1. Value(x) = Value(y) /\ Value(y) \in Int
    BY <1>2, <1>6, <1>9, <1>14
  <2> QED
    BY <1>2, <1>14, <2>1
<1>15. Value(x) \in Int /\ Value(y) \in Int
  BY <1>2, <1>6, <1>9
<1> QED
  BY <1>10, <1>11, <1>12, <1>13, <1>14, <1>15

(***************************************************************************)
(* A release that follows another with nobody looking has the greater      *)
(* epoch, or the same epoch and no lesser value when its first three parts *)
(* are read as the digits of one number, and the greater value where       *)
(* neither has a fourth: what compareVersions reads part by part, until    *)
(* the first that differs, is the order of the numbers.                    *)
(***************************************************************************)
THEOREM ValueRises ==
  ASSUME NoDifferenceWraps
  PROVE  Spec => []FollowsByValue
<1>1. ASSUME ServedAlways
      PROVE  FollowsByValue
  <2>1. served \in Seq(Text) /\ Len(served) \in Nat
    BY <1>1 DEF ServedAlways
  <2>2. ASSUME NEW i \in 1 .. (Len(served) - 1), NEW a, NEW b,
               a = Split(served[i]), b = Split(served[i + 1])
        PROVE  \/ a.epoch < b.epoch
               \/ /\ a.epoch = b.epoch
                  /\ Value(a.spine) <= Value(b.spine)
                  /\ Len(a.spine) <= 3 /\ Len(b.spine) <= 3 => Value(a.spine) < Value(b.spine)
    <3>1. /\ i \in 1 .. Len(served) /\ i + 1 \in 1 .. Len(served) /\ i < i + 1
          /\ served[i] \in Text /\ served[i + 1] \in Text
      BY <2>1
    <3>2. After(a, b)
      BY <1>1, <2>2, <3>1 DEF ServedAlways
    <3>3. IsSpine(a.spine) /\ IsSpine(b.spine)
      BY <2>2, <3>1, SplitIs
    <3> QED
      BY <3>2, <3>3, RisesByValue DEF After
  <2> QED
    BY <2>2 DEF FollowsByValue
<1>2. ServedAlways => FollowsByValue
  BY <1>1
<1> QED
  BY <1>2, Served, PTL
=============================================================================

--------------------------- MODULE CatalogueProofs ---------------------------
(***************************************************************************)
(* Theorems about Catalogue, for any finite catalogue, any accounts,       *)
(* builds and seed files, and however often the server stops and starts.   *)
(***************************************************************************)
EXTENDS Catalogue, FiniteSetTheorems, TLAPS

-----------------------------------------------------------------------------
(* Sequences made of sets.                                                 *)

\* A finite set as a sequence: its elements are those of the set.
LEMMA SequenceOfSet ==
  ASSUME NEW S, IsFiniteSet(S), NEW T, S \subseteq T
  PROVE  SetToSeq(S) \in Seq(T) /\ Range(SetToSeq(S)) = S
<1> DEFINE n == Cardinality(S)
<1>1. n \in Nat /\ ExistsBijection(1 .. n, S)
  BY FS_CardinalityType
<1>2. \E f \in [1 .. n -> S] : IsInjective(f)
  BY <1>1 DEF ExistsBijection, Bijection, Injection
<1>3. SetToSeq(S) \in [1 .. n -> S] /\ IsInjective(SetToSeq(S))
  BY <1>2 DEF SetToSeq
<1>4. SetToSeq(S) \in Injection(1 .. n, S)
  BY <1>3 DEF Injection
<1>5. Cardinality(1 .. n) = n
  BY <1>1, FS_Interval
<1>6. SetToSeq(S) \in Surjection(1 .. n, S)
  BY <1>4, <1>5, FS_Injection
<1>7. Range(SetToSeq(S)) = S
  BY <1>6 DEF Surjection, Range
<1>8. SetToSeq(S) \in [1 .. n -> T]
  BY <1>3
<1> QED
  BY <1>1, <1>7, <1>8

LEMMA EntryType ==
  ASSUME NEW act \in {"claim", "publish", "supersede", "approve", "reject", "delist", "relist"},
         NEW version \in Versions \cup {None},
         NEW note \in Reasons \cup {"pending", "approved", None}
  PROVE  /\ Entry(act, version, note) \in AuditRow
         /\ Entry(act, version, note).act = act
         /\ Entry(act, version, note).version = version
         /\ Entry(act, version, note).note = note
BY DEF Entry, AuditRow

\* The releases a publish retires before anybody looked at them, as audit rows.
LEMMA RetirementsAre ==
  ASSUME TypeOK, NEW p \in Plugins
  PROVE  /\ Retirements(p) \in Seq(AuditRow)
         /\ Range(Retirements(p)) =
              {Entry("supersede", v, None) : v \in {w \in Versions : state[<<p, w>>] = "pending"}}
<1> DEFINE W == {w \in Versions : state[<<p, w>>] = "pending"}
           S == {Entry("supersede", v, None) : v \in W}
           f == [v \in W |-> Entry("supersede", v, None)]
<1>1. IsFiniteSet(W)
  <2>1. W \in SUBSET Versions
    OBVIOUS
  <2> QED
    BY <2>1, FS_Subset, CatalogueAssumption
<1>2. f \in Surjection(W, S)
  BY DEF Surjection
<1>3. IsFiniteSet(S)
  BY <1>1, <1>2, FS_Surjection
<1>4. S \subseteq AuditRow
  <2>1. ASSUME NEW v \in W PROVE Entry("supersede", v, None) \in AuditRow
    <3>1. v \in Versions \cup {None}
      OBVIOUS
    <3> QED
      BY <3>1, EntryType
  <2> QED
    BY <2>1
<1>5. Retirements(p) = SetToSeq(S)
  BY DEF Retirements
<1>6. SetToSeq(S) \in Seq(AuditRow) /\ Range(SetToSeq(S)) = S
  <2> HIDE DEF S
  <2> QED
    BY <1>3, <1>4, SequenceOfSet
<1> QED
  BY <1>5, <1>6

-----------------------------------------------------------------------------
(* What a step does to one plugin.                                         *)

\* The retired, the one that moves, and the rest.
LEMMA MoveIs ==
  ASSUME TypeOK, NEW p \in Plugins, NEW v \in Versions, NEW new \in Life!Standing, NEW old,
         Life!Move(p, v, new, old)
  PROVE  /\ state' \in [Plugins \X Versions -> Life!Standing]
         /\ state'[<<p, v>>] = new
         /\ \A w \in Versions : w # v =>
              state'[<<p, w>>] = IF state[<<p, w>>] \in old THEN "superseded"
                                                           ELSE state[<<p, w>>]
         /\ \A q \in Plugins, w \in Versions : q # p => state'[<<q, w>>] = state[<<q, w>>]
<1>1. state' = [id \in Plugins \X Versions |->
                  IF id = <<p, v>> THEN new
                  ELSE IF id[1] = p /\ state[id] \in old THEN "superseded"
                  ELSE state[id]]
  BY DEF Life!Move, Life!Names
<1>2. state' \in [Plugins \X Versions -> Life!Standing]
  BY <1>1 DEF TypeOK, Life!Standing
<1>3. \A q \in Plugins, w \in Versions :
        <<q, w>> \in Plugins \X Versions /\ <<q, w>>[1] = q
        /\ (<<q, w>> = <<p, v>> <=> q = p /\ w = v)
  OBVIOUS
<1> QED
  BY <1>1, <1>2, <1>3

StateKept(p) == \A v \in Versions : state'[<<p, v>>] = state[<<p, v>>]

\* Nothing that anybody reads of p.
Quiet(p) ==
  /\ UNCHANGED <<trail[p], delisted[p]>>
  /\ StateKept(p)

Recorded(p, rows) == trail'[p] = trail[p] \o rows

Claimed(p) ==
  /\ p \notin claimed
  /\ Recorded(p, <<Entry("claim", None, None)>>)
  /\ UNCHANGED delisted[p] /\ StateKept(p)

Submitted(p, v) ==
  /\ p \in claimed
  /\ \/ /\ Life!Wait(p, v)
        /\ Recorded(p, Retirements(p) \o <<Entry("publish", v, "pending")>>)
     \/ /\ Life!GoLive(p, v)
        /\ Recorded(p, Retirements(p) \o <<Entry("publish", v, "approved")>>)
  /\ UNCHANGED delisted[p]

Decided(p, v) ==
  /\ p \in claimed
  /\ \/ Life!Approve(p, v) /\ Recorded(p, <<Entry("approve", v, None)>>)
     \/ Life!Reject(p, v)  /\ Recorded(p, <<Entry("reject", v, None)>>)
  /\ UNCHANGED delisted[p]

PutAway(p, reason) ==
  /\ Delistable(p)
  /\ delisted'[p] = reason
  /\ Recorded(p, <<Entry("delist", LiveVersion(p), reason)>>)
  /\ StateKept(p)

PutBack(p) ==
  /\ p \in claimed /\ delisted[p] # None
  /\ delisted'[p] = None
  /\ Recorded(p, <<Entry("relist", None, delisted[p])>>)
  /\ StateKept(p)

\* What requests do to the plugin they are about.
Moved(p) ==
  \/ Claimed(p)
  \/ \E v \in Versions : Submitted(p, v) \/ Decided(p, v)
  \/ \E reason \in Reasons : PutAway(p, reason)
  \/ PutBack(p)

\* Holders come and go, or pages are read, or a process starts and stops.
Idle == UNCHANGED <<delisted, state, imports, trail>>

\* A catalogue is imported into a database without one.
Imports ==
  /\ process = "migrated"
  /\ ~Skip /\ seed.clean
  /\ process' = "serving"
  /\ claimed' = claimed \cup {x[1] : x \in Brought}
  /\ state' = [id \in DOMAIN state |-> IF id \in Brought THEN "approved" ELSE state[id]]
  /\ imports' = Append(imports, [found |-> claimed, brought |-> Brought])
  /\ UNCHANGED <<binary, schema, delisted, holders, trail, page>>

\* A request changes one plugin.
Changes(p) ==
  /\ process = "serving"
  /\ UNCHANGED <<boot, imports, page>>
  /\ Moved(p)
  /\ \A q \in Plugins : q # p => Quiet(q)
  /\ claimed \subseteq claimed'
  /\ claimed' \subseteq claimed \cup {p} /\ p \in claimed'
  /\ delisted' \in [Plugins -> Reasons \cup {None}]
  /\ state' \in [Plugins \X Versions -> Life!Standing]
  /\ trail' \in [Plugins -> Seq(AuditRow)]

\* The rows about one plugin grow.
LEMMA RecordIs ==
  ASSUME TypeOK, NEW p \in Plugins, NEW rows \in Seq(AuditRow), Record(p, rows)
  PROVE  /\ Recorded(p, rows)
         /\ \A q \in Plugins : q # p => UNCHANGED trail[q]
         /\ trail' \in [Plugins -> Seq(AuditRow)]
<1>1. trail' = [trail EXCEPT ![p] = trail[p] \o rows]
  BY DEF Record
<1>2. trail[p] \o rows \in Seq(AuditRow)
  BY DEF TypeOK
<1> QED
  BY <1>1, <1>2 DEF TypeOK, Recorded

LEMMA OneRow == \A row \in AuditRow : <<row>> \in Seq(AuditRow)
OBVIOUS

LEMMA LiveVersionIs ==
  ASSUME NEW p
  PROVE  LiveVersion(p) \in Versions \cup {None}
<1>1. Live(p) \subseteq Versions
  BY DEF Live
<1>2. ASSUME NEW S, S # {} PROVE OneOf(S) \in S
  <2>1. (CHOOSE v \in S : TRUE) \in S
    BY <1>2
  <2> QED
    BY <1>2, <2>1 DEF OneOf
<1>3. OneOf({}) = None
  BY DEF OneOf
<1> QED
  BY <1>1, <1>2, <1>3 DEF LiveVersion

LEMMA ClaimChanges ==
  ASSUME TypeOK, NEW p \in Plugins, NEW a \in Accounts, Claim(p, a)
  PROVE  Changes(p)
<1>1. <<Entry("claim", None, None)>> \in Seq(AuditRow)
  BY EntryType, OneRow
<1>2. /\ Recorded(p, <<Entry("claim", None, None)>>)
      /\ \A q \in Plugins : q # p => UNCHANGED trail[q]
      /\ trail' \in [Plugins -> Seq(AuditRow)]
  BY <1>1, RecordIs DEF Claim
<1>3. UNCHANGED <<delisted, state>> /\ p \notin claimed /\ claimed' = claimed \cup {p}
  BY DEF Claim
<1>4. Claimed(p)
  BY <1>2, <1>3 DEF Claimed, StateKept
<1>5. \A q \in Plugins : q # p => Quiet(q)
  BY <1>2, <1>3 DEF Quiet, StateKept
<1>6. process = "serving" /\ UNCHANGED <<boot, imports, page>>
  BY DEF Claim, Serving
<1> QED
  BY <1>2, <1>3, <1>4, <1>5, <1>6 DEF Changes, Moved, TypeOK

LEMMA SubmitChanges ==
  ASSUME TypeOK, NEW p \in Plugins, NEW v \in Versions, Submit(p, v)
  PROVE  Changes(p)
<1>1. p \in claimed /\ UNCHANGED <<claimed, delisted>>
  BY DEF Submit, TypeOK
<1>2. PICK new \in {"pending", "approved"} :
        /\ \/ new = "pending" /\ Life!Wait(p, v)
           \/ new = "approved" /\ Life!GoLive(p, v)
        /\ Record(p, Retirements(p) \o <<Entry("publish", v, new)>>)
  BY DEF Submit
<1>3. Retirements(p) \o <<Entry("publish", v, new)>> \in Seq(AuditRow)
  <2>1. <<Entry("publish", v, new)>> \in Seq(AuditRow)
    BY EntryType, OneRow
  <2>2. Retirements(p) \in Seq(AuditRow)
    BY RetirementsAre
  <2> QED
    BY <2>1, <2>2
<1>4. /\ Recorded(p, Retirements(p) \o <<Entry("publish", v, new)>>)
      /\ \A q \in Plugins : q # p => UNCHANGED trail[q]
      /\ trail' \in [Plugins -> Seq(AuditRow)]
  BY <1>2, <1>3, RecordIs
<1>5. \E old : Life!Move(p, v, new, old)
  BY <1>2 DEF Life!Wait, Life!GoLive
<1>6. /\ state' \in [Plugins \X Versions -> Life!Standing]
      /\ \A q \in Plugins, w \in Versions : q # p => state'[<<q, w>>] = state[<<q, w>>]
  <2>1. new \in Life!Standing
    BY DEF Life!Standing
  <2> QED
    BY <1>5, <2>1, MoveIs
<1>7. Submitted(p, v)
  BY <1>1, <1>2, <1>4 DEF Submitted
<1>8. \A q \in Plugins : q # p => Quiet(q)
  BY <1>1, <1>4, <1>6 DEF Quiet, StateKept
<1>9. process = "serving" /\ UNCHANGED <<boot, imports, page>>
  BY DEF Submit, Serving
<1> QED
  BY <1>1, <1>4, <1>6, <1>7, <1>8, <1>9 DEF Changes, Moved, TypeOK

LEMMA DecideChanges ==
  ASSUME TypeOK, NEW p \in Plugins, NEW v \in Versions, Decide(p, v)
  PROVE  Changes(p)
<1>1. UNCHANGED <<claimed, delisted>>
  BY DEF Decide
<1>2. PICK act \in {"approve", "reject"} :
        /\ \/ act = "approve" /\ Life!Approve(p, v)
           \/ act = "reject" /\ Life!Reject(p, v)
        /\ Record(p, <<Entry(act, v, None)>>)
  BY DEF Decide
<1>3. p \in claimed
  BY <1>2 DEF Life!Approve, Life!Reject, TypeOK
<1>4. <<Entry(act, v, None)>> \in Seq(AuditRow)
  BY EntryType, OneRow
<1>5. /\ Recorded(p, <<Entry(act, v, None)>>)
      /\ \A q \in Plugins : q # p => UNCHANGED trail[q]
      /\ trail' \in [Plugins -> Seq(AuditRow)]
  BY <1>2, <1>4, RecordIs
<1>6. \E new \in {"approved", "rejected"} : \E old : Life!Move(p, v, new, old)
  BY <1>2 DEF Life!Approve, Life!Reject
<1>7. /\ state' \in [Plugins \X Versions -> Life!Standing]
      /\ \A q \in Plugins, w \in Versions : q # p => state'[<<q, w>>] = state[<<q, w>>]
  <2>1. {"approved", "rejected"} \subseteq Life!Standing
    BY DEF Life!Standing
  <2> QED
    BY <1>6, <2>1, MoveIs
<1>8. Decided(p, v)
  BY <1>1, <1>2, <1>3, <1>5 DEF Decided
<1>9. \A q \in Plugins : q # p => Quiet(q)
  BY <1>1, <1>5, <1>7 DEF Quiet, StateKept
<1>10. process = "serving" /\ UNCHANGED <<boot, imports, page>>
  BY DEF Decide, Serving
<1> QED
  BY <1>1, <1>3, <1>5, <1>7, <1>8, <1>9, <1>10 DEF Changes, Moved, TypeOK

LEMMA DelistChanges ==
  ASSUME TypeOK, NEW p \in Plugins, NEW reason \in Reasons, Delist(p, reason)
  PROVE  Changes(p)
<1>1. <<Entry("delist", LiveVersion(p), reason)>> \in Seq(AuditRow)
  BY EntryType, OneRow, LiveVersionIs
<1>2. /\ Recorded(p, <<Entry("delist", LiveVersion(p), reason)>>)
      /\ \A q \in Plugins : q # p => UNCHANGED trail[q]
      /\ trail' \in [Plugins -> Seq(AuditRow)]
  BY <1>1, RecordIs DEF Delist
<1>3. /\ UNCHANGED <<claimed, state>> /\ Delistable(p)
      /\ delisted' = [delisted EXCEPT ![p] = reason]
  BY DEF Delist
<1>4. /\ delisted' \in [Plugins -> Reasons \cup {None}]
      /\ delisted'[p] = reason
      /\ \A q \in Plugins : q # p => delisted'[q] = delisted[q]
  BY <1>3 DEF TypeOK
<1>5. PutAway(p, reason)
  BY <1>2, <1>3, <1>4 DEF PutAway, StateKept
<1>6. \A q \in Plugins : q # p => Quiet(q)
  BY <1>2, <1>3, <1>4 DEF Quiet, StateKept
<1>7. process = "serving" /\ UNCHANGED <<boot, imports, page>> /\ p \in claimed
  BY <1>3 DEF Delist, Serving, Delistable
<1> QED
  BY <1>2, <1>3, <1>4, <1>5, <1>6, <1>7 DEF Changes, Moved, TypeOK

LEMMA RelistChanges ==
  ASSUME TypeOK, NEW p \in Plugins, Relist(p)
  PROVE  Changes(p)
<1>1. /\ UNCHANGED <<claimed, state>> /\ delisted[p] # None
      /\ delisted' = [delisted EXCEPT ![p] = None]
  BY DEF Relist
<1>2. p \in claimed /\ delisted[p] \in Reasons
  BY <1>1 DEF TypeOK
<1>3. <<Entry("relist", None, delisted[p])>> \in Seq(AuditRow)
  BY <1>2, EntryType, OneRow
<1>4. /\ Recorded(p, <<Entry("relist", None, delisted[p])>>)
      /\ \A q \in Plugins : q # p => UNCHANGED trail[q]
      /\ trail' \in [Plugins -> Seq(AuditRow)]
  BY <1>3, RecordIs DEF Relist
<1>5. /\ delisted' \in [Plugins -> Reasons \cup {None}]
      /\ delisted'[p] = None
      /\ \A q \in Plugins : q # p => delisted'[q] = delisted[q]
  BY <1>1 DEF TypeOK
<1>6. PutBack(p)
  BY <1>1, <1>2, <1>4, <1>5 DEF PutBack, StateKept
<1>7. \A q \in Plugins : q # p => Quiet(q)
  BY <1>1, <1>4, <1>5 DEF Quiet, StateKept
<1>8. process = "serving" /\ UNCHANGED <<boot, imports, page>>
  BY DEF Relist, Serving
<1> QED
  BY <1>1, <1>2, <1>4, <1>5, <1>6, <1>7, <1>8 DEF Changes, Moved, TypeOK

LEMMA EveryStep ==
  ASSUME TypeOK, [Next]_vars
  PROVE  Idle \/ Imports \/ \E p \in Plugins : Changes(p)
<1>1. ASSUME NEW p \in Plugins, NEW a \in Accounts, Claim(p, a) \/ HoldersChange(p, a)
      PROVE  Idle \/ Changes(p)
  BY <1>1, ClaimChanges DEF HoldersChange, Idle
<1>2. ASSUME NEW p \in Plugins, NEW v \in Versions, Submit(p, v) \/ Decide(p, v)
      PROVE  Changes(p)
  BY <1>2, SubmitChanges, DecideChanges
<1>3. CASE Moderate
  BY <1>3, DelistChanges, RelistChanges DEF Moderate
<1>4. CASE Show
  BY <1>4 DEF Show, OpenPage, ReadNext, Send, table, Idle
<1>5. CASE BootStep
  BY <1>5 DEF BootStep, Start, OpenDatabase, Migrate, ImportSeed, Stop, MigrateCommand,
     Boot, table, Idle, Imports
<1>6. CASE UNCHANGED vars
  BY <1>6 DEF vars, table, Idle
<1> QED
  BY <1>1, <1>2, <1>3, <1>4, <1>5, <1>6 DEF Next

-----------------------------------------------------------------------------
(* Types, and what a server serves.                                        *)

LEMMA HoldersStep ==
  ASSUME TypeOK, [Next]_vars
  PROVE  /\ holders' \in [Plugins -> SUBSET Accounts]
         /\ \A p \in Plugins : holders[p] # {} => holders'[p] # {}
         /\ \A p \in Plugins \ claimed' : holders'[p] = {}
         /\ claimed \subseteq claimed' /\ claimed' \subseteq Plugins
<1>0. holders \in [Plugins -> SUBSET Accounts]
  BY DEF TypeOK
<1>1. ASSUME NEW p \in Plugins, NEW a \in Accounts, Holding!Grant(p, a) \/ Holding!Revoke(p, a)
      PROVE  /\ holders' \in [Plugins -> SUBSET Accounts]
             /\ \A q \in Plugins : holders[q] # {} => holders'[q] # {}
             /\ \A q \in Plugins : q # p => holders'[q] = holders[q]
  <2>1. CASE Holding!Grant(p, a)
    BY <1>0, <2>1 DEF Holding!Grant
  <2>2. CASE Holding!Revoke(p, a)
    <3>1. holders' = [holders EXCEPT ![p] = holders[p] \ {a}] /\ holders[p] # {a}
          /\ a \in holders[p]
      BY <2>2 DEF Holding!Revoke
    <3>2. holders[p] \ {a} # {}
      BY <3>1
    <3> QED
      BY <1>0, <3>1, <3>2
  <2> QED
    BY <1>1, <2>1, <2>2
<1>2. ASSUME NEW p \in Plugins, NEW a \in Accounts, Claim(p, a) \/ HoldersChange(p, a)
      PROVE  /\ claimed \subseteq claimed' /\ claimed' \subseteq Plugins /\ p \in claimed'
             /\ Holding!Grant(p, a) \/ Holding!Revoke(p, a)
  BY <1>2 DEF Claim, HoldersChange, TypeOK
<1>3. ASSUME NEW p \in Plugins, NEW v \in Versions, Submit(p, v) \/ Decide(p, v)
      PROVE  UNCHANGED <<claimed, holders>>
  BY <1>3 DEF Submit, Decide
<1>4. CASE Moderate
  BY <1>4 DEF Moderate, Delist, Relist, TypeOK
<1>5. CASE Show \/ UNCHANGED vars
  BY <1>5 DEF Show, OpenPage, ReadNext, Send, table, vars, TypeOK
<1>6. CASE BootStep
  <2>1. CASE Imports
    <3>1. {x[1] : x \in Brought} \subseteq Plugins
      <4>1. \A x \in Brought : x \in Plugins \X Versions
        BY CatalogueAssumption DEF Brought, TypeOK, Seed
      <4> QED
        BY <4>1
    <3> QED
      BY <2>1, <3>1 DEF Imports, TypeOK
  <2>2. CASE UNCHANGED <<claimed, holders>>
    BY <2>2 DEF TypeOK
  <2> QED
    BY <1>6, <2>1, <2>2 DEF BootStep, Start, OpenDatabase, Migrate, ImportSeed, Stop,
       MigrateCommand, Boot, table, Imports
<1>7. ASSUME NEW p \in Plugins, NEW a \in Accounts, Claim(p, a) \/ HoldersChange(p, a)
      PROVE  \A q \in Plugins \ claimed' : holders'[q] = {}
  BY <1>1, <1>2, <1>7 DEF TypeOK
<1> QED
  BY <1>1, <1>2, <1>3, <1>4, <1>5, <1>6, <1>7 DEF Next, TypeOK

\* What the process does.
LEMMA BootTyped ==
  ASSUME TypeOK, [Next]_vars
  PROVE  /\ process' \in Phases
         /\ binary' \in Binaries /\ schema' \in Nat /\ overtaken' \in BOOLEAN
         /\ seed' \in Seeds \cup {None}
<1>0. /\ process \in Phases /\ binary \in Binaries /\ schema \in Nat
      /\ overtaken \in BOOLEAN /\ seed \in Seeds \cup {None}
  BY DEF TypeOK
<1>1. CASE BootStep
  <2>1. /\ process' \in Phases
        /\ binary' \in Binaries /\ schema' \in Nat
        /\ seed' \in Seeds \cup {None}
    BY <1>0, <1>1 DEF BootStep, Start, OpenDatabase, Migrate, ImportSeed, Stop,
       MigrateCommand, Boot, Phases
  <2>2. \/ overtaken' \in {FALSE, overtaken}
        \/ overtaken' = (overtaken \/ (Compared /\ schema' > binary))
    BY <1>1 DEF BootStep, Start, OpenDatabase, Migrate, ImportSeed, Stop, MigrateCommand
  <2>3. overtaken' \in BOOLEAN
    BY <1>0, <2>2, Zenon
  <2> QED
    BY <2>1, <2>3
<1>2. CASE UNCHANGED boot
  BY <1>0, <1>2 DEF boot
<1> QED
  BY <1>1, <1>2 DEF Next, Claim, HoldersChange, Submit, Decide, Moderate, Delist, Relist,
     Serving, Show, OpenPage, ReadNext, Send, vars

LEMMA NextTypeOK ==
  ASSUME TypeOK, [Next]_vars
  PROVE  TypeOK'
<1>1. /\ delisted' \in [Plugins -> Reasons \cup {None}]
      /\ state' \in [Plugins \X Versions -> Life!Standing]
      /\ trail' \in [Plugins -> Seq(AuditRow)]
  <2>1. CASE Idle
    BY <2>1 DEF Idle, TypeOK
  <2>2. CASE Imports
    BY <2>2 DEF Imports, TypeOK, Life!Standing
  <2>3. CASE \E p \in Plugins : Changes(p)
    BY <2>3 DEF Changes
  <2> QED
    BY <2>1, <2>2, <2>3, EveryStep
<1>2. ASSUME NEW q \in Plugins \ claimed'
      PROVE  /\ delisted'[q] = None /\ trail'[q] = <<>>
             /\ \A v \in Versions : state'[<<q, v>>] = "absent"
  <2>1. q \notin claimed
    BY HoldersStep
  <2>2. /\ delisted[q] = None /\ trail[q] = <<>>
        /\ \A v \in Versions : state[<<q, v>>] = "absent"
    BY <2>1 DEF TypeOK
  <2>3. CASE Idle
    BY <2>2, <2>3 DEF Idle
  <2>4. CASE Imports
    <3>1. \A v \in Versions : <<q, v>> \notin Brought
      <4>1. \A v \in Versions : <<q, v>>[1] = q
        OBVIOUS
      <4> QED
        BY <2>4, <4>1 DEF Imports
    <3> QED
      BY <2>2, <2>4, <3>1 DEF Imports, TypeOK
  <2>5. ASSUME NEW p \in Plugins, Changes(p)
        PROVE  Quiet(q)
    BY <2>5 DEF Changes
  <2>6. CASE \E p \in Plugins : Changes(p)
    BY <2>2, <2>5, <2>6 DEF Quiet, StateKept
  <2> QED
    BY <2>3, <2>4, <2>6, EveryStep
<1> QED
  BY <1>1, <1>2, HoldersStep, BootTyped DEF TypeOK

LEMMA InitTypeOK == Init => TypeOK
<1> SUFFICES ASSUME Init PROVE TypeOK
  OBVIOUS
<1>1. overtaken \in BOOLEAN
  BY DEF Init
<1>2. /\ delisted \in [Plugins -> Reasons \cup {None}]
      /\ state \in [Plugins \X Versions -> Life!Standing]
      /\ holders \in [Plugins -> SUBSET Accounts]
      /\ trail \in [Plugins -> Seq(AuditRow)]
  BY DEF Init, Life!Standing
<1>3. process \in Phases /\ binary \in Binaries /\ schema \in Nat /\ seed \in Seeds \cup {None}
  BY DEF Init, Phases
<1>4. ASSUME NEW p \in Plugins \ claimed
      PROVE  /\ delisted[p] = None /\ holders[p] = {} /\ trail[p] = <<>>
             /\ \A v \in Versions : state[<<p, v>>] = "absent"
  BY DEF Init
<1>5. claimed \subseteq Plugins
  BY DEF Init
<1> QED
  BY <1>1, <1>2, <1>3, <1>4, <1>5 DEF TypeOK

(***************************************************************************)
(* Every table has its type, and nothing belongs to a plugin that is not   *)
(* claimed: no release, no owner, no delisting and no audit row.           *)
(***************************************************************************)
THEOREM TypeCorrect == Spec => []TypeOK
<1>1. Init => TypeOK
  BY InitTypeOK
<1>2. TypeOK /\ [Next]_vars => TypeOK'
  BY NextTypeOK
<1> QED
  BY <1>1, <1>2, PTL DEF Spec

\* From the comparison on, the schema passes the build only by a command, and never goes back.
SchemaInv ==
  /\ Compared => (schema > binary => overtaken)
  /\ process \in {"migrated", "serving"} => schema >= binary

LEMMA NextSchemaInv ==
  ASSUME TypeOK, SchemaInv, [Next]_vars
  PROVE  SchemaInv'
<1>0. binary \in Nat /\ schema \in Nat
  BY CatalogueAssumption DEF TypeOK
<1>1. CASE Migrate
  <2>1. ~SchemaAhead => schema <= binary
    BY <1>0 DEF SchemaAhead
  <2>2. CASE process = "opened"
    BY <1>0, <1>1, <2>1, <2>2 DEF Migrate, Boot, SchemaInv, Compared
  <2>3. CASE process = "migrating"
    BY <1>0, <1>1, <2>3 DEF Migrate, Boot, SchemaInv, Compared
  <2> QED
    BY <1>1, <2>2, <2>3 DEF Migrate
<1>2. ASSUME NEW b \in Binaries, MigrateCommand(b)
      PROVE  SchemaInv'
  <2>1. /\ overtaken => overtaken'
        /\ Compared /\ schema' > binary => overtaken'
    BY <1>2, Zenon DEF MigrateCommand
  <2>2. process' = process /\ binary' = binary /\ schema' = schema + 1
    BY <1>2 DEF MigrateCommand
  <2>3. (Compared => (schema > binary => overtaken))'
    BY <2>1, <2>2, Zenon DEF Compared
  <2> QED
    BY <1>0, <2>2, <2>3 DEF SchemaInv
<1>3. ASSUME NEW b \in Binaries, NEW file \in Seeds \cup {None}, Start(b, file)
      PROVE  SchemaInv'
  BY <1>3 DEF Start, Boot, SchemaInv, Compared
<1>4. CASE OpenDatabase \/ Stop
  BY <1>4 DEF OpenDatabase, Stop, Boot, SchemaInv, Compared
<1>5. CASE ImportSeed
  BY <1>5 DEF ImportSeed, Boot, SchemaInv, Compared
<1>6. CASE UNCHANGED boot
  BY <1>6 DEF boot, SchemaInv, Compared
<1> QED
  BY <1>1, <1>2, <1>3, <1>4, <1>5, <1>6 DEF Next, BootStep, Claim, HoldersChange, Submit,
     Decide, Moderate, Delist, Relist, Serving, Show, OpenPage, ReadNext, Send, vars

(***************************************************************************)
(* A server that is up has every migration of its build, and is on a newer *)
(* schema only where a command took the database there after the boot had  *)
(* compared the two (ErrSchemaAhead): whatever builds there are, however   *)
(* often boots die between migrations and whatever commands run beside.    *)
(***************************************************************************)
THEOREM TheSchemaIsServed == Spec => []ServesItsSchema
<1>1. Init => SchemaInv
  BY DEF Init, SchemaInv, Compared
<1>2. TypeOK /\ SchemaInv /\ [Next]_vars => SchemaInv'
  BY NextSchemaInv
<1>3. SchemaInv => ServesItsSchema
  BY DEF SchemaInv, ServesItsSchema, Compared
<1> QED
  BY <1>1, <1>2, <1>3, TypeCorrect, PTL DEF Spec

-----------------------------------------------------------------------------
(* A catalogue is imported once.                                           *)

\* What the seed file brings is a catalogue: releases, one for each plugin.
LEMMA BroughtIs ==
  ASSUME TypeOK
  PROVE  /\ Brought \subseteq Plugins \X Versions
         /\ \A x, y \in Brought : x[1] = y[1] => x = y
BY CatalogueAssumption DEF Brought, TypeOK, Seed

\* A release that is there does not go away.
LEMMA NothingVanishes ==
  ASSUME TypeOK, [Next]_vars, NEW p \in Plugins, NEW v \in Versions, state[<<p, v>>] # "absent"
  PROVE  state'[<<p, v>>] # "absent"
<1>1. CASE Idle \/ Quiet(p)
  BY <1>1 DEF Idle, Quiet, StateKept
<1>2. CASE Imports
  BY <1>2 DEF Imports, TypeOK
<1>3. CASE Moved(p)
  <2>1. ASSUME NEW w \in Versions, NEW new \in {"pending", "approved", "rejected"}, NEW old,
               Life!Move(p, w, new, old)
        PROVE  state'[<<p, v>>] # "absent"
    <3>1. new \in Life!Standing
      BY DEF Life!Standing
    <3> QED
      BY <2>1, <3>1, MoveIs
  <2>2. CASE \E w \in Versions : Submitted(p, w) \/ Decided(p, w)
    BY <2>1, <2>2 DEF Submitted, Decided, Life!Wait, Life!GoLive, Life!Approve, Life!Reject
  <2>3. CASE StateKept(p)
    BY <2>3 DEF StateKept
  <2> QED
    BY <1>3, <2>2, <2>3 DEF Moved, Claimed, PutAway, PutBack
<1> QED
  BY <1>1, <1>2, <1>3, EveryStep DEF Changes

\* The catalogue that was imported, if one was.
Catalogued(B) ==
  /\ B \subseteq Plugins \X Versions
  /\ \A x, y \in B : x[1] = y[1] => x = y
  /\ \A x \in B : x[1] \in claimed /\ state[x] # "absent"
  /\ imports = IF B = {} THEN <<>> ELSE <<[found |-> {}, brought |-> B]>>

LEMMA CataloguedStep ==
  ASSUME TypeOK, [Next]_vars, NEW B, Catalogued(B)
  PROVE  \/ /\ Imports /\ B = {} /\ claimed = {}
            /\ \E C : C = Brought /\ C # {} /\ Catalogued(C)'
         \/ ~Imports /\ Catalogued(B)' /\ UNCHANGED imports
<1>1. \A x \in B : x[1] \in claimed' /\ state'[x] # "absent"
  <2> SUFFICES ASSUME NEW x \in B PROVE x[1] \in claimed' /\ state'[x] # "absent"
    OBVIOUS
  <2>1. PICK p \in Plugins, v \in Versions : x = <<p, v>>
    BY DEF Catalogued
  <2>2. state[<<p, v>>] # "absent" /\ x[1] \in claimed
    BY <2>1 DEF Catalogued
  <2> QED
    BY <2>1, <2>2, NothingVanishes, HoldersStep
<1>2. CASE ~Imports
  <2>1. UNCHANGED imports
    BY <1>2, EveryStep DEF Idle, Changes
  <2> QED
    BY <1>1, <1>2, <2>1 DEF Catalogued
<1>3. CASE Imports
  <2>1. claimed = {} /\ imports = <<>> /\ Brought # {}
    <3>1. claimed = {} /\ ~(Len(imports) > 0) /\ Brought # {}
      BY <1>3 DEF Imports, Skip
    <3>2. B = {}
      BY <3>1 DEF Catalogued
    <3> QED
      BY <3>1, <3>2 DEF Catalogued
  <2>2. B = {}
    BY <2>1 DEF Catalogued
  <2>3. imports' = <<[found |-> {}, brought |-> Brought]>>
    BY <1>3, <2>1 DEF Imports
  <2>4. \A x \in Brought : x[1] \in claimed' /\ state'[x] = "approved"
    BY <1>3, BroughtIs DEF Imports, TypeOK
  <2>5. PICK C : C = Brought
    OBVIOUS
  <2>6. Catalogued(C)'
    BY <2>1, <2>3, <2>4, <2>5, BroughtIs DEF Catalogued
  <2> QED
    BY <1>3, <2>1, <2>2, <2>5, <2>6
<1> QED
  BY <1>2, <1>3

(***************************************************************************)
(* A catalogue is imported once, into a database that has none: no boot    *)
(* imports over an id that somebody claimed or a release that was made     *)
(* since, whatever file it finds mounted, and however many boots there are.*)
(***************************************************************************)
THEOREM TheImportComesFirst == Spec => []ImportComesFirst
<1> DEFINE Once == \E B : Catalogued(B)
<1>1. Init => Once
  <2>1. Init => Catalogued({})
    BY DEF Init, Catalogued
  <2> QED
    BY <2>1
<1>2. TypeOK /\ Once /\ [Next]_vars => Once'
  BY CataloguedStep
<1>3. Once => ImportComesFirst
  <2> SUFFICES ASSUME NEW B, Catalogued(B) PROVE ImportComesFirst
    OBVIOUS
  <2>1. CASE B = {}
    <3>1. imports = <<>> /\ Len(imports) = 0 /\ DOMAIN imports = {}
      BY <2>1 DEF Catalogued
    <3> QED
      BY <3>1 DEF ImportComesFirst
  <2>2. CASE B # {}
    <3>1. imports = <<[found |-> {}, brought |-> B]>>
      BY <2>2 DEF Catalogued
    <3>2. /\ Len(imports) = 1 /\ DOMAIN imports = {1}
          /\ imports[1].found = {} /\ imports[1].brought = B
      BY <3>1
    <3> QED
      BY <2>2, <3>2 DEF ImportComesFirst, Catalogued
  <2> QED
    BY <2>1, <2>2
<1> QED
  BY <1>1, <1>2, <1>3, TypeCorrect, PTL DEF Spec

-----------------------------------------------------------------------------
(* The last of the rows that say something.                                *)

\* Numbers that are not all gone have a first.
LEMMA NatMin ==
  ASSUME NEW T, T \subseteq Nat, T # {}
  PROVE  \E x \in T : \A y \in T : x <= y
<1>1. \E x \in T : \A y \in T : ~ (<<y, x>> \in OpToRel(<, Nat))
  BY NatLessThanWellFounded, WFMin
<1>2. PICK x \in T : \A y \in T : ~ (<<y, x>> \in OpToRel(<, Nat))
  BY <1>1
<1>3. \A y \in T : ~(y < x)
  BY <1>2 DEF OpToRel
<1>4. ASSUME NEW y \in T PROVE x <= y
  <2>1. ~(y < x) /\ x \in Nat /\ y \in Nat
    BY <1>3
  <2> QED
    BY <2>1
<1> QED
  BY <1>4

LEMMA NatMax ==
  ASSUME NEW n \in Nat, NEW S, S \subseteq 0 .. n, S # {}
  PROVE  Max(S) \in S /\ \A y \in S : y <= Max(S)
<1> DEFINE T == {n - y : y \in S}
<1>1. PICK x \in T : \A y \in T : x <= y
  <2>1. T \subseteq Nat /\ T # {}
    <3>1. \A y \in S : n - y \in Nat
      OBVIOUS
    <3> QED
      BY <3>1
  <2> HIDE DEF T
  <2> QED
    BY <2>1, NatMin
<1>2. PICK m \in S : x = n - m
  BY <1>1
<1>3. \A y \in S : m >= y
  <2> SUFFICES ASSUME NEW y \in S PROVE m >= y
    OBVIOUS
  <2>1. n - m <= n - y
    BY <1>1, <1>2
  <2>2. m \in Nat /\ y \in Nat
    OBVIOUS
  <2> QED
    BY <2>1, <2>2
<1>4. Max(S) \in S /\ \A y \in S : Max(S) >= y
  BY <1>2, <1>3 DEF Max
<1>5. \A y \in S : y <= Max(S)
  <2> SUFFICES ASSUME NEW y \in S PROVE y <= Max(S)
    OBVIOUS
  <2>1. PICK k \in 0 .. n : k = Max(S)
    BY <1>4
  <2> QED
    BY <1>4, <2>1
<1> QED
  BY <1>4, <1>5

\* The largest is the one nothing exceeds.
LEMMA MaxIs ==
  ASSUME NEW n \in Nat, NEW S, S \subseteq 0 .. n, NEW m \in S, \A y \in S : y <= m
  PROVE  Max(S) = m
<1>1. Max(S) \in S /\ m <= Max(S) /\ Max(S) <= m
  BY NatMax
<1>2. PICK k \in 0 .. n : k = Max(S)
  BY <1>1
<1>3. PICK l \in 0 .. n : l = m
  OBVIOUS
<1> QED
  BY <1>1, <1>2, <1>3

\* Rows that are appended do not change what was there.
LEMMA AppendedRows ==
  ASSUME NEW rows \in Seq(AuditRow), NEW more \in Seq(AuditRow)
  PROVE  /\ rows \o more \in Seq(AuditRow)
         /\ Len(rows) \in Nat /\ Len(more) \in Nat
         /\ Len(rows \o more) = Len(rows) + Len(more)
         /\ DOMAIN rows = 1 .. Len(rows) /\ DOMAIN (rows \o more) = 1 .. Len(rows) + Len(more)
         /\ \A i \in 1 .. Len(rows) : (rows \o more)[i] = rows[i]
         /\ \A i \in 1 .. Len(more) : (rows \o more)[Len(rows) + i] = more[i]
OBVIOUS

LEMMA ReasonKeeps ==
  ASSUME NEW rows \in Seq(AuditRow), NEW more \in Seq(AuditRow), NEW n \in 0 .. Len(rows)
  PROVE  ReasonAt(rows \o more, n) = ReasonAt(rows, n)
<1> DEFINE S == {i \in Moderation(rows) : i <= n}
<1>1. {i \in Moderation(rows \o more) : i <= n} = S
  BY AppendedRows DEF Moderation
<1>2. S \subseteq 1 .. Len(rows) /\ S \subseteq 0 .. Len(rows)
  BY AppendedRows DEF Moderation
<1>3. ASSUME S # {} PROVE (rows \o more)[Max(S)] = rows[Max(S)]
  <2>1. Max(S) \in S
    <3> HIDE DEF S
    <3> QED
      BY <1>2, <1>3, NatMax, AppendedRows
  <2> QED
    BY <1>2, <2>1, AppendedRows
<1> QED
  BY <1>1, <1>3 DEF ReasonAt

\* Rows that are not about the listing leave its reason alone.
LEMMA ReasonSkips ==
  ASSUME NEW rows \in Seq(AuditRow), NEW more \in Seq(AuditRow),
         \A i \in 1 .. Len(more) : more[i].act \notin {"delist", "relist"}
  PROVE  /\ ReasonAt(rows \o more, Len(rows \o more)) = ReasonAt(rows, Len(rows))
         /\ Moderation(rows \o more) = Moderation(rows)
<1>1. Moderation(rows \o more) = Moderation(rows)
  <2>1. ASSUME NEW i \in Moderation(rows \o more) PROVE i \in Moderation(rows)
    <3>1. i \in 1 .. Len(rows) + Len(more) /\ (rows \o more)[i].act \in {"delist", "relist"}
      BY AppendedRows DEF Moderation
    <3>2. i \in 1 .. Len(rows)
      <4>1. CASE i > Len(rows)
        <5>1. PICK j \in 1 .. Len(more) : i = Len(rows) + j
          <6>1. i - Len(rows) \in 1 .. Len(more) /\ i = Len(rows) + (i - Len(rows))
            BY <3>1, <4>1, AppendedRows
          <6> QED
            BY <6>1
        <5> QED
          BY <3>1, <5>1, AppendedRows
      <4> QED
        BY <3>1, <4>1, AppendedRows
    <3> QED
      BY <3>1, <3>2, AppendedRows DEF Moderation
  <2>2. Moderation(rows) \subseteq Moderation(rows \o more)
    BY AppendedRows DEF Moderation
  <2> QED
    BY <2>1, <2>2
<1>2. {i \in Moderation(rows \o more) : i <= Len(rows \o more)}
        = {i \in Moderation(rows \o more) : i <= Len(rows)}
  BY <1>1, AppendedRows DEF Moderation
<1>3. ReasonAt(rows \o more, Len(rows \o more)) = ReasonAt(rows \o more, Len(rows))
  BY <1>2 DEF ReasonAt
<1>4. Len(rows) \in 0 .. Len(rows)
  BY AppendedRows
<1> QED
  BY <1>1, <1>3, <1>4, ReasonKeeps

\* A row about the listing has the last word on it.
LEMMA ReasonLast ==
  ASSUME NEW rows \in Seq(AuditRow), NEW row \in AuditRow, row.act \in {"delist", "relist"}
  PROVE  /\ ReasonAt(rows \o <<row>>, Len(rows \o <<row>>))
              = IF row.act = "relist" THEN None ELSE row.note
         /\ Moderation(rows \o <<row>>) = Moderation(rows) \cup {Len(rows) + 1}
         /\ (rows \o <<row>>)[Len(rows) + 1] = row
<1> DEFINE all == rows \o <<row>>
           n == Len(rows) + 1
           S == {i \in Moderation(all) : i <= Len(all)}
<1>1. <<row>> \in Seq(AuditRow) /\ Len(<<row>>) = 1 /\ <<row>>[1] = row
  OBVIOUS
<1>2. /\ Len(all) = n /\ all[n] = row /\ Len(rows) \in Nat /\ n \in Nat
      /\ DOMAIN all = 1 .. n /\ DOMAIN rows = 1 .. Len(rows)
      /\ \A i \in 1 .. Len(rows) : all[i] = rows[i]
  BY <1>1, AppendedRows
<1>3. Moderation(all) = Moderation(rows) \cup {n}
  <2>1. \A i \in 1 .. n : i \in 1 .. Len(rows) \/ i = n
    BY <1>2
  <2>2. n \in 1 .. n /\ \A i \in 1 .. Len(rows) : i \in 1 .. n
    BY <1>2
  <2> HIDE DEF all, n
  <2> QED
    BY <1>2, <2>1, <2>2 DEF Moderation
<1>4. S \subseteq 0 .. n /\ n \in S /\ \A y \in S : y <= n
  <2>1. \A i \in Moderation(all) : i \in 1 .. n
    BY <1>2 DEF Moderation
  <2>2. n \in Moderation(all) /\ n <= n
    BY <1>2, <1>3
  <2>3. \A i \in 1 .. n : i \in 0 .. n /\ i <= n
    BY <1>2
  <2> QED
    BY <1>2, <2>1, <2>2, <2>3
<1>5. Max(S) = n
  <2> HIDE DEF S, n
  <2> QED
    BY <1>2, <1>4, MaxIs
<1> QED
  BY <1>2, <1>3, <1>4, <1>5 DEF ReasonAt

LEMMA LiveKeeps ==
  ASSUME NEW rows \in Seq(AuditRow), NEW more \in Seq(AuditRow), NEW n \in 0 .. Len(rows),
         NEW first
  PROVE  LiveAt(rows \o more, n, first) = LiveAt(rows, n, first)
<1> DEFINE S == {i \in 1 .. n : GoesLive(rows[i])}
<1>0. \A i \in 1 .. n : i \in 1 .. Len(rows) /\ i \in 0 .. n
  BY AppendedRows
<1>1. {i \in 1 .. n : GoesLive((rows \o more)[i])} = S
  BY <1>0, AppendedRows
<1>2. ASSUME S # {} PROVE (rows \o more)[Max(S)] = rows[Max(S)]
  <2>1. S \subseteq 0 .. n /\ n \in Nat
    BY <1>0, AppendedRows
  <2>2. Max(S) \in S
    <3> HIDE DEF S
    <3> QED
      BY <1>2, <2>1, NatMax
  <2> QED
    BY <1>0, <2>2, AppendedRows
<1> QED
  BY <1>1, <1>2 DEF LiveAt

\* Rows by which nothing goes live.
LEMMA LiveSkips ==
  ASSUME NEW rows \in Seq(AuditRow), NEW more \in Seq(AuditRow), NEW first,
         \A i \in 1 .. Len(more) : ~GoesLive(more[i])
  PROVE  LiveAt(rows \o more, Len(rows \o more), first) = LiveAt(rows, Len(rows), first)
<1> DEFINE n == Len(rows)
           all == rows \o more
<1>1. {i \in 1 .. Len(all) : GoesLive(all[i])} = {i \in 1 .. n : GoesLive(all[i])}
  <2>1. ASSUME NEW i \in 1 .. Len(all), GoesLive(all[i]) PROVE i \in 1 .. n
    <3>1. CASE i > n
      <4>1. i - n \in 1 .. Len(more) /\ i = n + (i - n)
        BY <3>1, AppendedRows
      <4>2. all[i] = more[i - n]
        BY <4>1, AppendedRows
      <4> QED
        BY <2>1, <4>1, <4>2
    <3> QED
      BY <3>1, AppendedRows
  <2>2. \A i \in 1 .. n : i \in 1 .. Len(all)
    BY AppendedRows
  <2> HIDE DEF all, n
  <2> QED
    BY <2>1, <2>2
<1>2. LiveAt(all, Len(all), first) = LiveAt(all, n, first)
  BY <1>1 DEF LiveAt
<1>3. n \in 0 .. Len(rows)
  BY AppendedRows
<1> QED
  BY <1>2, <1>3, LiveKeeps

\* The last of them by which something does.
LEMMA LiveLast ==
  ASSUME NEW rows \in Seq(AuditRow), NEW more \in Seq(AuditRow), NEW first,
         Len(more) > 0, GoesLive(more[Len(more)])
  PROVE  LiveAt(rows \o more, Len(rows \o more), first) = more[Len(more)].version
<1> DEFINE all == rows \o more
           n == Len(all)
           S == {i \in 1 .. n : GoesLive(all[i])}
<1>1. n \in Nat /\ n \in 1 .. n /\ all[n] = more[Len(more)]
  <2>1. Len(more) \in 1 .. Len(more) /\ n = Len(rows) + Len(more) /\ n \in Nat /\ n \in 1 .. n
    BY AppendedRows
  <2> QED
    BY <2>1, AppendedRows
<1>2. S \subseteq 0 .. n /\ n \in S /\ \A y \in S : y <= n
  <2>1. \A i \in 1 .. n : i \in 0 .. n /\ i <= n
    BY <1>1
  <2> QED
    BY <1>1, <2>1
<1>3. Max(S) = n
  <2> HIDE DEF S, n
  <2> QED
    BY <1>1, <1>2, MaxIs
<1> QED
  BY <1>1, <1>2, <1>3 DEF LiveAt

-----------------------------------------------------------------------------
(* The audit log explains the listing.                                     *)

\* The version of p in a catalogue.
FirstOf(B, p) == OneOf({v \in Versions : <<p, v>> \in B})

LEMMA ImportedIs ==
  ASSUME NEW B, Catalogued(B)
  PROVE  /\ \A id : Imported(id) <=> id \in B
         /\ \A p : ImportedVersion(p) = FirstOf(B, p)
<1>1. \A id : Imported(id) <=> id \in B
  <2>1. CASE B = {}
    <3>1. imports = <<>> /\ DOMAIN imports = {}
      BY <2>1 DEF Catalogued
    <3> QED
      BY <2>1, <3>1 DEF Range, Imported
  <2>2. CASE B # {}
    <3>1. imports = <<[found |-> {}, brought |-> B]>>
      BY <2>2 DEF Catalogued
    <3>2. Range(imports) = {[found |-> {}, brought |-> B]}
      BY <3>1 DEF Range
    <3> QED
      BY <3>2 DEF Imported
  <2> QED
    BY <2>1, <2>2
<1>2. ASSUME NEW p PROVE ImportedVersion(p) = FirstOf(B, p)
  <2>1. {v \in Versions : Imported(<<p, v>>)} = {v \in Versions : <<p, v>> \in B}
    BY <1>1
  <2> QED
    BY <2>1 DEF ImportedVersion, FirstOf
<1> QED
  BY <1>1, <1>2

\* A row that moderates says what it undoes, or what was listed.
RowExplained(rows, i, first) ==
  IF rows[i].act = "delist"
  THEN ReasonAt(rows, i - 1) = None /\ rows[i].version = LiveAt(rows, i - 1, first)
  ELSE rows[i].note # None /\ rows[i].note = ReasonAt(rows, i - 1)

Now(p, first) == LiveAt(trail[p], Len(trail[p]), first)

Explained(p, first) ==
  /\ delisted[p] = ReasonAt(trail[p], Len(trail[p]))
  /\ \A i \in Moderation(trail[p]) : RowExplained(trail[p], i, first)
  /\ Live(p) = IF Now(p, first) = None THEN {} ELSE {Now(p, first)}

LEMMA OldRows ==
  ASSUME NEW rows \in Seq(AuditRow), NEW more \in Seq(AuditRow), NEW first,
         NEW i \in Moderation(rows), RowExplained(rows, i, first)
  PROVE  RowExplained(rows \o more, i, first)
<1>1. i \in 1 .. Len(rows) /\ i - 1 \in 0 .. Len(rows) /\ (rows \o more)[i] = rows[i]
  BY AppendedRows DEF Moderation
<1>2. /\ ReasonAt(rows \o more, i - 1) = ReasonAt(rows, i - 1)
      /\ LiveAt(rows \o more, i - 1, first) = LiveAt(rows, i - 1, first)
  BY <1>1, ReasonKeeps, LiveKeeps
<1> QED
  BY <1>1, <1>2 DEF RowExplained

\* What is recorded of a request that does not moderate.
LEMMA OtherRows ==
  ASSUME TypeOK, NEW p \in Plugins, NEW first, Explained(p, first), UNCHANGED delisted[p],
         NEW more \in Seq(AuditRow), Recorded(p, more),
         \A i \in 1 .. Len(more) : more[i].act \notin {"delist", "relist"}
  PROVE  /\ delisted'[p] = ReasonAt(trail'[p], Len(trail'[p]))
         /\ \A i \in Moderation(trail'[p]) : RowExplained(trail'[p], i, first)
<1>1. trail[p] \in Seq(AuditRow) /\ trail'[p] = trail[p] \o more
  BY DEF TypeOK, Recorded
<1>2. /\ ReasonAt(trail'[p], Len(trail'[p])) = ReasonAt(trail[p], Len(trail[p]))
      /\ Moderation(trail'[p]) = Moderation(trail[p])
  BY <1>1, ReasonSkips
<1> QED
  BY <1>1, <1>2, OldRows DEF Explained

\* The rows of a submission.
LEMMA SubmittedRows ==
  ASSUME TypeOK, NEW p \in Plugins, NEW v \in Versions, NEW new \in {"pending", "approved"}
  PROVE  LET rows == Retirements(p) \o <<Entry("publish", v, new)>> IN
         /\ rows \in Seq(AuditRow) /\ Len(rows) \in Nat /\ Len(rows) > 0
         /\ rows[Len(rows)] = Entry("publish", v, new)
         /\ \A i \in 1 .. Len(rows) : \/ i = Len(rows)
                                      \/ \E w \in Versions : rows[i] = Entry("supersede", w, None)
<1> DEFINE some == Retirements(p)
           last == <<Entry("publish", v, new)>>
           rows == some \o last
           n == Len(some)
<1>1. last \in Seq(AuditRow) /\ Len(last) = 1 /\ last[1] = Entry("publish", v, new)
  BY EntryType, OneRow
<1>2. /\ some \in Seq(AuditRow)
      /\ Range(some) =
           {Entry("supersede", w, None) : w \in {x \in Versions : state[<<p, x>>] = "pending"}}
  BY RetirementsAre
<1>3. /\ rows \in Seq(AuditRow) /\ n \in Nat /\ Len(rows) = n + 1
      /\ rows[n + 1] = Entry("publish", v, new)
      /\ \A i \in 1 .. n : rows[i] = some[i]
      /\ DOMAIN some = 1 .. n
  BY <1>1, <1>2, AppendedRows
<1>4. ASSUME NEW i \in 1 .. n PROVE \E w \in Versions : rows[i] = Entry("supersede", w, None)
  <2>1. some[i] \in Range(some)
    BY <1>3 DEF Range
  <2> QED
    BY <1>2, <1>3, <2>1
<1>5. \A i \in 1 .. n + 1 : i \in 1 .. n \/ i = n + 1
  BY <1>3
<1>6. /\ rows \in Seq(AuditRow) /\ Len(rows) \in Nat /\ Len(rows) > 0
      /\ rows[Len(rows)] = Entry("publish", v, new)
      /\ \A i \in 1 .. Len(rows) : \/ i = Len(rows)
                                   \/ \E w \in Versions : rows[i] = Entry("supersede", w, None)
  <2> HIDE DEF rows, n
  <2> QED
    BY <1>3, <1>4, <1>5
<1> QED
  BY <1>6

LEMMA LiveSame ==
  ASSUME NEW p, StateKept(p)
  PROVE  Live(p)' = Live(p)
BY DEF StateKept, Live

\* What is live after a submission or a decision.
LEMMA LiveAfter ==
  ASSUME TypeOK, NEW p \in Plugins, NEW v \in Versions
  PROVE  /\ Life!Wait(p, v) => Live(p)' = Live(p)
         /\ Life!GoLive(p, v) => Live(p)' = {v}
         /\ Life!Approve(p, v) => Live(p)' = {v}
         /\ Life!Reject(p, v) => Live(p)' = Live(p)
<1>0. {"pending", "approved", "rejected"} \subseteq Life!Standing
  BY DEF Life!Standing
<1>1. ASSUME Life!Wait(p, v) PROVE Live(p)' = Live(p)
  <2>1. state[<<p, v>>] = "absent" /\ Life!Move(p, v, "pending", {"pending"})
    BY <1>1 DEF Life!Wait, Life!Unused
  <2>2. \A w \in Versions : state'[<<p, w>>] = "approved" <=> state[<<p, w>>] = "approved"
    BY <1>0, <2>1, MoveIs
  <2> QED
    BY <2>2 DEF Live
<1>2. ASSUME Life!GoLive(p, v) PROVE Live(p)' = {v}
  <2>1. Life!Move(p, v, "approved", {"pending", "approved"})
    BY <1>2 DEF Life!GoLive
  <2>2. /\ state'[<<p, v>>] = "approved"
        /\ \A w \in Versions : w # v =>
             state'[<<p, w>>] = IF state[<<p, w>>] \in {"pending", "approved"} THEN "superseded"
                                                           ELSE state[<<p, w>>]
    BY <1>0, <2>1, MoveIs
  <2>3. \A w \in Versions : state'[<<p, w>>] = "approved" <=> w = v
    BY <2>2
  <2> QED
    BY <2>3 DEF Live
<1>3. ASSUME Life!Approve(p, v) PROVE Live(p)' = {v}
  <2>1. Life!Move(p, v, "approved", {"approved"})
    BY <1>3 DEF Life!Approve
  <2>2. /\ state'[<<p, v>>] = "approved"
        /\ \A w \in Versions : w # v =>
             state'[<<p, w>>] = IF state[<<p, w>>] \in {"approved"} THEN "superseded"
                                                           ELSE state[<<p, w>>]
    BY <1>0, <2>1, MoveIs
  <2>3. \A w \in Versions : state'[<<p, w>>] = "approved" <=> w = v
    BY <2>2
  <2> QED
    BY <2>3 DEF Live
<1>4. ASSUME Life!Reject(p, v) PROVE Live(p)' = Live(p)
  <2>1. state[<<p, v>>] = "pending" /\ Life!Move(p, v, "rejected", {})
    BY <1>4 DEF Life!Reject
  <2>2. \A w \in Versions : state'[<<p, w>>] = "approved" <=> state[<<p, w>>] = "approved"
    BY <1>0, <2>1, MoveIs
  <2> QED
    BY <2>2 DEF Live
<1> QED
  BY <1>1, <1>2, <1>3, <1>4

\* Nothing goes live by these rows, and nothing went.
LEMMA NobodyLive ==
  ASSUME TypeOK, NEW p \in Plugins, NEW first, Explained(p, first), UNCHANGED delisted[p],
         NEW more \in Seq(AuditRow), Recorded(p, more), Live(p)' = Live(p),
         \A i \in 1 .. Len(more) : more[i].act \notin {"delist", "relist"} /\ ~GoesLive(more[i])
  PROVE  Explained(p, first)'
<1>1. trail[p] \in Seq(AuditRow) /\ trail'[p] = trail[p] \o more
  BY DEF TypeOK, Recorded
<1>2. LiveAt(trail'[p], Len(trail'[p]), first) = Now(p, first)
  BY <1>1, LiveSkips DEF Now
<1>3. Live(p)' = IF Now(p, first) = None THEN {} ELSE {Now(p, first)}
  BY DEF Explained
<1>4. /\ delisted'[p] = ReasonAt(trail'[p], Len(trail'[p]))
      /\ \A i \in Moderation(trail'[p]) : RowExplained(trail'[p], i, first)
  BY OtherRows
<1>5. Now(p, first)' = Now(p, first)
  BY <1>2 DEF Now
<1> QED
  BY <1>3, <1>4, <1>5 DEF Explained

\* By the last of these one version did.
LEMMA OneLive ==
  ASSUME TypeOK, NEW p \in Plugins, NEW first, Explained(p, first), UNCHANGED delisted[p],
         NEW more \in Seq(AuditRow), Recorded(p, more), NEW v \in Versions, Live(p)' = {v},
         \A i \in 1 .. Len(more) : more[i].act \notin {"delist", "relist"},
         Len(more) > 0, GoesLive(more[Len(more)]), more[Len(more)].version = v
  PROVE  Explained(p, first)'
<1>1. trail[p] \in Seq(AuditRow) /\ trail'[p] = trail[p] \o more
  BY DEF TypeOK, Recorded
<1>2. LiveAt(trail'[p], Len(trail'[p]), first) = v
  BY <1>1, LiveLast
<1>3. /\ delisted'[p] = ReasonAt(trail'[p], Len(trail'[p]))
      /\ \A i \in Moderation(trail'[p]) : RowExplained(trail'[p], i, first)
  BY OtherRows
<1>4. Now(p, first)' = v /\ v # None
  BY <1>2, CatalogueAssumption DEF Now
<1> QED
  BY <1>3, <1>4 DEF Explained

LEMMA SubmittedExplained ==
  ASSUME TypeOK, NEW p \in Plugins, NEW first, Explained(p, first),
         NEW v \in Versions, Submitted(p, v)
  PROVE  Explained(p, first)'
<1>1. PICK new \in {"pending", "approved"} :
        /\ \/ new = "pending" /\ Life!Wait(p, v)
           \/ new = "approved" /\ Life!GoLive(p, v)
        /\ Recorded(p, Retirements(p) \o <<Entry("publish", v, new)>>)
        /\ UNCHANGED delisted[p]
  BY DEF Submitted
<1>2. PICK more : more = Retirements(p) \o <<Entry("publish", v, new)>>
  OBVIOUS
<1>3. /\ more \in Seq(AuditRow) /\ Len(more) \in Nat /\ Len(more) > 0
      /\ more[Len(more)] = Entry("publish", v, new)
      /\ \A i \in 1 .. Len(more) : \/ i = Len(more)
                                   \/ \E w \in Versions : more[i] = Entry("supersede", w, None)
  BY <1>2, SubmittedRows
<1>4. /\ Entry("publish", v, new).act = "publish" /\ Entry("publish", v, new).version = v
      /\ Entry("publish", v, new).note = new
      /\ \A w \in Versions : Entry("supersede", w, None).act = "supersede"
  BY DEF Entry
<1>5. \A i \in 1 .. Len(more) : /\ more[i].act \notin {"delist", "relist"}
                                /\ i # Len(more) => ~GoesLive(more[i])
  BY <1>3, <1>4 DEF GoesLive
<1>6. CASE new = "pending"
  <2>1. Life!Wait(p, v) /\ ~GoesLive(more[Len(more)])
    BY <1>1, <1>3, <1>4, <1>6 DEF GoesLive
  <2>2. Live(p)' = Live(p)
    BY <2>1, LiveAfter
  <2> QED
    BY <1>1, <1>2, <1>3, <1>5, <2>1, <2>2, NobodyLive
<1>7. CASE new = "approved"
  <2>1. Life!GoLive(p, v) /\ GoesLive(more[Len(more)]) /\ more[Len(more)].version = v
    BY <1>1, <1>3, <1>4, <1>7 DEF GoesLive
  <2>2. Live(p)' = {v}
    BY <2>1, LiveAfter
  <2> QED
    BY <1>1, <1>2, <1>3, <1>5, <2>1, <2>2, OneLive
<1> QED
  BY <1>6, <1>7

LEMMA DecidedExplained ==
  ASSUME TypeOK, NEW p \in Plugins, NEW first, Explained(p, first),
         NEW v \in Versions, Decided(p, v)
  PROVE  Explained(p, first)'
<1>1. PICK act \in {"approve", "reject"} :
        /\ \/ act = "approve" /\ Life!Approve(p, v)
           \/ act = "reject" /\ Life!Reject(p, v)
        /\ Recorded(p, <<Entry(act, v, None)>>)
        /\ UNCHANGED delisted[p]
  BY DEF Decided
<1>2. PICK more : more = <<Entry(act, v, None)>>
  OBVIOUS
<1>3. Entry(act, v, None).act = act /\ Entry(act, v, None).version = v
      /\ Entry(act, v, None) \in AuditRow
  BY EntryType
<1>4. /\ more \in Seq(AuditRow) /\ Len(more) = 1 /\ more[1] = Entry(act, v, None)
      /\ \A i \in 1 .. Len(more) : i = 1
  BY <1>2, <1>3
<1>5. \A i \in 1 .. Len(more) : more[i].act \notin {"delist", "relist"}
  BY <1>3, <1>4
<1>6. CASE act = "reject"
  <2>1. Life!Reject(p, v) /\ \A i \in 1 .. Len(more) : ~GoesLive(more[i])
    BY <1>1, <1>3, <1>4, <1>6 DEF GoesLive
  <2>2. Live(p)' = Live(p)
    BY <2>1, LiveAfter
  <2> QED
    BY <1>1, <1>2, <1>4, <1>5, <2>1, <2>2, NobodyLive
<1>7. CASE act = "approve"
  <2>1. Life!Approve(p, v) /\ GoesLive(more[Len(more)]) /\ more[Len(more)].version = v
        /\ Len(more) > 0
    BY <1>1, <1>3, <1>4, <1>7 DEF GoesLive
  <2>2. Live(p)' = {v}
    BY <2>1, LiveAfter
  <2> QED
    BY <1>1, <1>2, <1>4, <1>5, <2>1, <2>2, OneLive
<1> QED
  BY <1>6, <1>7

\* A row that moderates is explained by what was there, and has the last word.
LEMMA ModeratedExplained ==
  ASSUME TypeOK, NEW p \in Plugins, NEW first, Explained(p, first), StateKept(p),
         NEW row \in AuditRow, Recorded(p, <<row>>), row.act \in {"delist", "relist"},
         delisted'[p] = IF row.act = "relist" THEN None ELSE row.note,
         row.act = "delist" => delisted[p] = None /\ row.version = Now(p, first),
         row.act = "relist" => row.note # None /\ row.note = delisted[p]
  PROVE  Explained(p, first)'
<1> DEFINE rows == trail[p]
           n == Len(rows)
<1>1. /\ rows \in Seq(AuditRow) /\ trail'[p] = rows \o <<row>>
      /\ <<row>> \in Seq(AuditRow) /\ Len(<<row>>) = 1 /\ <<row>>[1] = row
      /\ \A i \in 1 .. Len(<<row>>) : i = 1
  BY DEF TypeOK, Recorded
<1>2. /\ ReasonAt(rows \o <<row>>, Len(rows \o <<row>>))
           = IF row.act = "relist" THEN None ELSE row.note
      /\ Moderation(rows \o <<row>>) = Moderation(rows) \cup {n + 1}
      /\ (rows \o <<row>>)[n + 1] = row
  BY <1>1, ReasonLast
<1>3. n \in 0 .. Len(rows) /\ n + 1 - 1 = n
  BY <1>1, AppendedRows
<1>4. /\ ReasonAt(rows \o <<row>>, n) = delisted[p]
      /\ LiveAt(rows \o <<row>>, n, first) = Now(p, first)
  <2>1. /\ ReasonAt(rows \o <<row>>, n) = ReasonAt(rows, n)
        /\ LiveAt(rows \o <<row>>, n, first) = LiveAt(rows, n, first)
    BY <1>1, <1>3, ReasonKeeps, LiveKeeps
  <2> QED
    BY <2>1 DEF Explained, Now
<1>5. RowExplained(rows \o <<row>>, n + 1, first)
  BY <1>2, <1>3, <1>4 DEF RowExplained
<1>6. \A i \in Moderation(rows \o <<row>>) : RowExplained(rows \o <<row>>, i, first)
  <2>1. \A i \in Moderation(rows) : RowExplained(rows \o <<row>>, i, first)
    BY <1>1, OldRows DEF Explained
  <2> QED
    BY <1>2, <1>5, <2>1
<1>7. Now(p, first)' = Now(p, first)
  <2>1. \A i \in 1 .. Len(<<row>>) : ~GoesLive(<<row>>[i])
    BY <1>1 DEF GoesLive
  <2>2. LiveAt(rows \o <<row>>, Len(rows \o <<row>>), first) = LiveAt(rows, Len(rows), first)
    BY <1>1, <2>1, LiveSkips
  <2> QED
    BY <1>1, <2>2 DEF Now
<1>8. Live(p)' = Live(p)
  BY LiveSame
<1>9. delisted'[p] = ReasonAt(trail'[p], Len(trail'[p]))
  BY <1>1, <1>2
<1>10. Live(p)' = IF Now(p, first) = None THEN {} ELSE {Now(p, first)}
  BY <1>8 DEF Explained
<1>11. \A i \in Moderation(trail'[p]) : RowExplained(trail'[p], i, first)
  BY <1>1, <1>6
<1> QED
  BY <1>7, <1>9, <1>10, <1>11 DEF Explained

LEMMA LiveVersionNow ==
  ASSUME NEW p \in Plugins, NEW first, Explained(p, first)
  PROVE  LiveVersion(p) = Now(p, first)
<1>1. OneOf({}) = None
  BY DEF OneOf
<1>2. ASSUME NEW x PROVE OneOf({x}) = x
  <2>1. (CHOOSE v \in {x} : TRUE) \in {x}
    OBVIOUS
  <2> QED
    BY <2>1 DEF OneOf
<1> QED
  BY <1>1, <1>2 DEF Explained, LiveVersion

LEMMA MovedExplained ==
  ASSUME TypeOK, NEW p \in Plugins, NEW first, Explained(p, first), Moved(p)
  PROVE  Explained(p, first)'
<1>1. CASE Claimed(p)
  <2>1. PICK more : more = <<Entry("claim", None, None)>>
    OBVIOUS
  <2>2. Entry("claim", None, None).act = "claim" /\ Entry("claim", None, None) \in AuditRow
    BY EntryType
  <2>3. /\ more \in Seq(AuditRow) /\ Len(more) = 1 /\ more[1].act = "claim"
        /\ \A i \in 1 .. Len(more) : i = 1
    BY <2>1, <2>2
  <2>4. \A i \in 1 .. Len(more) : more[i].act \notin {"delist", "relist"} /\ ~GoesLive(more[i])
    BY <2>3 DEF GoesLive
  <2>5. Recorded(p, more) /\ UNCHANGED delisted[p] /\ Live(p)' = Live(p)
    BY <1>1, <2>1, LiveSame DEF Claimed
  <2> QED
    BY <2>3, <2>4, <2>5, NobodyLive
<1>2. ASSUME NEW reason \in Reasons, PutAway(p, reason) PROVE Explained(p, first)'
  <2>1. PICK row : row = Entry("delist", LiveVersion(p), reason)
    OBVIOUS
  <2>2. row \in AuditRow /\ row.act = "delist" /\ row.version = LiveVersion(p) /\ row.note = reason
    BY <2>1, EntryType, LiveVersionIs
  <2>3. /\ delisted'[p] = reason /\ StateKept(p) /\ Recorded(p, <<row>>) /\ delisted[p] = None
    BY <1>2, <2>1 DEF PutAway, Delistable
  <2>4. row.version = Now(p, first)
    BY <2>2, LiveVersionNow
  <2> QED
    BY <2>2, <2>3, <2>4, ModeratedExplained
<1>3. CASE PutBack(p)
  <2>1. PICK row : row = Entry("relist", None, delisted[p])
    OBVIOUS
  <2>2. delisted[p] \in Reasons /\ delisted[p] # None
    BY <1>3 DEF PutBack, TypeOK
  <2>3. row \in AuditRow /\ row.act = "relist" /\ row.note = delisted[p]
    BY <2>1, <2>2, EntryType
  <2>4. delisted'[p] = None /\ StateKept(p) /\ Recorded(p, <<row>>)
    BY <1>3, <2>1 DEF PutBack
  <2> QED
    BY <2>2, <2>3, <2>4, ModeratedExplained
<1> QED
  BY <1>1, <1>2, <1>3, SubmittedExplained, DecidedExplained DEF Moved

LEMMA QuietExplained ==
  ASSUME NEW p \in Plugins, NEW first, Explained(p, first), Quiet(p)
  PROVE  Explained(p, first)'
<1>1. Live(p)' = Live(p) /\ UNCHANGED <<trail[p], delisted[p]>>
  BY LiveSame DEF Quiet
<1>2. Now(p, first)' = Now(p, first)
  BY <1>1 DEF Now
<1> QED
  BY <1>1, <1>2 DEF Explained

\* No row, and one version live or none: that is how a plugin begins.
LEMMA NoRows ==
  ASSUME NEW first
  PROVE  /\ ReasonAt(<<>>, Len(<<>>)) = None
         /\ Moderation(<<>>) = {}
         /\ LiveAt(<<>>, Len(<<>>), first) = first
<1>1. Len(<<>>) = 0 /\ DOMAIN <<>> = {} /\ 1 .. 0 = {}
  OBVIOUS
<1>2. Moderation(<<>>) = {}
  BY <1>1 DEF Moderation
<1> QED
  BY <1>1, <1>2 DEF ReasonAt, LiveAt

LEMMA FirstOfIs ==
  ASSUME NEW B, \A x, y \in B : x[1] = y[1] => x = y, NEW p
  PROVE  {v \in Versions : <<p, v>> \in B}
           = IF FirstOf(B, p) = None THEN {} ELSE {FirstOf(B, p)}
<1> DEFINE S == {v \in Versions : <<p, v>> \in B}
<1>1. CASE S = {}
  BY <1>1 DEF FirstOf, OneOf
<1>2. CASE S # {}
  <2>1. PICK v : v = FirstOf(B, p)
    OBVIOUS
  <2>2. v \in S
    <3>1. ASSUME NEW T, T # {} PROVE OneOf(T) \in T
      <4>1. (CHOOSE x \in T : TRUE) \in T
        BY <3>1
      <4> QED
        BY <3>1, <4>1 DEF OneOf
    <3> HIDE DEF S
    <3>2. v = OneOf(S)
      BY <2>1 DEF FirstOf, S
    <3> QED
      BY <1>2, <3>1, <3>2
  <2>3. ASSUME NEW w \in S PROVE w = v
    <3>1. <<p, w>> \in B /\ <<p, v>> \in B /\ <<p, w>>[1] = <<p, v>>[1]
      BY <2>2
    <3>2. <<p, w>> = <<p, v>>
      BY <3>1
    <3> QED
      BY <3>2
  <2>4. v # None
    BY <2>2, CatalogueAssumption
  <2> QED
    BY <2>1, <2>2, <2>3, <2>4
<1> QED
  BY <1>1, <1>2

LEMMA ImportExplained ==
  ASSUME TypeOK, Imports, claimed = {}, NEW C, C = Brought, NEW p \in Plugins
  PROVE  Explained(p, FirstOf(C, p))'
<1> DEFINE first == FirstOf(C, p)
<1>1. delisted[p] = None /\ trail[p] = <<>> /\ \A v \in Versions : state[<<p, v>>] = "absent"
  BY DEF TypeOK
<1>2. \A v \in Versions : state'[<<p, v>>] = "approved" <=> <<p, v>> \in C
  BY <1>1 DEF Imports, TypeOK
<1>3. Live(p)' = {v \in Versions : <<p, v>> \in C}
  BY <1>2 DEF Live
<1>4. Live(p)' = IF first = None THEN {} ELSE {first}
  BY <1>3, BroughtIs, FirstOfIs
<1>5. delisted'[p] = None /\ trail'[p] = <<>>
  BY <1>1 DEF Imports
<1>6. Now(p, first)' = first
  BY <1>5, NoRows DEF Now
<1>7. Now(p, first)' = Now(p, FirstOf(C, p))'
  OBVIOUS
<1> HIDE DEF first
<1>8. Explained(p, first)'
  BY <1>4, <1>5, <1>6, NoRows DEF Explained
<1> QED
  BY <1>8 DEF first

\* The catalogue that was imported, and what is recorded since, are all there is to say.
Accounted == \E B : Catalogued(B) /\ \A p \in Plugins : Explained(p, FirstOf(B, p))

LEMMA AccountedStep ==
  ASSUME TypeOK, Accounted, [Next]_vars
  PROVE  Accounted'
<1>1. PICK B : Catalogued(B) /\ \A p \in Plugins : Explained(p, FirstOf(B, p))
  BY DEF Accounted
<1>2. CASE Imports
  <2>1. PICK C : C = Brought /\ Catalogued(C)' /\ claimed = {}
    BY <1>1, <1>2, CataloguedStep
  <2>2. \A p \in Plugins : Explained(p, FirstOf(C, p))'
    BY <1>2, <2>1, ImportExplained
  <2> QED
    BY <2>1, <2>2 DEF Accounted
<1>3. CASE ~Imports
  <2>1. Catalogued(B)'
    BY <1>1, <1>3, CataloguedStep
  <2>2. ASSUME NEW p \in Plugins PROVE Explained(p, FirstOf(B, p))'
    <3>1. PICK first : first = FirstOf(B, p)
      OBVIOUS
    <3>2. Explained(p, first)
      BY <1>1, <3>1
    <3>3. Quiet(p) \/ Moved(p)
      BY <1>3, EveryStep DEF Changes, Idle, Quiet, StateKept
    <3>4. Explained(p, first)'
      BY <3>2, <3>3, QuietExplained, MovedExplained
    <3>5. FirstOf(B, p)' = first
      BY <3>1
    <3> QED
      BY <3>1, <3>4
  <2> QED
    BY <2>1, <2>2 DEF Accounted
<1> QED
  BY <1>2, <1>3

LEMMA InitAccounted ==
  ASSUME Init
  PROVE  Accounted
<1>1. Catalogued({})
  BY DEF Init, Catalogued
<1>2. ASSUME NEW p \in Plugins PROVE Explained(p, FirstOf({}, p))
  <2>1. FirstOf({}, p) = None
    BY DEF FirstOf, OneOf
  <2>2. trail[p] = <<>> /\ delisted[p] = None /\ Live(p) = {}
    BY DEF Init, Live
  <2>3. Now(p, FirstOf({}, p)) = None
    BY <2>1, <2>2, NoRows DEF Now
  <2> QED
    BY <2>2, <2>3, NoRows DEF Explained
<1> QED
  BY <1>1, <1>2 DEF Accounted

(***************************************************************************)
(* What the audit log says of a listing is what happened to it, in order:  *)
(* a plugin is delisted while it is listed and relisted while it is not,   *)
(* the reason on the row is that of the last of these, the row that undoes *)
(* it repeats it, and a delisting names the version that was live then,    *)
(* whatever was published and approved before, meanwhile and since.        *)
(***************************************************************************)
THEOREM DelistingsAreExplained == Spec => []DelistingIsExplained
<1>1. Init => Accounted
  BY InitAccounted
<1>2. TypeOK /\ Accounted /\ [Next]_vars => Accounted'
  BY AccountedStep
<1>3. Accounted => DelistingIsExplained
  <2> SUFFICES ASSUME Accounted, NEW p \in Plugins
               PROVE  /\ delisted[p] = ReasonAt(trail[p], Len(trail[p]))
                      /\ \A i \in Moderation(trail[p]) : RowExplained(trail[p], i, ImportedVersion(p))
    BY DEF DelistingIsExplained, RowExplained
  <2>1. PICK B : Catalogued(B) /\ \A q \in Plugins : Explained(q, FirstOf(B, q))
    BY DEF Accounted
  <2>2. ImportedVersion(p) = FirstOf(B, p)
    BY <2>1, ImportedIs
  <2> QED
    BY <2>1, <2>2 DEF Explained
<1> QED
  BY <1>1, <1>2, <1>3, TypeCorrect, PTL DEF Spec

-----------------------------------------------------------------------------
(* Pages.                                                                  *)

\* What may have been read of a page by now.
PartsRead ==
  [directory |-> {{}, {"rows"}, {"rows", "counts"}},
   console   |-> {{}, {"plugins"}, {"plugins", "owners"}},
   detail    |-> {{}, {"release"}, {"release", "releaseTrail"},
                  {"release", "releaseTrail", "pluginTrail"}}]

IsPage(kind, about, shown) == page = [kind |-> kind, about |-> about, shown |-> shown]

PageShape ==
  \/ page = NoPage
  \/ \E kind \in {"directory", "console", "detail"}, about \in (Plugins \X Versions) \cup {None} :
       /\ kind = "detail" => about \in Plugins \X Versions /\ state[about] # "absent"
       /\ \E shown : IsPage(kind, about, shown) /\ DOMAIN shown \in PartsRead[kind]

\* The part that is read next, when these were.
NextPart(kind, parts) ==
  CASE kind = "directory" -> IF parts = {} THEN "rows" ELSE "counts"
    [] kind = "console"   -> IF parts = {} THEN "plugins" ELSE "owners"
    [] kind = "detail"    -> IF parts = {} THEN "release"
                             ELSE IF parts = {"release"} THEN "releaseTrail"
                             ELSE "pluginTrail"

LEMMA CountsAre ==
  ASSUME NEW a, NEW b, NEW c, a # b, a # c, b # c
  PROVE  /\ Cardinality({}) = 0 /\ Cardinality({a}) = 1
         /\ Cardinality({a, b}) = 2 /\ Cardinality({a, b, c}) = 3
<1>1. Cardinality({}) = 0
  BY FS_EmptySet
<1>2. IsFiniteSet({a}) /\ Cardinality({a}) = 1
  BY FS_Singleton
<1>3. IsFiniteSet({a} \cup {b}) /\ Cardinality({a} \cup {b}) = 2
  BY <1>2, FS_AddElement
<1>4. {a} \cup {b} = {a, b} /\ {a, b} \cup {c} = {a, b, c}
  OBVIOUS
<1>5. IsFiniteSet({a, b}) /\ Cardinality({a, b}) = 2
  BY <1>3, <1>4
<1>6. Cardinality({a, b} \cup {c}) = 3
  BY <1>5, FS_AddElement
<1> QED
  BY <1>1, <1>2, <1>4, <1>5, <1>6

\* A page reads its parts in their order.
LEMMA PartsInOrder ==
  ASSUME NEW kind \in {"directory", "console", "detail"}, NEW parts \in PartsRead[kind],
         Cardinality(parts) + 1 <= Len(Reads[kind])
  PROVE  /\ Reads[kind][Cardinality(parts) + 1] = NextPart(kind, parts)
         /\ NextPart(kind, parts) \notin parts
         /\ parts \cup {NextPart(kind, parts)} \in PartsRead[kind]
<1>1. CASE kind = "directory"
  <2>1. Reads[kind] = <<"rows", "counts">> /\ Len(Reads[kind]) = 2
    BY <1>1 DEF Reads
  <2>2. PartsRead[kind] = {{}, {"rows"}, {"rows", "counts"}}
    BY <1>1 DEF PartsRead
  <2>3. Cardinality({}) = 0 /\ Cardinality({"rows"}) = 1 /\ Cardinality({"rows", "counts"}) = 2
    <3>1. "rows" # "counts" /\ "rows" # "release" /\ "counts" # "release"
      OBVIOUS
    <3> QED
      BY <3>1, CountsAre
  <2>4. CASE parts = {}
    <3>1. NextPart(kind, parts) = "rows" /\ Cardinality(parts) + 1 = 1
      BY <1>1, <2>3, <2>4 DEF NextPart
    <3>2. parts \cup {"rows"} = {"rows"} /\ "rows" \notin parts
      BY <2>4
    <3> QED
      BY <2>1, <2>2, <3>1, <3>2
  <2>5. CASE parts = {"rows"}
    <3>1. NextPart(kind, parts) = "counts" /\ Cardinality(parts) + 1 = 2
      BY <1>1, <2>3, <2>5 DEF NextPart
    <3>2. parts \cup {"counts"} = {"rows", "counts"} /\ "counts" \notin parts
      BY <2>5
    <3> QED
      BY <2>1, <2>2, <3>1, <3>2
  <2>6. parts # {"rows", "counts"}
    BY <2>1, <2>3
  <2> QED
    BY <2>2, <2>4, <2>5, <2>6
<1>2. CASE kind = "console"
  <2>1. Reads[kind] = <<"plugins", "owners">> /\ Len(Reads[kind]) = 2
    BY <1>2 DEF Reads
  <2>2. PartsRead[kind] = {{}, {"plugins"}, {"plugins", "owners"}}
    BY <1>2 DEF PartsRead
  <2>3. /\ Cardinality({}) = 0 /\ Cardinality({"plugins"}) = 1
        /\ Cardinality({"plugins", "owners"}) = 2
    <3>1. "plugins" # "owners" /\ "plugins" # "release" /\ "owners" # "release"
      OBVIOUS
    <3> QED
      BY <3>1, CountsAre
  <2>4. CASE parts = {}
    <3>1. NextPart(kind, parts) = "plugins" /\ Cardinality(parts) + 1 = 1
      BY <1>2, <2>3, <2>4 DEF NextPart
    <3>2. parts \cup {"plugins"} = {"plugins"} /\ "plugins" \notin parts
      BY <2>4
    <3> QED
      BY <2>1, <2>2, <3>1, <3>2
  <2>5. CASE parts = {"plugins"}
    <3>1. NextPart(kind, parts) = "owners" /\ Cardinality(parts) + 1 = 2
      BY <1>2, <2>3, <2>5 DEF NextPart
    <3>2. parts \cup {"owners"} = {"plugins", "owners"} /\ "owners" \notin parts
      BY <2>5
    <3> QED
      BY <2>1, <2>2, <3>1, <3>2
  <2>6. parts # {"plugins", "owners"}
    BY <2>1, <2>3
  <2> QED
    BY <2>2, <2>4, <2>5, <2>6
<1>3. CASE kind = "detail"
  <2>1. Reads[kind] = <<"release", "releaseTrail", "pluginTrail">> /\ Len(Reads[kind]) = 3
    BY <1>3 DEF Reads
  <2>2. PartsRead[kind] = {{}, {"release"}, {"release", "releaseTrail"},
                           {"release", "releaseTrail", "pluginTrail"}}
    BY <1>3 DEF PartsRead
  <2>3. /\ Cardinality({}) = 0 /\ Cardinality({"release"}) = 1
        /\ Cardinality({"release", "releaseTrail"}) = 2
        /\ Cardinality({"release", "releaseTrail", "pluginTrail"}) = 3
    <3>1. /\ "release" # "releaseTrail" /\ "release" # "pluginTrail"
          /\ "releaseTrail" # "pluginTrail"
      OBVIOUS
    <3> QED
      BY <3>1, CountsAre
  <2>4. CASE parts = {}
    <3>1. NextPart(kind, parts) = "release" /\ Cardinality(parts) + 1 = 1
      BY <1>3, <2>3, <2>4 DEF NextPart
    <3>2. parts \cup {"release"} = {"release"} /\ "release" \notin parts
      BY <2>4
    <3> QED
      BY <2>1, <2>2, <3>1, <3>2
  <2>5. CASE parts = {"release"}
    <3>1. NextPart(kind, parts) = "releaseTrail" /\ Cardinality(parts) + 1 = 2
      BY <1>3, <2>3, <2>5 DEF NextPart
    <3>2. parts \cup {"releaseTrail"} = {"release", "releaseTrail"} /\ "releaseTrail" \notin parts
      BY <2>5
    <3> QED
      BY <2>1, <2>2, <3>1, <3>2
  <2>6. CASE parts = {"release", "releaseTrail"}
    <3>1. NextPart(kind, parts) = "pluginTrail" /\ Cardinality(parts) + 1 = 3
      BY <1>3, <2>3, <2>6 DEF NextPart
    <3>2. parts \cup {"pluginTrail"} = {"release", "releaseTrail", "pluginTrail"} /\ "pluginTrail" \notin parts
      BY <2>6
    <3> QED
      BY <2>1, <2>2, <3>1, <3>2
  <2>7. parts # {"release", "releaseTrail", "pluginTrail"}
    BY <2>1, <2>3
  <2> QED
    BY <2>2, <2>4, <2>5, <2>6, <2>7
<1> QED
  BY <1>1, <1>2, <1>3

\* One statement of the page runs.
ReadPart(kind, about, shown, part) ==
  /\ UNCHANGED <<boot, table>>
  /\ kind \in {"directory", "console", "detail"} /\ about \in (Plugins \X Versions) \cup {None}
  /\ kind = "detail" => about \in Plugins \X Versions /\ state[about] # "absent"
  /\ DOMAIN shown \in PartsRead[kind]
  /\ part = NextPart(kind, DOMAIN shown) /\ part \notin DOMAIN shown
  /\ DOMAIN shown \cup {part} \in PartsRead[kind]
  /\ IsPage(kind, about, shown)
  /\ page' = [kind |-> kind, about |-> about,
              shown |-> [x \in DOMAIN shown \cup {part} |->
                           IF x = part THEN Content(x, about) ELSE shown[x]]]

LEMMA ReadIs ==
  ASSUME PageShape, ReadNext
  PROVE  \E kind, about, shown, part : ReadPart(kind, about, shown, part)
<1>1. PICK kind \in {"directory", "console", "detail"}, about \in (Plugins \X Versions) \cup {None} :
        /\ kind = "detail" => about \in Plugins \X Versions /\ state[about] # "absent"
        /\ \E shown : IsPage(kind, about, shown) /\ DOMAIN shown \in PartsRead[kind]
  BY DEF PageShape, ReadNext
<1>2. PICK shown : IsPage(kind, about, shown) /\ DOMAIN shown \in PartsRead[kind]
  BY <1>1
<1>3. page.kind = kind /\ page.about = about /\ page.shown = shown
  BY <1>2 DEF IsPage
<1>4. PICK part : part = Reads[kind][Cardinality(DOMAIN shown) + 1]
  OBVIOUS
<1>5. /\ Cardinality(DOMAIN shown) + 1 <= Len(Reads[kind])
      /\ page' = [page EXCEPT !.shown =
                    [x \in DOMAIN page.shown \cup {part} |->
                       IF x = part THEN Content(x, page.about) ELSE page.shown[x]]]
      /\ UNCHANGED <<boot, table>>
  BY <1>3, <1>4 DEF ReadNext
<1>6. page' = [kind |-> kind, about |-> about,
               shown |-> [x \in DOMAIN shown \cup {part} |->
                            IF x = part THEN Content(x, about) ELSE shown[x]]]
  <2>1. page' = [page EXCEPT !.shown =
                   [x \in DOMAIN shown \cup {part} |->
                      IF x = part THEN Content(x, about) ELSE shown[x]]]
    BY <1>3, <1>5
  <2> QED
    BY <1>2, <2>1 DEF IsPage
<1>7. /\ part = NextPart(kind, DOMAIN shown) /\ part \notin DOMAIN shown
      /\ DOMAIN shown \cup {part} \in PartsRead[kind]
  <2>1. PICK parts : parts = DOMAIN shown
    OBVIOUS
  <2>2. parts \in PartsRead[kind] /\ Cardinality(parts) + 1 <= Len(Reads[kind])
    BY <1>2, <1>5, <2>1
  <2>3. /\ Reads[kind][Cardinality(parts) + 1] = NextPart(kind, parts)
        /\ NextPart(kind, parts) \notin parts
        /\ parts \cup {NextPart(kind, parts)} \in PartsRead[kind]
    BY <2>2, PartsInOrder
  <2> QED
    BY <1>4, <2>1, <2>3
<1>8. ReadPart(kind, about, shown, part)
  BY <1>1, <1>2, <1>5, <1>6, <1>7 DEF ReadPart
<1> QED
  BY <1>8

\* What a step does to the page.
LEMMA PageStep ==
  ASSUME TypeOK, PageShape, [Next]_vars
  PROVE  \/ page' = page
         \/ page'.shown = <<>> /\ PageShape'
         \/ \E kind, about, shown, part : ReadPart(kind, about, shown, part)
<1>1. CASE UNCHANGED page
  BY <1>1
<1>2. CASE page' = NoPage
  BY <1>2 DEF NoPage, PageShape
<1>3. CASE ReadNext
  BY <1>3, ReadIs
<1>4. ASSUME NEW kind \in {"directory", "console", "detail"},
             NEW about \in (Plugins \X Versions) \cup {None},
             kind = "detail" => about \in Plugins \X Versions,
             OpenPage(kind, about)
      PROVE  page'.shown = <<>> /\ PageShape'
  <2>1. page' = [kind |-> kind, about |-> about, shown |-> <<>>]
    BY <1>4 DEF OpenPage, NoPage
  <2>2. DOMAIN <<>> \in PartsRead[kind]
    BY DEF PartsRead
  <2>3. kind = "detail" => state'[about] # "absent"
    BY <1>4 DEF OpenPage, table
  <2>4. PICK shown : shown = <<>>
    OBVIOUS
  <2>5. IsPage(kind, about, shown)'
    BY <2>1, <2>4 DEF IsPage
  <2> QED
    BY <1>4, <2>1, <2>2, <2>3, <2>4, <2>5 DEF PageShape
<1>5. CASE Show
  BY <1>2, <1>3, <1>4, <1>5 DEF Show, Send
<1> QED
  BY <1>1, <1>2, <1>5 DEF Next, BootStep, Start, OpenDatabase, Migrate, ImportSeed, Stop,
     MigrateCommand, Boot, Claim, HoldersChange, Submit, Decide, Moderate, Delist, Relist,
     Serving, vars

LEMMA PageShapeStep ==
  ASSUME TypeOK, PageShape, [Next]_vars
  PROVE  PageShape'
<1>1. CASE page' = page
  <2>1. CASE page = NoPage
    BY <1>1, <2>1 DEF PageShape, NoPage
  <2>2. ASSUME NEW kind \in {"directory", "console", "detail"},
               NEW about \in (Plugins \X Versions) \cup {None}, NEW shown,
               kind = "detail" => about \in Plugins \X Versions /\ state[about] # "absent",
               IsPage(kind, about, shown), DOMAIN shown \in PartsRead[kind]
        PROVE  PageShape'
    <3>1. ASSUME kind = "detail" PROVE state'[about] # "absent"
      <4>1. PICK p \in Plugins, v \in Versions : about = <<p, v>>
        BY <2>2, <3>1
      <4> QED
        BY <2>2, <3>1, <4>1, NothingVanishes
    <3>2. IsPage(kind, about, shown)'
      BY <1>1, <2>2 DEF IsPage
    <3> QED
      BY <2>2, <3>1, <3>2 DEF PageShape
  <2> QED
    BY <2>1, <2>2 DEF PageShape
<1>2. ASSUME NEW kind, NEW about, NEW shown, NEW part, ReadPart(kind, about, shown, part)
      PROVE  PageShape'
  <2>1. PICK next : next = [x \in DOMAIN shown \cup {part} |->
                              IF x = part THEN Content(x, about) ELSE shown[x]]
    OBVIOUS
  <2>2. IsPage(kind, about, next)' /\ DOMAIN next \in PartsRead[kind]
    BY <1>2, <2>1 DEF ReadPart, IsPage
  <2>3. kind = "detail" => state'[about] # "absent"
    BY <1>2 DEF ReadPart, table
  <2> QED
    BY <1>2, <2>2, <2>3 DEF ReadPart, PageShape
<1> QED
  BY <1>1, <1>2, PageStep

LEMMA PartsOrder ==
  ASSUME NEW kind \in {"directory", "console", "detail"}, NEW parts \in PartsRead[kind]
  PROVE  /\ "counts" \in parts => "rows" \in parts
         /\ "owners" \in parts => "plugins" \in parts
         /\ "releaseTrail" \in parts => "release" \in parts
         /\ "pluginTrail" \in parts => "release" \in parts
         /\ "release" \in parts => kind = "detail"
<1>1. CASE kind = "directory"
  <2>1. parts \in {{}, {"rows"}, {"rows", "counts"}}
    BY <1>1 DEF PartsRead
  <2> QED
    BY <2>1
<1>2. CASE kind = "console"
  <2>1. parts \in {{}, {"plugins"}, {"plugins", "owners"}}
    BY <1>2 DEF PartsRead
  <2> QED
    BY <2>1
<1>3. CASE kind = "detail"
  <2>1. parts \in {{}, {"release"}, {"release", "releaseTrail"},
                   {"release", "releaseTrail", "pluginTrail"}}
    BY <1>3 DEF PartsRead
  <2> QED
    BY <1>3, <2>1
<1> QED
  BY <1>1, <1>2, <1>3

LEMMA ContentIs ==
  ASSUME NEW about
  PROVE  /\ Content("rows", about) = Listed
         /\ Content("counts", about).listed = Cardinality(Listed)
         /\ Content("counts", about).delisted = Cardinality(Delisted)
         /\ Content("plugins", about) = [p \in claimed |-> Cardinality(holders[p])]
         /\ Content("owners", about) = holders
         /\ Content("release", about) = state[about]
         /\ Content("releaseTrail", about) = RowsOn(about[1], about[2], ReleaseActs)
         /\ Content("pluginTrail", about) = RowsOn(about[1], about[2], {"publish"})
<1>1. Content("rows", about) = Listed
  BY DEF Content
<1>2. Content("counts", about) = [listed   |-> Cardinality(Listed),
                                  awaiting |-> Cardinality(Awaiting),
                                  delisted |-> Cardinality(Delisted)]
  BY DEF Content
<1>3. Content("plugins", about) = [p \in claimed |-> Cardinality(holders[p])]
  BY DEF Content
<1>4. Content("owners", about) = holders
  BY DEF Content
<1>5. Content("release", about) = state[about]
  BY DEF Content
<1>6. Content("releaseTrail", about) = RowsOn(about[1], about[2], ReleaseActs)
  BY DEF Content
<1>7. Content("pluginTrail", about) = RowsOn(about[1], about[2], {"publish"})
  BY DEF Content
<1> QED
  BY <1>1, <1>2, <1>3, <1>4, <1>5, <1>6, <1>7

\* A plugin with a live release keeps one.
LEMMA LiveStays ==
  ASSUME TypeOK, [Next]_vars, NEW p \in Plugins, Live(p) # {}
  PROVE  Live(p)' # {}
<1>1. CASE Imports
  <2>1. \A v \in Versions : state[<<p, v>>] = "approved" => state'[<<p, v>>] = "approved"
    BY <1>1 DEF Imports, TypeOK
  <2> QED
    BY <2>1 DEF Live
<1>2. CASE StateKept(p)
  BY <1>2, LiveSame
<1>3. ASSUME NEW v \in Versions, Submitted(p, v) \/ Decided(p, v) PROVE Live(p)' # {}
  <2>1. Live(p)' = Live(p) \/ Live(p)' = {v}
    BY <1>3, LiveAfter DEF Submitted, Decided
  <2> QED
    BY <2>1
<1>4. CASE Moved(p)
  BY <1>2, <1>3, <1>4 DEF Moved, Claimed, PutAway, PutBack
<1>5. CASE Idle
  BY <1>2, <1>5 DEF Idle, StateKept
<1> QED
  BY <1>1, <1>2, <1>4, <1>5, EveryStep DEF Changes, Quiet

WithRelease == {p \in claimed : Live(p) # {}}

LEMMA WithReleaseStays ==
  ASSUME TypeOK, [Next]_vars
  PROVE  WithRelease \subseteq WithRelease'
BY LiveStays, HoldersStep DEF WithRelease, TypeOK

\* Whatever has a live release is counted, as listed or as delisted.
LEMMA CountsCover ==
  ASSUME TypeOK, NEW R, R \subseteq WithRelease
  PROVE  Cardinality(R) <= Cardinality(Listed) + Cardinality(Delisted)
<1>1. Listed \in SUBSET Plugins /\ Delisted \in SUBSET Plugins
  BY DEF TypeOK, Listed, Delisted
<1>2. IsFiniteSet(Listed) /\ IsFiniteSet(Delisted)
  BY <1>1, FS_Subset, CatalogueAssumption
<1>3. R \in SUBSET (Listed \cup Delisted)
  BY DEF WithRelease, Listed, Delisted
<1>4. /\ IsFiniteSet(Listed \cup Delisted)
      /\ Cardinality(Listed \cup Delisted)
           = Cardinality(Listed) + Cardinality(Delisted) - Cardinality(Listed \cap Delisted)
  BY <1>2, FS_Union
<1>5. IsFiniteSet(R) /\ Cardinality(R) <= Cardinality(Listed \cup Delisted)
  BY <1>3, <1>4, FS_Subset
<1>6. Listed \cap Delisted = {}
  BY DEF Listed, Delisted
<1>7. /\ Cardinality(R) \in Nat /\ Cardinality(Listed) \in Nat /\ Cardinality(Delisted) \in Nat
      /\ Cardinality(Listed \cap Delisted) = 0
  BY <1>2, <1>5, <1>6, FS_CardinalityType, FS_EmptySet
<1> QED
  BY <1>4, <1>5, <1>7

\* What is on the page still holds when the rest of it is read.
PageHolds ==
  /\ Shown("rows") => page.shown["rows"] \subseteq WithRelease
  /\ Shown("plugins") => \A p \in DOMAIN page.shown["plugins"] :
       page.shown["plugins"][p] > 0 => p \in Plugins /\ holders[p] # {}
  /\ PagesHoldTogether

\* The page that was, and the page that is, of a read.
LEMMA ReadShows ==
  ASSUME NEW kind, NEW about, NEW shown, NEW part, ReadPart(kind, about, shown, part)
  PROVE  /\ page.shown = shown /\ page'.about = about /\ page.about = about
         /\ DOMAIN page'.shown = DOMAIN page.shown \cup {part} /\ part \notin DOMAIN page.shown
         /\ page'.shown[part] = Content(part, about)
         /\ \A x \in DOMAIN page.shown : page'.shown[x] = page.shown[x]
         /\ DOMAIN page.shown \in PartsRead[kind] /\ DOMAIN page'.shown \in PartsRead[kind]
<1>1. PICK next : next = [x \in DOMAIN shown \cup {part} |->
                            IF x = part THEN Content(x, about) ELSE shown[x]]
  OBVIOUS
<1>2. page.shown = shown /\ page'.shown = next /\ page'.about = about /\ page.about = about
  BY <1>1 DEF ReadPart, IsPage
<1>3. DOMAIN next = DOMAIN shown \cup {part} /\ part \notin DOMAIN shown
      /\ next[part] = Content(part, about) /\ \A x \in DOMAIN shown : next[x] = shown[x]
  BY <1>1 DEF ReadPart
<1>4. DOMAIN shown \in PartsRead[kind] /\ DOMAIN next \in PartsRead[kind]
  BY <1>3 DEF ReadPart
<1> QED
  BY <1>2, <1>3, <1>4

LEMMA PageHoldsStep ==
  ASSUME TypeOK, PageShape, PageHolds, [Next]_vars
  PROVE  PageHolds'
<1>1. CASE page' = page
  <2>1. \A part : Shown(part)' <=> Shown(part)
    BY <1>1 DEF Shown
  <2>2. Shown("rows")' => page'.shown["rows"] \subseteq WithRelease'
    BY <1>1, <2>1, WithReleaseStays DEF PageHolds
  <2>3. Shown("plugins")' => \A p \in DOMAIN page'.shown["plugins"] :
          page'.shown["plugins"][p] > 0 => p \in Plugins /\ holders'[p] # {}
    BY <1>1, <2>1, HoldersStep DEF PageHolds
  <2>4. PagesHoldTogether'
    BY <1>1, <2>1 DEF PageHolds, PagesHoldTogether
  <2> QED
    BY <2>2, <2>3, <2>4 DEF PageHolds
<1>2. CASE page'.shown = <<>>
  <2>1. \A part : ~Shown(part)'
    BY <1>2 DEF Shown
  <2> QED
    BY <2>1 DEF PageHolds, PagesHoldTogether
<1>3. ASSUME NEW kind, NEW about, NEW shown, NEW part, ReadPart(kind, about, shown, part)
      PROVE  PageHolds'
  <2>1. /\ DOMAIN page'.shown = DOMAIN page.shown \cup {part} /\ part \notin DOMAIN page.shown
        /\ page'.shown[part] = Content(part, about)
        /\ \A x \in DOMAIN page.shown : page'.shown[x] = page.shown[x]
        /\ DOMAIN page'.shown \in PartsRead[kind]
        /\ DOMAIN page.shown \in PartsRead[kind]
    BY <1>3, ReadShows
  <2>2. /\ \A x : Shown(x)' <=> Shown(x) \/ x = part
        /\ \A x : Shown(x) => x # part /\ page'.shown[x] = page.shown[x]
    BY <2>1 DEF Shown
  <2>3. /\ Shown("counts") => Shown("rows")
        /\ Shown("owners") => Shown("plugins")
        /\ Shown("counts")' => Shown("rows")'
        /\ Shown("owners")' => Shown("plugins")'
    <3>1. kind \in {"directory", "console", "detail"}
      BY <1>3 DEF ReadPart
    <3>2. PICK before : before = DOMAIN page.shown
      OBVIOUS
    <3>3. PICK after : after = DOMAIN page'.shown
      OBVIOUS
    <3>4. /\ "counts" \in before => "rows" \in before
          /\ "owners" \in before => "plugins" \in before
          /\ "counts" \in after => "rows" \in after
          /\ "owners" \in after => "plugins" \in after
      BY <2>1, <3>1, <3>2, <3>3, PartsOrder
    <3> QED
      BY <3>2, <3>3, <3>4 DEF Shown
  <2>4. UNCHANGED table
    BY <1>3 DEF ReadPart
  <2>5. WithRelease' = WithRelease /\ holders' = holders
    BY <2>4 DEF table, WithRelease, Live
  <2>6. Shown("rows")' => page'.shown["rows"] \subseteq WithRelease'
    <3>1. CASE part = "rows"
      <4>1. page'.shown["rows"] = Listed
        BY <2>1, <3>1, ContentIs
      <4>2. Listed \subseteq WithRelease
        BY DEF Listed, WithRelease
      <4> QED
        BY <2>5, <4>1, <4>2
    <3> QED
      BY <2>2, <2>5, <3>1 DEF PageHolds
  <2>7. Shown("plugins")' => \A p \in DOMAIN page'.shown["plugins"] :
          page'.shown["plugins"][p] > 0 => p \in Plugins /\ holders'[p] # {}
    <3>1. CASE part = "plugins"
      <4>1. page'.shown["plugins"] = [p \in claimed |-> Cardinality(holders[p])]
        BY <2>1, <3>1, ContentIs
      <4>2. ASSUME NEW p \in claimed, Cardinality(holders[p]) > 0
            PROVE  p \in Plugins /\ holders[p] # {}
        <5>1. p \in Plugins
          BY DEF TypeOK
        <5>2. ASSUME holders[p] = {} PROVE FALSE
          <6>1. Cardinality(holders[p]) = 0
            BY <5>2, FS_EmptySet
          <6> QED
            BY <4>2, <6>1
        <5> QED
          BY <5>1, <5>2
      <4> QED
        BY <2>5, <4>1, <4>2
    <3> QED
      BY <2>2, <2>5, <3>1 DEF PageHolds
  <2>8. Shown("rows")' /\ Shown("counts")' =>
          Cardinality(page'.shown["rows"])
            <= page'.shown["counts"].listed + page'.shown["counts"].delisted
    <3>1. CASE part = "counts"
      <4>1. /\ page'.shown["counts"].listed = Cardinality(Listed)
            /\ page'.shown["counts"].delisted = Cardinality(Delisted)
        BY <2>1, <3>1, ContentIs
      <4>2. Shown("rows")
        BY <2>2, <2>3, <3>1
      <4>3. page'.shown["rows"] = page.shown["rows"] /\ page.shown["rows"] \subseteq WithRelease
        BY <2>2, <4>2 DEF PageHolds
      <4> QED
        BY <4>1, <4>3, CountsCover
    <3>2. CASE part # "counts"
      BY <2>2, <2>3, <3>2 DEF PageHolds, PagesHoldTogether
    <3> QED
      BY <3>1, <3>2
  <2>9. Shown("plugins")' /\ Shown("owners")' =>
          \A p \in DOMAIN page'.shown["plugins"] :
            page'.shown["plugins"][p] > 0 => page'.shown["owners"][p] # {}
    <3>1. CASE part = "owners"
      <4>1. page'.shown["owners"] = holders
        BY <2>1, <3>1, ContentIs
      <4> QED
        BY <2>2, <2>3, <3>1, <4>1 DEF PageHolds
    <3>2. CASE part # "owners"
      BY <2>2, <2>3, <3>2 DEF PageHolds, PagesHoldTogether
    <3> QED
      BY <3>1, <3>2
  <2> QED
    BY <2>6, <2>7, <2>8, <2>9 DEF PageHolds, PagesHoldTogether
<1> QED
  BY <1>1, <1>2, <1>3, PageStep

LEMMA NothingShown ==
  ASSUME page.shown = <<>>
  PROVE  \A part : ~Shown(part)
BY DEF Shown

(***************************************************************************)
(* A page whose parts were read at two moments still holds together.  The  *)
(* directory counts, as listed or as delisted meanwhile and never as       *)
(* awaiting its first release, every plugin it shows; and the console      *)
(* names a holder of every plugin that had one as its row was read.        *)
(***************************************************************************)
THEOREM PagesAreWhole == Spec => []PagesHoldTogether
<1>1. Init => PageShape /\ PageHolds
  <2> SUFFICES ASSUME Init PROVE PageShape /\ PageHolds
    OBVIOUS
  <2>1. page = NoPage /\ page.shown = <<>>
    BY DEF Init, NoPage
  <2> QED
    BY <2>1, NothingShown DEF PageShape, PageHolds, PagesHoldTogether
<1>2. TypeOK /\ PageShape /\ PageHolds /\ [Next]_vars => PageShape' /\ PageHolds'
  BY PageShapeStep, PageHoldsStep
<1>3. PageHolds => PagesHoldTogether
  BY DEF PageHolds
<1> QED
  BY <1>1, <1>2, <1>3, TypeCorrect, PTL DEF Spec

-----------------------------------------------------------------------------
(* The page of a release.                                                  *)

Has(R, act, note) == \E row \in R : row.act = act /\ row.note = note

\* Whether rows, or the import, say how a release came to stand where it does.
Known(imported, standing, R) ==
  LET wentLive == imported \/ Has(R, "approve", None) \/ Has(R, "publish", "approved")
  IN /\ imported \/ Has(R, "publish", "approved") \/ Has(R, "publish", "pending")
     /\ standing = "approved"   => wentLive
     /\ standing = "superseded" => wentLive \/ Has(R, "supersede", None)
     /\ standing = "rejected"   => Has(R, "reject", None)

LEMMA KnownGrows ==
  ASSUME NEW was \in BOOLEAN, NEW is \in BOOLEAN, was => is, NEW standing,
         NEW R, NEW S, R \subseteq S, Known(was, standing, R)
  PROVE  Known(is, standing, S)
<1>1. \A act, note : Has(R, act, note) => Has(S, act, note)
  BY DEF Has
<1> QED
  BY <1>1 DEF Known

AllActs == ReleaseActs \cup {"publish"}

LEMMA AppendedRange ==
  ASSUME NEW rows \in Seq(AuditRow), NEW more \in Seq(AuditRow)
  PROVE  Range(rows) \subseteq Range(rows \o more) /\ Range(more) \subseteq Range(rows \o more)
<1>1. ASSUME NEW row \in Range(rows) PROVE row \in Range(rows \o more)
  <2>1. PICK i \in 1 .. Len(rows) : row = rows[i]
    BY AppendedRows DEF Range
  <2>2. i \in 1 .. Len(rows) + Len(more) /\ row = (rows \o more)[i]
    BY <2>1, AppendedRows
  <2> QED
    BY <2>2, AppendedRows DEF Range
<1>2. ASSUME NEW row \in Range(more) PROVE row \in Range(rows \o more)
  <2>1. PICK i \in 1 .. Len(more) : row = more[i]
    BY AppendedRows DEF Range
  <2>2. Len(rows) + i \in 1 .. Len(rows) + Len(more) /\ row = (rows \o more)[Len(rows) + i]
    BY <2>1, AppendedRows
  <2> QED
    BY <2>2, AppendedRows DEF Range
<1> QED
  BY <1>1, <1>2

LEMMA RecordedRows ==
  ASSUME TypeOK, NEW p \in Plugins, NEW more \in Seq(AuditRow), Recorded(p, more),
         NEW v, NEW acts
  PROVE  /\ RowsOn(p, v, acts) \subseteq RowsOn(p, v, acts)'
         /\ \A row \in Range(more) :
              row.version = v /\ row.act \in acts => row \in RowsOn(p, v, acts)'
<1>1. trail[p] \in Seq(AuditRow) /\ trail'[p] = trail[p] \o more
  BY DEF TypeOK, Recorded
<1>2. Range(trail[p]) \subseteq Range(trail'[p]) /\ Range(more) \subseteq Range(trail'[p])
  BY <1>1, AppendedRange
<1> QED
  BY <1>2 DEF RowsOn

\* Every request records something, and what is recorded stays.
LEMMA RowsStay ==
  ASSUME TypeOK, [Next]_vars, NEW p \in Plugins, NEW v, NEW acts
  PROVE  RowsOn(p, v, acts) \subseteq RowsOn(p, v, acts)'
<1>1. CASE UNCHANGED trail[p]
  BY <1>1 DEF RowsOn
<1>2. CASE \E more \in Seq(AuditRow) : Recorded(p, more)
  BY <1>2, RecordedRows
<1>3. ASSUME NEW row \in AuditRow, Recorded(p, <<row>>)
      PROVE  \E more \in Seq(AuditRow) : Recorded(p, more)
  BY <1>3, OneRow
<1>4. CASE Claimed(p)
  BY <1>2, <1>3, <1>4, EntryType DEF Claimed
<1>5. ASSUME NEW w \in Versions, Submitted(p, w)
      PROVE  \E more \in Seq(AuditRow) : Recorded(p, more)
  <2>1. PICK new \in {"pending", "approved"} :
          Recorded(p, Retirements(p) \o <<Entry("publish", w, new)>>)
    BY <1>5 DEF Submitted
  <2>2. Retirements(p) \o <<Entry("publish", w, new)>> \in Seq(AuditRow)
    BY SubmittedRows
  <2> QED
    BY <2>1, <2>2
<1>6. ASSUME NEW w \in Versions, Decided(p, w)
      PROVE  \E more \in Seq(AuditRow) : Recorded(p, more)
  <2>1. PICK act \in {"approve", "reject"} : Recorded(p, <<Entry(act, w, None)>>)
    BY <1>6 DEF Decided
  <2>2. Entry(act, w, None) \in AuditRow
    BY EntryType
  <2> QED
    BY <1>3, <2>1, <2>2
<1>7. ASSUME NEW reason \in Reasons, PutAway(p, reason)
      PROVE  \E more \in Seq(AuditRow) : Recorded(p, more)
  <2>1. LiveVersion(p) \in Versions \cup {None}
    BY LiveVersionIs
  <2>2. Entry("delist", LiveVersion(p), reason) \in AuditRow
    BY <2>1, EntryType
  <2> QED
    BY <1>3, <1>7, <2>2 DEF PutAway
<1>8. CASE PutBack(p)
  <2>1. delisted[p] \in Reasons
    BY <1>8 DEF PutBack, TypeOK
  <2>2. Entry("relist", None, delisted[p]) \in AuditRow
    BY <2>1, EntryType
  <2> QED
    BY <1>2, <1>3, <1>8, <2>2 DEF PutBack
<1>9. CASE Moved(p)
  BY <1>2, <1>4, <1>5, <1>6, <1>7, <1>8, <1>9 DEF Moved
<1> QED
  BY <1>1, <1>9, EveryStep DEF Idle, Imports, Changes, Quiet

\* Where each release stands is known from the rows about it.
Story(p, v) ==
  state[<<p, v>>] # "absent" =>
    Known(Imported(<<p, v>>), state[<<p, v>>], RowsOn(p, v, AllActs))

LEMMA ImportedStays ==
  ASSUME TypeOK, [Next]_vars, NEW B, Catalogued(B), NEW id, Imported(id)
  PROVE  Imported(id)'
<1>1. ~Imports /\ UNCHANGED imports
  BY CataloguedStep, ImportedIs
<1> QED
  BY <1>1 DEF Imported

\* What is known stays known.
LEMMA StoryGrows ==
  ASSUME TypeOK, [Next]_vars, NEW p \in Plugins, NEW v \in Versions, Story(p, v),
         Imported(<<p, v>>) => Imported(<<p, v>>)', state[<<p, v>>] # "absent"
  PROVE  Known(Imported(<<p, v>>)', state[<<p, v>>], RowsOn(p, v, AllActs)')
<1>1. PICK R : R = RowsOn(p, v, AllActs)
  OBVIOUS
<1>2. PICK S : S = RowsOn(p, v, AllActs)'
  OBVIOUS
<1>3. PICK was \in BOOLEAN : was = Imported(<<p, v>>)
  BY DEF Imported
<1>4. PICK is \in BOOLEAN : is = Imported(<<p, v>>)'
  BY DEF Imported
<1>5. PICK standing : standing = state[<<p, v>>]
  OBVIOUS
<1>6. R \subseteq S
  BY <1>1, <1>2, RowsStay
<1>7. was => is
  BY <1>3, <1>4
<1>8. Known(was, standing, R)
  BY <1>1, <1>3, <1>5 DEF Story
<1>9. Known(is, standing, S)
  BY <1>6, <1>7, <1>8, KnownGrows
<1> QED
  BY <1>2, <1>4, <1>5, <1>9

LEMMA StorySubmitted ==
  ASSUME TypeOK, [Next]_vars, NEW p \in Plugins, NEW v \in Versions, Story(p, v),
         Imported(<<p, v>>) => Imported(<<p, v>>)',
         NEW w \in Versions, Submitted(p, w)
  PROVE  Story(p, v)'
<1> DEFINE S == RowsOn(p, v, AllActs)'
           is == Imported(<<p, v>>)'
<1>0. \A act \in {"publish", "supersede", "approve", "reject"} : act \in AllActs
  BY DEF AllActs, ReleaseActs
<1>1. PICK new \in {"pending", "approved"}, old \in {{"pending"}, {"pending", "approved"}} :
        /\ Life!Move(p, w, new, old) /\ state[<<p, w>>] = "absent"
        /\ Recorded(p, Retirements(p) \o <<Entry("publish", w, new)>>)
  BY DEF Submitted, Life!Wait, Life!GoLive, Life!Unused
<1>2. /\ state'[<<p, w>>] = new
      /\ \A x \in Versions : x # w =>
           state'[<<p, x>>] = IF state[<<p, x>>] \in old THEN "superseded" ELSE state[<<p, x>>]
  <2>1. new \in Life!Standing
    BY DEF Life!Standing
  <2> QED
    BY <1>1, <2>1, MoveIs
<1>3. PICK more : more = Retirements(p) \o <<Entry("publish", w, new)>>
  OBVIOUS
<1>4. /\ more \in Seq(AuditRow) /\ Recorded(p, more)
      /\ Entry("publish", w, new) \in Range(more)
      /\ state[<<p, v>>] = "pending" => Entry("supersede", v, None) \in Range(more)
  <2>1. /\ more \in Seq(AuditRow) /\ Len(more) \in Nat /\ Len(more) > 0
        /\ more[Len(more)] = Entry("publish", w, new)
    BY <1>3, SubmittedRows
  <2>2. Entry("publish", w, new) \in Range(more)
    BY <2>1 DEF Range
  <2>3. /\ Retirements(p) \in Seq(AuditRow)
        /\ state[<<p, v>>] = "pending" => Entry("supersede", v, None) \in Range(Retirements(p))
    BY RetirementsAre
  <2>4. <<Entry("publish", w, new)>> \in Seq(AuditRow)
    BY EntryType, OneRow
  <2>5. Range(Retirements(p)) \subseteq Range(more)
    BY <1>3, <2>3, <2>4, AppendedRange
  <2> QED
    BY <1>1, <1>3, <2>1, <2>2, <2>3, <2>5
<1>5. \A row \in Range(more) : row.version = v /\ row.act \in AllActs => row \in S
  BY <1>4, RecordedRows
<1>6. CASE v = w
  <2>1. /\ Entry("publish", w, new).act = "publish" /\ Entry("publish", w, new).version = w
        /\ Entry("publish", w, new).note = new
    BY DEF Entry
  <2>2. Has(S, "publish", new)
    BY <1>0, <1>4, <1>5, <1>6, <2>1 DEF Has
  <2>3. Known(is, new, S)
    BY <2>2 DEF Known
  <2> QED
    BY <1>2, <1>6, <2>3 DEF Story
<1>7. CASE v # w /\ state[<<p, v>>] \notin old
  <2>1. state'[<<p, v>>] = state[<<p, v>>]
    BY <1>2, <1>7
  <2>2. state[<<p, v>>] # "absent" => Known(is, state[<<p, v>>], S)
    BY StoryGrows
  <2> QED
    BY <2>1, <2>2 DEF Story
<1>8. CASE v # w /\ state[<<p, v>>] \in old
  <2>1. state'[<<p, v>>] = "superseded" /\ state[<<p, v>>] \in {"pending", "approved"}
    BY <1>2, <1>8
  <2>2. Known(is, state[<<p, v>>], S)
    BY <2>1, StoryGrows
  <2>3. ASSUME state[<<p, v>>] = "pending" PROVE Has(S, "supersede", None)
    <3>1. /\ Entry("supersede", v, None).act = "supersede"
          /\ Entry("supersede", v, None).version = v /\ Entry("supersede", v, None).note = None
      BY DEF Entry
    <3> QED
      BY <1>0, <1>4, <1>5, <2>3, <3>1 DEF Has
  <2>4. Known(is, "superseded", S)
    BY <2>1, <2>2, <2>3 DEF Known
  <2> QED
    BY <2>1, <2>4 DEF Story
<1> QED
  BY <1>6, <1>7, <1>8

LEMMA StoryDecided ==
  ASSUME TypeOK, [Next]_vars, NEW p \in Plugins, NEW v \in Versions, Story(p, v),
         Imported(<<p, v>>) => Imported(<<p, v>>)',
         NEW w \in Versions, Decided(p, w)
  PROVE  Story(p, v)'
<1> DEFINE S == RowsOn(p, v, AllActs)'
           is == Imported(<<p, v>>)'
<1>0. \A act \in {"publish", "supersede", "approve", "reject"} : act \in AllActs
  BY DEF AllActs, ReleaseActs
<1>1. PICK act \in {"approve", "reject"}, new \in {"approved", "rejected"},
           old \in {{"approved"}, {}} :
        /\ Life!Move(p, w, new, old) /\ state[<<p, w>>] = "pending"
        /\ act = "approve" <=> new = "approved"
        /\ Recorded(p, <<Entry(act, w, None)>>)
  BY DEF Decided, Life!Approve, Life!Reject
<1>2. /\ state'[<<p, w>>] = new
      /\ \A x \in Versions : x # w =>
           state'[<<p, x>>] = IF state[<<p, x>>] \in old THEN "superseded" ELSE state[<<p, x>>]
  <2>1. new \in Life!Standing
    BY DEF Life!Standing
  <2> QED
    BY <1>1, <2>1, MoveIs
<1>3. CASE v = w
  <2>1. /\ Entry(act, w, None).act = act /\ Entry(act, w, None).version = w
        /\ Entry(act, w, None).note = None /\ <<Entry(act, w, None)>> \in Seq(AuditRow)
    BY EntryType, OneRow
  <2>2. Entry(act, w, None) \in Range(<<Entry(act, w, None)>>)
    BY DEF Range
  <2>3. Entry(act, w, None) \in S
    BY <1>0, <1>1, <1>3, <2>1, <2>2, RecordedRows
  <2>4. Has(S, act, None)
    BY <2>1, <2>3 DEF Has
  <2>5. Known(is, "pending", S)
    BY <1>1, <1>3, StoryGrows
  <2>6. Known(is, new, S)
    BY <1>1, <2>4, <2>5 DEF Known
  <2> QED
    BY <1>2, <1>3, <2>6 DEF Story
<1>4. CASE v # w /\ state[<<p, v>>] \notin old
  <2>1. state'[<<p, v>>] = state[<<p, v>>]
    BY <1>2, <1>4
  <2>2. state[<<p, v>>] # "absent" => Known(is, state[<<p, v>>], S)
    BY StoryGrows
  <2> QED
    BY <2>1, <2>2 DEF Story
<1>5. CASE v # w /\ state[<<p, v>>] \in old
  <2>1. state'[<<p, v>>] = "superseded" /\ state[<<p, v>>] = "approved"
    BY <1>2, <1>5
  <2>2. Known(is, "approved", S)
    BY <2>1, StoryGrows
  <2>3. Known(is, "superseded", S)
    BY <2>2 DEF Known
  <2> QED
    BY <2>1, <2>3 DEF Story
<1> QED
  BY <1>3, <1>4, <1>5

Stories == \A p \in Plugins, v \in Versions : Story(p, v)

LEMMA StoriesStep ==
  ASSUME TypeOK, Accounted, Stories, [Next]_vars
  PROVE  Stories'
<1> SUFFICES ASSUME NEW p \in Plugins, NEW v \in Versions PROVE Story(p, v)'
  BY DEF Stories
<1>1. PICK B : Catalogued(B)
  BY DEF Accounted
<1>2. Story(p, v) /\ (Imported(<<p, v>>) => Imported(<<p, v>>)')
  BY <1>1, ImportedStays DEF Stories
<1>3. CASE state'[<<p, v>>] = state[<<p, v>>]
  <2>1. state[<<p, v>>] # "absent" =>
          Known(Imported(<<p, v>>)', state[<<p, v>>], RowsOn(p, v, AllActs)')
    BY <1>2, StoryGrows
  <2> QED
    BY <1>3, <2>1 DEF Story
<1>4. CASE Imports
  <2>1. PICK C : C = Brought /\ Catalogued(C)'
    BY <1>1, <1>4, CataloguedStep
  <2>2. CASE <<p, v>> \in C
    <3>1. imports' = <<[found |-> {}, brought |-> C]>>
      BY <2>1, <2>2 DEF Catalogued
    <3>2. Imported(<<p, v>>)'
      <4>1. Range(imports') = {[found |-> {}, brought |-> C]}
        BY <3>1 DEF Range
      <4> QED
        BY <2>2, <4>1 DEF Imported
    <3>3. state'[<<p, v>>] = "approved"
      BY <1>4, <2>1, <2>2 DEF Imports, TypeOK
    <3> QED
      BY <3>2, <3>3 DEF Story, Known
  <2>3. CASE <<p, v>> \notin C
    <3>1. state'[<<p, v>>] = state[<<p, v>>]
      BY <1>4, <2>1, <2>3 DEF Imports, TypeOK
    <3> QED
      BY <1>3, <3>1
  <2> QED
    BY <2>2, <2>3
<1>5. CASE \E w \in Versions : Submitted(p, w) \/ Decided(p, w)
  BY <1>2, <1>5, StorySubmitted, StoryDecided
<1>6. CASE StateKept(p)
  BY <1>3, <1>6 DEF StateKept
<1> QED
  BY <1>3, <1>4, <1>5, <1>6, EveryStep DEF Idle, Changes, Quiet, Moved, Claimed, PutAway,
     PutBack

\* The rows the reviewer will have seen: those on the page, and those to be read.
RowsToSee(part, acts) ==
  IF Shown(part) THEN page.shown[part] ELSE RowsOn(page.about[1], page.about[2], acts)

PageTells ==
  Shown("release") =>
    Known(Imported(page.about), page.shown["release"],
          RowsToSee("releaseTrail", ReleaseActs) \cup RowsToSee("pluginTrail", {"publish"}))

LEMMA AboutARelease ==
  ASSUME PageShape, Shown("release")
  PROVE  page.about \in Plugins \X Versions
<1>1. page # NoPage
  BY DEF Shown, NoPage
<1>2. PICK kind \in {"directory", "console", "detail"}, about \in (Plugins \X Versions) \cup {None} :
        /\ kind = "detail" => about \in Plugins \X Versions /\ state[about] # "absent"
        /\ \E shown : IsPage(kind, about, shown) /\ DOMAIN shown \in PartsRead[kind]
  BY <1>1 DEF PageShape
<1>3. PICK shown : IsPage(kind, about, shown) /\ DOMAIN shown \in PartsRead[kind]
  BY <1>2
<1>4. page.about = about /\ page.shown = shown
  BY <1>3 DEF IsPage
<1>5. PICK parts : parts = DOMAIN shown
  OBVIOUS
<1>6. "release" \in parts /\ parts \in PartsRead[kind]
  BY <1>3, <1>4, <1>5 DEF Shown
<1>7. kind = "detail"
  BY <1>6, PartsOrder
<1> QED
  BY <1>2, <1>4, <1>7

LEMMA AllRows ==
  ASSUME NEW p, NEW v
  PROVE  RowsOn(p, v, ReleaseActs) \cup RowsOn(p, v, {"publish"}) = RowsOn(p, v, AllActs)
BY DEF RowsOn, AllActs

LEMMA PageTellsStep ==
  ASSUME TypeOK, PageShape, Accounted, Stories, PageTells, [Next]_vars
  PROVE  PageTells'
<1>1. CASE page' = page
  <2> SUFFICES ASSUME Shown("release")' PROVE PageTells'
    BY DEF PageTells
  <2>0. \A part : Shown(part)' <=> Shown(part)
    BY <1>1 DEF Shown
  <2>1. Shown("release")
    BY <2>0
  <2>2. PICK about : about = page.about
    OBVIOUS
  <2>3. PICK R : R = RowsToSee("releaseTrail", ReleaseActs) \cup RowsToSee("pluginTrail", {"publish"})
    OBVIOUS
  <2>4. PICK S : S = RowsToSee("releaseTrail", ReleaseActs)'
                       \cup RowsToSee("pluginTrail", {"publish"})'
    OBVIOUS
  <2>5. PICK p \in Plugins, v \in Versions : about = <<p, v>> /\ about[1] = p /\ about[2] = v
    BY <2>1, <2>2, AboutARelease
  <2>6. R \subseteq S
    <3>1. \A acts : RowsOn(p, v, acts) \subseteq RowsOn(p, v, acts)'
      BY RowsStay
    <3> QED
      BY <1>1, <2>0, <2>2, <2>3, <2>4, <2>5, <3>1 DEF RowsToSee
  <2>7. PICK was \in BOOLEAN : was = Imported(about)
    BY DEF Imported
  <2>8. PICK is \in BOOLEAN : is = Imported(about)'
    BY DEF Imported
  <2>9. was => is
    BY <2>5, <2>7, <2>8, ImportedStays DEF Accounted
  <2>10. PICK standing : standing = page.shown["release"]
    OBVIOUS
  <2>11. Known(was, standing, R)
    BY <2>1, <2>2, <2>3, <2>7, <2>10 DEF PageTells
  <2>12. Known(is, standing, S)
    BY <2>6, <2>9, <2>11, KnownGrows
  <2>13. page'.shown["release"] = standing /\ page'.about = about
    BY <1>1, <2>2, <2>10
  <2>14. Imported(page.about)' = is
    BY <2>8, <2>13 DEF Imported
  <2> QED
    BY <2>4, <2>12, <2>13, <2>14 DEF PageTells
<1>2. CASE page'.shown = <<>>
  BY <1>2 DEF PageTells, Shown
<1>3. ASSUME NEW kind, NEW about, NEW shown, NEW part, ReadPart(kind, about, shown, part)
      PROVE  PageTells'
  <2> SUFFICES ASSUME Shown("release")' PROVE PageTells'
    BY DEF PageTells
  <2>1. /\ DOMAIN page'.shown = DOMAIN page.shown \cup {part} /\ part \notin DOMAIN page.shown
        /\ page'.shown[part] = Content(part, about)
        /\ \A x \in DOMAIN page.shown : page'.shown[x] = page.shown[x]
        /\ page.about = about /\ page'.about = about
        /\ DOMAIN page.shown \in PartsRead[kind] /\ DOMAIN page'.shown \in PartsRead[kind]
    BY <1>3, ReadShows
  <2>2. /\ \A x : Shown(x)' <=> Shown(x) \/ x = part
        /\ \A x : Shown(x) => x # part /\ page'.shown[x] = page.shown[x]
    BY <2>1 DEF Shown
  <2>3. /\ Shown("releaseTrail") \/ Shown("pluginTrail") => Shown("release")
        /\ kind = "detail"
    <3>1. kind \in {"directory", "console", "detail"}
      BY <1>3 DEF ReadPart
    <3>2. PICK before : before = DOMAIN page.shown
      OBVIOUS
    <3>3. PICK after : after = DOMAIN page'.shown
      OBVIOUS
    <3>4. /\ "releaseTrail" \in before \/ "pluginTrail" \in before => "release" \in before
          /\ "release" \in after => kind = "detail"
      BY <2>1, <3>1, <3>2, <3>3, PartsOrder
    <3> QED
      BY <3>2, <3>3, <3>4 DEF Shown
  <2>4. /\ about \in Plugins \X Versions /\ state[about] # "absent"
        /\ UNCHANGED <<state, trail, imports>>
    BY <1>3, <2>3 DEF ReadPart, table
  <2>5. \A acts : RowsOn(about[1], about[2], acts)' = RowsOn(about[1], about[2], acts)
    BY <2>4 DEF RowsOn
  <2>6. Imported(page.about)' = Imported(about)
    BY <2>1, <2>4 DEF Imported
  <2>7. CASE part = "release"
    <3>1. ~Shown("releaseTrail")' /\ ~Shown("pluginTrail")'
      BY <2>2, <2>3, <2>7
    <3>2. PICK p \in Plugins, v \in Versions : about = <<p, v>> /\ about[1] = p /\ about[2] = v
      BY <2>4
    <3>3. /\ RowsToSee("releaseTrail", ReleaseActs)' = RowsOn(p, v, ReleaseActs)
          /\ RowsToSee("pluginTrail", {"publish"})' = RowsOn(p, v, {"publish"})
      BY <2>1, <2>5, <3>1, <3>2 DEF RowsToSee
    <3>4. Known(Imported(<<p, v>>), state[<<p, v>>], RowsOn(p, v, AllActs))
      BY <2>4, <3>2 DEF Stories, Story
    <3>5. page'.shown["release"] = state[<<p, v>>]
      BY <2>1, <2>7, <3>2, ContentIs
    <3>6. Known(Imported(page.about)', page'.shown["release"],
                RowsToSee("releaseTrail", ReleaseActs)' \cup RowsToSee("pluginTrail", {"publish"})')
      BY <2>6, <3>2, <3>3, <3>4, <3>5, AllRows
    <3> QED
      BY <3>6 DEF PageTells
  <2>8. CASE part # "release"
    <3>1. Shown("release") /\ page'.shown["release"] = page.shown["release"]
      BY <2>2, <2>8
    <3>2. RowsToSee("releaseTrail", ReleaseActs)' = RowsToSee("releaseTrail", ReleaseActs)
      <4>1. CASE part = "releaseTrail"
        BY <2>1, <2>2, <4>1, ContentIs DEF RowsToSee
      <4>2. CASE part # "releaseTrail"
        BY <2>1, <2>2, <2>5, <4>2 DEF RowsToSee
      <4> QED
        BY <4>1, <4>2
    <3>3. RowsToSee("pluginTrail", {"publish"})' = RowsToSee("pluginTrail", {"publish"})
      <4>1. CASE part = "pluginTrail"
        BY <2>1, <2>2, <4>1, ContentIs DEF RowsToSee
      <4>2. CASE part # "pluginTrail"
        BY <2>1, <2>2, <2>5, <4>2 DEF RowsToSee
      <4> QED
        BY <4>1, <4>2
    <3>4. Known(Imported(page.about), page.shown["release"],
                RowsToSee("releaseTrail", ReleaseActs) \cup RowsToSee("pluginTrail", {"publish"}))
      BY <3>1 DEF PageTells
    <3>5. Known(Imported(page.about)', page'.shown["release"],
                RowsToSee("releaseTrail", ReleaseActs)' \cup RowsToSee("pluginTrail", {"publish"})')
      BY <2>1, <2>6, <3>1, <3>2, <3>3, <3>4
    <3> QED
      BY <3>5 DEF PageTells
  <2> QED
    BY <2>7, <2>8
<1> QED
  BY <1>1, <1>2, <1>3, PageStep

(***************************************************************************)
(* A reviewer who opens a release finds on the page how it came to be as   *)
(* it is shown, also while others decide on it: that it was submitted,     *)
(* unless it was imported, and what made it live, turned it down or        *)
(* retired it.                                                             *)
(***************************************************************************)
THEOREM DetailsAreExplained == Spec => []DetailIsExplained
<1>1. Init => TypeOK /\ PageShape /\ Accounted /\ Stories /\ PageTells
  <2> SUFFICES ASSUME Init PROVE TypeOK /\ PageShape /\ Accounted /\ Stories /\ PageTells
    OBVIOUS
  <2>1. TypeOK
    BY InitTypeOK
  <2>2. PageShape /\ PageTells
    <3>1. page = NoPage /\ page.shown = <<>>
      BY DEF Init, NoPage
    <3> QED
      BY <3>1, NothingShown DEF PageShape, PageTells
  <2>3. Accounted
    BY InitAccounted
  <2>4. Stories
    BY DEF Init, Stories, Story
  <2> QED
    BY <2>1, <2>2, <2>3, <2>4
<1>2. /\ TypeOK /\ PageShape /\ Accounted /\ Stories /\ PageTells /\ [Next]_vars
      => TypeOK' /\ PageShape' /\ Accounted' /\ Stories' /\ PageTells'
  BY NextTypeOK, PageShapeStep, AccountedStep, StoriesStep, PageTellsStep
<1>3. PageTells => DetailIsExplained
  <2> SUFFICES ASSUME PageTells, Shown("release"), Shown("releaseTrail"), Shown("pluginTrail")
               PROVE  DetailIsExplained
    BY DEF DetailIsExplained
  <2>1. PICK R : R = page.shown["releaseTrail"] \cup page.shown["pluginTrail"]
    OBVIOUS
  <2>2. Known(Imported(page.about), page.shown["release"], R)
    BY <2>1 DEF PageTells, RowsToSee
  <2>3. \A act, note :
          Has(R, act, note) <=> \E part \in {"releaseTrail", "pluginTrail"} :
                                  \E row \in page.shown[part] : row.act = act /\ row.note = note
    BY <2>1 DEF Has
  <2> QED
    BY <2>2, <2>3 DEF DetailIsExplained, Known
<1> QED
  BY <1>1, <1>2, <1>3, PTL DEF Spec
=============================================================================

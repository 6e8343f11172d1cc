-------------------------- MODULE PublishingProofs --------------------------
(***************************************************************************)
(* Theorems about Publishing, for every set of plugins, people, versions   *)
(* and requests, any number of them in flight.                             *)
(***************************************************************************)
EXTENDS Publishing, TLAPS

-----------------------------------------------------------------------------
(* Rows and reads.                                                         *)

\* What was imported is a row the table accepts.
LEMMA ImportedRowType ==
  ASSUME NEW s \in Submission
  PROVE  /\ ImportedRow(s) \in Row
         /\ HashIsExplained(ImportedRow(s))
BY NoneAssumption DEF ImportedRow, Row, HashIsExplained, Submission, States, Sources, Sentences, NoRow

LEMMA NoRowType == NoRow \in Row /\ HashIsExplained(NoRow)
BY DEF NoRow, Row, HashIsExplained, States, Sources, Sentences

LEMMA InitTypeOK == Init => TypeOK
<1> SUFFICES ASSUME Init PROVE TypeOK
  OBVIOUS
<1>1. \A id \in ReleaseId : release[id] \in Row /\ HashIsExplained(release[id])
  <2> TAKE id \in ReleaseId
  <2>1. CASE \E s \in Seed : id = <<s.plugin, s.version>>
    <3> DEFINE s == CHOOSE s \in Seed : id = <<s.plugin, s.version>>
    <3>1. s \in Seed
      BY <2>1
    <3>2. s \in Submission
      BY <3>1, SeedAssumption
    <3>3. release[id] = ImportedRow(s)
      BY <2>1 DEF Init
    <3> HIDE DEF s
    <3> QED
      BY <3>2, <3>3, ImportedRowType
  <2>2. CASE ~ \E s \in Seed : id = <<s.plugin, s.version>>
    BY <2>2, NoRowType DEF Init
  <2> QED
    BY <2>1, <2>2
<1>2. release \in [ReleaseId -> Row]
  <2>1. release = [id \in ReleaseId |-> release[id]]
    BY DEF Init
  <2> QED
    BY <1>1, <2>1
<1>3. NoCall \in CallState
  BY DEF NoCall, CallState, Steps, Previous, NoPrevious
<1>4. NoCheck \in CheckState
  BY DEF NoCheck, CheckState
<1>5. /\ call \in [Calls -> CallState]
      /\ \A c \in Calls : CallCarries(call[c])
      /\ check \in [Checks -> CheckState]
      /\ \A k \in Checks : CheckCarries(check[k])
  BY <1>3, <1>4 DEF Init, CallCarries, CheckCarries, NoCall, NoCheck
<1>6. keys \in [Accounts \X Keys -> KeyRow \cup {None}]
  BY DEF Init
<1>7. trust \in [Accounts -> Trust] /\ holders \in [Plugins -> SUBSET Accounts]
  BY PeopleAssumption DEF Init
<1>8. audit \subseteq Entry
  BY DEF Init
<1>9. clock \in 0 .. MaxClock
  BY ClockAssumption DEF Init
<1> QED
  BY <1>1, <1>2, <1>5, <1>6, <1>7, <1>8, <1>9 DEF TypeOK

\* Reading which version of a plugin is live.
LEMMA LiveType ==
  ASSUME NEW p \in Plugins
  PROVE  /\ Live(p) \in Versions \cup {None}
         /\ Live(p) # None => Live(p) \in LiveVersions(p)
         /\ LiveVersions(p) # {} => Live(p) # None
<1>1. CASE LiveVersions(p) = {}
  BY <1>1 DEF Live
<1>2. CASE LiveVersions(p) # {}
  <2>1. Live(p) \in LiveVersions(p)
    BY <1>2 DEF Live
  <2>2. Live(p) \in Versions
    BY <2>1 DEF LiveVersions
  <2> QED
    BY <2>1, <2>2, NoneAssumption
<1> QED
  BY <1>1, <1>2

\* What a submission is compared against has the type of it.
LEMMA PreviousType ==
  ASSUME TypeOK, NEW p \in Plugins
  PROVE  PreviousOf(p) \in Previous
<1>1. CASE Live(p) = None
  BY <1>1 DEF PreviousOf, Previous, NoPrevious
<1>2. CASE Live(p) # None
  <2>1. Live(p) \in Versions /\ <<p, Live(p)>> \in ReleaseId
    BY <1>2, LiveType DEF ReleaseId
  <2> DEFINE row == release[<<p, Live(p)>>]
  <2>2. row \in Row /\ HashIsExplained(row)
    BY <2>1 DEF TypeOK
  <2>3. Bytes(row) \in Nat \cup {None}
    BY <2>2, SizeAssumption DEF Bytes, HashIsExplained, Row
  <2>4. row.host \in Hosts \cup {None}
    BY <2>2 DEF Row
  <2>5. PreviousOf(p) = [version |-> Live(p), host |-> row.host, bytes |-> Bytes(row)]
    BY <1>2 DEF PreviousOf, AsPrevious
  <2> HIDE DEF row
  <2> QED
    BY <2>1, <2>3, <2>4, <2>5 DEF Previous
<1> QED
  BY <1>1, <1>2

\* A request in flight has a caller, a plugin and a version.
LEMMA CallParts ==
  ASSUME TypeOK, NEW c \in Calls, ~At(c, "idle")
  PROVE  /\ call[c] \in CallState
         /\ call[c].request \in Requests \cap Request
         /\ Sub(c) \in Submission
         /\ Author(c) \in Accounts
         /\ Plugin(c) \in Plugins
         /\ Named(c) \in ReleaseId
         /\ Named(c)[1] = Plugin(c)
         /\ KeyOf(call[c].request) \in Accounts \X Keys
         /\ KeySeen(c) \in KeyRow \cup {None}
<1>1. call[c] \in CallState /\ call[c].request \in Requests \cap Request
  BY RequestAssumption DEF TypeOK, CallCarries, At
<1>2. /\ Sub(c) \in Submission
      /\ Author(c) \in Accounts
      /\ KeyOf(call[c].request) \in Accounts \X Keys
  BY <1>1 DEF Sub, Author, KeyOf, Request
<1>3. Plugin(c) \in Plugins /\ Named(c) \in ReleaseId /\ Named(c)[1] = Plugin(c)
  BY <1>2 DEF Plugin, Named, Submission, ReleaseId
<1>4. KeySeen(c) \in KeyRow \cup {None}
  BY <1>2 DEF KeySeen, TypeOK
<1> QED
  BY <1>1, <1>2, <1>3, <1>4

\* A slot that holds an answer has the type of a slot.
LEMMA AnswerType ==
  ASSUME TypeOK, NEW c \in Calls, NEW q \in Requests,
         NEW answer \in Refusals \cup {"recorded", "replayed"},
         NEW id \in ReleaseId \cup {None}, Answer(c, q, answer, id)
  PROVE  /\ call' \in [Calls -> CallState]
         /\ \A d \in Calls : CallCarries(call'[d])
<1> DEFINE s == [NoCall EXCEPT !.pc = "answered", !.request = q,
                               !.answer = answer, !.told = id]
<1>1. s \in CallState /\ CallCarries(s)
  BY RequestAssumption DEF NoCall, CallState, Steps, Previous, NoPrevious, CallCarries
<1>2. call' = [call EXCEPT ![c] = s]
  BY DEF Answer
<1> HIDE DEF s
<1> QED
  BY <1>1, <1>2 DEF TypeOK

-----------------------------------------------------------------------------
(* Type correctness: the steps of a publish.                               *)

LEMMA BeginTypeOK ==
  ASSUME TypeOK, NEW c \in Calls, NEW q \in Requests, Begin(c, q)
  PROVE  TypeOK'
<1> DEFINE row == keys[KeyOf(q)]
<1>1. q \in Request /\ KeyOf(q) \in Accounts \X Keys
  BY RequestAssumption DEF KeyOf, Request
<1>2. row \in KeyRow \cup {None}
  BY <1>1 DEF TypeOK
<1>3. /\ call' \in [Calls -> CallState]
      /\ \A d \in Calls : CallCarries(call'[d])
  <2>1. CASE row = None
    <3> DEFINE s == [NoCall EXCEPT !.pc = "authority", !.request = q]
    <3>1. s \in CallState /\ CallCarries(s)
      BY <1>1 DEF NoCall, CallState, Steps, Previous, NoPrevious, CallCarries
    <3>2. call' = [call EXCEPT ![c] = s]
      BY <2>1 DEF Begin
    <3> HIDE DEF s
    <3> QED
      BY <3>1, <3>2 DEF TypeOK
  <2>2. CASE row # None
    <3>1. row.release \in ReleaseId
      BY <1>2, <2>2 DEF KeyRow
    <3>2. \/ Answer(c, q, "replayed", row.release)
          \/ Answer(c, q, "idempotency_key_reused", None)
      BY <2>2 DEF Begin
    <3> QED
      BY <3>1, <3>2, AnswerType DEF Refusals
  <2> QED
    BY <2>1, <2>2
<1> QED
  BY <1>3 DEF TypeOK, Begin, tables, people

LEMMA RefuseType ==
  ASSUME TypeOK, NEW c \in Calls, ~At(c, "idle"), NEW answer \in Refusals,
         Refuse(c, answer)
  PROVE  /\ call' \in [Calls -> CallState]
         /\ \A d \in Calls : CallCarries(call'[d])
<1>1. call[c].request \in Requests
  BY DEF TypeOK, CallCarries, At
<1> QED
  BY <1>1, AnswerType DEF Refuse

LEMMA CheckAuthorityTypeOK ==
  ASSUME TypeOK, NEW c \in Calls, CheckAuthority(c)
  PROVE  TypeOK'
<1>1. ~At(c, "idle")
  BY DEF CheckAuthority, At
<1>2. /\ call' \in [Calls -> CallState]
      /\ \A d \in Calls : CallCarries(call'[d])
  <2>1. CASE Refuse(c, "not_publishable") \/ Refuse(c, "github_identity_required")
    BY <1>1, <2>1, RefuseType DEF Refusals
  <2>2. CASE call' = [call EXCEPT ![c].pc = "version"]
    <3> DEFINE s == [call[c] EXCEPT !.pc = "version"]
    <3>1. s \in CallState /\ CallCarries(s)
      <4>1. call[c] \in CallState /\ call[c].request \in Requests
        BY <1>1, CallParts
      <4>2. s \in CallState
        BY <4>1 DEF CallState, Steps
      <4> QED
        BY <4>1, <4>2 DEF CallCarries, CallState
    <3>2. call' = [call EXCEPT ![c] = s]
      BY <2>2
    <3> HIDE DEF s
    <3> QED
      BY <3>1, <3>2 DEF TypeOK
  <2> QED
    BY <2>1, <2>2 DEF CheckAuthority
<1> QED
  BY <1>2 DEF TypeOK, CheckAuthority, tables, people

LEMMA CheckVersionUnusedTypeOK ==
  ASSUME TypeOK, NEW c \in Calls, CheckVersionUnused(c)
  PROVE  TypeOK'
<1>1. ~At(c, "idle")
  BY DEF CheckVersionUnused, At
<1>2. /\ call' \in [Calls -> CallState]
      /\ \A d \in Calls : CallCarries(call'[d])
  <2>1. CASE Refuse(c, "version_exists")
    BY <1>1, <2>1, RefuseType DEF Refusals
  <2>2. CASE call' = [call EXCEPT ![c].pc = "trust"]
    <3> DEFINE s == [call[c] EXCEPT !.pc = "trust"]
    <3>1. s \in CallState /\ CallCarries(s)
      <4>1. call[c] \in CallState /\ call[c].request \in Requests
        BY <1>1, CallParts
      <4>2. s \in CallState
        BY <4>1 DEF CallState, Steps
      <4> QED
        BY <4>1, <4>2 DEF CallCarries, CallState
    <3>2. call' = [call EXCEPT ![c] = s]
      BY <2>2
    <3> HIDE DEF s
    <3> QED
      BY <3>1, <3>2 DEF TypeOK
  <2> QED
    BY <2>1, <2>2 DEF CheckVersionUnused
<1> QED
  BY <1>2 DEF TypeOK, CheckVersionUnused, tables, people

LEMMA ReadTrustTypeOK ==
  ASSUME TypeOK, NEW c \in Calls, ReadTrust(c)
  PROVE  TypeOK'
<1>1. ~At(c, "idle")
  BY DEF ReadTrust, At
<1>2. trust[Author(c)] \in Trust
  BY <1>1, CallParts DEF TypeOK
<1>3. /\ call' \in [Calls -> CallState]
      /\ \A d \in Calls : CallCarries(call'[d])
  <2>1. CASE Refuse(c, "account_blocked")
    BY <1>1, <2>1, RefuseType DEF Refusals
  <2> DEFINE s == [call[c] EXCEPT !.pc = "previous", !.trust = trust[Author(c)]]
  <2>2. CASE call' = [call EXCEPT ![c] = s]
    <3>1. call[c] \in CallState /\ call[c].request \in Requests
      BY <1>1, CallParts
    <3>2. s \in CallState
      BY <1>2, <3>1 DEF CallState, Steps
    <3>3. CallCarries(s)
      BY <3>1 DEF CallCarries, CallState
    <3> HIDE DEF s
    <3> QED
      BY <2>2, <3>2, <3>3 DEF TypeOK
  <2> QED
    BY <2>1, <2>2 DEF ReadTrust
<1> QED
  BY <1>3 DEF TypeOK, ReadTrust, tables, people

LEMMA ReadPreviousTypeOK ==
  ASSUME TypeOK, NEW c \in Calls, ReadPrevious(c)
  PROVE  TypeOK'
<1>1. ~At(c, "idle")
  BY DEF ReadPrevious, At
<1>2. PreviousOf(Plugin(c)) \in Previous
  BY <1>1, CallParts, PreviousType
<1>3. /\ call' \in [Calls -> CallState]
      /\ \A d \in Calls : CallCarries(call'[d])
  <2> DEFINE s == [call[c] EXCEPT !.pc = "fetch", !.prev = PreviousOf(Plugin(c))]
  <2>1. call[c] \in CallState /\ call[c].request \in Requests
    BY <1>1, CallParts
  <2>2. s \in CallState
    BY <1>2, <2>1 DEF CallState, Steps
  <2>3. CallCarries(s)
    BY <2>1 DEF CallCarries, CallState
  <2>4. call' = [call EXCEPT ![c] = s]
    BY DEF ReadPrevious
  <2> HIDE DEF s
  <2> QED
    BY <2>2, <2>3, <2>4 DEF TypeOK
<1> QED
  BY <1>3 DEF TypeOK, ReadPrevious, tables, people

LEMMA FetchTypeOK ==
  ASSUME TypeOK, NEW c \in Calls, Fetch(c)
  PROVE  TypeOK'
<1>1. ~At(c, "idle")
  BY DEF Fetch, At
<1>2. PICK sha \in FetchResults :
        LET reasons == EvaluateQuarantine(call[c].prev, Sub(c), sha) IN
        call' = [call EXCEPT ![c] =
                   [@ EXCEPT !.pc      = "record",
                             !.sha     = sha,
                             !.reasons = reasons,
                             !.lands   = Decide(call[c].trust, reasons),
                             !.at      = clock]]
  BY DEF Fetch
<1> DEFINE reasons == EvaluateQuarantine(call[c].prev, Sub(c), sha)
           lands   == Decide(call[c].trust, reasons)
<1>3. reasons \in SUBSET Reasons
  BY DEF EvaluateQuarantine
<1>4. lands \in {"pending", "approved"} /\ lands # None
  BY PeopleAssumption DEF Decide, States
<1>5. clock \in Nat
  BY ClockAssumption DEF TypeOK
<1>6. sha \in Digests \cup {None}
  BY DEF FetchResults
<1> DEFINE s == [call[c] EXCEPT !.pc = "record", !.sha = sha, !.reasons = reasons,
                                !.lands = lands, !.at = clock]
<1>7. call' = [call EXCEPT ![c] = s]
  BY <1>2
<1> HIDE DEF reasons, lands
<1>8. s \in CallState /\ CallCarries(s)
  <2>1. call[c] \in CallState /\ call[c].request \in Requests
    BY <1>1, CallParts
  <2>2. s \in CallState
    BY <1>3, <1>4, <1>5, <1>6, <2>1 DEF CallState, Steps
  <2>3. s.request = call[c].request /\ s.lands = lands
    BY <2>1 DEF CallState
  <2> QED
    BY <1>4, <2>1, <2>2, <2>3 DEF CallCarries
<1> HIDE DEF s
<1>9. /\ call' \in [Calls -> CallState]
      /\ \A d \in Calls : CallCarries(call'[d])
  BY <1>7, <1>8 DEF TypeOK
<1> QED
  BY <1>9 DEF TypeOK, Fetch, tables, people

\* Every row of a release table is one the table accepts.
RowsOK(rows) ==
  /\ rows \in [ReleaseId -> Row]
  /\ \A id \in ReleaseId : HashIsExplained(rows[id])

LEMMA SupersedeType ==
  ASSUME NEW rows, RowsOK(rows), NEW p, NEW state \in {"pending", "approved"}
  PROVE  RowsOK(Supersede(rows, p, state))
<1> DEFINE new == Supersede(rows, p, state)
<1>1. new = [id \in ReleaseId |->
               IF id[1] = p /\ rows[id].state = state
               THEN [rows[id] EXCEPT !.state = "superseded"]
               ELSE rows[id]]
  BY DEF Supersede
<1> HIDE DEF new
<1>2. ASSUME NEW id \in ReleaseId
      PROVE  new[id] \in Row /\ HashIsExplained(new[id])
  <2>1. rows[id] \in Row /\ HashIsExplained(rows[id])
    BY DEF RowsOK
  <2>2. CASE id[1] = p /\ rows[id].state = state
    <3> DEFINE row == [rows[id] EXCEPT !.state = "superseded"]
    <3>1. row \in Row
      BY <2>1 DEF Row, States, Sources
    <3>2. HashIsExplained(row)
      BY <2>1, <2>2 DEF Row, HashIsExplained
    <3>3. new[id] = row
      BY <1>1, <2>2
    <3> HIDE DEF row
    <3> QED
      BY <3>1, <3>2, <3>3
  <2>3. CASE ~(id[1] = p /\ rows[id].state = state)
    BY <1>1, <2>1, <2>3
  <2> QED
    BY <2>2, <2>3
<1>3. new \in [ReleaseId -> Row]
  BY <1>1, <1>2
<1>4. RowsOK(new)
  BY <1>2, <1>3 DEF RowsOK
<1> QED
  BY <1>4 DEF new

LEMMA ReplaceType ==
  ASSUME NEW rows, RowsOK(rows), NEW id \in ReleaseId,
         NEW row \in Row, HashIsExplained(row)
  PROVE  RowsOK([rows EXCEPT ![id] = row])
BY DEF RowsOK

\* The row a publish writes.
LEMMA PublishedRowType ==
  ASSUME TypeOK, NEW c \in Calls, At(c, "record")
  PROVE  /\ LandsAs(c) \in {"pending", "approved"}
         /\ PublishedRow(c) \in Row
         /\ HashIsExplained(PublishedRow(c))
<1>1. ~At(c, "idle")
  BY DEF At
<1>2. /\ call[c] \in CallState
      /\ Sub(c) \in Submission
      /\ Author(c) \in Accounts
  BY <1>1, CallParts
<1>3. call[c].lands \in {"pending", "approved"}
  BY <1>2 DEF TypeOK, CallCarries, CallState, At
<1>4. LandsAs(c) \in {"pending", "approved"}
  BY <1>3 DEF LandsAs
<1>5. NoteOf(c) \in SUBSET (Reasons \cup Sentences)
  BY <1>2 DEF NoteOf, CallState, Sentences
<1>6. /\ Sub(c).host \in Hosts
      /\ call[c].sha \in Digests \cup {None}
      /\ call[c].at \in Nat
  BY <1>2 DEF Submission, CallState
<1> DEFINE row == PublishedRow(c)
<1>7. row = [state |-> LandsAs(c), source |-> "publish", host |-> Sub(c).host,
             sha |-> call[c].sha, verified |-> call[c].sha # None,
             submittedBy |-> Author(c), submittedAt |-> call[c].at,
             reviewedBy |-> None, note |-> NoteOf(c)]
  BY DEF PublishedRow, VerifiedAtPublish
<1> HIDE DEF row
<1>8. row \in Row
  BY <1>2, <1>4, <1>5, <1>6, <1>7 DEF Row, States, Sources
<1>9. HashIsExplained(row)
  BY <1>4, <1>7 DEF HashIsExplained
<1> QED
  BY <1>4, <1>8, <1>9 DEF row

\* The release table a publish leaves.
LEMMA WrittenType ==
  ASSUME TypeOK, NEW c \in Calls, RecordWritten(c)
  PROVE  RowsOK(release')
<1>1. At(c, "record") /\ ~At(c, "idle")
  BY DEF RecordWritten, At
<1>2. Named(c) \in ReleaseId
  BY <1>1, CallParts
<1>3. RowsOK(release)
  BY DEF TypeOK, RowsOK
<1>4. RowsOK(WithoutLive(c))
  BY <1>3, SupersedeType DEF WithoutLive
<1>5. RowsOK(WithoutWaiting(c))
  BY <1>4, SupersedeType DEF WithoutWaiting
<1>6. release' = [WithoutWaiting(c) EXCEPT ![Named(c)] = PublishedRow(c)]
  BY DEF RecordWritten
<1> QED
  BY <1>1, <1>2, <1>5, <1>6, PublishedRowType, ReplaceType

\* What a publish adds to the audit log.
LEMMA PublishEntriesType ==
  ASSUME TypeOK, NEW c \in Calls, At(c, "record")
  PROVE  Retirements(c) \cup {PublishEntry(c)} \subseteq Entry
<1>1. ~At(c, "idle")
  BY DEF At
<1>2. /\ call[c] \in CallState
      /\ Sub(c) \in Submission
      /\ Author(c) \in Accounts
      /\ Plugin(c) \in Plugins
      /\ Named(c) \in ReleaseId
  BY <1>1, CallParts
<1>3. Replaced(c) \in Versions \cup {None}
  BY <1>2, LiveType DEF Replaced
<1>4. Retired(c) \in SUBSET Versions
  BY DEF Retired, WaitingVersions
<1>5. LandsAs(c) \in {"pending", "approved"}
  BY PublishedRowType
<1>6. PublishEntry(c) \in Entry
  <2>1. call[c].reasons \in SUBSET Reasons
    BY <1>2 DEF CallState
  <2> QED
    BY <1>2, <1>3, <1>4, <1>5, <2>1 DEF PublishEntry, Entry
<1>7. ASSUME NEW v \in Retired(c)
      PROVE  [action |-> "release.superseded", release |-> <<Plugin(c), v>>,
              by |-> Author(c), newer |-> Sub(c).version] \in Entry
  <2>1. v \in Versions /\ Sub(c).version \in Versions
    BY <1>2, <1>4 DEF Submission
  <2>2. <<Plugin(c), v>> \in ReleaseId
    BY <1>2, <2>1 DEF ReleaseId
  <2> QED
    BY <1>2, <2>1, <2>2 DEF Entry
<1>8. Retirements(c) \subseteq Entry
  BY <1>7 DEF Retirements
<1> QED
  BY <1>6, <1>8

LEMMA RecordWrittenTypeOK ==
  ASSUME TypeOK, NEW c \in Calls, RecordWritten(c)
  PROVE  TypeOK'
<1>1. At(c, "record") /\ ~At(c, "idle")
  BY DEF RecordWritten, At
<1>2. /\ call[c].request \in Requests
      /\ Sub(c) \in Submission
      /\ Named(c) \in ReleaseId
      /\ KeyOf(call[c].request) \in Accounts \X Keys
  BY <1>1, CallParts
<1>3. RowsOK(release')
  BY WrittenType
<1>4. keys' \in [Accounts \X Keys -> KeyRow \cup {None}]
  <2>1. [body |-> Sub(c), release |-> Named(c)] \in KeyRow
    BY <1>2 DEF KeyRow
  <2> QED
    BY <1>2, <2>1 DEF RecordWritten, TypeOK
<1>5. audit' \subseteq Entry
  <2>1. audit' = audit \cup (Retirements(c) \cup {PublishEntry(c)})
    BY DEF RecordWritten
  <2>2. audit \subseteq Entry
    BY DEF TypeOK
  <2> QED
    BY <1>1, <2>1, <2>2, PublishEntriesType
<1>6. /\ call' \in [Calls -> CallState]
      /\ \A d \in Calls : CallCarries(call'[d])
  BY <1>2, AnswerType DEF RecordWritten
<1> QED
  BY <1>3, <1>4, <1>5, <1>6 DEF TypeOK, RowsOK, RecordWritten, people

LEMMA RecordStoppedTypeOK ==
  ASSUME TypeOK, NEW c \in Calls, RecordStopped(c)
  PROVE  TypeOK'
<1>1. At(c, "record") /\ ~At(c, "idle")
  BY DEF RecordStopped, At
<1>2. call[c].request \in Requests /\ KeySeen(c) \in KeyRow \cup {None}
  BY <1>1, CallParts
<1>3. /\ call' \in [Calls -> CallState]
      /\ \A d \in Calls : CallCarries(call'[d])
  <2>1. CASE Stopped(c) = "replayed"
    <3>1. KeySeen(c) # None
      BY <2>1 DEF Stopped, RecordStopped
    <3>2. KeySeen(c).release \in ReleaseId
      BY <1>2, <3>1 DEF KeyRow
    <3> QED
      BY <1>2, <2>1, <3>2, AnswerType DEF RecordStopped
  <2>2. CASE Stopped(c) # "replayed"
    <3>1. Stopped(c) \in Refusals
      BY <2>2 DEF RecordStopped, Stopped, Refusals
    <3> QED
      BY <1>1, <2>2, <3>1, RefuseType DEF RecordStopped
  <2> QED
    BY <2>1, <2>2
<1> QED
  BY <1>3 DEF TypeOK, RecordStopped, tables, people

LEMMA EndTypeOK ==
  ASSUME TypeOK, NEW c \in Calls, Finish(c) \/ Lose(c)
  PROVE  TypeOK'
<1>1. NoCall \in CallState /\ CallCarries(NoCall)
  BY DEF NoCall, CallState, Steps, Previous, NoPrevious, CallCarries
<1>2. call' = [call EXCEPT ![c] = NoCall]
  BY DEF Finish, Lose
<1>3. UNCHANGED <<tables, people, check, clock>>
  BY DEF Finish, Lose
<1> QED
  BY <1>1, <1>2, <1>3 DEF TypeOK, tables, people

-----------------------------------------------------------------------------
(* Type correctness: the reviewers and everybody else.                     *)

\* A row a reviewer has decided.
LEMMA ReviewedType ==
  ASSUME NEW row \in Row, HashIsExplained(row), NEW rv \in Reviewers,
         NEW state \in {"approved", "rejected"}
  PROVE  /\ Reviewed(row, state, rv) \in Row
         /\ HashIsExplained(Reviewed(row, state, rv))
BY DEF Reviewed, Row, HashIsExplained, States, Sentences

LEMMA ApproveTypeOK ==
  ASSUME TypeOK, NEW id \in ReleaseId, NEW rv \in Reviewers, Approve(id, rv)
  PROVE  TypeOK'
<1>1. RowsOK(release) /\ release[id] \in Row /\ HashIsExplained(release[id])
  BY DEF TypeOK, RowsOK
<1>2. RowsOK(Supersede(release, id[1], "approved"))
  BY <1>1, SupersedeType
<1>3. RowsOK(release')
  <2>1. release' = [Supersede(release, id[1], "approved")
                      EXCEPT ![id] = Reviewed(release[id], "approved", rv)]
    BY DEF Approve
  <2> QED
    BY <1>1, <1>2, <2>1, ReviewedType, ReplaceType
<1>4. audit' \subseteq Entry
  <2>1. Live(id[1]) \in Versions \cup {None}
    BY LiveType DEF ReleaseId
  <2>2. [action |-> "release.approve", release |-> id, by |-> rv,
         superseded |-> Live(id[1])] \in Entry
    BY <2>1 DEF Entry
  <2> QED
    BY <2>2 DEF Approve, TypeOK
<1> QED
  BY <1>3, <1>4 DEF TypeOK, RowsOK, Approve, people

LEMMA RejectTypeOK ==
  ASSUME TypeOK, NEW id \in ReleaseId, NEW rv \in Reviewers, Reject(id, rv)
  PROVE  TypeOK'
<1>1. RowsOK(release) /\ release[id] \in Row /\ HashIsExplained(release[id])
  BY DEF TypeOK, RowsOK
<1>2. RowsOK(release')
  <2>1. release' = [release EXCEPT ![id] = Reviewed(release[id], "rejected", rv)]
    BY DEF Reject
  <2> QED
    BY <1>1, <2>1, ReviewedType, ReplaceType
<1>3. audit' \subseteq Entry
  <2>1. [action |-> "release.reject", release |-> id, by |-> rv] \in Entry
    BY DEF Entry
  <2> QED
    BY <2>1 DEF Reject, TypeOK
<1> QED
  BY <1>2, <1>3 DEF TypeOK, RowsOK, Reject, people

LEMMA ReverifyReadTypeOK ==
  ASSUME TypeOK, NEW k \in Checks, NEW id \in ReleaseId, NEW rv \in Reviewers,
         ReverifyRead(k, id, rv)
  PROVE  TypeOK'
<1> DEFINE s == [pc |-> "fetch", release |-> id, reviewer |-> rv, sha |-> None]
<1>1. s \in CheckState /\ CheckCarries(s)
  BY RequestAssumption, PeopleAssumption DEF CheckState, CheckCarries
<1>2. check' = [check EXCEPT ![k] = s]
  BY DEF ReverifyRead
<1> HIDE DEF s
<1> QED
  BY <1>1, <1>2 DEF TypeOK, ReverifyRead, tables, people

LEMMA ReverifyFetchTypeOK ==
  ASSUME TypeOK, NEW k \in Checks, ReverifyFetch(k)
  PROVE  TypeOK'
<1>1. PICK sha \in FetchResults :
        check' = [check EXCEPT ![k] = [@ EXCEPT !.pc = "record", !.sha = sha]]
  BY DEF ReverifyFetch
<1> DEFINE s == [check[k] EXCEPT !.pc = "record", !.sha = sha]
<1>2. check[k] \in CheckState /\ CheckCarries(check[k]) /\ check[k].pc = "fetch"
  BY DEF TypeOK, ReverifyFetch
<1>3. s \in CheckState
  BY <1>2 DEF CheckState, FetchResults
<1>4. CheckCarries(s)
  BY <1>2 DEF CheckState, CheckCarries
<1>5. check' = [check EXCEPT ![k] = s]
  BY <1>1
<1> HIDE DEF s
<1> QED
  BY <1>3, <1>4, <1>5 DEF TypeOK, ReverifyFetch, tables, people

\* A re-verification that is over.
LEMMA CheckEnds ==
  ASSUME TypeOK, NEW k \in Checks, check' = [check EXCEPT ![k] = NoCheck]
  PROVE  /\ check' \in [Checks -> CheckState]
         /\ \A j \in Checks : CheckCarries(check'[j])
<1>1. NoCheck \in CheckState /\ CheckCarries(NoCheck)
  BY DEF NoCheck, CheckState, CheckCarries
<1> QED
  BY <1>1 DEF TypeOK

LEMMA ReverifyRecordTypeOK ==
  ASSUME TypeOK, NEW k \in Checks, ReverifyRecord(k)
  PROVE  TypeOK'
<1> DEFINE id  == check[k].release
           sha == check[k].sha
<1>1. /\ id \in ReleaseId
      /\ check[k].reviewer \in Reviewers
      /\ sha \in Digests \cup {None}
  BY DEF TypeOK, CheckState, CheckCarries, ReverifyRecord
<1>2. /\ check' \in [Checks -> CheckState]
      /\ \A j \in Checks : CheckCarries(check'[j])
  BY CheckEnds DEF ReverifyRecord
<1>3. ReverifyEntry(k) \in Entry
  BY <1>1 DEF ReverifyEntry, Entry
<1>4. audit' \subseteq Entry
  BY <1>3 DEF ReverifyRecord, TypeOK
<1>5. RowsOK(release')
  <2>1. RowsOK(release) /\ release[id] \in Row /\ HashIsExplained(release[id])
    BY <1>1 DEF TypeOK, RowsOK
  <2>2. CASE UNCHANGED release
    BY <2>1, <2>2
  <2>3. CASE /\ sha # None
             /\ Blank(release[id])
             /\ release' = [release EXCEPT ![id] = Verified(release[id], sha)]
    <3> DEFINE row == Verified(release[id], sha)
    <3>1. row \in Row
      BY <1>1, <2>1, <2>3 DEF Verified, Row, Sentences
    <3>2. HashIsExplained(row)
      BY <2>1, <2>3 DEF Verified, HashIsExplained, Row, Blank, Waiting
    <3> HIDE DEF row
    <3> QED
      BY <1>1, <2>1, <2>3, <3>1, <3>2, ReplaceType DEF row
  <2> QED
    BY <2>2, <2>3 DEF ReverifyRecord
<1> QED
  BY <1>2, <1>4, <1>5 DEF TypeOK, RowsOK, ReverifyRecord, people

LEMMA LoseCheckTypeOK ==
  ASSUME TypeOK, NEW k \in Checks, LoseCheck(k)
  PROVE  TypeOK'
BY CheckEnds DEF LoseCheck, TypeOK, tables, people

LEMMA SetTrustTypeOK ==
  ASSUME TypeOK, NEW a \in Accounts, NEW tier \in Tiers, SetTrust(a, tier)
  PROVE  TypeOK'
BY PeopleAssumption DEF SetTrust, TypeOK, tables

LEMMA HoldersChangeTypeOK ==
  ASSUME TypeOK, HoldersChange
  PROVE  TypeOK'
<1>1. holders' \in [Plugins -> SUBSET Accounts]
  BY DEF HoldersChange, Holding!Next, Holding!Grant, Holding!Revoke, TypeOK
<1> QED
  BY <1>1 DEF HoldersChange, TypeOK, tables

LEMMA TickTypeOK ==
  ASSUME TypeOK, Tick
  PROVE  TypeOK'
<1>1. clock' \in 0 .. MaxClock
  BY ClockAssumption DEF Tick, TypeOK
<1> QED
  BY <1>1 DEF Tick, TypeOK, tables, people

LEMMA NextTypeOK == TypeOK /\ [Next]_vars => TypeOK'
<1> SUFFICES ASSUME TypeOK, [Next]_vars PROVE TypeOK'
  OBVIOUS
<1>1. ASSUME NEW c \in Calls, Publish(c) PROVE TypeOK'
  BY <1>1, BeginTypeOK, CheckAuthorityTypeOK, CheckVersionUnusedTypeOK,
     ReadTrustTypeOK, ReadPreviousTypeOK, FetchTypeOK, RecordStoppedTypeOK,
     RecordWrittenTypeOK, EndTypeOK DEF Publish
<1>2. ASSUME NEW rv \in Reviewers, Review(rv) PROVE TypeOK'
  BY <1>2, ApproveTypeOK, RejectTypeOK, ReverifyReadTypeOK, SetTrustTypeOK DEF Review
<1>3. ASSUME NEW k \in Checks, Reverify(k) PROVE TypeOK'
  BY <1>3, ReverifyFetchTypeOK, ReverifyRecordTypeOK, LoseCheckTypeOK DEF Reverify
<1>4. CASE HoldersChange
  BY <1>4, HoldersChangeTypeOK
<1>5. CASE Tick
  BY <1>5, TickTypeOK
<1>6. CASE UNCHANGED vars
  BY <1>6 DEF vars, TypeOK
<1> QED
  BY <1>1, <1>2, <1>3, <1>4, <1>5, <1>6 DEF Next

(***************************************************************************)
(* Every table and every request in flight keeps its type, and no release  *)
(* row the code writes is one the database's CHECKs would refuse.          *)
(***************************************************************************)
THEOREM TypeCorrect == Spec => []TypeOK
BY InitTypeOK, NextTypeOK, PTL DEF Spec
=============================================================================

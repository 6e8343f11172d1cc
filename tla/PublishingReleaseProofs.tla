----------------------- MODULE PublishingReleaseProofs -----------------------
(***************************************************************************)
(* What becomes of the release table, for every instance of Publishing:    *)
(* what a row may become, what a plugin lists (one live release and one    *)
(* waiting, never none again once it had one), and that the table keeps    *)
(* the promise of module ReleaseLife.                                      *)
(***************************************************************************)
EXTENDS PublishingProofs

-----------------------------------------------------------------------------
(* The shape of a step: every way a row of the release table changes.      *)

\* A publish's transaction writes this row, which was not there.
Written(id) ==
  \E c \in Calls : /\ RecordWritten(c)
                   /\ id = Named(c)
                   /\ release[id] = NoRow
                   /\ release'[id] = PublishedRow(c)

\* A newer release takes its place: one that a publish writes, or one approved.
Retiring(id) ==
  /\ release[id].state \in {"approved", "pending"}
  /\ release'[id] = [release[id] EXCEPT !.state = "superseded"]
  /\ \/ \E c \in Calls :
          /\ RecordWritten(c)
          /\ id[1] = Plugin(c)
          /\ release[id].state = "approved" => LandsAs(c) = "approved"
     \/ \E new \in ReleaseId, rv \in Reviewers :
          /\ Approve(new, rv)
          /\ id[1] = new[1]
          /\ release[id].state = "approved"

\* A reviewer decides.
Deciding(id) ==
  /\ Waiting(release[id])
  /\ \E rv \in Reviewers :
       \/ /\ Approve(id, rv)
          /\ Approvable(release[id])
          /\ release'[id] = Reviewed(release[id], "approved", rv)
       \/ /\ Reject(id, rv)
          /\ release'[id] = Reviewed(release[id], "rejected", rv)

\* A later download fills the blank in.
Filling(id) ==
  /\ Blank(release[id])
  /\ \E k \in Checks : /\ id = check[k].release
                      /\ check[k].sha \in Digests
                      /\ release'[id] = Verified(release[id], check[k].sha)
                      /\ ReverifyEntry(k) \in audit'

RowStep(id) ==
  \/ release'[id] = release[id]
  \/ Written(id)
  \/ Retiring(id)
  \/ Deciding(id)
  \/ Filling(id)

\* What superseding does to one row.
LEMMA SupersedeRow ==
  ASSUME NEW rows, NEW p, NEW state, NEW id \in ReleaseId
  PROVE  /\ id[1] = p /\ rows[id].state = state =>
              Supersede(rows, p, state)[id] = [rows[id] EXCEPT !.state = "superseded"]
         /\ ~(id[1] = p /\ rows[id].state = state) =>
              Supersede(rows, p, state)[id] = rows[id]
BY DEF Supersede

LEMMA RecordWrittenRows ==
  ASSUME TypeOK, NEW c \in Calls, RecordWritten(c), NEW id \in ReleaseId
  PROVE  RowStep(id)
<1>1. At(c, "record") /\ ~At(c, "idle") /\ Stopped(c) = None
  BY DEF RecordWritten, At
<1>2. Named(c) \in ReleaseId
  BY <1>1, CallParts
<1>3. release[Named(c)] = NoRow
  <2>1. release[Named(c)].state = "absent"
    BY <1>1, AnswerAssumption DEF Stopped, VersionTaken, Refusals
  <2> QED
    BY <1>2, <2>1 DEF TypeOK, HashIsExplained
<1>4. release' = [WithoutWaiting(c) EXCEPT ![Named(c)] = PublishedRow(c)]
  BY DEF RecordWritten
<1>5. WithoutWaiting(c) = [i \in ReleaseId |-> WithoutWaiting(c)[i]]
  BY DEF WithoutWaiting, Supersede
<1>6. CASE id = Named(c)
  <2>1. release'[id] = PublishedRow(c)
    BY <1>2, <1>4, <1>5, <1>6
  <2> QED
    BY <1>3, <1>6, <2>1 DEF RowStep, Written
<1>7. CASE id # Named(c)
  <2>1. release'[id] = WithoutWaiting(c)[id]
    BY <1>4, <1>5, <1>7
  <2>2. \/ WithoutLive(c)[id] = release[id]
        \/ /\ release[id].state = "approved"
           /\ id[1] = Plugin(c) /\ LandsAs(c) = "approved"
           /\ WithoutLive(c)[id] = [release[id] EXCEPT !.state = "superseded"]
    BY SupersedeRow DEF WithoutLive
  <2>3. \/ WithoutWaiting(c)[id] = WithoutLive(c)[id]
        \/ /\ WithoutLive(c)[id].state = "pending"
           /\ id[1] = Plugin(c)
           /\ WithoutWaiting(c)[id] = [WithoutLive(c)[id] EXCEPT !.state = "superseded"]
    BY SupersedeRow DEF WithoutWaiting
  <2>4. release[id] \in Row
    BY DEF TypeOK
  <2>5. CASE release'[id] = release[id]
    BY <2>5 DEF RowStep
  <2>6. CASE release'[id] # release[id]
    <3>1. /\ release[id].state \in {"approved", "pending"}
          /\ release'[id] = [release[id] EXCEPT !.state = "superseded"]
          /\ id[1] = Plugin(c)
          /\ release[id].state = "approved" => LandsAs(c) = "approved"
      BY <2>1, <2>2, <2>3, <2>4, <2>6 DEF Row
    <3> QED
      BY <3>1 DEF RowStep, Retiring
  <2> QED
    BY <2>5, <2>6
<1> QED
  BY <1>6, <1>7

LEMMA ApproveRows ==
  ASSUME TypeOK, NEW r \in ReleaseId, NEW rv \in Reviewers, Approve(r, rv),
         NEW id \in ReleaseId
  PROVE  RowStep(id)
<1> DEFINE rows == Supersede(release, r[1], "approved")
<1>1. release' = [rows EXCEPT ![r] = Reviewed(release[r], "approved", rv)]
  BY DEF Approve
<1>2. rows = [i \in ReleaseId |-> rows[i]]
  BY DEF Supersede
<1>3. \/ rows[id] = release[id]
      \/ /\ release[id].state = "approved"
         /\ id[1] = r[1]
         /\ rows[id] = [release[id] EXCEPT !.state = "superseded"]
  BY SupersedeRow
<1> HIDE DEF rows
<1>4. CASE id = r
  <2>1. release'[id] = Reviewed(release[id], "approved", rv)
    BY <1>1, <1>2, <1>4
  <2>2. Approvable(release[id]) /\ Waiting(release[id])
    BY <1>4 DEF Approve, Approvable
  <2>3. Approve(id, rv)
    BY <1>4 DEF Approve
  <2> QED
    BY <2>1, <2>2, <2>3 DEF RowStep, Deciding
<1>5. CASE id # r
  <2>1. release'[id] = rows[id]
    BY <1>1, <1>2, <1>5
  <2>2. CASE rows[id] = release[id]
    BY <2>1, <2>2 DEF RowStep
  <2>3. CASE rows[id] # release[id]
    <3>1. release[id].state = "approved" /\ id[1] = r[1]
      BY <1>3, <2>3
    <3> QED
      BY <1>3, <2>1, <2>3, <3>1 DEF RowStep, Retiring
  <2> QED
    BY <2>2, <2>3
<1> QED
  BY <1>4, <1>5

LEMMA RejectRows ==
  ASSUME TypeOK, NEW r \in ReleaseId, NEW rv \in Reviewers, Reject(r, rv),
         NEW id \in ReleaseId
  PROVE  RowStep(id)
<1>1. release' = [release EXCEPT ![r] = Reviewed(release[r], "rejected", rv)]
  BY DEF Reject
<1>2. release = [i \in ReleaseId |-> release[i]]
  BY DEF TypeOK
<1>3. CASE id = r
  <2>1. release'[id] = Reviewed(release[id], "rejected", rv)
    BY <1>1, <1>2, <1>3
  <2>2. Waiting(release[id])
    BY <1>3 DEF Reject, Rejectable
  <2>3. Reject(id, rv)
    BY <1>3 DEF Reject
  <2> QED
    BY <2>1, <2>2, <2>3 DEF RowStep, Deciding
<1>4. CASE id # r
  BY <1>1, <1>2, <1>4 DEF RowStep
<1> QED
  BY <1>3, <1>4

LEMMA ReverifyRecordRows ==
  ASSUME TypeOK, NEW k \in Checks, ReverifyRecord(k), NEW id \in ReleaseId
  PROVE  RowStep(id)
<1> DEFINE r   == check[k].release
           sha == check[k].sha
<1>1. sha \in Digests \cup {None}
  BY DEF TypeOK, CheckState
<1>2. release = [i \in ReleaseId |-> release[i]]
  BY DEF TypeOK
<1>3. \/ release' = release
      \/ /\ sha # None
         /\ Blank(release[r])
         /\ release' = [release EXCEPT ![r] = Verified(release[r], sha)]
         /\ ReverifyEntry(k) \in audit'
  BY DEF ReverifyRecord
<1>4. CASE id = r /\ release' # release
  <2> HIDE DEF r, sha
  <2>1. /\ release'[id] = Verified(release[id], sha)
        /\ Blank(release[id])
        /\ sha \in Digests
        /\ ReverifyEntry(k) \in audit'
    BY <1>1, <1>2, <1>3, <1>4
  <2> QED
    BY <1>4, <2>1 DEF RowStep, Filling, r, sha
<1> HIDE DEF r, sha
<1>5. CASE ~(id = r /\ release' # release)
  BY <1>2, <1>3, <1>5 DEF RowStep
<1> QED
  BY <1>4, <1>5

\* Every step of the system changes a row in one of these ways, or not at all.
LEMMA EveryRowStep ==
  ASSUME TypeOK, [Next]_vars, NEW id \in ReleaseId
  PROVE  RowStep(id)
<1>1. ASSUME NEW c \in Calls, Publish(c) PROVE RowStep(id)
  <2>1. CASE RecordWritten(c)
    BY <2>1, RecordWrittenRows
  <2>2. CASE UNCHANGED release
    BY <2>2 DEF RowStep
  <2> QED
    BY <1>1, <2>1, <2>2 DEF Publish, Begin, CheckAuthority, CheckVersionUnused,
       ReadTrust, ReadPrevious, Fetch, RecordStopped, Finish, Lose, tables
<1>2. ASSUME NEW rv \in Reviewers, Review(rv) PROVE RowStep(id)
  <2>1. CASE UNCHANGED release
    BY <2>1 DEF RowStep
  <2> QED
    BY <1>2, <2>1, ApproveRows, RejectRows DEF Review, ReverifyRead, SetTrust, tables
<1>3. ASSUME NEW k \in Checks, Reverify(k) PROVE RowStep(id)
  <2>1. CASE UNCHANGED release
    BY <2>1 DEF RowStep
  <2> QED
    BY <1>3, <2>1, ReverifyRecordRows DEF Reverify, ReverifyFetch, LoseCheck, tables
<1>4. CASE HoldersChange \/ Tick \/ UNCHANGED vars
  BY <1>4 DEF HoldersChange, Tick, vars, tables, RowStep
<1> QED
  BY <1>1, <1>2, <1>3, <1>4 DEF Next

-----------------------------------------------------------------------------
(* What a step never does to a release.                                    *)

LEMMA FinalStep ==
  TypeOK /\ [Next]_vars =>
    \A id \in ReleaseId :
      LET row == release[id]  new == release'[id] IN
      /\ row.state \in {"rejected", "superseded"} => new = row
      /\ row.state = "approved" =>
           new \in {row, [row EXCEPT !.state = "superseded"]}
      /\ row.state = "pending" =>
           /\ new.state # "absent"
           /\ <<new.source, new.host, new.submittedBy, new.submittedAt>> =
                <<row.source, row.host, row.submittedBy, row.submittedAt>>
<1> SUFFICES ASSUME TypeOK, [Next]_vars, NEW id \in ReleaseId
             PROVE  LET row == release[id]  new == release'[id] IN
                    /\ row.state \in {"rejected", "superseded"} => new = row
                    /\ row.state = "approved" =>
                         new \in {row, [row EXCEPT !.state = "superseded"]}
                    /\ row.state = "pending" =>
                         /\ new.state # "absent"
                         /\ <<new.source, new.host, new.submittedBy, new.submittedAt>> =
                              <<row.source, row.host, row.submittedBy, row.submittedAt>>
  OBVIOUS
<1>1. RowStep(id) /\ release[id] \in Row
  BY EveryRowStep DEF TypeOK
<1>2. CASE release'[id] = release[id]
  BY <1>1, <1>2
<1>3. CASE Written(id)
  BY <1>3 DEF Written, NoRow
<1>4. CASE Retiring(id)
  BY <1>1, <1>4 DEF Retiring, Row
<1>5. CASE Deciding(id)
  BY <1>1, <1>5 DEF Deciding, Waiting, Reviewed, Row
<1>6. CASE Filling(id)
  BY <1>1, <1>6 DEF Filling, Blank, Waiting, Verified, Row
<1> QED
  BY <1>1, <1>2, <1>3, <1>4, <1>5, <1>6 DEF RowStep

(***************************************************************************)
(* What was decided stays decided, whatever is in flight: a rejected or    *)
(* superseded row never changes, a live row only becomes superseded, and a *)
(* submission is never rewritten.                                          *)
(***************************************************************************)
THEOREM FinalDecisions == Spec => DecisionsAreFinal
BY TypeCorrect, FinalStep, PTL DEF Spec, DecisionsAreFinal

-----------------------------------------------------------------------------
(* A hash that was stored stays.  A row with a hash that this server has   *)
(* not computed is an imported one, and an imported one never waits.       *)

ImportsNeverWait ==
  \A id \in ReleaseId :
    release[id].source = "import" => release[id].state \in {"approved", "superseded"}

LEMMA ImportsNeverWaitInit == Init => ImportsNeverWait
<1> SUFFICES ASSUME Init, NEW id \in ReleaseId, release[id].source = "import"
             PROVE  release[id].state \in {"approved", "superseded"}
  BY DEF ImportsNeverWait
<1>1. NoRow.source # "import"
  BY PeopleAssumption DEF NoRow, Sources
<1>2. \E s : release[id] = ImportedRow(s)
  BY <1>1 DEF Init
<1> QED
  BY <1>2 DEF ImportedRow

LEMMA ImportsNeverWaitStep ==
  TypeOK /\ ImportsNeverWait /\ [Next]_vars => ImportsNeverWait'
<1> SUFFICES ASSUME TypeOK, ImportsNeverWait, [Next]_vars, NEW id \in ReleaseId,
                    release'[id].source = "import"
             PROVE  release'[id].state \in {"approved", "superseded"}
  BY DEF ImportsNeverWait
<1>1. RowStep(id) /\ release[id] \in Row
  BY EveryRowStep DEF TypeOK
<1>2. CASE release'[id] = release[id]
  BY <1>2 DEF ImportsNeverWait
<1>3. CASE Written(id)
  BY <1>3 DEF Written, PublishedRow
<1>4. CASE Retiring(id)
  BY <1>1, <1>4 DEF Retiring, Row
<1>5. CASE Deciding(id)
  BY <1>1, <1>5 DEF Deciding, Reviewed, Waiting, Row, ImportsNeverWait
<1>6. CASE Filling(id)
  BY <1>1, <1>6 DEF Filling, Blank, Verified, Waiting, Row, ImportsNeverWait
<1> QED
  BY <1>1, <1>2, <1>3, <1>4, <1>5, <1>6 DEF RowStep

LEMMA ImportsWaitForNobody == Spec => []ImportsNeverWait
BY TypeCorrect, ImportsNeverWaitInit, ImportsNeverWaitStep, PTL DEF Spec

LEMMA HashStep ==
  TypeOK /\ ImportsNeverWait /\ [Next]_vars =>
    \A id \in ReleaseId :
      release[id].sha # None =>
        /\ release'[id].sha = release[id].sha
        /\ release'[id].verified = release[id].verified
<1> SUFFICES ASSUME TypeOK, ImportsNeverWait, [Next]_vars, NEW id \in ReleaseId,
                    release[id].sha # None
             PROVE  /\ release'[id].sha = release[id].sha
                    /\ release'[id].verified = release[id].verified
  OBVIOUS
<1>1. RowStep(id) /\ release[id] \in Row
  BY EveryRowStep DEF TypeOK
<1>2. CASE release'[id] = release[id]
  BY <1>2
<1>3. CASE Written(id)
  BY <1>3 DEF Written, NoRow
<1>4. CASE Retiring(id)
  BY <1>1, <1>4 DEF Retiring, Row
<1>5. CASE Deciding(id)
  BY <1>1, <1>5 DEF Deciding, Reviewed, Row
<1>6. CASE Filling(id)
  <2>1. Waiting(release[id]) /\ ~release[id].verified
    BY <1>6 DEF Filling, Blank
  <2>2. HashIsExplained(release[id])
    BY DEF TypeOK
  <2>3. release[id].source = "import"
    BY <2>1, <2>2 DEF HashIsExplained
  <2> QED
    BY <2>1, <2>3 DEF ImportsNeverWait, Waiting
<1> QED
  BY <1>1, <1>2, <1>3, <1>4, <1>5, <1>6 DEF RowStep

(***************************************************************************)
(* A stored hash is never replaced: not by a second re-verification, not   *)
(* by one that outlived a decision, not by a review.                       *)
(***************************************************************************)
THEOREM HashesStay == Spec => HashNeverSwapped
BY TypeCorrect, ImportsWaitForNobody, HashStep, PTL DEF Spec, HashNeverSwapped

-----------------------------------------------------------------------------
(* The shape of a step as a listing sees it.  Either no row becomes live   *)
(* or waiting, and none stops being live; or one row does, and all others  *)
(* of its plugin that were in that state make way for it.                  *)

\* No row comes to be live or waiting that was not.
Keeps(id) ==
  /\ release'[id].state = "approved" => release[id].state = "approved"
  /\ release'[id].state = "pending"  => release[id].state = "pending"

Unseated(id) == release[id].state = "approved" /\ release'[id].state # "approved"

Quiet == \A id \in ReleaseId : Keeps(id) /\ ~Unseated(id)

Lands(new, state) ==
  /\ release'[new].state = state
  /\ \A id \in ReleaseId \ {new} :
       /\ Keeps(id)
       /\ id[1] = new[1] => release'[id].state # state
  /\ \A id \in ReleaseId :
       Unseated(id) => state = "approved" /\ id[1] = new[1]

ListingStep ==
  Quiet \/ \E new \in ReleaseId, state \in {"approved", "pending"} : Lands(new, state)

LEMMA RecordWrittenListing ==
  ASSUME TypeOK, NEW c \in Calls, RecordWritten(c)
  PROVE  ListingStep
<1>1. At(c, "record") /\ ~At(c, "idle") /\ Stopped(c) = None
  BY DEF RecordWritten, At
<1>2. Named(c) \in ReleaseId /\ Named(c)[1] = Plugin(c)
  BY <1>1, CallParts
<1>3. release[Named(c)].state = "absent"
  BY <1>1, AnswerAssumption DEF Stopped, VersionTaken, Refusals
<1>4. LandsAs(c) \in {"approved", "pending"}
  <2>1. call[c].lands \in {"approved", "pending"}
    BY <1>1 DEF TypeOK, CallState, CallCarries, At
  <2> QED
    BY <2>1 DEF LandsAs
<1>5. release' = [WithoutWaiting(c) EXCEPT ![Named(c)] = PublishedRow(c)]
  BY DEF RecordWritten
<1>6. WithoutWaiting(c) = [i \in ReleaseId |-> WithoutWaiting(c)[i]]
  BY DEF WithoutWaiting, Supersede
<1>7. release'[Named(c)].state = LandsAs(c)
  BY <1>2, <1>5, <1>6 DEF PublishedRow
<1>8. ASSUME NEW id \in ReleaseId \ {Named(c)}
      PROVE  /\ Keeps(id)
             /\ id[1] = Plugin(c) => release'[id].state # LandsAs(c)
             /\ Unseated(id) => LandsAs(c) = "approved" /\ id[1] = Plugin(c)
  <2>1. release'[id] = WithoutWaiting(c)[id]
    BY <1>5, <1>6
  <2>2. release[id] \in Row
    BY DEF TypeOK
  <2>3. CASE LandsAs(c) = "approved" /\ id[1] = Plugin(c) /\ release[id].state = "approved"
    <3>1. WithoutLive(c)[id] = [release[id] EXCEPT !.state = "superseded"]
      BY <2>3 DEF Supersede, WithoutLive
    <3>2. WithoutLive(c)[id].state = "superseded"
      BY <2>2, <3>1 DEF Row
    <3>3. WithoutWaiting(c)[id] = WithoutLive(c)[id]
      <4>1. WithoutLive(c)[id].state # "pending"
        BY <3>2
      <4> QED
        BY <4>1 DEF Supersede, WithoutWaiting
    <3>4. release'[id].state = "superseded"
      BY <2>1, <3>2, <3>3
    <3> QED
      BY <1>4, <2>3, <3>4 DEF Keeps, Unseated
  <2>4. CASE ~(LandsAs(c) = "approved" /\ id[1] = Plugin(c) /\ release[id].state = "approved")
    <3>1. WithoutLive(c)[id] = release[id]
      BY <2>4 DEF Supersede, WithoutLive
    <3>2. CASE id[1] = Plugin(c) /\ release[id].state = "pending"
      <4>1. release'[id] = [release[id] EXCEPT !.state = "superseded"]
        BY <2>1, <3>1, <3>2 DEF Supersede, WithoutWaiting
      <4>2. release'[id].state = "superseded"
        BY <2>2, <4>1 DEF Row
      <4> QED
        BY <1>4, <3>2, <4>2 DEF Keeps, Unseated
    <3>3. CASE ~(id[1] = Plugin(c) /\ release[id].state = "pending")
      <4>1. release'[id] = release[id]
        BY <2>1, <3>1, <3>3 DEF Supersede, WithoutWaiting
      <4> QED
        BY <1>4, <2>4, <3>3, <4>1 DEF Keeps, Unseated
    <3> QED
      BY <3>2, <3>3
  <2> QED
    BY <2>3, <2>4
<1>9. ~Unseated(Named(c))
  BY <1>3 DEF Unseated
<1>10. Lands(Named(c), LandsAs(c))
  BY <1>2, <1>7, <1>8, <1>9 DEF Lands
<1> QED
  BY <1>2, <1>4, <1>10 DEF ListingStep

LEMMA ApproveListing ==
  ASSUME TypeOK, NEW r \in ReleaseId, NEW rv \in Reviewers, Approve(r, rv)
  PROVE  ListingStep
<1> DEFINE rows == Supersede(release, r[1], "approved")
<1>1. release' = [rows EXCEPT ![r] = Reviewed(release[r], "approved", rv)]
  BY DEF Approve
<1>2. rows = [i \in ReleaseId |-> rows[i]]
  BY DEF Supersede
<1>3. release[r].state = "pending" /\ release[r] \in Row
  BY DEF Approve, Approvable, Waiting, TypeOK
<1>4. release'[r].state = "approved"
  BY <1>1, <1>2, <1>3 DEF Reviewed, Row
<1>5. ASSUME NEW id \in ReleaseId \ {r}
      PROVE  /\ Keeps(id)
             /\ id[1] = r[1] => release'[id].state # "approved"
             /\ Unseated(id) => id[1] = r[1]
  <2>1. release'[id] = rows[id]
    BY <1>1, <1>2
  <2>2. release[id] \in Row
    BY DEF TypeOK
  <2>3. CASE id[1] = r[1] /\ release[id].state = "approved"
    <3>1. release'[id] = [release[id] EXCEPT !.state = "superseded"]
      BY <2>1, <2>3 DEF Supersede
    <3>2. release'[id].state = "superseded"
      BY <2>2, <3>1 DEF Row
    <3> QED
      BY <2>3, <3>2 DEF Keeps, Unseated
  <2>4. CASE ~(id[1] = r[1] /\ release[id].state = "approved")
    <3>1. release'[id] = release[id]
      BY <2>1, <2>4 DEF Supersede
    <3> QED
      BY <2>4, <3>1 DEF Keeps, Unseated
  <2> QED
    BY <2>3, <2>4
<1>6. ~Unseated(r)
  BY <1>3 DEF Unseated
<1>7. Lands(r, "approved")
  BY <1>4, <1>5, <1>6 DEF Lands
<1> QED
  BY <1>7 DEF ListingStep

LEMMA RejectListing ==
  ASSUME TypeOK, NEW r \in ReleaseId, NEW rv \in Reviewers, Reject(r, rv)
  PROVE  Quiet
<1>1. release' = [release EXCEPT ![r] = Reviewed(release[r], "rejected", rv)]
  BY DEF Reject
<1>2. release[r].state = "pending" /\ release[r] \in Row
  BY DEF Reject, Rejectable, Waiting, TypeOK
<1>3. release'[r].state = "rejected"
  BY <1>1, <1>2 DEF Reviewed, Row, TypeOK
<1>4. \A id \in ReleaseId \ {r} : release'[id] = release[id]
  BY <1>1 DEF TypeOK
<1> QED
  BY <1>2, <1>3, <1>4 DEF Quiet, Keeps, Unseated

LEMMA ReverifyRecordListing ==
  ASSUME TypeOK, NEW k \in Checks, ReverifyRecord(k)
  PROVE  Quiet
<1> DEFINE r == check[k].release
<1>1. CASE release' = release
  BY <1>1 DEF Quiet, Keeps, Unseated
<1>2. CASE release' # release
  <2>1. release' = [release EXCEPT ![r] = Verified(release[r], check[k].sha)]
    BY <1>2 DEF ReverifyRecord
  <2>2. r \in ReleaseId
    BY DEF TypeOK, CheckState, CheckCarries, ReverifyRecord
  <2>3. release[r] \in Row
    BY <2>2 DEF TypeOK
  <2>4. release'[r].state = release[r].state
    BY <2>1, <2>2, <2>3 DEF Verified, Row, TypeOK
  <2>5. \A id \in ReleaseId \ {r} : release'[id] = release[id]
    BY <2>1 DEF TypeOK
  <2> QED
    BY <2>4, <2>5 DEF Quiet, Keeps, Unseated
<1> QED
  BY <1>1, <1>2

\* Every step of the system is one of these, to a listing.
LEMMA EveryListingStep ==
  ASSUME TypeOK, [Next]_vars
  PROVE  ListingStep
<1>1. CASE UNCHANGED release
  BY <1>1 DEF ListingStep, Quiet, Keeps, Unseated
<1>2. ASSUME NEW c \in Calls, Publish(c) PROVE ListingStep
  BY <1>1, <1>2, RecordWrittenListing DEF Publish, Begin, CheckAuthority,
     CheckVersionUnused, ReadTrust, ReadPrevious, Fetch, RecordStopped, Finish, Lose,
     tables
<1>3. ASSUME NEW rv \in Reviewers, Review(rv) PROVE ListingStep
  <2>1. ASSUME NEW id \in ReleaseId, Approve(id, rv) \/ Reject(id, rv)
        PROVE  ListingStep
    BY <2>1, ApproveListing, RejectListing DEF ListingStep
  <2> QED
    BY <1>1, <1>3, <2>1 DEF Review, ReverifyRead, SetTrust, tables
<1>4. ASSUME NEW k \in Checks, Reverify(k) PROVE ListingStep
  <2>1. CASE ReverifyRecord(k)
    BY <2>1, ReverifyRecordListing DEF ListingStep
  <2> QED
    BY <1>1, <1>4, <2>1 DEF Reverify, ReverifyFetch, LoseCheck, tables
<1>5. CASE HoldersChange \/ Tick \/ UNCHANGED vars
  BY <1>1, <1>5 DEF HoldersChange, Tick, vars, tables
<1> QED
  BY <1>2, <1>3, <1>4, <1>5 DEF Next

-----------------------------------------------------------------------------
(* One live release and one waiting.                                       *)

\* At most one row of each plugin is in the given state.
Alone(state) ==
  \A id, other \in ReleaseId :
    /\ id[1] = other[1]
    /\ release[id].state = state
    /\ release[other].state = state
    => id = other

LEMMA AloneInit ==
  ASSUME Init PROVE Alone("approved") /\ Alone("pending")
<1> DEFINE seeded(id) == \E s \in Seed : id = <<s.plugin, s.version>>
<1>1. ASSUME NEW id \in ReleaseId
      PROVE  /\ release[id].state # "pending"
             /\ release[id].state = "approved" => seeded(id)
  BY DEF Init, ImportedRow, NoRow
<1>2. ASSUME NEW id \in ReleaseId, NEW other \in ReleaseId,
             id[1] = other[1], seeded(id), seeded(other)
      PROVE  id = other
  <2>1. PICK s \in Seed : id = <<s.plugin, s.version>>
    BY <1>2
  <2>2. PICK t \in Seed : other = <<t.plugin, t.version>>
    BY <1>2
  <2>3. s.plugin = t.plugin
    BY <1>2, <2>1, <2>2
  <2> QED
    BY <2>1, <2>2, <2>3, SeedAssumption
<1> HIDE DEF seeded
<1> QED
  BY <1>1, <1>2 DEF Alone

LEMMA AloneStep ==
  ASSUME TypeOK, [Next]_vars, NEW state \in {"approved", "pending"}, Alone(state)
  PROVE  Alone(state)'
<1> SUFFICES ASSUME NEW id \in ReleaseId, NEW other \in ReleaseId, id[1] = other[1],
                    release'[id].state = state, release'[other].state = state
             PROVE  id = other
  BY DEF Alone
<1>1. CASE Quiet
  BY <1>1 DEF Quiet, Keeps, Alone
<1>2. ASSUME NEW new \in ReleaseId, NEW st \in {"approved", "pending"}, Lands(new, st)
      PROVE  id = other
  <2>1. CASE id = new \/ other = new
    <3>1. release'[new].state = st
      BY <1>2 DEF Lands
    <3>2. st = state
      BY <2>1, <3>1
    <3> QED
      BY <1>2, <2>1, <3>2 DEF Lands
  <2>2. CASE id # new /\ other # new
    BY <1>2, <2>2 DEF Lands, Keeps, Alone
  <2> QED
    BY <2>1, <2>2
<1> QED
  BY <1>1, <1>2, EveryListingStep DEF ListingStep

LEMMA AloneAlways == Spec => [](Alone("approved") /\ Alone("pending"))
<1>1. Init => Alone("approved") /\ Alone("pending")
  BY AloneInit
<1>2. TypeOK /\ (Alone("approved") /\ Alone("pending")) /\ [Next]_vars
        => (Alone("approved") /\ Alone("pending"))'
  BY AloneStep
<1> QED
  BY <1>1, <1>2, TypeCorrect, PTL DEF Spec

(***************************************************************************)
(* A plugin serves one release: in every interleaving of publishes and     *)
(* approvals, the one that lands retires the one it replaces.              *)
(***************************************************************************)
THEOREM OneReleaseLive == Spec => []OneLive
<1>1. Alone("approved") => OneLive
  BY DEF Alone, OneLive, LiveVersions, ReleaseId
<1> QED
  BY <1>1, AloneAlways, PTL

(***************************************************************************)
(* A plugin has one submission waiting: whatever commits last retires what *)
(* waited before it.                                                       *)
(***************************************************************************)
THEOREM OneReleaseWaiting == Spec => []OneWaiting
<1>1. Alone("pending") => OneWaiting
  BY DEF Alone, OneWaiting, WaitingVersions, Waiting, ReleaseId
<1> QED
  BY <1>1, AloneAlways, PTL

(***************************************************************************)
(* A plugin that serves a release serves one ever after: a live row is     *)
(* only unseated by a row of its own plugin that becomes live.             *)
(***************************************************************************)
LEMMA DarkStep ==
  TypeOK /\ [Next]_vars => \A p \in Plugins : Live(p) # None => Live(p)' # None
<1> SUFFICES ASSUME TypeOK, [Next]_vars, NEW p \in Plugins, Live(p) # None
             PROVE  Live(p)' # None
  OBVIOUS
<1>1. PICK v \in Versions : release[<<p, v>>].state = "approved"
  BY DEF Live, LiveVersions
<1>2. \E w \in Versions : release'[<<p, w>>].state = "approved"
  <2>1. CASE release'[<<p, v>>].state = "approved"
    BY <2>1
  <2>2. CASE Unseated(<<p, v>>)
    <3>1. <<p, v>> \in ReleaseId
      BY DEF ReleaseId
    <3>2. PICK new \in ReleaseId : Lands(new, "approved") /\ new[1] = p
      BY <2>2, <3>1, EveryListingStep DEF ListingStep, Quiet, Lands
    <3>3. new = <<p, new[2]>> /\ new[2] \in Versions
      BY <3>2 DEF ReleaseId
    <3> QED
      BY <3>2, <3>3 DEF Lands
  <2> QED
    BY <1>1, <2>1, <2>2 DEF Unseated
<1>3. LiveVersions(p)' # {}
  BY <1>2 DEF LiveVersions
<1>4. Live(p)' \in Versions
  BY <1>3 DEF Live, LiveVersions
<1> QED
  BY <1>4, NoneAssumption

THEOREM ListingStaysUp == Spec => NeverGoesDark
BY TypeCorrect, DarkStep, PTL DEF Spec, NeverGoesDark

-----------------------------------------------------------------------------
(* The refinement: to somebody who reads nothing of the release table but  *)
(* where each release stands, every step is a step of ReleaseLife or none. *)

\* Where each release stands, which is what the refinement mapping shows.
stands == [id \in ReleaseId |-> release[id].state]

\* Rows move as module ReleaseLife says.
Moved(rows, p, v, new, old) ==
  \A id \in ReleaseId :
    rows[id].state = IF id = <<p, v>> THEN new
                     ELSE IF id[1] = p /\ release[id].state \in old THEN "superseded"
                     ELSE release[id].state

LEMMA MovedIsMove ==
  ASSUME NEW p, NEW v, NEW new, NEW old, Moved(release', p, v, new, old)
  PROVE  Life!Move(p, v, new, old)
<1> DEFINE after(id) == IF id = <<p, v>> THEN new
                        ELSE IF id[1] = p /\ release[id].state \in old THEN "superseded"
                        ELSE release[id].state
<1>1. stands' = [id \in ReleaseId |-> after(id)]
  BY DEF stands, Moved
<1>2. \A id \in ReleaseId : stands[id] = release[id].state
  BY DEF stands
<1>3. stands' = [id \in ReleaseId |->
                   IF id = <<p, v>> THEN new
                   ELSE IF id[1] = p /\ stands[id] \in old THEN "superseded"
                   ELSE stands[id]]
  BY <1>1, <1>2
<1> QED
  BY <1>3 DEF Life!Move, Life!Names, stands, ReleaseId

\* A row that is superseded when it stands at one of two states, and kept otherwise.
LEMMA SupersedeState ==
  ASSUME NEW rows \in [ReleaseId -> Row], NEW p, NEW st, NEW id \in ReleaseId
  PROVE  /\ Supersede(rows, p, st)[id].state
              = IF id[1] = p /\ rows[id].state = st THEN "superseded" ELSE rows[id].state
         /\ Supersede(rows, p, st) \in [ReleaseId -> Row]
<1>1. \A i \in ReleaseId : /\ rows[i] \in Row
                           /\ [rows[i] EXCEPT !.state = "superseded"] \in Row
  BY DEF Row, States
<1>2. [rows[id] EXCEPT !.state = "superseded"].state = "superseded"
  BY <1>1 DEF Row
<1>3. Supersede(rows, p, st)[id].state
        = IF id[1] = p /\ rows[id].state = st THEN "superseded" ELSE rows[id].state
  BY <1>2 DEF Supersede
<1>4. Supersede(rows, p, st) \in [ReleaseId -> Row]
  BY <1>1 DEF Supersede
<1> QED
  BY <1>3, <1>4

LEMMA WrittenIsLife ==
  ASSUME TypeOK, NEW c \in Calls, RecordWritten(c)
  PROVE  Life!Next
<1>1. At(c, "record") /\ ~At(c, "idle") /\ Stopped(c) = None
  BY DEF RecordWritten, At
<1> PICK p \in Plugins, v \in Versions : p = Plugin(c) /\ v = Sub(c).version
  BY <1>1, CallParts DEF Submission
<1>2. Named(c) = <<p, v>> /\ Named(c) \in ReleaseId
  BY <1>1, CallParts DEF Named, Plugin
<1>3. release[<<p, v>>].state = "absent"
  BY <1>1, <1>2, AnswerAssumption DEF Stopped, VersionTaken, Refusals
<1>4. release' = [WithoutWaiting(c) EXCEPT ![<<p, v>>] = PublishedRow(c)]
  BY <1>2 DEF RecordWritten
<1>5. release \in [ReleaseId -> Row]
  BY DEF TypeOK
<1>6. WithoutLive(c) \in [ReleaseId -> Row]
  BY <1>2, <1>5, SupersedeState DEF WithoutLive
<1>7. WithoutWaiting(c) \in [ReleaseId -> Row]
  BY <1>2, <1>6, SupersedeState DEF WithoutWaiting
<1>8. release'[<<p, v>>].state = LandsAs(c)
  BY <1>2, <1>4, <1>7 DEF PublishedRow
<1>9. ASSUME NEW id \in ReleaseId, id # <<p, v>>
      PROVE  release'[id].state
               = IF id[1] = p /\ WithoutLive(c)[id].state = "pending" THEN "superseded"
                 ELSE WithoutLive(c)[id].state
  BY <1>4, <1>6, <1>7, <1>9, SupersedeState DEF WithoutWaiting
<1>10. stands[<<p, v>>] = "absent"
  BY <1>2, <1>3 DEF stands
<1>11. CASE LandsAs(c) = "approved"
  <2>1. \A id \in ReleaseId :
          WithoutLive(c)[id].state
            = IF id[1] = p /\ release[id].state = "approved" THEN "superseded"
              ELSE release[id].state
    BY <1>5, <1>11, SupersedeState DEF WithoutLive
  <2>2. Moved(release', p, v, "approved", {"pending", "approved"})
    BY <1>8, <1>9, <1>11, <2>1 DEF Moved
  <2>3. Live(p) # None
    BY <1>1, <1>11, AnswerAssumption DEF Stopped, VersionTaken, StillLive, Refusals
  <2>4. PICK w \in Versions : release[<<p, w>>].state = "approved"
    BY <2>3 DEF Live, LiveVersions
  <2>5. stands[<<p, w>>] = "approved"
    BY <1>2, <2>4 DEF stands, ReleaseId
  <2>6. Life!GoLive(p, v)
    BY <1>10, <2>2, <2>5, MovedIsMove DEF Life!GoLive, Life!Unused, Life!Serves, stands
  <2> QED
    BY <2>6 DEF Life!Next
<1>12. CASE LandsAs(c) # "approved"
  <2>1. LandsAs(c) = "pending"
    BY <1>1, <1>12 DEF TypeOK, CallState, CallCarries, At, LandsAs
  <2>2. WithoutLive(c) = release
    BY <1>12 DEF WithoutLive
  <2>3. Moved(release', p, v, "pending", {"pending"})
    BY <1>8, <1>9, <2>1, <2>2 DEF Moved
  <2>4. Life!Wait(p, v)
    BY <1>10, <2>3, MovedIsMove DEF Life!Wait, Life!Unused, stands
  <2> QED
    BY <2>4 DEF Life!Next
<1> QED
  BY <1>11, <1>12

LEMMA ApproveIsLife ==
  ASSUME TypeOK, NEW r \in ReleaseId, NEW rv \in Reviewers, Approve(r, rv)
  PROVE  Life!Next
<1> DEFINE rows == Supersede(release, r[1], "approved")
<1>1. release \in [ReleaseId -> Row]
  BY DEF TypeOK
<1>2. release' = [rows EXCEPT ![r] = Reviewed(release[r], "approved", rv)]
  BY DEF Approve
<1>3. rows \in [ReleaseId -> Row]
  BY <1>1, SupersedeState
<1>4. release[r].state = "pending" /\ release[r] \in Row
  BY <1>1 DEF Approve, Approvable, Waiting
<1>5. r[1] \in Plugins /\ r[2] \in Versions /\ r = <<r[1], r[2]>>
  BY DEF ReleaseId
<1>6. release'[r].state = "approved"
  BY <1>2, <1>3, <1>4 DEF Reviewed, Row
<1>7. \A id \in ReleaseId \ {r} :
        release'[id].state = IF id[1] = r[1] /\ release[id].state = "approved"
                             THEN "superseded" ELSE release[id].state
  BY <1>1, <1>2, <1>3, SupersedeState
<1>8. Moved(release', r[1], r[2], "approved", {"approved"})
  BY <1>5, <1>6, <1>7 DEF Moved
<1>9. stands[<<r[1], r[2]>>] = "pending"
  BY <1>4, <1>5 DEF stands
<1>10. Life!Approve(r[1], r[2])
  BY <1>8, <1>9, MovedIsMove DEF Life!Approve, stands
<1> QED
  BY <1>5, <1>10 DEF Life!Next

LEMMA RejectIsLife ==
  ASSUME TypeOK, NEW r \in ReleaseId, NEW rv \in Reviewers, Reject(r, rv)
  PROVE  Life!Next
<1>1. release \in [ReleaseId -> Row]
  BY DEF TypeOK
<1>2. release' = [release EXCEPT ![r] = Reviewed(release[r], "rejected", rv)]
  BY DEF Reject
<1>3. release[r].state = "pending" /\ release[r] \in Row
  BY <1>1 DEF Reject, Rejectable, Waiting
<1>4. r[1] \in Plugins /\ r[2] \in Versions /\ r = <<r[1], r[2]>>
  BY DEF ReleaseId
<1>5. release'[r].state = "rejected"
  BY <1>1, <1>2, <1>3 DEF Reviewed, Row
<1>6. \A id \in ReleaseId \ {r} : release'[id].state = release[id].state
  BY <1>1, <1>2
<1>7. Moved(release', r[1], r[2], "rejected", {})
  BY <1>4, <1>5, <1>6 DEF Moved
<1>8. stands[<<r[1], r[2]>>] = "pending"
  BY <1>3, <1>4 DEF stands
<1>9. Life!Reject(r[1], r[2])
  BY <1>7, <1>8, MovedIsMove DEF Life!Reject, stands
<1> QED
  BY <1>4, <1>9 DEF Life!Next

\* A re-verification fills a blank in, and leaves the release where it stands.
LEMMA ReverifyStands ==
  ASSUME TypeOK, NEW k \in Checks, ReverifyRecord(k)
  PROVE  UNCHANGED stands
<1> DEFINE r == check[k].release
<1>1. CASE release' = release
  BY <1>1 DEF stands
<1>2. CASE release' # release
  <2>1. release' = [release EXCEPT ![r] = Verified(release[r], check[k].sha)]
    BY <1>2 DEF ReverifyRecord
  <2>2. r \in ReleaseId
    BY DEF TypeOK, CheckState, CheckCarries, ReverifyRecord
  <2>3. release[r] \in Row
    BY <2>2 DEF TypeOK
  <2>4. release'[r].state = release[r].state
    BY <2>1, <2>2, <2>3 DEF Verified, Row, TypeOK
  <2>5. \A id \in ReleaseId \ {r} : release'[id] = release[id]
    BY <2>1 DEF TypeOK
  <2> QED
    BY <2>4, <2>5 DEF stands
<1> QED
  BY <1>1, <1>2

LEMMA EveryStepIsLife ==
  ASSUME TypeOK, [Next]_vars
  PROVE  [Life!Next]_stands
<1>1. CASE UNCHANGED release
  BY <1>1 DEF stands
<1>2. ASSUME NEW c \in Calls, Publish(c) PROVE [Life!Next]_stands
  BY <1>1, <1>2, WrittenIsLife DEF Publish, Begin, CheckAuthority, CheckVersionUnused,
     ReadTrust, ReadPrevious, Fetch, RecordStopped, Finish, Lose, tables
<1>3. ASSUME NEW rv \in Reviewers, Review(rv) PROVE [Life!Next]_stands
  <2>1. ASSUME NEW id \in ReleaseId, Approve(id, rv) \/ Reject(id, rv)
        PROVE  Life!Next
    BY <2>1, ApproveIsLife, RejectIsLife
  <2> QED
    BY <1>1, <1>3, <2>1 DEF Review, ReverifyRead, SetTrust, tables
<1>4. ASSUME NEW k \in Checks, Reverify(k) PROVE [Life!Next]_stands
  <2>1. CASE ReverifyRecord(k)
    BY <2>1, ReverifyStands
  <2> QED
    BY <1>1, <1>4, <2>1 DEF Reverify, ReverifyFetch, LoseCheck, tables
<1>5. CASE HoldersChange \/ Tick \/ UNCHANGED vars
  BY <1>1, <1>5 DEF HoldersChange, Tick, vars, tables
<1> QED
  BY <1>2, <1>3, <1>4, <1>5 DEF Next

LEMMA InitIsLife == Init => Life!Init
<1> SUFFICES ASSUME Init PROVE Life!Init
  OBVIOUS
<1>1. \A id \in ReleaseId : release[id].state \in {"absent", "approved"}
  BY DEF Init, ImportedRow, NoRow
<1>2. stands \in [Plugins \X Versions -> {"absent", "approved"}]
  BY <1>1 DEF stands, ReleaseId
<1>3. ASSUME NEW p \in Plugins, NEW v \in Versions, NEW w \in Versions,
             stands[<<p, v>>] = "approved", stands[<<p, w>>] = "approved"
      PROVE  v = w
  <2>1. <<p, v>> \in ReleaseId /\ <<p, w>> \in ReleaseId
    BY DEF ReleaseId
  <2>2. release[<<p, v>>].state = "approved" /\ release[<<p, w>>].state = "approved"
    BY <1>3, <2>1 DEF stands
  <2>3. <<p, v>>[1] = <<p, w>>[1]
    OBVIOUS
  <2>4. <<p, v>> = <<p, w>>
    BY <2>1, <2>2, <2>3, AloneInit DEF Alone
  <2> QED
    BY <2>4
<1> QED
  BY <1>2, <1>3 DEF Life!Init, Life!Serves, Life!Names, stands

(***************************************************************************)
(* The publish path and the review queue keep the promise that the readers *)
(* of the release table rest on (module ReleaseLife): for any number of    *)
(* requests, downloads and re-verifications in flight, a release waits, or *)
(* goes live in the place of one that is live, or is decided on once.      *)
(***************************************************************************)
THEOREM ReleasePromiseKept == Spec => KeepsReleasePromise
<1>1. Init => Life!Init
  BY InitIsLife
<1>2. TypeOK /\ [Next]_vars => [Life!Next]_stands
  BY EveryStepIsLife
<1> QED
  BY <1>1, <1>2, TypeCorrect, PTL DEF Spec, KeepsReleasePromise, Life!Spec, stands
=============================================================================

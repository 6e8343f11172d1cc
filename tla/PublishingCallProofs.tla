------------------------ MODULE PublishingCallProofs ------------------------
(***************************************************************************)
(* What a publish in flight has established by the time its transaction    *)
(* runs, and what that says of the rows it writes.  For every instance of  *)
(* Publishing.                                                             *)
(***************************************************************************)
EXTENDS PublishingReleaseProofs

\* Steps after the author was found to have an identity that may publish.
PastAuthority == {"version", "trust", "previous", "fetch", "record"}

\* What a slot has established: nothing lands before it was judged, nothing lands
\* live that was not hashed or that a rule fires for, a rule that says the bytes
\* are unknown says so truly, and nothing goes on that an author who may not
\* publish has sent.
Vetted(s) ==
  /\ s.pc # "record" => s.lands = None
  /\ s.lands = "approved" =>
       /\ s.sha # None
       /\ EvaluateQuarantine(s.prev, s.request.sub, s.sha) = {}
  /\ "NotVerified" \in s.reasons => s.sha = None
  /\ s.pc \in PastAuthority => s.request.account \in Publishable

CallsVetted == \A c \in Calls : Vetted(call[c])

\* A slot that is free, has just begun, or is answered.
Bare(s) == s.lands = None /\ s.reasons = {} /\ s.pc \notin PastAuthority

LEMMA BareIsVetted == ASSUME NEW s, Bare(s) PROVE Vetted(s)
BY PeopleAssumption DEF Bare, Vetted, States

LEMMA NoCallIsBare == Bare(NoCall)
BY DEF Bare, NoCall, PastAuthority

\* An answer leaves nothing to carry into a transaction.
LEMMA AnswerIsBare ==
  ASSUME TypeOK, NEW c \in Calls, NEW q, NEW answer, NEW id, Answer(c, q, answer, id)
  PROVE  Bare(call'[c])
<1> DEFINE s == [NoCall EXCEPT !.pc = "answered", !.request = q,
                               !.answer = answer, !.told = id]
<1>1. Bare(s)
  BY DEF Bare, NoCall, PastAuthority
<1>2. call'[c] = s
  BY DEF Answer, TypeOK
<1> QED
  BY <1>1, <1>2

\* A decision that lands live had no reason against it, NotVerified among them.
LEMMA LiveWasHashed ==
  ASSUME NEW prev, NEW sub, NEW sha, NEW t,
         Decide(t, EvaluateQuarantine(prev, sub, sha)) = "approved"
  PROVE  sha # None /\ EvaluateQuarantine(prev, sub, sha) = {}
<1>1. EvaluateQuarantine(prev, sub, sha) = {}
  BY DEF Decide
<1>2. "NotVerified" \in Reasons
  BY DEF Reasons
<1> QED
  BY <1>1, <1>2 DEF EvaluateQuarantine

\* The rule about unknown bytes fires only for them.
LEMMA NotVerifiedIsTrue ==
  ASSUME NEW prev, NEW sub, NEW sha,
         "NotVerified" \in EvaluateQuarantine(prev, sub, sha)
  PROVE  sha = None
BY DEF EvaluateQuarantine

\* Every step of a publish leaves its slot vetted, if it was.
LEMMA PublishVets ==
  ASSUME TypeOK, NEW c \in Calls, Publish(c), Vetted(call[c])
  PROVE  Vetted(call'[c])
<1>0. call \in [Calls -> CallState] /\ call[c] \in CallState
  BY DEF TypeOK
<1>1. ASSUME NEW q \in Requests, Begin(c, q) PROVE Vetted(call'[c])
  <2>1. CASE call' = [call EXCEPT ![c] = [NoCall EXCEPT !.pc = "authority", !.request = q]]
    <3>1. call'[c] = [NoCall EXCEPT !.pc = "authority", !.request = q]
      BY <1>0, <2>1
    <3>2. Bare(call'[c])
      BY <3>1 DEF Bare, NoCall, PastAuthority
    <3> QED
      BY <3>2, BareIsVetted
  <2>2. CASE \E answer, id : Answer(c, q, answer, id)
    BY <2>2, AnswerIsBare, BareIsVetted
  <2> QED
    BY <1>1, <2>1, <2>2 DEF Begin
<1>2. ASSUME NEW answer, Refuse(c, answer) PROVE Vetted(call'[c])
  BY <1>2, AnswerIsBare, BareIsVetted DEF Refuse
<1>3. CASE CheckAuthority(c)
  <2>1. CASE /\ Author(c) \in holders[Plugin(c)] \cap Publishable
             /\ call' = [call EXCEPT ![c].pc = "version"]
    <3>1. call'[c] = [call[c] EXCEPT !.pc = "version"]
      BY <1>0, <2>1
    <3>2. call[c].lands = None
      BY <1>3 DEF CheckAuthority, At, Vetted
    <3> QED
      BY <1>0, <2>1, <3>1, <3>2, PeopleAssumption DEF Vetted, Author, CallState, States
  <2> QED
    BY <1>2, <1>3, <2>1 DEF CheckAuthority
<1>4. CASE CheckVersionUnused(c)
  <2>1. CASE call' = [call EXCEPT ![c].pc = "trust"]
    <3>1. call'[c] = [call[c] EXCEPT !.pc = "trust"]
      BY <1>0, <2>1
    <3> QED
      BY <1>0, <1>4, <3>1 DEF CheckVersionUnused, At, Vetted, CallState, PastAuthority
  <2> QED
    BY <1>2, <1>4, <2>1 DEF CheckVersionUnused
<1>5. CASE ReadTrust(c)
  <2>1. CASE call' = [call EXCEPT ![c] = [@ EXCEPT !.pc = "previous",
                                                  !.trust = trust[Author(c)]]]
    <3>1. call'[c] = [call[c] EXCEPT !.pc = "previous", !.trust = trust[Author(c)]]
      BY <1>0, <2>1
    <3> QED
      BY <1>0, <1>5, <3>1 DEF ReadTrust, At, Vetted, CallState, PastAuthority
  <2> QED
    BY <1>2, <1>5, <2>1 DEF ReadTrust
<1>6. CASE ReadPrevious(c)
  <2>1. call'[c] = [call[c] EXCEPT !.pc = "fetch", !.prev = PreviousOf(Plugin(c))]
    BY <1>0, <1>6 DEF ReadPrevious
  <2>2. call[c].lands = None
    BY <1>6 DEF ReadPrevious, At, Vetted
  <2> QED
    BY <1>0, <1>6, <2>1, <2>2, PeopleAssumption
    DEF ReadPrevious, At, Vetted, CallState, PastAuthority, States
<1>7. CASE Fetch(c)
  <2>1. PICK sha \in FetchResults :
          call'[c] = [call[c] EXCEPT
            !.pc      = "record",
            !.sha     = sha,
            !.reasons = EvaluateQuarantine(call[c].prev, Sub(c), sha),
            !.lands   = Decide(call[c].trust,
                               EvaluateQuarantine(call[c].prev, Sub(c), sha)),
            !.at      = clock]
    BY <1>0, <1>7 DEF Fetch
  <2>2. /\ call'[c].sha = sha
        /\ call'[c].lands = Decide(call[c].trust,
                                   EvaluateQuarantine(call[c].prev, Sub(c), sha))
        /\ call'[c].reasons = EvaluateQuarantine(call[c].prev, Sub(c), sha)
        /\ call'[c].request = call[c].request
        /\ call'[c].prev = call[c].prev
        /\ call'[c].pc = "record"
    BY <1>0, <2>1 DEF CallState
  <2>3. call[c].request.account \in Publishable
    BY <1>7 DEF Fetch, At, Vetted, PastAuthority
  <2>4. call'[c].lands = "approved" =>
          /\ sha # None
          /\ EvaluateQuarantine(call[c].prev, Sub(c), sha) = {}
    BY <2>2, LiveWasHashed
  <2>5. "NotVerified" \in call'[c].reasons => sha = None
    BY <2>2, NotVerifiedIsTrue
  <2> QED
    BY <2>2, <2>3, <2>4, <2>5 DEF Vetted, Sub
<1>8. CASE RecordStopped(c) \/ RecordWritten(c)
  <2>1. \E q, answer, id : Answer(c, q, answer, id)
    BY <1>8 DEF RecordStopped, RecordWritten, Refuse
  <2> QED
    BY <2>1, AnswerIsBare, BareIsVetted
<1>9. CASE Finish(c) \/ Lose(c)
  <2>1. call'[c] = NoCall
    BY <1>0, <1>9 DEF Finish, Lose
  <2> QED
    BY <2>1, NoCallIsBare, BareIsVetted
<1> QED
  BY <1>1, <1>3, <1>4, <1>5, <1>6, <1>7, <1>8, <1>9 DEF Publish

\* A step of one publish leaves every other slot as it was.
LEMMA OtherCallsStay ==
  ASSUME TypeOK, NEW c \in Calls, Publish(c), NEW d \in Calls, d # c
  PROVE  call'[d] = call[d]
<1>1. \E s : call' = [call EXCEPT ![c] = s]
  <2>1. ASSUME NEW q \in Requests, Begin(c, q)
        PROVE  \E s : call' = [call EXCEPT ![c] = s]
    BY <2>1 DEF Begin, Answer
  <2>2. CASE CheckAuthority(c) \/ CheckVersionUnused(c) \/ ReadTrust(c) \/ ReadPrevious(c)
    BY <2>2 DEF CheckAuthority, CheckVersionUnused, ReadTrust, ReadPrevious, Refuse, Answer
  <2>3. CASE Fetch(c)
    BY <2>3 DEF Fetch
  <2>4. CASE RecordStopped(c) \/ RecordWritten(c) \/ Finish(c) \/ Lose(c)
    BY <2>4 DEF RecordStopped, RecordWritten, Finish, Lose, Refuse, Answer
  <2> QED
    BY <2>1, <2>2, <2>3, <2>4 DEF Publish
<1> QED
  BY <1>1 DEF TypeOK

LEMMA CallsVettedStep ==
  TypeOK /\ CallsVetted /\ [Next]_vars => CallsVetted'
<1> SUFFICES ASSUME TypeOK, CallsVetted, [Next]_vars PROVE CallsVetted'
  OBVIOUS
<1>1. ASSUME NEW c \in Calls, Publish(c) PROVE CallsVetted'
  <2> SUFFICES ASSUME NEW d \in Calls PROVE Vetted(call'[d])
    BY DEF CallsVetted, Vetted
  <2>1. CASE d = c
    BY <1>1, <2>1, PublishVets DEF CallsVetted
  <2>2. CASE d # c
    BY <1>1, <2>2, OtherCallsStay DEF CallsVetted
  <2> QED
    BY <2>1, <2>2
<1>2. CASE UNCHANGED call
  BY <1>2 DEF CallsVetted, Vetted
<1> QED
  BY <1>1, <1>2 DEF Next, Review, Reverify, Approve, Reject, ReverifyRead, SetTrust,
     ReverifyFetch, ReverifyRecord, LoseCheck, HoldersChange, Tick, vars

LEMMA CallsAreVetted == Spec => []CallsVetted
<1>1. Init => CallsVetted
  BY NoCallIsBare, BareIsVetted DEF Init, CallsVetted
<1> QED
  BY <1>1, TypeCorrect, CallsVettedStep, PTL DEF Spec

-----------------------------------------------------------------------------
(* Nothing is listed whose bytes were not hashed.                          *)

LEMMA LiveHashInit == Init => LiveHashIsKnown
<1> SUFFICES ASSUME Init, NEW id \in ReleaseId, release[id].state = "approved"
             PROVE  release[id].sha # None /\ release[id].source = "import"
  BY DEF LiveHashIsKnown
<1> DEFINE seeded == \E s \in Seed : id = <<s.plugin, s.version>>
           seed   == CHOOSE s \in Seed : id = <<s.plugin, s.version>>
<1>1. CASE seeded
  <2>1. seed \in Submission
    BY <1>1, SeedAssumption
  <2>2. release[id] = ImportedRow(seed)
    BY <1>1 DEF Init
  <2> HIDE DEF seed
  <2> QED
    BY <2>1, <2>2, NoneAssumption DEF ImportedRow, Submission
<1>2. CASE ~seeded
  BY <1>2 DEF Init, NoRow
<1> QED
  BY <1>1, <1>2

LEMMA LiveHashStep ==
  TypeOK /\ CallsVetted /\ LiveHashIsKnown /\ [Next]_vars => LiveHashIsKnown'
<1> SUFFICES ASSUME TypeOK, CallsVetted, LiveHashIsKnown, [Next]_vars,
                    NEW id \in ReleaseId, release'[id].state = "approved"
             PROVE  /\ release'[id].sha # None
                    /\ release'[id].verified \/ release'[id].source = "import"
  BY DEF LiveHashIsKnown
<1>1. RowStep(id) /\ release[id] \in Row
  BY EveryRowStep DEF TypeOK
<1>2. CASE release'[id] = release[id]
  BY <1>2 DEF LiveHashIsKnown
<1>3. CASE Written(id)
  <2>1. PICK c \in Calls : release'[id] = PublishedRow(c)
    BY <1>3 DEF Written
  <2>2. call[c].lands = "approved"
    BY <2>1 DEF PublishedRow, LandsAs
  <2>3. call[c].sha # None
    BY <2>2 DEF CallsVetted, Vetted
  <2>4. VerifiedAtPublish(c)
    BY <2>3 DEF VerifiedAtPublish
  <2>5. /\ release'[id].sha = call[c].sha
        /\ release'[id].verified = VerifiedAtPublish(c)
    BY <2>1 DEF PublishedRow
  <2> QED
    BY <2>3, <2>4, <2>5
<1>4. CASE Retiring(id)
  BY <1>1, <1>4 DEF Retiring, Row
<1>5. CASE Deciding(id)
  <2>1. PICK rv \in Reviewers :
          \/ /\ Approvable(release[id])
             /\ release'[id] = Reviewed(release[id], "approved", rv)
          \/ release'[id] = Reviewed(release[id], "rejected", rv)
    BY <1>5 DEF Deciding
  <2>2. release'[id] # Reviewed(release[id], "rejected", rv)
    BY <1>1 DEF Reviewed, Row
  <2>3. release[id].verified /\ release[id].sha # None
    BY <2>1, <2>2 DEF Approvable
  <2>4. /\ release'[id].sha = release[id].sha
        /\ release'[id].verified = release[id].verified
    BY <1>1, <2>1, <2>2 DEF Reviewed, Row
  <2> QED
    BY <2>3, <2>4
<1>6. CASE Filling(id)
  BY <1>1, <1>6 DEF Filling, Blank, Waiting, Verified, Row
<1> QED
  BY <1>1, <1>2, <1>3, <1>4, <1>5, <1>6 DEF RowStep

(***************************************************************************)
(* The hash of a live release was computed here, unless it was imported:   *)
(* a download that failed ends in the queue, and an approval refuses the   *)
(* row until a re-verification has filled the blank in.                    *)
(***************************************************************************)
THEOREM LiveHashesKnown == Spec => []LiveHashIsKnown
BY TypeCorrect, CallsAreVetted, LiveHashInit, LiveHashStep, PTL DEF Spec

-----------------------------------------------------------------------------
(* A row is written under the authority of the moment it is written.       *)

LEMMA AuthorityStep ==
  TypeOK /\ CallsVetted /\ [Next]_vars =>
    \A id \in ReleaseId :
      release[id].state = "absent" /\ release'[id].state # "absent" =>
        LET author == release'[id].submittedBy IN
        /\ author \in holders[id[1]] \cap Publishable
        /\ trust[author] # "blocked"
        /\ release'[id].state = "approved" => trust[author] = "trusted"
<1> SUFFICES ASSUME TypeOK, CallsVetted, [Next]_vars, NEW id \in ReleaseId,
                    release[id].state = "absent", release'[id].state # "absent"
             PROVE  LET author == release'[id].submittedBy IN
                    /\ author \in holders[id[1]] \cap Publishable
                    /\ trust[author] # "blocked"
                    /\ release'[id].state = "approved" => trust[author] = "trusted"
  OBVIOUS
<1>1. RowStep(id)
  BY EveryRowStep
<1>2. Written(id)
  BY <1>1 DEF RowStep, Retiring, Deciding, Filling, Waiting, Blank
<1>3. PICK c \in Calls : /\ RecordWritten(c)
                         /\ id = Named(c)
                         /\ release'[id] = PublishedRow(c)
  BY <1>2 DEF Written
<1>4. At(c, "record") /\ ~At(c, "idle") /\ Stopped(c) = None
  BY <1>3 DEF RecordWritten, At
<1>5. id[1] = Plugin(c)
  BY <1>3, <1>4, CallParts
<1>6. StillHolds(c) /\ TierNow(c) # "blocked"
  BY <1>4, AnswerAssumption DEF Stopped, VersionTaken, Refusals
<1>7. Author(c) \in Publishable
  BY <1>4 DEF CallsVetted, Vetted, At, Author, PastAuthority
<1>8. LandsAs(c) = "approved" => TierNow(c) = "trusted"
  BY DEF LandsAs
<1>9. release'[id].submittedBy = Author(c) /\ release'[id].state = LandsAs(c)
  BY <1>3 DEF PublishedRow
<1> QED
  BY <1>5, <1>6, <1>7, <1>8, <1>9 DEF StillHolds, TierNow

(***************************************************************************)
(* A release is written under the authority its author has as the          *)
(* transaction commits, whatever changed during the download: a grant, an  *)
(* identity that may publish, a tier that is not blocked, and the trusted  *)
(* tier if it goes live.                                                   *)
(***************************************************************************)
THEOREM AuthorityHolds == Spec => AuthorityAtCommit
BY TypeCorrect, CallsAreVetted, AuthorityStep, PTL DEF Spec, AuthorityAtCommit

-----------------------------------------------------------------------------
(* What stays: a key that was used, a row's author, an audit row, and a    *)
(* release that was live, as the publish path sees it.                     *)

\* A transaction that writes found its key unused and its version free.
LEMMA WritesAfresh ==
  ASSUME TypeOK, NEW c \in Calls, RecordWritten(c)
  PROVE  /\ ~At(c, "idle")
         /\ At(c, "record")
         /\ keys[KeyOf(call[c].request)] = None
         /\ release[Named(c)] = NoRow
         /\ LandsAs(c) = "approved" => StillLive(c)
<1>1. At(c, "record") /\ ~At(c, "idle") /\ Stopped(c) = None
  BY DEF RecordWritten, At
<1>2. /\ KeySeen(c) = None
      /\ release[Named(c)].state = "absent"
      /\ LandsAs(c) = "approved" => StillLive(c)
  BY <1>1, AnswerAssumption DEF Stopped, VersionTaken, Refusals
<1>3. Named(c) \in ReleaseId
  BY <1>1, CallParts
<1> QED
  BY <1>1, <1>2, <1>3 DEF KeySeen, TypeOK, HashIsExplained

\* What a transaction that writes leaves behind.
LEMMA WritesKey ==
  ASSUME TypeOK, NEW c \in Calls, RecordWritten(c)
  PROVE  /\ keys'[KeyOf(call[c].request)] = [body |-> Sub(c), release |-> Named(c)]
         /\ \A k \in Accounts \X Keys :
              k # KeyOf(call[c].request) => keys'[k] = keys[k]
         /\ [body |-> Sub(c), release |-> Named(c)] # None
         /\ release'[Named(c)] = PublishedRow(c)
<1>1. ~At(c, "idle")
  BY DEF RecordWritten, At
<1>2. /\ KeyOf(call[c].request) \in Accounts \X Keys
      /\ Sub(c) \in Submission /\ Named(c) \in ReleaseId
  BY <1>1, CallParts
<1>3. [body |-> Sub(c), release |-> Named(c)] \in KeyRow
  BY <1>2 DEF KeyRow
<1>4. release'[Named(c)] = PublishedRow(c)
  BY <1>2 DEF RecordWritten, WithoutWaiting, Supersede
<1> QED
  BY <1>2, <1>3, <1>4, KeyAssumption DEF RecordWritten, TypeOK

\* Only a publish's transaction writes a key, and every step keeps the audit log.
LEMMA KeysAndAudit ==
  ASSUME [Next]_vars
  PROVE  /\ UNCHANGED keys \/ \E c \in Calls : RecordWritten(c)
         /\ audit \subseteq audit'
<1>1. ASSUME NEW c \in Calls, Publish(c)
      PROVE  (UNCHANGED keys \/ RecordWritten(c)) /\ audit \subseteq audit'
  BY <1>1 DEF Publish, Begin, CheckAuthority, CheckVersionUnused, ReadTrust, ReadPrevious,
     Fetch, RecordStopped, RecordWritten, Finish, Lose, tables
<1>2. ASSUME NEW rv \in Reviewers, Review(rv)
      PROVE  UNCHANGED keys /\ audit \subseteq audit'
  BY <1>2 DEF Review, Approve, Reject, ReverifyRead, SetTrust, tables
<1>3. ASSUME NEW k \in Checks, Reverify(k)
      PROVE  UNCHANGED keys /\ audit \subseteq audit'
  BY <1>3 DEF Reverify, ReverifyFetch, ReverifyRecord, LoseCheck, tables
<1>4. CASE HoldersChange \/ Tick \/ UNCHANGED vars
  BY <1>4 DEF HoldersChange, Tick, vars, tables
<1> QED
  BY <1>1, <1>2, <1>3, <1>4 DEF Next

LEMMA KeysStay ==
  ASSUME TypeOK, [Next]_vars, NEW k \in Accounts \X Keys, keys[k] # None
  PROVE  keys'[k] = keys[k]
BY KeysAndAudit, WritesAfresh, WritesKey

\* A row is of one author and one origin once it is there.
LEMMA AuthorStays ==
  ASSUME TypeOK, [Next]_vars, NEW id \in ReleaseId
  PROVE  \/ Written(id)
         \/ /\ release'[id].source = release[id].source
            /\ release'[id].submittedBy = release[id].submittedBy
<1>1. RowStep(id) /\ release[id] \in Row
  BY EveryRowStep DEF TypeOK
<1>2. CASE Retiring(id)
  BY <1>1, <1>2 DEF Retiring, Row
<1>3. CASE Deciding(id)
  BY <1>1, <1>3 DEF Deciding, Reviewed, Row
<1>4. CASE Filling(id)
  BY <1>1, <1>4 DEF Filling, Verified, Row
<1> QED
  BY <1>1, <1>2, <1>3, <1>4 DEF RowStep

\* Version v of p is, or was, the one on the wire.
Served(p, v) == release[<<p, v>>].state \in {"approved", "superseded"}

\* What is compared against it is the same whenever it is read.
LEMMA ServedStays ==
  ASSUME TypeOK, [Next]_vars, NEW p \in Plugins, NEW v \in Versions, Served(p, v)
  PROVE  Served(p, v)' /\ AsPrevious(p, v)' = AsPrevious(p, v)
<1>1. <<p, v>> \in ReleaseId
  BY DEF ReleaseId
<1>2. /\ release[<<p, v>>] \in Row
      /\ release'[<<p, v>>] \in
           {release[<<p, v>>], [release[<<p, v>>] EXCEPT !.state = "superseded"]}
  BY <1>1, FinalStep DEF TypeOK, Served
<1> QED
  BY <1>2 DEF Served, AsPrevious, Bytes, Row

-----------------------------------------------------------------------------
(* A key names one release.                                                *)

KeysExplained ==
  \A k \in Accounts \X Keys :
    keys[k] # None =>
      /\ <<keys[k].body.plugin, keys[k].body.version>> = keys[k].release
      /\ release[keys[k].release].source = "publish"
      /\ release[keys[k].release].submittedBy = k[1]

PublishedIsNamed ==
  \A id \in ReleaseId :
    release[id].source = "publish" =>
      \E k \in Accounts \X Keys : keys[k] # None /\ keys[k].release = id

ToldItsOwn(s) ==
  s.answer \in {"recorded", "replayed"} =>
    /\ s.pc = "answered"
    /\ keys[KeyOf(s.request)] # None
    /\ keys[KeyOf(s.request)] = [body |-> s.request.sub, release |-> s.told]

LEMMA KeysExplainedStep ==
  ASSUME TypeOK, KeysExplained, [Next]_vars
  PROVE  KeysExplained'
<1> SUFFICES ASSUME NEW k \in Accounts \X Keys, keys'[k] # None
             PROVE  /\ <<keys'[k].body.plugin, keys'[k].body.version>> = keys'[k].release
                    /\ release'[keys'[k].release].source = "publish"
                    /\ release'[keys'[k].release].submittedBy = k[1]
  BY DEF KeysExplained
<1>1. CASE keys[k] # None
  <2>1. keys'[k] = keys[k]
    BY <1>1, KeysStay
  <2>2. keys[k].release \in ReleaseId
    BY <1>1 DEF TypeOK, KeyRow
  <2>3. ~Written(keys[k].release)
    BY <1>1, PeopleAssumption DEF Written, KeysExplained, NoRow, Sources
  <2> QED
    BY <1>1, <2>1, <2>2, <2>3, AuthorStays DEF KeysExplained
<1>2. CASE keys[k] = None
  <2>1. PICK c \in Calls : RecordWritten(c)
    BY <1>2, KeysAndAudit
  <2>2. k = KeyOf(call[c].request)
    BY <1>2, <2>1, WritesKey
  <2>3. /\ keys'[k] = [body |-> Sub(c), release |-> Named(c)]
        /\ release'[Named(c)] = PublishedRow(c)
    BY <2>1, <2>2, WritesKey
  <2> QED
    BY <2>2, <2>3 DEF Named, PublishedRow, KeyOf, Author
<1> QED
  BY <1>1, <1>2

LEMMA PublishedIsNamedStep ==
  ASSUME TypeOK, PublishedIsNamed, [Next]_vars
  PROVE  PublishedIsNamed'
<1> SUFFICES ASSUME NEW id \in ReleaseId, release'[id].source = "publish"
             PROVE  \E k \in Accounts \X Keys : keys'[k] # None /\ keys'[k].release = id
  BY DEF PublishedIsNamed
<1>1. CASE Written(id)
  <2>1. PICK c \in Calls : RecordWritten(c) /\ id = Named(c)
    BY <1>1 DEF Written
  <2>2. KeyOf(call[c].request) \in Accounts \X Keys
    BY <2>1, WritesAfresh, CallParts
  <2>3. keys'[KeyOf(call[c].request)] = [body |-> Sub(c), release |-> Named(c)]
    BY <2>1, WritesKey
  <2> QED
    BY <2>1, <2>2, <2>3, WritesKey
<1>2. CASE ~Written(id)
  <2>1. PICK k \in Accounts \X Keys : keys[k] # None /\ keys[k].release = id
    BY <1>2, AuthorStays DEF PublishedIsNamed
  <2> QED
    BY <2>1, KeysStay
<1> QED
  BY <1>1, <1>2

\* A refusal names no release, and a slot that moves on has not been answered.
LEMMA PublishTells ==
  ASSUME TypeOK, NEW c \in Calls, Publish(c), ToldItsOwn(call[c])
  PROVE  ToldItsOwn(call[c])'
<1>0. call \in [Calls -> CallState] /\ call[c] \in CallState
  BY DEF TypeOK
<1>1. ASSUME NEW answer \in Refusals, Refuse(c, answer) PROVE ToldItsOwn(call[c])'
  <2>1. call'[c].answer = answer
    BY <1>0, <1>1 DEF Refuse, Answer, NoCall
  <2> QED
    BY <2>1 DEF ToldItsOwn, Refusals
<1>2. ASSUME ~At(c, "answered"), call'[c].answer = call[c].answer
      PROVE  ToldItsOwn(call[c])'
  BY <1>2 DEF ToldItsOwn, At
<1>3. ASSUME call'[c].answer = None PROVE ToldItsOwn(call[c])'
  BY <1>3, AnswerAssumption DEF ToldItsOwn
<1>4. ASSUME NEW q \in Requests, Begin(c, q) PROVE ToldItsOwn(call[c])'
  <2>1. KeyOf(q) \in Accounts \X Keys /\ keys' = keys
    BY <1>4, RequestAssumption DEF KeyOf, Request, Begin, tables
  <2> DEFINE row == keys[KeyOf(q)]
  <2>2. row \in KeyRow \cup {None}
    BY <2>1 DEF TypeOK
  <2>3. CASE row = None
    <3>1. call'[c] = [NoCall EXCEPT !.pc = "authority", !.request = q]
      BY <1>0, <1>4, <2>3 DEF Begin
    <3>2. call'[c].answer = None
      BY <3>1 DEF NoCall
    <3> QED
      BY <1>3, <3>2
  <2>4. CASE row # None /\ row.body = q.sub
    <3>1. Answer(c, q, "replayed", row.release)
      BY <1>4, <2>4 DEF Begin
    <3>2. /\ keys'[KeyOf(q)] # None
          /\ keys'[KeyOf(q)] = [body |-> q.sub, release |-> row.release]
      BY <2>1, <2>2, <2>4 DEF KeyRow
    <3>3. PICK id : id = row.release
      OBVIOUS
    <3>4. /\ call'[c].answer = "replayed" /\ call'[c].pc = "answered"
          /\ call'[c].request = q /\ call'[c].told = id
      BY <1>0, <3>1, <3>3 DEF Answer, NoCall
    <3> QED
      BY <3>2, <3>3, <3>4 DEF ToldItsOwn, KeyOf
  <2>5. CASE row # None /\ row.body # q.sub
    <3>1. call'[c].answer = "idempotency_key_reused"
      BY <1>0, <1>4, <2>5 DEF Begin, Answer, NoCall
    <3> QED
      BY <3>1 DEF ToldItsOwn
  <2> QED
    BY <2>3, <2>4, <2>5
<1>5. CASE CheckAuthority(c)
  <2>1. CASE call' = [call EXCEPT ![c].pc = "version"]
    <3>1. call'[c] = [call[c] EXCEPT !.pc = "version"]
      BY <1>0, <2>1
    <3> QED
      BY <1>0, <1>2, <1>5, <3>1 DEF CheckAuthority, At, CallState
  <2> QED
    BY <1>1, <1>5, <2>1 DEF CheckAuthority, Refusals
<1>6. CASE CheckVersionUnused(c)
  <2>1. CASE call' = [call EXCEPT ![c].pc = "trust"]
    <3>1. call'[c] = [call[c] EXCEPT !.pc = "trust"]
      BY <1>0, <2>1
    <3> QED
      BY <1>0, <1>2, <1>6, <3>1 DEF CheckVersionUnused, At, CallState
  <2> QED
    BY <1>1, <1>6, <2>1 DEF CheckVersionUnused, Refusals
<1>7. CASE ReadTrust(c)
  <2>1. CASE call' = [call EXCEPT ![c] = [@ EXCEPT !.pc = "previous",
                                                  !.trust = trust[Author(c)]]]
    <3>1. call'[c] = [call[c] EXCEPT !.pc = "previous", !.trust = trust[Author(c)]]
      BY <1>0, <2>1
    <3> QED
      BY <1>0, <1>2, <1>7, <3>1 DEF ReadTrust, At, CallState
  <2> QED
    BY <1>1, <1>7, <2>1 DEF ReadTrust, Refusals
<1>8. CASE ReadPrevious(c)
  <2>1. call'[c] = [call[c] EXCEPT !.pc = "fetch", !.prev = PreviousOf(Plugin(c))]
    BY <1>0, <1>8 DEF ReadPrevious
  <2> QED
    BY <1>0, <1>2, <1>8, <2>1 DEF ReadPrevious, At, CallState
<1>9. CASE Fetch(c)
  <2>1. PICK sha \in FetchResults :
          call'[c] = [call[c] EXCEPT
            !.pc      = "record",
            !.sha     = sha,
            !.reasons = EvaluateQuarantine(call[c].prev, Sub(c), sha),
            !.lands   = Decide(call[c].trust,
                               EvaluateQuarantine(call[c].prev, Sub(c), sha)),
            !.at      = clock]
    BY <1>0, <1>9 DEF Fetch
  <2>2. call'[c].answer = call[c].answer
    BY <1>0, <2>1 DEF CallState
  <2> QED
    BY <1>2, <1>9, <2>2 DEF Fetch, At
<1>10. CASE RecordStopped(c)
  <2>1. ~At(c, "idle") /\ Stopped(c) # None /\ keys' = keys
    BY <1>10 DEF RecordStopped, At, tables
  <2>2. CASE Stopped(c) = "replayed"
    <3>1. KeySeen(c) # None /\ KeySeen(c).body = Sub(c) /\ KeySeen(c) \in KeyRow
      BY <2>1, <2>2, CallParts DEF Stopped
    <3>2. /\ call'[c].answer = "replayed"
          /\ call'[c].pc = "answered"
          /\ call'[c].request = call[c].request
          /\ call'[c].told = KeySeen(c).release
      BY <1>0, <1>10, <2>2 DEF RecordStopped, Answer, NoCall
    <3>3. /\ keys'[KeyOf(call[c].request)] # None
          /\ keys'[KeyOf(call[c].request)] = [body |-> Sub(c), release |-> KeySeen(c).release]
      BY <2>1, <3>1 DEF KeySeen, KeyRow
    <3> QED
      BY <3>2, <3>3 DEF ToldItsOwn, KeyOf, Sub
  <2>3. CASE Stopped(c) # "replayed"
    <3>1. Stopped(c) \in Refusals
      BY <2>1, <2>3 DEF Stopped, Refusals
    <3>2. call'[c].answer = Stopped(c)
      BY <1>0, <1>10, <2>3 DEF RecordStopped, Refuse, Answer, NoCall
    <3> QED
      BY <3>1, <3>2 DEF ToldItsOwn, Refusals
  <2> QED
    BY <2>2, <2>3
<1>11. CASE RecordWritten(c)
  <2>1. /\ call'[c].pc = "answered"
        /\ call'[c].request = call[c].request
        /\ call'[c].told = Named(c)
    BY <1>0, <1>11 DEF RecordWritten, Answer, NoCall
  <2> QED
    BY <1>11, <2>1, WritesKey DEF ToldItsOwn, KeyOf, Sub
<1>12. CASE Finish(c) \/ Lose(c)
  <2>1. call'[c] = NoCall
    BY <1>0, <1>12 DEF Finish, Lose
  <2> QED
    BY <1>3, <2>1 DEF NoCall
<1> QED
  BY <1>4, <1>5, <1>6, <1>7, <1>8, <1>9, <1>10, <1>11, <1>12 DEF Publish

\* What a slot was told stays true while others publish.
LEMMA ToldStep ==
  ASSUME TypeOK, [Next]_vars, \A c \in Calls : ToldItsOwn(call[c])
  PROVE  \A c \in Calls : ToldItsOwn(call[c])'
<1> SUFFICES ASSUME NEW d \in Calls PROVE ToldItsOwn(call[d])'
  OBVIOUS
<1>1. CASE call'[d] = call[d]
  <2>1. CASE call[d].answer \in {"recorded", "replayed"}
    <3>1. ~At(d, "idle")
      BY <2>1 DEF At, ToldItsOwn
    <3>2. KeyOf(call[d].request) \in Accounts \X Keys
      BY <3>1, CallParts
    <3>3. /\ keys[KeyOf(call[d].request)] # None
          /\ keys[KeyOf(call[d].request)] = [body |-> Sub(d), release |-> call[d].told]
      BY <2>1 DEF ToldItsOwn, Sub
    <3> QED
      BY <1>1, <3>2, <3>3, KeysStay DEF ToldItsOwn, KeyOf, Sub
  <2>2. CASE call[d].answer \notin {"recorded", "replayed"}
    BY <1>1, <2>2 DEF ToldItsOwn
  <2> QED
    BY <2>1, <2>2
<1>2. ASSUME NEW c \in Calls, Publish(c) PROVE ToldItsOwn(call[d])'
  BY <1>1, <1>2, PublishTells, OtherCallsStay
<1> QED
  BY <1>1, <1>2 DEF Next, Review, Reverify, Approve, Reject, ReverifyRead, SetTrust,
     ReverifyFetch, ReverifyRecord, LoseCheck, HoldersChange, Tick, vars

(***************************************************************************)
(* A key names one release for ever, each published release is named by a  *)
(* key of its author with its body, and whoever is answered with a release *)
(* is answered with the one its key names, however many requests of one    *)
(* key are in flight together.                                             *)
(***************************************************************************)
THEOREM KeysNameTheirReleases == Spec => []KeyNamesItsRelease
<1> DEFINE KInv == /\ KeysExplained
                   /\ PublishedIsNamed
                   /\ \A c \in Calls : ToldItsOwn(call[c])
<1>1. Init => KInv
  <2> SUFFICES ASSUME Init PROVE KInv
    OBVIOUS
  <2>1. \A k \in Accounts \X Keys : keys[k] = None
    BY DEF Init
  <2>2. \A id \in ReleaseId : release[id].source # "publish"
    BY PeopleAssumption DEF Init, ImportedRow, NoRow, Sources
  <2>3. \A c \in Calls : ToldItsOwn(call[c])
    BY AnswerAssumption DEF Init, ToldItsOwn, NoCall
  <2> QED
    BY <2>1, <2>2, <2>3 DEF KeysExplained, PublishedIsNamed
<1>2. TypeOK /\ KInv /\ [Next]_vars => KInv'
  BY KeysExplainedStep, PublishedIsNamedStep, ToldStep
<1>3. KInv => KeyNamesItsRelease
  BY DEF KeysExplained, PublishedIsNamed, ToldItsOwn, KeyNamesItsRelease, Sub
<1> QED
  BY <1>1, <1>2, <1>3, TypeCorrect, PTL DEF Spec

-----------------------------------------------------------------------------
(* What goes live by itself was compared with what it replaced.            *)

\* What a slot compares against is what the version it names serves to this day.
BasisStands(s) ==
  s.prev.version # None =>
    /\ s.request # None
    /\ Served(s.request.sub.plugin, s.prev.version)
    /\ s.prev = AsPrevious(s.request.sub.plugin, s.prev.version)

\* A slot that compares against nothing.
LEMMA NoBasis ==
  ASSUME NEW c \in Calls, call'[c].prev = NoPrevious
  PROVE  BasisStands(call[c])'
BY DEF BasisStands, NoPrevious

\* A slot that a step leaves alone, or takes on with the same request and basis.
LEMMA BasisStays ==
  ASSUME TypeOK, [Next]_vars, NEW c \in Calls, BasisStands(call[c]),
         call'[c].prev = call[c].prev, call'[c].request = call[c].request
  PROVE  BasisStands(call[c])'
<1> SUFFICES ASSUME call[c].prev.version # None PROVE BasisStands(call[c])'
  BY DEF BasisStands
<1>1. call[c] \in CallState /\ call[c].prev \in Previous
  BY DEF TypeOK, CallState
<1>2. PICK p, v : p = call[c].request.sub.plugin /\ v = call[c].prev.version
  OBVIOUS
<1>3. p \in Plugins /\ v \in Versions
  BY <1>1, <1>2 DEF BasisStands, CallState, Request, Submission, Previous
<1>4. Served(p, v) /\ call[c].prev = AsPrevious(p, v)
  BY <1>2 DEF BasisStands
<1>5. Served(p, v)' /\ AsPrevious(p, v)' = AsPrevious(p, v)
  BY <1>3, <1>4, ServedStays
<1>6. /\ call'[c].request.sub.plugin = p
      /\ call'[c].prev.version = v
      /\ call'[c].prev = AsPrevious(p, v)'
      /\ call'[c].request # None
  BY <1>2, <1>4, <1>5 DEF BasisStands
<1> QED
  BY <1>5, <1>6 DEF BasisStands

\* The plugin is read once more: what it serves is live.
LEMMA ReadsBasis ==
  ASSUME TypeOK, NEW c \in Calls, ReadPrevious(c)
  PROVE  BasisStands(call[c])'
<1>1. ~At(c, "idle")
  BY DEF ReadPrevious, At
<1>2. /\ Plugin(c) \in Plugins
      /\ call[c] \in CallState
      /\ call[c].request \in Requests
  BY <1>1, CallParts
<1>3. /\ call'[c].prev = PreviousOf(Plugin(c))
      /\ call'[c].request = call[c].request
      /\ release' = release
  BY <1>2 DEF ReadPrevious, TypeOK, CallState, tables
<1>4. CASE Live(Plugin(c)) = None
  BY <1>3, <1>4, NoBasis DEF PreviousOf
<1>5. CASE Live(Plugin(c)) # None
  <2>1. PICK p, v : p = Plugin(c) /\ v = Live(Plugin(c))
    OBVIOUS
  <2>2. v \in LiveVersions(p)
    BY <1>2, <1>5, <2>1, LiveType
  <2>3. Served(p, v)'
    BY <1>3, <2>2 DEF Served, LiveVersions
  <2>4. call'[c].prev = AsPrevious(p, v) /\ AsPrevious(p, v)' = AsPrevious(p, v)
    BY <1>3, <1>5, <2>1 DEF PreviousOf, AsPrevious, Bytes
  <2>5. call'[c].prev.version = v /\ call'[c].request.sub.plugin = p
    BY <1>3, <2>1, <2>4 DEF AsPrevious, Plugin, Sub
  <2>6. call'[c].request # None
    BY <1>2, <1>3, RequestAssumption
  <2> QED
    BY <2>3, <2>4, <2>5, <2>6 DEF BasisStands
<1> QED
  BY <1>4, <1>5

LEMMA PublishBasis ==
  ASSUME TypeOK, NEW c \in Calls, Publish(c), BasisStands(call[c])
  PROVE  BasisStands(call[c])'
<1>0. /\ call \in [Calls -> CallState] /\ call[c] \in CallState
      /\ [Next]_vars
  BY DEF TypeOK, Next
<1>1. ASSUME NEW q, NEW answer, NEW id, Answer(c, q, answer, id)
      PROVE  BasisStands(call[c])'
  <2>1. call'[c].prev = NoPrevious
    BY <1>0, <1>1 DEF Answer, NoCall
  <2> QED
    BY <2>1, NoBasis
<1>2. ASSUME NEW answer, Refuse(c, answer) PROVE BasisStands(call[c])'
  BY <1>1, <1>2 DEF Refuse
<1>3. ASSUME NEW q \in Requests, Begin(c, q) PROVE BasisStands(call[c])'
  <2>1. CASE call' = [call EXCEPT ![c] = [NoCall EXCEPT !.pc = "authority", !.request = q]]
    <3>1. call'[c].prev = NoPrevious
      BY <1>0, <2>1 DEF NoCall
    <3> QED
      BY <3>1, NoBasis
  <2> QED
    BY <1>1, <1>3, <2>1 DEF Begin
<1>4. CASE CheckAuthority(c)
  <2>1. CASE call' = [call EXCEPT ![c].pc = "version"]
    <3>1. call'[c] = [call[c] EXCEPT !.pc = "version"]
      BY <1>0, <2>1
    <3> QED
      BY <1>0, <3>1, BasisStays DEF CallState
  <2> QED
    BY <1>2, <1>4, <2>1 DEF CheckAuthority
<1>5. CASE CheckVersionUnused(c)
  <2>1. CASE call' = [call EXCEPT ![c].pc = "trust"]
    <3>1. call'[c] = [call[c] EXCEPT !.pc = "trust"]
      BY <1>0, <2>1
    <3> QED
      BY <1>0, <3>1, BasisStays DEF CallState
  <2> QED
    BY <1>2, <1>5, <2>1 DEF CheckVersionUnused
<1>6. CASE ReadTrust(c)
  <2>1. CASE call' = [call EXCEPT ![c] = [@ EXCEPT !.pc = "previous",
                                                  !.trust = trust[Author(c)]]]
    <3>1. call'[c] = [call[c] EXCEPT !.pc = "previous", !.trust = trust[Author(c)]]
      BY <1>0, <2>1
    <3> QED
      BY <1>0, <3>1, BasisStays DEF CallState
  <2> QED
    BY <1>2, <1>6, <2>1 DEF ReadTrust
<1>7. CASE ReadPrevious(c)
  BY <1>7, ReadsBasis
<1>8. CASE Fetch(c)
  <2>1. PICK sha \in FetchResults :
          call'[c] = [call[c] EXCEPT
            !.pc      = "record",
            !.sha     = sha,
            !.reasons = EvaluateQuarantine(call[c].prev, Sub(c), sha),
            !.lands   = Decide(call[c].trust,
                               EvaluateQuarantine(call[c].prev, Sub(c), sha)),
            !.at      = clock]
    BY <1>0, <1>8 DEF Fetch
  <2>2. call'[c].prev = call[c].prev /\ call'[c].request = call[c].request
    BY <1>0, <2>1 DEF CallState
  <2> QED
    BY <1>0, <2>2, BasisStays
<1>9. CASE RecordStopped(c) \/ RecordWritten(c)
  BY <1>1, <1>2, <1>9 DEF RecordStopped, RecordWritten
<1>10. CASE Finish(c) \/ Lose(c)
  <2>1. call'[c].prev = NoPrevious
    BY <1>0, <1>10 DEF Finish, Lose, NoCall
  <2> QED
    BY <2>1, NoBasis
<1> QED
  BY <1>3, <1>4, <1>5, <1>6, <1>7, <1>8, <1>9, <1>10 DEF Publish

LEMMA BasisStep ==
  ASSUME TypeOK, [Next]_vars, \A c \in Calls : BasisStands(call[c])
  PROVE  \A c \in Calls : BasisStands(call[c])'
<1> SUFFICES ASSUME NEW d \in Calls PROVE BasisStands(call[d])'
  OBVIOUS
<1>1. CASE call'[d] = call[d]
  BY <1>1, BasisStays
<1>2. ASSUME NEW c \in Calls, Publish(c) PROVE BasisStands(call[d])'
  BY <1>1, <1>2, PublishBasis, OtherCallsStay
<1> QED
  BY <1>1, <1>2 DEF Next, Review, Reverify, Approve, Reject, ReverifyRead, SetTrust,
     ReverifyFetch, ReverifyRecord, LoseCheck, HoldersChange, Tick, vars

LEMMA BasesStand == Spec => [](\A c \in Calls : BasisStands(call[c]))
<1>1. Init => \A c \in Calls : BasisStands(call[c])
  BY DEF Init, NoCall, NoPrevious, BasisStands
<1>2. TypeOK /\ (\A c \in Calls : BasisStands(call[c])) /\ [Next]_vars
        => (\A c \in Calls : BasisStands(call[c]))'
  BY BasisStep
<1> QED
  BY <1>1, <1>2, TypeCorrect, PTL DEF Spec

\* A publish is logged by its own transaction, and by nothing else.
LEMMA PublishIsLogged ==
  ASSUME [Next]_vars, NEW e \in audit', e \notin audit, e.action = "plugin.publish"
  PROVE  \E c \in Calls : RecordWritten(c) /\ e = PublishEntry(c)
<1>1. ASSUME NEW c \in Calls, Publish(c)
      PROVE  RecordWritten(c) /\ e = PublishEntry(c)
  <2>1. RecordWritten(c)
    BY <1>1 DEF Publish, Begin, CheckAuthority, CheckVersionUnused, ReadTrust,
       ReadPrevious, Fetch, RecordStopped, Finish, Lose, tables
  <2>2. e \in Retirements(c) \/ e = PublishEntry(c)
    BY <2>1 DEF RecordWritten
  <2>3. e \notin Retirements(c)
    BY DEF Retirements
  <2> QED
    BY <2>1, <2>2, <2>3
<1>2. ASSUME NEW rv \in Reviewers, Review(rv) PROVE FALSE
  BY <1>2 DEF Review, Approve, Reject, ReverifyRead, SetTrust, tables
<1>3. ASSUME NEW k \in Checks, Reverify(k) PROVE FALSE
  <2>1. audit' = audit \/ audit' = audit \cup {ReverifyEntry(k)}
    BY <1>3 DEF Reverify, ReverifyFetch, ReverifyRecord, LoseCheck, tables
  <2> QED
    BY <2>1 DEF ReverifyEntry
<1>4. ~(HoldersChange \/ Tick \/ UNCHANGED vars)
  BY DEF HoldersChange, Tick, vars, tables
<1> QED
  BY <1>1, <1>2, <1>3, <1>4 DEF Next

\* The parts of the audit row of a publish.
LEMMA PublishEntryParts ==
  ASSUME TypeOK, NEW e \in audit, e.action = "plugin.publish"
  PROVE  /\ e.release \in ReleaseId
         /\ e.release[1] \in Plugins
         /\ e.superseded \in Versions \cup {None}
         /\ e.reasons \subseteq Reasons
BY DEF TypeOK, Entry, ReleaseId

\* The release of an audit row passes every rule against the one it replaced.
ComparedWith(e, p, v) ==
  \E k \in Accounts \X Keys :
    /\ keys[k] # None
    /\ keys[k].release = e.release
    /\ EvaluateQuarantine(AsPrevious(p, v), keys[k].body, release[e.release].sha) = {}

Compared(e) ==
  /\ e.superseded # None
  /\ Served(e.release[1], e.superseded)
  /\ ComparedWith(e, e.release[1], e.superseded)

ListedByRule ==
  \A e \in audit : e.action = "plugin.publish" /\ e.state = "approved" => Compared(e)

LEMMA PassingIsHashed ==
  ASSUME NEW prev, NEW sub, NEW sha, EvaluateQuarantine(prev, sub, sha) = {}
  PROVE  sha # None
<1>1. "NotVerified" \in Reasons
  BY DEF Reasons
<1> QED
  BY <1>1 DEF EvaluateQuarantine

\* An audit row that was true stays true.
LEMMA ComparedStays ==
  ASSUME TypeOK, ImportsNeverWait, [Next]_vars,
         NEW e \in audit, e.action = "plugin.publish", Compared(e)
  PROVE  Compared(e)'
<1>1. /\ e.release \in ReleaseId
      /\ e.release[1] \in Plugins
      /\ e.superseded \in Versions
  BY PublishEntryParts DEF Compared
<1>2. PICK p, v : p = e.release[1] /\ v = e.superseded
  OBVIOUS
<1>3. Served(p, v)' /\ AsPrevious(p, v)' = AsPrevious(p, v)
  BY <1>1, <1>2, ServedStays DEF Compared
<1>4. PICK k \in Accounts \X Keys :
        /\ keys[k] # None
        /\ keys[k].release = e.release
        /\ EvaluateQuarantine(AsPrevious(p, v), keys[k].body, release[e.release].sha) = {}
  BY <1>2 DEF Compared, ComparedWith
<1>5. keys'[k] = keys[k]
  BY <1>4, KeysStay
<1>6. release'[e.release].sha = release[e.release].sha
  BY <1>1, <1>4, PassingIsHashed, HashStep
<1>7. EvaluateQuarantine(AsPrevious(p, v)', keys'[k].body, release'[e.release].sha) = {}
  BY <1>3, <1>4, <1>5, <1>6
<1>8. ComparedWith(e, p, v)'
  BY <1>4, <1>5, <1>7 DEF ComparedWith
<1> QED
  BY <1>2, <1>3, <1>8 DEF Compared

\* A publish that lands live logs what it was compared with.
LEMMA ComparedAtCommit ==
  ASSUME TypeOK, CallsVetted, [Next]_vars, NEW c \in Calls, RecordWritten(c),
         BasisStands(call[c]), NEW e, e = PublishEntry(c), e.state = "approved"
  PROVE  Compared(e)'
<1>1. /\ ~At(c, "idle")
      /\ LandsAs(c) = "approved"
      /\ StillLive(c)
      /\ call[c].lands = "approved"
  BY WritesAfresh DEF PublishEntry, LandsAs
<1>2. /\ Plugin(c) \in Plugins
      /\ Named(c)[1] = Plugin(c)
      /\ call[c] \in CallState
      /\ KeyOf(call[c].request) \in Accounts \X Keys
  BY <1>1, CallParts
<1>3. PICK p, v, k : p = Plugin(c) /\ v = call[c].prev.version /\ k = KeyOf(call[c].request)
  OBVIOUS
<1>4. /\ v = Live(p)
      /\ v # None
      /\ v \in Versions
  BY <1>1, <1>2, <1>3, LiveType DEF StillLive
<1>5. e.superseded = v /\ e.release = Named(c) /\ e.release[1] = p
  BY <1>1, <1>2, <1>3, <1>4 DEF PublishEntry, Replaced
<1>6. Served(p, v) /\ call[c].prev = AsPrevious(p, v)
  BY <1>3, <1>4 DEF BasisStands, Plugin, Sub
<1>7. Served(p, v)' /\ AsPrevious(p, v)' = AsPrevious(p, v)
  BY <1>2, <1>3, <1>4, <1>6, ServedStays
<1>8. EvaluateQuarantine(AsPrevious(p, v), Sub(c), call[c].sha) = {}
  BY <1>1, <1>6 DEF CallsVetted, Vetted, Sub
<1>9. /\ keys'[k] = [body |-> Sub(c), release |-> Named(c)]
      /\ keys'[k] # None
      /\ release'[Named(c)].sha = call[c].sha
  <2>1. /\ keys'[KeyOf(call[c].request)] = [body |-> Sub(c), release |-> Named(c)]
        /\ [body |-> Sub(c), release |-> Named(c)] # None
        /\ release'[Named(c)] = PublishedRow(c)
    BY WritesKey
  <2>2. keys'[k] = [body |-> Sub(c), release |-> Named(c)]
    BY <1>3, <2>1
  <2> QED
    BY <2>1, <2>2 DEF PublishedRow
<1>10. /\ keys'[k].release = e.release
       /\ keys'[k].body = Sub(c)
       /\ release'[e.release].sha = call[c].sha
  BY <1>5, <1>9
<1>11. EvaluateQuarantine(AsPrevious(p, v)', keys'[k].body, release'[e.release].sha) = {}
  BY <1>7, <1>8, <1>10
<1>12. ComparedWith(e, p, v)'
  BY <1>2, <1>3, <1>9, <1>10, <1>11 DEF ComparedWith
<1> QED
  BY <1>4, <1>5, <1>7, <1>12 DEF Compared

LEMMA ListedByRuleStep ==
  ASSUME TypeOK, ImportsNeverWait, CallsVetted, [Next]_vars, ListedByRule,
         \A c \in Calls : BasisStands(call[c])
  PROVE  ListedByRule'
<1> SUFFICES ASSUME NEW e \in audit', e.action = "plugin.publish", e.state = "approved"
             PROVE  Compared(e)'
  BY DEF ListedByRule
<1>1. CASE e \in audit
  BY <1>1, ComparedStays DEF ListedByRule
<1>2. CASE e \notin audit
  BY <1>2, PublishIsLogged, ComparedAtCommit
<1> QED
  BY <1>1, <1>2

(***************************************************************************)
(* What went live with no human passes every quarantine rule against the   *)
(* release it replaced, to this day: it was judged against that release    *)
(* before its download, it was still the live one at the commit, and what  *)
(* a rule reads of a release never changes once it has been live.          *)
(***************************************************************************)
THEOREM AutoPublishesWereCompared == Spec => []AutoPublishWasCompared
<1>1. Init => ListedByRule
  BY DEF Init, ListedByRule
<1>2. /\ TypeOK /\ ImportsNeverWait /\ CallsVetted
      /\ (\A c \in Calls : BasisStands(call[c]))
      /\ ListedByRule /\ [Next]_vars
      => ListedByRule'
  BY ListedByRuleStep
<1>3. ListedByRule => AutoPublishWasCompared
  BY DEF ListedByRule, Compared, ComparedWith, AutoPublishWasCompared
<1> QED
  BY <1>1, <1>2, <1>3, TypeCorrect, ImportsWaitForNobody, CallsAreVetted, BasesStand,
     PTL DEF Spec

-----------------------------------------------------------------------------
(* The audit log explains the release table.                               *)

\* The live release of a plugin, read off a row that is live.
LEMMA LiveIsTheRow ==
  ASSUME Alone("approved"), NEW id \in ReleaseId, release[id].state = "approved"
  PROVE  Live(id[1]) = id[2]
<1>1. id = <<id[1], id[2]>> /\ id[1] \in Plugins /\ id[2] \in Versions
  BY DEF ReleaseId
<1>2. id[2] \in LiveVersions(id[1])
  BY <1>1 DEF LiveVersions
<1>3. Live(id[1]) \in LiveVersions(id[1])
  BY <1>1, <1>2, LiveType
<1>4. PICK v \in Versions : v = Live(id[1]) /\ release[<<id[1], v>>].state = "approved"
  BY <1>3 DEF LiveVersions
<1>5. <<id[1], v>> \in ReleaseId
  BY <1>1, <1>4 DEF ReleaseId
<1>6. <<id[1], v>> = id
  BY <1>4, <1>5 DEF Alone
<1> QED
  BY <1>1, <1>4, <1>6

PublishesLogged(id)  == release[id].source = "publish" <=> Published(id)
RejectionLogged(id)  == release[id].state = "rejected" => Decided(id, "release.reject")
ReplacementLogged(id) == release[id].state = "superseded" => ReplacedBy(id)
ApprovalLogged(id) ==
  release[id].state = "approved" /\ release[id].reviewedBy # None =>
    Decided(id, "release.approve")
HashLogged(id) ==
  \A e \in audit :
    /\ e.action = "plugin.publish"
    /\ e.release = id
    /\ "NotVerified" \in e.reasons
    /\ release[id].verified
    => \E r \in audit : /\ r.action = "release.reverify"
                        /\ r.release = id
                        /\ r.sha = release[id].sha

LEMMA PublishesLoggedStep ==
  ASSUME TypeOK, [Next]_vars, NEW id \in ReleaseId, PublishesLogged(id)
  PROVE  PublishesLogged(id)'
<1>1. audit \subseteq audit'
  BY KeysAndAudit
<1>2. ASSUME release'[id].source = "publish" PROVE Published(id)'
  <2>1. CASE Written(id)
    <3>1. PICK c \in Calls : RecordWritten(c) /\ id = Named(c)
      BY <2>1 DEF Written
    <3>2. PublishEntry(c) \in audit'
      BY <3>1 DEF RecordWritten
    <3> QED
      BY <3>1, <3>2 DEF Published, PublishEntry
  <2>2. CASE ~Written(id)
    BY <1>1, <1>2, <2>2, AuthorStays DEF PublishesLogged, Published
  <2> QED
    BY <2>1, <2>2
<1>3. ASSUME NEW e \in audit', e.action = "plugin.publish", e.release = id
      PROVE  release'[id].source = "publish"
  <2>1. CASE e \in audit
    <3>1. release[id].source = "publish"
      BY <1>3, <2>1 DEF PublishesLogged, Published
    <3>2. ~Written(id)
      BY <3>1, PeopleAssumption DEF Written, NoRow, Sources
    <3> QED
      BY <3>1, <3>2, AuthorStays
  <2>2. CASE e \notin audit
    <3>1. PICK c \in Calls : RecordWritten(c) /\ e = PublishEntry(c)
      BY <1>3, <2>2, PublishIsLogged
    <3>2. id = Named(c)
      BY <1>3, <3>1 DEF PublishEntry
    <3>3. release'[Named(c)] = PublishedRow(c)
      BY <3>1, WritesKey
    <3> QED
      BY <3>2, <3>3 DEF PublishedRow
  <2> QED
    BY <2>1, <2>2
<1> QED
  BY <1>2, <1>3 DEF PublishesLogged, Published

\* What a row that was just written says.
LEMMA WrittenSays ==
  ASSUME TypeOK, NEW id \in ReleaseId, Written(id)
  PROVE  /\ release'[id].state \in {"pending", "approved"}
         /\ release'[id].reviewedBy = None
<1>1. PICK c \in Calls : RecordWritten(c) /\ release'[id] = PublishedRow(c)
  BY DEF Written
<1>2. call[c].lands \in {"pending", "approved"}
  BY <1>1 DEF RecordWritten, At, TypeOK, CallState, CallCarries
<1>3. LandsAs(c) \in {"pending", "approved"}
  BY <1>2 DEF LandsAs
<1> QED
  BY <1>1, <1>3 DEF PublishedRow

LEMMA RejectionLoggedStep ==
  ASSUME TypeOK, [Next]_vars, NEW id \in ReleaseId, RejectionLogged(id)
  PROVE  RejectionLogged(id)'
<1> SUFFICES ASSUME release'[id].state = "rejected" PROVE Decided(id, "release.reject")'
  BY DEF RejectionLogged
<1>1. RowStep(id) /\ release[id] \in Row /\ audit \subseteq audit'
  BY EveryRowStep, KeysAndAudit DEF TypeOK
<1>2. CASE release'[id] = release[id]
  BY <1>1, <1>2 DEF RejectionLogged, Decided
<1>3. CASE Written(id)
  BY <1>3, WrittenSays
<1>4. CASE Retiring(id)
  BY <1>1, <1>4 DEF Retiring, Row
<1>5. CASE Deciding(id)
  <2>1. PICK rv \in Reviewers :
          \/ release'[id] = Reviewed(release[id], "approved", rv)
          \/ Reject(id, rv) /\ release'[id] = Reviewed(release[id], "rejected", rv)
    BY <1>5 DEF Deciding
  <2>2. Reject(id, rv) /\ release'[id].reviewedBy = rv
    BY <1>1, <2>1 DEF Reviewed, Row
  <2>3. [action |-> "release.reject", release |-> id, by |-> rv] \in audit'
    BY <2>2 DEF Reject
  <2> QED
    BY <2>2, <2>3 DEF Decided
<1>6. CASE Filling(id)
  BY <1>1, <1>6 DEF Filling, Blank, Waiting, Verified, Row
<1> QED
  BY <1>1, <1>2, <1>3, <1>4, <1>5, <1>6 DEF RowStep

LEMMA ApprovalLoggedStep ==
  ASSUME TypeOK, [Next]_vars, NEW id \in ReleaseId, ApprovalLogged(id)
  PROVE  ApprovalLogged(id)'
<1> SUFFICES ASSUME release'[id].state = "approved", release'[id].reviewedBy # None
             PROVE  Decided(id, "release.approve")'
  BY DEF ApprovalLogged
<1>1. RowStep(id) /\ release[id] \in Row /\ audit \subseteq audit'
  BY EveryRowStep, KeysAndAudit DEF TypeOK
<1>2. CASE release'[id] = release[id]
  BY <1>1, <1>2 DEF ApprovalLogged, Decided
<1>3. CASE Written(id)
  BY <1>3, WrittenSays
<1>4. CASE Retiring(id)
  BY <1>1, <1>4 DEF Retiring, Row
<1>5. CASE Deciding(id)
  <2>1. PICK rv \in Reviewers :
          \/ Approve(id, rv) /\ release'[id] = Reviewed(release[id], "approved", rv)
          \/ release'[id] = Reviewed(release[id], "rejected", rv)
    BY <1>5 DEF Deciding
  <2>2. Approve(id, rv) /\ release'[id].reviewedBy = rv
    BY <1>1, <2>1 DEF Reviewed, Row
  <2>3. [action |-> "release.approve", release |-> id, by |-> rv,
         superseded |-> Live(id[1])] \in audit'
    BY <2>2 DEF Approve
  <2> QED
    BY <2>2, <2>3 DEF Decided
<1>6. CASE Filling(id)
  BY <1>1, <1>6 DEF Filling, Blank, Waiting, Verified, Row
<1> QED
  BY <1>1, <1>2, <1>3, <1>4, <1>5, <1>6 DEF RowStep

\* The transaction that retires a release says so, and says for which.
LEMMA RetiringIsLogged ==
  ASSUME TypeOK, Alone("approved"), NEW id \in ReleaseId, Retiring(id)
  PROVE  ReplacedBy(id)'
<1>1. id = <<id[1], id[2]>> /\ id[1] \in Plugins /\ id[2] \in Versions
  BY DEF ReleaseId
<1>2. ASSUME NEW c \in Calls, RecordWritten(c), id[1] = Plugin(c),
             release[id].state = "approved", LandsAs(c) = "approved"
      PROVE  ReplacedBy(id)'
  <2>1. PublishEntry(c) \in audit'
    BY <1>2 DEF RecordWritten
  <2>2. PublishEntry(c).superseded = id[2]
    BY <1>2, LiveIsTheRow DEF PublishEntry, Replaced
  <2>3. PublishEntry(c).release[1] = id[1]
    BY <1>2, WritesAfresh, CallParts DEF PublishEntry
  <2>4. PublishEntry(c).action = "plugin.publish"
    BY DEF PublishEntry
  <2> QED
    BY <2>1, <2>2, <2>3, <2>4 DEF ReplacedBy
<1>3. ASSUME NEW c \in Calls, RecordWritten(c), id[1] = Plugin(c),
             release[id].state = "pending"
      PROVE  ReplacedBy(id)'
  <2>1. id[2] \in Retired(c)
    BY <1>1, <1>3 DEF Retired, WaitingVersions, Waiting
  <2> DEFINE entry == [action |-> "release.superseded", release |-> <<Plugin(c), id[2]>>,
                       by |-> Author(c), newer |-> Sub(c).version]
  <2>2. entry \in Retirements(c)
    BY <2>1 DEF Retirements
  <2>3. entry \in audit'
    BY <1>3, <2>2 DEF RecordWritten
  <2>4. entry.action = "release.superseded" /\ entry.release = id
    BY <1>1, <1>3
  <2> HIDE DEF entry
  <2> QED
    BY <2>3, <2>4 DEF ReplacedBy
<1>4. ASSUME NEW new \in ReleaseId, NEW rv \in Reviewers, Approve(new, rv),
             id[1] = new[1], release[id].state = "approved"
      PROVE  ReplacedBy(id)'
  <2> DEFINE entry == [action |-> "release.approve", release |-> new,
                       by |-> rv, superseded |-> Live(new[1])]
  <2>1. entry \in audit'
    BY <1>4 DEF Approve
  <2>2. Live(new[1]) = id[2]
    BY <1>4, LiveIsTheRow
  <2>3. /\ entry.action = "release.approve"
        /\ entry.release[1] = id[1]
        /\ entry.superseded = id[2]
    BY <1>4, <2>2
  <2> HIDE DEF entry
  <2> QED
    BY <2>1, <2>3 DEF ReplacedBy
<1> QED
  BY <1>2, <1>3, <1>4 DEF Retiring

LEMMA ReplacementLoggedStep ==
  ASSUME TypeOK, Alone("approved"), [Next]_vars, NEW id \in ReleaseId,
         ReplacementLogged(id)
  PROVE  ReplacementLogged(id)'
<1> SUFFICES ASSUME release'[id].state = "superseded" PROVE ReplacedBy(id)'
  BY DEF ReplacementLogged
<1>1. RowStep(id) /\ release[id] \in Row /\ audit \subseteq audit'
  BY EveryRowStep, KeysAndAudit DEF TypeOK
<1>2. CASE release'[id] = release[id]
  BY <1>1, <1>2 DEF ReplacementLogged, ReplacedBy
<1>3. CASE Written(id)
  BY <1>3, WrittenSays
<1>4. CASE Retiring(id)
  BY <1>4, RetiringIsLogged
<1>5. CASE Deciding(id)
  BY <1>1, <1>5 DEF Deciding, Reviewed, Row
<1>6. CASE Filling(id)
  BY <1>1, <1>6 DEF Filling, Blank, Waiting, Verified, Row
<1> QED
  BY <1>1, <1>2, <1>3, <1>4, <1>5, <1>6 DEF RowStep

LEMMA HashLoggedStep ==
  ASSUME TypeOK, ImportsNeverWait, CallsVetted, [Next]_vars, NEW id \in ReleaseId,
         PublishesLogged(id), HashLogged(id)
  PROVE  HashLogged(id)'
<1> SUFFICES ASSUME NEW e \in audit', e.action = "plugin.publish", e.release = id,
                    "NotVerified" \in e.reasons, release'[id].verified
             PROVE  \E r \in audit' : /\ r.action = "release.reverify"
                                      /\ r.release = id
                                      /\ r.sha = release'[id].sha
  BY DEF HashLogged
<1>1. RowStep(id) /\ release[id] \in Row /\ audit \subseteq audit'
  BY EveryRowStep, KeysAndAudit DEF TypeOK
<1>2. CASE e \notin audit
  <2>1. PICK c \in Calls : RecordWritten(c) /\ e = PublishEntry(c)
    BY <1>2, PublishIsLogged
  <2>2. id = Named(c) /\ "NotVerified" \in call[c].reasons
    BY <2>1 DEF PublishEntry
  <2>3. call[c].sha = None
    BY <2>2 DEF CallsVetted, Vetted
  <2>4. release'[Named(c)] = PublishedRow(c)
    BY <2>1, WritesKey
  <2>5. release'[id].verified = VerifiedAtPublish(c)
    BY <2>2, <2>4 DEF PublishedRow
  <2>6. ~VerifiedAtPublish(c)
    BY <2>3 DEF VerifiedAtPublish
  <2> QED
    BY <2>5, <2>6
<1>3. CASE e \in audit /\ release[id].verified
  <2>1. release[id].sha # None
    BY <1>3 DEF TypeOK, HashIsExplained
  <2>2. release'[id].sha = release[id].sha
    BY <2>1, HashStep
  <2> QED
    BY <1>1, <1>3, <2>2 DEF HashLogged
<1>4. CASE e \in audit /\ ~release[id].verified
  <2>1. release[id].source = "publish"
    BY <1>4 DEF PublishesLogged, Published
  <2>2. ~Written(id)
    BY <2>1, PeopleAssumption DEF Written, NoRow, Sources
  <2>3. CASE Retiring(id)
    BY <1>1, <1>4, <2>3 DEF Retiring, Row
  <2>4. CASE Deciding(id)
    BY <1>1, <1>4, <2>4 DEF Deciding, Reviewed, Row
  <2>5. CASE Filling(id)
    <3>1. PICK k \in Checks : /\ id = check[k].release
                             /\ release'[id] = Verified(release[id], check[k].sha)
                             /\ ReverifyEntry(k) \in audit'
      BY <2>5 DEF Filling
    <3>2. release'[id].sha = check[k].sha
      BY <1>1, <3>1 DEF Verified, Row
    <3> QED
      BY <3>1, <3>2 DEF ReverifyEntry
  <2> QED
    BY <1>1, <1>4, <2>2, <2>3, <2>4, <2>5 DEF RowStep
<1> QED
  BY <1>2, <1>3, <1>4

(***************************************************************************)
(* The audit log explains the release table: who published each row, who   *)
(* approved or rejected it, what took its place, and where a hash that the *)
(* publish could not compute came from.                                    *)
(***************************************************************************)
THEOREM ChangesAreExplained == Spec => []EveryChangeIsExplained
<1> DEFINE Explained(id) == /\ PublishesLogged(id)
                            /\ RejectionLogged(id)
                            /\ ReplacementLogged(id)
                            /\ ApprovalLogged(id)
                            /\ HashLogged(id)
           XInv == \A id \in ReleaseId : Explained(id)
<1>1. Init => XInv
  <2> SUFFICES ASSUME Init, NEW id \in ReleaseId PROVE Explained(id)
    OBVIOUS
  <2>1. audit = {}
    BY DEF Init
  <2>2. /\ release[id].source # "publish"
        /\ release[id].state \in {"absent", "approved"}
        /\ release[id].reviewedBy = None
    BY PeopleAssumption DEF Init, ImportedRow, NoRow, Sources
  <2> QED
    BY <2>1, <2>2 DEF PublishesLogged, RejectionLogged, ReplacementLogged,
       ApprovalLogged, HashLogged, Published
<1>2. TypeOK /\ ImportsNeverWait /\ CallsVetted /\ Alone("approved") /\ XInv /\ [Next]_vars
        => XInv'
  <2> SUFFICES ASSUME TypeOK, ImportsNeverWait, CallsVetted, Alone("approved"), XInv,
                      [Next]_vars, NEW id \in ReleaseId
               PROVE  Explained(id)'
    OBVIOUS
  <2>1. Explained(id)
    OBVIOUS
  <2> QED
    BY <2>1, PublishesLoggedStep, RejectionLoggedStep, ReplacementLoggedStep,
       ApprovalLoggedStep, HashLoggedStep
<1>3. XInv => EveryChangeIsExplained
  BY DEF PublishesLogged, RejectionLogged, ReplacementLogged, ApprovalLogged, HashLogged,
     EveryChangeIsExplained
<1> QED
  BY <1>1, <1>2, <1>3, TypeCorrect, ImportsWaitForNobody, CallsAreVetted, AloneAlways,
     PTL DEF Spec
=============================================================================

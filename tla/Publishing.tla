----------------------------- MODULE Publishing -----------------------------
(***************************************************************************)
(* The life of a release: internal/release (Publish, SetTrust) and         *)
(* internal/review (Approve, Reject, Reverify) over one SQLite database.   *)
(*                                                                         *)
(* A write transaction (store.DB.Tx) runs on the only writer connection    *)
(* and is one atomic step.  A read outside a transaction goes to the       *)
(* reader pool and sees what is committed at that moment, so each such     *)
(* read is a step of its own.  Publish and Reverify download an artifact   *)
(* between their reads and their transaction, and anything may happen      *)
(* meanwhile: that window is what this module is about.                    *)
(*                                                                         *)
(* A release is named by its plugin and version: release_plugin_version_key*)
(* is unique, no row is ever deleted, and a row's id (a ULID) and its      *)
(* <<plugin, version>> name each other.                                    *)
(***************************************************************************)
EXTENDS Quarantine, FiniteSets

CONSTANTS
  Plugins,       \* claimed plugin ids
  Seed,          \* the catalogue that was imported: at most one per plugin
  Accounts,      \* accounts that have signed in
  Publishable,   \* those with an identity of a provider that may publish
  Holders0,      \* Holders0[p]: who holds p to begin with
  Trust0,        \* Trust0[a]: the tier of a to begin with
  Tiers,         \* the tiers reviewers set
  Keys,          \* idempotency keys
  Requests,      \* the publish requests callers make
  Calls,         \* slots for publish requests in flight
  Reviewers,     \* configured reviewers
  Checks,        \* slots for re-verifications in flight
  MaxClock       \* bound: the clock stops here

Trust   == {"blocked", "new", "trusted"}
States  == {"absent", "pending", "approved", "rejected", "superseded"}
Sources == {"publish", "import"}

ReleaseId  == Plugins \X Versions
Submission == [plugin : Plugins, version : Versions, host : Hosts, sha : Digests]
Request    == [account : Accounts, key : Keys, sub : Submission]

ASSUME PeopleAssumption ==
  /\ Publishable \subseteq Accounts
  /\ Holders0 \in [Plugins -> SUBSET Accounts]
  /\ Trust0 \in [Accounts -> Trust]
  /\ Tiers \subseteq Trust
  /\ None \notin Accounts \cup Reviewers \cup Trust \cup States \cup Sources
ASSUME RequestAssumption ==
  /\ Requests \subseteq Request
  /\ None \notin ReleaseId
  /\ None \notin Requests
ASSUME SeedAssumption ==
  /\ Seed \subseteq Submission
  /\ \A s, t \in Seed : s.plugin = t.plugin => s = t
ASSUME ClockAssumption == MaxClock \in Nat

VARIABLES
  release,  \* the release table
  keys,     \* the idempotency_key table
  trust,    \* the account_trust table; no row reads as "new"
  holders,  \* who has a plugin_owner row, by plugin, whatever the role
  audit,    \* the audit_log rows about releases
  call,     \* publish requests in flight
  check,    \* re-verifications in flight
  clock     \* the wall clock

tables == <<release, keys, audit>>
people == <<trust, holders>>
vars   == <<release, keys, trust, holders, audit, call, check, clock>>

-----------------------------------------------------------------------------
(* Rows.                                                                   *)

(***************************************************************************)
(* review_note is a set of the things it says: the quarantine reasons that *)
(* were joined into it, or one fixed sentence.                             *)
(***************************************************************************)
Sentences == {"awaiting", "auto", "lowered", "reverified", "import", "reviewer"}

Row == [state       : States,
        source      : Sources \cup {None},
        host        : Hosts \cup {None},
        sha         : Digests \cup {None},
        verified    : BOOLEAN,
        submittedBy : Accounts \cup {None},
        submittedAt : Nat,
        reviewedBy  : Reviewers \cup {None},
        note        : SUBSET (Reasons \cup Sentences)]

NoRow == [state |-> "absent", source |-> None, host |-> None, sha |-> None,
          verified |-> FALSE, submittedBy |-> None, submittedAt |-> 0,
          reviewedBy |-> None, note |-> {}]

ImportedRow(s) ==
  [state |-> "approved", source |-> "import", host |-> s.host, sha |-> s.sha,
   verified |-> FALSE, submittedBy |-> None, submittedAt |-> 0,
   reviewedBy |-> None, note |-> {"import"}]

\* artifact_bytes: written with a hash this server computed, never by an import.
Bytes(row) == IF row.verified THEN Size[row.sha] ELSE None

Waiting(row) == row.state = "pending"

LiveVersions(p) == {v \in Versions : release[<<p, v>>].state = "approved"}

\* GetLatestApprovedRelease: the version of p on the wire, None if there is none.
Live(p) == IF LiveVersions(p) = {} THEN None
                                   ELSE CHOOSE v \in LiveVersions(p) : TRUE

\* Version v of p, as the publish path sees a live release.
AsPrevious(p, v) ==
  [version |-> v, host |-> release[<<p, v>>].host, bytes |-> Bytes(release[<<p, v>>])]

\* What a submission to p is compared against: previousRelease.
PreviousOf(p) == IF Live(p) = None THEN NoPrevious ELSE AsPrevious(p, Live(p))

\* Supersede every row of p that is in the given state, in rows.
Supersede(rows, p, state) ==
  [id \in ReleaseId |->
     IF id[1] = p /\ rows[id].state = state
     THEN [rows[id] EXCEPT !.state = "superseded"]
     ELSE rows[id]]

WaitingVersions(p) == {v \in Versions : Waiting(release[<<p, v>>])}

-----------------------------------------------------------------------------
(* A publish request in flight.                                            *)

Refusals == {"not_publishable", "github_identity_required", "version_exists",
             "account_blocked", "idempotency_key_reused", "live_release_changed"}

ASSUME AnswerAssumption == None \notin Refusals \cup {"recorded", "replayed"}

Steps == {"idle", "authority", "version", "trust", "previous", "fetch",
          "record", "answered"}

CallState ==
  [pc      : Steps,
   request : Request \cup {None},
   trust   : Trust \cup {None},          \* read before the fetch
   prev    : Previous,                   \* read before the fetch
   sha     : Digests \cup {None},        \* what the fetch hashed
   reasons : SUBSET Reasons,             \* the quarantine rules that fired
   lands   : {"pending", "approved", None},
   at      : Nat,                        \* the submitted_at of its row
   answer  : Refusals \cup {"recorded", "replayed", None},
   told    : ReleaseId \cup {None}]      \* the release the answer names

NoCall == [pc |-> "idle", request |-> None, trust |-> None,
           prev |-> NoPrevious, sha |-> None, reasons |-> {}, lands |-> None,
           at |-> 0, answer |-> None, told |-> None]

\* Slot c now holds request q, answered; id is the release the answer names.
Answer(c, q, answer, id) ==
  call' = [call EXCEPT ![c] = [NoCall EXCEPT !.pc = "answered", !.request = q,
                                             !.answer = answer, !.told = id]]

Refuse(c, answer) == Answer(c, call[c].request, answer, None)

At(c, pc)      == call[c].pc = pc
Sub(c)         == call[c].request.sub
Author(c)      == call[c].request.account
Plugin(c)      == Sub(c).plugin
Named(c)       == <<Sub(c).plugin, Sub(c).version>>
KeyOf(q)       == <<q.account, q.key>>
KeyRow         == [body : Submission, release : ReleaseId]

ASSUME KeyAssumption == None \notin KeyRow

(***************************************************************************)
(* A request arrives with a key, and is answered at once if the key has    *)
(* been seen: with the release it produced when the body is the same       *)
(* (replay), with a refusal when it is not.                                *)
(***************************************************************************)
Begin(c, q) ==
  /\ At(c, "idle")
  /\ LET row == keys[KeyOf(q)] IN
     \/ /\ row = None
        /\ call' = [call EXCEPT ![c] = [NoCall EXCEPT !.pc = "authority",
                                                      !.request = q]]
     \/ /\ row # None
        /\ row.body = q.sub
        /\ Answer(c, q, "replayed", row.release)
     \/ /\ row # None
        /\ row.body # q.sub
        /\ Answer(c, q, "idempotency_key_reused", None)
  /\ UNCHANGED <<tables, people, check, clock>>

\* checkAuthority: a grant on the plugin, then an identity that may publish.
CheckAuthority(c) ==
  /\ At(c, "authority")
  /\ \/ /\ Author(c) \notin holders[Plugin(c)]
        /\ Refuse(c, "not_publishable")
     \/ /\ Author(c) \in holders[Plugin(c)] \ Publishable
        /\ Refuse(c, "github_identity_required")
     \/ /\ Author(c) \in holders[Plugin(c)] \cap Publishable
        /\ call' = [call EXCEPT ![c].pc = "version"]
  /\ UNCHANGED <<tables, people, check, clock>>

\* checkVersionUnused: a version is used once per plugin, in any state.
CheckVersionUnused(c) ==
  /\ At(c, "version")
  /\ IF release[Named(c)].state = "absent"
     THEN call' = [call EXCEPT ![c].pc = "trust"]
     ELSE Refuse(c, "version_exists")
  /\ UNCHANGED <<tables, people, check, clock>>

\* TrustOf, read before the fetch so that a blocked account costs no download.
ReadTrust(c) ==
  /\ At(c, "trust")
  /\ IF trust[Author(c)] = "blocked"
     THEN Refuse(c, "account_blocked")
     ELSE call' = [call EXCEPT ![c] = [@ EXCEPT !.pc = "previous",
                                            !.trust = trust[Author(c)]]]
  /\ UNCHANGED <<tables, people, check, clock>>

\* previousRelease: what the plugin serves as the download starts.
ReadPrevious(c) ==
  /\ At(c, "previous")
  /\ call' = [call EXCEPT ![c] = [@ EXCEPT !.pc = "fetch",
                                          !.prev = PreviousOf(Plugin(c))]]
  /\ UNCHANGED <<tables, people, check, clock>>

\* decide: the only place a submission becomes anything other than pending.
DecideIgnoringReasons(t, reasons) ==
  IF t = "trusted" THEN "approved" ELSE "pending"
Decide(t, reasons) ==
  IF reasons = {} /\ t = "trusted" THEN "approved" ELSE "pending"

\* What a fetch may give: a digest, or None when it failed.
FetchResultsNever == {}
FetchResults == Digests \cup {None}

(***************************************************************************)
(* verify, then decide: the artifact is downloaded and hashed (or could    *)
(* not be), the rules are evaluated against what was read before, and      *)
(* record reads the clock.                                                 *)
(***************************************************************************)
Fetch(c) ==
  /\ At(c, "fetch")
  /\ \E sha \in FetchResults :
       LET reasons == EvaluateQuarantine(call[c].prev, Sub(c), sha) IN
       call' = [call EXCEPT ![c] =
                  [@ EXCEPT !.pc      = "record",
                            !.sha     = sha,
                            !.reasons = reasons,
                            !.lands   = Decide(call[c].trust, reasons),
                            !.at      = clock]]
  /\ UNCHANGED <<tables, people, check, clock>>

-----------------------------------------------------------------------------
(* record: the transaction at the end of a publish.                        *)

\* RequireGrantTx: the grant, re-read.
GrantNotReRead(c) == TRUE
StillHolds(c) == Author(c) \in holders[Plugin(c)]

\* trustTx: the tier, re-read.
TierNotReRead(c) == call[c].trust
TierNow(c) == trust[Author(c)]

\* The decision may be narrowed by the tier as it is now, never widened.
LandsAs(c) == IF TierNow(c) = "trusted" THEN call[c].lands ELSE "pending"

\* GetIdempotencyKey, re-read: None when the key has not been used.
KeyNotReRead(c) == None
KeySeen(c) == keys[KeyOf(call[c].request)]

\* GetReleaseByVersion, re-read: the version was recorded meanwhile, under another key.
VersionNotReRead(c) == FALSE
VersionTaken(c) == release[Named(c)].state # "absent"

\* GetLatestApprovedRelease, re-read: it is still what this was compared to.
LiveNotReRead(c) == TRUE
StillLive(c) == Live(Plugin(c)) # None /\ Live(Plugin(c)) = call[c].prev.version

(***************************************************************************)
(* The answer that ends the transaction before it writes anything, in the  *)
(* order the checks are made; None when the transaction goes on to write.  *)
(***************************************************************************)
Stopped(c) ==
  IF ~StillHolds(c)                       THEN "not_publishable"
  ELSE IF TierNow(c) = "blocked"          THEN "account_blocked"
  ELSE IF KeySeen(c) # None
       THEN IF KeySeen(c).body = Sub(c)   THEN "replayed"
                                          ELSE "idempotency_key_reused"
  ELSE IF VersionTaken(c)                 THEN "version_exists"
  ELSE IF LandsAs(c) = "approved" /\ ~StillLive(c)
                                          THEN "live_release_changed"
  ELSE None

RecordStopped(c) ==
  /\ At(c, "record")
  /\ Stopped(c) # None
  /\ IF Stopped(c) = "replayed"
     THEN Answer(c, call[c].request, "replayed", KeySeen(c).release)
     ELSE Refuse(c, Stopped(c))
  /\ UNCHANGED <<tables, people, check, clock>>

\* review_note as record writes it.
NoteOf(c) ==
  IF LandsAs(c) = "approved"            THEN {"auto"}
  ELSE IF call[c].lands = "approved"    THEN {"lowered"}
  ELSE IF call[c].reasons = {}          THEN {"awaiting"}
  ELSE call[c].reasons

\* releaseParams: verified_at is set exactly when there is a hash to store.
VerifiedRegardless(c) == TRUE
VerifiedAtPublish(c) == call[c].sha # None

PublishedRow(c) ==
  [state |-> LandsAs(c), source |-> "publish", host |-> Sub(c).host,
   sha |-> call[c].sha, verified |-> VerifiedAtPublish(c),
   submittedBy |-> Author(c), submittedAt |-> call[c].at,
   reviewedBy |-> None, note |-> NoteOf(c)]

\* The release the audit row of this publish says it replaced.
Replaced(c) == IF LandsAs(c) = "approved" THEN Live(Plugin(c)) ELSE None

\* The releases it found waiting for review.
Retired(c) == WaitingVersions(Plugin(c))

PublishEntry(c) ==
  [action |-> "plugin.publish", release |-> Named(c), by |-> Author(c),
   state |-> LandsAs(c), superseded |-> Replaced(c),
   reasons |-> call[c].reasons, retired |-> Retired(c)]

\* One audit row against each release a newer submission retired.
RetirementsUnrecorded(c) == {}
Retirements(c) ==
  { [action |-> "release.superseded", release |-> <<Plugin(c), v>>,
     by |-> Author(c), newer |-> Sub(c).version] : v \in Retired(c) }

\* SupersedeApprovedRelease: only on the automatic path.
LiveLeftInPlace(c) == release
WithoutLive(c) == IF LandsAs(c) = "approved"
                  THEN Supersede(release, Plugin(c), "approved")
                  ELSE release

\* SupersedePendingReleases: on both paths.
WaitingLeftInPlace(c) == WithoutLive(c)
WithoutWaiting(c) == Supersede(WithoutLive(c), Plugin(c), "pending")

(***************************************************************************)
(* The transaction writes: the live release is retired when this one takes *)
(* its place, then whatever of the plugin was waiting, then the row, the   *)
(* key and the audit rows.                                                 *)
(***************************************************************************)
RecordWritten(c) ==
  /\ At(c, "record")
  /\ Stopped(c) = None
  /\ release' = [WithoutWaiting(c) EXCEPT ![Named(c)] = PublishedRow(c)]
  /\ keys'    = [keys EXCEPT ![KeyOf(call[c].request)] =
                                [body |-> Sub(c), release |-> Named(c)]]
  /\ audit'   = audit \cup Retirements(c) \cup {PublishEntry(c)}
  /\ Answer(c, call[c].request, "recorded", Named(c))
  /\ UNCHANGED <<people, check, clock>>

\* The caller has its answer, and the slot is free again.
Finish(c) ==
  /\ At(c, "answered")
  /\ call' = [call EXCEPT ![c] = NoCall]
  /\ UNCHANGED <<tables, people, check, clock>>

(***************************************************************************)
(* The request dies before its transaction: the client hangs up, a         *)
(* deadline passes, or the process stops.  Nothing of it was written.      *)
(* (After the transaction, Finish is also how an answer is lost.)          *)
(***************************************************************************)
Lose(c) ==
  /\ ~At(c, "idle")
  /\ ~At(c, "answered")
  /\ call' = [call EXCEPT ![c] = NoCall]
  /\ UNCHANGED <<tables, people, check, clock>>

-----------------------------------------------------------------------------
(* The reviewers.                                                          *)

\* A decision writes the note: what the reviewer said, if anything.
Reviewed(row, state, rv) ==
  [row EXCEPT !.state = state, !.reviewedBy = rv, !.note = {"reviewer"}]

\* Approve refuses a row whose bytes this server never hashed.
ApprovableUnverified(row) == Waiting(row)
Approvable(row) == Waiting(row) /\ row.verified /\ row.sha # None

Approve(id, rv) ==
  /\ Approvable(release[id])
  /\ release' = [Supersede(release, id[1], "approved")
                   EXCEPT ![id] = Reviewed(release[id], "approved", rv)]
  /\ audit' = audit \cup {[action |-> "release.approve", release |-> id,
                           by |-> rv, superseded |-> Live(id[1])]}
  /\ UNCHANGED <<keys, people, call, check, clock>>

\* pendingTx, and the WHERE of the statement.
RejectableWhenDecided(row) == row.state # "absent"
Rejectable(row) == Waiting(row)

Reject(id, rv) ==
  /\ Rejectable(release[id])
  /\ release' = [release EXCEPT ![id] = Reviewed(@, "rejected", rv)]
  /\ audit' = audit \cup {[action |-> "release.reject", release |-> id, by |-> rv]}
  /\ UNCHANGED <<keys, people, call, check, clock>>

(***************************************************************************)
(* Reverify: read the row, download its artifact again, and fill in the    *)
(* blank in a transaction of its own.                                      *)
(***************************************************************************)
CheckState == [pc       : {"idle", "fetch", "record"},
               release  : ReleaseId \cup {None},
               reviewer : Reviewers \cup {None},
               sha      : Digests \cup {None}]

NoCheck == [pc |-> "idle", release |-> None, reviewer |-> None, sha |-> None]

ReverifyRead(k, id, rv) ==
  /\ check[k].pc = "idle"
  /\ Waiting(release[id])
  /\ ~release[id].verified
  /\ check' = [check EXCEPT ![k] = [pc |-> "fetch", release |-> id,
                                    reviewer |-> rv, sha |-> None]]
  /\ UNCHANGED <<tables, people, call, clock>>

ReverifyFetch(k) ==
  /\ check[k].pc = "fetch"
  /\ \E sha \in FetchResults :
       check' = [check EXCEPT ![k] = [@ EXCEPT !.pc = "record", !.sha = sha]]
  /\ UNCHANGED <<tables, people, call, clock>>

\* The WHERE of RecordReleaseVerification.
BlankIfPending(row) == Waiting(row)
BlankIfUnverified(row) == ~row.verified
Blank(row) == Waiting(row) /\ ~row.verified

\* pendingTx at the head of the transaction.
NotReRead(row) == TRUE
StillWaiting(row) == Waiting(row)

ReverifyEntryOfOldHash(k) ==
  [action |-> "release.reverify", release |-> check[k].release,
   by |-> check[k].reviewer, sha |-> release[check[k].release].sha]
ReverifyEntry(k) ==
  [action |-> "release.reverify", release |-> check[k].release,
   by |-> check[k].reviewer, sha |-> check[k].sha]

Verified(row, sha) ==
  [row EXCEPT !.sha = sha, !.verified = TRUE, !.note = {"reverified"}]

ReverifyRecord(k) ==
  /\ check[k].pc = "record"
  /\ LET id  == check[k].release
         row == release[id]
         sha == check[k].sha
     IN  \/ /\ StillWaiting(row)
            /\ sha = None
            /\ audit' = audit \cup {ReverifyEntry(k)}
            /\ UNCHANGED release
         \/ /\ StillWaiting(row)
            /\ sha # None
            /\ Blank(row)
            /\ release' = [release EXCEPT ![id] = Verified(row, sha)]
            /\ audit' = audit \cup {ReverifyEntry(k)}
         \/ /\ ~StillWaiting(row) \/ (sha # None /\ ~Blank(row))
            /\ UNCHANGED <<release, audit>>
  /\ check' = [check EXCEPT ![k] = NoCheck]
  /\ UNCHANGED <<keys, people, call, clock>>

\* A re-verification dies with its request, as a publish does.
LoseCheck(k) ==
  /\ check[k].pc # "idle"
  /\ check' = [check EXCEPT ![k] = NoCheck]
  /\ UNCHANGED <<tables, people, call, clock>>

\* SetTrust.  Its audit row is about an account, and is not kept here.
SetTrust(a, tier) ==
  /\ trust' = [trust EXCEPT ![a] = tier]
  /\ UNCHANGED <<tables, holders, call, check, clock>>

-----------------------------------------------------------------------------
(* Who holds a plugin changes while a publish is in flight, in the ways    *)
(* module Holders allows; module Ownership has the operations behind it.   *)

Holding == INSTANCE Holders

HoldersChange ==
  /\ Holding!Next
  /\ UNCHANGED <<tables, trust, call, check, clock>>

Tick ==
  /\ clock < MaxClock
  /\ clock' = clock + 1
  /\ UNCHANGED <<tables, people, call, check>>

-----------------------------------------------------------------------------
(* The specification.                                                      *)

Init ==
  /\ release = [id \in ReleaseId |->
                  IF \E s \in Seed : id = <<s.plugin, s.version>>
                  THEN ImportedRow(CHOOSE s \in Seed : id = <<s.plugin, s.version>>)
                  ELSE NoRow]
  /\ keys    = [k \in Accounts \X Keys |-> None]
  /\ trust   = Trust0
  /\ holders = Holders0
  /\ audit   = {}
  /\ call    = [c \in Calls |-> NoCall]
  /\ check   = [k \in Checks |-> NoCheck]
  /\ clock   = 0

Publish(c) ==
  \/ \E q \in Requests : Begin(c, q)
  \/ CheckAuthority(c)
  \/ CheckVersionUnused(c)
  \/ ReadTrust(c)
  \/ ReadPrevious(c)
  \/ Fetch(c)
  \/ RecordStopped(c)
  \/ RecordWritten(c)
  \/ Finish(c)
  \/ Lose(c)

Review(rv) ==
  \/ \E id \in ReleaseId : Approve(id, rv) \/ Reject(id, rv)
  \/ \E k \in Checks, id \in ReleaseId : ReverifyRead(k, id, rv)
  \/ \E a \in Accounts, tier \in Tiers : SetTrust(a, tier)

Reverify(k) == ReverifyFetch(k) \/ ReverifyRecord(k) \/ LoseCheck(k)

Next ==
  \/ \E c \in Calls : Publish(c)
  \/ \E rv \in Reviewers : Review(rv)
  \/ \E k \in Checks : Reverify(k)
  \/ HoldersChange
  \/ Tick

Spec == Init /\ [][Next]_vars

(***************************************************************************)
(* What the program's own steps are owed: a read and a transaction end     *)
(* (the busy timeout bounds the wait for the writer), and a fetch is cut   *)
(* at 45 seconds.  Nothing is owed by callers, reviewers or owners.        *)
(***************************************************************************)
CallStep(c) ==
  \/ CheckAuthority(c) \/ CheckVersionUnused(c) \/ ReadTrust(c)
  \/ ReadPrevious(c) \/ Fetch(c) \/ RecordStopped(c) \/ RecordWritten(c)

CheckStep(k) == ReverifyFetch(k) \/ ReverifyRecord(k)

FairSpec ==
  /\ Spec
  /\ \A c \in Calls : WF_vars(CallStep(c))
  /\ \A k \in Checks : WF_vars(CheckStep(k))

-----------------------------------------------------------------------------
(* Properties of the tables.                                               *)

Entry ==
       [action : {"plugin.publish"}, release : ReleaseId, by : Accounts,
        state : {"pending", "approved"}, superseded : Versions \cup {None},
        reasons : SUBSET Reasons, retired : SUBSET Versions]
  \cup [action : {"release.superseded"}, release : ReleaseId, by : Accounts,
        newer : Versions]
  \cup [action : {"release.approve"}, release : ReleaseId, by : Reviewers,
        superseded : Versions \cup {None}]
  \cup [action : {"release.reject"}, release : ReleaseId, by : Reviewers]
  \cup [action : {"release.reverify"}, release : ReleaseId, by : Reviewers,
        sha : Digests \cup {None}]

\* The CHECKs of the release table that tie its columns to each other.
HashIsExplained(row) ==
  /\ row.verified => row.sha # None
  /\ row.sha # None => row.verified \/ row.source = "import"
  /\ row.state = "absent" => row = NoRow

\* A request in flight carries what the steps it has taken have given it.
CallCarries(s) ==
  /\ s.pc # "idle" => s.request \in Requests
  /\ s.pc = "record" => s.lands # None

CheckCarries(s) ==
  s.pc # "idle" => s.release # None /\ s.reviewer # None

(***************************************************************************)
(* Every table and every request in flight has its type, and every release *)
(* row meets the CHECKs its table declares: the code never asks the        *)
(* database for a row it would refuse.                                     *)
(***************************************************************************)
TypeOK ==
  /\ release \in [ReleaseId -> Row]
  /\ \A id \in ReleaseId : HashIsExplained(release[id])
  /\ keys \in [Accounts \X Keys -> KeyRow \cup {None}]
  /\ trust \in [Accounts -> Trust]
  /\ holders \in [Plugins -> SUBSET Accounts]
  /\ audit \subseteq Entry
  /\ call \in [Calls -> CallState]
  /\ \A c \in Calls : CallCarries(call[c])
  /\ check \in [Checks -> CheckState]
  /\ \A k \in Checks : CheckCarries(check[k])
  /\ clock \in 0 .. MaxClock

(***************************************************************************)
(* A plugin serves one release: a publish that lands live and an approval  *)
(* both retire the release they replace, in the transaction that replaces  *)
(* it, however the two interleave.  (release_one_approved_per_plugin would *)
(* refuse a second; the code is written never to meet it.)                 *)
(***************************************************************************)
OneLive ==
  \A p \in Plugins : \A v, w \in LiveVersions(p) : v = w

(***************************************************************************)
(* A plugin has one submission waiting for a reviewer: the newest          *)
(* transaction retires what waited (retireWaitingReleases), also when its  *)
(* own release goes live without waiting.                                  *)
(***************************************************************************)
OneWaiting ==
  \A p \in Plugins : \A v, w \in WaitingVersions(p) : v = w

(***************************************************************************)
(* The hash a listing promises is one this server computed from the bytes, *)
(* except for what the import brought: an unverified submission stays out  *)
(* of the listing until a re-verification has filled the blank in.         *)
(***************************************************************************)
LiveHashIsKnown ==
  \A id \in ReleaseId :
    release[id].state = "approved" =>
      /\ release[id].sha # None
      /\ release[id].verified \/ release[id].source = "import"

(***************************************************************************)
(* A hash, once stored, stays: two re-verifications that downloaded        *)
(* different bytes, or one that lost a race with a decision, never replace *)
(* it, and a release with a hash is never taken back to having none.       *)
(***************************************************************************)
HashNeverSwapped ==
  [][\A id \in ReleaseId :
       release[id].sha # None =>
         /\ release'[id].sha = release[id].sha
         /\ release'[id].verified = release[id].verified]_vars

(***************************************************************************)
(* What was decided stays as it was decided: nothing touches a rejected or *)
(* superseded row again, its note included (the author's only explanation),*)
(* and a live row only ever becomes superseded, everything else kept.  The *)
(* submission itself never changes in any state.                           *)
(***************************************************************************)
DecisionsAreFinal ==
  [][\A id \in ReleaseId :
       LET row == release[id]  new == release'[id] IN
       /\ row.state \in {"rejected", "superseded"} => new = row
       /\ row.state = "approved" =>
            new \in {row, [row EXCEPT !.state = "superseded"]}
       /\ row.state = "pending" =>
            /\ new.state # "absent"
            /\ <<new.source, new.host, new.submittedBy, new.submittedAt>> =
                 <<row.source, row.host, row.submittedBy, row.submittedAt>>]_vars

(***************************************************************************)
(* Once a plugin serves a release it serves one at every later moment:     *)
(* no reader of the index finds it gone between two releases, and no       *)
(* rejection takes down what is live.                                      *)
(***************************************************************************)
NeverGoesDark ==
  [][\A p \in Plugins : Live(p) # None => Live(p)' # None]_vars

-----------------------------------------------------------------------------
(* Properties of a publish against what happened during its download.      *)

(***************************************************************************)
(* A release is written under the authority its author has as the          *)
(* transaction commits: a holder removed, or an account blocked, while the *)
(* artifact was downloading gets no row, and one demoted then gets no      *)
(* automatic listing (RequireGrantTx, trustTx).                            *)
(***************************************************************************)
AuthorityAtCommit ==
  [][\A id \in ReleaseId :
       release[id].state = "absent" /\ release'[id].state # "absent" =>
         LET author == release'[id].submittedBy IN
         /\ author \in holders[id[1]] \cap Publishable
         /\ trust[author] # "blocked"
         /\ release'[id].state = "approved" => trust[author] = "trusted"]_vars

(***************************************************************************)
(* A release that went live with no human passes every quarantine rule     *)
(* against the very release it took the place of, whatever happened to the *)
(* plugin during the download (ErrLiveReleaseChanged).                     *)
(***************************************************************************)
AutoPublishWasCompared ==
  \A e \in audit :
    e.action = "plugin.publish" /\ e.state = "approved" =>
      /\ e.superseded # None
      /\ \E k \in Accounts \X Keys :
           /\ keys[k] # None
           /\ keys[k].release = e.release
           /\ EvaluateQuarantine(AsPrevious(e.release[1], e.superseded),
                                 keys[k].body, release[e.release].sha) = {}

(***************************************************************************)
(* A key names one release for ever: each published release is named by    *)
(* exactly one key, of its own author and with its own body, and whoever   *)
(* was answered with a release was answered with the one its key names,    *)
(* although two requests with one key may be in flight together.           *)
(***************************************************************************)
KeyNamesItsRelease ==
  /\ \A k \in Accounts \X Keys :
       keys[k] # None =>
         /\ <<keys[k].body.plugin, keys[k].body.version>> = keys[k].release
         /\ release[keys[k].release].source = "publish"
         /\ release[keys[k].release].submittedBy = k[1]
  /\ \A id \in ReleaseId :
       release[id].source = "publish" =>
         \E k \in Accounts \X Keys : keys[k] # None /\ keys[k].release = id
  /\ \A c \in Calls :
       call[c].answer \in {"recorded", "replayed"} =>
         keys[KeyOf(call[c].request)] = [body |-> Sub(c), release |-> call[c].told]

(***************************************************************************)
(* The audit log explains the release table: who published each row, who   *)
(* decided it, what it was replaced by when it is superseded, and where    *)
(* its hash came from when the publish itself could not compute one.       *)
(***************************************************************************)
Published(id) ==
  \E e \in audit : e.action = "plugin.publish" /\ e.release = id

Decided(id, action) ==
  \E e \in audit : /\ e.action = action
                   /\ e.release = id
                   /\ e.by = release[id].reviewedBy

ReplacedBy(id) ==
  \E e \in audit :
    \/ /\ e.action \in {"plugin.publish", "release.approve"}
       /\ e.release[1] = id[1]
       /\ e.superseded = id[2]
    \/ e.action = "release.superseded" /\ e.release = id

EveryChangeIsExplained ==
  \A id \in ReleaseId :
    /\ release[id].source = "publish" <=> Published(id)
    /\ release[id].state = "rejected" => Decided(id, "release.reject")
    /\ release[id].state = "superseded" => ReplacedBy(id)
    /\ release[id].state = "approved" /\ release[id].reviewedBy # None =>
         Decided(id, "release.approve")
    /\ \A e \in audit :
         /\ e.action = "plugin.publish"
         /\ e.release = id
         /\ "NotVerified" \in e.reasons
         /\ release[id].verified
         => \E r \in audit : /\ r.action = "release.reverify"
                             /\ r.release = id
                             /\ r.sha = release[id].sha

(***************************************************************************)
(* The publish path and the review queue keep the promise the readers of   *)
(* the release table rest on (module ReleaseLife): however downloads,      *)
(* decisions and re-verifications interleave, each step of theirs is one   *)
(* move of one release, or no move at all.                                 *)
(***************************************************************************)
Life == INSTANCE ReleaseLife WITH
          state <- [id \in ReleaseId |-> release[id].state]

KeepsReleasePromise == Life!Spec

(***************************************************************************)
(* Every request is answered or gone in the end, and so is every           *)
(* re-verification: the fetch deadline stands behind both.                 *)
(***************************************************************************)
NothingHangs ==
  /\ \A c \in Calls : call[c].pc = "authority" ~> call[c].pc \in {"answered", "idle"}
  /\ \A k \in Checks : check[k].pc = "fetch" ~> check[k].pc = "idle"

-----------------------------------------------------------------------------
(* What the repository says of this code, and the code does not do.        *)

(***************************************************************************)
(* "Approve needs no version comparison" (ADR 14): a reviewer who approves *)
(* a release that was not flagged for its version moves the listing        *)
(* forward.                                                                *)
(***************************************************************************)
FlaggedForVersion(id) ==
  \E e \in audit : /\ e.action = "plugin.publish"
                   /\ e.release = id
                   /\ e.reasons \cap {"VersionNotHigher", "VersionUncomparable"} # {}

ApprovalNeverRollsBack ==
  \A e \in audit :
    e.action = "release.approve" /\ e.superseded # None =>
      \/ Order[e.superseded, e.release[2]] = "higher"
      \/ FlaggedForVersion(e.release)

(***************************************************************************)
(* "Re-runs are safe": a request whose key already produced its release is *)
(* answered with that release, and is not refused because the version      *)
(* exists.                                                                 *)
(***************************************************************************)
RetryIsAnsweredWithItsOwnResult ==
  \A c \in Calls :
    call[c].answer = "version_exists" =>
      LET row == keys[KeyOf(call[c].request)]
      IN  row # None => row.body # Sub(c)
=============================================================================

# A specification of regserve

`regserve` is the registry for nParse plugins. Authors publish releases of plugins, reviewers
decide what may be listed, and clients read an index. The registry serves no artifacts: it stores
the URL of each one and the sha256 a client must find behind it. What it must never do is list bytes
nobody looked at or hashed, let somebody without the right publish, or lose the account of why a
release is listed.

These modules specify the parts of the service where that could go wrong: the life of a release, what
the registry lists and says about it, who may change a plugin, who is signed in and what a request may
do, and the comparison of versions. TLC checks small instances of them; TLAPS proves all of their safety
properties, those of the four findings apart, for every instance.

## 1. The system

One Go process over one SQLite database.

* **Writes** go through `store.DB.Tx`: a transaction on the only connection of the writer pool,
  begun immediate. Transactions run one after the other, and one that cannot get the writer within
  the busy timeout fails. In the modules a transaction is **one atomic step**.
* **Reads** outside a transaction use the reader pool. Each sees what is committed when it runs, so
  two reads in a row are two snapshots. In the modules each such read is **a step of its own**.
* **Requests** run concurrently. Two of them (publish and re-verify) download an artifact, for up to
  45 seconds, between their reads and their transaction. Anything may be committed in that window.
* **Reviewers** are named in the configuration; **owners** are rows; **trust tiers** are set by
  reviewers and read on every publish.
* The **audit log** is written in the transaction of what it records.

| Component | State it keeps | Operations | What is hard |
|---|---|---|---|
| publish path (`internal/release`) | `release`, `idempotency_key`, `account_trust` | `Publish`, `SetTrust`, `TrustOf` | reads before a long download; retries with one key; several statements in one transaction |
| quarantine rules | none | `evaluateQuarantine` | compared with a release that may be replaced meanwhile |
| version comparison | none | `compareVersions`, `splitVersion` | three answers, suffixes, missing parts, epochs, overflow |
| review (`internal/review`) | `release`, `audit_log` | `Approve`, `Reject`, `Reverify`, `Detail` | races with a newer submission and with each other; a download outside the transaction; pages put together from several reads |
| moderation (`internal/review/plugins.go`) | `plugin.delisted_*`, `audit_log` | `Delist`, `Relist`, `List`, `Get` | races with publishes and with each other; the reason a row forgets and the log must keep |
| ownership (`internal/ownership`) | `plugin`, `plugin_owner` | `ClaimID`, `Add`, `Remove` | first come; the last grant; names that change hands |
| owners import (`seed-owners`) | `account`, `identity`, `plugin_owner` | `SeedOwners` | one transaction per grant; provider outage; death; re-runs |
| sign-in (`internal/auth`) | `oauth_flow`, `account`, `identity`, `session` | `Begin`, `Complete` | a flow good for one sign-in in one browser; account and session in two transactions; a silent provider |
| credentials (`internal/auth`) | `session`, `pat`, `pat_scope` | `Resolve`, `Mint`, `Revoke` | expiry, revocation and disabled accounts against use; two credentials on one request |
| HTTP surface, permissions (`internal/api`, `internal/authz`) | none | access declarations, middleware, forms | a chain of checks in several places, each of which must stay in its order |
| catalogue, index (`internal/plugin`, `internal/index`) | reads only | `Browse`, `Build` | counts and rows from different snapshots |
| catalogue import, boot, migrations | everything | `ImportSeed`, `Migrate` | what a boot finds after an earlier one, or after another build |
| artifact fetch, provider client, core | none | I/O, parsing | deadlines; otherwise pure |

How they interact: publish asks ownership for the grant and identity for a publishing provider,
twice (before the download, and the grant once more in its transaction); publish and review write the
same rows; a reviewer's `SetTrust` changes how the next transaction of a publish decides; moderation
hides and shows what they leave, and the directory, the console and the review pages read it, one
statement at a time. Sign-in makes the sessions that requests come with; a request is judged by the
middleware once, and by the service that acts on a plugin once more.

What makes each of them correct:

* **publish path**: one live and one waiting release per plugin; a live release was compared with what
  it replaced, or approved by a human; authority is that of the commit; a key names one release; every
  row is explained by the audit log; a plugin that serves a release always serves one.
* **quarantine, versions**: nothing that changes host, size or hash, or that is not clearly later, goes
  live unseen; a chain of automatic releases never comes back to an older one.
* **review**: a decision is final; a stored hash is never replaced; nothing is listed without one.
* **moderation**: what is listed follows the last decision, and the audit log says what it was and why.
* **ownership**: an id is claimed once; only owners change holders; a plugin once held stays held.
* **owners import**: success means that every owner of the file was dealt with; a re-run is harmless.
* **sign-in**: a flow signs one person in, once, in the browser it began in; somebody switched off
  stays out; nothing that expired piles up; every callback ends.
* **credentials, HTTP surface**: a session or token that is dead when it is looked up opens nothing; a token
  does less than its account; a request acts as what it presented; an ending is recorded once.
* **catalogue, pages**: a page never contradicts itself in a way that misleads its reader, although it
  is read piecemeal.
* **catalogue import, boot**: the catalogue is imported once, into an empty registry; a server comes up
  with every migration of its build, and never on the schema of a newer one.

## 2. Plan of the modules

In the order of importance, and of writing.

1. `Quarantine`: submissions, the live release they are compared with, the rules. *Done.*
2. `Publishing` (extends `Quarantine`, uses `Holders` for what ownership may do meanwhile): the core.
   *Done.*
3. `Holders`: what ownership promises to the publish path. `Ownership` implements it by a refinement
   mapping. *Done.*
4. `Ownership`: claims, grants and the import. *Done.*
5. `Versions`: the comparison, and chains of automatic releases. *Done.*
6. `PublishingProofs`, `PublishingReleaseProofs`, `PublishingCallProofs`, `OwnershipProofs`,
   `SignInProofs`, `AccessProofs`, `CatalogueProofs`, `VersionsProofs`: the theorems. *Done.*
7. `ReleaseLife`: what publish and review promise to whoever reads the release table. `Publishing`
   implements it, and `PublishingReleaseProofs` proves that. *Done.*
8. `SessionRows`: what sign-in promises to the requests that come with a session. `SignIn` implements
   it. *Done.*
9. `Access` (uses `SessionRows`): credentials, the middleware, and the forms about credentials. *Done.*
10. `Catalogue` (uses `ReleaseLife` and `Holders`): boot, migrations, the import of the catalogue,
    moderation, and the pages that read more than once. *Done.*

```
          Publishing ---implements---> ReleaseLife <---uses--- Catalogue
              |                                                    |
              +------uses------> Holders <-----------uses----------+
                                    ^
          Ownership --implements----+

          SignIn ---implements---> SessionRows <---uses--- Access
```

A module that needs another component takes its abstract specification, and the detailed one is shown
to implement that: so each of the large modules stays small enough for TLC.

Every safety property, action property and refinement that a passing run checks is a theorem (section 6).
What the plan has left: theorems about composition, that what `Publishing` and `Catalogue` let owners do
is all that `Ownership` lets them do, stated over the modules together.

## 3. What each module models

### Quarantine

A submission is a plugin, a version, the host of its URL and the hash it claims. Digests stand for
bytes, `Size` for their length, `Order` for `compareVersions`. `EvaluateQuarantine` is the set of the
rules that fire; the code returns them as a list, whose order only reaches the wording of the note.

### Publishing

| Variable | In the code |
|---|---|
| `release` | the `release` table, by `<<plugin, version>>`: `release_plugin_version_key` is unique and rows are never deleted |
| `keys` | `idempotency_key`, by account and key: the body and the release |
| `trust` | `account_trust`; no row reads as `new` |
| `holders` | `plugin_owner`, whatever the role |
| `audit` | the audit rows about releases |
| `call` | each `Publish` in flight: what it has read so far, what it decided, its answer |
| `check` | each `Reverify` in flight |
| `clock` | `clk.Now()`, for `submitted_at` |

| Action | In the code |
|---|---|
| `Begin` | the first look at the key: new, replay or reuse |
| `CheckAuthority`, `CheckVersionUnused`, `ReadTrust`, `ReadPrevious` | the reads before the download, in the code's order, one snapshot each |
| `Fetch` | `verify` (a digest, or a failure), the rules, `decide`, and the clock that `record` reads first |
| `RecordStopped`, `RecordWritten` | the transaction: the grant, the tier, the key, the version and the live release are read again; then the retirements, the row, the key and the audit rows |
| `Approve`, `Reject`, `SetTrust` | one transaction each |
| `ReverifyRead`, `ReverifyFetch`, `ReverifyRecord` | the read, the download, the transaction |
| `Lose`, `LoseCheck` | the client hangs up, a deadline passes, the transaction fails or the process stops: nothing was written |
| `Finish` | the answer is delivered, or lost after the commit: the caller may send the request again |
| `HoldersChange` | any change of holders that `Holders` allows |

`Stopped` gives the checks of the transaction in the order the code makes them. Constraints of the
schema (one approved and one pending row per plugin, a hash only with its time of verification) are
**not** enforced by the model: that the code never relies on them is what `OneLive`, `OneWaiting` and
the last part of `TypeOK` say.

### Ownership and Holders

People are `(provider, subject)` pairs and are named by themselves; `github` is the name each has at the
provider now, `cached` the one on the identity row since the last sign-in, `linked` the order the identities
were made in. `ClaimID`, `Add` and `Remove` are one transaction each, guarded as the code guards them:
`Remove` counts every grant, not only owners'. The import goes pair by pair through the file (`seed.next` is
where it is): a plugin that is not registered is skipped, a handle is looked up once per run, a provider
that does not answer ends the run, each grant is one transaction, and the command may die anywhere.

`Holders` says only that holders come one at a time, go one at a time, and that the last stays.
`Publishing` composes with it (`Holding!Next`), and the property `KeepsHoldersPromise` shows that
`Ownership` implements it, with `holders` mapped to whoever has a grant.

### ReleaseLife

Where each release stands, and nothing else. A release waits, and retires what waited; goes live with
nobody looking, in the place of one that is live; is approved, in the place of what is live if anything;
or is rejected. `Publishing` implements it with `state` mapped to the `state` column.

### SessionRows and SignIn

| Variable of `SignIn` | In the code |
|---|---|
| `account`, `session` | the tables, accounts named by the person behind them |
| `flow`, `cookie` | `oauth_flow`, by state; the state cookie of each browser |
| `codes` | external: what the provider has issued and nobody has exchanged |
| `callback` | callbacks in flight: what each has so far, and its answer |
| `begun`, `started` | history: who began a flow, what each session came of |

`Begin` sweeps, records a flow and sets the cookie. A callback is checked against the cookie, takes its
flow (read, deleted, and only then judged), exchanges its code (the provider refuses, names somebody,
names nobody, or is silent), resolves the account in one transaction and creates the session in another.
Callbacks come in any browser, with any flow, any code and any path, any number of times; `Lose` ends one
at any point, and `Disable` may fall between any two steps. `SignIn` implements `SessionRows`, in which
accounts are made once and switched off for good, and a session starts for an account there is, *which
may have been switched off a moment before*: that is what the two transactions make possible, and what
`Access` must cope with.

### Access

A request arrives with a bearer token, a cookie, both or neither, and a form with the page it was made
on. `Resolve` is `authMiddleware`: which credential (`ByCredential`, or the cookie alone on a public page),
one read of its row, then in order the token's floor and scopes, its pin, and the reviewers. `Mint`, `Revoke`
and `EndSession` act, at a later moment, on what was resolved. `Operations` has one operation for each
combination of declarations. Between any two steps sessions start, expire, are swept and lose their account
(`SignsIn`). `dead` is a history: the credential was dead when the request came, or died before the middleware
looked it up. One that dies *between* the middleware and the handler still acts: the code reads it once, and
the property is stated for deaths up to that read.

### Catalogue

| Action | In the code |
|---|---|
| `Start`, `OpenDatabase`, `Migrate`, `ImportSeed`, `Stop` | a boot, in its order. A seed file that does not parse ends the process before anything else and is no step here; a database that cannot be opened leaves a server with no catalogue (`bare`). `Migrate` compares the schema with the build once (`opened`), then brings the migrations that are missing, a transaction each (`migrating`) |
| `MigrateCommand` | one migration by `regserve migrate`, or by `seed-owners` before it imports, of any build and at any time: neither asks whether a server is running |
| `Claim`, `HoldersChange`, `Submit`, `Decide` | what the other components do to the tables, as `Holders` and `ReleaseLife` allow, with the audit rows |
| `Delist`, `Relist` | one transaction each, with the guards of their statements |
| `OpenPage`, `ReadNext`, `Send` | a page: the statements of `Browse`, of `List` and `Get`, or of `Detail`, in order, each of what is committed when it runs |

`overtaken` is a history: since this process compared, a command of a newer build took the schema past it. The
code does not prevent that (a server is told of no migration, and `runMigrate` looks for no server), so
`ServesItsSchema` says what the code does give: every migration of the build is there, and the schema is
newer only where this happened. goose reads the list of missing migrations once; one that another process
brings in the meantime makes the boot fail, which is `Stop`.

The row the console reads holds `owner_count`, which the code computes and does not copy to the `Listing`. The
console half of `PagesHoldTogether` relates what that statement saw to the owners the page then prints.

`trail` is the audit log by plugin, in order. `found` and `brought` in an import's row are history: what was
in the database before it.

### Versions

A version is kept as what `splitVersion` tells apart: what stood before a `!`, and for every segment
its number (or none, or one too large) and what follows it. `Split` and `CompareVersions` follow the
code; the difference of two epochs wraps from one end of an int of `Width` bits to the other, as Go's
does. The variable is a chain
of versions in which each compares higher with the one before: what a trusted author can publish
with nobody looking. `Order` in `Publishing` is this comparison as a table.

## 4. The runs

| Run | Instance | What it shows |
|---|---|---|
| `publish` | one imported plugin, two hosts, artifacts of two sizes, four versions (one compares with nothing), five requests of which two are in flight, three tiers, a reviewer | the tables are well formed; one release live, one waiting; an automatic release passes every rule against what it replaced; the audit log explains every row; the listing never goes dark; authority is that of the commit |
| `keys` | one key in flight twice, two bodies, three accounts, one of which may not publish, changing holders | a key names one release for ever; a holder removed during the download writes nothing; `ReleaseLife` is implemented |
| `reverify` | two re-verifications, a publish, a reviewer, a clock that moves, fairness | a stored hash is never replaced; decided rows never change; nothing is listed without a hash; a hash that came later is explained; everything in flight ends |
| `ownership` | two people, three names that change hands, two plugins, one registered, a file of three owners, two imports beside claims and handovers | only people made owners change the holders; a run that finishes dealt with every pair; ids are claimed once; `Holders` is implemented |
| `versions` | every version of up to two segments with and without suffix and epoch, chains of three | a chain never comes back; it agrees with arithmetic |
| `sign_in` | one person, two browsers, two flows, two sessions, two callbacks, two providers, a clock that moves, fairness | a sign-in stays in its browser; a flow gives one session; somebody switched off stays out; what expired is swept; `SessionRows` is implemented; every callback ends |
| `access` | two people (one a reviewer), two sessions, a token minted with or without a pin, two requests in flight | dead credentials are refused; tokens are contained; requests act as presented; an ending is recorded once |
| `catalogue` | two plugins, two versions, three seed files, two builds, five audit rows, a page | the import comes first, and once; a server comes up on its schema, with commands of both builds beside it; the log explains every delisting; pages hold together |
| `rollback` | two requests, a reviewer | *finding*: an approval moves the listing backwards |
| `same_key_conflict` | the same request twice in flight | *finding*: the retry is refused with `version_exists` |
| `last_owner` | an owner and a maintainer | *finding*: a plugin with holders and no owner |
| `epoch_overflow` | epochs at the ends of an `int` | *finding*: the comparison wraps |

`CHECK_DEADLOCK FALSE` is set for `Versions`, whose chain ends at its bound, and for `SignIn`, whose
flows and sessions are used up. Everywhere else TLC checks that some step is always possible.

### Bounds

* Two requests and two re-verifications in flight. Every property relates at most two of them: the
  one that commits and the one that read before it. A third adds interleavings, no new pair.
* One plugin in `Publishing`: no statement of a publish or a review reaches another plugin's rows.
  The theorems hold for any number of them. Three versions give one live, one waiting, and one about
  to be written; `publish` has a fourth that compares with nothing, and a request for each rule that
  only that rule stops.
* Two digests of very different size: one equal to the claimed hash and one that is not.
* `MaxClock` is 1 in `reverify`, `sign_in` and `access` (two instants) and 0 elsewhere: no decision of
  `Publishing` reads the clock. With lifetimes of 0, what is made at the first instant is alive at that
  instant and expired at the next, so expiry falls between any two steps.
* `MaxLog` is 3 in `ownership`: a claim, an addition and a removal; or two grants of the import and a
  removal between them. `last_owner` has 4. `MaxRuns` is 2: an import, and a re-run over what the first
  left or what changed since. Nobody's account is switched off there: what that does is in `sign_in` and
  `access`.
* Two flows, two browsers and two callbacks in `sign_in`: a property relates two sessions, or a session
  and the flow behind it. One person is enough for these: no check of a callback compares two people, and
  whoever's code is followed, the session is for the person the provider names.
* Two sessions, one token and two requests in `access`: a request with both kinds of credential, a form
  made in another session, two requests that end the same thing. The instance's `Sent` lists which
  requests are made (`MCAccess`), each operation with every credential it distinguishes.
* `MaxTrail` is 5 in `catalogue`: a claim, a submission, its approval, a delisting and a relisting; or a
  delisting, a relisting and another delisting of what was imported, with two to spare. One page at a
  time: pages write nothing, so two of them are two behaviours.
* Builds 1 and 2 carry one and two migrations: a boot that dies between two, one that finds nothing to
  do, one that is behind the schema, and one that a command overtakes once it has compared.
* `Width` is 4 bits: every epoch and part is small against it except in `epoch_overflow`.
* Symmetry over request slots, check slots, and the sessions of `access` and the accounts of `catalogue`,
  which are interchangeable; never in a run with liveness.

### Fairness

`Publishing!FairSpec` gives weak fairness to the steps of the program for each request and
re-verification that has begun (`CallStep`, `CheckStep`): a read and a transaction end, because the busy
timeout bounds the wait for the writer, and a fetch is cut at 45 seconds (`internal/artifact/fetch.go`).
A failure is one of a fetch's results, so the fairness does not assume a download succeeds. Nothing is
assumed of callers, reviewers or owners: a submission may wait for a reviewer for ever.

`SignIn!FairSpec` does the same for the steps of a callback (`Login`): a transaction ends, and the
provider answers or its client gives up after ten seconds (`internal/identity/guard/guard.go`), which is
one of the outcomes of `Exchange`. Nothing is assumed of browsers, people or the operator.

## 5. Where the repository says otherwise

With a run (see `findings` in `PROJECT.json` for the quoted lines):

* **`rollback`**. A release that lands as pending is not compared again in its transaction, and an
  approval compares nothing. Version 1 is live; 2 begins its download; 3 goes live; 2 lands as pending
  with no version reason; its approval replaces 3.
* **`same_key_conflict`**. The key and the version are read in two snapshots. A retry that misses the
  key and then finds the version its twin has just committed is answered `version_exists`, and never
  reaches the second look at the key that was written for exactly this caller.
* **`last_owner`**. `CountOwnersForPlugin` counts maintainers. The last owner may go while a
  maintainer remains, and then nobody can add, remove or hand on.
* **`epoch_overflow`**. `orderOf(newEpoch - curEpoch)` wraps for epochs far apart.

Seen while modelling, and not given a run: the time of a submission is read before its transaction
waits for the writer, so "newest" (ADR 14) is the last to commit and not the last by `submitted_at`;
of two re-verifications that both hold bytes the second reaches the update that a comment in
`reverify.go` calls unreachable (it answers correctly); `seed-owners` run again grants once more what
was removed since; `GetAccountByHandle` takes the oldest identity when two carry one name, because a
cached handle is refreshed only by its own person's sign-in; and `1!final` compares higher than `1.0`
although it has no numbers, because the epochs are compared first.

## 6. What is proved

Every invariant, every action property and every refinement of the passing runs, for every value of the
constants (`VersionsProofs` with one hypothesis, given below): any number of plugins, versions, digests,
people, keys, sessions, tokens, flows, requests in flight, re-verifications and reviewers, any order of
versions, any sizes, owners file, seed files and migrations. TLC checked the same formulas first, on the
instances of section 4.

| Module | Theorems | Say |
|---|---|---|
| `PublishingProofs` | `TypeCorrect` | `TypeOK` of `Publishing` |
| `PublishingReleaseProofs` | `FinalDecisions`, `HashesStay`, `ListingStaysUp` | `DecisionsAreFinal`, `HashNeverSwapped`, `NeverGoesDark` (action properties) |
| | `OneReleaseLive`, `OneReleaseWaiting` | `OneLive`, `OneWaiting` |
| | `ReleasePromiseKept` | `KeepsReleasePromise`: `Publishing` implements `ReleaseLife` |
| `PublishingCallProofs` | `LiveHashesKnown`, `AuthorityHolds` | `LiveHashIsKnown`, `AuthorityAtCommit` (an action property) |
| | `KeysNameTheirReleases` | `KeyNamesItsRelease` |
| | `AutoPublishesWereCompared` | `AutoPublishWasCompared` |
| | `ChangesAreExplained` | `EveryChangeIsExplained` |
| `OwnershipProofs` | `TypeCorrect`, `OwnersOnly`, `ClaimsStand`, `SuccessIsComplete` | `TypeOK`, `OnlyOwnersChangeHolders`, `ClaimedOnce`, `SuccessMeansImported` |
| | `HoldersPromiseKept` | `KeepsHoldersPromise`: `Ownership` implements `Holders` |
| `SignInProofs` | `TypeCorrect`, `SignInStays`, `FlowsAreSpentOnce`, `OffStaysOut`, `ExpiredAreSwept` | `TypeOK`, `SignInStaysInItsBrowser`, `OneSessionPerFlow`, `SwitchedOffStaysOut`, `ExpiredRowsAreSwept` |
| | `SessionPromiseKept` | `KeepsSessionPromise`: `SignIn` implements `SessionRows` |
| `AccessProofs` | `TypeCorrect`, `TheDeadAreRefused`, `TokensStayContained`, `ActsAsItPresents`, `EndingsAreRecorded` | `TypeOK`, `DeadCredentialsAreRefused`, `TokensAreContained`, `RequestsActAsPresented`, `EndingsAreRecordedOnce` |
| `CatalogueProofs` | `TypeCorrect`, `TheSchemaIsServed`, `TheImportComesFirst` | `TypeOK`, `ServesItsSchema`, `ImportComesFirst` |
| | `DelistingsAreExplained`, `PagesAreWhole`, `DetailsAreExplained` | `DelistingIsExplained`, `PagesHoldTogether`, `DetailIsExplained` |
| `VersionsProofs` | `NeverBack`, `ValueRises` | `NeverGoesBack`, `FollowsByValue`, where no difference of epochs overflows |

### Assumptions

The assumptions are the named ones of the modules, and TLC evaluates them on every run. They are of three
kinds.

* The constants have the types they are given: `OrderAssumption`, `SizeAssumption`, `PeopleAssumption`,
  `RequestAssumption`, `PluginAssumption`, `NamesAssumption`, `FileAssumption`, `SignInAssumption`,
  `AccessAssumption`, `NumbersAssumption`, `EpochsAssumption`; bounds and lifetimes are natural numbers.
* `None` is none of the values it stands beside: `NoneAssumption`, `AnswerAssumption`, `KeyAssumption`,
  `NobodyAssumption`, `NoneIsNoRow`, `NoneIsNoAnswer`. In the code it is a missing row, a null column or an
  empty string, which no value equals; TLA+ leaves that open until it is said.
* What the code's input cannot violate: a file of the catalogue has one entry, with one version, for each
  plugin (`SeedAssumption`, `CatalogueAssumption`), and the catalogue's plugins are finitely many, which the
  counts of a page need.

`VersionsProofs` has one hypothesis more, on its theorems and not on the module: `NoDifferenceWraps`, that
the difference of any two epochs fits an int. It is needed: without it the conclusion is false, which is the
finding `epoch_overflow`. Epochs between -2^62 and 2^62 - 1 meet it on the machines the registry runs on.
The number of segments is not limited. `FollowsByValue` reads the first three parts of a version as digits: it
says that their value never falls and, where neither version has a fourth part to decide, that it rises.

### The arguments

**`PublishingProofs`.** `TypeOK` is inductive as it stands, because it says more than types:
`HashIsExplained` ties the columns of a row to each other (without it a step cannot know that a row
in state `absent` is the empty one, or that a verified row has a digest with a size), and
`CallCarries` and `CheckCarries` say what a request has gathered by each step (without them the
transaction could run with no decision). One lemma for each action.

**`PublishingReleaseProofs`.** `RowStep` lists every way a row changes: written by a publish where
there was none, retired, decided by a reviewer, filled in by a re-verification. `EveryRowStep` proves
the list complete, once; properties of single rows follow case by case. `FinalDecisions` is immediate.
`HashesStay` is not: `Verified` writes a hash, and its guard looks at `verified`, not at the hash. A
row that has a hash and is not verified can only be an imported one (`HashIsExplained`), so the proof
needs the invariant `ImportsNeverWait`: what was imported is live or superseded, and never in a
reviewer's hands.

Whether a plugin has two live rows is a question about pairs of rows. `ListingStep` is the shape of a step
as a listing sees it: either no row becomes live or waiting and none stops being live (`Quiet`), or one row
does, every other row of its plugin leaves that state, and a live row is unseated only by one that becomes
live (`Lands`). `EveryListingStep` proves that the transactions of publish and review have that shape.
`Alone("approved")` and `Alone("pending")` are then inductive, and `NeverGoesDark` is a step property of the
same shape.

The refinement: `Init => Life!Init`, and `TypeOK /\ [Next]_vars => [Life!Next]_stands`, where `stands` is
the mapping (the `state` of each row). Only four actions move a release; `Moved` reduces each to how the
state of every row changes. A written release that goes live is the case with content: `GoLive` asks for a
live release to take the place of, and that is `StillLive`, re-read in the transaction.

**`PublishingCallProofs`.** What a request established before its transaction, which no table records.
`CallsVetted` is that invariant: a decision to go live was made with a hash in hand, with no rule firing,
and every step after `checkAuthority` has an author who may publish. With `RowStep` it gives the first two
theorems; the rest of the authority is re-read in the transaction and comes from `Stopped(c) = None`.

* `KeysNameTheirReleases` needs three invariants at once: a key's body is of the release it names, which its
  account submitted (`KeysExplained`); every published row has such a key (`PublishedIsNamed`), so that the
  release of a new key is one no other key names; and whoever was answered was answered with what the key
  says (`ToldItsOwn`).
* `AutoPublishesWereCompared`: the release a request compares with was live when it was read
  (`BasisStands`), and what is compared of a release that was ever live never changes (`ServedStays`, from
  `FinalDecisions`). The transaction re-reads which release is live, so the comparison is with the one that
  is replaced; and it stays true of the audit row for ever.
* `ChangesAreExplained` is proved as five invariants of one row each. They rest on those above: that one row
  is live at most (so that an entry names all that it replaced), that imports never wait, and that
  only a release without a hash was flagged for having none (`CallsVetted`).

**`OwnershipProofs`.** `Change` lists what a step does to claims, grants and the log: nothing, or one of
four things that are logged; `EveryChange` proves the list complete. `IInv` adds to the two invariants
what they rest on: a removal names no role (so an entry with the role `owner` is a grant), the catalogue
stays claimed, nobody holds what is not claimed, and an import that is about to grant is at a plugin it
found registered (`GrantsFollowClaims`), which stays so because ids are never given up. That a manager was
made one (`ManagersWereMade`) then carries the step. For the refinement, `HoldersAfter` says what one grant
or removal does to the holders; the only step with content is a removal, whose count of grants
(`OthersRemain`) is what keeps the last holder.

None of that depends on the accounts the import finds. `SuccessIsComplete` does: `Typed` says that whatever
is behind `seed.next` is accounted for and that a run at its grant knows whom it grants to (`ImportTyped`),
and that a person is linked once and has a cached name exactly when linked (`PeopleTyped`), so that a lookup
by name finds somebody.

**`SignInProofs`.** `SlotStep` lists what a step does to one callback. `Carried` says what a callback has by
each of its steps. A sign-in stays in its browser because a cookie is of a flow that began there
(`CookiesAreOwn`) and a callback past the first check is where its flow began (`AtHome`). One session per flow
is a question about pairs: a callback that has its flow has it alone, its row is gone (`FlowTaken`, `Sole`),
and so it is with a flow that became a session, which no callback still holds (`Unshared`). Whoever was
switched off before the callback came is so still up to the account's transaction, where the callback ends
(`Barring`): that accounts are never switched on again is what it rests on. That expired rows are gone needs
that nothing began or started later than now (`PastOnly`). The refinement is `Barring` again: a session starts
for an account there is.

**`AccessProofs`.** A step is described three times: by what it does to one session (`EverySessionStep`: as
`SessionRows` allows, or an ending), to one token, and to one request. A dead credential stays dead
(`DeadSession`, `DeadToken`, from the rows being of the accounts they were started for), so a request whose
credential was dead when it came still finds it dead when it is looked up (`RefusedBy`); and what is dead at
that moment, for however short a time, identifies nobody (`DeadIsNobody`). `ActsAs` says of a
request that was let through what it stands on: the token it brought, within what that token *was minted for*
(`RowsAreAsMinted`), or the session of its cookie, and then no bearer token. Both properties about requests are
conjuncts of it. That every token came from a form of its account's own session (`MintedFromForms`) is where
`CheckCSRF` is used. `SessionEndsMatch` and `TokenEndsMatch` are the counts of audit rows, which the guard of
the ending's statement (`Endable`) keeps at one.

**`CatalogueProofs`.** The schema is never behind a process that has migrated, and never past one that has
compared unless `overtaken` says so (`SchemaInv`): migrations only go forward, and the comparison comes
first. `EveryStep` lists what a step does to one plugin: claimed, submitted, decided,
delisted, relisted, imported, or nothing. `Catalogued(B)` says the import is all there is to know of what
was imported, for some `B` that stays: the database was empty before it and no later boot imports.
`Accounted` says of each plugin that its rows, read in order, give the reason it is delisted for and the
version that is live (`Explained`), the second of which a delisting copies: `ReasonKeeps` and `LiveKeeps`
are the lemmas that a row already written says the same after any others. A page needs what its remaining
statements will still find: that a plugin shown as listed has a live release and keeps one, so that the
counts have it as listed or as delisted when they are read, and that a plugin with a holder keeps one
(`PageHolds`). For the page of a release, `Story` says that the rows of the log explain where it stands;
`PageTells` says the same of *the rows on the page so far and those the statements to come will find*
(`RowsToSee`), which is why reading the release first, and the trails after it, is right.

**`VersionsProofs`.** "Higher" is characterised as an order on what `splitVersion` makes of a version: a
greater epoch, or the same one, numbers on both sides and the first part that differs greater (`After`,
`CompareIs`); the suffix never enters. `After` is transitive (`AfterOn`, by which of two first differences
comes first) and its reverse is "lower". `ServedAlways`, that any two of the chain are so ordered, is
inductive. `ValueRises` adds that a greater digit outweighs all that follow it (`DigitsWeigh`), and that a
difference beyond the third part leaves the value as it is.

`NatMin` (numbers that are not all gone have a least) and `FirstIs` replace induction where a least index is
meant; sequences of audit rows are handled by lemmas on appended rows (`AppendedRows`, `ReasonKeeps`).

## 7. Only model-checked

* Liveness (`NothingHangs`, `EverySignInEnds`): it needs fairness and `ENABLED`, which are out of the
  prover's reach.
* That the four findings can happen: a counterexample is a behaviour of an instance.

That is all: no invariant is left to TLC alone. TLC's part in the rest is to show that the situations the
theorems speak of arise, and that each property fails when the code is changed in the way it is there to
exclude (`mutants` in `PROJECT.json`).

## 8. Not modelled

* Validation of a submission's fields, decoding, rendering, templates, messages, status codes: pure and
  stateless. Handlers other than those of `Access` decode, call a service modelled elsewhere, and encode.
* Matching a search: a directory page is the listing of everything. The rendered index and its schema
  checks: pure. Its one decision on data, a live release without a hash, cannot arise
  (`LiveHashIsKnown`).
* HTTP downloads, redirects, address checks: a fetch here gives any digest or fails; the provider
  answers, refuses or is silent.
* `last_seen_at` and `last_used_at`, which nothing decides by; a token's expiry, which no form sets; how
  secrets are made, hashed and compared: a secret here is the row it finds.
* A reviewer's handle against the one on the identity row: `Reviewers` is a constant. The handle is as
  stale as the last sign-in, as it is for `Ownership`, where names change hands: the code accepts that,
  and there is nothing it promises.
* A write that waits for the writer longer than the busy timeout: it fails before it has written
  anything, which is what `Lose`, `LoseCheck` and `Leave` are.
* The schema's DDL and the permission tables as data: static. Constraints appear as properties.
* Flags, environment, logging, file modes, and the identity configuration.
* A second server on the same file: the service is deployed as one process. (The commands may run
  beside it; SQLite serialises the transactions, and `Ownership` and `Catalogue` interleave them.) What a
  server does on a schema newer than its build is not modelled: it depends on the migration.

----------------------------- MODULE Ownership ------------------------------
(***************************************************************************)
(* Who may change a plugin: internal/ownership (ClaimID, Add, Remove and   *)
(* the seed-owners import), with as much of sign-in as it rests on.        *)
(*                                                                         *)
(* An account is the person behind one (provider, subject) pair, and is    *)
(* named by that person.  The handle on its identity row is what the       *)
(* provider said at the last sign-in; people rename themselves at the      *)
(* provider, and a name given up can be taken by somebody else.            *)
(***************************************************************************)
EXTENDS FiniteSets, Integers, Sequences

CONSTANTS
  Plugins,     \* plugin ids
  Catalogue,   \* those the catalogue seed registered, with nobody's grant
  People,      \* subjects at the provider
  Handles,     \* names at the provider
  Named0,      \* Named0[a]: the name of a at the provider to begin with
  Disabled,    \* people whose account an operator switched off
  OwnersFile,  \* owners.json: <<plugin, handle>> pairs, sorted by plugin
  MaxLog,      \* bound: the audit log holds no more rows than this
  MaxRuns,     \* bound: seed-owners is run no more often than this
  None

Roles == {"owner", "maintainer"}
Pairs == Plugins \X Handles

Injective(f) == \A x, y \in DOMAIN f : f[x] = f[y] => x = y

ASSUME PluginAssumption == Catalogue \subseteq Plugins
ASSUME NamesAssumption  == Named0 \in [People -> Handles] /\ Injective(Named0)
ASSUME FileAssumption   == OwnersFile \in Seq(Pairs)
ASSUME BoundsAssumption == MaxLog \in Nat /\ MaxRuns \in Nat
ASSUME NobodyAssumption == /\ None \notin People \cup Handles \cup Roles
                           /\ Disabled \subseteq People

VARIABLES
  claimed,  \* the plugin table
  grants,   \* the plugin_owner table: grants[p][a] is a role, or None
  linked,   \* the accounts with an identity row, in linked_at order
  cached,   \* the handle on each identity row
  github,   \* external: each person's name at the provider, now
  log,      \* the audit_log rows about ownership
  seed      \* the seed-owners command

identities == <<linked, cached>>
vars == <<claimed, grants, linked, cached, github, log, seed>>

HoldersOf(p) == {a \in People : grants[p][a] # None}
Known(a)     == \E i \in DOMAIN linked : linked[i] = a
Room         == Cardinality(log) < MaxLog

Entry(action, p, by, a, role) ==
  [action |-> action, plugin |-> p, by |-> by, account |-> a, role |-> role]

-----------------------------------------------------------------------------
(* Names and sign-in.                                                      *)

\* External: somebody takes a name nobody has at the provider.
Rename(a, h) ==
  /\ \A b \in People : github[b] # h
  /\ github' = [github EXCEPT ![a] = h]
  /\ UNCHANGED <<claimed, grants, identities, log, seed>>

\* GetAccountByIdentity: one account for a (provider, subject), made when there is none.
LinkedAgain(a) == Append(linked, a)
LinkedWith(a)  == IF Known(a) THEN linked ELSE Append(linked, a)

(***************************************************************************)
(* resolveAccount: the account is found by subject, and its handle         *)
(* refreshed; or it is created.  A disabled account is refused.            *)
(***************************************************************************)
SignIn(a) ==
  /\ ~(Known(a) /\ a \in Disabled)
  /\ linked' = LinkedWith(a)
  /\ cached' = [cached EXCEPT ![a] = github[a]]
  /\ UNCHANGED <<claimed, grants, github, log, seed>>

\* Somebody with a session, or a token: a request of a disabled account is refused.
MayAct(a) == Known(a) /\ a \notin Disabled

\* GetAccountByHandle: of the accounts with that handle, the one linked first.
AccountsWith(h) == {i \in DOMAIN linked : cached[linked[i]] = h}
AccountByHandle(h) ==
  IF AccountsWith(h) = {}
  THEN None
  ELSE linked[CHOOSE i \in AccountsWith(h) : \A j \in AccountsWith(h) : i <= j]

-----------------------------------------------------------------------------
(* The account surface.                                                    *)

\* First come: no plugin row of that id.
UnheldIsUnclaimed(p) == HoldersOf(p) = {}
Unclaimed(p) == p \notin claimed

ClaimID(p, a) ==
  /\ Room
  /\ MayAct(a)
  /\ Unclaimed(p)
  /\ claimed' = claimed \cup {p}
  /\ grants'  = [grants EXCEPT ![p][a] = "owner"]
  /\ log'     = log \cup {Entry("plugin.claim", p, a, a, "owner")}
  /\ UNCHANGED <<identities, github, seed>>

\* requireOwnerRoleTx: an owner; a maintainer's grant is not enough.
AnyGrantManages(p, a) == grants[p][a] # None
CanManageOwners(p, a) == grants[p][a] = "owner"

Add(p, caller, h, role) ==
  LET target == AccountByHandle(h) IN
  /\ Room
  /\ MayAct(caller)
  /\ CanManageOwners(p, caller)
  /\ target # None
  /\ target \notin Disabled
  /\ grants[p][target] = None
  /\ grants' = [grants EXCEPT ![p][target] = role]
  /\ log'    = log \cup {Entry("owner.add", p, caller, target, role)}
  /\ UNCHANGED <<claimed, identities, github, seed>>

\* CountOwnersForPlugin counts every grant, a maintainer's too.
LastMayGo(p) == TRUE
OthersRemain(p) == Cardinality(HoldersOf(p)) > 1

Remove(p, caller, target) ==
  /\ Room
  /\ MayAct(caller)
  /\ CanManageOwners(p, caller)
  /\ OthersRemain(p)
  /\ grants[p][target] # None
  /\ grants' = [grants EXCEPT ![p][target] = None]
  /\ log'    = log \cup {Entry("owner.remove", p, caller, target, None)}
  /\ UNCHANGED <<claimed, identities, github, seed>>

-----------------------------------------------------------------------------
(* The import.  It runs beside the service, one transaction per grant.     *)

SeedState == [pc        : {"idle", "lookup", "grant", "finished"},
              run       : 0 .. MaxRuns,
              next      : 1 .. Len(OwnersFile) + 1,  \* the first pair not dealt with
              resolved  : [Handles -> People \cup {None}],
              accounted : SUBSET Pairs]  \* granted, held already, or reported

PairNow   == OwnersFile[seed.next]
PluginNow == PairNow[1]
HandleNow == PairNow[2]
Pending   == seed.next <= Len(OwnersFile)

SeedStart ==
  /\ seed.pc \in {"idle", "finished"}
  /\ seed.run < MaxRuns
  /\ seed' = [pc |-> "lookup", run |-> seed.run + 1, next |-> 1,
              resolved |-> [h \in Handles |-> None], accounted |-> {}]
  /\ UNCHANGED <<claimed, grants, identities, github, log>>

\* The pairs from here on, up to the n-th, name the plugin of the first; the n-th does not.
EndsAt(n) ==
  /\ \A i \in seed.next .. (n - 1) : OwnersFile[i][1] = PluginNow
  /\ n <= Len(OwnersFile) => OwnersFile[n][1] # PluginNow

\* A plugin this registry does not carry is reported, with all its owners.
SeedSkip ==
  /\ seed.pc = "lookup"
  /\ Pending
  /\ PluginNow \notin claimed
  /\ \E n \in (seed.next + 1) .. (Len(OwnersFile) + 1) :
       /\ EndsAt(n)
       /\ seed' = [seed EXCEPT !.next = n,
                               !.accounted = @ \cup {OwnersFile[i] : i \in seed.next .. (n - 1)}]
  /\ UNCHANGED <<claimed, grants, identities, github, log>>

\* A handle resolved earlier in this run is not asked about again.
SeedRemembered ==
  /\ seed.pc = "lookup"
  /\ Pending
  /\ PluginNow \in claimed
  /\ seed.resolved[HandleNow] # None
  /\ seed' = [seed EXCEPT !.pc = "grant"]
  /\ UNCHANGED <<claimed, grants, identities, github, log>>

\* ErrProviderUnavailable is fatal: the run ends without having finished.
UnavailableIsSkipped == [seed EXCEPT !.next = @ + 1]
Unavailable == [seed EXCEPT !.pc = "idle"]

\* LookupHandle, when it answers: whoever has that name at the provider now.
NamedNow(h) == {a \in People : github[a] = h}

(***************************************************************************)
(* LookupHandle: the person with that name now; or nobody has it, which is *)
(* reported; or the provider cannot be asked.                              *)
(***************************************************************************)
SeedLookup ==
  /\ seed.pc = "lookup"
  /\ Pending
  /\ PluginNow \in claimed
  /\ seed.resolved[HandleNow] = None
  /\ \/ \E a \in NamedNow(HandleNow) :
          seed' = [seed EXCEPT !.pc = "grant", !.resolved[HandleNow] = a]
     \/ /\ NamedNow(HandleNow) = {}
        /\ seed' = [seed EXCEPT !.next = @ + 1,
                                !.accounted = @ \cup {PairNow}]
     \/ seed' = Unavailable
  /\ UNCHANGED <<claimed, grants, identities, github, log>>

(***************************************************************************)
(* grant: the account is found by subject or created with the handle just  *)
(* resolved, and given the plugin as its owner unless it holds it already, *)
(* in whatever role.                                                       *)
(***************************************************************************)
SeedGrant ==
  /\ seed.pc = "grant"
  /\ Room
  /\ LET p == PluginNow
         a == seed.resolved[HandleNow]
     IN  /\ linked' = LinkedWith(a)
         /\ cached' = IF Known(a) THEN cached ELSE [cached EXCEPT ![a] = HandleNow]
         /\ IF grants[p][a] = None
            THEN /\ grants' = [grants EXCEPT ![p][a] = "owner"]
                 /\ log' = log \cup {Entry("owner.import", p, None, a, "owner")}
            ELSE UNCHANGED <<grants, log>>
  /\ seed' = [seed EXCEPT !.pc = "lookup", !.next = @ + 1,
                          !.accounted = @ \cup {PairNow}]
  /\ UNCHANGED <<claimed, github>>

SeedFinish ==
  /\ seed.pc = "lookup"
  /\ ~Pending
  /\ seed' = [seed EXCEPT !.pc = "finished"]
  /\ UNCHANGED <<claimed, grants, identities, github, log>>

\* The command is interrupted, or a transaction of it fails.
SeedDies ==
  /\ seed.pc \in {"lookup", "grant"}
  /\ seed' = [seed EXCEPT !.pc = "idle"]
  /\ UNCHANGED <<claimed, grants, identities, github, log>>

-----------------------------------------------------------------------------
Init ==
  /\ claimed = Catalogue
  /\ grants  = [p \in Plugins |-> [a \in People |-> None]]
  /\ linked  = <<>>
  /\ cached  = [a \in People |-> None]
  /\ github  = Named0
  /\ log     = {}
  /\ seed    = [pc |-> "idle", run |-> 0, next |-> 1,
                resolved |-> [h \in Handles |-> None], accounted |-> {}]

Person(a) ==
  \/ SignIn(a)
  \/ \E h \in Handles : Rename(a, h)

Manage(p, a) ==
  \/ ClaimID(p, a)
  \/ \E h \in Handles, role \in Roles : Add(p, a, h, role)
  \/ \E target \in People : Remove(p, a, target)

Seed == \/ SeedStart \/ SeedSkip \/ SeedRemembered \/ SeedLookup
        \/ SeedGrant \/ SeedFinish \/ SeedDies

Next ==
  \/ \E a \in People : Person(a)
  \/ \E p \in Plugins, a \in People : Manage(p, a)
  \/ Seed

Spec == Init /\ [][Next]_vars

-----------------------------------------------------------------------------
(* Properties.                                                             *)

TypeOK ==
  /\ claimed \subseteq Plugins
  /\ grants \in [Plugins -> [People -> Roles \cup {None}]]
  /\ linked \in Seq(People) /\ Injective(linked)
  /\ cached \in [People -> Handles \cup {None}]
  /\ \A a \in People : Known(a) <=> cached[a] # None
  /\ github \in [People -> Handles] /\ Injective(github)
  /\ log \subseteq [action  : {"plugin.claim", "owner.add", "owner.remove", "owner.import"},
                    plugin  : Plugins, by : People \cup {None}, account : People,
                    role    : Roles \cup {None}]
  /\ seed \in SeedState

(***************************************************************************)
(* Whoever changed the holders of a plugin had been made an owner of it:   *)
(* every owner.add and owner.remove was done by somebody whom a claim, the *)
(* import or another owner had made an owner (requireOwnerRoleTx), and     *)
(* every grant in the table is one of those.                               *)
(***************************************************************************)
MadeOwner(p, a) ==
  \E e \in log : /\ e.action # "owner.remove"
                 /\ e.plugin = p
                 /\ e.account = a
                 /\ e.role = "owner"

OnlyOwnersChangeHolders ==
  /\ \A e \in log :
       e.action \in {"owner.add", "owner.remove"} => MadeOwner(e.plugin, e.by)
  /\ \A p \in Plugins, a \in People :
       grants[p][a] # None =>
         \E e \in log : /\ e.plugin = p
                        /\ e.account = a
                        /\ e.role = grants[p][a]

(***************************************************************************)
(* An id is claimed once and for all: a plugin has one claimant at most,   *)
(* the catalogue's plugins have none although nobody may hold them yet,    *)
(* and only a claimed plugin is held.                                      *)
(***************************************************************************)
ClaimedOnce ==
  /\ \A e, f \in log :
       e.action = "plugin.claim" /\ f.action = "plugin.claim" /\ e.plugin = f.plugin
         => e = f
  /\ \A e \in log : e.action = "plugin.claim" => e.plugin \notin Catalogue
  /\ \A p \in Plugins \ claimed : HoldersOf(p) = {}

(***************************************************************************)
(* An import that reports success has dealt with every owner in the file:  *)
(* each was granted, held the plugin already, or was reported.  A provider *)
(* that stops answering part-way is not a success.                         *)
(***************************************************************************)
SuccessMeansImported ==
  seed.pc = "finished" => \A i \in DOMAIN OwnersFile : OwnersFile[i] \in seed.accounted

(***************************************************************************)
(* Ownership keeps the promise the publish path rests on: holders come and *)
(* go one at a time, and a plugin once held is held by somebody for ever.  *)
(***************************************************************************)
Promise == INSTANCE Holders WITH
             Accounts <- People,
             holders  <- [p \in Plugins |-> HoldersOf(p)]

KeepsHoldersPromise == Promise!Spec

-----------------------------------------------------------------------------
(* What the repository says of this code, and the code does not do.        *)

(***************************************************************************)
(* "A plugin is never left with no owners": a plugin that had an owner,    *)
(* somebody who can hand it on, has one ever after.                        *)
(***************************************************************************)
HasOwner(p) == \E a \in People : CanManageOwners(p, a)

NeverLeftWithoutOwner ==
  \A p \in Plugins : (\E a \in People : MadeOwner(p, a)) => HasOwner(p)
=============================================================================

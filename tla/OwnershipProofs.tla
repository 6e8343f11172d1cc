--------------------------- MODULE OwnershipProofs ----------------------------
(***************************************************************************)
(* Theorems about module Ownership, for any number of plugins, people and  *)
(* names, any owners file, and any number of imports: who changes holders, *)
(* that an id is claimed once, that an import which succeeds is complete,  *)
(* and that Ownership implements Holders.                                  *)
(*                                                                         *)
(* Who changes holders does not depend on the accounts the import finds:   *)
(* the first of the two invariants below leaves them open, and the second, *)
(* of accounts, names and the import's place in its file, settles them.    *)
(***************************************************************************)
EXTENDS Ownership, FiniteSetTheorems, TLAPS

(***************************************************************************)
(* What a step does to claims, grants and the log: nothing, or one of the  *)
(* four things that are logged.  The account of a grant may be anybody.    *)
(***************************************************************************)
Logged(p, act, by, a, role) == log' = log \cup {Entry(act, p, by, a, role)}

Claimed(p, a) ==
  /\ p \notin claimed
  /\ claimed' = claimed \cup {p}
  /\ grants'  = [grants EXCEPT ![p][a] = "owner"]
  /\ Logged(p, "plugin.claim", a, a, "owner")

Added(p, by, a, role) ==
  /\ CanManageOwners(p, by)
  /\ grants' = [grants EXCEPT ![p][a] = role]
  /\ grants[p][a] = None
  /\ Logged(p, "owner.add", by, a, role)
  /\ UNCHANGED claimed

Removed(p, by, a) ==
  /\ CanManageOwners(p, by)
  /\ OthersRemain(p)
  /\ grants[p][a] # None
  /\ grants' = [grants EXCEPT ![p][a] = None]
  /\ Logged(p, "owner.remove", by, a, None)
  /\ UNCHANGED claimed

Imported(p, a) ==
  /\ seed.pc = "grant"
  /\ p = PluginNow
  /\ grants[p][a] = None
  /\ grants' = [grants EXCEPT ![p][a] = "owner"]
  /\ Logged(p, "owner.import", None, a, "owner")
  /\ UNCHANGED claimed

Change ==
  \/ UNCHANGED <<claimed, grants, log>>
  \/ \E p \in Plugins, a \in People : Claimed(p, a)
  \/ \E p \in Plugins, by \in People, role \in Roles : \E a : Added(p, by, a, role)
  \/ \E p \in Plugins, by \in People, a \in People : Removed(p, by, a)
  \/ \E p : \E a : Imported(p, a)

LEMMA EveryChange == Next => Change
<1> SUFFICES ASSUME Next PROVE Change
  OBVIOUS
<1>1. ASSUME NEW a \in People, Person(a) PROVE Change
  BY <1>1 DEF Person, SignIn, Rename, Change
<1>2. ASSUME NEW p \in Plugins, NEW a \in People, Manage(p, a) PROVE Change
  <2>1. CASE ClaimID(p, a)
    BY <2>1 DEF ClaimID, Unclaimed, Change, Claimed, Logged
  <2>2. ASSUME NEW h \in Handles, NEW role \in Roles, Add(p, a, h, role) PROVE Change
    BY <2>2 DEF Add, Change, Added, Logged
  <2>3. ASSUME NEW target \in People, Remove(p, a, target) PROVE Change
    BY <2>3 DEF Remove, Change, Removed, Logged
  <2> QED
    BY <1>2, <2>1, <2>2, <2>3 DEF Manage
<1>3. CASE Seed
  <2>1. CASE SeedGrant
    BY <2>1 DEF SeedGrant, Change, Imported, Logged
  <2> QED
    BY <1>3, <2>1 DEF Seed, SeedStart, SeedSkip, SeedRemembered, SeedLookup,
       SeedFinish, SeedDies, Change
<1> QED
  BY <1>1, <1>2, <1>3 DEF Next

-----------------------------------------------------------------------------
(* The inductive invariant.                                                *)

GrantsTyped == grants \in [Plugins -> [People -> Roles \cup {None}]]

\* A removal names no role; a claim is of an id that is taken since, and was not before.
EntriesSay ==
  \A e \in log :
    /\ e.action = "owner.remove" => e.role = None
    /\ e.action = "plugin.claim" => e.plugin \in claimed \ Catalogue

\* seed is a record, whatever it carries.
SeedFields == {"pc", "run", "next", "resolved", "accounted"}

\* A grant is made where the plugin is registered, the import's too.
GrantsFollowClaims ==
  /\ DOMAIN seed = SeedFields
  /\ Catalogue \subseteq claimed
  /\ \A p \in Plugins \ claimed : HoldersOf(p) = {}
  /\ seed.pc = "grant" => PluginNow \in claimed

IInv ==
  GrantsTyped /\ EntriesSay /\ GrantsFollowClaims /\ OnlyOwnersChangeHolders /\ ClaimedOnce

LEMMA StartsRight == Init => IInv
  BY PluginAssumption, NobodyAssumption
  DEF Init, IInv, GrantsTyped, EntriesSay, GrantsFollowClaims, OnlyOwnersChangeHolders,
      ClaimedOnce, HoldersOf, SeedFields

\* The import waits with a grant only at a plugin it found registered.
LEMMA ImportAtClaimed ==
  ASSUME GrantsFollowClaims, Next
  PROVE  /\ DOMAIN seed' = SeedFields
         /\ seed'.pc = "grant" => PluginNow' \in claimed'
<1>1. claimed \subseteq claimed' /\ DOMAIN seed = SeedFields
  BY EveryChange DEF Change, Claimed, Added, Removed, Imported, GrantsFollowClaims
<1>2. CASE SeedRemembered
  BY <1>1, <1>2 DEF SeedRemembered, PluginNow, PairNow, SeedFields
<1>3. CASE SeedLookup
  <2>1. CASE seed'.next = seed.next
    BY <1>1, <1>3, <2>1 DEF SeedLookup, PluginNow, PairNow, Unavailable, SeedFields
  <2>2. CASE seed'.next # seed.next
    <3>1. seed'.pc = "lookup" /\ DOMAIN seed' = SeedFields
      BY <1>1, <1>3, <2>2 DEF SeedLookup, Unavailable, SeedFields
    <3> QED
      BY <3>1
  <2> QED
    BY <2>1, <2>2
<1>4. CASE UNCHANGED seed
  BY <1>1, <1>4 DEF GrantsFollowClaims, PluginNow, PairNow
<1>5. CASE SeedStart \/ SeedSkip \/ SeedGrant \/ SeedFinish \/ SeedDies
  <2>1. CASE SeedStart
    BY <2>1 DEF SeedStart, SeedFields
  <2>2. CASE SeedSkip
    BY <1>1, <2>2 DEF SeedSkip, SeedFields
  <2>3. CASE SeedGrant
    BY <1>1, <2>3 DEF SeedGrant, SeedFields
  <2>4. CASE SeedFinish \/ SeedDies
    BY <1>1, <2>4 DEF SeedFinish, SeedDies, SeedFields
  <2> QED
    BY <1>5, <2>1, <2>2, <2>3, <2>4
<1> QED
  BY <1>2, <1>3, <1>4, <1>5
  DEF Next, Person, Manage, Seed, SignIn, Rename, ClaimID, Add, Remove

(***************************************************************************)
(* A grant of a role, logged: by a claim, by another owner or the import.  *)
(***************************************************************************)
LEMMA GivenIsExplained ==
  ASSUME IInv, NEW p, NEW by, NEW a, NEW role \in Roles,
         NEW act \in {"plugin.claim", "owner.add", "owner.import"},
         act = "owner.add" => MadeOwner(p, by),
         grants' = [grants EXCEPT ![p][a] = role],
         Logged(p, act, by, a, role)
  PROVE  OnlyOwnersChangeHolders' /\ GrantsTyped'
<1> DEFINE new == Entry(act, p, by, a, role)
<1>1. GrantsTyped /\ OnlyOwnersChangeHolders
  BY DEF IInv
<1>2. log' = log \cup {new}
  BY DEF Logged
<1>3. /\ new.action = act /\ new.plugin = p /\ new.by = by
      /\ new.account = a /\ new.role = role
  BY DEF Entry
<1>4. ASSUME NEW q, NEW b, MadeOwner(q, b) PROVE MadeOwner(q, b)'
  BY <1>2, <1>4 DEF MadeOwner
<1>5. ASSUME NEW e \in log', e.action \in {"owner.add", "owner.remove"}
      PROVE  MadeOwner(e.plugin, e.by)'
  <2>1. CASE e = new
    BY <1>3, <1>4, <1>5, <2>1
  <2>2. CASE e \in log
    BY <1>1, <1>4, <1>5, <2>2 DEF OnlyOwnersChangeHolders
  <2> QED
    BY <1>2, <1>5, <2>1, <2>2
<1>6. GrantsTyped' /\ \A q \in Plugins, b \in People :
        grants'[q][b] = IF q = p /\ b = a THEN role ELSE grants[q][b]
  BY <1>1 DEF GrantsTyped
<1>7. ASSUME NEW q \in Plugins, NEW b \in People, grants'[q][b] # None
      PROVE  \E e \in log' : e.plugin = q /\ e.account = b /\ e.role = grants'[q][b]
  <2>1. CASE q = p /\ b = a
    <3>1. grants'[q][b] = role
      BY <1>6, <2>1
    <3> QED
      BY <1>2, <1>3, <2>1, <3>1
  <2>2. CASE ~(q = p /\ b = a)
    <3>1. grants'[q][b] = grants[q][b]
      BY <1>6, <2>2
    <3> QED
      BY <1>1, <1>2, <1>7, <3>1 DEF OnlyOwnersChangeHolders
  <2> QED
    BY <2>1, <2>2
<1>8. OnlyOwnersChangeHolders'
  BY <1>5, <1>7 DEF OnlyOwnersChangeHolders
<1> QED
  BY <1>6, <1>8

\* Whoever manages the owners of a plugin was made an owner of it, and the plugin is claimed.
LEMMA ManagersWereMade ==
  ASSUME IInv, NEW p \in Plugins, NEW by \in People, CanManageOwners(p, by)
  PROVE  MadeOwner(p, by) /\ p \in claimed
<1>1. grants[p][by] = "owner" /\ "owner" # None
  BY NobodyAssumption DEF CanManageOwners, Roles
<1>2. PICK e \in log : e.plugin = p /\ e.account = by /\ e.role = "owner"
  BY <1>1 DEF IInv, OnlyOwnersChangeHolders
<1>3. e.action # "owner.remove"
  BY <1>1, <1>2 DEF IInv, EntriesSay
<1>4. by \in HoldersOf(p)
  BY <1>1 DEF HoldersOf
<1> QED
  BY <1>2, <1>3, <1>4 DEF MadeOwner, IInv, GrantsFollowClaims

LEMMA OwnersStep ==
  ASSUME IInv, Change
  PROVE  OnlyOwnersChangeHolders' /\ GrantsTyped'
<1>1. CASE UNCHANGED <<claimed, grants, log>>
  BY <1>1 DEF IInv, OnlyOwnersChangeHolders, MadeOwner, GrantsTyped
<1>2. ASSUME NEW p \in Plugins, NEW a \in People, Claimed(p, a)
      PROVE  OnlyOwnersChangeHolders' /\ GrantsTyped'
  BY <1>2, GivenIsExplained DEF Claimed, Roles
<1>3. ASSUME NEW p \in Plugins, NEW by \in People, NEW role \in Roles, NEW a,
             Added(p, by, a, role)
      PROVE  OnlyOwnersChangeHolders' /\ GrantsTyped'
  <2>1. MadeOwner(p, by)
    BY <1>3, ManagersWereMade DEF Added
  <2> QED
    BY <1>3, <2>1, GivenIsExplained DEF Added
<1>4. ASSUME NEW p, NEW a, Imported(p, a)
      PROVE  OnlyOwnersChangeHolders' /\ GrantsTyped'
  BY <1>4, GivenIsExplained DEF Imported, Roles
<1>5. ASSUME NEW p \in Plugins, NEW by \in People, NEW a \in People, Removed(p, by, a)
      PROVE  OnlyOwnersChangeHolders' /\ GrantsTyped'
  <2> DEFINE new == Entry("owner.remove", p, by, a, None)
  <2>1. log' = log \cup {new} /\ new.plugin = p /\ new.by = by
    BY <1>5 DEF Removed, Logged, Entry
  <2>2. MadeOwner(p, by)
    BY <1>5, ManagersWereMade DEF Removed
  <2>3. ASSUME NEW q, NEW b, MadeOwner(q, b) PROVE MadeOwner(q, b)'
    BY <2>1, <2>3 DEF MadeOwner
  <2>4. GrantsTyped' /\ \A q \in Plugins, b \in People :
          grants'[q][b] = IF q = p /\ b = a THEN None ELSE grants[q][b]
    BY <1>5 DEF Removed, IInv, GrantsTyped
  <2>5. \A e \in log' :
          e.action \in {"owner.add", "owner.remove"} => MadeOwner(e.plugin, e.by)'
    BY <2>1, <2>2, <2>3 DEF IInv, OnlyOwnersChangeHolders
  <2>6. \A q \in Plugins, b \in People : grants'[q][b] # None =>
          \E e \in log' : e.plugin = q /\ e.account = b /\ e.role = grants'[q][b]
    BY <2>1, <2>4 DEF IInv, OnlyOwnersChangeHolders
  <2> QED
    BY <2>4, <2>5, <2>6 DEF OnlyOwnersChangeHolders
<1> QED
  BY <1>1, <1>2, <1>3, <1>4, <1>5 DEF Change

LEMMA ClaimsStep ==
  ASSUME IInv, Change
  PROVE  /\ EntriesSay'
         /\ ClaimedOnce'
         /\ Catalogue \subseteq claimed'
         /\ \A p \in Plugins \ claimed' : HoldersOf(p)' = {}
<1> DEFINE Goal == /\ EntriesSay'
                   /\ ClaimedOnce'
                   /\ Catalogue \subseteq claimed'
                   /\ \A p \in Plugins \ claimed' : HoldersOf(p)' = {}
<1>1. CASE UNCHANGED <<claimed, grants, log>>
  BY <1>1 DEF IInv, EntriesSay, ClaimedOnce, GrantsFollowClaims, HoldersOf
<1>2. ASSUME NEW p \in Plugins, NEW a \in People, Claimed(p, a) PROVE Goal
  <2> DEFINE new == Entry("plugin.claim", p, a, a, "owner")
  <2>1. /\ log' = log \cup {new} /\ claimed' = claimed \cup {p} /\ p \notin claimed
        /\ new.action = "plugin.claim" /\ new.plugin = p
    BY <1>2 DEF Claimed, Logged, Entry
  <2>2. \A e \in log : e.action = "plugin.claim" => e.plugin \in claimed \ Catalogue
    BY DEF IInv, EntriesSay
  <2>3. Catalogue \subseteq claimed
    BY DEF IInv, GrantsFollowClaims
  <2>4. EntriesSay'
    BY <2>1, <2>2, <2>3 DEF IInv, EntriesSay
  <2>5. \A q \in Plugins \ claimed' : HoldersOf(q)' = {}
    BY <1>2, <2>1 DEF Claimed, IInv, GrantsTyped, GrantsFollowClaims, HoldersOf
  <2>6. \A e, f \in log' :
          e.action = "plugin.claim" /\ f.action = "plugin.claim" /\ e.plugin = f.plugin
            => e = f
    BY <2>1, <2>2 DEF IInv, ClaimedOnce
  <2>7. \A e \in log' : e.action = "plugin.claim" => e.plugin \notin Catalogue
    BY <2>4 DEF EntriesSay
  <2> QED
    BY <2>1, <2>3, <2>4, <2>5, <2>6, <2>7 DEF ClaimedOnce
<1>3. ASSUME NEW p, NEW a, NEW by, NEW role, NEW act,
             act # "plugin.claim", act = "owner.remove" => role = None,
             p \in claimed, claimed' = claimed,
             grants' = [grants EXCEPT ![p][a] = role],
             Logged(p, act, by, a, role)
      PROVE  Goal
  <2> DEFINE new == Entry(act, p, by, a, role)
  <2>1. log' = log \cup {new} /\ new.action = act /\ new.role = role
    BY <1>3 DEF Logged, Entry
  <2>2. EntriesSay'
    BY <1>3, <2>1 DEF IInv, EntriesSay
  <2>3. \A q \in Plugins \ claimed' : HoldersOf(q)' = {}
    BY <1>3 DEF IInv, GrantsTyped, GrantsFollowClaims, HoldersOf
  <2>4. /\ \A e, f \in log' :
             e.action = "plugin.claim" /\ f.action = "plugin.claim" /\ e.plugin = f.plugin
               => e = f
        /\ \A e \in log' : e.action = "plugin.claim" => e.plugin \notin Catalogue
    BY <1>3, <2>1 DEF IInv, ClaimedOnce
  <2> QED
    BY <1>3, <2>2, <2>3, <2>4 DEF IInv, ClaimedOnce, GrantsFollowClaims
<1>4. ASSUME NEW p \in Plugins, NEW by \in People, NEW role \in Roles, NEW a,
             Added(p, by, a, role)
      PROVE  Goal
  <2>1. p \in claimed
    BY <1>4, ManagersWereMade DEF Added
  <2> QED
    BY <1>3, <1>4, <2>1 DEF Added
<1>5. ASSUME NEW p \in Plugins, NEW by \in People, NEW a \in People, Removed(p, by, a)
      PROVE  Goal
  <2>1. p \in claimed
    BY <1>5, ManagersWereMade DEF Removed
  <2> QED
    BY <1>3, <1>5, <2>1 DEF Removed
<1>6. ASSUME NEW p, NEW a, Imported(p, a) PROVE Goal
  <2>1. p \in claimed
    BY <1>6 DEF Imported, IInv, GrantsFollowClaims
  <2>2. /\ claimed' = claimed
        /\ grants' = [grants EXCEPT ![p][a] = "owner"]
        /\ Logged(p, "owner.import", None, a, "owner")
    BY <1>6 DEF Imported
  <2> QED
    BY <1>3, <2>1, <2>2
<1> QED
  BY <1>1, <1>2, <1>4, <1>5, <1>6 DEF Change

LEMMA IInvInductive == IInv /\ [Next]_vars => IInv'
<1> SUFFICES ASSUME IInv, [Next]_vars PROVE IInv'
  OBVIOUS
<1>1. CASE Next
  <2>1. Change
    BY <1>1, EveryChange
  <2>2. OnlyOwnersChangeHolders' /\ GrantsTyped'
    BY <2>1, OwnersStep
  <2>3. DOMAIN seed' = SeedFields /\ (seed'.pc = "grant" => PluginNow' \in claimed')
    BY <1>1, ImportAtClaimed DEF IInv
  <2> QED
    BY <2>1, <2>2, <2>3, ClaimsStep DEF IInv, GrantsFollowClaims
<1>2. CASE UNCHANGED vars
  BY <1>2 DEF vars, identities, IInv, GrantsTyped, EntriesSay, GrantsFollowClaims,
     OnlyOwnersChangeHolders, MadeOwner, ClaimedOnce, HoldersOf, PluginNow, PairNow, SeedFields
<1> QED
  BY <1>1, <1>2

\* What the theorems below rest on is true of every reachable state.
THEOREM IInvAlways == Spec => []IInv
  BY StartsRight, IInvInductive, PTL DEF Spec

(***************************************************************************)
(* Whoever changed the holders of a plugin had been made an owner of it,   *)
(* whatever the import, other owners and other plugins' owners did         *)
(* meanwhile (requireOwnerRoleTx).                                         *)
(***************************************************************************)
THEOREM OwnersOnly == Spec => []OnlyOwnersChangeHolders
  BY IInvAlways, PTL DEF IInv

(***************************************************************************)
(* An id is claimed once, however many people claim it at a time, and the  *)
(* ids of the catalogue by nobody (plugin's primary key, ClaimID).         *)
(***************************************************************************)
THEOREM ClaimsStand == Spec => []ClaimedOnce
  BY IInvAlways, PTL DEF IInv

-----------------------------------------------------------------------------
(* Ownership implements Holders.                                           *)

held == [p \in Plugins |-> HoldersOf(p)]

LEMMA HoldersAfter ==
  ASSUME GrantsTyped, NEW p \in Plugins, NEW a \in People, NEW role \in Roles \cup {None},
         grants' = [grants EXCEPT ![p][a] = role]
  PROVE  held' = [held EXCEPT ![p] = IF role = None THEN @ \ {a} ELSE @ \cup {a}]
<1>1. \A q \in Plugins, b \in People :
        grants'[q][b] = IF q = p /\ b = a THEN role ELSE grants[q][b]
  BY DEF GrantsTyped
<1>2. \A q \in Plugins :
        HoldersOf(q)' = IF q # p THEN HoldersOf(q)
                        ELSE IF role = None THEN HoldersOf(p) \ {a}
                        ELSE HoldersOf(p) \cup {a}
  BY <1>1 DEF HoldersOf
<1> QED
  BY <1>2 DEF held

\* A grant to somebody who holds nothing of the plugin, or to nobody known.
LEMMA GivenIsGrant ==
  ASSUME GrantsTyped, NEW p, NEW a, NEW role \in Roles, grants[p][a] = None,
         grants' = [grants EXCEPT ![p][a] = role]
  PROVE  [Promise!Next]_held
<1>1. CASE p \in Plugins /\ a \in People
  <2>1. held' = [held EXCEPT ![p] = @ \cup {a}]
    BY <1>1, HoldersAfter, NobodyAssumption
  <2>2. a \notin held[p]
    BY <1>1 DEF held, HoldersOf
  <2>3. Promise!Grant(p, a)
    BY <2>1, <2>2 DEF Promise!Grant, held
  <2> QED
    BY <1>1, <2>3 DEF Promise!Next
<1>2. CASE ~(p \in Plugins /\ a \in People)
  <2>1. \A q \in Plugins, b \in People : grants'[q][b] = grants[q][b]
    BY <1>2 DEF GrantsTyped
  <2> QED
    BY <2>1 DEF held, HoldersOf
<1> QED
  BY <1>1, <1>2

LEMMA RemovedIsRevoke ==
  ASSUME GrantsTyped, NEW p \in Plugins, NEW by \in People, NEW a \in People,
         Removed(p, by, a)
  PROVE  Promise!Next
<1>1. held' = [held EXCEPT ![p] = @ \ {a}]
  BY HoldersAfter DEF Removed
<1>2. a \in held[p] /\ held[p] = HoldersOf(p)
  BY DEF Removed, held, HoldersOf
<1>3. HoldersOf(p) # {a}
  <2> SUFFICES ASSUME HoldersOf(p) = {a} PROVE FALSE
    OBVIOUS
  <2>1. Cardinality({a}) = 1
    BY FS_Singleton
  <2> QED
    BY <2>1 DEF Removed, OthersRemain
<1>4. Promise!Revoke(p, a)
  BY <1>1, <1>2, <1>3 DEF Promise!Revoke, held
<1> QED
  BY <1>4 DEF Promise!Next

LEMMA EveryStepIsPromised ==
  ASSUME IInv, [Next]_vars
  PROVE  [Promise!Next]_held
<1>1. GrantsTyped
  BY DEF IInv
<1>2. CASE UNCHANGED grants
  BY <1>2 DEF held, HoldersOf
<1>3. ASSUME NEW p \in Plugins, NEW a \in People, Claimed(p, a)
      PROVE  [Promise!Next]_held
  <2>1. grants[p][a] = None
    BY <1>3 DEF Claimed, IInv, GrantsFollowClaims, HoldersOf
  <2> QED
    BY <1>1, <1>3, <2>1, GivenIsGrant DEF Claimed, Roles
<1>4. ASSUME NEW p \in Plugins, NEW by \in People, NEW role \in Roles, NEW a,
             Added(p, by, a, role)
      PROVE  [Promise!Next]_held
  BY <1>1, <1>4, GivenIsGrant DEF Added
<1>5. ASSUME NEW p \in Plugins, NEW by \in People, NEW a \in People, Removed(p, by, a)
      PROVE  [Promise!Next]_held
  BY <1>1, <1>5, RemovedIsRevoke
<1>6. ASSUME NEW p, NEW a, Imported(p, a) PROVE [Promise!Next]_held
  BY <1>1, <1>6, GivenIsGrant DEF Imported, Roles
<1>7. CASE Change
  BY <1>2, <1>3, <1>4, <1>5, <1>6, <1>7 DEF Change
<1> QED
  BY <1>2, <1>7, EveryChange DEF vars

(***************************************************************************)
(* Ownership keeps the promise the publish path rests on: holders come and *)
(* go one at a time, and a plugin somebody holds is held ever after, also  *)
(* while an import runs and dies beside the removals (ErrLastOwner).       *)
(***************************************************************************)
THEOREM HoldersPromiseKept == Spec => KeepsHoldersPromise
<1>1. Init => Promise!Init
  BY StartsRight DEF Promise!Init, IInv, GrantsTyped, HoldersOf
<1>2. IInv /\ [Next]_vars => [Promise!Next]_held
  BY EveryStepIsPromised
<1> QED
  BY <1>1, <1>2, IInvAlways, PTL DEF Spec, KeepsHoldersPromise, Promise!Spec, held

-----------------------------------------------------------------------------
(* Accounts, names, and the import's way through its file.                 *)

PeopleTyped ==
  /\ linked \in Seq(People) /\ Injective(linked)
  /\ cached \in [People -> Handles \cup {None}]
  /\ \A a \in People : Known(a) <=> cached[a] # None
  /\ github \in [People -> Handles] /\ Injective(github)

LogTyped ==
  log \subseteq [action  : {"plugin.claim", "owner.add", "owner.remove", "owner.import"},
                 plugin  : Plugins, by : People \cup {None}, account : People,
                 role    : Roles \cup {None}]

\* What the import has left behind is accounted for, and it grants to somebody it found.
ImportTyped ==
  /\ seed \in SeedState
  /\ seed.pc = "grant" => Pending /\ seed.resolved[HandleNow] # None
  /\ seed.pc = "finished" => ~Pending
  /\ \A i \in 1 .. Len(OwnersFile) : i < seed.next => OwnersFile[i] \in seed.accounted

Typed == claimed \subseteq Plugins /\ PeopleTyped /\ LogTyped /\ ImportTyped

\* The pair the import is at.
LEMMA AtAPair ==
  ASSUME ImportTyped, Pending
  PROVE  /\ seed.next \in 1 .. Len(OwnersFile) /\ Len(OwnersFile) \in Nat
         /\ PairNow \in Pairs /\ PluginNow \in Plugins /\ HandleNow \in Handles
<1>1. seed.next \in 1 .. Len(OwnersFile) /\ Len(OwnersFile) \in Nat
  BY FileAssumption DEF ImportTyped, SeedState, Pending
<1>2. PairNow \in Pairs
  BY <1>1, FileAssumption DEF PairNow
<1> QED
  BY <1>1, <1>2 DEF PluginNow, HandleNow, Pairs

\* An account is linked once, and its row names a handle.
LEMMA LinkedOnce ==
  ASSUME PeopleTyped, NEW a \in People, NEW h \in Handles,
         linked' = LinkedWith(a),
         \/ cached' = [cached EXCEPT ![a] = h]
         \/ Known(a) /\ UNCHANGED cached,
         UNCHANGED github
  PROVE  PeopleTyped'
<1>1. linked \in Seq(People) /\ Len(linked) \in Nat /\ DOMAIN linked = 1 .. Len(linked)
  BY DEF PeopleTyped
<1>2. /\ cached' \in [People -> Handles \cup {None}]
      /\ cached'[a] # None
      /\ \A b \in People : b # a => cached'[b] = cached[b]
  BY NobodyAssumption DEF PeopleTyped
<1>3. CASE Known(a)
  <2>1. UNCHANGED linked
    BY <1>3 DEF LinkedWith
  <2>2. \A b : Known(b)' <=> Known(b)
    BY <2>1 DEF Known
  <2>3. \A b \in People : Known(b)' <=> cached'[b] # None
    BY <1>2, <1>3, <2>2 DEF PeopleTyped
  <2>4. linked' \in Seq(People) /\ Injective(linked')
    BY <2>1 DEF PeopleTyped
  <2> QED
    BY <1>2, <2>3, <2>4 DEF PeopleTyped
<1>4. CASE ~Known(a)
  <2>1. linked' = Append(linked, a)
    BY <1>4 DEF LinkedWith
  <2>2. /\ linked' \in Seq(People) /\ Len(linked') = Len(linked) + 1
        /\ DOMAIN linked' = 1 .. Len(linked) + 1
        /\ linked'[Len(linked) + 1] = a
        /\ \A i \in 1 .. Len(linked) : linked'[i] = linked[i]
    BY <1>1, <2>1
  <2>3. \A i \in 1 .. Len(linked) + 1 : i \in 1 .. Len(linked) \/ i = Len(linked) + 1
    BY <1>1
  <2>4. Len(linked) + 1 \in 1 .. Len(linked) + 1
        /\ \A i \in 1 .. Len(linked) : i \in 1 .. Len(linked) + 1
    BY <1>1
  <2>5. \A b : Known(b)' <=> Known(b) \/ b = a
    BY <1>1, <2>2, <2>3, <2>4 DEF Known
  <2>6. Injective(linked')
    BY <1>1, <1>4, <2>2, <2>3 DEF PeopleTyped, Injective, Known
  <2>7. \A b \in People : Known(b)' <=> cached'[b] # None
    BY <1>2, <2>5 DEF PeopleTyped
  <2> QED
    BY <1>2, <2>2, <2>6, <2>7 DEF PeopleTyped
<1> QED
  BY <1>3, <1>4

LEMMA PeopleStep ==
  ASSUME PeopleTyped, ImportTyped, [Next]_vars
  PROVE  PeopleTyped'
<1>1. CASE UNCHANGED <<identities, github>>
  BY <1>1 DEF PeopleTyped, identities, Known
<1>2. ASSUME NEW a \in People, SignIn(a) PROVE PeopleTyped'
  <2>1. github[a] \in Handles
    BY DEF PeopleTyped
  <2> QED
    BY <1>2, <2>1, LinkedOnce DEF SignIn
<1>3. ASSUME NEW a \in People, NEW h \in Handles, Rename(a, h) PROVE PeopleTyped'
  <2>1. github' = [github EXCEPT ![a] = h] /\ \A b \in People : github[b] # h
    BY <1>3 DEF Rename
  <2>2. github' \in [People -> Handles] /\ Injective(github')
    BY <2>1 DEF PeopleTyped, Injective
  <2> QED
    BY <1>3, <2>2 DEF Rename, identities, PeopleTyped, Known
<1>4. CASE SeedGrant
  <2>1. PICK a : a = seed.resolved[HandleNow]
    OBVIOUS
  <2>2. Pending /\ a # None
    BY <1>4, <2>1 DEF SeedGrant, ImportTyped
  <2>3. HandleNow \in Handles
    BY <2>2, AtAPair
  <2>4. a \in People
    BY <2>1, <2>2, <2>3 DEF ImportTyped, SeedState
  <2>5. /\ linked' = LinkedWith(a)
        /\ cached' = IF Known(a) THEN cached ELSE [cached EXCEPT ![a] = HandleNow]
        /\ UNCHANGED github
    BY <1>4, <2>1 DEF SeedGrant
  <2> QED
    BY <2>3, <2>4, <2>5, LinkedOnce
<1>5. ASSUME NEW p \in Plugins, NEW a \in People, Manage(p, a) PROVE PeopleTyped'
  <2>1. UNCHANGED <<identities, github>>
    BY <1>5 DEF Manage, ClaimID, Add, Remove
  <2> QED
    BY <1>1, <2>1
<1>6. CASE Seed
  <2>1. SeedGrant \/ UNCHANGED <<identities, github>>
    BY <1>6 DEF Seed, SeedStart, SeedSkip, SeedRemembered, SeedLookup, SeedFinish, SeedDies
  <2> QED
    BY <1>1, <1>4, <2>1
<1>7. CASE UNCHANGED vars
  BY <1>1, <1>7 DEF vars, identities
<1>8. ASSUME NEW a \in People, Person(a) PROVE PeopleTyped'
  BY <1>2, <1>3, <1>8 DEF Person
<1> QED
  BY <1>5, <1>6, <1>7, <1>8 DEF Next

\* Numbers that are not all gone have a first.
LEMMA NatMin ==
  ASSUME NEW T, T \subseteq Nat, T # {}
  PROVE  \E x \in T : \A y \in T : x <= y
<1>1. \E x \in T : \A y \in T : ~ (<<y, x>> \in OpToRel(<, Nat))
  BY NatLessThanWellFounded, WFMin
<1>2. PICK x \in T : \A y \in T : ~ (<<y, x>> \in OpToRel(<, Nat))
  BY <1>1
<1>3. \A y \in T : ~(y < x)
  BY <1>2 DEF OpToRel
<1>4. ASSUME NEW y \in T PROVE x <= y
  <2>1. ~(y < x) /\ x \in Nat /\ y \in Nat
    BY <1>3
  <2> QED
    BY <2>1
<1> QED
  BY <1>4

LEMMA AccountByHandleIs ==
  ASSUME PeopleTyped, NEW h
  PROVE  AccountByHandle(h) \in People \cup {None}
<1>1. /\ linked \in Seq(People) /\ DOMAIN linked = 1 .. Len(linked) /\ Len(linked) \in Nat
      /\ AccountsWith(h) \subseteq DOMAIN linked
  BY DEF PeopleTyped, AccountsWith
<1>2. ASSUME AccountsWith(h) # {} PROVE AccountByHandle(h) \in People
  <2>1. \E i \in AccountsWith(h) : \A j \in AccountsWith(h) : i <= j
    <3>1. AccountsWith(h) \subseteq Nat
      BY <1>1
    <3> QED
      BY <1>2, <3>1, NatMin
  <2>2. PICK i : i = CHOOSE k \in AccountsWith(h) : \A j \in AccountsWith(h) : k <= j
    OBVIOUS
  <2>3. i \in AccountsWith(h)
    BY <2>1, <2>2
  <2>4. AccountByHandle(h) = linked[i]
    BY <1>2, <2>2 DEF AccountByHandle
  <2> QED
    BY <1>1, <2>3, <2>4
<1> QED
  BY <1>2 DEF AccountByHandle

LEMMA EntryTyped ==
  ASSUME LogTyped,
         NEW act \in {"plugin.claim", "owner.add", "owner.remove", "owner.import"},
         NEW p \in Plugins, NEW by \in People \cup {None}, NEW a \in People,
         NEW role \in Roles \cup {None},
         Logged(p, act, by, a, role)
  PROVE  LogTyped'
BY DEF LogTyped, Logged, Entry

LEMMA LogStep ==
  ASSUME PeopleTyped, ImportTyped, LogTyped, [Next]_vars
  PROVE  LogTyped'
<1>1. CASE UNCHANGED log
  BY <1>1 DEF LogTyped
<1>2. ASSUME NEW p \in Plugins, NEW a \in People, Manage(p, a) PROVE LogTyped'
  <2>1. CASE ClaimID(p, a)
    <3>1. Logged(p, "plugin.claim", a, a, "owner")
      BY <2>1 DEF ClaimID, Logged
    <3> QED
      BY <3>1, EntryTyped DEF Roles
  <2>2. ASSUME NEW h \in Handles, NEW role \in Roles, Add(p, a, h, role) PROVE LogTyped'
    <3>1. PICK target : target = AccountByHandle(h)
      OBVIOUS
    <3>2. target # None /\ Logged(p, "owner.add", a, target, role)
      BY <2>2, <3>1 DEF Add, Logged
    <3>3. target \in People
      BY <3>1, <3>2, AccountByHandleIs
    <3> QED
      BY <3>2, <3>3, EntryTyped
  <2>3. ASSUME NEW target \in People, Remove(p, a, target) PROVE LogTyped'
    <3>1. Logged(p, "owner.remove", a, target, None)
      BY <2>3 DEF Remove, Logged
    <3> QED
      BY <3>1, EntryTyped
  <2> QED
    BY <1>2, <2>1, <2>2, <2>3 DEF Manage
<1>3. CASE SeedGrant
  <2>1. PICK a : a = seed.resolved[HandleNow]
    OBVIOUS
  <2>2. Pending /\ a # None
    BY <1>3, <2>1 DEF SeedGrant, ImportTyped
  <2>3. HandleNow \in Handles /\ PluginNow \in Plugins
    BY <2>2, AtAPair
  <2>4. a \in People
    BY <2>1, <2>2, <2>3 DEF ImportTyped, SeedState
  <2>5. UNCHANGED log \/ Logged(PluginNow, "owner.import", None, a, "owner")
    BY <1>3, <2>1 DEF SeedGrant, Logged
  <2> QED
    BY <1>1, <2>3, <2>4, <2>5, EntryTyped DEF Roles
<1>4. CASE Seed
  <2>1. SeedGrant \/ UNCHANGED log
    BY <1>4 DEF Seed, SeedStart, SeedSkip, SeedRemembered, SeedLookup, SeedFinish, SeedDies
  <2> QED
    BY <1>1, <1>3, <2>1
<1>5. ASSUME NEW a \in People, Person(a) PROVE LogTyped'
  BY <1>1, <1>5 DEF Person, SignIn, Rename
<1>6. CASE UNCHANGED vars
  BY <1>1, <1>6 DEF vars
<1> QED
  BY <1>2, <1>4, <1>5, <1>6 DEF Next

\* The import moves past the pair it is at, which is accounted for.
LEMMA PastThePair ==
  ASSUME ImportTyped, Pending, seed.pc \in {"lookup", "grant"},
         seed' = [seed EXCEPT !.pc = "lookup", !.next = @ + 1, !.accounted = @ \cup {PairNow}]
  PROVE  ImportTyped'
<1>1. seed.next \in 1 .. Len(OwnersFile) /\ Len(OwnersFile) \in Nat /\ PairNow \in Pairs
  BY AtAPair
<1>2. seed.next + 1 \in 1 .. Len(OwnersFile) + 1
  BY <1>1
<1>3. /\ seed' \in SeedState /\ seed'.pc = "lookup" /\ seed'.next = seed.next + 1
      /\ seed'.accounted = seed.accounted \cup {PairNow}
  BY <1>1, <1>2 DEF ImportTyped, SeedState
<1>4. ASSUME NEW i \in 1 .. Len(OwnersFile), i < seed.next + 1
      PROVE  OwnersFile[i] \in seed'.accounted
  <2>1. i < seed.next \/ i = seed.next
    BY <1>1, <1>4
  <2> QED
    BY <1>3, <2>1 DEF ImportTyped, PairNow
<1> QED
  BY <1>3, <1>4 DEF ImportTyped

LEMMA ImportStep ==
  ASSUME PeopleTyped, ImportTyped, [Next]_vars
  PROVE  ImportTyped'
<1>0. /\ seed \in SeedState /\ Len(OwnersFile) \in Nat
      /\ seed.next \in 1 .. Len(OwnersFile) + 1
  BY FileAssumption DEF ImportTyped, SeedState
<1>1. CASE UNCHANGED seed
  BY <1>1 DEF ImportTyped, Pending, HandleNow, PairNow
<1>2. CASE SeedStart
  <2>1. seed.run + 1 \in 0 .. MaxRuns /\ 1 \in 1 .. Len(OwnersFile) + 1
    BY <1>0, <1>2, BoundsAssumption DEF SeedStart, SeedState
  <2>2. seed' \in SeedState
    BY <1>2, <2>1 DEF SeedStart, SeedState
  <2> QED
    BY <1>2, <2>2 DEF SeedStart, ImportTyped
<1>3. CASE SeedSkip
  <2>1. PICK n \in (seed.next + 1) .. (Len(OwnersFile) + 1) :
          seed' = [seed EXCEPT !.next = n,
                               !.accounted = @ \cup {OwnersFile[i] : i \in seed.next .. (n - 1)}]
    BY <1>3 DEF SeedSkip
  <2>2. n \in 1 .. Len(OwnersFile) + 1 /\ seed.pc = "lookup"
    BY <1>0, <1>3 DEF SeedSkip
  <2>3. {OwnersFile[i] : i \in seed.next .. (n - 1)} \subseteq Pairs
    <3>1. \A i \in seed.next .. (n - 1) : i \in 1 .. Len(OwnersFile)
      BY <1>0
    <3> QED
      BY <3>1, FileAssumption
  <2>4. /\ seed' \in SeedState /\ seed'.pc = "lookup" /\ seed'.next = n
        /\ seed'.accounted
             = seed.accounted \cup {OwnersFile[i] : i \in seed.next .. (n - 1)}
    BY <1>0, <2>1, <2>2, <2>3 DEF SeedState
  <2>5. ASSUME NEW i \in 1 .. Len(OwnersFile), i < n
        PROVE  OwnersFile[i] \in seed'.accounted
    <3>1. i < seed.next \/ i \in seed.next .. (n - 1)
      BY <1>0, <2>5
    <3> QED
      BY <2>4, <3>1 DEF ImportTyped
  <2> QED
    BY <2>4, <2>5 DEF ImportTyped
<1>4. CASE SeedRemembered
  <2>1. seed' = [seed EXCEPT !.pc = "grant"] /\ Pending /\ seed.resolved[HandleNow] # None
    BY <1>4 DEF SeedRemembered
  <2>2. /\ seed' \in SeedState /\ seed'.pc = "grant" /\ seed'.next = seed.next
        /\ seed'.resolved = seed.resolved /\ seed'.accounted = seed.accounted
    BY <1>0, <2>1 DEF SeedState
  <2> QED
    BY <2>1, <2>2 DEF ImportTyped, Pending, HandleNow, PairNow
<1>5. ASSUME NEW a \in NamedNow(HandleNow), SeedLookup,
             seed' = [seed EXCEPT !.pc = "grant", !.resolved[HandleNow] = a]
      PROVE  ImportTyped'
  <2>1. Pending /\ a \in People
    BY <1>5 DEF SeedLookup, NamedNow
  <2>2. HandleNow \in Handles
    BY <2>1, AtAPair
  <2>3. PICK h \in Handles : h = HandleNow
    BY <2>2
  <2>4. seed' = [seed EXCEPT !.pc = "grant", !.resolved = [seed.resolved EXCEPT ![h] = a]]
    BY <1>0, <1>5, <2>3 DEF SeedState
  <2>5. [seed.resolved EXCEPT ![h] = a] \in [Handles -> People \cup {None}]
        /\ [seed.resolved EXCEPT ![h] = a][h] = a
    BY <1>0, <2>1 DEF SeedState
  <2>6. /\ seed' \in SeedState /\ seed'.pc = "grant" /\ seed'.next = seed.next
        /\ seed'.resolved[h] = a /\ seed'.accounted = seed.accounted
    BY <1>0, <2>4, <2>5 DEF SeedState
  <2>7. HandleNow' = h
    BY <2>3, <2>6 DEF HandleNow, PairNow
  <2> QED
    BY <2>1, <2>6, <2>7, NobodyAssumption DEF ImportTyped, Pending
<1>6. CASE seed' = [seed EXCEPT !.pc = "idle"]
  <2>1. /\ seed' \in SeedState /\ seed'.pc = "idle" /\ seed'.next = seed.next
        /\ seed'.accounted = seed.accounted
    BY <1>0, <1>6 DEF SeedState
  <2> QED
    BY <2>1 DEF ImportTyped
<1>7. CASE SeedLookup
  <2>1. CASE seed' = [seed EXCEPT !.next = @ + 1, !.accounted = @ \cup {PairNow}]
    <3>1. Pending /\ seed.pc = "lookup"
      BY <1>7 DEF SeedLookup
    <3>2. seed' = [seed EXCEPT !.pc = "lookup", !.next = @ + 1, !.accounted = @ \cup {PairNow}]
      BY <1>0, <2>1, <3>1 DEF SeedState
    <3> QED
      BY <3>1, <3>2, PastThePair
  <2> QED
    BY <1>5, <1>6, <1>7, <2>1 DEF SeedLookup, Unavailable
<1>8. CASE SeedGrant
  <2>1. Pending /\ seed.pc = "grant"
    BY <1>8 DEF SeedGrant, ImportTyped
  <2>2. seed' = [seed EXCEPT !.pc = "lookup", !.next = @ + 1, !.accounted = @ \cup {PairNow}]
    BY <1>8 DEF SeedGrant
  <2> QED
    BY <2>1, <2>2, PastThePair
<1>9. CASE SeedFinish
  <2>1. seed' = [seed EXCEPT !.pc = "finished"] /\ ~Pending
    BY <1>9 DEF SeedFinish
  <2>2. /\ seed' \in SeedState /\ seed'.pc = "finished" /\ seed'.next = seed.next
        /\ seed'.accounted = seed.accounted
    BY <1>0, <2>1 DEF SeedState
  <2> QED
    BY <2>1, <2>2 DEF ImportTyped, Pending
<1> QED
  BY <1>1, <1>2, <1>3, <1>4, <1>6, <1>7, <1>8, <1>9 DEF Next, Person, SignIn, Rename, Manage,
     ClaimID, Add, Remove, Seed, SeedDies, vars

THEOREM TypedAlways == Spec => []Typed
<1>1. Init => Typed
  <2> SUFFICES ASSUME Init PROVE Typed
    OBVIOUS
  <2>1. PeopleTyped
    BY NamesAssumption DEF Init, PeopleTyped, Injective, Known
  <2>2. LogTyped
    BY DEF Init, LogTyped
  <2>3. Len(OwnersFile) \in Nat /\ 1 \in 1 .. Len(OwnersFile) + 1 /\ 0 \in 0 .. MaxRuns
    BY FileAssumption, BoundsAssumption
  <2>4. seed \in SeedState
    BY <2>3 DEF Init, SeedState
  <2>5. ImportTyped
    BY <2>3, <2>4 DEF Init, ImportTyped
  <2>6. claimed \subseteq Plugins
    BY PluginAssumption DEF Init
  <2> QED
    BY <2>1, <2>2, <2>5, <2>6 DEF Typed
<1>2. Typed /\ [Next]_vars => Typed'
  <2> SUFFICES ASSUME Typed, [Next]_vars PROVE Typed'
    OBVIOUS
  <2>1. claimed' \subseteq Plugins
    BY EveryChange DEF Typed, Change, Claimed, Added, Removed, Imported, vars
  <2> QED
    BY <2>1, PeopleStep, LogStep, ImportStep DEF Typed
<1> QED
  BY <1>1, <1>2, PTL DEF Spec

(***************************************************************************)
(* Every table has its type: an account is linked once and its row names a *)
(* handle, names at the provider are one person's, an audit row is about   *)
(* an account there is, and the import grants to somebody it found.        *)
(***************************************************************************)
THEOREM TypeCorrect == Spec => []TypeOK
<1>1. IInv /\ Typed => TypeOK
  BY DEF IInv, GrantsTyped, Typed, PeopleTyped, LogTyped, ImportTyped, TypeOK
<1> QED
  BY <1>1, IInvAlways, TypedAlways, PTL

(***************************************************************************)
(* An import that reports success has dealt with every owner in the file:  *)
(* each was granted, held the plugin already, or was reported; whatever    *)
(* file, whoever took which name meanwhile, and however often an earlier   *)
(* run died or the provider stopped answering (ErrProviderUnavailable).    *)
(***************************************************************************)
THEOREM SuccessIsComplete == Spec => []SuccessMeansImported
<1>1. Typed => SuccessMeansImported
  <2> SUFFICES ASSUME Typed, seed.pc = "finished", NEW i \in DOMAIN OwnersFile
               PROVE  OwnersFile[i] \in seed.accounted
    BY DEF SuccessMeansImported
  <2>1. /\ ~(seed.next <= Len(OwnersFile)) /\ i \in 1 .. Len(OwnersFile)
        /\ Len(OwnersFile) \in Nat /\ seed.next \in 1 .. Len(OwnersFile) + 1
    BY FileAssumption DEF Typed, ImportTyped, Pending, SeedState
  <2>2. i < seed.next
    BY <2>1
  <2> QED
    BY <2>1, <2>2 DEF Typed, ImportTyped
<1> QED
  BY <1>1, TypedAlways, PTL
=============================================================================

------------------------------ MODULE Holders -------------------------------
(***************************************************************************)
(* What ownership promises to the rest of the service: who holds a plugin, *)
(* whatever the role.  Holders come one at a time and go one at a time,    *)
(* and a plugin somebody holds is held ever after (ErrLastOwner).          *)
(* Publishing rests on this module; module Ownership implements it.        *)
(***************************************************************************)
CONSTANTS Plugins, Accounts
VARIABLE holders   \* holders[p]: the accounts with a plugin_owner row on p

Grant(p, a) ==
  /\ a \notin holders[p]
  /\ holders' = [holders EXCEPT ![p] = @ \cup {a}]

Revoke(p, a) ==
  /\ a \in holders[p]
  /\ holders[p] # {a}
  /\ holders' = [holders EXCEPT ![p] = @ \ {a}]

Init == holders \in [Plugins -> SUBSET Accounts]
Next == \E p \in Plugins, a \in Accounts : Grant(p, a) \/ Revoke(p, a)
Spec == Init /\ [][Next]_holders
=============================================================================

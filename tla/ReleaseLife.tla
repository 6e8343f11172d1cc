---------------------------- MODULE ReleaseLife -----------------------------
(***************************************************************************)
(* What the publish path and the review queue promise to everybody who     *)
(* reads the release table: where a release stands, and nothing else.      *)
(* A release waits for a reviewer or, for a plugin that serves one, goes   *)
(* live in its place; whichever it does, what waited before it is retired. *)
(* Module Publishing implements this; module Catalogue rests on it.        *)
(***************************************************************************)
CONSTANTS Plugins, Versions
VARIABLE state   \* state[<<p, v>>]: where version v of plugin p stands

Standing == {"absent", "pending", "approved", "rejected", "superseded"}
Names    == Plugins \X Versions

Serves(p, v) == state[<<p, v>>] = "approved"
Unused(p, v) == state[<<p, v>>] = "absent"

\* <<p, v>> now stands at new, and the rows of p that stood at one of the old are retired.
Move(p, v, new, old) ==
  state' = [id \in Names |->
              IF id = <<p, v>> THEN new
              ELSE IF id[1] = p /\ state[id] \in old THEN "superseded"
              ELSE state[id]]

\* A submission for a reviewer to look at.
Wait(p, v) == Unused(p, v) /\ Move(p, v, "pending", {"pending"})

\* A release that nobody looked at: only in the place of one that is live.
GoLive(p, v) ==
  /\ Unused(p, v)
  /\ \E w \in Versions : Serves(p, w)
  /\ Move(p, v, "approved", {"pending", "approved"})

Approve(p, v) == state[<<p, v>>] = "pending" /\ Move(p, v, "approved", {"approved"})
Reject(p, v)  == state[<<p, v>>] = "pending" /\ Move(p, v, "rejected", {})

Init ==
  /\ state \in [Names -> {"absent", "approved"}]
  /\ \A p \in Plugins : \A v, w \in Versions : Serves(p, v) /\ Serves(p, w) => v = w

Next ==
  \E p \in Plugins, v \in Versions :
    Wait(p, v) \/ GoLive(p, v) \/ Approve(p, v) \/ Reject(p, v)

Spec == Init /\ [][Next]_state
=============================================================================

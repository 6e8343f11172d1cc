---------------------------- MODULE SessionRows -----------------------------
(***************************************************************************)
(* What sign-in promises to the requests that come with a session: an      *)
(* account is made once and switched off for good; a session starts for an *)
(* account there is, which may have been switched off a moment before; and *)
(* its row stays as it is until it has expired, or its holder ends it.     *)
(* Module SignIn implements this; module Access rests on it.               *)
(***************************************************************************)
EXTENDS Naturals

CONSTANTS People, Sessions, SessionTTL, MaxClock, None
VARIABLES
  account,   \* account[a]: "none", "active" or "disabled"
  session,   \* the session table
  issued,    \* issued[s]: whose session s is, or was; None until it starts
  clock

Row == [account : People, expires : Nat, revoked : BOOLEAN]

\* A session is started, and whichever rows have expired by now are gone.
Swept(rows) ==
  [s \in Sessions |-> IF rows[s] # None /\ rows[s].expires < clock THEN None ELSE rows[s]]

Start(s, a) ==
  /\ issued[s] = None
  /\ account[a] # "none"
  /\ session' = [Swept(session) EXCEPT ![s] =
                   [account |-> a, expires |-> clock + SessionTTL, revoked |-> FALSE]]
  /\ issued'  = [issued EXCEPT ![s] = a]
  /\ UNCHANGED <<account, clock>>

Register(a) ==
  /\ account[a] = "none"
  /\ account' = [account EXCEPT ![a] = "active"]
  /\ UNCHANGED <<session, issued, clock>>

SwitchOff(a) ==
  /\ account[a] = "active"
  /\ account' = [account EXCEPT ![a] = "disabled"]
  /\ UNCHANGED <<session, issued, clock>>

Pass ==
  /\ clock < MaxClock
  /\ clock' = clock + 1
  /\ UNCHANGED <<account, session, issued>>

Init ==
  /\ account = [a \in People |-> "none"]
  /\ session = [s \in Sessions |-> None]
  /\ issued  = [s \in Sessions |-> None]
  /\ clock   = 0

Next ==
  \/ \E a \in People : Register(a) \/ SwitchOff(a) \/ \E s \in Sessions : Start(s, a)
  \/ Pass

Spec == Init /\ [][Next]_<<account, session, issued, clock>>
=============================================================================

------------------------------- MODULE SignIn -------------------------------
(***************************************************************************)
(* How a browser comes to hold a session: internal/auth (OAuth, Sessions)  *)
(* and the login handlers of internal/api/auth.go.                         *)
(*                                                                         *)
(* A sign-in is a flow row, a visit to the provider, and a callback that   *)
(* goes through three transactions with a call to the provider between     *)
(* them: the flow is consumed, the account is found or made, the session   *)
(* is recorded.  Other callbacks, the clock and the operator run meanwhile.*)
(*                                                                         *)
(* A secret is 32 random bytes, so a state, a verifier and a session name  *)
(* are values drawn once and never again: a flow stands for its state and  *)
(* verifier, and a session for its secret and its id.                      *)
(***************************************************************************)
EXTENDS Naturals

CONSTANTS
  People,      \* subjects at the providers; an account is the person behind it
  Kinds,       \* identity providers
  KindOf,      \* KindOf[a]: the provider person a has an identity at
  Browsers,
  Flows,       \* login flows
  Sessions,    \* session rows
  Callbacks,   \* slots for callbacks in flight
  FlowTTL, SessionTTL,
  MaxClock,    \* bound: the clock stops here
  None

ASSUME SignInAssumption ==
  /\ KindOf \in [People -> Kinds]
  /\ FlowTTL \in Nat /\ SessionTTL \in Nat /\ MaxClock \in Nat
  /\ None \notin People \cup Kinds \cup Browsers \cup Flows \cup Sessions

VARIABLES
  account,   \* the account table: "none", "active" or "disabled", by person
  flow,      \* the oauth_flow table
  begun,     \* history: which browser began each flow, and when
  cookie,    \* the state cookie of each browser: a flow, or None
  codes,     \* external: the codes a provider has issued and nobody has exchanged
  session,   \* the session table
  started,   \* history: the session.start audit rows, and the flow behind each
  callback,  \* callbacks in flight
  clock

vars == <<account, flow, begun, cookie, codes, session, started, callback, clock>>

Standing == {"none", "active", "disabled"}
FlowRow  == [kind : Kinds, expires : Nat]
Code     == Flows \X People   \* issued for a flow's challenge, to a person
SessionRow == [account : People, expires : Nat, revoked : BOOLEAN]

\* History: a flow that began, and a session that started.
Beginning == [browser : Browsers, at : Nat]
Start     == [flow : Flows, browser : Browsers, account : People, at : Nat]

ASSUME NoneIsNoRow == None \notin FlowRow \cup SessionRow \cup Beginning \cup Start

\* What expires now is good still.
Past(expires) == expires < clock

\* rows without those that have expired.
NothingSwept(rows) == rows
SweepTooSoon(rows) ==
  [x \in DOMAIN rows |-> IF rows[x] # None /\ rows[x].expires <= clock THEN None
                                                                       ELSE rows[x]]
Sweep(rows) ==
  [x \in DOMAIN rows |-> IF rows[x] # None /\ Past(rows[x].expires) THEN None
                                                                    ELSE rows[x]]

-----------------------------------------------------------------------------
(* The browser and the provider.                                           *)

(***************************************************************************)
(* Begin: expired flows are swept, a flow is recorded, and its state goes  *)
(* to the browser, in a cookie that replaces the one of an earlier flow.   *)
(***************************************************************************)
SweepFlows == Sweep(flow)

Begin(b, f, k) ==
  /\ begun[f] = None
  /\ flow'   = [SweepFlows EXCEPT ![f] = [kind |-> k, expires |-> clock + FlowTTL]]
  /\ begun'  = [begun EXCEPT ![f] = [browser |-> b, at |-> clock]]
  /\ cookie' = [cookie EXCEPT ![b] = f]
  /\ UNCHANGED <<account, codes, session, started, callback, clock>>

\* External: a person agrees on the provider's consent screen, and a code is issued.
Consent(f, a) ==
  /\ flow[f] # None
  /\ flow[f].kind = KindOf[a]
  /\ codes' = codes \cup {<<f, a>>}
  /\ UNCHANGED <<account, flow, begun, cookie, session, started, callback, clock>>

Problems == {"mismatch", "unknown", "rejected", "unavailable", "disabled"}
Phases   == {"idle", "flow", "exchange", "account", "session", "answered"}

ASSUME NoneIsNoAnswer == None \notin Problems \cup {"signed_in"}

CallbackState ==
  [pc      : Phases,
   browser : Browsers \cup {None},
   kind    : Kinds \cup {None},     \* of the path it came to
   state   : Flows \cup {None},
   code    : Code \cup {None},
   account : People \cup {None},    \* whom the provider named
   barred  : BOOLEAN,               \* history: the account was disabled when it came
   answer  : Problems \cup {"signed_in", None}]

NoCallback == [pc |-> "idle", browser |-> None, kind |-> None, state |-> None,
               code |-> None, account |-> None, barred |-> FALSE, answer |-> None]

At(c, pc) == callback[c].pc = pc
Go(c, pc) == callback' = [callback EXCEPT ![c].pc = pc]

Answered(b, barred, answer) ==
  [NoCallback EXCEPT !.pc = "answered", !.browser = b, !.barred = barred, !.answer = answer]

Answer(c, answer) ==
  callback' = [callback EXCEPT ![c] = Answered(@.browser, @.barred, answer)]

\* The state in the link is the state in the cookie of the browser that followed it.
AnyBrowserWill(b, f) == TRUE
SameBrowser(b, f) == cookie[b] = f

(***************************************************************************)
(* The browser comes back with a state and a code.  It is turned away      *)
(* unless the flow began in it: before anything is looked up.              *)
(***************************************************************************)
Callback(c, b, k, code, f) ==
  /\ At(c, "idle")
  /\ begun[f] # None
  /\ LET barred == account[code[2]] = "disabled" IN
     callback' = [callback EXCEPT ![c] =
       IF SameBrowser(b, f)
       THEN [NoCallback EXCEPT !.pc = "flow", !.browser = b, !.kind = k, !.state = f,
                               !.code = code, !.barred = barred]
       ELSE Answered(b, barred, "mismatch")]
  /\ UNCHANGED <<account, flow, begun, cookie, codes, session, started, clock>>

-----------------------------------------------------------------------------
(* A callback in flight.                                                   *)

\* DeleteOAuthFlow.
FlowKept(f) == flow
WithoutFlow(f) == [flow EXCEPT ![f] = None]

(***************************************************************************)
(* takeFlow: the row is read and deleted, and only then judged: an expired *)
(* flow, or one of another provider, is spent all the same.                *)
(***************************************************************************)
TakeFlow(c) ==
  LET f == callback[c].state  row == flow[f] IN
  /\ At(c, "flow")
  /\ flow' = WithoutFlow(f)
  /\ IF row = None \/ Past(row.expires) \/ row.kind # callback[c].kind
     THEN Answer(c, "unknown")
     ELSE Go(c, "exchange")
  /\ UNCHANGED <<account, begun, cookie, codes, session, started, clock>>

\* What Complete asks of the provider's answer: ErrNoSubject.
AnySubjectWill(subject) == TRUE
HasSubject(subject) == subject # None

(***************************************************************************)
(* Exchange: the provider names the person the code was issued to, once,   *)
(* and only for the verifier whose challenge it was issued for; or answers *)
(* with no subject; or cannot be asked within its ten seconds.             *)
(***************************************************************************)
ProviderSilent(c) == FALSE
ProviderAnswers(c) == At(c, "exchange")

Exchange(c) ==
  LET code == callback[c].code IN
  /\ ProviderAnswers(c)
  /\ \/ /\ code \in codes
        /\ code[1] = callback[c].state
        /\ codes' = codes \ {code}
        /\ \E subject \in {code[2], None} :
             IF HasSubject(subject)
             THEN callback' = [callback EXCEPT ![c] = [@ EXCEPT !.pc = "account",
                                                                !.account = subject]]
             ELSE Answer(c, "unavailable")
     \/ /\ code \notin codes \/ code[1] # callback[c].state
        /\ Answer(c, "rejected")
        /\ UNCHANGED codes
     \/ /\ Answer(c, "unavailable")
        /\ UNCHANGED codes
  /\ UNCHANGED <<account, flow, begun, cookie, session, started, clock>>

\* existing.DisabledAt.
AnybodyMayEnter(a) == TRUE
MayEnter(a) == account[a] # "disabled"

(***************************************************************************)
(* resolveAccount: the account behind the subject is refreshed, or made,   *)
(* or refused.  (What a refresh writes is in module Ownership.)            *)
(***************************************************************************)
ResolveAccount(c) ==
  LET a == callback[c].account IN
  /\ At(c, "account")
  /\ IF MayEnter(a)
     THEN /\ account' = [account EXCEPT ![a] = IF @ = "none" THEN "active" ELSE @]
          /\ Go(c, "session")
     ELSE /\ Answer(c, "disabled")
          /\ UNCHANGED account
  /\ UNCHANGED <<flow, begun, cookie, codes, session, started, clock>>

SweepSessions == Sweep(session)

\* Sessions.Create: a transaction of its own, which asks nothing about the account.
CreateSession(c, s) ==
  /\ At(c, "session")
  /\ started[s] = None
  /\ session' = [SweepSessions EXCEPT ![s] =
                   [account |-> callback[c].account, expires |-> clock + SessionTTL,
                    revoked |-> FALSE]]
  /\ started' = [started EXCEPT ![s] =
                   [flow |-> callback[c].state, browser |-> callback[c].browser,
                    account |-> callback[c].account, at |-> clock]]
  /\ Answer(c, "signed_in")
  /\ UNCHANGED <<account, flow, begun, cookie, codes, clock>>

\* The answer reaches the browser; a sign-in that succeeded takes the state cookie back.
Finish(c) ==
  /\ At(c, "answered")
  /\ callback' = [callback EXCEPT ![c] = NoCallback]
  /\ cookie' = IF callback[c].answer = "signed_in"
               THEN [cookie EXCEPT ![callback[c].browser] = None]
               ELSE cookie
  /\ UNCHANGED <<account, flow, begun, codes, session, started, clock>>

\* The browser goes away, the process stops, or the answer is lost.
Lose(c) ==
  /\ ~At(c, "idle")
  /\ callback' = [callback EXCEPT ![c] = NoCallback]
  /\ UNCHANGED <<account, flow, begun, cookie, codes, session, started, clock>>

\* External: the operator sets disabled_at, which nothing in the service clears.
Disable(a) ==
  /\ account[a] = "active"
  /\ account' = [account EXCEPT ![a] = "disabled"]
  /\ UNCHANGED <<flow, begun, cookie, codes, session, started, callback, clock>>

Tick ==
  /\ clock < MaxClock
  /\ clock' = clock + 1
  /\ UNCHANGED <<account, flow, begun, cookie, codes, session, started, callback>>

-----------------------------------------------------------------------------
Init ==
  /\ account  = [a \in People |-> "none"]
  /\ flow     = [f \in Flows |-> None]
  /\ begun    = [f \in Flows |-> None]
  /\ cookie   = [b \in Browsers |-> None]
  /\ codes    = {}
  /\ session  = [s \in Sessions |-> None]
  /\ started  = [s \in Sessions |-> None]
  /\ callback = [c \in Callbacks |-> NoCallback]
  /\ clock    = 0

Login(c) ==
  \/ TakeFlow(c)
  \/ Exchange(c)
  \/ ResolveAccount(c)
  \/ \E s \in Sessions : CreateSession(c, s)

Next ==
  \/ \E b \in Browsers, f \in Flows, k \in Kinds : Begin(b, f, k)
  \/ \E f \in Flows, a \in People : Consent(f, a)
  \/ \E c \in Callbacks, b \in Browsers, k \in Kinds, code \in codes, f \in Flows :
       Callback(c, b, k, code, f)
  \/ \E c \in Callbacks : Login(c) \/ Finish(c) \/ Lose(c)
  \/ \E a \in People : Disable(a)
  \/ Tick

Spec == Init /\ [][Next]_vars

(***************************************************************************)
(* A transaction ends, and the provider answers or its client gives up.    *)
(* Nothing is owed by a browser, a person or the operator.                 *)
(***************************************************************************)
FairSpec == Spec /\ \A c \in Callbacks : WF_vars(Login(c))

-----------------------------------------------------------------------------
(* Properties.                                                             *)

\* Every table has its type, and nobody without a subject gets as far as an account.
TypeOK ==
  /\ account \in [People -> Standing]
  /\ flow \in [Flows -> FlowRow \cup {None}]
  /\ begun \in [Flows -> Beginning \cup {None}]
  /\ cookie \in [Browsers -> Flows \cup {None}]
  /\ codes \subseteq Code
  /\ session \in [Sessions -> SessionRow \cup {None}]
  /\ started \in [Sessions -> Start \cup {None}]
  /\ callback \in [Callbacks -> CallbackState]
  /\ \A c \in Callbacks :
       callback[c].pc \in {"account", "session"} => callback[c].account # None
  /\ clock \in 0 .. MaxClock

(***************************************************************************)
(* A sign-in ends in the browser it began in, however many flows, browsers *)
(* and callbacks are about: a link with somebody else's state and code     *)
(* followed in another browser signs nobody in there (ErrStateMismatch).   *)
(***************************************************************************)
SignInStaysInItsBrowser ==
  \A s \in Sessions :
    started[s] # None => started[s].browser = begun[started[s].flow].browser

(***************************************************************************)
(* A flow is good for one session at most: a callback that is repeated, or *)
(* two that race with a code each, find the row gone (takeFlow).           *)
(***************************************************************************)
OneSessionPerFlow ==
  \A s, t \in Sessions :
    started[s] # None /\ started[t] # None /\ started[s].flow = started[t].flow => s = t

(***************************************************************************)
(* Who was switched off before the callback came is not signed in by it,   *)
(* whatever happens on the way; and nobody has a session and no account.   *)
(***************************************************************************)
SwitchedOffStaysOut ==
  /\ \A c \in Callbacks :
       callback[c].answer = "signed_in" => ~callback[c].barred
  /\ \A s \in Sessions : started[s] # None => account[started[s].account] # "none"

(***************************************************************************)
(* Abandoned sign-ins and dead sessions do not pile up: whatever had       *)
(* expired when the latest flow began, or the latest session started, has  *)
(* no row any more (DeleteExpiredOAuthFlows, DeleteExpiredSessions).       *)
(***************************************************************************)
ExpiredRowsAreSwept ==
  /\ \A f, g \in Flows :
       begun[f] # None /\ flow[g] # None => flow[g].expires >= begun[f].at
  /\ \A s, t \in Sessions :
       started[s] # None /\ session[t] # None => session[t].expires >= started[s].at

(***************************************************************************)
(* Sign-in keeps the promise the credentials rest on (module SessionRows): *)
(* however callbacks interleave and fail between their transactions, an    *)
(* account is made once and sessions start one at a time, for accounts     *)
(* there are, with rows nobody rewrites.                                   *)
(***************************************************************************)
Promise == INSTANCE SessionRows WITH
             issued <- [s \in Sessions |-> IF started[s] = None THEN None
                                                               ELSE started[s].account]

KeepsSessionPromise == Promise!Spec

(***************************************************************************)
(* A callback is answered in the end, also while the provider is silent.   *)
(***************************************************************************)
EverySignInEnds ==
  \A c \in Callbacks : At(c, "flow") ~> (At(c, "answered") \/ At(c, "idle"))
=============================================================================

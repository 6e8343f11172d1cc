------------------------------- MODULE Access -------------------------------
(***************************************************************************)
(* What a request may do: the credentials of internal/auth (Sessions,      *)
(* Tokens, Authenticator), the access declarations and the middleware of   *)
(* internal/api (routes.go, security.go), the permissions of               *)
(* internal/authz, and the forms that mint and revoke tokens.              *)
(*                                                                         *)
(* A request arrives with what its sender has.  Its credential is read     *)
(* from the database at one moment, judged, and acted on at a later one.   *)
(* Other requests run between, and sign-ins, the clock and the operator,   *)
(* in the ways module SessionRows allows.  Who may do something to one     *)
(* plugin is asked again, in the transaction that does it (modules         *)
(* Publishing and Ownership).                                              *)
(*                                                                         *)
(* Left out: last_seen_at and last_used_at, which nothing decides by, and  *)
(* a token's expiry, which no form sets.                                   *)
(***************************************************************************)
EXTENDS Naturals, Sequences

CONSTANTS
  People,      \* accounts, each named by the person behind it
  Sessions,    \* session rows
  Tokens,      \* personal access tokens
  Plugins,
  Reviewers,   \* people whose GitHub handle the operator configured
  Sent,        \* the requests senders make, if they have what goes with them
  Asked,       \* what mint forms ask for: <<scopes, plugin or None>>
  Slots,       \* slots for requests in flight
  SessionTTL,
  MaxClock,    \* bound: the clock stops here
  None

VARIABLES
  account,   \* the account table: "none", "active" or "disabled", by person
  session,   \* the session table
  issued,    \* history: whose each session is, or was
  clock,
  token,     \* the pat and pat_scope tables
  minted,    \* history: the request that minted each token
  ends,      \* the session.end and token.revoke audit rows: whose act, in order
  request    \* requests in flight

signIn == <<account, issued, clock>>
vars   == <<signIn, session, token, minted, ends, request>>

SignIn == INSTANCE SessionRows

-----------------------------------------------------------------------------
(* What each operation declares.                                           *)

\* The operations that differ in what they declare, or in what they do here.
Operations == {"directory", "publish", "claim", "account", "review",
               "mint", "revoke", "logout"}

Permission ==
  [publish |-> "plugin.publish", claim |-> "plugin.claim", account |-> "token.read",
   review |-> "release.review", mint |-> "token.mint", revoke |-> "token.revoke",
   logout |-> "session.end"]

Scopes == {"plugin:read", "plugin:publish", "plugin:manage"}

\* The scopes that satisfy a permission; no scope carries one of the floor.
ScopesFor(permission) ==
  CASE permission = "plugin.read"    -> {"plugin:read"}
    [] permission = "plugin.publish" -> {"plugin:publish"}
    [] permission = "plugin.manage"  -> {"plugin:manage"}
    [] OTHER -> {}

Satisfies(permission, held) == ScopesFor(permission) \cap held # {}

Public       == {"directory"}
Floor        == Operations \ {"directory", "publish"}
OnPlugin     == {"publish"}
ReviewerOnly == {"review"}
Forms        == {"mint", "revoke"}   \* posted from a page of the account surface

\* What a request carries: a bearer token, a cookie, the page its form came from, a plugin.
Message == [op : Operations, bearer : Tokens \cup {None}, cookie : Sessions \cup {None},
            form : Sessions \cup {None}, plugin : Plugins \cup {None}]

ASSUME AccessAssumption ==
  /\ Sent \subseteq Message
  /\ \A m \in Sent : (m.op \in OnPlugin) = (m.plugin # None)
  /\ Reviewers \subseteq People
  /\ Asked \subseteq (SUBSET (Scopes \cup {"admin"})) \X (Plugins \cup {None})
  /\ None \notin Tokens \cup Plugins \cup Operations
  /\ Tokens \cap Sessions = {}
  /\ SessionTTL \in Nat /\ MaxClock \in Nat

-----------------------------------------------------------------------------
(* Credentials.                                                            *)

TokenRow  == [account : People, scopes : SUBSET Scopes, pin : Plugins \cup {None},
              revoked : BOOLEAN]

Principal == [account : People, session : Sessions \cup {None},
              token : Tokens \cup {None}, scopes : SUBSET Scopes,
              pin : Plugins \cup {None}]

\* History: the form a token was minted by.
Mintage == [session : Sessions, form : Sessions, scopes : SUBSET Scopes,
            pin : Plugins \cup {None}]

ASSUME NoneIsNoRow ==
  None \notin People \cup Sessions \cup SignIn!Row \cup TokenRow \cup Mintage
                     \cup Message \cup Principal

Enabled(a) == account[a] = "active"

\* Sessions.Resolve, on the row GetSessionByTokenHash finds.
LiveUnlessRevoked(s) == session[s] # None /\ ~session[s].revoked
LiveSession(s) ==
  /\ session[s] # None
  /\ ~session[s].revoked
  /\ Enabled(session[s].account)
  /\ session[s].expires >= clock

\* Tokens.Resolve, on the row GetPATByTokenHash finds.
LiveToken(t) ==
  /\ token[t] # None
  /\ ~token[t].revoked
  /\ Enabled(token[t].account)

OfSession(s) == [account |-> session[s].account, session |-> s, token |-> None,
                 scopes |-> {}, pin |-> None]

\* The scopes are a read of their own, of rows written with the token and never after.
OfToken(t) == [account |-> token[t].account, session |-> None, token |-> t,
               scopes |-> token[t].scopes, pin |-> token[t].pin]

BySession(s) == IF s # None /\ LiveSession(s) THEN OfSession(s) ELSE None

\* Authenticator.Resolve: a bearer token is the credential whenever there is one.
FirstThatWorks(bearer, s) ==
  IF bearer # None /\ LiveToken(bearer) THEN OfToken(bearer) ELSE BySession(s)
ByCredential(bearer, s) ==
  IF bearer = None THEN BySession(s)
  ELSE IF LiveToken(bearer) THEN OfToken(bearer) ELSE None

\* The CSRF token of a page is the keyed hash of the id of the session it was made for.
SameAccount(s, form) == form # None /\ issued[s] = issued[form]
CheckCSRF(s, form) == form # None /\ form = s

-----------------------------------------------------------------------------
(* The middleware.                                                         *)

RequestState ==
  [pc      : {"idle", "resolve", "act"},
   message : Message \cup {None},
   dead    : BOOLEAN,                  \* history: its credential died before it was looked up
   as      : Principal \cup {None}]

NoRequest == [pc |-> "idle", message |-> None, dead |-> FALSE, as |-> None]

Issued == {s \in Sessions : issued[s] # None}
Minted == {t \in Tokens : minted[t] # None}

\* The credential a request stands on: the bearer token, except on a public page.
Bearer(m) == IF m.op \in Public THEN None ELSE m.bearer

\* History: what somebody did, or time did, to a credential.
DeadSession(s) ==
  \/ session[s] = None
  \/ session[s].revoked
  \/ clock > session[s].expires
  \/ account[issued[s]] = "disabled"

DeadToken(t) == token[t].revoked \/ account[token[t].account] = "disabled"

Dead(m) ==
  IF Bearer(m) # None THEN DeadToken(m.bearer) ELSE m.cookie # None /\ DeadSession(m.cookie)

(***************************************************************************)
(* A request arrives, with a cookie, a bearer token, both or neither.  (A  *)
(* token in the query string is refused before anything is looked up.)     *)
(***************************************************************************)
Arrive(r, m) ==
  /\ request[r].pc = "idle"
  /\ {m.cookie, m.form} \subseteq Issued \cup {None}
  /\ m.bearer \in Minted \cup {None}
  /\ request' = [request EXCEPT ![r] =
       [pc |-> "resolve", message |-> m, as |-> None, dead |-> Dead(m)]]
  /\ UNCHANGED <<signIn, session, token, minted, ends>>

\* deny: the floor before the scopes.
TokenMay(op, who) ==
  who.token # None => op \notin Floor /\ Satisfies(Permission[op], who.scopes)

\* denyPlugin: a pinned token acts on its plugin, and on nothing else.
PinMay(op, who, p) ==
  who.pin # None => op \in OnPlugin /\ who.pin = p

\* allowReviewer: asked of the account, on every request.
ReviewerMay(op, who) == op \in ReviewerOnly => who.account \in Reviewers

\* withBrowserSession: a public page knows its reader by the cookie, and refuses nobody.
Identified(m) ==
  IF m.op \in Public THEN BySession(m.cookie) ELSE ByCredential(m.bearer, m.cookie)

Admitted(m, who) ==
  \/ m.op \in Public
  \/ /\ who # None
     /\ TokenMay(m.op, who)
     /\ PinMay(m.op, who, m.plugin)
     /\ ReviewerMay(m.op, who)

\* authMiddleware: one read of the credential, and the handler or a refusal.
Resolve(r) ==
  LET m == request[r].message  who == Identified(m) IN
  /\ request[r].pc = "resolve"
  /\ request' = [request EXCEPT ![r] =
                   IF Admitted(m, who)
                   THEN [@ EXCEPT !.pc = "act", !.as = who, !.dead = request[r].dead \/ Dead(m)]
                   ELSE NoRequest]
  /\ UNCHANGED <<signIn, session, token, minted, ends>>

-----------------------------------------------------------------------------
(* The handlers.                                                           *)

By(r)   == request[r].as
Done(r) == request' = [request EXCEPT ![r] = NoRequest]
Acts(r, op) == request[r].pc = "act" /\ request[r].message.op = op

\* requireFormPrincipal.
FormHolds(r) == By(r).session # None /\ CheckCSRF(By(r).session, request[r].message.form)

UnknownScopesToo(asked) == asked # {}
KnownScopes(asked) == asked # {} /\ asked \subseteq Scopes

\* Tokens.Mint: the token, its scopes and its audit row, in one transaction.
Mint(r, t, asked, pin) ==
  /\ Acts(r, "mint")
  /\ FormHolds(r)
  /\ KnownScopes(asked)
  /\ minted[t] = None
  /\ token'  = [token EXCEPT ![t] = [account |-> By(r).account, scopes |-> asked,
                                     pin |-> pin, revoked |-> FALSE]]
  /\ minted' = [minted EXCEPT ![t] = [session |-> By(r).session, form |-> request[r].message.form,
                                      scopes |-> asked, pin |-> pin]]
  /\ Done(r)
  /\ UNCHANGED <<signIn, session, ends>>

\* The WHERE of RevokePAT.
Revocable(t, a) == token[t].account = a /\ ~token[t].revoked

\* Tokens.Revoke.
Revoke(r, t) ==
  /\ Acts(r, "revoke")
  /\ FormHolds(r)
  /\ Revocable(t, By(r).account)
  /\ token' = [token EXCEPT ![t].revoked = TRUE]
  /\ ends'  = [ends EXCEPT ![t] = Append(@, By(r).account)]
  /\ Done(r)
  /\ UNCHANGED <<signIn, session, minted>>

\* The WHERE of RevokeSession.
EndableAgain(s) == session[s] # None
Endable(s) == session[s] # None /\ ~session[s].revoked

\* Sessions.Revoke: a session that has ended already is not ended again.
EndSession(r) ==
  LET s == By(r).session IN
  /\ Acts(r, "logout")
  /\ IF Endable(s)
     THEN /\ session' = [session EXCEPT ![s].revoked = TRUE]
          /\ ends' = [ends EXCEPT ![s] = Append(@, By(r).account)]
     ELSE UNCHANGED <<session, ends>>
  /\ Done(r)
  /\ UNCHANGED <<signIn, token, minted>>

(***************************************************************************)
(* The handler refuses a form that is not of its session, scopes it does   *)
(* not know, or a token it finds nowhere; or the operation does nothing to *)
(* the tables of this module; or the request dies.                         *)
(***************************************************************************)
Leave(r) ==
  /\ request[r].pc # "idle"
  /\ Done(r)
  /\ UNCHANGED <<signIn, session, token, minted, ends>>

-----------------------------------------------------------------------------
Init ==
  /\ SignIn!Init
  /\ token   = [t \in Tokens |-> None]
  /\ minted  = [t \in Tokens |-> None]
  /\ ends    = [x \in Sessions \cup Tokens |-> <<>>]
  /\ request = [r \in Slots |-> NoRequest]

Handle(r) ==
  \/ Resolve(r)
  \/ \E t \in Tokens, asked \in Asked : Mint(r, t, asked[1], asked[2])
  \/ \E t \in Minted : Revoke(r, t)
  \/ EndSession(r)
  \/ Leave(r)

SignsIn == SignIn!Next /\ UNCHANGED <<token, minted, ends, request>>

Next ==
  \/ \E r \in Slots, m \in Sent : Arrive(r, m)
  \/ \E r \in Slots : Handle(r)
  \/ SignsIn

Spec == Init /\ [][Next]_vars

-----------------------------------------------------------------------------
(* Properties.                                                             *)

\* Every table has its type, and a handler that runs has its principal.
TypeOK ==
  /\ account \in [People -> {"none", "active", "disabled"}]
  /\ session \in [Sessions -> SignIn!Row \cup {None}]
  /\ issued \in [Sessions -> People \cup {None}]
  /\ clock \in 0 .. MaxClock
  /\ token \in [Tokens -> TokenRow \cup {None}]
  /\ minted \in [Tokens -> Mintage \cup {None}]
  /\ \A t \in Tokens : token[t] # None <=> minted[t] # None
  /\ ends \in [Sessions \cup Tokens -> Seq(People)]
  /\ request \in [Slots -> RequestState]
  /\ \A r \in Slots :
       request[r].pc = "act" /\ request[r].message.op \notin Public => request[r].as # None

(***************************************************************************)
(* A session that was ended, or had expired, a token that was revoked, and *)
(* any credential of an account that was switched off, does nothing for a  *)
(* request that comes after, or whose credential died between its arrival  *)
(* and the look-up: also a session recorded for an account that was        *)
(* switched off while its sign-in was on the way.                          *)
(***************************************************************************)
DeadCredentialsAreRefused ==
  \A r \in Slots :
    request[r].dead /\ request[r].pc = "act" =>
      request[r].message.op \in Public /\ request[r].as = None

(***************************************************************************)
(* A token does less than its account, always: it reaches no operation of  *)
(* the floor, and the others only with a scope and on the plugin it was    *)
(* minted with; and it came from a form of a session of that account, so   *)
(* that no token ever led to another.                                      *)
(***************************************************************************)
TokensAreContained ==
  /\ \A r \in Slots :
       LET who == request[r].as  m == request[r].message IN
       request[r].pc = "act" /\ who # None /\ who.token # None =>
         /\ m.op \notin Floor
         /\ minted[who.token].scopes \cap ScopesFor(Permission[m.op]) # {}
         /\ minted[who.token].pin \in {None, m.plugin}
  /\ \A t \in Minted :
       /\ minted[t].form = minted[t].session
       /\ issued[minted[t].session] = token[t].account

(***************************************************************************)
(* A request acts as what it presented and nothing else: one that brings a *)
(* bearer token is never taken for the browser whose cookie it carries     *)
(* too, and a public page never takes a token for a reader.                *)
(***************************************************************************)
RequestsActAsPresented ==
  \A r \in Slots :
    LET who == request[r].as  m == request[r].message IN
    request[r].pc = "act" /\ who # None =>
      IF Bearer(m) # None
      THEN who.token = m.bearer /\ who.session = None
      ELSE who.session = m.cookie /\ who.token = None

(***************************************************************************)
(* A session ends and a token is revoked once, by its own account, and the *)
(* audit log has one row for it, also when two requests to end it are in   *)
(* flight together.                                                        *)
(***************************************************************************)
EndingsAreRecordedOnce ==
  /\ \A t \in Minted :
       ends[t] = IF token[t].revoked THEN <<token[t].account>> ELSE <<>>
  /\ \A s \in Issued :
       /\ Len(ends[s]) <= 1
       /\ session[s] # None =>
            ends[s] = IF session[s].revoked THEN <<session[s].account>> ELSE <<>>
=============================================================================

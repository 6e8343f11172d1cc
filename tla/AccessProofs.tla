---------------------------- MODULE AccessProofs -----------------------------
(***************************************************************************)
(* Theorems about Access, for every set of people, sessions, tokens and    *)
(* plugins, whatever requests are sent, and any number of them in flight.  *)
(***************************************************************************)
EXTENDS Access, TLAPS

-----------------------------------------------------------------------------
(* What a step does to a session, to a token and to a request.             *)

\* As module SessionRows: a session is swept, or starts, or neither.
SessionKept(s) == UNCHANGED <<session[s], issued[s], ends[s]>>
SessionSwept(s) == session'[s] = None /\ UNCHANGED <<issued[s], ends[s]>>
SessionStarts(s) ==
  \E a \in People :
    /\ issued[s] = None
    /\ account[a] # "none"
    /\ issued'[s] = a
    /\ session'[s] = [account |-> a, expires |-> clock + SessionTTL, revoked |-> FALSE]
    /\ ends'[s] = ends[s]
SessionEnds(s) ==
  \E r \in Slots :
    /\ EndSession(r)
    /\ s = By(r).session
    /\ session[s] # None /\ ~session[s].revoked
    /\ session'[s] = [session[s] EXCEPT !.revoked = TRUE]
    /\ issued'[s] = issued[s]
    /\ ends'[s] = Append(ends[s], By(r).account)

\* Somebody has an account, in good standing or not; and it is not taken back.
StandsOn == \A a \in People :
  /\ account[a] = "disabled" => account'[a] = "disabled"
  /\ account[a] # "none" => account'[a] # "none"

\* What sign-in does, as promised.
LEMMA SignInStep ==
  ASSUME TypeOK, SignIn!Next, UNCHANGED ends
  PROVE  /\ \A s \in Sessions : SessionKept(s) \/ SessionSwept(s) \/ SessionStarts(s)
         /\ StandsOn
         /\ clock' >= clock
         /\ account' \in [People -> {"none", "active", "disabled"}]
         /\ session' \in [Sessions -> SignIn!Row \cup {None}]
         /\ issued' \in [Sessions -> People \cup {None}]
         /\ clock' \in 0 .. MaxClock
<1>0. clock \in Nat /\ MaxClock \in Nat /\ clock + SessionTTL \in Nat
  BY AccessAssumption DEF TypeOK
<1>1. ASSUME NEW a \in People, SignIn!Register(a) \/ SignIn!SwitchOff(a)
      PROVE  /\ UNCHANGED <<session, issued, clock>>
             /\ StandsOn
             /\ account' \in [People -> {"none", "active", "disabled"}]
  BY <1>1 DEF SignIn!Register, SignIn!SwitchOff, StandsOn, TypeOK
<1>2. ASSUME SignIn!Pass
      PROVE  UNCHANGED <<session, issued, account>> /\ clock' = clock + 1 /\ clock < MaxClock
  BY <1>2 DEF SignIn!Pass
<1>3. ASSUME NEW a \in People, NEW t \in Sessions, SignIn!Start(t, a)
      PROVE  /\ \A s \in Sessions : SessionKept(s) \/ SessionSwept(s) \/ SessionStarts(s)
             /\ UNCHANGED <<account, clock>>
             /\ session' \in [Sessions -> SignIn!Row \cup {None}]
             /\ issued' \in [Sessions -> People \cup {None}]
  <2>1. /\ SignIn!Swept(session) \in [Sessions -> SignIn!Row \cup {None}]
        /\ \A s \in Sessions : SignIn!Swept(session)[s] \in {session[s], None}
    BY DEF SignIn!Swept, TypeOK
  <2>2. [account |-> a, expires |-> clock + SessionTTL, revoked |-> FALSE] \in SignIn!Row
    BY <1>0 DEF SignIn!Row
  <2>3. /\ session' = [SignIn!Swept(session) EXCEPT ![t] =
                         [account |-> a, expires |-> clock + SessionTTL, revoked |-> FALSE]]
        /\ issued' = [issued EXCEPT ![t] = a]
        /\ issued[t] = None /\ account[a] # "none"
        /\ UNCHANGED <<account, clock>>
    BY <1>3 DEF SignIn!Start
  <2>4. issued \in [Sessions -> People \cup {None}]
    BY DEF TypeOK
  <2>5. SessionStarts(t)
    <3>1. session'[t] = [account |-> a, expires |-> clock + SessionTTL, revoked |-> FALSE]
      BY <2>1, <2>3
    <3>2. issued'[t] = a
      BY <2>3, <2>4
    <3> QED
      BY <2>3, <3>1, <3>2 DEF SessionStarts
  <2>6. ASSUME NEW s \in Sessions, s # t
        PROVE  SessionKept(s) \/ SessionSwept(s)
    <3>1. session'[s] \in {session[s], None} /\ issued'[s] = issued[s]
      BY <2>1, <2>3, <2>4, <2>6
    <3> QED
      BY <3>1 DEF SessionKept, SessionSwept
  <2>7. session' \in [Sessions -> SignIn!Row \cup {None}]
    BY <2>1, <2>2, <2>3
  <2>8. issued' \in [Sessions -> People \cup {None}]
    BY <2>3, <2>4
  <2> QED
    BY <2>3, <2>5, <2>6, <2>7, <2>8
<1>4. StandsOn \/ account' # account
  BY DEF StandsOn
<1>5. UNCHANGED <<session, issued>> => \A s \in Sessions : SessionKept(s)
  BY DEF SessionKept
<1>6. CASE SignIn!Pass
  BY <1>0, <1>2, <1>4, <1>5, <1>6 DEF TypeOK
<1>7. CASE \E a \in People : SignIn!Register(a) \/ SignIn!SwitchOff(a)
  BY <1>0, <1>1, <1>5, <1>7 DEF TypeOK
<1>8. CASE \E a \in People, t \in Sessions : SignIn!Start(t, a)
  BY <1>0, <1>3, <1>4, <1>8 DEF TypeOK
<1> QED
  BY <1>6, <1>7, <1>8 DEF SignIn!Next

\* A session is ended by a request that stands on it, or moves as sign-in has it.
LEMMA EverySessionStep ==
  ASSUME TypeOK, [Next]_vars, NEW s \in Sessions
  PROVE  SessionKept(s) \/ SessionSwept(s) \/ SessionStarts(s) \/ SessionEnds(s)
<1>1. CASE UNCHANGED <<session, issued, ends>>
  BY <1>1 DEF SessionKept
<1>2. ASSUME NEW r \in Slots, EndSession(r)
      PROVE  SessionKept(s) \/ SessionEnds(s)
  <2>1. UNCHANGED issued
    BY <1>2 DEF EndSession, signIn
  <2>2. PICK x, a : x = By(r).session /\ a = By(r).account
    OBVIOUS
  <2>3. \/ UNCHANGED <<session, ends>>
        \/ /\ session[x] # None /\ ~session[x].revoked
           /\ session' = [session EXCEPT ![x].revoked = TRUE]
           /\ ends' = [ends EXCEPT ![x] = Append(ends[x], a)]
    BY <1>2, <2>2 DEF EndSession, Endable
  <2>4. CASE x = s /\ ~UNCHANGED <<session, ends>>
    <3>1. session'[s] = [session[s] EXCEPT !.revoked = TRUE]
      BY <2>3, <2>4 DEF TypeOK
    <3>2. ends'[s] = Append(ends[s], a)
      BY <2>3, <2>4 DEF TypeOK
    <3>3. session[s] # None /\ ~session[s].revoked
      BY <2>3, <2>4
    <3> QED
      BY <1>2, <2>1, <2>2, <2>4, <3>1, <3>2, <3>3 DEF SessionEnds
  <2>5. CASE x # s \/ UNCHANGED <<session, ends>>
    <3>1. session'[s] = session[s] /\ ends'[s] = ends[s]
      BY <2>3, <2>5 DEF TypeOK
    <3> QED
      BY <2>1, <3>1 DEF SessionKept
  <2> QED
    BY <2>4, <2>5
<1>3. ASSUME NEW r \in Slots, NEW t \in Tokens, Revoke(r, t)
      PROVE  SessionKept(s)
  <2>1. UNCHANGED <<session, issued>>
    BY <1>3 DEF Revoke, signIn
  <2>2. ends'[s] = ends[s]
    <3>1. s # t
      BY AccessAssumption
    <3>2. ends' = [ends EXCEPT ![t] = Append(ends[t], By(r).account)]
      BY <1>3 DEF Revoke
    <3> QED
      BY <3>1, <3>2 DEF TypeOK
  <2> QED
    BY <2>1, <2>2 DEF SessionKept
<1>4. ASSUME SignsIn
      PROVE  SessionKept(s) \/ SessionSwept(s) \/ SessionStarts(s)
  <2>1. SignIn!Next /\ UNCHANGED ends
    BY <1>4 DEF SignsIn
  <2> QED
    BY <2>1, SignInStep
<1> QED
  BY <1>1, <1>2, <1>3, <1>4 DEF Next, Arrive, Handle, Resolve, Mint, Leave, Minted, vars, signIn

TokenKept(t) == UNCHANGED <<token[t], minted[t], ends[t]>>
TokenMinted(t) ==
  \E r \in Slots, asked \in Asked :
    /\ Mint(r, t, asked[1], asked[2])
    /\ token'[t] = [account |-> By(r).account, scopes |-> asked[1], pin |-> asked[2],
                    revoked |-> FALSE]
    /\ minted'[t] = [session |-> By(r).session, form |-> request[r].message.form,
                     scopes |-> asked[1], pin |-> asked[2]]
    /\ ends'[t] = ends[t]
TokenRevoked(t) ==
  \E r \in Slots :
    /\ Revoke(r, t) /\ t \in Minted
    /\ token'[t] = [token[t] EXCEPT !.revoked = TRUE]
    /\ minted'[t] = minted[t]
    /\ ends'[t] = Append(ends[t], By(r).account)

\* A request that ends a session has a principal, and what it ends is no token.
LEMMA NoTokenEnds ==
  ASSUME TypeOK, NEW r \in Slots, EndSession(r), NEW t \in Tokens
  PROVE  By(r).session # t
<1>1. request[r] \in RequestState /\ request[r].pc = "act" /\ request[r].message.op = "logout"
  BY DEF EndSession, Acts, TypeOK
<1>2. request[r].as \in Principal
  BY <1>1 DEF TypeOK, RequestState, Public
<1>3. request[r].as.session \in Sessions \cup {None}
  BY <1>2 DEF Principal
<1> QED
  BY <1>3, AccessAssumption DEF By

LEMMA EveryTokenStep ==
  ASSUME TypeOK, [Next]_vars, NEW t \in Tokens
  PROVE  TokenKept(t) \/ TokenMinted(t) \/ TokenRevoked(t)
<1>1. CASE UNCHANGED <<token, minted, ends>>
  BY <1>1 DEF TokenKept
<1>2. ASSUME NEW r \in Slots, NEW u \in Tokens, NEW asked \in Asked,
             Mint(r, u, asked[1], asked[2])
      PROVE  TokenKept(t) \/ TokenMinted(t)
  <2>1. UNCHANGED ends
    BY <1>2 DEF Mint
  <2>2. CASE u = t
    <3>1. token'[t] = [account |-> By(r).account, scopes |-> asked[1], pin |-> asked[2],
                       revoked |-> FALSE]
      BY <1>2, <2>2 DEF Mint, TypeOK
    <3>2. minted'[t] = [session |-> By(r).session, form |-> request[r].message.form,
                        scopes |-> asked[1], pin |-> asked[2]]
      BY <1>2, <2>2 DEF Mint, TypeOK
    <3>3. Mint(r, t, asked[1], asked[2])
      BY <1>2, <2>2
    <3> QED
      BY <2>1, <3>1, <3>2, <3>3 DEF TokenMinted
  <2>3. CASE u # t
    <3>1. token'[t] = token[t] /\ minted'[t] = minted[t]
      BY <1>2, <2>3 DEF Mint, TypeOK
    <3> QED
      BY <2>1, <3>1 DEF TokenKept
  <2> QED
    BY <2>2, <2>3
<1>3. ASSUME NEW r \in Slots, NEW u \in Minted, Revoke(r, u)
      PROVE  TokenKept(t) \/ TokenRevoked(t)
  <2>1. /\ token' = [token EXCEPT ![u].revoked = TRUE]
        /\ ends' = [ends EXCEPT ![u] = Append(ends[u], By(r).account)]
        /\ UNCHANGED minted
    BY <1>3 DEF Revoke
  <2>2. CASE u = t
    <3>1. token'[t] = [token[t] EXCEPT !.revoked = TRUE]
      BY <2>1, <2>2 DEF TypeOK
    <3>2. ends'[t] = Append(ends[t], By(r).account)
      BY <2>1, <2>2 DEF TypeOK
    <3>3. Revoke(r, t)
      BY <1>3, <2>2
    <3> QED
      BY <2>1, <3>1, <3>2, <3>3 DEF TokenRevoked
  <2>3. CASE u # t
    <3>1. token'[t] = token[t] /\ ends'[t] = ends[t]
      BY <2>1, <2>3 DEF TypeOK
    <3> QED
      BY <2>1, <3>1 DEF TokenKept
  <2> QED
    BY <2>2, <2>3
<1>4. ASSUME NEW r \in Slots, EndSession(r)
      PROVE  TokenKept(t)
  <2>1. UNCHANGED <<token, minted>>
    BY <1>4 DEF EndSession
  <2>2. PICK x : x = By(r).session
    OBVIOUS
  <2>3. x # t
    BY <1>4, <2>2, NoTokenEnds
  <2>4. \/ UNCHANGED ends
        \/ ends' = [ends EXCEPT ![x] = Append(ends[x], By(r).account)]
    BY <1>4, <2>2 DEF EndSession
  <2>5. ends'[t] = ends[t]
    BY <2>3, <2>4 DEF TypeOK
  <2> QED
    BY <2>1, <2>5 DEF TokenKept
<1>5. Minted \subseteq Tokens
  BY DEF Minted
<1> QED
  BY <1>1, <1>2, <1>3, <1>4, <1>5 DEF Next, Arrive, Handle, Resolve, Leave, SignsIn, vars, signIn

\* A request arrives, is admitted, goes its way, or waits.
RequestArrives(r) ==
  \E m \in Sent :
    /\ {m.cookie, m.form} \subseteq Issued \cup {None}
    /\ m.bearer \in Minted \cup {None}
    /\ request'[r] = [pc |-> "resolve", message |-> m, as |-> None,
                      dead |-> Dead(m)]
    /\ UNCHANGED <<signIn, session, token, minted, ends>>
RequestAdmitted(r) ==
  /\ request[r].pc = "resolve"
  /\ Admitted(request[r].message, Identified(request[r].message))
  /\ request'[r] = [request[r] EXCEPT !.pc = "act", !.as = Identified(request[r].message),
                                      !.dead = request[r].dead \/ Dead(request[r].message)]
  /\ UNCHANGED <<signIn, session, token, minted, ends>>

LEMMA EveryRequestStep ==
  ASSUME TypeOK, [Next]_vars, NEW r \in Slots
  PROVE  \/ request'[r] = request[r]
         \/ request'[r] = NoRequest
         \/ RequestArrives(r)
         \/ RequestAdmitted(r)
<1>0. request \in [Slots -> RequestState]
  BY DEF TypeOK
<1>1. CASE UNCHANGED request
  BY <1>1
<1>2. ASSUME NEW q \in Slots, Done(q)
      PROVE  request'[r] = request[r] \/ request'[r] = NoRequest
  BY <1>0, <1>2 DEF Done
<1>3. ASSUME NEW q \in Slots, NEW m \in Sent, Arrive(q, m)
      PROVE  request'[r] = request[r] \/ RequestArrives(r)
  <2>1. PICK new : new = [pc |-> "resolve", message |-> m, as |-> None,
                          dead |-> Dead(m)]
    OBVIOUS
  <2>2. request' = [request EXCEPT ![q] = new]
    BY <1>3, <2>1 DEF Arrive
  <2>3. CASE q = r
    <3>1. request'[r] = new
      BY <1>0, <2>2, <2>3
    <3>2. /\ {m.cookie, m.form} \subseteq Issued \cup {None}
          /\ m.bearer \in Minted \cup {None}
          /\ UNCHANGED <<signIn, session, token, minted, ends>>
      BY <1>3 DEF Arrive
    <3> QED
      BY <2>1, <3>1, <3>2 DEF RequestArrives
  <2>4. CASE q # r
    BY <1>0, <2>2, <2>4
  <2> QED
    BY <2>3, <2>4
<1>4. ASSUME NEW q \in Slots, Resolve(q)
      PROVE  request'[r] = request[r] \/ request'[r] = NoRequest \/ RequestAdmitted(r)
  <2>1. PICK m, who, dead : /\ m = request[q].message /\ who = Identified(m)
                            /\ dead = (request[q].dead \/ Dead(m))
    OBVIOUS
  <2>2. request' = [request EXCEPT ![q] =
                      IF Admitted(m, who)
                      THEN [request[q] EXCEPT !.pc = "act", !.as = who, !.dead = dead]
                      ELSE NoRequest]
    BY <1>4, <2>1 DEF Resolve
  <2>3. CASE q # r
    BY <1>0, <2>2, <2>3
  <2>4. CASE q = r /\ ~Admitted(m, who)
    BY <1>0, <2>2, <2>4
  <2>5. CASE q = r /\ Admitted(m, who)
    <3>1. request'[r] = [request[r] EXCEPT !.pc = "act", !.as = who, !.dead = dead]
      BY <1>0, <2>2, <2>5
    <3>2. /\ request[r].pc = "resolve"
          /\ UNCHANGED <<signIn, session, token, minted, ends>>
      BY <1>4, <2>5 DEF Resolve
    <3> QED
      BY <2>1, <2>5, <3>1, <3>2 DEF RequestAdmitted
  <2> QED
    BY <2>3, <2>4, <2>5
<1> QED
  BY <1>1, <1>2, <1>3, <1>4 DEF Next, Handle, Mint, Revoke, EndSession, Leave, SignsIn, vars

-----------------------------------------------------------------------------
(* Types.                                                                  *)

\* Whom a message stands for is who its bearer token or its cookie names.
LEMMA WhoIsIdentified ==
  ASSUME TypeOK, NEW m \in Message, Identified(m) # None
  PROVE  \/ /\ m.op \notin Public
            /\ m.bearer \in Tokens
            /\ LiveToken(m.bearer)
            /\ Identified(m) = OfToken(m.bearer)
         \/ /\ Bearer(m) = None
            /\ m.cookie \in Sessions
            /\ LiveSession(m.cookie)
            /\ Identified(m) = OfSession(m.cookie)
BY DEF Identified, ByCredential, BySession, Bearer, Message

LEMMA PrincipalType ==
  ASSUME TypeOK
  PROVE  /\ \A s \in Sessions : LiveSession(s) => OfSession(s) \in Principal
         /\ \A t \in Tokens : LiveToken(t) => OfToken(t) \in Principal
<1>1. ASSUME NEW s \in Sessions, LiveSession(s) PROVE OfSession(s) \in Principal
  <2>1. session[s].account \in People
    BY <1>1 DEF LiveSession, TypeOK, SignIn!Row
  <2> QED
    BY <2>1 DEF OfSession, Principal
<1>2. ASSUME NEW t \in Tokens, LiveToken(t) PROVE OfToken(t) \in Principal
  <2>1. /\ token[t].account \in People
        /\ token[t].scopes \in SUBSET Scopes
        /\ token[t].pin \in Plugins \cup {None}
    BY <1>2 DEF LiveToken, TypeOK, TokenRow
  <2> QED
    BY <2>1 DEF OfToken, Principal
<1> QED
  BY <1>1, <1>2

\* Whoever is named anywhere is there.
CarriedBy(q) ==
  q.pc # "idle" =>
    /\ q.message \in Sent
    /\ q.message.cookie \in Issued \cup {None}
    /\ q.message.bearer \in Minted \cup {None}
Carried == \A r \in Slots : CarriedBy(request[r])

Typed == TypeOK /\ Carried

LEMMA SentIsMessage == \A m \in Sent : m \in Message /\ m # None
BY AccessAssumption, NoneIsNoRow

LEMMA RequestsTyped ==
  ASSUME Typed, [Next]_vars, NEW r \in Slots
  PROVE  /\ request'[r] \in RequestState
         /\ request'[r].pc = "act" /\ request'[r].message.op \notin Public
              => request'[r].as # None
<1>0. request[r] \in RequestState /\ NoRequest \in RequestState /\ NoRequest.pc = "idle"
  BY DEF Typed, TypeOK, RequestState, NoRequest
<1>1. CASE request'[r] = request[r]
  BY <1>0, <1>1 DEF Typed, TypeOK
<1>2. CASE request'[r] = NoRequest
  BY <1>0, <1>2
<1>3. CASE RequestArrives(r)
  <2>1. PICK m \in Sent :
          request'[r] = [pc |-> "resolve", message |-> m, as |-> None,
                         dead |-> Dead(m)]
    BY <1>3 DEF RequestArrives
  <2>2. Dead(m) \in BOOLEAN
    BY DEF Dead, DeadToken, DeadSession
  <2>3. PICK dead \in BOOLEAN :
          request'[r] = [pc |-> "resolve", message |-> m, as |-> None, dead |-> dead]
    BY <2>1, <2>2
  <2> QED
    BY <2>3, SentIsMessage DEF RequestState
<1>4. CASE RequestAdmitted(r)
  <2>1. PICK m, who : m = request[r].message /\ who = Identified(m)
    OBVIOUS
  <2>2. m \in Message
    BY <1>4, <2>1, SentIsMessage DEF RequestAdmitted, Typed, Carried, CarriedBy
  <2>3. who \in Principal \cup {None}
    BY <2>1, <2>2, WhoIsIdentified, PrincipalType DEF Typed
  <2>4. PICK dead \in BOOLEAN :
          /\ request'[r] = [request[r] EXCEPT !.pc = "act", !.as = who, !.dead = dead]
          /\ Admitted(m, who)
    BY <1>4, <2>1 DEF RequestAdmitted
  <2>5. request'[r] \in RequestState
    BY <1>0, <2>3, <2>4 DEF RequestState
  <2>6. request'[r].message = m /\ request'[r].as = who
    BY <1>0, <2>1, <2>4 DEF RequestState
  <2>7. m.op \in Public \/ who # None
    BY <2>4 DEF Admitted
  <2> QED
    BY <2>5, <2>6, <2>7
<1> QED
  BY <1>1, <1>2, <1>3, <1>4, EveryRequestStep DEF Typed

LEMMA RequestIsTable == ASSUME TypeOK, [Next]_vars PROVE request' = [r \in Slots |-> request'[r]]
BY DEF TypeOK, Next, Arrive, Handle, Resolve, Mint, Revoke, EndSession, Leave, Done, SignsIn, vars

\* Whoever acts by a form is an account, with a session; so is whoever ends one.
LEMMA Actor ==
  ASSUME TypeOK, NEW r \in Slots,
         \E op \in {"mint", "revoke", "logout"} : Acts(r, op)
  PROVE  By(r) \in Principal /\ By(r).account \in People
<1>1. request[r].as \in Principal
  BY DEF Acts, TypeOK, RequestState, Public
<1> QED
  BY <1>1 DEF By, Principal

\* One more row says how something ended.
LEMMA EndsType ==
  ASSUME TypeOK, NEW x, NEW a \in People, ends' = [ends EXCEPT ![x] = Append(ends[x], a)]
  PROVE  ends' \in [Sessions \cup Tokens -> Seq(People)]
<1>1. ends \in [Sessions \cup Tokens -> Seq(People)]
  BY DEF TypeOK
<1>2. ASSUME x \in Sessions \cup Tokens PROVE Append(ends[x], a) \in Seq(People)
  BY <1>1, <1>2
<1> QED
  BY <1>1, <1>2

LEMMA NextTypeOK ==
  ASSUME Typed, [Next]_vars
  PROVE  TypeOK'
<1>0. TypeOK
  BY DEF Typed
<1>1. /\ request' \in [Slots -> RequestState]
      /\ \A r \in Slots :
           request'[r].pc = "act" /\ request'[r].message.op \notin Public => request'[r].as # None
  <2>1. \A r \in Slots : request'[r] \in RequestState
    BY RequestsTyped
  <2>2. request' = [r \in Slots |-> request'[r]]
    BY <1>0, RequestIsTable
  <2> QED
    BY <2>1, <2>2, RequestsTyped
<1>2. CASE UNCHANGED <<signIn, session, token, minted, ends>>
  BY <1>0, <1>1, <1>2 DEF TypeOK, signIn
<1>3. ASSUME NEW r \in Slots, NEW t \in Tokens, NEW asked \in Asked,
             Mint(r, t, asked[1], asked[2])
      PROVE  TypeOK'
  <2>1. UNCHANGED <<account, issued, clock, session, ends>>
    BY <1>3 DEF Mint, signIn
  <2>2. PICK row, form :
          /\ row = [account |-> By(r).account, scopes |-> asked[1], pin |-> asked[2],
                    revoked |-> FALSE]
          /\ form = [session |-> By(r).session, form |-> request[r].message.form,
                     scopes |-> asked[1], pin |-> asked[2]]
    OBVIOUS
  <2>3. token' = [token EXCEPT ![t] = row] /\ minted' = [minted EXCEPT ![t] = form]
    BY <1>3, <2>2 DEF Mint
  <2>4. asked[1] \in SUBSET Scopes /\ asked[2] \in Plugins \cup {None}
    BY <1>3, AccessAssumption DEF Mint, KnownScopes
  <2>5. By(r).account \in People /\ By(r).session \in Sessions
    BY <1>0, <1>3, Actor DEF Mint, FormHolds, Principal
  <2>6. request[r].message.form \in Sessions
    BY <1>3, <2>5 DEF Mint, FormHolds, CheckCSRF
  <2>7. row \in TokenRow /\ form \in Mintage
    BY <2>2, <2>4, <2>5, <2>6 DEF TokenRow, Mintage
  <2>8. row # None /\ form # None
    BY <2>7, NoneIsNoRow
  <2> QED
    BY <1>0, <1>1, <2>1, <2>3, <2>7, <2>8 DEF TypeOK
<1>4. ASSUME NEW r \in Slots, NEW t \in Minted, Revoke(r, t)
      PROVE  TypeOK'
  <2>1. UNCHANGED <<account, issued, clock, session, minted>>
    BY <1>4 DEF Revoke, signIn
  <2>2. /\ token' = [token EXCEPT ![t].revoked = TRUE]
        /\ ends' = [ends EXCEPT ![t] = Append(ends[t], By(r).account)]
    BY <1>4 DEF Revoke
  <2>3. t \in Tokens /\ token[t] \in TokenRow
    BY <1>0 DEF Minted, TypeOK
  <2>4. [token[t] EXCEPT !.revoked = TRUE] \in TokenRow
    BY <2>3 DEF TokenRow
  <2>5. By(r).account \in People
    BY <1>0, <1>4, Actor DEF Revoke
  <2>6. ends' \in [Sessions \cup Tokens -> Seq(People)]
    BY <1>0, <2>2, <2>5, EndsType
  <2>7. token' \in [Tokens -> TokenRow \cup {None}]
    BY <1>0, <2>2, <2>4 DEF TypeOK
  <2>8. \A u \in Tokens : token'[u] # None <=> minted'[u] # None
    <3> SUFFICES ASSUME NEW u \in Tokens PROVE token'[u] # None <=> minted'[u] # None
      OBVIOUS
    <3>1. /\ token \in [Tokens -> TokenRow \cup {None}]
          /\ token[u] # None <=> minted[u] # None
      BY <1>0 DEF TypeOK
    <3>2. CASE u # t
      BY <2>1, <2>2, <3>1, <3>2
    <3>3. CASE u = t
      <4>1. token[t] # None /\ token'[t] = [token[t] EXCEPT !.revoked = TRUE]
        BY <2>2, <2>3, <3>1, NoneIsNoRow
      <4> QED
        BY <2>1, <2>4, <3>1, <3>3, <4>1, NoneIsNoRow
    <3> QED
      BY <3>2, <3>3
  <2> QED
    BY <1>0, <1>1, <2>1, <2>6, <2>7, <2>8 DEF TypeOK
<1>5. ASSUME NEW r \in Slots, EndSession(r)
      PROVE  TypeOK'
  <2>1. UNCHANGED <<account, issued, clock, token, minted>>
    BY <1>5 DEF EndSession, signIn
  <2>2. PICK s, a : s = By(r).session /\ a = By(r).account
    OBVIOUS
  <2>3. \/ UNCHANGED <<session, ends>>
        \/ /\ session' = [session EXCEPT ![s].revoked = TRUE]
           /\ ends' = [ends EXCEPT ![s] = Append(ends[s], a)]
           /\ session[s] # None
    BY <1>5, <2>2 DEF EndSession, Endable
  <2>4. a \in People
    BY <1>0, <1>5, <2>2, Actor DEF EndSession
  <2>5. ends' \in [Sessions \cup Tokens -> Seq(People)]
    BY <1>0, <2>3, <2>4, EndsType DEF TypeOK
  <2>6. session' \in [Sessions -> SignIn!Row \cup {None}]
    <3>1. ASSUME s \in Sessions, session[s] # None
          PROVE  [session[s] EXCEPT !.revoked = TRUE] \in SignIn!Row
      BY <1>0, <3>1 DEF TypeOK, SignIn!Row
    <3>2. session \in [Sessions -> SignIn!Row \cup {None}]
      BY <1>0 DEF TypeOK
    <3> QED
      BY <2>3, <3>1, <3>2
  <2> QED
    BY <1>0, <1>1, <2>1, <2>5, <2>6 DEF TypeOK
<1>6. ASSUME SignsIn PROVE TypeOK'
  <2>1. SignIn!Next /\ UNCHANGED <<token, minted, ends>>
    BY <1>6 DEF SignsIn
  <2>2. /\ account' \in [People -> {"none", "active", "disabled"}]
        /\ session' \in [Sessions -> SignIn!Row \cup {None}]
        /\ issued' \in [Sessions -> People \cup {None}]
        /\ clock' \in 0 .. MaxClock
    BY <1>0, <2>1, SignInStep
  <2> QED
    BY <1>0, <1>1, <2>1, <2>2 DEF TypeOK
<1> QED
  BY <1>2, <1>3, <1>4, <1>5, <1>6 DEF Next, Arrive, Handle, Resolve, Leave, vars

\* Whose a session is, and how a token was minted, is never rewritten.
LEMMA NamesStay ==
  ASSUME TypeOK, [Next]_vars
  PROVE  /\ \A s \in Sessions : issued[s] # None => issued'[s] = issued[s]
         /\ \A t \in Tokens : minted[t] # None => minted'[t] = minted[t]
         /\ Issued \subseteq Issued'
         /\ Minted \subseteq Minted'
<1>1. ASSUME NEW s \in Sessions, issued[s] # None PROVE issued'[s] = issued[s]
  BY <1>1, EverySessionStep DEF SessionKept, SessionSwept, SessionStarts, SessionEnds
<1>2. ASSUME NEW t \in Tokens, minted[t] # None PROVE minted'[t] = minted[t]
  BY <1>2, EveryTokenStep DEF TokenKept, TokenMinted, TokenRevoked, Mint
<1> QED
  BY <1>1, <1>2 DEF Issued, Minted

LEMMA CarriedStep ==
  ASSUME Typed, [Next]_vars
  PROVE  Carried'
<1> SUFFICES ASSUME NEW r \in Slots PROVE CarriedBy(request[r])'
  BY DEF Carried
<1>0. CarriedBy(request[r]) /\ Issued \subseteq Issued' /\ Minted \subseteq Minted'
  BY NamesStay DEF Typed, Carried
<1>1. CASE request'[r] = request[r]
  BY <1>0, <1>1 DEF CarriedBy
<1>2. CASE request'[r] = NoRequest
  BY <1>2 DEF CarriedBy, NoRequest
<1>3. CASE RequestArrives(r)
  <2>1. PICK m \in Sent :
          /\ m.cookie \in Issued \cup {None}
          /\ m.bearer \in Minted \cup {None}
          /\ request'[r].message = m
    BY <1>3 DEF RequestArrives
  <2> QED
    BY <1>0, <2>1 DEF CarriedBy
<1>4. CASE RequestAdmitted(r)
  <2>1. request'[r].message = request[r].message /\ request[r].pc # "idle"
    BY <1>4 DEF RequestAdmitted, Typed, TypeOK, RequestState
  <2> QED
    BY <1>0, <2>1 DEF CarriedBy
<1> QED
  BY <1>1, <1>2, <1>3, <1>4, EveryRequestStep DEF Typed

LEMMA InitTyped == Init => Typed
<1> SUFFICES ASSUME Init PROVE Typed
  OBVIOUS
<1>1. NoRequest \in RequestState /\ NoRequest.pc = "idle"
  BY DEF NoRequest, RequestState
<1>2. request = [r \in Slots |-> NoRequest]
  BY DEF Init
<1>3. ends \in [Sessions \cup Tokens -> Seq(People)]
  BY DEF Init
<1>4. TypeOK
  BY <1>1, <1>2, <1>3, AccessAssumption DEF TypeOK, Init, SignIn!Init
<1> QED
  BY <1>1, <1>2, <1>4 DEF Typed, Carried, CarriedBy

LEMMA TypedAlways == Spec => []Typed
<1>1. Typed /\ [Next]_vars => Typed'
  BY NextTypeOK, CarriedStep DEF Typed
<1> QED
  BY <1>1, InitTyped, PTL DEF Spec

(***************************************************************************)
(* Every table has its type whatever requests, sign-ins and the operator   *)
(* do, and a handler that runs has the principal it asks for.              *)
(***************************************************************************)
THEOREM TypeCorrect == Spec => []TypeOK
<1>1. Typed => TypeOK
  BY DEF Typed
<1> QED
  BY <1>1, TypedAlways, PTL

-----------------------------------------------------------------------------
(* A dead credential stays dead, and is refused.                           *)

\* The row of a session is of the account the session was started for.
RowsAreOfTheirAccounts == \A s \in Sessions :
  session[s] # None => issued[s] # None /\ session[s].account = issued[s]

LEMMA RowsAreOfTheirAccountsStep ==
  ASSUME TypeOK, [Next]_vars, RowsAreOfTheirAccounts
  PROVE  RowsAreOfTheirAccounts'
<1> SUFFICES ASSUME NEW s \in Sessions, session'[s] # None
             PROVE  issued'[s] # None /\ session'[s].account = issued'[s]
  BY DEF RowsAreOfTheirAccounts
<1>1. CASE SessionKept(s)
  BY <1>1 DEF SessionKept, RowsAreOfTheirAccounts
<1>2. CASE SessionStarts(s)
  BY <1>2, NoneIsNoRow DEF SessionStarts
<1>3. CASE SessionEnds(s)
  <2>1. session[s] \in SignIn!Row
    BY <1>3 DEF SessionEnds, TypeOK
  <2>2. session'[s].account = session[s].account
    BY <1>3, <2>1 DEF SessionEnds, SignIn!Row
  <2> QED
    BY <1>3, <2>2 DEF SessionEnds, RowsAreOfTheirAccounts
<1> QED
  BY <1>1, <1>2, <1>3, EverySessionStep DEF SessionSwept

\* Nobody and nothing is switched on again, and the clock does not go back.
LEMMA NothingRevives ==
  ASSUME TypeOK, [Next]_vars
  PROVE  StandsOn /\ clock' >= clock
<1>1. CASE UNCHANGED <<account, clock>>
  BY <1>1 DEF StandsOn, TypeOK
<1>2. CASE SignsIn
  BY <1>2, SignInStep DEF SignsIn
<1> QED
  BY <1>1, <1>2 DEF Next, Arrive, Handle, Resolve, Mint, Revoke, EndSession, Leave, vars, signIn

LEMMA DeadSessionStep ==
  ASSUME TypeOK, [Next]_vars, NEW s \in Issued, DeadSession(s)
  PROVE  DeadSession(s)'
<1>0. /\ s \in Sessions /\ issued[s] \in People /\ issued'[s] = issued[s]
      /\ StandsOn /\ clock' >= clock /\ clock \in Nat /\ clock' \in Nat
  <2>1. clock \in Nat /\ clock' \in Nat
    <3>1. clock' = clock \/ SignsIn
      BY DEF Next, Arrive, Handle, Resolve, Mint, Revoke, EndSession, Leave, vars, signIn
    <3> QED
      BY <3>1, SignInStep, AccessAssumption DEF SignsIn, TypeOK
  <2> QED
    BY <2>1, NothingRevives, NamesStay DEF Issued, TypeOK
<1>1. account[issued[s]] = "disabled" => account'[issued'[s]] = "disabled"
  BY <1>0 DEF StandsOn
<1>2. CASE SessionKept(s)
  <2>1. session'[s] = session[s]
    BY <1>2 DEF SessionKept
  <2>2. session[s] # None => session[s].expires \in Nat
    BY <1>0 DEF TypeOK, SignIn!Row
  <2>3. session[s] # None /\ clock > session[s].expires => clock' > session[s].expires
    BY <1>0, <2>2
  <2> QED
    BY <1>1, <2>1, <2>3 DEF DeadSession
<1>3. CASE SessionSwept(s)
  BY <1>3 DEF SessionSwept, DeadSession
<1>4. CASE SessionStarts(s)
  BY <1>4 DEF SessionStarts, Issued
<1>5. CASE SessionEnds(s)
  <2>1. session[s] \in SignIn!Row
    BY <1>0, <1>5 DEF SessionEnds, TypeOK
  <2>2. session'[s].revoked
    BY <1>5, <2>1 DEF SessionEnds, SignIn!Row
  <2> QED
    BY <2>2 DEF DeadSession
<1> QED
  BY <1>0, <1>2, <1>3, <1>4, <1>5, EverySessionStep

LEMMA DeadTokenStep ==
  ASSUME TypeOK, [Next]_vars, NEW t \in Minted, DeadToken(t)
  PROVE  DeadToken(t)'
<1>0. t \in Tokens /\ token[t] \in TokenRow /\ StandsOn
  BY NothingRevives DEF Minted, TypeOK
<1>1. token'[t].account = token[t].account /\ (token[t].revoked => token'[t].revoked)
  <2>1. CASE TokenKept(t)
    BY <2>1 DEF TokenKept
  <2>2. CASE TokenMinted(t)
    BY <2>2 DEF TokenMinted, Mint, Minted
  <2>3. CASE TokenRevoked(t)
    <3>1. token'[t] = [token[t] EXCEPT !.revoked = TRUE]
      BY <2>3 DEF TokenRevoked
    <3> QED
      BY <1>0, <3>1 DEF TokenRow
  <2> QED
    BY <1>0, <2>1, <2>2, <2>3, EveryTokenStep
<1>2. token[t].account \in People
  BY <1>0 DEF TokenRow
<1>3. account[token[t].account] = "disabled" => account'[token'[t].account] = "disabled"
  BY <1>0, <1>1, <1>2 DEF StandsOn
<1> QED
  BY <1>1, <1>3 DEF DeadToken

\* A request whose credential died before it was looked up is not identified by it.
RefusedBy(q) ==
  q.dead =>
    /\ q.pc = "resolve" => Dead(q.message)
    /\ q.pc = "act" => q.message.op \in Public /\ q.as = None

LEMMA DeadStep ==
  ASSUME TypeOK, [Next]_vars, NEW m, m.cookie \in Issued \cup {None},
         m.bearer \in Minted \cup {None}, Dead(m)
  PROVE  Dead(m)'
<1>1. CASE Bearer(m) # None
  <2>1. m.bearer \in Minted /\ DeadToken(m.bearer)
    BY <1>1 DEF Bearer, Dead
  <2>2. PICK t \in Minted : t = m.bearer
    BY <2>1
  <2>3. DeadToken(t)'
    BY <2>1, <2>2, DeadTokenStep
  <2> QED
    BY <1>1, <2>2, <2>3 DEF Dead, Bearer, DeadToken
<1>2. CASE Bearer(m) = None
  <2>1. m.cookie \in Issued /\ DeadSession(m.cookie) /\ m.cookie # None
    BY <1>2 DEF Dead
  <2>2. PICK s \in Issued : s = m.cookie
    BY <2>1
  <2>3. DeadSession(s)'
    BY <2>1, <2>2, DeadSessionStep
  <2> QED
    BY <1>2, <2>1, <2>2, <2>3 DEF Dead, Bearer, DeadSession
<1> QED
  BY <1>1, <1>2

\* The dead are not identified.
LEMMA DeadIsNobody ==
  ASSUME Typed, RowsAreOfTheirAccounts, NEW m \in Message, Dead(m)
  PROVE  Identified(m) = None
<1> SUFFICES ASSUME Identified(m) # None PROVE FALSE
  OBVIOUS
<1>1. CASE /\ m.op \notin Public
           /\ m.bearer \in Tokens
           /\ LiveToken(m.bearer)
  <2>1. Bearer(m) = m.bearer /\ m.bearer # None
    BY <1>1, AccessAssumption DEF Bearer
  <2>2. DeadToken(m.bearer)
    BY <2>1 DEF Dead
  <2> QED
    BY <1>1, <2>2 DEF DeadToken, LiveToken, Enabled
<1>2. CASE /\ Bearer(m) = None
           /\ m.cookie \in Sessions
           /\ LiveSession(m.cookie)
  <2>1. DeadSession(m.cookie)
    BY <1>2 DEF Dead
  <2>2. session[m.cookie] \in SignIn!Row /\ clock \in Nat
    BY <1>2, AccessAssumption DEF LiveSession, Typed, TypeOK
  <2>3. session[m.cookie].expires \in Nat
    BY <2>2 DEF SignIn!Row
  <2>4. session[m.cookie].account = issued[m.cookie]
    BY <1>2 DEF LiveSession, RowsAreOfTheirAccounts
  <2>5. ~(clock > session[m.cookie].expires)
    BY <1>2, <2>2, <2>3 DEF LiveSession
  <2> QED
    BY <1>2, <2>1, <2>4, <2>5 DEF LiveSession, DeadSession, Enabled
<1> QED
  BY <1>1, <1>2, WhoIsIdentified DEF Typed

LEMMA RefusedStep ==
  ASSUME Typed, [Next]_vars, RowsAreOfTheirAccounts, NEW r \in Slots, RefusedBy(request[r])
  PROVE  RefusedBy(request[r])'
<1>0. TypeOK /\ CarriedBy(request[r])
  BY DEF Typed, Carried
<1>1. CASE request'[r] = request[r]
  <2>1. CASE request[r].pc = "resolve" /\ request[r].dead
    <3>1. PICK m : m = request[r].message
      OBVIOUS
    <3>2. Dead(m)'
      BY <1>0, <2>1, <3>1, DeadStep DEF RefusedBy, CarriedBy
    <3>3. Dead(request[r].message)'
      BY <1>1, <3>1, <3>2 DEF Dead, Bearer, DeadToken, DeadSession
    <3> QED
      BY <1>1, <2>1, <3>3 DEF RefusedBy
  <2>2. CASE request[r].pc # "resolve" \/ ~request[r].dead
    BY <1>1, <2>2 DEF RefusedBy
  <2> QED
    BY <2>1, <2>2
<1>2. CASE request'[r] = NoRequest
  BY <1>2 DEF RefusedBy, NoRequest
<1>3. CASE RequestArrives(r)
  <2>1. PICK m \in Sent :
          /\ request'[r] = [pc |-> "resolve", message |-> m, as |-> None, dead |-> Dead(m)]
          /\ UNCHANGED <<signIn, session, token, minted, ends>>
    BY <1>3 DEF RequestArrives
  <2>2. Dead(m) => Dead(m)'
    BY <2>1 DEF Dead, Bearer, DeadToken, DeadSession, signIn
  <2>3. request'[r].message = m /\ request'[r].pc = "resolve" /\ (request'[r].dead => Dead(m))
    BY <2>1
  <2>4. request'[r].dead => Dead(request[r].message)'
    BY <2>2, <2>3 DEF Dead, Bearer, DeadToken, DeadSession
  <2> QED
    BY <2>3, <2>4 DEF RefusedBy
<1>4. CASE RequestAdmitted(r)
  <2>1. PICK m, who : m = request[r].message /\ who = Identified(m)
    OBVIOUS
  <2>2. m \in Message
    BY <1>4, <2>1, SentIsMessage DEF RequestAdmitted, Typed, Carried, CarriedBy
  <2>3. PICK dead :
          /\ dead = (request[r].dead \/ Dead(m))
          /\ request'[r] = [request[r] EXCEPT !.pc = "act", !.as = who, !.dead = dead]
          /\ Admitted(m, who) /\ request[r].pc = "resolve"
    BY <1>4, <2>1 DEF RequestAdmitted
  <2>4. request[r] \in RequestState
    BY <1>0 DEF TypeOK
  <2>5. /\ request'[r].pc = "act" /\ request'[r].message = m
        /\ request'[r].as = who /\ request'[r].dead = dead
    BY <2>1, <2>3, <2>4 DEF RequestState
  <2>6. request[r].dead => Dead(m)
    BY <2>1, <2>3 DEF RefusedBy
  <2>7. dead => who = None
    BY <2>1, <2>2, <2>3, <2>6, DeadIsNobody
  <2>8. who = None => m.op \in Public
    BY <2>3 DEF Admitted
  <2> QED
    BY <2>5, <2>7, <2>8 DEF RefusedBy
<1> QED
  BY <1>0, <1>1, <1>2, <1>3, <1>4, EveryRequestStep

LEMMA RefusedAlways ==
  Spec => [](RowsAreOfTheirAccounts /\ \A r \in Slots : RefusedBy(request[r]))
<1> DEFINE Refused == \A r \in Slots : RefusedBy(request[r])
<1>1. Init => RowsAreOfTheirAccounts /\ Refused
  BY DEF Init, SignIn!Init, RowsAreOfTheirAccounts, RefusedBy, NoRequest
<1>2. Typed /\ (RowsAreOfTheirAccounts /\ Refused) /\ [Next]_vars
        => (RowsAreOfTheirAccounts /\ Refused)'
  BY RowsAreOfTheirAccountsStep, RefusedStep DEF Typed
<1> QED
  BY <1>1, <1>2, TypedAlways, PTL DEF Spec

(***************************************************************************)
(* A session that was ended or had expired, a token that was revoked, and  *)
(* any credential of an account that was switched off, does nothing for a  *)
(* request that comes after, whatever happens while it is in flight.       *)
(***************************************************************************)
THEOREM TheDeadAreRefused == Spec => []DeadCredentialsAreRefused
<1>1. (RowsAreOfTheirAccounts /\ \A r \in Slots : RefusedBy(request[r]))
        => DeadCredentialsAreRefused
  BY DEF RefusedBy, DeadCredentialsAreRefused
<1> QED
  BY <1>1, RefusedAlways, PTL

-----------------------------------------------------------------------------
(* Whom a request acts as, and what it may do.                             *)

\* The row of a token says what was asked for when it was minted.
RowsAreAsMinted == \A t \in Tokens :
  token[t] # None => token[t].scopes = minted[t].scopes /\ token[t].pin = minted[t].pin

LEMMA RowsAreAsMintedStep ==
  ASSUME TypeOK, [Next]_vars, RowsAreAsMinted
  PROVE  RowsAreAsMinted'
<1> SUFFICES ASSUME NEW t \in Tokens, token'[t] # None
             PROVE  token'[t].scopes = minted'[t].scopes /\ token'[t].pin = minted'[t].pin
  BY DEF RowsAreAsMinted
<1>1. CASE TokenKept(t)
  BY <1>1 DEF TokenKept, RowsAreAsMinted
<1>2. CASE TokenMinted(t)
  BY <1>2 DEF TokenMinted
<1>3. CASE TokenRevoked(t)
  <2>1. token[t] # None /\ token[t] \in TokenRow
    BY <1>3 DEF TokenRevoked, Minted, TypeOK
  <2>2. token'[t].scopes = token[t].scopes /\ token'[t].pin = token[t].pin
    BY <1>3, <2>1 DEF TokenRevoked, TokenRow
  <2> QED
    BY <1>3, <2>1, <2>2 DEF TokenRevoked, RowsAreAsMinted
<1> QED
  BY <1>1, <1>2, <1>3, EveryTokenStep

\* It stands on the token it brought, within what that token was minted for.
ActsByToken(who, m) ==
  /\ m.op \notin Public /\ m.op \notin Floor
  /\ m.bearer \in Minted /\ m.bearer # None
  /\ who.token = m.bearer /\ who.session = None
  /\ minted[m.bearer].scopes \cap ScopesFor(Permission[m.op]) # {}
  /\ minted[m.bearer].pin \in {None, m.plugin}

\* It brought none, and stands on the session of its cookie.
ActsBySession(who, m) ==
  /\ Bearer(m) = None
  /\ m.cookie \in Issued
  /\ who.session = m.cookie /\ who.token = None
  /\ issued[m.cookie] = who.account

ActsAs(q) ==
  q.pc = "act" /\ q.as # None =>
    ActsByToken(q.as, q.message) \/ ActsBySession(q.as, q.message)

LEMMA AdmittedActs ==
  ASSUME Typed, RowsAreOfTheirAccounts, RowsAreAsMinted, NEW m \in Message,
         Identified(m) # None, Admitted(m, Identified(m))
  PROVE  ActsByToken(Identified(m), m) \/ ActsBySession(Identified(m), m)
<1>0. TypeOK
  BY DEF Typed
<1>1. CASE /\ m.op \notin Public
           /\ m.bearer \in Tokens
           /\ LiveToken(m.bearer)
           /\ Identified(m) = OfToken(m.bearer)
  <2>1. PICK t \in Tokens : t = m.bearer
    BY <1>1
  <2>2. t # None /\ t \in Minted /\ token[t] # None
    BY <1>0, <1>1, <2>1, AccessAssumption DEF LiveToken, Minted, TypeOK
  <2>3. PICK who : who = Identified(m)
    OBVIOUS
  <2>4. /\ who.token = t /\ who.session = None
        /\ who.scopes = token[t].scopes /\ who.pin = token[t].pin
    BY <1>1, <2>1, <2>3 DEF OfToken
  <2>5. TokenMay(m.op, who) /\ PinMay(m.op, who, m.plugin)
    BY <1>1, <2>3 DEF Admitted
  <2>6. m.op \notin Floor /\ minted[t].scopes \cap ScopesFor(Permission[m.op]) # {}
    BY <2>2, <2>4, <2>5 DEF TokenMay, Satisfies, RowsAreAsMinted
  <2>7. minted[t].pin \in {None, m.plugin}
    BY <2>2, <2>4, <2>5 DEF PinMay, RowsAreAsMinted
  <2> QED
    BY <1>1, <2>1, <2>2, <2>3, <2>4, <2>6, <2>7 DEF ActsByToken
<1>2. CASE /\ Bearer(m) = None
           /\ m.cookie \in Sessions
           /\ LiveSession(m.cookie)
           /\ Identified(m) = OfSession(m.cookie)
  <2>1. /\ session[m.cookie] # None
        /\ session[m.cookie].account = issued[m.cookie] /\ issued[m.cookie] # None
    BY <1>2 DEF LiveSession, RowsAreOfTheirAccounts
  <2> QED
    BY <1>2, <2>1 DEF OfSession, ActsBySession, Issued
<1> QED
  BY <1>0, <1>1, <1>2, WhoIsIdentified

LEMMA ActsAsStep ==
  ASSUME Typed, [Next]_vars, RowsAreOfTheirAccounts, RowsAreAsMinted,
         NEW r \in Slots, ActsAs(request[r])
  PROVE  ActsAs(request[r])'
<1>0. TypeOK
  BY DEF Typed
<1>1. ASSUME NEW who, NEW m, ActsByToken(who, m) \/ ActsBySession(who, m)
      PROVE  (ActsByToken(who, m) \/ ActsBySession(who, m))'
  <2>1. CASE ActsByToken(who, m)
    <3>1. m.bearer \in Minted' /\ minted'[m.bearer] = minted[m.bearer]
      BY <1>0, <2>1, NamesStay DEF ActsByToken, Minted
    <3> QED
      BY <2>1, <3>1 DEF ActsByToken
  <2>2. CASE ActsBySession(who, m)
    <3>1. m.cookie \in Issued' /\ issued'[m.cookie] = issued[m.cookie]
      BY <1>0, <2>2, NamesStay DEF ActsBySession, Issued
    <3> QED
      BY <2>2, <3>1 DEF ActsBySession, Bearer
  <2> QED
    BY <1>1, <2>1, <2>2
<1>2. CASE request'[r] = request[r]
  <2>1. PICK who, m : who = request[r].as /\ m = request[r].message
    OBVIOUS
  <2>2. CASE request[r].pc = "act" /\ who # None
    <3>1. (ActsByToken(who, m) \/ ActsBySession(who, m))'
      BY <1>1, <2>1, <2>2 DEF ActsAs
    <3> QED
      BY <1>2, <2>1, <3>1 DEF ActsAs, ActsByToken, ActsBySession, Bearer
  <2>3. CASE ~(request[r].pc = "act" /\ who # None)
    BY <1>2, <2>1, <2>3 DEF ActsAs
  <2> QED
    BY <2>2, <2>3
<1>3. CASE request'[r] = NoRequest \/ RequestArrives(r)
  <2>1. CASE request'[r] = NoRequest
    BY <2>1 DEF ActsAs, NoRequest
  <2>2. CASE RequestArrives(r)
    <3>1. request'[r].pc = "resolve"
      BY <2>2 DEF RequestArrives
    <3> QED
      BY <3>1 DEF ActsAs
  <2> QED
    BY <1>3, <2>1, <2>2
<1>4. CASE RequestAdmitted(r)
  <2>1. PICK who, m : who = Identified(m) /\ m = request[r].message
    OBVIOUS
  <2>2. m \in Message
    BY <1>4, <2>1, SentIsMessage DEF RequestAdmitted, Typed, Carried, CarriedBy
  <2>3. /\ \E dead : request'[r] = [request[r] EXCEPT !.pc = "act", !.as = who, !.dead = dead]
        /\ Admitted(m, Identified(m))
    BY <1>4, <2>1 DEF RequestAdmitted
  <2>4. request'[r].message = m /\ request'[r].as = who
    BY <1>0, <2>1, <2>3 DEF TypeOK, RequestState
  <2>5. CASE who # None
    <3>1. ActsByToken(who, m) \/ ActsBySession(who, m)
      BY <2>1, <2>2, <2>3, <2>5, AdmittedActs
    <3>2. (ActsByToken(who, m) \/ ActsBySession(who, m))'
      BY <1>1, <3>1
    <3> QED
      BY <2>4, <3>2 DEF ActsAs, ActsByToken, ActsBySession, Bearer
  <2>6. CASE who = None
    BY <2>4, <2>6 DEF ActsAs
  <2> QED
    BY <2>5, <2>6
<1> QED
  BY <1>0, <1>2, <1>3, <1>4, EveryRequestStep

\* What a request acts as, and with what.
Acting ==
  /\ RowsAreOfTheirAccounts
  /\ RowsAreAsMinted
  /\ \A r \in Slots : ActsAs(request[r])

LEMMA ActingAlways == Spec => []Acting
<1>1. Init => Acting
  BY DEF Init, SignIn!Init, Acting, RowsAreOfTheirAccounts, RowsAreAsMinted, ActsAs, NoRequest
<1>2. Typed /\ Acting /\ [Next]_vars => Acting'
  BY RowsAreOfTheirAccountsStep, RowsAreAsMintedStep, ActsAsStep DEF Typed, Acting
<1> QED
  BY <1>1, <1>2, TypedAlways, PTL DEF Spec

(***************************************************************************)
(* A request acts as what it presented and nothing else: one that brings a *)
(* bearer token is never taken for the browser whose cookie it carries     *)
(* too, and a public page never takes a token for a reader.                *)
(***************************************************************************)
THEOREM ActsAsItPresents == Spec => []RequestsActAsPresented
<1>1. Acting => RequestsActAsPresented
  BY DEF Acting, ActsAs, ActsByToken, ActsBySession, Bearer, RequestsActAsPresented
<1> QED
  BY <1>1, ActingAlways, PTL

-----------------------------------------------------------------------------
(* What is minted, and what ends.                                          *)

\* A token came from a form of a session of its account.
MintedFromForms == \A t \in Minted :
  /\ minted[t].session \in Issued
  /\ minted[t].form = minted[t].session
  /\ issued[minted[t].session] = token[t].account

\* Who posts a form stands on a session, of its own account.
LEMMA ByItsSession ==
  ASSUME Typed, Acting, NEW r \in Slots,
         \E op \in {"mint", "revoke", "logout"} : Acts(r, op)
  PROVE  /\ By(r).session \in Issued
         /\ issued[By(r).session] = By(r).account
         /\ By(r).account \in People
<1>1. PICK who, m : who = request[r].as /\ m = request[r].message
  OBVIOUS
<1>2. request[r].pc = "act" /\ m.op \in {"mint", "revoke", "logout"}
  BY <1>1 DEF Acts
<1>3. m.op \in Floor
  BY <1>2 DEF Floor, Operations
<1>4. who \in Principal /\ who.account \in People
  BY <1>1, Actor DEF Typed, By
<1>5. who # None
  BY <1>4, NoneIsNoRow
<1>6. ActsBySession(who, m)
  BY <1>1, <1>2, <1>3, <1>5 DEF Acting, ActsAs, ActsByToken
<1> QED
  BY <1>1, <1>4, <1>6 DEF ActsBySession, By

LEMMA MintedFromFormsStep ==
  ASSUME Typed, Acting, [Next]_vars, MintedFromForms
  PROVE  MintedFromForms'
<1> SUFFICES ASSUME NEW t \in Tokens, minted'[t] # None
             PROVE  /\ minted'[t].session \in Issued'
                    /\ minted'[t].form = minted'[t].session
                    /\ issued'[minted'[t].session] = token'[t].account
  BY DEF MintedFromForms, Minted
<1>0. TypeOK
  BY DEF Typed
<1>1. CASE TokenMinted(t)
  <2>1. PICK r \in Slots, asked \in Asked :
          /\ Mint(r, t, asked[1], asked[2])
          /\ token'[t].account = By(r).account
          /\ minted'[t].session = By(r).session
          /\ minted'[t].form = request[r].message.form
    BY <1>1 DEF TokenMinted
  <2>2. Acts(r, "mint") /\ request[r].message.form = By(r).session
    BY <2>1 DEF Mint, FormHolds, CheckCSRF
  <2>3. By(r).session \in Issued /\ issued[By(r).session] = By(r).account
    BY <2>2, ByItsSession
  <2>4. By(r).session \in Issued' /\ issued'[By(r).session] = issued[By(r).session]
    BY <1>0, <2>3, NamesStay DEF Issued
  <2> QED
    BY <2>1, <2>2, <2>3, <2>4
<1>2. CASE TokenKept(t) \/ TokenRevoked(t)
  <2>1. minted'[t] = minted[t] /\ t \in Minted
    BY <1>2 DEF TokenKept, TokenRevoked, Minted
  <2>2. token[t] \in TokenRow
    BY <1>0, <2>1 DEF Minted, TypeOK
  <2>3. token'[t].account = token[t].account
    BY <1>2, <2>2 DEF TokenKept, TokenRevoked, TokenRow
  <2>4. PICK s \in Issued : s = minted[t].session /\ s = minted[t].form
                            /\ issued[s] = token[t].account
    BY <2>1 DEF MintedFromForms
  <2>5. s \in Issued' /\ issued'[s] = issued[s]
    BY <1>0, NamesStay DEF Issued
  <2> QED
    BY <2>1, <2>3, <2>4, <2>5
<1> QED
  BY <1>0, <1>1, <1>2, EveryTokenStep

(***************************************************************************)
(* A token does less than its account, always: it reaches no operation of  *)
(* the floor, and the others only with a scope and on the plugin it was    *)
(* minted with; and no token leads to another, for each came from a form   *)
(* of a session of its account.                                            *)
(***************************************************************************)
THEOREM TokensStayContained == Spec => []TokensAreContained
<1>1. Init => MintedFromForms
  BY DEF Init, MintedFromForms, Minted
<1>2. Typed /\ Acting /\ MintedFromForms /\ [Next]_vars => MintedFromForms'
  BY MintedFromFormsStep
<1>3. Acting /\ MintedFromForms => TokensAreContained
  BY AccessAssumption DEF Acting, ActsAs, ActsByToken, ActsBySession, MintedFromForms,
     TokensAreContained
<1> QED
  BY <1>1, <1>2, <1>3, TypedAlways, ActingAlways, PTL DEF Spec

\* The rows about a session are those of its end, and there are none before it has a name.
SessionEndsMatch(s) ==
  /\ issued[s] = None => ends[s] = <<>>
  /\ ends[s] = <<>> \/ \E a \in People : ends[s] = <<a>>
  /\ session[s] # None =>
       ends[s] = IF session[s].revoked THEN <<session[s].account>> ELSE <<>>

TokenEndsMatch(t) ==
  /\ minted[t] = None => ends[t] = <<>>
  /\ token[t] # None =>
       ends[t] = IF token[t].revoked THEN <<token[t].account>> ELSE <<>>

LEMMA SessionEndsMatchStep ==
  ASSUME Typed, Acting, [Next]_vars, NEW s \in Sessions, SessionEndsMatch(s)
  PROVE  SessionEndsMatch(s)'
<1>0. TypeOK
  BY DEF Typed
<1>1. CASE SessionKept(s)
  BY <1>1 DEF SessionKept, SessionEndsMatch
<1>2. CASE SessionSwept(s)
  BY <1>2 DEF SessionSwept, SessionEndsMatch
<1>3. CASE SessionStarts(s)
  <2>1. PICK a \in People :
          /\ issued[s] = None /\ issued'[s] = a /\ ends'[s] = ends[s]
          /\ session'[s] = [account |-> a, expires |-> clock + SessionTTL, revoked |-> FALSE]
    BY <1>3 DEF SessionStarts
  <2>2. ends'[s] = <<>> /\ issued'[s] # None
    BY <2>1, NoneIsNoRow DEF SessionEndsMatch
  <2>3. ~session'[s].revoked
    BY <2>1
  <2> QED
    BY <2>2, <2>3 DEF SessionEndsMatch
<1>4. CASE SessionEnds(s)
  <2>1. PICK r \in Slots :
          /\ EndSession(r)
          /\ s = By(r).session
          /\ session[s] # None /\ ~session[s].revoked
          /\ session'[s] = [session[s] EXCEPT !.revoked = TRUE]
          /\ issued'[s] = issued[s]
          /\ ends'[s] = Append(ends[s], By(r).account)
    BY <1>4 DEF SessionEnds
  <2>2. s \in Issued /\ issued[s] = By(r).account /\ By(r).account \in People
    <3>1. Acts(r, "logout")
      BY <2>1 DEF EndSession
    <3> QED
      BY <2>1, <3>1, ByItsSession
  <2>3. session[s].account = By(r).account
    BY <2>1, <2>2 DEF Acting, RowsAreOfTheirAccounts
  <2>4. session[s] \in SignIn!Row
    BY <1>0, <2>1 DEF TypeOK
  <2>5. session'[s].revoked /\ session'[s].account = session[s].account
    BY <2>1, <2>4 DEF SignIn!Row
  <2>6. ends[s] = <<>>
    BY <2>1 DEF SessionEndsMatch
  <2>7. PICK a \in People : a = By(r).account
    BY <2>2
  <2>8. ends'[s] = <<a>>
    BY <2>1, <2>6, <2>7
  <2>9. issued'[s] # None
    BY <2>1, <2>2 DEF Issued
  <2> QED
    BY <2>3, <2>5, <2>7, <2>8, <2>9 DEF SessionEndsMatch
<1> QED
  BY <1>0, <1>1, <1>2, <1>3, <1>4, EverySessionStep

LEMMA TokenEndsMatchStep ==
  ASSUME Typed, Acting, [Next]_vars, NEW t \in Tokens, TokenEndsMatch(t)
  PROVE  TokenEndsMatch(t)'
<1>0. TypeOK
  BY DEF Typed
<1>1. CASE TokenKept(t)
  BY <1>1 DEF TokenKept, TokenEndsMatch
<1>2. CASE TokenMinted(t)
  <2>1. minted[t] = None /\ ends'[t] = ends[t] /\ ~token'[t].revoked
    BY <1>2 DEF TokenMinted, Mint
  <2>2. minted'[t] # None
    <3>1. PICK r \in Slots, asked \in Asked :
            /\ Mint(r, t, asked[1], asked[2])
            /\ minted'[t] = [session |-> By(r).session, form |-> request[r].message.form,
                             scopes |-> asked[1], pin |-> asked[2]]
      BY <1>2 DEF TokenMinted
    <3>2. asked[1] \in SUBSET Scopes /\ asked[2] \in Plugins \cup {None}
      BY <3>1, AccessAssumption DEF Mint, KnownScopes
    <3>3. By(r).session \in Sessions
      <4>1. Acts(r, "mint")
        BY <3>1 DEF Mint
      <4> QED
        BY <4>1, ByItsSession DEF Issued
    <3>4. request[r].message.form \in Sessions
      BY <3>1, <3>3 DEF Mint, FormHolds, CheckCSRF
    <3>5. minted'[t] \in Mintage
      BY <3>1, <3>2, <3>3, <3>4 DEF Mintage
    <3> QED
      BY <3>5, NoneIsNoRow
  <2>3. ends'[t] = <<>>
    BY <2>1 DEF TokenEndsMatch
  <2> QED
    BY <2>1, <2>2, <2>3 DEF TokenEndsMatch
<1>3. CASE TokenRevoked(t)
  <2>1. PICK r \in Slots :
          /\ Revoke(r, t) /\ t \in Minted
          /\ token'[t] = [token[t] EXCEPT !.revoked = TRUE]
          /\ minted'[t] = minted[t]
          /\ ends'[t] = Append(ends[t], By(r).account)
    BY <1>3 DEF TokenRevoked
  <2>2. token[t].account = By(r).account /\ ~token[t].revoked
    BY <2>1 DEF Revoke, Revocable
  <2>3. token[t] \in TokenRow /\ token[t] # None /\ minted[t] # None
    BY <1>0, <2>1 DEF Minted, TypeOK
  <2>4. token'[t].revoked /\ token'[t].account = token[t].account
    BY <2>1, <2>3 DEF TokenRow
  <2>5. ends[t] = <<>>
    BY <2>2, <2>3 DEF TokenEndsMatch
  <2>6. PICK a : a = By(r).account
    OBVIOUS
  <2>7. ends'[t] = <<a>>
    BY <2>1, <2>5, <2>6
  <2> QED
    BY <2>1, <2>2, <2>3, <2>4, <2>6, <2>7 DEF TokenEndsMatch
<1> QED
  BY <1>0, <1>1, <1>2, <1>3, EveryTokenStep

(***************************************************************************)
(* A session ends and a token is revoked once, by its own account, and the *)
(* audit log has one row for it, also when two requests to end it are in   *)
(* flight together.                                                        *)
(***************************************************************************)
THEOREM EndingsAreRecorded == Spec => []EndingsAreRecordedOnce
<1> DEFINE Match == /\ \A s \in Sessions : SessionEndsMatch(s)
                    /\ \A t \in Tokens : TokenEndsMatch(t)
<1>1. Init => Match
  BY DEF Init, SignIn!Init, SessionEndsMatch, TokenEndsMatch
<1>2. Typed /\ Acting /\ Match /\ [Next]_vars => Match'
  BY SessionEndsMatchStep, TokenEndsMatchStep
<1>3. Typed /\ Match => EndingsAreRecordedOnce
  <2> SUFFICES ASSUME Typed, Match PROVE EndingsAreRecordedOnce
    OBVIOUS
  <2>1. ASSUME NEW t \in Minted
        PROVE  ends[t] = IF token[t].revoked THEN <<token[t].account>> ELSE <<>>
    BY DEF Typed, TypeOK, Minted, TokenEndsMatch
  <2>2. ASSUME NEW s \in Issued
        PROVE  /\ Len(ends[s]) <= 1
               /\ session[s] # None =>
                    ends[s] = IF session[s].revoked THEN <<session[s].account>> ELSE <<>>
    <3>1. ends[s] = <<>> \/ \E a \in People : ends[s] = <<a>>
      BY DEF Issued, SessionEndsMatch
    <3>2. ASSUME ends[s] = <<>> PROVE Len(ends[s]) <= 1
      <4>1. Len(ends[s]) = Len(<<>>)
        BY <3>2
      <4>2. Len(<<>>) = 0
        OBVIOUS
      <4> QED
        BY <4>1, <4>2
    <3>3. ASSUME NEW a \in People, ends[s] = <<a>>
          PROVE  Len(ends[s]) <= 1
      <4>1. Len(ends[s]) = Len(<<a>>)
        BY <3>3
      <4>2. Len(<<a>>) = 1
        OBVIOUS
      <4> QED
        BY <4>1, <4>2
    <3>4. Len(ends[s]) <= 1
      BY <3>1, <3>2, <3>3
    <3> QED
      BY <3>4 DEF Issued, SessionEndsMatch
  <2> QED
    BY <2>1, <2>2 DEF EndingsAreRecordedOnce
<1> QED
  BY <1>1, <1>2, <1>3, TypedAlways, ActingAlways, PTL DEF Spec
=============================================================================

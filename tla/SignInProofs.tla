---------------------------- MODULE SignInProofs -----------------------------
(***************************************************************************)
(* Theorems about SignIn, for every set of people, browsers, flows and     *)
(* sessions, and any number of callbacks in flight.                        *)
(***************************************************************************)
EXTENDS SignIn, TLAPS

-----------------------------------------------------------------------------
(* Types.                                                                  *)

\* Sweeping keeps a row or drops it.
LEMMA SweepRow ==
  ASSUME NEW S, NEW R, NEW rows \in [S -> R \cup {None}]
  PROVE  /\ Sweep(rows) \in [S -> R \cup {None}]
         /\ \A x \in S : \/ Sweep(rows)[x] = None
                         \/ Sweep(rows)[x] = rows[x] /\ ~Past(rows[x].expires)
BY DEF Sweep

LEMMA NoCallbackType == NoCallback \in CallbackState
BY DEF NoCallback, CallbackState, Phases

LEMMA AnsweredType ==
  ASSUME NEW b \in Browsers \cup {None}, NEW barred \in BOOLEAN,
         NEW answer \in Problems \cup {"signed_in"}
  PROVE  /\ Answered(b, barred, answer) \in CallbackState
         /\ Answered(b, barred, answer).pc = "answered"
         /\ Answered(b, barred, answer).answer = answer
         /\ Answered(b, barred, answer).barred = barred
BY DEF Answered, NoCallback, CallbackState, Phases

\* The part of TypeOK about callbacks.
CallbacksTyped ==
  /\ callback \in [Callbacks -> CallbackState]
  /\ \A c \in Callbacks :
       callback[c].pc \in {"account", "session"} => callback[c].account # None

\* One slot gets a new content.
LEMMA SlotTyped ==
  ASSUME CallbacksTyped, NEW c \in Callbacks, NEW s \in CallbackState,
         s.pc \in {"account", "session"} => s.account # None,
         callback' = [callback EXCEPT ![c] = s]
  PROVE  CallbacksTyped'
BY DEF CallbacksTyped

LEMMA AnswerTyped ==
  ASSUME CallbacksTyped, NEW c \in Callbacks, NEW answer \in Problems \cup {"signed_in"},
         Answer(c, answer)
  PROVE  CallbacksTyped'
<1>1. callback[c].browser \in Browsers \cup {None} /\ callback[c].barred \in BOOLEAN
  BY DEF CallbacksTyped, CallbackState
<1>2. PICK b, barred : b = callback[c].browser /\ barred = callback[c].barred
  OBVIOUS
<1>3. callback' = [callback EXCEPT ![c] = Answered(b, barred, answer)]
  BY <1>2 DEF Answer
<1> QED
  BY <1>1, <1>2, <1>3, AnsweredType, SlotTyped

LEMMA GoTyped ==
  ASSUME CallbacksTyped, NEW c \in Callbacks, NEW pc \in Phases, Go(c, pc),
         pc \in {"account", "session"} => callback[c].account # None
  PROVE  CallbacksTyped'
<1>1. PICK s : s = [callback[c] EXCEPT !.pc = pc]
  OBVIOUS
<1>2. callback' = [callback EXCEPT ![c] = s]
  BY <1>1 DEF Go
<1>3. s \in CallbackState /\ s.pc = pc /\ s.account = callback[c].account
  BY <1>1 DEF CallbacksTyped, CallbackState
<1> QED
  BY <1>2, <1>3, SlotTyped

LEMMA InitTypeOK == Init => TypeOK
BY NoCallbackType, SignInAssumption DEF Init, TypeOK, NoCallback, Standing

LEMMA BeginTypeOK ==
  ASSUME TypeOK, NEW b \in Browsers, NEW f \in Flows, NEW k \in Kinds, Begin(b, f, k)
  PROVE  TypeOK'
<1>1. clock \in Nat
  BY SignInAssumption DEF TypeOK
<1>2. [kind |-> k, expires |-> clock + FlowTTL] \in FlowRow
  BY <1>1, SignInAssumption DEF FlowRow
<1>3. flow' \in [Flows -> FlowRow \cup {None}]
  BY <1>2, SweepRow DEF Begin, SweepFlows, TypeOK
<1>4. begun' \in [Flows -> Beginning \cup {None}]
  BY <1>1 DEF Begin, Beginning, TypeOK
<1>5. cookie' \in [Browsers -> Flows \cup {None}]
  BY DEF Begin, TypeOK
<1> QED
  BY <1>3, <1>4, <1>5 DEF Begin, TypeOK

LEMMA CallbackTypeOK ==
  ASSUME TypeOK, NEW c \in Callbacks, NEW b \in Browsers, NEW k \in Kinds,
         NEW code \in codes, NEW f \in Flows, Callback(c, b, k, code, f)
  PROVE  TypeOK'
<1>1. code \in Code
  BY DEF TypeOK
<1>2. PICK barred : barred = (account[code[2]] = "disabled")
  OBVIOUS
<1> DEFINE s == IF SameBrowser(b, f)
                THEN [NoCallback EXCEPT !.pc = "flow", !.browser = b, !.kind = k,
                                        !.state = f, !.code = code, !.barred = barred]
                ELSE Answered(b, barred, "mismatch")
<1>3. s \in CallbackState /\ s.pc \notin {"account", "session"}
  BY <1>1, <1>2, AnsweredType DEF NoCallback, CallbackState, Phases, Problems
<1>4. callback' = [callback EXCEPT ![c] = s]
  BY <1>2 DEF Callback
<1>5. CallbacksTyped
  BY DEF TypeOK, CallbacksTyped
<1>6. PICK t : t = s
  OBVIOUS
<1> HIDE DEF s
<1>7. CallbacksTyped'
  BY <1>3, <1>4, <1>5, <1>6, SlotTyped
<1> QED
  BY <1>7 DEF Callback, TypeOK, CallbacksTyped

LEMMA TakeFlowTypeOK ==
  ASSUME TypeOK, NEW c \in Callbacks, TakeFlow(c)
  PROVE  TypeOK'
<1>1. CallbacksTyped
  BY DEF TypeOK, CallbacksTyped
<1>2. CallbacksTyped'
  <2>1. Answer(c, "unknown") \/ Go(c, "exchange")
    BY DEF TakeFlow
  <2> QED
    BY <1>1, <2>1, AnswerTyped, GoTyped DEF Phases, Problems
<1>3. flow' \in [Flows -> FlowRow \cup {None}]
  BY DEF TakeFlow, WithoutFlow, TypeOK
<1> QED
  BY <1>2, <1>3 DEF TakeFlow, TypeOK, CallbacksTyped

LEMMA ExchangeTypeOK ==
  ASSUME TypeOK, NEW c \in Callbacks, Exchange(c)
  PROVE  TypeOK'
<1>1. CallbacksTyped
  BY DEF TypeOK, CallbacksTyped
<1>2. codes' \subseteq Code
  BY DEF Exchange, TypeOK
<1>3. CallbacksTyped'
  <2>1. CASE Answer(c, "unavailable") \/ Answer(c, "rejected")
    BY <1>1, <2>1, AnswerTyped DEF Problems
  <2>2. CASE ~(Answer(c, "unavailable") \/ Answer(c, "rejected"))
    <3>1. PICK subject \in {callback[c].code[2], None} :
            /\ callback[c].code \in codes
            /\ HasSubject(subject)
            /\ callback' = [callback EXCEPT ![c] = [@ EXCEPT !.pc = "account",
                                                             !.account = subject]]
      BY <2>2 DEF Exchange
    <3>2. subject \in People /\ subject # None
      BY <3>1 DEF HasSubject, TypeOK, Code
    <3>3. PICK s : s = [callback[c] EXCEPT !.pc = "account", !.account = subject]
      OBVIOUS
    <3>4. s \in CallbackState /\ s.account # None
      BY <1>1, <3>2, <3>3 DEF CallbacksTyped, CallbackState, Phases
    <3>5. callback' = [callback EXCEPT ![c] = s]
      BY <3>1, <3>3
    <3> QED
      BY <1>1, <3>4, <3>5, SlotTyped
  <2> QED
    BY <2>1, <2>2
<1> QED
  BY <1>2, <1>3 DEF Exchange, TypeOK, CallbacksTyped

LEMMA ResolveAccountTypeOK ==
  ASSUME TypeOK, NEW c \in Callbacks, ResolveAccount(c)
  PROVE  TypeOK'
<1>1. CallbacksTyped /\ callback[c].account # None
  BY DEF TypeOK, CallbacksTyped, ResolveAccount, At
<1>2. CallbacksTyped'
  <2>1. Answer(c, "disabled") \/ Go(c, "session")
    BY DEF ResolveAccount
  <2> QED
    BY <1>1, <2>1, AnswerTyped, GoTyped DEF Phases, Problems
<1>3. account' \in [People -> Standing]
  BY DEF ResolveAccount, TypeOK, Standing
<1> QED
  BY <1>2, <1>3 DEF ResolveAccount, TypeOK, CallbacksTyped

LEMMA ClockIsNat == TypeOK => clock \in Nat /\ clock + SessionTTL \in Nat
BY SignInAssumption DEF TypeOK

LEMMA CreateSessionTypeOK ==
  ASSUME TypeOK, NEW c \in Callbacks, NEW s \in Sessions, CreateSession(c, s),
         callback[c].state \in Flows, callback[c].browser \in Browsers
  PROVE  TypeOK'
<1>1. CallbacksTyped /\ callback[c].account \in People
  BY DEF TypeOK, CallbacksTyped, CreateSession, At, CallbackState
<1>2. CallbacksTyped'
  BY <1>1, AnswerTyped DEF CreateSession
<1>3. session' \in [Sessions -> SessionRow \cup {None}]
  <2>1. [account |-> callback[c].account, expires |-> clock + SessionTTL,
         revoked |-> FALSE] \in SessionRow
    BY <1>1, ClockIsNat DEF SessionRow
  <2> QED
    BY <2>1, SweepRow DEF CreateSession, SweepSessions, TypeOK
<1>4. started' \in [Sessions -> Start \cup {None}]
  <2>1. [flow |-> callback[c].state, browser |-> callback[c].browser,
         account |-> callback[c].account, at |-> clock] \in Start
    BY <1>1, ClockIsNat DEF Start
  <2> QED
    BY <2>1 DEF CreateSession, TypeOK
<1> QED
  BY <1>2, <1>3, <1>4 DEF CreateSession, TypeOK, CallbacksTyped

LEMMA EndTypeOK ==
  ASSUME TypeOK, NEW c \in Callbacks, Finish(c) \/ Lose(c)
  PROVE  TypeOK'
<1>1. CallbacksTyped
  BY DEF TypeOK, CallbacksTyped
<1>2. CallbacksTyped'
  <2>1. callback' = [callback EXCEPT ![c] = NoCallback]
    BY DEF Finish, Lose
  <2> QED
    BY <1>1, <2>1, NoCallbackType DEF CallbacksTyped, NoCallback
<1>3. cookie' \in [Browsers -> Flows \cup {None}]
  BY DEF Finish, Lose, TypeOK
<1> QED
  BY <1>2, <1>3 DEF Finish, Lose, TypeOK, CallbacksTyped

-----------------------------------------------------------------------------
(* The shape of a step: what becomes of one callback.                      *)

\* A callback between its arrival and its answer, and one that has its flow.
Moving   == {"flow", "exchange", "account", "session"}
Spending == {"exchange", "account", "session"}

\* What such a callback brought with it.
Carries(s) ==
  s.pc \in Moving => /\ s.browser \in Browsers
                     /\ s.state \in Flows
                     /\ s.code \in Code

Carried == \A c \in Callbacks : Carries(callback[c])

\* It comes to the browser its flow began in, as that browser's cookie says.
Arrives(c) ==
  \E b \in Browsers, f \in Flows, code \in Code :
    /\ begun[f] # None
    /\ cookie[b] = f
    /\ callback'[c].pc = "flow"
    /\ callback'[c].browser = b
    /\ callback'[c].state = f
    /\ callback'[c].code = code
    /\ callback'[c].barred = (account[code[2]] = "disabled")
    /\ callback'[c].answer = None

\* It finds its flow, which is gone from then on.
Takes(c) ==
  /\ At(c, "flow")
  /\ flow[callback[c].state] # None
  /\ flow'[callback[c].state] = None
  /\ callback'[c] = [callback[c] EXCEPT !.pc = "exchange"]

\* The provider names the person the code was issued to.
IsNamed(c) ==
  /\ At(c, "exchange")
  /\ callback'[c] = [callback[c] EXCEPT !.pc = "account", !.account = callback[c].code[2]]

\* There is an account for that person, and it may enter.
Resolves(c) ==
  /\ At(c, "account")
  /\ account[callback[c].account] # "disabled"
  /\ account'[callback[c].account] # "none"
  /\ callback'[c] = [callback[c] EXCEPT !.pc = "session"]

\* It is answered, or gone; and signed in only from the last of its steps.
Rests(c) ==
  /\ callback'[c].pc \in {"idle", "answered"}
  /\ callback'[c].answer = "signed_in" =>
       At(c, "session") /\ callback'[c].barred = callback[c].barred

SlotStep(c) ==
  \/ callback'[c] = callback[c]
  \/ Arrives(c)
  \/ Takes(c)
  \/ IsNamed(c)
  \/ Resolves(c)
  \/ Rests(c)

LEMMA AnswerRests ==
  ASSUME TypeOK, NEW c \in Callbacks, NEW answer \in Problems \cup {"signed_in"},
         Answer(c, answer), answer = "signed_in" => At(c, "session")
  PROVE  Rests(c)
<1>1. callback[c].browser \in Browsers \cup {None} /\ callback[c].barred \in BOOLEAN
  BY DEF TypeOK, CallbackState
<1>2. callback'[c] = Answered(callback[c].browser, callback[c].barred, answer)
  BY DEF Answer, TypeOK
<1>3. PICK b, barred : b = callback[c].browser /\ barred = callback[c].barred
  OBVIOUS
<1> QED
  BY <1>1, <1>2, <1>3, AnsweredType DEF Rests

LEMMA CallbackStep ==
  ASSUME TypeOK, NEW c \in Callbacks, NEW b \in Browsers, NEW k \in Kinds,
         NEW code \in codes, NEW f \in Flows, Callback(c, b, k, code, f)
  PROVE  SlotStep(c)
<1>1. code \in Code
  BY DEF TypeOK
<1>2. PICK barred \in BOOLEAN : barred = (account[code[2]] = "disabled")
  OBVIOUS
<1>3. callback'[c] = IF SameBrowser(b, f)
                     THEN [NoCallback EXCEPT !.pc = "flow", !.browser = b, !.kind = k,
                                             !.state = f, !.code = code, !.barred = barred]
                     ELSE Answered(b, barred, "mismatch")
  BY <1>2 DEF Callback, TypeOK
<1>4. CASE SameBrowser(b, f)
  <2>1. callback'[c] = [NoCallback EXCEPT !.pc = "flow", !.browser = b, !.kind = k,
                                          !.state = f, !.code = code, !.barred = barred]
    BY <1>3, <1>4
  <2>2. /\ callback'[c].pc = "flow"
        /\ callback'[c].browser = b
        /\ callback'[c].state = f
        /\ callback'[c].code = code
        /\ callback'[c].answer = None
    BY <2>1 DEF NoCallback
  <2>3. callback'[c].barred = barred
    BY <2>1 DEF NoCallback
  <2>4. begun[f] # None /\ cookie[b] = f
    BY <1>4 DEF Callback, SameBrowser
  <2> QED
    BY <1>1, <1>2, <2>2, <2>3, <2>4 DEF SlotStep, Arrives
<1>5. CASE ~SameBrowser(b, f)
  <2>1. callback'[c] = Answered(b, barred, "mismatch")
    BY <1>3, <1>5
  <2>2. callback'[c].pc = "answered" /\ callback'[c].answer = "mismatch"
    BY <2>1, AnsweredType DEF Problems
  <2> QED
    BY <2>2 DEF SlotStep, Rests
<1> QED
  BY <1>4, <1>5

LEMMA LoginStep ==
  ASSUME TypeOK, Carried, NEW c \in Callbacks, Login(c)
  PROVE  SlotStep(c)
<1>0. callback \in [Callbacks -> CallbackState] /\ callback[c] \in CallbackState
  BY DEF TypeOK
<1>1. CASE TakeFlow(c)
  <2>1. CASE Answer(c, "unknown")
    BY <2>1, AnswerRests DEF SlotStep, Problems
  <2>2. CASE ~Answer(c, "unknown")
    <3>1. At(c, "flow") /\ flow[callback[c].state] # None /\ Go(c, "exchange")
      BY <1>1, <2>2 DEF TakeFlow
    <3>2. callback[c].state \in Flows
      BY <3>1 DEF Carried, Carries, At, Moving
    <3>3. flow'[callback[c].state] = None
      BY <1>1, <3>2 DEF TakeFlow, WithoutFlow, TypeOK
    <3>4. callback'[c] = [callback[c] EXCEPT !.pc = "exchange"]
      BY <1>0, <3>1 DEF Go
    <3> QED
      BY <3>1, <3>3, <3>4 DEF SlotStep, Takes
  <2> QED
    BY <2>1, <2>2
<1>2. CASE Exchange(c)
  <2>1. CASE Answer(c, "unavailable") \/ Answer(c, "rejected")
    BY <2>1, AnswerRests DEF SlotStep, Problems
  <2>2. CASE ~(Answer(c, "unavailable") \/ Answer(c, "rejected"))
    <3>1. PICK subject \in {callback[c].code[2], None} :
            /\ HasSubject(subject)
            /\ callback' = [callback EXCEPT ![c] = [@ EXCEPT !.pc = "account",
                                                             !.account = subject]]
      BY <1>2, <2>2 DEF Exchange
    <3>2. subject = callback[c].code[2]
      BY <3>1 DEF HasSubject
    <3>3. callback'[c] = [callback[c] EXCEPT !.pc = "account", !.account = subject]
      BY <1>0, <3>1
    <3> QED
      BY <1>2, <3>2, <3>3 DEF SlotStep, IsNamed, Exchange, ProviderAnswers
  <2> QED
    BY <2>1, <2>2
<1>3. CASE ResolveAccount(c)
  <2>1. CASE ~MayEnter(callback[c].account)
    BY <1>3, <2>1, AnswerRests DEF ResolveAccount, SlotStep, Problems
  <2>2. CASE MayEnter(callback[c].account)
    <3>1. /\ At(c, "account")
          /\ account' = [account EXCEPT ![callback[c].account] =
                                          IF @ = "none" THEN "active" ELSE @]
          /\ Go(c, "session")
      BY <1>3, <2>2 DEF ResolveAccount
    <3>2. callback[c].account \in People
      BY <1>0, <3>1 DEF At, TypeOK, CallbackState
    <3>3. account'[callback[c].account] # "none"
      BY <3>1, <3>2 DEF TypeOK
    <3>4. callback'[c] = [callback[c] EXCEPT !.pc = "session"]
      BY <1>0, <3>1 DEF Go
    <3> QED
      BY <2>2, <3>1, <3>3, <3>4 DEF SlotStep, Resolves, MayEnter
  <2> QED
    BY <2>1, <2>2
<1>4. ASSUME NEW s \in Sessions, CreateSession(c, s) PROVE SlotStep(c)
  BY <1>4, AnswerRests DEF CreateSession, SlotStep
<1> QED
  BY <1>1, <1>2, <1>3, <1>4 DEF Login

LEMMA EndStep ==
  ASSUME TypeOK, NEW c \in Callbacks, Finish(c) \/ Lose(c)
  PROVE  SlotStep(c)
<1>1. callback'[c] = NoCallback
  BY DEF Finish, Lose, TypeOK
<1>2. NoCallback.pc = "idle" /\ NoCallback.answer = None
  BY DEF NoCallback
<1> QED
  BY <1>1, <1>2, NoneIsNoAnswer DEF SlotStep, Rests

\* Every step of the system is one of these, to each callback.
LEMMA EverySlotStep ==
  ASSUME TypeOK, Carried, [Next]_vars, NEW d \in Callbacks
  PROVE  SlotStep(d)
<1>1. CASE callback'[d] = callback[d]
  BY <1>1 DEF SlotStep
<1>2. ASSUME NEW c \in Callbacks, Login(c) PROVE SlotStep(d)
  <2>1. d # c => callback'[d] = callback[d]
    BY <1>2 DEF Login, TakeFlow, Exchange, ResolveAccount, CreateSession, Answer, Go, TypeOK
  <2> QED
    BY <1>1, <1>2, <2>1, LoginStep
<1>3. ASSUME NEW c \in Callbacks, Finish(c) \/ Lose(c) PROVE SlotStep(d)
  <2>1. d # c => callback'[d] = callback[d]
    BY <1>3 DEF Finish, Lose, TypeOK
  <2> QED
    BY <1>1, <1>3, <2>1, EndStep
<1>4. ASSUME NEW c \in Callbacks, NEW b \in Browsers, NEW k \in Kinds,
             NEW code \in codes, NEW f \in Flows, Callback(c, b, k, code, f)
      PROVE  SlotStep(d)
  <2>1. d # c => callback'[d] = callback[d]
    BY <1>4 DEF Callback, TypeOK
  <2> QED
    BY <1>1, <1>4, <2>1, CallbackStep
<1>5. CASE UNCHANGED callback
  BY <1>1, <1>5
<1> QED
  BY <1>2, <1>3, <1>4, <1>5 DEF Next, Begin, Consent, Disable, Tick, vars

LEMMA CarriedStep ==
  ASSUME TypeOK, Carried, [Next]_vars
  PROVE  Carried'
<1> SUFFICES ASSUME NEW c \in Callbacks PROVE Carries(callback'[c])
  BY DEF Carried, Carries
<1>1. SlotStep(c) /\ callback[c] \in CallbackState /\ Carries(callback[c])
  BY EverySlotStep DEF TypeOK, Carried
<1>2. CASE callback'[c] = callback[c]
  BY <1>1, <1>2
<1>3. CASE Arrives(c)
  BY <1>3 DEF Arrives, Carries
<1>4. CASE Takes(c) \/ IsNamed(c) \/ Resolves(c)
  <2>1. /\ callback[c].pc \in Moving
        /\ callback'[c].browser = callback[c].browser
        /\ callback'[c].state = callback[c].state
        /\ callback'[c].code = callback[c].code
    BY <1>1, <1>4 DEF Takes, IsNamed, Resolves, At, Moving, CallbackState
  <2> QED
    BY <1>1, <2>1 DEF Carries
<1>5. CASE Rests(c)
  BY <1>5 DEF Rests, Carries, Moving
<1> QED
  BY <1>1, <1>2, <1>3, <1>4, <1>5 DEF SlotStep

LEMMA NextTypeOK ==
  ASSUME TypeOK, Carried, [Next]_vars
  PROVE  TypeOK'
<1>1. ASSUME NEW b \in Browsers, NEW f \in Flows, NEW k \in Kinds, Begin(b, f, k)
      PROVE  TypeOK'
  BY <1>1, BeginTypeOK
<1>2. ASSUME NEW f \in Flows, NEW a \in People, Consent(f, a) PROVE TypeOK'
  BY <1>2 DEF Consent, TypeOK, Code
<1>3. ASSUME NEW c \in Callbacks, NEW b \in Browsers, NEW k \in Kinds,
             NEW code \in codes, NEW f \in Flows, Callback(c, b, k, code, f)
      PROVE  TypeOK'
  BY <1>3, CallbackTypeOK
<1>4. ASSUME NEW c \in Callbacks, Login(c) PROVE TypeOK'
  <2>1. ASSUME NEW s \in Sessions, CreateSession(c, s) PROVE TypeOK'
    <3>1. callback[c].state \in Flows /\ callback[c].browser \in Browsers
      BY <2>1 DEF CreateSession, At, Carried, Carries, Moving
    <3> QED
      BY <2>1, <3>1, CreateSessionTypeOK
  <2> QED
    BY <1>4, <2>1, TakeFlowTypeOK, ExchangeTypeOK, ResolveAccountTypeOK DEF Login
<1>5. ASSUME NEW c \in Callbacks, Finish(c) \/ Lose(c) PROVE TypeOK'
  BY <1>5, EndTypeOK
<1>6. ASSUME NEW a \in People, Disable(a) PROVE TypeOK'
  BY <1>6 DEF Disable, TypeOK, Standing
<1>7. CASE Tick
  BY <1>7, SignInAssumption DEF Tick, TypeOK
<1>8. CASE UNCHANGED vars
  BY <1>8 DEF vars, TypeOK
<1> QED
  BY <1>1, <1>2, <1>3, <1>4, <1>5, <1>6, <1>7, <1>8 DEF Next

Typed == TypeOK /\ Carried

LEMMA TypedAlways == Spec => []Typed
<1>1. Init => Typed
  BY InitTypeOK DEF Init, Typed, Carried, Carries, NoCallback, Moving
<1>2. Typed /\ [Next]_vars => Typed'
  BY NextTypeOK, CarriedStep DEF Typed
<1> QED
  BY <1>1, <1>2, PTL DEF Spec

(***************************************************************************)
(* Every table keeps its type, and nobody gets as far as an account whom   *)
(* the provider did not name: a callback in flight carries its browser,    *)
(* its flow and its code through every step.                               *)
(***************************************************************************)
THEOREM TypeCorrect == Spec => []TypeOK
BY TypedAlways, PTL DEF Typed

-----------------------------------------------------------------------------
(* What a step never takes back.                                           *)

LEMMA Begun ==
  ASSUME TypeOK, [Next]_vars, NEW f \in Flows, begun[f] # None
  PROVE  begun'[f] = begun[f] /\ (flow[f] = None => flow'[f] = None)
<1>1. ASSUME NEW b \in Browsers, NEW g \in Flows, NEW k \in Kinds, Begin(b, g, k)
      PROVE  begun'[f] = begun[f] /\ (flow[f] = None => flow'[f] = None)
  <2>1. g # f
    BY <1>1 DEF Begin
  <2>2. begun'[f] = begun[f] /\ flow'[f] = Sweep(flow)[f]
    BY <1>1, <2>1, SweepRow DEF Begin, SweepFlows, TypeOK
  <2>3. flow \in [Flows -> FlowRow \cup {None}]
    BY DEF TypeOK
  <2>4. Sweep(flow)[f] \in {None, flow[f]}
    BY <2>3 DEF Sweep
  <2> QED
    BY <2>2, <2>4
<1>2. ASSUME NEW c \in Callbacks, TakeFlow(c)
      PROVE  begun'[f] = begun[f] /\ (flow[f] = None => flow'[f] = None)
  BY <1>2 DEF TakeFlow, WithoutFlow, TypeOK
<1>3. CASE UNCHANGED <<begun, flow>>
  BY <1>3
<1> QED
  BY <1>1, <1>2, <1>3 DEF Next, Consent, Callback, Login, Exchange, ResolveAccount,
     CreateSession, Finish, Lose, Disable, Tick, vars

LEMMA AccountStays ==
  ASSUME TypeOK, [Next]_vars, NEW a \in People
  PROVE  /\ account[a] = "disabled" => account'[a] = "disabled"
         /\ account[a] # "none" => account'[a] # "none"
<1>1. ASSUME NEW c \in Callbacks, ResolveAccount(c)
      PROVE  /\ account[a] = "disabled" => account'[a] = "disabled"
             /\ account[a] # "none" => account'[a] # "none"
  BY <1>1 DEF ResolveAccount, TypeOK
<1>2. ASSUME NEW b \in People, Disable(b)
      PROVE  /\ account[a] = "disabled" => account'[a] = "disabled"
             /\ account[a] # "none" => account'[a] # "none"
  BY <1>2 DEF Disable, TypeOK
<1>3. CASE UNCHANGED account
  BY <1>3
<1> QED
  BY <1>1, <1>2, <1>3 DEF Next, Begin, Consent, Callback, Login, TakeFlow, Exchange,
     CreateSession, Finish, Lose, Tick, vars

\* A session starts at the last step of a callback, and once.
LEMMA Started ==
  ASSUME TypeOK, [Next]_vars
  PROVE  \/ UNCHANGED <<started, session>>
         \/ \E c \in Callbacks, s \in Sessions : CreateSession(c, s)
BY DEF Next, Begin, Consent, Callback, Login, TakeFlow, Exchange, ResolveAccount,
   Finish, Lose, Disable, Tick, vars

\* What a start leaves behind.
LEMMA StartLeaves ==
  ASSUME Typed, NEW c \in Callbacks, NEW s \in Sessions, CreateSession(c, s)
  PROVE  /\ At(c, "session")
         /\ started[s] = None
         /\ callback[c].state \in Flows
         /\ callback[c].browser \in Browsers
         /\ callback[c].account \in People
         /\ started'[s] = [flow |-> callback[c].state, browser |-> callback[c].browser,
                           account |-> callback[c].account, at |-> clock]
         /\ started'[s] # None
         /\ \A t \in Sessions : t # s => started'[t] = started[t]
<1>1. /\ At(c, "session")
      /\ callback[c].state \in Flows
      /\ callback[c].browser \in Browsers
      /\ callback[c].account \in People
  BY DEF CreateSession, At, Typed, TypeOK, CallbackState, Carried, Carries, Moving
<1>2. [flow |-> callback[c].state, browser |-> callback[c].browser,
       account |-> callback[c].account, at |-> clock] \in Start
  BY <1>1, ClockIsNat DEF Start, Typed
<1> QED
  BY <1>1, <1>2, NoneIsNoRow DEF CreateSession, Typed, TypeOK

-----------------------------------------------------------------------------
(* A sign-in ends in the browser it began in.                              *)

\* A browser's cookie is for a flow that began in it, and a callback is in the
\* browser its flow began in.
CookiesAreOwn ==
  \A b \in Browsers :
    cookie[b] # None => begun[cookie[b]] # None /\ begun[cookie[b]].browser = b

AtHome(s) ==
  s.pc \in Moving => begun[s.state] # None /\ begun[s.state].browser = s.browser

StartedAtHome ==
  \A s \in Sessions :
    started[s] # None => /\ begun[started[s].flow] # None
                         /\ started[s].browser = begun[started[s].flow].browser

LEMMA CookiesAreOwnStep ==
  ASSUME Typed, CookiesAreOwn, [Next]_vars
  PROVE  CookiesAreOwn'
<1> USE DEF Typed
<1> SUFFICES ASSUME NEW b \in Browsers, cookie'[b] # None
             PROVE  begun'[cookie'[b]] # None /\ begun'[cookie'[b]].browser = b
  BY DEF CookiesAreOwn
<1>1. CASE cookie'[b] = cookie[b]
  <2>1. PICK f \in Flows : f = cookie[b]
    BY <1>1 DEF TypeOK
  <2>2. begun[f] # None /\ begun[f].browser = b
    BY <1>1, <2>1 DEF CookiesAreOwn
  <2>3. begun'[f] = begun[f]
    BY <2>2, Begun
  <2> QED
    BY <1>1, <2>1, <2>2, <2>3
<1>2. ASSUME NEW b2 \in Browsers, NEW f \in Flows, NEW k \in Kinds, Begin(b2, f, k)
      PROVE  begun'[cookie'[b]] # None /\ begun'[cookie'[b]].browser = b
  <2>1. CASE b = b2
    <3>1. cookie'[b] = f /\ begun'[f] = [browser |-> b, at |-> clock]
      BY <1>2, <2>1 DEF Begin, TypeOK
    <3>2. [browser |-> b, at |-> clock] \in Beginning
      BY ClockIsNat DEF Beginning
    <3> QED
      BY <3>1, <3>2, NoneIsNoRow
  <2>2. CASE b # b2
    BY <1>1, <1>2, <2>2 DEF Begin, TypeOK
  <2> QED
    BY <2>1, <2>2
<1>3. ASSUME NEW c \in Callbacks, Finish(c)
      PROVE  cookie'[b] = cookie[b]
  BY <1>3 DEF Finish, TypeOK
<1>4. CASE UNCHANGED cookie
  BY <1>1, <1>4
<1> QED
  BY <1>1, <1>2, <1>3, <1>4 DEF Next, Consent, Callback, Login, TakeFlow, Exchange,
     ResolveAccount, CreateSession, Lose, Disable, Tick, vars

LEMMA AtHomeStep ==
  ASSUME Typed, CookiesAreOwn, [Next]_vars, NEW c \in Callbacks, AtHome(callback[c])
  PROVE  AtHome(callback[c])'
<1> USE DEF Typed
<1> SUFFICES ASSUME callback'[c].pc \in Moving
             PROVE  /\ begun'[callback'[c].state] # None
                    /\ begun'[callback'[c].state].browser = callback'[c].browser
  BY DEF AtHome
<1>1. SlotStep(c) /\ callback[c] \in CallbackState /\ Carries(callback[c])
  BY EverySlotStep DEF TypeOK, Carried
<1>2. CASE /\ callback[c].pc \in Moving
           /\ callback'[c].state = callback[c].state
           /\ callback'[c].browser = callback[c].browser
  <2>1. PICK f \in Flows : f = callback[c].state
    BY <1>1, <1>2 DEF Carries
  <2>2. begun[f] # None /\ begun[f].browser = callback[c].browser
    BY <1>2, <2>1 DEF AtHome
  <2>3. begun'[f] = begun[f]
    BY <2>2, Begun
  <2> QED
    BY <1>2, <2>1, <2>2, <2>3
<1>3. CASE callback'[c] = callback[c]
  BY <1>2, <1>3
<1>4. CASE Arrives(c)
  <2>1. PICK b \in Browsers, f \in Flows :
          /\ begun[f] # None /\ cookie[b] = f
          /\ callback'[c].browser = b /\ callback'[c].state = f
    BY <1>4 DEF Arrives
  <2>2. begun[f].browser = b
    BY <2>1, SignInAssumption DEF CookiesAreOwn
  <2>3. begun'[f] = begun[f]
    BY <2>1, Begun
  <2> QED
    BY <2>1, <2>2, <2>3
<1>5. CASE Takes(c) \/ IsNamed(c) \/ Resolves(c)
  BY <1>1, <1>2, <1>5 DEF Takes, IsNamed, Resolves, At, Moving, CallbackState
<1>6. CASE Rests(c)
  BY <1>6 DEF Rests, Moving
<1> QED
  BY <1>1, <1>3, <1>4, <1>5, <1>6 DEF SlotStep

LEMMA StartedAtHomeStep ==
  ASSUME Typed, StartedAtHome, [Next]_vars, \A c \in Callbacks : AtHome(callback[c])
  PROVE  StartedAtHome'
<1> USE DEF Typed
<1> SUFFICES ASSUME NEW s \in Sessions, started'[s] # None
             PROVE  /\ begun'[started'[s].flow] # None
                    /\ started'[s].browser = begun'[started'[s].flow].browser
  BY DEF StartedAtHome
<1>1. CASE started'[s] = started[s]
  <2>1. PICK f \in Flows : f = started[s].flow
    BY <1>1 DEF TypeOK, Start
  <2>2. begun[f] # None /\ started[s].browser = begun[f].browser
    BY <1>1, <2>1 DEF StartedAtHome
  <2>3. begun'[f] = begun[f]
    BY <2>2, Begun
  <2> QED
    BY <1>1, <2>1, <2>2, <2>3
<1>2. CASE started'[s] # started[s]
  <2>1. PICK c \in Callbacks : CreateSession(c, s)
    BY <1>2, Started, StartLeaves
  <2>2. PICK f, b : f \in Flows /\ f = callback[c].state /\ b = callback[c].browser
    BY <2>1, StartLeaves
  <2>3. started'[s].flow = f /\ started'[s].browser = b
    <3>1. started'[s] = [flow |-> callback[c].state, browser |-> callback[c].browser,
                         account |-> callback[c].account, at |-> clock]
      BY <2>1, StartLeaves
    <3> QED
      BY <2>2, <3>1
  <2>4. begun[f] # None /\ begun[f].browser = b
    BY <2>1, <2>2, StartLeaves DEF AtHome, At, Moving
  <2>5. begun'[f] = begun[f]
    BY <2>2, <2>4, Begun
  <2> QED
    BY <2>3, <2>4, <2>5
<1> QED
  BY <1>1, <1>2

Home == /\ CookiesAreOwn
        /\ \A c \in Callbacks : AtHome(callback[c])
        /\ StartedAtHome

LEMMA HomeAlways == Spec => []Home
<1>1. Init => Home
  BY DEF Init, Home, CookiesAreOwn, AtHome, StartedAtHome, NoCallback, Moving
<1>2. Typed /\ Home /\ [Next]_vars => Home'
  BY CookiesAreOwnStep, AtHomeStep, StartedAtHomeStep DEF Home
<1> QED
  BY <1>1, <1>2, TypedAlways, PTL DEF Spec

(***************************************************************************)
(* A session is given to the browser its flow began in, whatever links are *)
(* followed in which browser and however callbacks interleave: the cookie  *)
(* of a browser only ever names a flow of its own.                         *)
(***************************************************************************)
THEOREM SignInStays == Spec => []SignInStaysInItsBrowser
<1>1. Home => SignInStaysInItsBrowser
  BY DEF Home, StartedAtHome, SignInStaysInItsBrowser
<1> QED
  BY <1>1, HomeAlways, PTL

-----------------------------------------------------------------------------
(* A flow is good for one session.                                         *)

\* A step moves one callback at most.
LEMMA OneMoves ==
  ASSUME TypeOK, [Next]_vars, NEW c \in Callbacks, NEW d \in Callbacks, c # d
  PROVE  callback'[c] = callback[c] \/ callback'[d] = callback[d]
<1>1. ASSUME NEW e \in Callbacks, Login(e)
      PROVE  callback'[c] = callback[c] \/ callback'[d] = callback[d]
  BY <1>1 DEF Login, TakeFlow, Exchange, ResolveAccount, CreateSession, Answer, Go, TypeOK
<1>2. ASSUME NEW e \in Callbacks, Finish(e) \/ Lose(e)
      PROVE  callback'[c] = callback[c] \/ callback'[d] = callback[d]
  BY <1>2 DEF Finish, Lose, TypeOK
<1>3. ASSUME NEW e \in Callbacks, NEW b \in Browsers, NEW k \in Kinds,
             NEW code \in codes, NEW f \in Flows, Callback(e, b, k, code, f)
      PROVE  callback'[c] = callback[c] \/ callback'[d] = callback[d]
  BY <1>3 DEF Callback, TypeOK
<1>4. CASE UNCHANGED callback
  BY <1>4
<1> QED
  BY <1>1, <1>2, <1>3, <1>4 DEF Next, Begin, Consent, Disable, Tick, vars

Spends(c) == callback[c].pc \in Spending

\* A callback that has its flow had it before, or takes it now.
LEMMA SpendsAfter ==
  ASSUME Typed, [Next]_vars, NEW c \in Callbacks, Spends(c)'
  PROVE  /\ callback'[c].state = callback[c].state
         /\ callback[c].state \in Flows
         /\ callback[c].pc \in Moving
         /\ Spends(c) \/ Takes(c)
<1> USE DEF Typed
<1>1. SlotStep(c) /\ callback[c] \in CallbackState /\ Carries(callback[c])
  BY EverySlotStep DEF TypeOK, Carried
<1>2. CASE callback'[c] = callback[c]
  BY <1>1, <1>2 DEF Spends, Spending, Moving, Carries
<1>3. CASE Takes(c) \/ IsNamed(c) \/ Resolves(c)
  BY <1>1, <1>3 DEF Takes, IsNamed, Resolves, At, Spends, Spending, Moving, Carries,
     CallbackState
<1>4. CASE Arrives(c) \/ Rests(c)
  BY <1>4 DEF Arrives, Rests, Spends, Spending
<1> QED
  BY <1>1, <1>2, <1>3, <1>4 DEF SlotStep

\* Whoever has a flow has it alone, and its row is gone; so is that of a flow
\* that became a session, which nobody else has.
FlowTaken(c) == Spends(c) => flow[callback[c].state] = None

Sole ==
  \A c, d \in Callbacks :
    Spends(c) /\ Spends(d) /\ callback[c].state = callback[d].state => c = d

FlowSpent ==
  \A s \in Sessions : started[s] # None => flow[started[s].flow] = None

Unshared ==
  \A c \in Callbacks, s \in Sessions :
    Spends(c) /\ started[s] # None => started[s].flow # callback[c].state

SpentOnce == /\ \A c \in Callbacks : FlowTaken(c)
             /\ Sole
             /\ FlowSpent
             /\ Unshared
             /\ OneSessionPerFlow

LEMMA FlowTakenStep ==
  ASSUME Typed, Home, [Next]_vars, NEW c \in Callbacks, FlowTaken(c)
  PROVE  FlowTaken(c)'
<1> SUFFICES ASSUME Spends(c)' PROVE flow'[callback'[c].state] = None
  BY DEF FlowTaken
<1>1. PICK f \in Flows : f = callback[c].state /\ f = callback'[c].state
  BY SpendsAfter
<1>2. CASE Takes(c)
  BY <1>1, <1>2 DEF Takes
<1>3. CASE Spends(c)
  <2>1. begun[f] # None /\ flow[f] = None
    BY <1>1, <1>3 DEF Home, AtHome, FlowTaken, Spends, Spending, Moving
  <2> QED
    BY <1>1, <2>1, Begun DEF Typed
<1> QED
  BY <1>2, <1>3, SpendsAfter

LEMMA SoleStep ==
  ASSUME Typed, Sole, [Next]_vars, \A c \in Callbacks : FlowTaken(c)
  PROVE  Sole'
<1> SUFFICES ASSUME NEW c \in Callbacks, NEW d \in Callbacks, Spends(c)', Spends(d)',
                    callback'[c].state = callback'[d].state, c # d
             PROVE  FALSE
  BY DEF Sole
<1>1. /\ callback[c].state = callback[d].state
      /\ Spends(c) \/ Takes(c)
      /\ Spends(d) \/ Takes(d)
  BY SpendsAfter
<1>2. ~(Spends(c) /\ Spends(d))
  BY <1>1 DEF Sole
<1>3. ~(Spends(c) /\ Takes(d)) /\ ~(Spends(d) /\ Takes(c))
  BY <1>1 DEF FlowTaken, Takes
<1>4. ~(Takes(c) /\ Takes(d))
  <2>1. Takes(c) => callback'[c] # callback[c]
    BY DEF Takes, At, Typed, TypeOK, CallbackState
  <2>2. Takes(d) => callback'[d] # callback[d]
    BY DEF Takes, At, Typed, TypeOK, CallbackState
  <2> QED
    BY <2>1, <2>2, OneMoves DEF Typed
<1> QED
  BY <1>1, <1>2, <1>3, <1>4

LEMMA FlowSpentStep ==
  ASSUME Typed, Home, FlowSpent, [Next]_vars, \A c \in Callbacks : FlowTaken(c)
  PROVE  FlowSpent'
<1> SUFFICES ASSUME NEW s \in Sessions, started'[s] # None
             PROVE  flow'[started'[s].flow] = None
  BY DEF FlowSpent
<1>1. PICK f \in Flows : f = started'[s].flow /\ begun[f] # None /\ flow[f] = None
  <2>1. CASE started'[s] = started[s]
    BY <2>1 DEF Typed, TypeOK, Start, Home, StartedAtHome, FlowSpent
  <2>2. CASE started'[s] # started[s]
    <3>1. PICK c \in Callbacks : CreateSession(c, s)
      BY <2>2, Started, StartLeaves DEF Typed
    <3>2. PICK f \in Flows : f = callback[c].state
      BY <3>1, StartLeaves
    <3>3. started'[s] = [flow |-> callback[c].state, browser |-> callback[c].browser,
                         account |-> callback[c].account, at |-> clock]
      BY <3>1, StartLeaves
    <3>4. started'[s].flow = f
      BY <3>2, <3>3
    <3>5. callback[c].pc = "session"
      BY <3>1, StartLeaves DEF At
    <3>6. begun[f] # None /\ flow[f] = None
      BY <3>2, <3>5 DEF Home, AtHome, FlowTaken, Spends, Spending, Moving
    <3> QED
      BY <3>4, <3>6
  <2> QED
    BY <2>1, <2>2
<1> QED
  BY <1>1, Begun DEF Typed

\* A session that has just started is of a flow that no other callback has.
LEMMA UnsharedStep ==
  ASSUME Typed, Sole, FlowSpent, Unshared, [Next]_vars,
         \A c \in Callbacks : FlowTaken(c)
  PROVE  Unshared'
<1> SUFFICES ASSUME NEW d \in Callbacks, NEW s \in Sessions, Spends(d)', started'[s] # None,
                    started'[s].flow = callback'[d].state
             PROVE  FALSE
  BY DEF Unshared
<1>1. /\ callback'[d].state = callback[d].state
      /\ Spends(d) \/ Takes(d)
  BY SpendsAfter
<1>2. CASE started'[s] = started[s]
  BY <1>1, <1>2 DEF Unshared, FlowSpent, Takes
<1>3. CASE started'[s] # started[s]
  <2>1. PICK c \in Callbacks : CreateSession(c, s)
    BY <1>3, Started, StartLeaves DEF Typed
  <2>2. started'[s] = [flow |-> callback[c].state, browser |-> callback[c].browser,
                       account |-> callback[c].account, at |-> clock]
    BY <2>1, StartLeaves
  <2>3. callback[c].state = callback[d].state
    BY <1>1, <2>2
  <2>4. Spends(c)
    BY <2>1, StartLeaves DEF At, Spends, Spending
  <2>5. ~Takes(d)
    BY <2>3, <2>4 DEF FlowTaken, Takes
  <2>6. c = d
    BY <1>1, <2>3, <2>4, <2>5 DEF Sole
  <2>7. callback'[c].pc = "answered"
    BY <2>1 DEF CreateSession, Answer, Answered, NoCallback, Typed, TypeOK
  <2> QED
    BY <2>6, <2>7 DEF Spends, Spending
<1> QED
  BY <1>2, <1>3

LEMMA OneSessionStep ==
  ASSUME Typed, Unshared, OneSessionPerFlow, [Next]_vars
  PROVE  OneSessionPerFlow'
<1>1. ASSUME NEW c \in Callbacks, NEW s \in Sessions, CreateSession(c, s),
             NEW t \in Sessions, t # s, started'[t] # None
      PROVE  started'[t].flow # started'[s].flow
  <2>1. started'[s] = [flow |-> callback[c].state, browser |-> callback[c].browser,
                       account |-> callback[c].account, at |-> clock]
    BY <1>1, StartLeaves
  <2>2. started'[t] = started[t]
    BY <1>1, StartLeaves
  <2>3. Spends(c)
    BY <1>1, StartLeaves DEF At, Spends, Spending
  <2>4. started[t].flow # callback[c].state
    BY <1>1, <2>2, <2>3 DEF Unshared
  <2> QED
    BY <2>1, <2>2, <2>4
<1>2. CASE UNCHANGED started
  BY <1>2 DEF OneSessionPerFlow
<1>3. ASSUME NEW c \in Callbacks, NEW s \in Sessions, CreateSession(c, s)
      PROVE  OneSessionPerFlow'
  <2>1. \A t \in Sessions : t # s => started'[t] = started[t]
    BY <1>3, StartLeaves
  <2> QED
    BY <1>1, <1>3, <2>1 DEF OneSessionPerFlow
<1> QED
  BY <1>2, <1>3, Started DEF Typed

LEMMA SpentOnceAlways == Spec => []SpentOnce
<1>1. Init => SpentOnce
  BY DEF Init, SpentOnce, FlowTaken, Sole, FlowSpent, Unshared, OneSessionPerFlow, Spends,
     NoCallback, Spending
<1>2. Typed /\ Home /\ SpentOnce /\ [Next]_vars => SpentOnce'
  BY FlowTakenStep, SoleStep, FlowSpentStep, UnsharedStep, OneSessionStep DEF SpentOnce
<1> QED
  BY <1>1, <1>2, TypedAlways, HomeAlways, PTL DEF Spec

(***************************************************************************)
(* A flow is good for one session at most, whatever is repeated and        *)
(* however callbacks race: who has taken a flow has taken it alone, and a  *)
(* row that is gone never comes back.                                      *)
(***************************************************************************)
THEOREM FlowsAreSpentOnce == Spec => []OneSessionPerFlow
BY SpentOnceAlways, PTL DEF SpentOnce

-----------------------------------------------------------------------------
(* Who was switched off stays out.                                         *)

\* Whoever a callback is for was switched off before it came and is so still, if
\* it says so; and it does not say so any more once the account was let in.
Barring(s) ==
  /\ s.pc \in {"flow", "exchange"} /\ s.barred => account[s.code[2]] = "disabled"
  /\ s.pc = "account" /\ s.barred => account[s.account] = "disabled"
  /\ s.pc = "session" => ~s.barred /\ account[s.account] # "none"
  /\ s.answer = "signed_in" => ~s.barred

StartedForAccounts ==
  \A s \in Sessions : started[s] # None => account[started[s].account] # "none"

LEMMA BarringStep ==
  ASSUME Typed, [Next]_vars, NEW c \in Callbacks, Barring(callback[c])
  PROVE  Barring(callback[c])'
<1> USE DEF Typed
<1>0. SlotStep(c) /\ callback[c] \in CallbackState /\ Carries(callback[c])
  BY EverySlotStep DEF TypeOK, Carried
<1>1. /\ callback[c].pc \in {"flow", "exchange"} => callback[c].code[2] \in People
      /\ callback[c].pc \in {"account", "session"} => callback[c].account \in People
  BY <1>0 DEF Carries, Moving, Code, TypeOK, CallbackState
<1>2. CASE callback'[c] = callback[c]
  <2>1. /\ callback[c].pc \in {"flow", "exchange"} =>
             (account[callback[c].code[2]] = "disabled" =>
                account'[callback[c].code[2]] = "disabled")
        /\ callback[c].pc \in {"account", "session"} =>
             /\ account[callback[c].account] = "disabled" =>
                  account'[callback[c].account] = "disabled"
             /\ account[callback[c].account] # "none" =>
                  account'[callback[c].account] # "none"
    BY <1>1, AccountStays
  <2> QED
    BY <1>2, <2>1 DEF Barring
<1>3. CASE Arrives(c)
  <2>1. PICK code \in Code :
          /\ callback'[c].pc = "flow"
          /\ callback'[c].code = code
          /\ callback'[c].barred = (account[code[2]] = "disabled")
          /\ callback'[c].answer = None
    BY <1>3 DEF Arrives
  <2>2. code[2] \in People
    BY DEF Code
  <2>3. callback'[c].barred => account'[code[2]] = "disabled"
    BY <2>1, <2>2, AccountStays
  <2> QED
    BY <2>1, <2>3, NoneIsNoAnswer DEF Barring
<1>4. CASE Takes(c)
  <2>1. /\ callback[c].pc = "flow" /\ callback'[c].pc = "exchange"
        /\ callback'[c].code = callback[c].code
        /\ callback'[c].barred = callback[c].barred
        /\ callback'[c].answer = callback[c].answer
    BY <1>0, <1>4 DEF Takes, At, CallbackState
  <2>2. account[callback[c].code[2]] = "disabled" => account'[callback[c].code[2]] = "disabled"
    BY <1>1, <2>1, AccountStays
  <2> QED
    BY <2>1, <2>2 DEF Barring
<1>5. CASE IsNamed(c)
  <2>1. /\ callback[c].pc = "exchange" /\ callback'[c].pc = "account"
        /\ callback'[c].account = callback[c].code[2]
        /\ callback'[c].barred = callback[c].barred
        /\ callback'[c].answer = callback[c].answer
    BY <1>0, <1>5 DEF IsNamed, At, CallbackState
  <2>2. account[callback[c].code[2]] = "disabled" => account'[callback[c].code[2]] = "disabled"
    BY <1>1, <2>1, AccountStays
  <2> QED
    BY <2>1, <2>2 DEF Barring
<1>6. CASE Resolves(c)
  <2>1. /\ callback[c].pc = "account" /\ callback'[c].pc = "session"
        /\ callback'[c].account = callback[c].account
        /\ callback'[c].barred = callback[c].barred
        /\ callback'[c].answer = callback[c].answer
    BY <1>0, <1>6 DEF Resolves, At, CallbackState
  <2>2. account[callback[c].account] # "disabled" /\ account'[callback[c].account] # "none"
    BY <1>6 DEF Resolves
  <2> QED
    BY <2>1, <2>2 DEF Barring
<1>7. CASE Rests(c)
  <2>1. callback'[c].pc \in {"idle", "answered"}
    BY <1>7 DEF Rests
  <2>2. callback'[c].answer = "signed_in" => ~callback'[c].barred
    BY <1>7 DEF Rests, Barring, At
  <2> QED
    BY <2>1, <2>2 DEF Barring
<1> QED
  BY <1>0, <1>2, <1>3, <1>4, <1>5, <1>6, <1>7 DEF SlotStep

LEMMA StartedForAccountsStep ==
  ASSUME Typed, StartedForAccounts, [Next]_vars, \A c \in Callbacks : Barring(callback[c])
  PROVE  StartedForAccounts'
<1> SUFFICES ASSUME NEW s \in Sessions, started'[s] # None
             PROVE  account'[started'[s].account] # "none"
  BY DEF StartedForAccounts
<1>1. PICK a \in People : a = started'[s].account /\ account[a] # "none"
  <2>1. CASE started'[s] = started[s]
    BY <2>1 DEF Typed, TypeOK, Start, StartedForAccounts
  <2>2. CASE started'[s] # started[s]
    <3>1. PICK c \in Callbacks : CreateSession(c, s)
      BY <2>2, Started, StartLeaves DEF Typed
    <3>2. started'[s] = [flow |-> callback[c].state, browser |-> callback[c].browser,
                         account |-> callback[c].account, at |-> clock]
      BY <3>1, StartLeaves
    <3>3. callback[c].account \in People /\ account[callback[c].account] # "none"
      BY <3>1, StartLeaves DEF Barring, At
    <3> QED
      BY <3>2, <3>3
  <2> QED
    BY <2>1, <2>2
<1> QED
  BY <1>1, AccountStays DEF Typed

LEMMA BarringAlways ==
  Spec => []((\A c \in Callbacks : Barring(callback[c])) /\ StartedForAccounts)
<1> DEFINE BInv == (\A c \in Callbacks : Barring(callback[c])) /\ StartedForAccounts
<1>1. Init => BInv
  BY NoneIsNoAnswer DEF Init, Barring, StartedForAccounts, NoCallback
<1>2. Typed /\ BInv /\ [Next]_vars => BInv'
  BY BarringStep, StartedForAccountsStep
<1> QED
  BY <1>1, <1>2, TypedAlways, PTL DEF Spec

(***************************************************************************)
(* Who was switched off before a callback came is not signed in by it,     *)
(* however long the provider takes; and a session has an account.          *)
(***************************************************************************)
THEOREM OffStaysOut == Spec => []SwitchedOffStaysOut
<1>1. (\A c \in Callbacks : Barring(callback[c])) /\ StartedForAccounts
        => SwitchedOffStaysOut
  BY DEF Barring, StartedForAccounts, SwitchedOffStaysOut
<1> QED
  BY <1>1, BarringAlways, PTL

-----------------------------------------------------------------------------
(* What has expired is swept.                                              *)

\* Nothing began or started later than now.
PastOnly ==
  /\ \A f \in Flows : begun[f] # None => begun[f].at <= clock
  /\ \A s \in Sessions : started[s] # None => started[s].at <= clock

LEMMA SweptStep ==
  ASSUME TypeOK, [Next]_vars, PastOnly, ExpiredRowsAreSwept
  PROVE  PastOnly' /\ ExpiredRowsAreSwept'
<1>0. clock \in Nat
  BY ClockIsNat
<1>1. ASSUME NEW b \in Browsers, NEW f \in Flows, NEW k \in Kinds, Begin(b, f, k)
      PROVE  PastOnly' /\ ExpiredRowsAreSwept'
  <2>1. /\ flow'[f] = [kind |-> k, expires |-> clock + FlowTTL]
        /\ begun'[f] = [browser |-> b, at |-> clock]
        /\ \A g \in Flows : g # f => begun'[g] = begun[g] /\ flow'[g] = Sweep(flow)[g]
        /\ UNCHANGED <<started, session, clock>>
    <3>1. /\ Sweep(flow) \in [Flows -> FlowRow \cup {None}]
          /\ begun \in [Flows -> Beginning \cup {None}]
      BY SweepRow DEF TypeOK
    <3> QED
      BY <1>1, <3>1 DEF Begin, SweepFlows
  <2>2. \A g \in Flows : Sweep(flow)[g] = None
                         \/ (Sweep(flow)[g] = flow[g] /\ flow[g].expires >= clock)
    <3> SUFFICES ASSUME NEW g \in Flows, Sweep(flow)[g] # None
                 PROVE  Sweep(flow)[g] = flow[g] /\ flow[g].expires >= clock
      OBVIOUS
    <3>1. Sweep(flow)[g] = flow[g] /\ ~Past(flow[g].expires) /\ flow[g] # None
      BY DEF Sweep, TypeOK
    <3>2. flow[g].expires \in Nat
      BY <3>1 DEF TypeOK, FlowRow
    <3> QED
      BY <1>0, <3>1, <3>2 DEF Past
  <2>3. \A g \in Flows : begun[g] # None => begun[g].at \in Nat
    BY DEF TypeOK, Beginning
  <2>4. \A g, h \in Flows :
          begun'[g] # None /\ flow'[h] # None => flow'[h].expires >= begun'[g].at
    <3> TAKE g \in Flows, h \in Flows
    <3> HAVE begun'[g] # None /\ flow'[h] # None
    <3>1. begun'[g].at \in Nat /\ begun'[g].at <= clock
      BY <1>0, <2>1, <2>3 DEF PastOnly
    <3>2. CASE h = f
      <4>1. flow'[h].expires = clock + FlowTTL
        BY <2>1, <3>2
      <4> QED
        BY <1>0, <3>1, <4>1, SignInAssumption
    <3>3. CASE h # f
      <4>1. flow'[h].expires >= clock /\ flow'[h].expires \in Nat
        BY <2>1, <2>2, <3>3 DEF TypeOK, FlowRow
      <4> QED
        BY <1>0, <3>1, <4>1
    <3> QED
      BY <3>2, <3>3
  <2>5. PastOnly'
    BY <1>0, <2>1 DEF PastOnly
  <2> QED
    BY <2>1, <2>4, <2>5 DEF ExpiredRowsAreSwept
<1>2. ASSUME NEW c \in Callbacks, NEW s \in Sessions, CreateSession(c, s)
      PROVE  PastOnly' /\ ExpiredRowsAreSwept'
  <2>1. /\ session'[s].expires = clock + SessionTTL
        /\ started'[s].at = clock
        /\ \A t \in Sessions :
             t # s => started'[t] = started[t] /\ session'[t] = Sweep(session)[t]
        /\ UNCHANGED <<begun, flow, clock>>
    <3>1. /\ Sweep(session) \in [Sessions -> SessionRow \cup {None}]
          /\ started \in [Sessions -> Start \cup {None}]
      BY SweepRow DEF TypeOK
    <3> QED
      BY <1>2, <3>1 DEF CreateSession, SweepSessions
  <2>2. \A t \in Sessions : Sweep(session)[t] = None
                            \/ (Sweep(session)[t] = session[t] /\ session[t].expires >= clock)
    <3> SUFFICES ASSUME NEW t \in Sessions, Sweep(session)[t] # None
                 PROVE  Sweep(session)[t] = session[t] /\ session[t].expires >= clock
      OBVIOUS
    <3>1. Sweep(session)[t] = session[t] /\ ~Past(session[t].expires) /\ session[t] # None
      BY DEF Sweep, TypeOK
    <3>2. session[t].expires \in Nat
      BY <3>1 DEF TypeOK, SessionRow
    <3> QED
      BY <1>0, <3>1, <3>2 DEF Past
  <2>3. \A t \in Sessions : started[t] # None => started[t].at \in Nat
    BY DEF TypeOK, Start
  <2>4. \A t, u \in Sessions :
          started'[t] # None /\ session'[u] # None => session'[u].expires >= started'[t].at
    <3> TAKE t \in Sessions, u \in Sessions
    <3> HAVE started'[t] # None /\ session'[u] # None
    <3>1. started'[t].at \in Nat /\ started'[t].at <= clock
      BY <1>0, <2>1, <2>3 DEF PastOnly
    <3>2. CASE u = s
      <4>1. session'[u].expires = clock + SessionTTL
        BY <2>1, <3>2
      <4> QED
        BY <1>0, <3>1, <4>1, SignInAssumption
    <3>3. CASE u # s
      <4>1. session'[u].expires >= clock /\ session'[u].expires \in Nat
        BY <2>1, <2>2, <3>3 DEF TypeOK, SessionRow
      <4> QED
        BY <1>0, <3>1, <4>1
    <3> QED
      BY <3>2, <3>3
  <2>5. PastOnly'
    BY <1>0, <2>1 DEF PastOnly
  <2> QED
    BY <2>1, <2>4, <2>5 DEF ExpiredRowsAreSwept
<1>3. ASSUME NEW c \in Callbacks, TakeFlow(c)
      PROVE  PastOnly' /\ ExpiredRowsAreSwept'
  <2>1. /\ \A g \in Flows : flow'[g] = None \/ flow'[g] = flow[g]
        /\ UNCHANGED <<begun, started, session, clock>>
    BY <1>3 DEF TakeFlow, WithoutFlow, TypeOK
  <2> QED
    BY <2>1 DEF PastOnly, ExpiredRowsAreSwept
<1>4. CASE Tick
  <2>1. /\ clock' = clock + 1
        /\ UNCHANGED <<begun, flow, started, session>>
    BY <1>4 DEF Tick
  <2>2. /\ \A f \in Flows : begun[f] # None => begun[f].at \in Nat
        /\ \A s \in Sessions : started[s] # None => started[s].at \in Nat
    BY DEF TypeOK, Beginning, Start
  <2> QED
    BY <1>0, <2>1, <2>2 DEF PastOnly, ExpiredRowsAreSwept
<1>5. CASE UNCHANGED <<begun, flow, started, session, clock>>
  BY <1>5 DEF PastOnly, ExpiredRowsAreSwept
<1> QED
  BY <1>1, <1>2, <1>3, <1>4, <1>5 DEF Next, Consent, Callback, Login, Exchange,
     ResolveAccount, Finish, Lose, Disable, vars

(***************************************************************************)
(* Abandoned sign-ins and dead sessions do not pile up: nothing that had   *)
(* expired when the latest flow began, or the latest session started, has  *)
(* a row any more.                                                         *)
(***************************************************************************)
THEOREM ExpiredAreSwept == Spec => []ExpiredRowsAreSwept
<1>1. Init => PastOnly /\ ExpiredRowsAreSwept
  BY DEF Init, PastOnly, ExpiredRowsAreSwept
<1>2. TypeOK /\ (PastOnly /\ ExpiredRowsAreSwept) /\ [Next]_vars
        => (PastOnly /\ ExpiredRowsAreSwept)'
  BY SweptStep
<1> QED
  BY <1>1, <1>2, TypeCorrect, PTL DEF Spec

-----------------------------------------------------------------------------
(* The promise to the requests that come with a session.                   *)

\* Whose session each is: the refinement mapping.
issuedTo == [s \in Sessions |-> IF started[s] = None THEN None ELSE started[s].account]

LEMMA CreateSessionIsStart ==
  ASSUME Typed, NEW c \in Callbacks, Barring(callback[c]), NEW s \in Sessions,
         CreateSession(c, s)
  PROVE  Promise!Next
<1>1. PICK a : a = callback[c].account
  OBVIOUS
<1>2. a \in People /\ account[a] # "none"
  BY <1>1, StartLeaves DEF Barring, At
<1>3. issuedTo[s] = None
  BY StartLeaves DEF issuedTo
<1>4. issuedTo' = [issuedTo EXCEPT ![s] = a]
  <2>1. started'[s] # None /\ started'[s].account = a
    <3>1. /\ started'[s] # None
          /\ started'[s] = [flow |-> callback[c].state, browser |-> callback[c].browser,
                           account |-> callback[c].account, at |-> clock]
      BY StartLeaves
    <3> QED
      BY <1>1, <3>1
  <2>2. \A t \in Sessions : t # s => started'[t] = started[t]
    BY StartLeaves
  <2> QED
    BY <2>1, <2>2 DEF issuedTo
<1>5. session' = [Promise!Swept(session) EXCEPT ![s] =
                    [account |-> a, expires |-> clock + SessionTTL, revoked |-> FALSE]]
  <2>1. Promise!Swept(session) = Sweep(session)
    BY DEF Promise!Swept, Sweep, Past, Typed, TypeOK
  <2> QED
    BY <1>1, <2>1 DEF CreateSession, SweepSessions
<1>6. UNCHANGED <<account, clock>>
  BY DEF CreateSession
<1>7. Promise!Start(s, a)
  BY <1>2, <1>3, <1>4, <1>5, <1>6 DEF Promise!Start, issuedTo
<1> QED
  BY <1>2, <1>7 DEF Promise!Next

LEMMA EveryStepKeepsPromise ==
  ASSUME Typed, [Next]_vars, \A c \in Callbacks : Barring(callback[c])
  PROVE  [Promise!Next]_<<account, session, issuedTo, clock>>
<1>1. CASE UNCHANGED <<account, session, started, clock>>
  BY <1>1 DEF issuedTo
<1>2. ASSUME NEW c \in Callbacks, ResolveAccount(c)
      PROVE  [Promise!Next]_<<account, session, issuedTo, clock>>
  <2>1. PICK a : a = callback[c].account
    OBVIOUS
  <2>2. a \in People
    <3>1. callback[c].account \in People \cup {None} /\ callback[c].account # None
      BY <1>2 DEF ResolveAccount, At, Typed, TypeOK, CallbackState
    <3> QED
      BY <2>1, <3>1
  <2>3. UNCHANGED <<session, started, clock>>
    BY <1>2 DEF ResolveAccount
  <2>4. UNCHANGED issuedTo
    BY <2>3 DEF issuedTo
  <2>5. \/ account' = [account EXCEPT ![a] = IF account[a] = "none" THEN "active"
                                                                    ELSE account[a]]
        \/ UNCHANGED account
    BY <1>2, <2>1 DEF ResolveAccount
  <2>6. CASE account[a] = "none" /\ account' # account
    <3>1. Promise!Register(a)
      BY <2>3, <2>4, <2>5, <2>6 DEF Promise!Register, issuedTo
    <3> QED
      BY <2>2, <3>1 DEF Promise!Next
  <2>7. CASE account[a] # "none"
    <3>1. account' = account
      BY <2>2, <2>5, <2>7 DEF Typed, TypeOK
    <3> QED
      BY <2>3, <2>4, <3>1
  <2> QED
    BY <2>3, <2>4, <2>6, <2>7
<1>3. ASSUME NEW a \in People, Disable(a)
      PROVE  [Promise!Next]_<<account, session, issuedTo, clock>>
  <2>1. UNCHANGED issuedTo
    BY <1>3 DEF Disable, issuedTo
  <2>2. Promise!SwitchOff(a)
    BY <1>3, <2>1 DEF Disable, Promise!SwitchOff, issuedTo
  <2> QED
    BY <2>2 DEF Promise!Next
<1>4. CASE Tick
  <2>1. UNCHANGED issuedTo
    BY <1>4 DEF Tick, issuedTo
  <2>2. Promise!Pass
    BY <1>4, <2>1 DEF Tick, Promise!Pass, issuedTo
  <2> QED
    BY <2>2 DEF Promise!Next
<1> QED
  BY <1>1, <1>2, <1>3, <1>4, CreateSessionIsStart DEF Next, Begin, Consent, Callback,
     Login, TakeFlow, Exchange, Finish, Lose, vars

(***************************************************************************)
(* Sign-in keeps the promise the credentials rest on (module SessionRows): *)
(* however callbacks interleave and fail between their transactions, an    *)
(* account is made once and switched off for good, and a session starts    *)
(* for an account there is, with a row nobody rewrites.                    *)
(***************************************************************************)
THEOREM SessionPromiseKept == Spec => KeepsSessionPromise
<1>1. Init => Promise!Init
  BY DEF Init, Promise!Init
<1>2. Typed /\ (\A c \in Callbacks : Barring(callback[c])) /\ [Next]_vars
        => [Promise!Next]_<<account, session, issuedTo, clock>>
  BY EveryStepKeepsPromise
<1> QED
  BY <1>1, <1>2, TypedAlways, BarringAlways, PTL
     DEF Spec, KeepsSessionPromise, Promise!Spec, issuedTo
=============================================================================

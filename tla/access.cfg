\* Two people, a session each or two; two requests in flight, and a token.
SPECIFICATION Spec
CONSTANTS
  None = None
  People = {"ann", "bob"}
  Sessions = {s1, s2}
  SessionTTL = 0
  MaxClock = 1
  Tokens = {t1}
  Plugins = {"p", "q"}
  Reviewers = {"bob"}
  Sent <- SentHere
  Asked <- AskedScopes
  Slots = {r1, r2}
SYMMETRY Interchangeable
INVARIANTS
  TypeOK
  DeadCredentialsAreRefused
  TokensAreContained
  RequestsActAsPresented
  EndingsAreRecordedOnce

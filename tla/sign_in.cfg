\* One person at two browsers: two flows, two callbacks in flight.
SPECIFICATION FairSpec
CONSTANTS
  None = None
  People = {"ann"}
  Kinds = {"github", "other"}
  KindOf <- AllAtGitHub
  Browsers = {b1, b2}
  Flows = {f1, f2}
  Sessions = {s1, s2}
  Callbacks = {c1, c2}
  FlowTTL = 0
  SessionTTL = 0
  MaxClock = 1
\* The service may be quiet for ever: every flow of the instance has been used.
CHECK_DEADLOCK FALSE
INVARIANTS
  TypeOK
  SignInStaysInItsBrowser
  OneSessionPerFlow
  SwitchedOffStaysOut
  ExpiredRowsAreSwept
PROPERTIES
  KeepsSessionPromise
  EverySignInEnds

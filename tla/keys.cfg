\* One idempotency key in flight twice, for two bodies and three accounts, while holders change.
SPECIFICATION Spec
CONSTANTS
  None = None
  Versions = {1, 2, 3}
  Hosts = {"h1"}
  Digests = {"d1"}
  Order <- MCOrder
  Size <- MCSize
  Plugins = {"p"}
  Seed <- SeedOne
  Accounts = {"ann", "bob", "cat"}
  Publishable = {"ann", "bob"}
  Holders0 <- EveryoneHolds
  Trust0 <- AllTrusted
  Tiers = {"trusted"}
  Keys = {"k1"}
  Requests <- OneKey
  Calls = {c1, c2}
  Reviewers = {"rev"}
  Checks = {}
  MaxClock = 0
SYMMETRY Interchangeable
INVARIANTS
  KeyNamesItsRelease
PROPERTIES
  KeepsReleasePromise
  AuthorityAtCommit

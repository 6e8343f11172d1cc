\* One imported plugin, two requests for it in flight together with a change for every rule, tiers that move.
SPECIFICATION Spec
CONSTANTS
  None = None
  Versions = {0, 1, 2, 3}
  Hosts = {"h1", "h2"}
  Digests = {"d1", "d3"}
  Order <- MCOrder
  Size <- MCSize
  Plugins = {"p"}
  Seed <- SeedOne
  Accounts = {"ann"}
  Publishable = {"ann"}
  Holders0 <- AnnHolds
  Trust0 <- AllTrusted
  Tiers = {"blocked", "new", "trusted"}
  Keys = {"k1", "k2"}
  Requests <- RacingChanges
  Calls = {c1, c2}
  Reviewers = {"rev"}
  Checks = {}
  MaxClock = 0
SYMMETRY Interchangeable
INVARIANTS
  TypeOK
  OneLive
  OneWaiting
  AutoPublishWasCompared
  EveryChangeIsExplained
PROPERTIES
  NeverGoesDark
  AuthorityAtCommit

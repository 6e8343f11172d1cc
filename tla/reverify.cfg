\* Two re-verifications of a release race each other, a newer release and the reviewers;
\* everything in flight ends, under the fairness the deadlines give.
SPECIFICATION FairSpec
CONSTANTS
  None = None
  Versions = {1, 2, 3}
  Hosts = {"h1"}
  Digests = {"d1", "d3"}
  Order <- MCOrder
  Size <- MCSize
  Plugins = {"p"}
  Seed <- SeedOne
  Accounts = {"ann"}
  Publishable = {"ann"}
  Holders0 <- AnnHolds
  Trust0 <- AllTrusted
  Tiers = {"trusted"}
  Keys = {"k1", "k2"}
  Requests <- RacingVersions
  Calls = {c1}
  Reviewers = {"rev"}
  Checks = {k1, k2}
  MaxClock = 1
INVARIANTS
  LiveHashIsKnown
  EveryChangeIsExplained
PROPERTIES
  HashNeverSwapped
  DecisionsAreFinal
  NothingHangs

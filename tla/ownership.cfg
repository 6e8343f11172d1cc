\* Two people whose names change hands, claims and handovers, and the owners file imported
\* twice beside them, with a provider that may not answer.
SPECIFICATION Spec
CONSTANTS
  None = None
  Plugins = {"p", "q"}
  Catalogue = {"p"}
  People = {"ann", "bob"}
  Handles = {"x", "y", "z"}
  Named0 <- TwoNamed
  Disabled = {}
  OwnersFile <- TwoOwners
  MaxLog = 3
  MaxRuns = 2
INVARIANTS
  TypeOK
  OnlyOwnersChangeHolders
  SuccessMeansImported
  ClaimedOnce
PROPERTIES
  KeepsHoldersPromise

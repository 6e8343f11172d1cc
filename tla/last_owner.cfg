\* An owner and a maintainer.
SPECIFICATION Spec
CONSTANTS
  None = None
  Plugins = {"p"}
  Catalogue = {}
  People = {"ann", "bob"}
  Handles = {"x", "y"}
  Named0 <- TwoNamed
  Disabled = {}
  OwnersFile <- NoFile
  MaxLog = 4
  MaxRuns = 0
INVARIANTS
  NeverLeftWithoutOwner

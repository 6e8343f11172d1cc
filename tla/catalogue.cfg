\* Two plugins, one of them in the seed file; two builds; audit rows up to MaxTrail.
SPECIFICATION Spec
CONSTANTS
  None = None
  Plugins = {"p", "q"}
  Versions = {1, 2}
  Accounts = {ann, bob}
  Reasons = {"abandoned", "unsafe"}
  Seeds <- SeedFiles
  Binaries = {1, 2}
  MaxTrail = 5
SYMMETRY Interchangeable
INVARIANTS
  TypeOK
  ImportComesFirst
  ServesItsSchema
  DelistingIsExplained
  PagesHoldTogether
  DetailIsExplained

\* Two clients, three operations or failing calls, a history of one entry.
CONSTANTS
  Clients = {c1, c2}
  Resources <- MCResources
  kind <- MCkind
  Bodies <- MCBodies
  Patches <- MCPatches
  Bundles <- MCBundles
  InitialStores <- MCInitialStores
  historyLimit = 1
  MaxOps = 3
SPECIFICATION Spec
SYMMETRY Symmetry
INVARIANTS
  PutsKeepReferences
  ApplyIsExact
  PreviewIsExact
  ApplyKeepsReferences
  KeepsLatest
CHECK_DEADLOCK FALSE

\* One client and one import.
CONSTANTS
  Clients = {c1}
  Resources <- MCResources
  kind <- MCkind
  Bodies <- MCBodies
  Patches <- MCPatches
  Bundles <- MCBundles
  InitialStores <- MCInitialStores
  historyLimit = 1
  MaxOps = 1
SPECIFICATION Spec
INVARIANTS
  PrunesOnlyInScope
CHECK_DEADLOCK FALSE

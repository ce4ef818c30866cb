\* Three versions of the file, one operation of another client or failing call.
CONSTANTS
  Clients = {sync, c1}
  Syncer = sync
  Resources <- MCResources
  kind <- MCkind
  Bodies <- MCBodies
  Patches <- MCPatches
  Bundles = {}
  Files <- MCFiles
  InitialStores <- MCInitialStores
  historyLimit = 1
  MaxOps = 1
  Malformed = Malformed
  syncPrune = TRUE
  MaxTime = 3
  MaxEdits = 3
SPECIFICATION SyncFairSpec
INVARIANTS
  NoEditMissed
  StoreFollowsFile
PROPERTIES
  EditsAreApplied
CHECK_DEADLOCK FALSE

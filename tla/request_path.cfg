\* Two workers, two requests, two configurations loaded.
CONSTANTS
  Workers = {w1, w2}
  Requests <- MCRequests
  Snapshots <- MCSnapshots
  FileOptions <- MCFileOptions
  weight <- MCweight
  registry <- MCregistry
  pluginNames <- MCpluginNames
  MaxLoads = 2
  MaxRequests = 2
SPECIFICATION Spec
SYMMETRY Symmetry
INVARIANTS
  ReachesItsUpstream
  ChainOrder
  RewritesTakeEffect
  EvenSpread
PROPERTIES
  
  LenientLoad
CHECK_DEADLOCK FALSE

SPECIFICATION Spec
CONSTANTS
  Ids <- MCIds
  Manifest <- MCManifest
  Params <- MCParams
  Extends <- MCExtends
  Queries <- MCQueries
  Requests = {r1, r2}
  MaxConc = 1
  NoEntry = NoEntry
SYMMETRY Symmetry
INVARIANTS TypeOK SteadyWithoutRemovals
PROPERTIES IsRouteList ExactFirst NoTakeover
CHECK_DEADLOCK FALSE

SPECIFICATION Spec
CONSTANTS
  Ids <- MCTwo
  Manifest <- MCTwoManifest
  Params <- MCParams
  Extends <- MCExtends
  Queries <- MCQueries
  Requests = {r1}
  MaxConc = 1
  NoEntry = NoEntry
INVARIANTS SlotsReturned
CHECK_DEADLOCK FALSE

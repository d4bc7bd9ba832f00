SPECIFICATION AdminSpec
CONSTANTS
  NoNode = NoNode
  NoArchive = NoArchive
  JobIds = {j1, j2}
  NodeIds = {n1}
  Callers = {c1, c2}
  Creators = {u1}
  Archives = {x1}
  RequestIds <- MCRequestIds
  Specs <- MCSpecs
  Names <- MCNames
  Quoted <- MCQuoted
  BuiltInList <- MCBuiltInList
  Root <- MCRoot
  Occurs <- MCOccurs
  MaxNow = 1
  CancelWindow = 1
  MaxCalls = 2
  MaxRestarts = 1
  Mixed = FALSE
SYMMETRY Symmetry
INVARIANT RoutesNameRequests

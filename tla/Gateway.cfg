SPECIFICATION GatewaySpec
CONSTANTS
  NoNode = NoNode
  JobIds = {j1}
  NodeIds = {n1}
  Polls = {p1, p2}
  Others = {x1}
  Visited = {"NONE", "QUEUED", "CANCELLED", "GONE"}
  MaxFailures = 1
CHECK_DEADLOCK FALSE
INVARIANTS GatewayTypeOK
PROPERTIES EveryPollIsAnswered ViewConverges StopReturns

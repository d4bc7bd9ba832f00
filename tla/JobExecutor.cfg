SPECIFICATION FairExecutorSpec
CONSTANTS
  JobIds = {j1, j2}
  NodeIds = {}
  NoNode = NoNode
  Agents = {a1, a2}
  Runs = {r1, r2, r3}
  NoEntry = NoEntry
  NoPid = NoPid
INVARIANTS ExecutorTypeOK OneRunPerJob CancelReaches
PROPERTIES EveryRunEnds RunsAreExclusive

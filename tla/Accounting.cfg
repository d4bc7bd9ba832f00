SPECIFICATION AccountingSpec
CONSTANTS
  cpu = cpu
  gpu = gpu
  NoNode = NoNode
  JobIds = {j1, j2, j3}
  NodeIds = {n1, n2}
  Dims = {cpu, gpu}
  Capacities <- MCCapacities
  Requests <- MCRequests
  Modulus = 4
  Users = {u1, u2}
  Charges <- MCCharges
  MaxCharges = 3
  MaxNow = 2
  Penalty <- MCPenalty
  Priorities = {1, 2, 3}
  Submissions = {1, 2}
SYMMETRY Symmetry
INVARIANTS ResourceTypeOK LedgerBalances NoOvercommit UsageIsAgedOnce OrderIsWeak
PROPERTIES GrowsByCharges

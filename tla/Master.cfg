SPECIFICATION SchedulerSpec
CONSTANTS
  cpu = cpu
  JobIds = {j1, j2}
  NodeIds = {n1, n2}
  NoNode = NoNode
  Hosts = {h1, h2}
  Dims = {cpu}
  Specs <- MCSpecs
  Resources <- MCResources
  MaxNow = 2
  CancelWindow = 1
  NodeTimeout = 0
SYMMETRY Symmetry
INVARIANTS SchedulerTypeOK PassLedger StampsAgree OneIdPerMachine OfflineMeansSilent
PROPERTIES AssignedOnce NoPriorityInversion CancelWindowIsNotReopened IdsAreNotReused

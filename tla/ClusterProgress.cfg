SPECIFICATION FairSpec
CONSTANTS
  h1 = h1
  cpu = cpu
  NoNode = NoNode
  NoEntry = NoEntry
  NoPid = NoPid
  NoJob = NoJob
  JobIds = {j1}
  NodeIds = {n1}
  Agents = {a1}
  Hosts = {h1}
  Runs = {r1, r2}
  Dims = {cpu}
  Specs <- OneSpec
  Resources <- OneResource
  HostOf <- SharedHost
  Announced <- AnnouncedOne
  Reported <- One
  Lossy = FALSE
  MaxDeaths = 0
  MaxNow = 2
  CancelWindow = 3
  NodeTimeout = 1
PROPERTIES JobsFinish CancelIsDecided

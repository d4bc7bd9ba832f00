SPECIFICATION ProcessSpec
CONSTANTS
  a1 = a1
  m1 = m1
  m2 = m2
  s1 = s1
  s2 = s2
  Agents = {a1}
  Handlers = {m1, m2, s1, s2}
  Processes <- MCProcessNames
  Home <- MCHome
  Callers <- MCCallers
  Signalled <- MCSignalled
  NumbersOf <- MCNumbersOf
CHECK_DEADLOCK FALSE
INVARIANTS ProcessTypeOK DestroysNothingInUse StoppedAgentIsQuiet
PROPERTIES ServingMasterEnds AgentStopReturns

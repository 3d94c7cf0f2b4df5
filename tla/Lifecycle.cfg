SPECIFICATION FairSpec
CONSTANTS
  c1 = c1
  c2 = c2
  a1 = a1
  q1 = q1
  q2 = q2
  Clients <- TwoClients
  Agents <- OneAgent
  Ports <- TwoPorts
  Links <- TwoLinks
  FirstLink = 1
  MaxClients = 1
  MaxFaults <- OneOrTwo
  Faults <- AllFaults
INVARIANTS TypeOK ReadyExact OneSession
PROPERTIES Restored StopsWell
CHECK_DEADLOCK FALSE

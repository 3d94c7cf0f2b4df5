SPECIFICATION Spec
CONSTANTS
  w1 = w1
  w2 = w2
  a1 = a1
  a2 = a2
  p1 = p1
  ClientWs <- MCClients
  AgentWs <- MCAgents
  Ports <- OnePort
  DirectPorts <- OnePort
  AgentPorts <- OnePort
  ClientTypes <- IdleClient
  MaxId = 4
  MaxClients = 1
  MaxStreams = 3
  MaxPerPort = 2
  MaxPerAgent = 1
  MaxQueue = 1
INVARIANT CountsExact
SYMMETRY WebSockets
CHECK_DEADLOCK FALSE

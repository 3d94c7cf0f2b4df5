SPECIFICATION FairSpec
CONSTANTS
  w1 = w1
  a1 = a1
  s1 = s1
  s2 = s2
  s3 = s3
  p1 = p1
  p2 = p2
  ClientWs <- OneClient
  AgentWs <- OneAgent
  Ports <- OnePort
  DirectPorts <- NoPorts
  AgentPorts <- NoPorts
  Socks <- OneSock
  SockPort <- AllToOne
  Faults <- NoFaults
  HostAllowed = TRUE
  ClientTypes <- TcpClientSends
  MaxQueue = 0
  MaxId = 2
  MaxLocal = 2
  MaxClients = 1
  MaxStreams = 2
  MaxPerPort = 2
  MaxPerAgent = 2
  MaxDirect = 0
  MaxConns = 2
  MaxData = 0
PROPERTY ConnectResolved
CHECK_DEADLOCK FALSE

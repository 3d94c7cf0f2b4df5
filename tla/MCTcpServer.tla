---------------------------- MODULE MCTcpServer ----------------------------
(* The server alone with two clients, two agents, one port reachable both   *)
(* ways and stream ids that wrap around after MaxId.                        *)
EXTENDS TcpServer, TLC

CONSTANTS w1, w2, a1, a2, p1

MCClients == {w1, w2}
MCAgents  == {a1, a2}
OnePort   == {p1}

(* What serve/client.js sends on a TCP stream that is never idle for        *)
(* STREAM_IDLE_TIMEOUT_MS.                                                  *)
BusyClient == {"TCP_DATA", "TCP_CLOSE", "TCP_OPEN_ACK", "TCP_ABORT", "RESUME"}

(* And what it sends when its idle timer fires too.                         *)
IdleClient == BusyClient \cup {"RES_ABORT"}

WebSockets == Permutations(ClientWs) \cup Permutations(AgentWs)
=============================================================================

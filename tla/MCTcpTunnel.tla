---------------------------- MODULE MCTcpTunnel ----------------------------
(* Instances of the whole tunnel.                                           *)
EXTENDS TcpTunnel, TLC

CONSTANTS w1, a1, s1, s2, s3, p1, p2

OneClient  == {w1}
OneAgent   == {a1}
OneSock    == {s1}
ThreeSocks == {s1, s2, s3}
OnePort    == {p1}
TwoPorts   == {p1, p2}
NoPorts    == {}

AllToOne  == [s \in Socks |-> p1]
TwoAndOne == (s1 :> p1 @@ s2 :> p1 @@ s3 :> p2)

AnswerFaults == {"agent_link", "local_fails", "app_leaves"}
AllFaults    == {"no_client", "agent_link", "client_link", "local_fails", "server_idle",
                 "client_idle", "shutdown"}
NoFaults     == {}

(* What serve/client.js sends on a TCP stream; RESUME is left out there.     *)
TcpClientSends == {"TCP_OPEN_ACK", "TCP_DATA", "TCP_CLOSE", "TCP_ABORT", "RES_ABORT"}

Sessions == Permutations(ClientWs) \cup Permutations(AgentWs) \cup Permutations(Socks)
=============================================================================

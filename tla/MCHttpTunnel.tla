--------------------------- MODULE MCHttpTunnel ---------------------------
(* Instances of the HTTP tunnel.                                            *)
EXTENDS HttpTunnel, TLC

CONSTANTS r1

OneRequest  == {r1}
ThreeChunks == [r \in Requests |-> 3]

NoFaults  == {}
AllFaults == {"link", "local_fails", "user_leaves", "server_idle", "client_idle",
              "drain_timeout", "bad_headers"}
=============================================================================

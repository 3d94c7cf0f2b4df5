----------------------------- MODULE MCTcpFlow -----------------------------
(* Instances of the flow control of one WebSocket.                          *)
EXTENDS TcpFlow, TLC

CONSTANTS s1, s2

OneStream  == {s1}
TwoStreams == {s1, s2}
NoStream   == {}

ThreeAndOne == (s1 :> 3 @@ s2 :> 1)
TwoEach     == (s1 :> 2 @@ s2 :> 2)
ThreeAlone  == (s1 :> 3)
=============================================================================

---------------------------- MODULE MCLifecycle ----------------------------
(* Instances of the processes' life.                                        *)
EXTENDS Lifecycle, TLC

CONSTANTS c1, c2, a1, q1, q2

TwoClients == {c1, c2}
OneAgent   == {a1}
TwoPorts   == {q1, q2}
TwoLinks   == 1..2

OneOrTwo  == [S \in {{c1}, {a1}, {c1, c2}, {c1, a1}} |-> IF Cardinality(S) = 1 THEN 3 ELSE 1]
AllFaults == {"break", "cut", "crash", "stop", "unreachable", "listener", "credentials"}
=============================================================================

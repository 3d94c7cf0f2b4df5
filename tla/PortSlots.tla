----------------------------- MODULE PortSlots -----------------------------
(***************************************************************************)
(* What TCP_MAX_CONNECTIONS_PER_PORT promises: streams hold a slot of one  *)
(* port each, a port never has more than Limit of them (0: any number), a  *)
(* slot is taken by one stream at a time, and whatever number of streams   *)
(* ends at once gives its slots back.                                      *)
(***************************************************************************)
EXTENDS Naturals, FiniteSets

CONSTANTS Streams, Ports, Limit, None

VARIABLE holder   \* the port whose slot a stream holds, or None

Held(p) == {i \in Streams : holder[i] = p}

Init == holder = [i \in Streams |-> None]

Acquire(i, p) ==
  /\ holder[i] = None
  /\ Limit = 0 \/ Cardinality(Held(p)) < Limit
  /\ holder' = [holder EXCEPT ![i] = p]

GiveBack(S) == holder' = [i \in Streams |-> IF i \in S THEN None ELSE holder[i]]

Next ==
  \/ \E i \in Streams, p \in Ports : Acquire(i, p)
  \/ \E S \in SUBSET {i \in Streams : holder[i] # None} : GiveBack(S)

Spec == Init /\ [][Next]_holder
=============================================================================

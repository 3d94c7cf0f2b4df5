-------------------------- MODULE TcpServerSafety --------------------------
(***************************************************************************)
(* More proofs about TcpServer for every value of its constants: no step   *)
(* gives an id in use to another stream, no stream outlives its WebSockets *)
(* or a shutdown, the configured limits hold, and the server implements    *)
(* PortSlots.  A step does one of three things to the table: it frees      *)
(* slots, it admits a stream into one that was free, or it acknowledges    *)
(* one.                                                                    *)
(***************************************************************************)
EXTENDS TcpServerProofs

Frees(S)    == streams' = [i \in Ids |-> IF i \in S THEN Free ELSE streams[i]]
Takes(i, s) == streams[i].kind = "free" /\ streams' = [streams EXCEPT ![i] = s]
Acks(i)     == streams' = [streams EXCEPT ![i].awaiting = FALSE]

(* What the server has tested before it opens s. *)
Admitted(s) ==
  /\ ~TableFull
  /\ s.port \in Ports
  /\ \/ s.kind = "direct" /\ Below(routerCount[s.port], MaxPerPort)
     \/ /\ s.kind = "agent" /\ s.agent \in AgentWs
        /\ Below(agentCount[s.port], MaxPerPort)
        /\ Below(Cardinality(agentStreams[s.agent]), MaxPerAgent)

TableStep ==
  \/ \E S : Frees(S)
  \/ \E i \in Ids, s \in Stream : Takes(i, s) /\ Admitted(s)
  \/ \E i \in Ids : Acks(i)

(* A step that leaves the table alone frees nothing. *)
LEMMA SameTable ==
  ASSUME TypeOK, streams' = streams
  PROVE  TableStep
<1>1. Frees({})
  BY DEF Frees, TypeOK
<1> QED
  BY <1>1 DEF TableStep

(* The end of streams, as a part of an action, frees them. *)
LEMMA FreedTable ==
  ASSUME NEW S, Freed(S)
  PROVE  TableStep
  BY DEF Freed, Frees, TableStep

LEMMA EndTable ==
  ASSUME NEW i, NEW toA, NEW toC, EndStream(i, toA, toC)
  PROVE  TableStep
  BY FreedTable DEF EndStream

LEMMA RelayTable ==
  ASSUME TypeOK, NEW i, Relay(i)
  PROVE  TableStep
  BY EndTable, SameTable DEF Relay, Abort, streamVars

(* A stream that opens takes a slot that was free. *)
LEMMA OpenTable ==
  ASSUME NEW i \in Ids, NEW s \in Stream, Open(i, s), Admitted(s)
  PROVE  TableStep
  BY DEF Open, Allocates, LiveIds, Takes, TableStep

(* Every step of the server is of one of the three kinds. *)
LEMMA TableSteps ==
  ASSUME TypeOK, [Next]_vars
  PROVE  TableStep
<1>1. CASE UNCHANGED vars
  BY <1>1, SameTable DEF vars, streamVars
<1>2. ASSUME NEW p \in Ports, DirectConnect(p) PROVE TableStep
  <2> DEFINE s(w) == [kind |-> "direct", ws |-> w, agent |-> NoWs, port |-> p, awaiting |-> FALSE]
  <2>1. PICK w \in ActiveClients, i \in Ids : Open(i, s(w))
    BY <1>2 DEF DirectConnect
  <2>2. s(w) \in Stream
    BY DEF Stream, ActiveClients
  <2>3. Admitted(s(w))
    BY <1>2 DEF Admitted, DirectConnect
  <2> QED
    BY <2>1, <2>2, <2>3, OpenTable
<1>3. ASSUME NEW i \in Ids, DirectData(i) \/ DirectClose(i) \/ DirectError(i) \/ IdleTimeout(i)
      PROVE  TableStep
  BY <1>3, RelayTable, EndTable DEF DirectData, DirectClose, DirectError, IdleTimeout, Abort
<1>4. ASSUME NEW w \in ClientWs, ClientJoin(w) \/ ClientClosing(w) \/ ClientClosed(w)
      PROVE  TableStep
  BY <1>4, SameTable, FreedTable DEF ClientJoin, ClientClosing, ClientClosed, streamVars
<1>5. ASSUME NEW a \in AgentWs, AgentJoin(a) \/ AgentClosing(a) \/ AgentClosed(a)
      PROVE  TableStep
  BY <1>5, SameTable, FreedTable DEF AgentJoin, AgentClosing, AgentClosed, streamVars
<1>6. CASE Shutdown
  BY <1>6, FreedTable DEF Shutdown
<1>7. ASSUME NEW w \in ClientWs, NEW f \in ClientFrames, OnClientFrame(w, f)
      PROVE  TableStep
  <2> DEFINE i == f.id
  <2>0. i \in Ids
    BY DEF ClientFrames, Msg, Frame
  <2>1. CASE UNCHANGED vars
    BY <2>1, <1>1
  <2>2. CASE ClientData(i)
    BY <2>2, SameTable DEF ClientData, streamVars
  <2>3. CASE EndStream(i, <<CloseOf(i)>>, <<>>)
    BY <2>3, EndTable
  <2>4. CASE ClientOpenAck(i)
    <3>1. CASE streams[i].awaiting
      BY <2>0, <2>4, <3>1 DEF ClientOpenAck, Acks, TableStep
    <3> QED
      BY <1>1, <2>4, <3>1 DEF ClientOpenAck
  <2>5. CASE ClientAbort(i)
    BY <2>5, EndTable DEF ClientAbort
  <2>6. CASE ClientResume(i)
    BY <1>1, <2>6, RelayTable DEF ClientResume
  <2>7. CASE ClientResAbort(i)
    <3>1. Frees({i})
      BY <2>7 DEF ClientResAbort, Frees, TypeOK
    <3> QED
      BY <3>1 DEF TableStep
  <2> QED
    BY <1>7, <2>1, <2>2, <2>3, <2>4, <2>5, <2>6, <2>7 DEF OnClientFrame
<1>8. ASSUME NEW a \in AgentWs, NEW f \in AgentFrames, OnAgentFrame(a, f)
      PROVE  TableStep
  <2>1. CASE UNCHANGED vars
    BY <2>1, <1>1
  <2>2. CASE AgentConnect(a, f.port) /\ f.port \in Ports
    <3>1. CASE Refused(a, f.port)
      BY <2>2, <3>1, SameTable DEF AgentConnect, streamVars
    <3>2. CASE ~Refused(a, f.port)
      <4> DEFINE s(w) == [kind |-> "agent", ws |-> w, agent |-> a, port |-> f.port, awaiting |-> TRUE]
      <4>1. PICK w \in ActiveClients, i \in Ids : Open(i, s(w))
        BY <2>2, <3>2 DEF AgentConnect
      <4>2. s(w) \in Stream
        BY <2>2 DEF Stream, ActiveClients
      <4>3. Admitted(s(w))
        BY <2>2, <3>2 DEF Admitted, Refused
      <4> QED
        BY <4>1, <4>2, <4>3, OpenTable
    <3> QED
      BY <3>1, <3>2
  <2>3. CASE StreamNotFound(a, f)
    BY <2>3, SameTable DEF StreamNotFound, streamVars
  <2>4. CASE AgentData(f.id)
    BY <2>1, <2>4, RelayTable, EndTable DEF AgentData
  <2>5. CASE EndStream(f.id, <<>>, <<CloseOf(f.id)>>) \/ EndStream(f.id, <<>>, <<AbortOf(f.id)>>)
    BY <2>5, EndTable
  <2>6. f.type = "TCP_CONNECT" => f.port \in Ports
    BY DEF AgentFrames, Msg, Frame
  <2> QED
    BY <1>8, <2>1, <2>2, <2>3, <2>4, <2>5, <2>6 DEF OnAgentFrame
<1>9. CASE NetworkTakes
  BY <1>9, SameTable DEF NetworkTakes, streamVars
<1> QED
  BY <1>1, <1>2, <1>3, <1>4, <1>5, <1>6, <1>7, <1>8, <1>9 DEF Next, ServerEvent

KeepsBindings ==
  \A i \in Ids : streams[i].kind # "free" /\ streams'[i].kind # "free"
                   => SameBinding(streams[i], streams'[i])

(* A stream id is never given to another stream while it is in use, for     *)
(* every number of ids and whatever clients send, RES_ABORT included.       *)
THEOREM BindingsStable == Spec => BindingStable
<1>1. TypeOK /\ [Next]_vars => KeepsBindings
  <2> SUFFICES ASSUME TypeOK, [Next]_vars PROVE KeepsBindings
    OBVIOUS
  <2>1. ASSUME NEW S, Frees(S) PROVE KeepsBindings
    BY <2>1 DEF Frees, KeepsBindings, SameBinding, Free
  <2>2. ASSUME NEW i \in Ids, NEW s \in Stream, Takes(i, s) PROVE KeepsBindings
    BY <2>2 DEF Takes, KeepsBindings, SameBinding, TypeOK
  <2>3. ASSUME NEW i \in Ids, Acks(i) PROVE KeepsBindings
    BY <2>3 DEF Acks, KeepsBindings, SameBinding, TypeOK, Stream
  <2> QED
    BY <2>1, <2>2, <2>3, TableSteps DEF TableStep
<1>2. TypeOK /\ [Next]_vars => [KeepsBindings]_vars
  BY <1>1
<1> QED
  BY <1>2, TypeCorrect, PTL DEF Spec, BindingStable, KeepsBindings

-----------------------------------------------------------------------------
(* WebSockets and shutdown.  The invariant: a stream has a client, and one  *)
(* of an agent's has an agent, whose set names it; neither is absent; after *)
(* shutdown nothing is left that could open one.                            *)

Shape == \A i \in LiveIds : /\ streams[i].ws \in ClientWs
                            /\ IsAgent(i) => streams[i].agent \in AgentWs
Owned == \A i \in LiveIds : IsAgent(i) => i \in agentStreams[streams[i].agent]
Down  == shuttingDown => LiveIds = {} /\ ActiveClients = {}

Safe == Shape /\ Owned /\ Down /\ NoOrphanInTable

(* What a step must keep for the streams it does not free. *)
LEMMA Shrinks ==
  ASSUME TypeOK, Safe, NEW S, Frees(S),
         \A i \in LiveIds \ S : /\ clients'[streams[i].ws] # "absent"
                                /\ IsAgent(i) => agents'[streams[i].agent] # "absent"
                                /\ IsAgent(i) => i \in agentStreams'[streams[i].agent],
         shuttingDown' => LiveIds \ S = {} /\ ActiveClients' = {}
  PROVE  Safe'
<1>1. /\ LiveIds' = LiveIds \ S
      /\ \A i \in LiveIds \ S : streams'[i] = streams[i]
  BY DEF Frees, Free, LiveIds, TypeOK
<1>2. Shape' /\ Owned' /\ NoOrphanInTable'
  BY <1>1 DEF Safe, Shape, Owned, NoOrphanInTable, IsAgent
<1>3. Down'
  BY <1>1 DEF Down
<1> QED
  BY <1>2, <1>3 DEF Safe

(* The end of streams while the WebSockets stay as they are. *)
LEMMA FreedSafe ==
  ASSUME TypeOK, Safe, NEW S, Freed(S), agentStreams' = Disowned(S), UNCHANGED wsVars
  PROVE  Safe'
<1>1. Frees(S)
  BY DEF Freed, Frees
<1>2. ASSUME NEW i \in LiveIds \ S, IsAgent(i)
      PROVE  i \in agentStreams'[streams[i].agent]
  BY <1>2 DEF Safe, Shape, Owned, Disowned
<1>3. shuttingDown' => LiveIds \ S = {} /\ ActiveClients' = {}
  BY DEF Safe, Down, ActiveClients, wsVars
<1> QED
  BY <1>1, <1>2, <1>3, Shrinks DEF Safe, NoOrphanInTable, wsVars

LEMMA EndSafe ==
  ASSUME TypeOK, Safe, NEW i, NEW toA, NEW toC, EndStream(i, toA, toC)
  PROVE  Safe'
  BY FreedSafe DEF EndStream

(* Frames alone change nothing here. *)
LEMMA SameSafe ==
  ASSUME Safe, UNCHANGED <<wsVars, streamVars>>
  PROVE  Safe'
  BY DEF Safe, Shape, Owned, Down, NoOrphanInTable, LiveIds, IsAgent, ActiveClients, wsVars, streamVars

LEMMA RelaySafe ==
  ASSUME TypeOK, Safe, NEW i, Relay(i)
  PROVE  Safe'
  BY EndSafe, SameSafe DEF Relay, Abort

(* A stream opens on WebSockets that are there. *)
LEMMA OpenSafe ==
  ASSUME TypeOK, Safe, NEW i \in Ids, NEW s, Open(i, s), s.kind # "free", s.ws \in ActiveClients,
         s.kind = "agent" => /\ s.agent \in AgentWs /\ agents[s.agent] # "absent"
                             /\ i \in agentStreams'[s.agent],
         \A a \in AgentWs : agentStreams[a] \subseteq agentStreams'[a]
  PROVE  Safe'
<1>1. /\ streams' = [streams EXCEPT ![i] = s] /\ streams[i].kind = "free"
      /\ UNCHANGED wsVars
  BY DEF Open, Allocates, LiveIds
<1>2. /\ \A j \in LiveIds' : j # i => j \in LiveIds /\ streams'[j] = streams[j]
      /\ streams'[i] = s
  BY <1>1 DEF LiveIds, TypeOK
<1>3. s.ws \in ClientWs /\ clients[s.ws] = "open"
  BY DEF ActiveClients
<1>4. Shape' /\ Owned'
  BY <1>2, <1>3 DEF Safe, Shape, Owned, IsAgent
<1>5. NoOrphanInTable'
  BY <1>1, <1>2, <1>3 DEF Safe, NoOrphanInTable, IsAgent, wsVars
<1>6. Down'
  BY <1>1, <1>3 DEF Safe, Down, ActiveClients, wsVars
<1> QED
  BY <1>4, <1>5, <1>6 DEF Safe

(* Frames of clients. *)
LEMMA ClientFrameSafe ==
  ASSUME TypeOK, Safe, NEW w \in ClientWs, NEW f \in ClientFrames, OnClientFrame(w, f)
  PROVE  Safe'
<1> DEFINE i == f.id
<1>0. i \in Ids
  BY DEF ClientFrames, Msg, Frame
<1>1. CASE UNCHANGED vars
  BY <1>1, SameSafe DEF vars
<1>2. CASE ClientData(i)
  BY <1>2, SameSafe DEF ClientData
<1>3. CASE EndStream(i, <<CloseOf(i)>>, <<>>)
  BY <1>3, EndSafe
<1>4. CASE ClientOpenAck(i)
  <2>1. CASE streams[i].awaiting
    <3>1. /\ streams' = [streams EXCEPT ![i].awaiting = FALSE]
          /\ UNCHANGED <<wsVars, agentStreams>>
      BY <1>4, <2>1 DEF ClientOpenAck
    <3>2. \A j \in Ids : /\ streams'[j].kind = streams[j].kind
                         /\ streams'[j].ws = streams[j].ws
                         /\ streams'[j].agent = streams[j].agent
      BY <3>1 DEF TypeOK, Stream
    <3>3. LiveIds' = LiveIds
      BY <3>2 DEF LiveIds
    <3>4. Shape' /\ Owned' /\ NoOrphanInTable'
      BY <3>1, <3>2, <3>3 DEF Safe, Shape, Owned, NoOrphanInTable, IsAgent, LiveIds, wsVars
    <3>5. Down'
      BY <3>1, <3>3 DEF Safe, Down, ActiveClients, wsVars
    <3> QED
      BY <3>4, <3>5 DEF Safe
  <2> QED
    BY <1>1, <1>4, <2>1 DEF ClientOpenAck
<1>5. CASE ClientAbort(i)
  BY <1>5, EndSafe DEF ClientAbort
<1>6. CASE ClientResume(i)
  BY <1>1, <1>6, RelaySafe DEF ClientResume
<1>7. CASE ClientResAbort(i)
  <2>1. Frees({i}) /\ UNCHANGED <<wsVars, agentStreams>>
    BY <1>7 DEF ClientResAbort, Frees, TypeOK
  <2>2. shuttingDown' => LiveIds \ {i} = {} /\ ActiveClients' = {}
    BY <2>1 DEF Safe, Down, ActiveClients, wsVars
  <2> QED
    BY <2>1, <2>2, Shrinks DEF Safe, Owned, NoOrphanInTable, wsVars
<1> QED
  BY <1>1, <1>2, <1>3, <1>4, <1>5, <1>6, <1>7 DEF OnClientFrame

(* Frames of agents. *)
LEMMA AgentFrameSafe ==
  ASSUME TypeOK, Safe, NEW a \in AgentWs, NEW f \in AgentFrames, OnAgentFrame(a, f)
  PROVE  Safe'
<1>1. CASE UNCHANGED vars
  BY <1>1, SameSafe DEF vars
<1>2. CASE AgentConnect(a, f.port) /\ f.port \in Ports
  <2>1. CASE Refused(a, f.port)
    BY <1>2, <2>1, SameSafe DEF AgentConnect
  <2>2. CASE ~Refused(a, f.port)
    <3> DEFINE s(w) == [kind |-> "agent", ws |-> w, agent |-> a, port |-> f.port, awaiting |-> TRUE]
    <3>1. PICK w \in ActiveClients, i \in Ids :
            /\ Open(i, s(w))
            /\ agentStreams' = [agentStreams EXCEPT ![a] = @ \cup {i}]
      BY <1>2, <2>2 DEF AgentConnect
    <3>2. s(w).kind = "agent" /\ s(w).ws = w /\ s(w).agent = a
      OBVIOUS
    <3>3. /\ i \in agentStreams'[a]
          /\ \A b \in AgentWs : agentStreams[b] \subseteq agentStreams'[b]
      BY <3>1 DEF TypeOK
    <3>4. agents[a] # "absent"
      BY DEF OnAgentFrame
    <3> HIDE DEF s
    <3> QED
      BY <3>1, <3>2, <3>3, <3>4, OpenSafe
  <2> QED
    BY <2>1, <2>2
<1>3. CASE StreamNotFound(a, f)
  BY <1>3, SameSafe DEF StreamNotFound
<1>4. CASE AgentData(f.id)
  BY <1>1, <1>4, RelaySafe, EndSafe DEF AgentData
<1>5. CASE EndStream(f.id, <<>>, <<CloseOf(f.id)>>) \/ EndStream(f.id, <<>>, <<AbortOf(f.id)>>)
  BY <1>5, EndSafe
<1>6. f.type = "TCP_CONNECT" => f.port \in Ports
  BY DEF AgentFrames, Msg, Frame
<1> QED
  BY <1>1, <1>2, <1>3, <1>4, <1>5, <1>6 DEF OnAgentFrame

(* WebSockets, sockets, timers and shutdown. *)
LEMMA ServerEventSafe ==
  ASSUME TypeOK, Safe, ServerEvent
  PROVE  Safe'
<1>1. ASSUME NEW p \in Ports, DirectConnect(p) PROVE Safe'
  <2> DEFINE s(w) == [kind |-> "direct", ws |-> w, agent |-> NoWs, port |-> p, awaiting |-> FALSE]
  <2>1. PICK w \in ActiveClients, i \in Ids : Open(i, s(w))
    BY <1>1 DEF DirectConnect
  <2>2. s(w).kind = "direct" /\ s(w).ws = w /\ agentStreams' = agentStreams
    BY <1>1 DEF DirectConnect
  <2> HIDE DEF s
  <2> QED
    BY <2>1, <2>2, OpenSafe
<1>2. ASSUME NEW i \in Ids, DirectData(i) \/ DirectClose(i) \/ DirectError(i) \/ IdleTimeout(i)
      PROVE  Safe'
  BY <1>2, RelaySafe, EndSafe DEF DirectData, DirectClose, DirectError, IdleTimeout, Abort
<1>3. ASSUME NEW w \in ClientWs, ClientJoin(w) \/ ClientClosing(w) PROVE Safe'
  <2>1. /\ streams' = streams /\ agentStreams' = agentStreams
        /\ agents' = agents /\ shuttingDown' = shuttingDown
    BY <1>3 DEF ClientJoin, ClientClosing, streamVars
  <2>2. Frees({})
    BY <2>1 DEF Frees, TypeOK
  <2>3. \A v \in ClientWs : clients[v] # "absent" => clients'[v] # "absent"
    BY <1>3 DEF ClientJoin, ClientClosing, TypeOK
  <2>4. shuttingDown' => LiveIds \ {} = {} /\ ActiveClients' = {}
    BY <1>3, <2>1 DEF ClientJoin, ClientClosing, Safe, Down, ActiveClients, TypeOK
  <2> QED
    BY <2>1, <2>2, <2>3, <2>4, Shrinks DEF Safe, Shape, Owned, NoOrphanInTable
<1>4. ASSUME NEW w \in ClientWs, ClientClosed(w) PROVE Safe'
  <2> DEFINE gone == StreamsOn(w)
  <2>1. /\ Frees(gone) /\ agentStreams' = Disowned(gone)
        /\ clients' = [clients EXCEPT ![w] = "absent"]
        /\ UNCHANGED <<agents, shuttingDown>>
    BY <1>4 DEF ClientClosed, Freed, Frees
  <2>2. ASSUME NEW i \in LiveIds \ gone
        PROVE  /\ clients'[streams[i].ws] # "absent"
               /\ IsAgent(i) => agents'[streams[i].agent] # "absent"
               /\ IsAgent(i) => i \in agentStreams'[streams[i].agent]
    <3>1. streams[i].ws # w /\ streams[i].ws \in ClientWs
      BY DEF StreamsOn, Safe, Shape
    <3>2. clients'[streams[i].ws] # "absent"
      BY <2>1, <3>1 DEF Safe, NoOrphanInTable, TypeOK
    <3>3. IsAgent(i) => i \in agentStreams'[streams[i].agent]
      BY <2>1 DEF Safe, Shape, Owned, Disowned
    <3> QED
      BY <2>1, <3>2, <3>3 DEF Safe, NoOrphanInTable
  <2>3. shuttingDown' => LiveIds \ gone = {} /\ ActiveClients' = {}
    BY <2>1 DEF Safe, Down, ActiveClients, TypeOK
  <2> HIDE DEF gone
  <2> QED
    BY <2>1, <2>2, <2>3, Shrinks
<1>5. ASSUME NEW a \in AgentWs, AgentJoin(a) \/ AgentClosing(a) PROVE Safe'
  <2>1. /\ streams' = streams /\ agentStreams' = agentStreams
        /\ clients' = clients /\ shuttingDown' = shuttingDown
    BY <1>5 DEF AgentJoin, AgentClosing, streamVars
  <2>2. Frees({})
    BY <2>1 DEF Frees, TypeOK
  <2>3. \A b \in AgentWs : agents[b] # "absent" => agents'[b] # "absent"
    BY <1>5 DEF AgentJoin, AgentClosing, TypeOK
  <2>4. shuttingDown' => LiveIds \ {} = {} /\ ActiveClients' = {}
    BY <2>1 DEF Safe, Down, ActiveClients
  <2> QED
    BY <2>1, <2>2, <2>3, <2>4, Shrinks DEF Safe, Shape, Owned, NoOrphanInTable
<1>6. ASSUME NEW a \in AgentWs, AgentClosed(a) PROVE Safe'
  <2> DEFINE gone == agentStreams[a] \cap LiveIds
  <2>1. /\ Frees(gone) /\ agentStreams' = [Disowned(gone) EXCEPT ![a] = {}]
        /\ agents' = [agents EXCEPT ![a] = "absent"]
        /\ UNCHANGED <<clients, shuttingDown>>
    BY <1>6 DEF AgentClosed, Freed, Frees
  <2>2. ASSUME NEW i \in LiveIds \ gone
        PROVE  /\ clients'[streams[i].ws] # "absent"
               /\ IsAgent(i) => agents'[streams[i].agent] # "absent"
               /\ IsAgent(i) => i \in agentStreams'[streams[i].agent]
    <3>1. IsAgent(i) => streams[i].agent # a /\ streams[i].agent \in AgentWs
      BY DEF Safe, Shape, Owned
    <3>2. IsAgent(i) => agents'[streams[i].agent] # "absent"
      BY <2>1, <3>1 DEF Safe, NoOrphanInTable, TypeOK
    <3>3. IsAgent(i) => i \in agentStreams'[streams[i].agent]
      BY <2>1, <3>1 DEF Safe, Owned, Disowned
    <3> QED
      BY <2>1, <3>2, <3>3 DEF Safe, NoOrphanInTable
  <2>3. shuttingDown' => LiveIds \ gone = {} /\ ActiveClients' = {}
    BY <2>1 DEF Safe, Down, ActiveClients
  <2> HIDE DEF gone
  <2> QED
    BY <2>1, <2>2, <2>3, Shrinks
<1>7. CASE Shutdown
  <2>1. Frees(LiveIds)
    BY <1>7 DEF Shutdown, Freed, Frees
  <2>2. ActiveClients' = {}
    BY <1>7 DEF Shutdown, ActiveClients, TypeOK
  <2> QED
    BY <2>1, <2>2, Shrinks
<1> QED
  BY <1>1, <1>2, <1>3, <1>4, <1>5, <1>6, <1>7 DEF ServerEvent

(* Once the 'close' event of a client or an agent has been handled nothing  *)
(* in the table refers to it, and after shutdown has begun the table stays  *)
(* empty: in any configuration, whatever frames still arrive.               *)
THEOREM NothingLeftBehind == Spec => [](NoOrphanInTable /\ DownMeansNoStreams)
<1>1. Init => Safe
  <2> SUFFICES ASSUME Init PROVE Safe
    OBVIOUS
  <2>1. LiveIds = {} /\ shuttingDown = FALSE
    BY DEF Init, LiveIds, Free
  <2> QED
    BY <2>1 DEF Safe, Shape, Owned, Down, NoOrphanInTable
<1>2. TypeOK /\ Safe /\ [Next]_vars => Safe'
  <2> SUFFICES ASSUME TypeOK, Safe, [Next]_vars PROVE Safe'
    OBVIOUS
  <2>1. CASE UNCHANGED vars
    BY <2>1, SameSafe DEF vars
  <2>2. CASE NetworkTakes
    BY <2>2, SameSafe DEF NetworkTakes
  <2> QED
    BY <2>1, <2>2, ServerEventSafe, ClientFrameSafe, AgentFrameSafe DEF Next
<1>3. Safe => NoOrphanInTable /\ DownMeansNoStreams
  BY DEF Safe, Down, DownMeansNoStreams
<1> QED
  BY <1>1, <1>2, <1>3, TypeCorrect, PTL DEF Spec

(* After TunnelServer.close no stream is left in the table or opened again, *)
(* however late a TCP_CONNECT arrives, RES_ABORT or not.                    *)
THEOREM ShutdownEmpties == Spec => []DownMeansNoStreams
<1>1. NoOrphanInTable /\ DownMeansNoStreams => DownMeansNoStreams
  OBVIOUS
<1> QED
  BY <1>1, NothingLeftBehind, PTL
-----------------------------------------------------------------------------
(* The configured limits hold for the streams that exist, and the server   *)
(* implements PortSlots.  The server compares its limits with counters:    *)
(* what carries them over to streams is that the counters are exact.       *)

(* A free slot names no port. *)
Blank == \A i \in Ids : streams[i].kind = "free" => streams[i].port = NoPort

StreamLimits ==
  /\ \A p \in Ports, k \in {"agent", "direct"} :
        MaxPerPort > 0 => Cardinality(On(k, p)) <= MaxPerPort
  /\ \A a \in AgentWs :
        MaxPerAgent > 0 => Cardinality({i \in Ids : IsAgent(i) /\ streams[i].agent = a}) <= MaxPerAgent
  /\ Cardinality(LiveIds) <= MaxStreams

ClientLimit == Cardinality(Present) <= MaxClients

(* A set of ids that has only lost members is no larger. *)
LEMMA NoLarger ==
  ASSUME NEW S \in SUBSET Ids, NEW T \in SUBSET S, NEW n \in Nat, Cardinality(S) <= n
  PROVE  Cardinality(T) <= n
<1>1. /\ Cardinality(T) <= Cardinality(S)
      /\ Cardinality(T) \in Nat /\ Cardinality(S) \in Nat
  BY IdsFinite, FS_Subset
<1> QED
  BY <1>1

(* One that has gained at most one member has room if it had. *)
LEMMA OneMore ==
  ASSUME NEW S \in SUBSET Ids, NEW T \in SUBSET Ids, NEW i \in Ids, T \subseteq S \cup {i},
         NEW n \in Nat, Cardinality(S) < n
  PROVE  Cardinality(T) <= n
<1>1. /\ IsFiniteSet(S) /\ Cardinality(S) \in Nat
      /\ IsFiniteSet(S \cup {i}) /\ Cardinality(S \cup {i}) \in Nat
  BY IdsFinite
<1>2. Cardinality(S \cup {i}) <= Cardinality(S) + 1
  BY <1>1, FS_AddElement
<1>3. Cardinality(S \cup {i}) <= n
  BY <1>1, <1>2
<1> QED
  BY <1>3, NoLarger

(* Each of the three kinds of step keeps the limits on streams. *)
LEMMA FreesWithin ==
  ASSUME TypeOK, StreamLimits, NEW S, Frees(S)
  PROVE  StreamLimits'
<1>1. \A i \in Ids : \/ streams'[i] = Free
                     \/ streams'[i] = streams[i]
  BY DEF Frees
<1>2. ASSUME NEW p, NEW k \in {"agent", "direct"} PROVE On(k, p)' \subseteq On(k, p)
  BY <1>1 DEF On, Free
<1>3. ASSUME NEW a
      PROVE  {i \in Ids : IsAgent(i) /\ streams[i].agent = a}'
                \subseteq {i \in Ids : IsAgent(i) /\ streams[i].agent = a}
  BY <1>1 DEF IsAgent, Free
<1>4. LiveIds' \subseteq LiveIds
  BY <1>1 DEF LiveIds, Free
<1>5. ASSUME NEW p \in Ports, NEW k \in {"agent", "direct"}, MaxPerPort > 0
      PROVE  Cardinality(On(k, p)') <= MaxPerPort
  <2>1. On(k, p) \in SUBSET Ids /\ On(k, p)' \in SUBSET On(k, p)
    BY <1>2 DEF On
  <2>2. Cardinality(On(k, p)) <= MaxPerPort
    BY <1>5 DEF StreamLimits
  <2> QED
    BY <2>1, <2>2, NoLarger, ServerAssumption
<1>6. \A a \in AgentWs :
        MaxPerAgent > 0 => Cardinality({i \in Ids : IsAgent(i) /\ streams[i].agent = a}') <= MaxPerAgent
  BY <1>3, NoLarger, ServerAssumption DEF StreamLimits
<1>7. Cardinality(LiveIds') <= MaxStreams
  BY <1>4, NoLarger, ServerAssumption DEF StreamLimits, LiveIds
<1> QED
  BY <1>5, <1>6, <1>7 DEF StreamLimits

LEMMA AcksWithin ==
  ASSUME TypeOK, StreamLimits, NEW j \in Ids, Acks(j)
  PROVE  StreamLimits'
<1>1. \A i \in Ids : /\ streams'[i].kind = streams[i].kind
                     /\ streams'[i].port = streams[i].port
                     /\ streams'[i].agent = streams[i].agent
  BY DEF Acks, TypeOK, Stream
<1>2. \A k, p : On(k, p)' = On(k, p)
  BY <1>1 DEF On
<1>3. \A a : {i \in Ids : IsAgent(i) /\ streams[i].agent = a}'
                = {i \in Ids : IsAgent(i) /\ streams[i].agent = a}
  BY <1>1 DEF IsAgent
<1>4. LiveIds' = LiveIds
  BY <1>1 DEF LiveIds
<1> QED
  BY <1>2, <1>3, <1>4 DEF StreamLimits

LEMMA TakesWithin ==
  ASSUME TypeOK, Exact, StreamLimits, NEW j \in Ids, NEW s \in Stream, Takes(j, s), Admitted(s)
  PROVE  StreamLimits'
<1>1. \A i \in Ids : streams'[i] = IF i = j THEN s ELSE streams[i]
  BY DEF Takes, TypeOK
<1>2. ASSUME NEW p \in Ports, NEW k \in {"agent", "direct"}, MaxPerPort > 0
      PROVE  Cardinality(On(k, p)') <= MaxPerPort
  <2>1. CASE s.kind = k /\ s.port = p
    <3>1. Cardinality(On(k, p)) < MaxPerPort
      BY <1>2, <2>1 DEF Admitted, Below, Exact, CountsExact
    <3>2. On(k, p)' \subseteq On(k, p) \cup {j}
      BY <1>1 DEF On
    <3> QED
      BY <3>1, <3>2, OneMore, ServerAssumption DEF On
  <2>2. CASE ~(s.kind = k /\ s.port = p)
    <3>1. On(k, p)' \subseteq On(k, p)
      BY <1>1, <2>2 DEF On
    <3> QED
      BY <1>2, <3>1, NoLarger, ServerAssumption DEF StreamLimits, On
  <2> QED
    BY <2>1, <2>2
<1>3. ASSUME NEW a \in AgentWs, MaxPerAgent > 0
      PROVE  Cardinality({i \in Ids : IsAgent(i) /\ streams[i].agent = a}') <= MaxPerAgent
  <2> DEFINE owned == {i \in Ids : IsAgent(i) /\ streams[i].agent = a}
  <2>1. CASE s.kind = "agent" /\ s.agent = a
    <3>0. agentStreams[a] = owned
      BY DEF Exact, OwnersExact
    <3>1. Cardinality(owned) < MaxPerAgent
      <4>1. Cardinality(agentStreams[a]) < MaxPerAgent
        BY <1>3, <2>1 DEF Admitted, Below
      <4> QED
        BY <3>0, <4>1
    <3>2. owned' \subseteq owned \cup {j}
      BY <1>1 DEF IsAgent
    <3>3. owned \subseteq Ids /\ owned' \subseteq Ids
      OBVIOUS
    <3> HIDE DEF owned
    <3>4. Cardinality(owned') <= MaxPerAgent
      BY <3>1, <3>2, <3>3, OneMore, ServerAssumption
    <3> QED
      BY <3>4 DEF owned
  <2>2. CASE ~(s.kind = "agent" /\ s.agent = a)
    <3>1. owned' \subseteq owned
      BY <1>1, <2>2 DEF IsAgent
    <3> QED
      BY <1>3, <3>1, NoLarger, ServerAssumption DEF StreamLimits
  <2> QED
    BY <2>1, <2>2
<1>4. Cardinality(LiveIds') <= MaxStreams
  <2>1. LiveIds' \subseteq LiveIds \cup {j}
    BY <1>1 DEF LiveIds
  <2>2. Cardinality(LiveIds) < MaxStreams
    BY IdsFinite, ServerAssumption DEF Admitted, TableFull, LiveIds
  <2> QED
    BY <2>1, <2>2, OneMore, ServerAssumption DEF LiveIds
<1> QED
  BY <1>2, <1>3, <1>4 DEF StreamLimits

(* The number of clients: only ClientJoin adds one. *)
LEMMA ClientStep ==
  ASSUME TypeOK, [Next]_vars
  PROVE  \/ \A w \in ClientWs : clients[w] = "absent" => clients'[w] = "absent"
         \/ \E w \in ClientWs : ClientJoin(w)
<1>1. \A i, toA, toC : EndStream(i, toA, toC) => clients' = clients
  BY DEF EndStream, wsVars
<1>2. \A i : Relay(i) => clients' = clients
  BY <1>1 DEF Relay, Abort, wsVars
<1>3. ASSUME NEW p \in Ports, DirectConnect(p) PROVE clients' = clients
  BY <1>3 DEF DirectConnect, Open, wsVars
<1>4. ASSUME NEW i \in Ids, DirectData(i) \/ DirectClose(i) \/ DirectError(i) \/ IdleTimeout(i)
      PROVE  clients' = clients
  BY <1>1, <1>2, <1>4 DEF DirectData, DirectClose, DirectError, IdleTimeout, Abort
<1>5. ASSUME NEW w \in ClientWs, NEW f \in ClientFrames, OnClientFrame(w, f)
      PROVE  clients' = clients
  BY <1>1, <1>2, <1>5 DEF OnClientFrame, ClientData, ClientOpenAck, ClientAbort, ClientResume,
                          ClientResAbort, vars, wsVars
<1>6. ASSUME NEW a \in AgentWs, NEW f \in AgentFrames, OnAgentFrame(a, f)
      PROVE  clients' = clients
  <2>1. ASSUME NEW p, AgentConnect(a, p) PROVE clients' = clients
    BY <2>1 DEF AgentConnect, Open, wsVars
  <2> QED
    BY <1>1, <1>2, <1>6, <2>1 DEF OnAgentFrame, StreamNotFound, AgentData, vars, wsVars
<1>7. ASSUME NEW w \in ClientWs, ClientClosing(w) \/ ClientClosed(w)
      PROVE  \A v \in ClientWs : clients[v] = "absent" => clients'[v] = "absent"
  BY <1>7 DEF ClientClosing, ClientClosed, TypeOK
<1>8. ASSUME NEW a \in AgentWs, AgentJoin(a) \/ AgentClosing(a) \/ AgentClosed(a)
      PROVE  clients' = clients
  BY <1>8 DEF AgentJoin, AgentClosing, AgentClosed
<1>9. CASE Shutdown
  BY <1>9 DEF Shutdown, TypeOK
<1>10. CASE NetworkTakes \/ UNCHANGED vars
  BY <1>10 DEF NetworkTakes, vars, wsVars
<1> QED
  BY <1>3, <1>4, <1>5, <1>6, <1>7, <1>8, <1>9, <1>10 DEF Next, ServerEvent

LEMMA ClientsWithin ==
  ASSUME TypeOK, ClientLimit, [Next]_vars
  PROVE  ClientLimit'
<1>1. IsFiniteSet(ClientWs) /\ \A S \in SUBSET ClientWs : IsFiniteSet(S) /\ Cardinality(S) \in Nat
  BY ServerAssumption, FS_Subset, FS_CardinalityType
<1>2. CASE \A w \in ClientWs : clients[w] = "absent" => clients'[w] = "absent"
  <2>1. Present' \subseteq Present
    BY <1>2 DEF Present
  <2>2. Cardinality(Present') <= Cardinality(Present)
    BY <1>1, <2>1, FS_Subset DEF Present
  <2>3. Cardinality(Present') \in Nat /\ Cardinality(Present) \in Nat
    BY <1>1 DEF Present
  <2> QED
    BY <2>2, <2>3, ServerAssumption DEF ClientLimit
<1>3. ASSUME NEW w \in ClientWs, ClientJoin(w) PROVE ClientLimit'
  <2>1. Present' = Present \cup {w}
    BY <1>3 DEF ClientJoin, Present, TypeOK
  <2>0. IsFiniteSet(Present)
    BY <1>1 DEF Present
  <2>3. Cardinality(Present') \in Nat /\ Cardinality(Present) \in Nat
    BY <1>1 DEF Present
  <2>2. Cardinality(Present') <= Cardinality(Present) + 1
    <3>1. Cardinality(Present \cup {w}) =
            IF w \in Present THEN Cardinality(Present) ELSE Cardinality(Present) + 1
      BY <2>0, FS_AddElement, Zenon
    <3> QED
      BY <2>1, <2>3, <3>1
  <2>4. Cardinality(Present) < MaxClients
    BY <1>3 DEF ClientJoin
  <2> QED
    BY <2>2, <2>3, <2>4, ServerAssumption DEF ClientLimit
<1> QED
  BY <1>2, <1>3, ClientStep

(* The configured limits on agent streams, direct connections, one agent's  *)
(* streams, the table and the clients hold for what exists, in every        *)
(* configuration without RES_ABORT on TCP streams.                          *)
THEOREM WithinLimits ==
  ASSUME "RES_ABORT" \notin ClientTypes
  PROVE  Spec => []LimitsHold
<1>1. Init => StreamLimits /\ ClientLimit
  <2> SUFFICES ASSUME Init PROVE StreamLimits /\ ClientLimit
    OBVIOUS
  <2>1. /\ \A k \in {"agent", "direct"} : \A p : On(k, p) = {}
        /\ \A a : {i \in Ids : IsAgent(i) /\ streams[i].agent = a} = {}
        /\ LiveIds = {} /\ Present = {}
    BY DEF Init, On, Free, IsAgent, LiveIds, Present
  <2>2. Cardinality({}) = 0
    BY FS_EmptySet
  <2>3. /\ \A p \in Ports, k \in {"agent", "direct"} : Cardinality(On(k, p)) = 0
        /\ \A a \in AgentWs : Cardinality({i \in Ids : IsAgent(i) /\ streams[i].agent = a}) = 0
        /\ Cardinality(LiveIds) = 0 /\ Cardinality(Present) = 0
    BY <2>1, <2>2, Zenon
  <2> QED
    BY <2>3, ServerAssumption DEF StreamLimits, ClientLimit
<1>2. TypeOK /\ Exact /\ StreamLimits /\ [Next]_vars => StreamLimits'
  BY TableSteps, FreesWithin, TakesWithin, AcksWithin DEF TableStep
<1>3. TypeOK /\ ClientLimit /\ [Next]_vars => ClientLimit'
  BY ClientsWithin
<1>4. CountsExact /\ OwnersExact <=> Exact
  BY DEF Exact
<1>5. StreamLimits /\ ClientLimit => LimitsHold
  BY DEF StreamLimits, ClientLimit, LimitsHold
<1> QED
  BY <1>1, <1>2, <1>3, <1>4, <1>5, TypeCorrect, SlotsAccounted, PTL DEF Spec

-----------------------------------------------------------------------------
(* Refinement: every step of the server takes one slot, gives some back or  *)
(* changes no slot.                                                         *)
LEMMA BlankStep ==
  ASSUME TypeOK, Blank, TableStep
  PROVE  Blank'
<1>1. ASSUME NEW S, Frees(S) PROVE Blank'
  BY <1>1 DEF Frees, Blank, Free
<1>2. ASSUME NEW j \in Ids, NEW s \in Stream, Takes(j, s), Admitted(s) PROVE Blank'
  BY <1>2 DEF Takes, Admitted, Blank, TypeOK
<1>3. ASSUME NEW j \in Ids, Acks(j) PROVE Blank'
  BY <1>3 DEF Acks, Blank, TypeOK, Stream
<1> QED
  BY <1>1, <1>2, <1>3 DEF TableStep

HolderOf(t) == [i \in Ids |-> <<t[i].kind, t[i].port>>]

LEMMA SlotStep ==
  ASSUME TypeOK, Exact, Blank, TableStep
  PROVE  \/ Slots!Next
         \/ HolderOf(streams') = HolderOf(streams)
<1> DEFINE holder == HolderOf(streams)
<1>1. ASSUME NEW S, Frees(S) PROVE Slots!Next
  <2> DEFINE T == S \cap LiveIds
  <2>1. T \in SUBSET {i \in Ids : streams[i].kind # "free"}
    BY DEF LiveIds
  <2>2. HolderOf(streams') = [i \in Ids |-> IF i \in T THEN <<Free.kind, Free.port>> ELSE holder[i]]
    BY <1>1 DEF Frees, HolderOf, LiveIds, Blank, Free
  <2>3. T \in SUBSET {i \in Ids : holder[i] # <<Free.kind, Free.port>>}
    BY <2>1 DEF HolderOf, Free
  <2> HIDE DEF T
  <2> QED
    BY <2>2, <2>3 DEF Slots!Next, Slots!GiveBack, HolderOf
<1>2. ASSUME NEW j \in Ids, NEW s \in Stream, Takes(j, s), Admitted(s) PROVE Slots!Next
  <2>1. holder[j] = <<Free.kind, Free.port>>
    BY <1>2 DEF Takes, HolderOf, Blank, Free
  <2>2. HolderOf(streams') = [holder EXCEPT ![j] = <<s.kind, s.port>>]
    BY <1>2 DEF Takes, HolderOf, TypeOK
  <2>3. Slots!Held(<<s.kind, s.port>>) = On(s.kind, s.port)
    BY DEF Slots!Held, On
  <2>4. MaxPerPort = 0 \/ Cardinality(On(s.kind, s.port)) < MaxPerPort
    BY <1>2 DEF Admitted, Below, Exact, CountsExact
  <2>5. <<s.kind, s.port>> \in {"agent", "direct"} \X Ports
    BY <1>2 DEF Admitted
  <2>6. Slots!Acquire(j, <<s.kind, s.port>>)
    <3>1. MaxPerPort = 0 \/ Slots!Cardinality(Slots!Held(<<s.kind, s.port>>)) < MaxPerPort
      BY <2>3, <2>4 DEF Slots!Cardinality, Cardinality
    <3> QED
      BY <2>1, <2>2, <3>1 DEF Slots!Acquire, HolderOf
  <2> QED
    BY <2>5, <2>6 DEF Slots!Next
<1>3. ASSUME NEW j \in Ids, Acks(j) PROVE HolderOf(streams') = HolderOf(streams)
  BY <1>3 DEF Acks, HolderOf, TypeOK, Stream
<1> QED
  BY <1>1, <1>2, <1>3 DEF TableStep

(* The agents' streams and the direct connections share out the slots of    *)
(* every port as PortSlots says, under the same assumption.                 *)
THEOREM SlotsImplemented ==
  ASSUME "RES_ABORT" \notin ClientTypes
  PROVE  Spec => SlotsKept
<1>1. Init => Blank /\ Slots!Init
  BY DEF Init, Blank, Free, Slots!Init
<1>2. TypeOK /\ Exact /\ Blank /\ [Next]_vars => [Slots!Next]_(HolderOf(streams))
  BY TableSteps, SlotStep DEF HolderOf
<1>3. TypeOK /\ Blank /\ [Next]_vars => Blank'
  BY TableSteps, BlankStep
<1>4. CountsExact /\ OwnersExact <=> Exact
  BY DEF Exact
<1> QED
  BY <1>1, <1>2, <1>3, <1>4, TypeCorrect, SlotsAccounted, PTL
     DEF Spec, SlotsKept, Slots!Spec, HolderOf
=============================================================================

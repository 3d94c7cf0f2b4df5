-------------------------- MODULE TcpServerProofs --------------------------
(***************************************************************************)
(* Proofs about TcpServer for every value of its constants: the type       *)
(* invariant, and that the port counts and the agents' sets agree with the *)
(* stream table.  The lemmas follow the operators the actions are built    *)
(* from: queueing frames, freeing slots, ending a stream, aborting many.   *)
(***************************************************************************)
EXTENDS TcpServer, FiniteSetTheorems, SequenceTheorems, TLAPS

(* Appending frames to a channel leaves a sequence of frames. *)
LEMMA ConcatType ==
  ASSUME NEW T, NEW s \in Seq(T), NEW r \in Seq(T)
  PROVE  s \o r \in Seq(T)
  OBVIOUS

(* sendFrame keeps the type of the channels. *)
LEMMA PostAllType ==
  ASSUME NEW W, NEW st, NEW q \in [W -> Seq(FrameSet)], NEW w, NEW fs \in Seq(FrameSet)
  PROVE  PostAll(q, st, w, fs) \in [W -> Seq(FrameSet)]
<1>1. CASE w \in W
  <2>1. q[w] \o fs \in Seq(FrameSet)
    BY <1>1, ConcatType
  <2> QED
    BY <2>1 DEF PostAll
<1>2. CASE w \notin W
  BY <1>2 DEF PostAll
<1> QED
  BY <1>1, <1>2

(* Every frame the server builds is one of the protocol's. *)
LEMMA FrameType ==
  ASSUME NEW t \in TcpTypes, NEW i \in Ids \cup {0}, NEW p \in Ports \cup {NoPort}
  PROVE  /\ Frame(t, i, p) \in FrameSet
         /\ Msg(t, i) \in FrameSet
  BY DEF Frame, Msg, FrameSet

(* The stream ids, and any set of them, can be counted. *)
LEMMA IdsFinite == IsFiniteSet(Ids) /\ \A S \in SUBSET Ids : IsFiniteSet(S) /\ Cardinality(S) \in Nat
<1>1. IsFiniteSet(Ids)
  BY FS_Interval, ServerAssumption DEF Ids
<1> QED
  BY <1>1, FS_Subset, FS_CardinalityType

(* Freeing slots keeps the table and the counts well typed. *)
LEMMA FreedType ==
  ASSUME TypeOK, NEW S, Freed(S)
  PROVE  /\ streams' \in [Ids -> Stream]
         /\ agentCount' \in [Ports -> Nat]
         /\ routerCount' \in [Ports -> Nat]
<1>1. Free \in Stream
  BY DEF Free, Stream
<1>2. \A c \in Nat, n \in Nat : Less(c, n) \in Nat
  BY DEF Less
<1>3. \A k, p : Cardinality(S \cap On(k, p)) \in Nat
  BY IdsFinite DEF On
<1>4. agentCount' \in [Ports -> Nat]
  BY <1>2, <1>3 DEF TypeOK, Freed
<1>5. routerCount' \in [Ports -> Nat]
  BY <1>2, <1>3 DEF TypeOK, Freed
<1> QED
  BY <1>1, <1>4, <1>5 DEF TypeOK, Freed

(* The same for one frame. *)
LEMMA PostType ==
  ASSUME NEW W, NEW st, NEW q \in [W -> Seq(FrameSet)], NEW w, NEW f \in FrameSet
  PROVE  Post(q, st, w, f) \in [W -> Seq(FrameSet)]
<1>1. <<f>> \in Seq(FrameSet)
  OBVIOUS
<1> QED
  BY <1>1, PostAllType DEF Post

(* onCleanup keeps the agents' sets sets of ids. *)
LEMMA DisownedType == ASSUME TypeOK, NEW S PROVE Disowned(S) \in [AgentWs -> SUBSET Ids]
  BY DEF TypeOK, Disowned

(* The end of one stream keeps the type invariant. *)
LEMMA EndStreamType ==
  ASSUME TypeOK, NEW i \in Ids, NEW toA \in Seq(FrameSet), NEW toC \in Seq(FrameSet),
         EndStream(i, toA, toC)
  PROVE  TypeOK'
<1>1. /\ streams' \in [Ids -> Stream]
      /\ agentCount' \in [Ports -> Nat]
      /\ routerCount' \in [Ports -> Nat]
  BY FreedType DEF EndStream
<1>2. agentStreams' \in [AgentWs -> SUBSET Ids]
  BY DisownedType DEF EndStream
<1>3. toClient' \in [ClientWs -> Seq(FrameSet)]
  BY PostAllType DEF EndStream, TypeOK
<1>4. toAgent' \in [AgentWs -> Seq(FrameSet)]
  BY PostAllType DEF EndStream, TypeOK
<1> QED
  BY <1>1, <1>2, <1>3, <1>4 DEF TypeOK, EndStream, wsVars

(* The frames that report an end are frames of the protocol. *)
LEMMA EndFrames ==
  ASSUME NEW i \in Ids
  PROVE  /\ AbortOf(i) \in FrameSet /\ CloseOf(i) \in FrameSet
         /\ <<>> \in Seq(FrameSet)
         /\ <<AbortOf(i)>> \in Seq(FrameSet) /\ <<CloseOf(i)>> \in Seq(FrameSet)
<1>1. AbortOf(i) \in FrameSet /\ CloseOf(i) \in FrameSet
  BY FrameType DEF AbortOf, CloseOf, TcpTypes
<1> QED
  BY <1>1

(* So does abortTcpStream. *)
LEMMA AbortType ==
  ASSUME TypeOK, NEW i \in Ids, NEW b \in BOOLEAN, Abort(i, b)
  PROVE  TypeOK'
  BY EndStreamType, EndFrames DEF Abort

(* And relaying a chunk, which may find the client gone. *)
LEMMA RelayType ==
  ASSUME TypeOK, NEW i \in Ids, Relay(i)
  PROVE  TypeOK'
<1>1. CASE clients[streams[i].ws] = "open"
  <2>1. Msg("TCP_DATA", i) \in FrameSet
    BY FrameType DEF TcpTypes
  <2>2. toClient' \in [ClientWs -> Seq(FrameSet)]
    BY <1>1, <2>1, PostType DEF Relay, TypeOK
  <2> QED
    BY <1>1, <2>2 DEF Relay, TypeOK, wsVars, streamVars
<1>2. CASE clients[streams[i].ws] # "open"
  BY <1>2, AbortType DEF Relay
<1> QED
  BY <1>1, <1>2

(* The notices of many ends are frames of the protocol. *)
LEMMA AbortsType ==
  ASSUME NEW T \in SUBSET Ids, NEW q \in Orders(T)
  PROVE  Aborts(q) \in Seq(FrameSet)
<1> DEFINE n == Cardinality(T)
<1>1. n \in Nat /\ q \in [1 .. n -> T]
  BY IdsFinite DEF Orders
<1> HIDE DEF n
<1>2. \A k \in 1 .. n : AbortOf(q[k]) \in FrameSet
  BY <1>1, EndFrames
<1>3. Aborts(q) \in [1 .. n -> FrameSet]
  BY <1>1, <1>2 DEF Aborts
<1> QED
  BY <1>1, <1>3, SeqDef

(* Telling the agents of many ends keeps their channels well typed. *)
LEMMA NotifyAgentsType ==
  ASSUME TypeOK, NEW S \in SUBSET Ids, NotifyAgents(S)
  PROVE  toAgent' \in [AgentWs -> Seq(FrameSet)]
<1> DEFINE T(a) == {i \in S : IsAgent(i) /\ streams[i].agent = a}
<1>1. PICK q \in Notifications(AgentWs, T) :
        toAgent' = [a \in AgentWs |->
                      IF agents[a] = "open" THEN toAgent[a] \o Aborts(q[a]) ELSE toAgent[a]]
  BY DEF NotifyAgents
<1>2. ASSUME NEW a \in AgentWs PROVE toAgent[a] \o Aborts(q[a]) \in Seq(FrameSet)
  <2>1. q[a] \in Orders(T(a)) /\ T(a) \in SUBSET Ids
    BY DEF Notifications
  <2>2. Aborts(q[a]) \in Seq(FrameSet)
    BY <2>1, AbortsType
  <2> QED
    BY <2>2, ConcatType DEF TypeOK
<1> QED
  BY <1>1, <1>2 DEF TypeOK

(* And telling the clients keeps theirs. *)
LEMMA NotifyClientsType ==
  ASSUME TypeOK, NEW S \in SUBSET Ids, NotifyClients(S)
  PROVE  toClient' \in [ClientWs -> Seq(FrameSet)]
<1> DEFINE T(w) == {i \in S : streams[i].ws = w}
<1>1. PICK q \in Notifications(ClientWs, T) :
        toClient' = [w \in ClientWs |->
                      IF clients[w] = "open" THEN toClient[w] \o Aborts(q[w]) ELSE toClient[w]]
  BY DEF NotifyClients
<1>2. ASSUME NEW w \in ClientWs PROVE toClient[w] \o Aborts(q[w]) \in Seq(FrameSet)
  <2>1. q[w] \in Orders(T(w)) /\ T(w) \in SUBSET Ids
    BY DEF Notifications
  <2>2. Aborts(q[w]) \in Seq(FrameSet)
    BY <2>1, AbortsType
  <2> QED
    BY <2>2, ConcatType DEF TypeOK
<1> QED
  BY <1>1, <1>2 DEF TypeOK

(* Opening a stream keeps the table, the allocator and the channels typed. *)
LEMMA OpenType ==
  ASSUME TypeOK, NEW i \in Ids, NEW s \in Stream, s.ws \in ClientWs, s.port \in Ports, Open(i, s)
  PROVE  /\ streams' \in [Ids -> Stream]
         /\ nextId' \in Ids
         /\ toClient' \in [ClientWs -> Seq(FrameSet)]
         /\ UNCHANGED wsVars
<1>1. Frame("TCP_OPEN", i, s.port) \in FrameSet
  BY FrameType DEF TcpTypes
<1>2. toClient' \in [ClientWs -> Seq(FrameSet)]
  BY <1>1, PostType DEF Open, TypeOK
<1>3. nextId' \in Ids
  BY ServerAssumption DEF Open, Allocates, Ids
<1> QED
  BY <1>2, <1>3 DEF Open, TypeOK

(* handleClientFrame keeps the type invariant. *)
LEMMA ClientFrameType ==
  ASSUME TypeOK, NEW w \in ClientWs, NEW f \in ClientFrames, OnClientFrame(w, f)
  PROVE  TypeOK'
<1> DEFINE i == f.id
<1>0. i \in Ids
  BY DEF ClientFrames, Msg, Frame
<1>1. CASE UNCHANGED vars
  BY <1>1 DEF TypeOK, vars, wsVars, streamVars, channels
<1>2. CASE ClientData(i)
  <2>1. Msg("TCP_DATA", i) \in FrameSet
    BY <1>0, FrameType DEF TcpTypes
  <2>2. toAgent' \in [AgentWs -> Seq(FrameSet)]
    BY <1>2, <2>1, PostType DEF ClientData, TypeOK
  <2> QED
    BY <1>2, <2>2 DEF ClientData, TypeOK, wsVars, streamVars
<1>3. CASE EndStream(i, <<CloseOf(i)>>, <<>>)
  BY <1>0, <1>3, EndStreamType, EndFrames
<1>4. CASE ClientOpenAck(i)
  <2>1. CASE streams[i].awaiting
    <3>0. /\ streams' = [streams EXCEPT ![i].awaiting = FALSE]
          /\ toAgent' = Post(toAgent, agents, streams[i].agent,
                            Frame("TCP_CONNECT_ACK", i, streams[i].port))
          /\ UNCHANGED <<wsVars, agentStreams, agentCount, routerCount, nextId, toClient>>
      BY <1>4, <2>1 DEF ClientOpenAck
    <3>1. Frame("TCP_CONNECT_ACK", i, streams[i].port) \in FrameSet
      BY <1>0, FrameType DEF TcpTypes, TypeOK, Stream
    <3>2. toAgent' \in [AgentWs -> Seq(FrameSet)]
      BY <3>0, <3>1, PostType DEF TypeOK
    <3>3. streams' \in [Ids -> Stream]
      BY <1>0, <3>0 DEF TypeOK, Stream
    <3> QED
      BY <3>0, <3>2, <3>3 DEF TypeOK, wsVars
  <2> QED
    BY <1>1, <1>4, <2>1 DEF ClientOpenAck
<1>5. CASE ClientAbort(i)
  <2>1. Frame("TCP_ABORT", 0, streams[i].port) \in FrameSet
    BY <1>0, FrameType DEF TcpTypes, TypeOK, Stream
  <2> DEFINE toA == IF streams[i].awaiting
                    THEN <<Frame("TCP_ABORT", 0, streams[i].port), AbortOf(i)>>
                    ELSE <<AbortOf(i)>>
  <2>2. toA \in Seq(FrameSet) /\ <<>> \in Seq(FrameSet)
    BY <1>0, <2>1, EndFrames
  <2>3. EndStream(i, toA, <<>>)
    BY <1>5 DEF ClientAbort
  <2> HIDE DEF toA
  <2> QED
    BY <1>0, <2>2, <2>3, EndStreamType
<1>6. CASE ClientResume(i)
  BY <1>0, <1>1, <1>6, RelayType DEF ClientResume
<1>7. CASE ClientResAbort(i)
  <2>1. Free \in Stream
    BY DEF Free, Stream
  <2> QED
    BY <1>7, <2>1 DEF ClientResAbort, TypeOK, wsVars, channels
<1> QED
  BY <1>1, <1>2, <1>3, <1>4, <1>5, <1>6, <1>7 DEF OnClientFrame

(* _handleTcpConnect keeps the type invariant. *)
LEMMA AgentConnectType ==
  ASSUME TypeOK, NEW a \in AgentWs, NEW p \in Ports, AgentConnect(a, p)
  PROVE  TypeOK'
<1>1. CASE Refused(a, p)
  <2>0. /\ toAgent' = Post(toAgent, agents, a, Msg("TCP_ABORT", 0))
        /\ UNCHANGED <<wsVars, streamVars, nextId, toClient>>
    BY <1>1 DEF AgentConnect
  <2>1. Msg("TCP_ABORT", 0) \in FrameSet
    BY FrameType DEF TcpTypes
  <2>2. toAgent' \in [AgentWs -> Seq(FrameSet)]
    BY <2>0, <2>1, PostType DEF TypeOK
  <2> QED
    BY <2>0, <2>2 DEF TypeOK, wsVars, streamVars
<1>2. CASE ~Refused(a, p)
  <2> DEFINE s(w) == [kind |-> "agent", ws |-> w, agent |-> a, port |-> p, awaiting |-> TRUE]
  <2>1. PICK w \in ActiveClients, i \in Ids :
          /\ Open(i, s(w))
          /\ agentStreams' = [agentStreams EXCEPT ![a] = @ \cup {i}]
    BY <1>2 DEF AgentConnect
  <2>2. s(w) \in Stream /\ s(w).ws \in ClientWs /\ s(w).port \in Ports
    BY DEF Stream, ActiveClients
  <2>3. /\ streams' \in [Ids -> Stream]
        /\ nextId' \in Ids
        /\ toClient' \in [ClientWs -> Seq(FrameSet)]
        /\ UNCHANGED wsVars
    BY <2>1, <2>2, OpenType
  <2>4. agentStreams' \in [AgentWs -> SUBSET Ids]
    BY <2>1 DEF TypeOK
  <2>5. agentCount' \in [Ports -> Nat] /\ UNCHANGED <<routerCount, toAgent>>
    <3>1. /\ agentCount' = [agentCount EXCEPT ![p] = @ + 1]
          /\ UNCHANGED <<routerCount, toAgent>>
      BY <1>2 DEF AgentConnect
    <3> QED
      BY <3>1 DEF TypeOK
  <2> QED
    BY <2>3, <2>4, <2>5 DEF TypeOK, wsVars
<1> QED
  BY <1>1, <1>2

(* TcpAgentServer._handleFrame keeps the type invariant. *)
LEMMA AgentFrameType ==
  ASSUME TypeOK, NEW a \in AgentWs, NEW f \in AgentFrames, OnAgentFrame(a, f)
  PROVE  TypeOK'
<1> DEFINE i == f.id
<1>1. CASE f.type = "TCP_CONNECT"
  <2>1. f.port \in Ports
    BY <1>1 DEF AgentFrames, Msg, Frame
  <2> QED
    BY <1>1, <2>1, AgentConnectType DEF OnAgentFrame
<1>2. CASE f.type # "TCP_CONNECT"
  <2>0. i \in Ids
    BY <1>2 DEF AgentFrames, Msg, Frame
  <2>1. CASE StreamNotFound(a, f)
    <3>1. toAgent' \in [AgentWs -> Seq(FrameSet)]
      BY <2>0, <2>1, EndFrames, PostType DEF StreamNotFound, TypeOK
    <3> QED
      BY <2>1, <3>1 DEF StreamNotFound, TypeOK, wsVars, streamVars
  <2>2. CASE UNCHANGED vars
    BY <2>2 DEF TypeOK, vars, wsVars, streamVars, channels
  <2>3. CASE AgentData(i)
    BY <2>0, <2>2, <2>3, RelayType, EndStreamType, EndFrames DEF AgentData
  <2>4. CASE EndStream(i, <<>>, <<CloseOf(i)>>)
    BY <2>0, <2>4, EndStreamType, EndFrames
  <2>5. CASE EndStream(i, <<>>, <<AbortOf(i)>>)
    BY <2>0, <2>5, EndStreamType, EndFrames
  <2> QED
    BY <1>2, <2>1, <2>2, <2>3, <2>4, <2>5 DEF OnAgentFrame
<1> QED
  BY <1>1, <1>2

(* Sockets, timers, WebSockets and shutdown keep the type invariant. *)
LEMMA ServerEventType ==
  ASSUME TypeOK, ServerEvent
  PROVE  TypeOK'
<1>1. ASSUME NEW p \in Ports, DirectConnect(p) PROVE TypeOK'
  <2> DEFINE s(w) == [kind |-> "direct", ws |-> w, agent |-> NoWs, port |-> p, awaiting |-> FALSE]
  <2>1. PICK w \in ActiveClients, i \in Ids : Open(i, s(w))
    BY <1>1 DEF DirectConnect
  <2>2. s(w) \in Stream /\ s(w).ws \in ClientWs /\ s(w).port \in Ports
    BY DEF Stream, ActiveClients
  <2>3. /\ streams' \in [Ids -> Stream]
        /\ nextId' \in Ids
        /\ toClient' \in [ClientWs -> Seq(FrameSet)]
        /\ UNCHANGED wsVars
    BY <2>1, <2>2, OpenType
  <2>4. routerCount' \in [Ports -> Nat] /\ UNCHANGED <<agentStreams, agentCount, toAgent>>
    BY <1>1 DEF DirectConnect, TypeOK
  <2> QED
    BY <2>3, <2>4 DEF TypeOK, wsVars
<1>2. ASSUME NEW i \in Ids,
             DirectData(i) \/ DirectClose(i) \/ DirectError(i) \/ IdleTimeout(i)
      PROVE  TypeOK'
  BY <1>2, RelayType, EndStreamType, EndFrames, AbortType
     DEF DirectData, DirectClose, DirectError, IdleTimeout
<1>3. ASSUME NEW w \in ClientWs, ClientJoin(w) \/ ClientClosing(w) PROVE TypeOK'
  BY <1>3 DEF ClientJoin, ClientClosing, TypeOK, streamVars, channels, WsState
<1>4. ASSUME NEW w \in ClientWs, ClientClosed(w) PROVE TypeOK'
  <2> DEFINE gone == StreamsOn(w)
  <2>1. gone \in SUBSET Ids
    BY DEF LiveIds, StreamsOn
  <2>2. /\ Freed(gone)
        /\ agentStreams' = Disowned(gone)
        /\ NotifyAgents(gone)
        /\ clients' = [clients EXCEPT ![w] = "absent"]
        /\ toClient' = [toClient EXCEPT ![w] = <<>>]
        /\ UNCHANGED <<agents, registered, shuttingDown, nextId>>
    BY <1>4 DEF ClientClosed
  <2> HIDE DEF gone
  <2>3. toAgent' \in [AgentWs -> Seq(FrameSet)]
    BY <2>1, <2>2, NotifyAgentsType
  <2>4. toClient' \in [ClientWs -> Seq(FrameSet)] /\ clients' \in [ClientWs -> WsState]
    BY <2>2 DEF TypeOK, WsState
  <2> QED
    BY <2>2, <2>3, <2>4, FreedType, DisownedType DEF TypeOK
<1>5. ASSUME NEW a \in AgentWs, AgentJoin(a) \/ AgentClosing(a) PROVE TypeOK'
  BY <1>5 DEF AgentJoin, AgentClosing, TypeOK, streamVars, channels, WsState
<1>6. ASSUME NEW a \in AgentWs, AgentClosed(a) PROVE TypeOK'
  <2> DEFINE gone == agentStreams[a] \cap LiveIds
  <2>1. gone \in SUBSET Ids
    BY DEF LiveIds
  <2>2. /\ Freed(gone)
        /\ agentStreams' = [Disowned(gone) EXCEPT ![a] = {}]
        /\ NotifyClients(gone)
        /\ agents' = [agents EXCEPT ![a] = "absent"]
        /\ registered' = registered \ {a}
        /\ toAgent' = [toAgent EXCEPT ![a] = <<>>]
        /\ UNCHANGED <<clients, shuttingDown, nextId>>
    BY <1>6 DEF AgentClosed
  <2> HIDE DEF gone
  <2>3. toClient' \in [ClientWs -> Seq(FrameSet)]
    BY <2>1, <2>2, NotifyClientsType
  <2>4. /\ toAgent' \in [AgentWs -> Seq(FrameSet)]
        /\ agents' \in [AgentWs -> WsState]
        /\ registered' \subseteq AgentWs
    BY <2>2 DEF TypeOK, WsState
  <2>5. agentStreams' \in [AgentWs -> SUBSET Ids]
    BY <2>2, DisownedType
  <2> QED
    BY <2>2, <2>3, <2>4, <2>5, FreedType DEF TypeOK
<1>7. ASSUME Shutdown PROVE TypeOK'
  <2>1. LiveIds \in SUBSET Ids
    BY DEF LiveIds
  <2>2. /\ toAgent' \in [AgentWs -> Seq(FrameSet)]
        /\ toClient' \in [ClientWs -> Seq(FrameSet)]
    BY <1>7, <2>1, NotifyAgentsType, NotifyClientsType DEF Shutdown
  <2>3. /\ clients' \in [ClientWs -> WsState]
        /\ agents' \in [AgentWs -> WsState]
    BY <1>7 DEF Shutdown, TypeOK, WsState
  <2>4. /\ registered' \subseteq AgentWs
        /\ agentStreams' \in [AgentWs -> SUBSET Ids]
        /\ shuttingDown' \in BOOLEAN
        /\ nextId' \in Ids
    BY <1>7 DEF Shutdown, TypeOK
  <2>5. Freed(LiveIds)
    BY <1>7 DEF Shutdown
  <2> QED
    BY <2>2, <2>3, <2>4, <2>5, FreedType DEF TypeOK
<1> QED
  BY <1>1, <1>2, <1>3, <1>4, <1>5, <1>6, <1>7 DEF ServerEvent

(* Sending what is queued keeps the type invariant. *)
LEMMA NetworkTakesType ==
  ASSUME TypeOK, NetworkTakes
  PROVE  TypeOK'
  BY DEF NetworkTakes, TypeOK, wsVars, streamVars

(* The state of the server keeps its types whatever clients and agents send,*)
(* for every number of WebSockets, ports, ids and every limit.              *)
THEOREM TypeCorrect == Spec => []TypeOK
<1>1. Init => TypeOK
  <2> SUFFICES ASSUME Init PROVE TypeOK
    OBVIOUS
  <2>1. Free \in Stream
    BY DEF Free, Stream
  <2>2. 1 \in Ids
    BY ServerAssumption DEF Ids
  <2> QED
    <3>1. <<>> \in Seq(FrameSet)
      OBVIOUS
    <3>2. streams \in [Ids -> Stream] /\ nextId \in Ids
      BY <2>1, <2>2 DEF Init
    <3>3. toClient \in [ClientWs -> Seq(FrameSet)] /\ toAgent \in [AgentWs -> Seq(FrameSet)]
      BY <3>1 DEF Init
    <3> QED
      BY <3>2, <3>3 DEF Init, TypeOK, WsState
<1>2. TypeOK /\ [Next]_vars => TypeOK'
  <2> SUFFICES ASSUME TypeOK, [Next]_vars PROVE TypeOK'
    OBVIOUS
  <2>1. CASE UNCHANGED vars
    BY <2>1 DEF TypeOK, vars, wsVars, streamVars, channels
  <2> QED
    BY <2>1, ServerEventType, ClientFrameType, AgentFrameType, NetworkTakesType DEF Next
<1> QED
  BY <1>1, <1>2, PTL DEF Spec

-----------------------------------------------------------------------------
(* The slot accounting.                                                     *)

Exact == CountsExact /\ OwnersExact

(* Taking a set away from a finite one takes away the size of the overlap. *)
LEMMA CountWithout ==
  ASSUME NEW A \in SUBSET Ids, NEW S
  PROVE  Less(Cardinality(A), Cardinality(S \cap A)) = Cardinality(A \ S)
<1>1. /\ IsFiniteSet(A) /\ Cardinality(A) \in Nat
      /\ Cardinality(S \cap A) \in Nat /\ Cardinality(A \ S) \in Nat
  BY IdsFinite
<1>2. Cardinality(A \ S) = Cardinality(A) - Cardinality(A \cap S) /\ A \cap S = S \cap A
  BY <1>1, FS_Difference
<1> QED
  BY <1>1, <1>2 DEF Less

(* cleanupTcpStream with its onCleanup, on any set of streams, keeps the
   accounts exact. *)
LEMMA FreedExact ==
  ASSUME TypeOK, Exact, NEW S, Freed(S), agentStreams' = Disowned(S)
  PROVE  Exact'
<1>1. ASSUME NEW k \in {"agent", "direct"}, NEW p
      PROVE  On(k, p)' = On(k, p) \ S /\ On(k, p) \in SUBSET Ids
  BY DEF On, Freed, Free
<1>2. ASSUME NEW p \in Ports
      PROVE  /\ agentCount'[p] = Cardinality(On("agent", p)')
             /\ routerCount'[p] = Cardinality(On("direct", p)')
  <2>1. /\ agentCount'[p] = Less(agentCount[p], Cardinality(S \cap On("agent", p)))
        /\ routerCount'[p] = Less(routerCount[p], Cardinality(S \cap On("direct", p)))
    BY DEF Freed
  <2>2. agentCount[p] = Cardinality(On("agent", p)) /\ routerCount[p] = Cardinality(On("direct", p))
    BY DEF Exact, CountsExact
  <2>3. ASSUME NEW k \in {"agent", "direct"}
        PROVE  Less(Cardinality(On(k, p)), Cardinality(S \cap On(k, p))) = Cardinality(On(k, p)')
    <3>1. On(k, p)' = On(k, p) \ S /\ On(k, p) \in SUBSET Ids
      BY <1>1
    <3> QED
      BY <3>1, CountWithout
  <2> QED
    BY <2>1, <2>2, <2>3
<1>3. CountsExact'
  BY <1>2 DEF CountsExact
<1>4. OwnersExact'
  BY DEF Exact, OwnersExact, Freed, Disowned, Free, IsAgent
<1> QED
  BY <1>3, <1>4 DEF Exact

(* A step that changes neither table nor accounts keeps them exact. *)
LEMMA SameExact ==
  ASSUME Exact, UNCHANGED streamVars
  PROVE  Exact'
  BY DEF Exact, CountsExact, OwnersExact, On, IsAgent, streamVars

(* The end of one stream keeps the accounts exact. *)
LEMMA EndStreamExact ==
  ASSUME TypeOK, Exact, NEW i, NEW toA, NEW toC, EndStream(i, toA, toC)
  PROVE  Exact'
  BY FreedExact DEF EndStream

(* Relaying a chunk keeps the accounts exact. *)
LEMMA RelayExact ==
  ASSUME TypeOK, Exact, NEW i, Relay(i)
  PROVE  Exact'
  BY EndStreamExact, SameExact DEF Relay, Abort

(* A stream that opens adds its id to the streams of its kind and port and to
   no others. *)
LEMMA OpenOn ==
  ASSUME TypeOK, NEW i \in Ids, NEW s \in Stream, Open(i, s), s.kind # "free",
         NEW k \in {"agent", "direct"}, NEW p
  PROVE  Cardinality(On(k, p)') =
           Cardinality(On(k, p)) + (IF k = s.kind /\ p = s.port THEN 1 ELSE 0)
<1>1. streams' = [streams EXCEPT ![i] = s] /\ streams[i].kind = "free"
  BY DEF Open, Allocates, LiveIds
<1>2. IsFiniteSet(On(k, p)) /\ Cardinality(On(k, p)) \in Nat
  BY IdsFinite DEF On
<1>3. CASE k = s.kind /\ p = s.port
  <2>1. On(k, p)' = On(k, p) \cup {i} /\ i \notin On(k, p)
    BY <1>1, <1>3 DEF On, TypeOK
  <2> QED
    BY <1>2, <1>3, <2>1, FS_AddElement
<1>4. CASE ~(k = s.kind /\ p = s.port)
  <2>1. On(k, p)' = On(k, p)
    BY <1>1, <1>4 DEF On, TypeOK
  <2> QED
    BY <1>2, <1>4, <2>1
<1> QED
  BY <1>3, <1>4

(* A direct connection keeps the accounts exact. *)
LEMMA DirectConnectExact ==
  ASSUME TypeOK, Exact, NEW p \in Ports, DirectConnect(p)
  PROVE  Exact'
<1> DEFINE s(w) == [kind |-> "direct", ws |-> w, agent |-> NoWs, port |-> p, awaiting |-> FALSE]
<1>1. PICK w \in ActiveClients, i \in Ids : Open(i, s(w))
  BY DEF DirectConnect
<1>2. s(w) \in Stream /\ s(w).kind = "direct" /\ s(w).port = p
  BY DEF Stream, ActiveClients
<1>3. /\ routerCount' = [routerCount EXCEPT ![p] = @ + 1]
      /\ UNCHANGED <<agentStreams, agentCount>>
  BY DEF DirectConnect
<1>4. ASSUME NEW r \in Ports
      PROVE  /\ Cardinality(On("agent", r)') = Cardinality(On("agent", r))
             /\ Cardinality(On("direct", r)') = Cardinality(On("direct", r)) + (IF r = p THEN 1 ELSE 0)
  <2>1. Cardinality(On("agent", r)) \in Nat
    BY IdsFinite DEF On
  <2> QED
    BY <1>1, <1>2, <2>1, OpenOn
<1>5. ASSUME NEW r \in Ports
      PROVE  Cardinality(On("direct", r)) \in Nat
  BY IdsFinite DEF On
<1>6. CountsExact'
  BY <1>3, <1>4, <1>5 DEF Exact, CountsExact, TypeOK
<1>7. streams' = [streams EXCEPT ![i] = s(w)] /\ streams[i].kind = "free"
  BY <1>1 DEF Open, Allocates, LiveIds
<1>8. OwnersExact'
  BY <1>2, <1>3, <1>7 DEF Exact, OwnersExact, IsAgent, TypeOK
<1> QED
  BY <1>6, <1>8 DEF Exact

(* An agent's connection keeps the accounts exact. *)
LEMMA AgentConnectExact ==
  ASSUME TypeOK, Exact, NEW a \in AgentWs, NEW p \in Ports, AgentConnect(a, p)
  PROVE  Exact'
<1>1. CASE Refused(a, p)
  BY <1>1, SameExact DEF AgentConnect
<1>2. CASE ~Refused(a, p)
  <2> DEFINE s(w) == [kind |-> "agent", ws |-> w, agent |-> a, port |-> p, awaiting |-> TRUE]
  <2>1. PICK w \in ActiveClients, i \in Ids :
          /\ Open(i, s(w))
          /\ agentStreams' = [agentStreams EXCEPT ![a] = @ \cup {i}]
    BY <1>2 DEF AgentConnect
  <2>2. s(w) \in Stream /\ s(w).kind = "agent" /\ s(w).port = p
    BY DEF Stream, ActiveClients
  <2>3. /\ agentCount' = [agentCount EXCEPT ![p] = @ + 1]
        /\ UNCHANGED routerCount
    BY <1>2 DEF AgentConnect
  <2>4. ASSUME NEW r \in Ports
        PROVE  /\ Cardinality(On("agent", r)') = Cardinality(On("agent", r)) + (IF r = p THEN 1 ELSE 0)
               /\ Cardinality(On("direct", r)') = Cardinality(On("direct", r))
    <3>1. Cardinality(On("direct", r)) \in Nat
      BY IdsFinite DEF On
    <3> QED
      BY <2>1, <2>2, <3>1, OpenOn
  <2>5. ASSUME NEW r \in Ports
        PROVE  Cardinality(On("agent", r)) \in Nat
    BY IdsFinite DEF On
  <2>6. CountsExact'
    BY <2>3, <2>4, <2>5 DEF Exact, CountsExact, TypeOK
  <2>7. streams' = [streams EXCEPT ![i] = s(w)] /\ streams[i].kind = "free"
    BY <2>1 DEF Open, Allocates, LiveIds
  <2>8. ASSUME NEW b \in AgentWs
        PROVE  agentStreams'[b] = {j \in Ids : IsAgent(j)' /\ streams'[j].agent = b}
    <3>1. \A j \in Ids : IsAgent(j)' /\ streams'[j].agent = b
                           <=> (IsAgent(j) /\ streams[j].agent = b) \/ (j = i /\ b = a)
      BY <2>2, <2>7 DEF IsAgent, TypeOK
    <3>2. agentStreams'[b] = IF b = a THEN agentStreams[b] \cup {i} ELSE agentStreams[b]
      BY <2>1 DEF TypeOK
    <3>3. agentStreams[b] = {j \in Ids : IsAgent(j) /\ streams[j].agent = b}
      BY DEF Exact, OwnersExact
    <3> QED
      BY <2>1, <3>1, <3>2, <3>3
  <2>9. OwnersExact'
    BY <2>8 DEF OwnersExact
  <2> QED
    BY <2>6, <2>9 DEF Exact
<1> QED
  BY <1>1, <1>2

(* A deferred acknowledgement changes no account. *)
LEMMA OpenAckExact ==
  ASSUME TypeOK, Exact, NEW i \in Ids, ClientOpenAck(i)
  PROVE  Exact'
<1>1. CASE streams[i].awaiting
  <2>1. /\ streams' = [streams EXCEPT ![i].awaiting = FALSE]
        /\ UNCHANGED <<agentStreams, agentCount, routerCount>>
    BY <1>1 DEF ClientOpenAck
  <2>2. \A j \in Ids : /\ streams'[j].kind = streams[j].kind
                       /\ streams'[j].port = streams[j].port
                       /\ streams'[j].agent = streams[j].agent
    BY <2>1 DEF TypeOK, Stream
  <2>3. \A k, p : On(k, p)' = On(k, p)
    BY <2>2 DEF On
  <2>4. CountsExact'
    BY <2>1, <2>3 DEF Exact, CountsExact
  <2>5. OwnersExact'
    BY <2>1, <2>2 DEF Exact, OwnersExact, IsAgent
  <2> QED
    BY <2>4, <2>5 DEF Exact
<1>2. CASE ~streams[i].awaiting
  BY <1>2, SameExact DEF ClientOpenAck, vars
<1> QED
  BY <1>1, <1>2

(* An agent's disconnect, which deletes its whole set, keeps them exact. *)
LEMMA AgentClosedExact ==
  ASSUME TypeOK, Exact, NEW a \in AgentWs, AgentClosed(a)
  PROVE  Exact'
<1> DEFINE gone == agentStreams[a] \cap LiveIds
<1>1. Freed(gone) /\ agentStreams' = [Disowned(gone) EXCEPT ![a] = {}]
  BY DEF AgentClosed
<1>2. Disowned(gone)[a] = {}
  BY DEF Disowned, Exact, OwnersExact, LiveIds, IsAgent
<1>3. agentStreams' = Disowned(gone)
  BY <1>1, <1>2 DEF Disowned
<1> QED
  BY <1>1, <1>3, FreedExact

(* And so does shutdown, which clears every set. *)
LEMMA ShutdownExact ==
  ASSUME TypeOK, Exact, Shutdown
  PROVE  Exact'
<1>1. Freed(LiveIds) /\ agentStreams' = [a \in AgentWs |-> {}]
  BY DEF Shutdown
<1>2. Disowned(LiveIds) = [a \in AgentWs |-> {}]
  BY DEF Disowned, Exact, OwnersExact, LiveIds, IsAgent
<1> QED
  BY <1>1, <1>2, FreedExact

(* The server's turns, whoever they are for. *)
LEMMA EventExact ==
  ASSUME TypeOK, Exact, ServerEvent
  PROVE  Exact'
<1>1. ASSUME NEW p \in Ports, DirectConnect(p) PROVE Exact'
  BY <1>1, DirectConnectExact
<1>2. ASSUME NEW i \in Ids, DirectData(i) \/ DirectClose(i) \/ DirectError(i) \/ IdleTimeout(i)
      PROVE  Exact'
  BY <1>2, RelayExact, EndStreamExact DEF DirectData, DirectClose, DirectError, IdleTimeout, Abort
<1>3. ASSUME NEW w \in ClientWs, ClientJoin(w) \/ ClientClosing(w) \/ ClientClosed(w)
      PROVE  Exact'
  BY <1>3, SameExact, FreedExact DEF ClientJoin, ClientClosing, ClientClosed, StreamsOn
<1>4. ASSUME NEW a \in AgentWs, AgentJoin(a) \/ AgentClosing(a) \/ AgentClosed(a)
      PROVE  Exact'
  BY <1>4, SameExact, AgentClosedExact DEF AgentJoin, AgentClosing
<1> QED
  BY <1>1, <1>2, <1>3, <1>4, ShutdownExact DEF ServerEvent

LEMMA ClientFrameExact ==
  ASSUME TypeOK, Exact, NEW w \in ClientWs, NEW f \in ClientFrames, f.type # "RES_ABORT",
         OnClientFrame(w, f)
  PROVE  Exact'
<1>1. f.id \in Ids
  BY DEF ClientFrames, Msg, Frame
<1>2. CASE UNCHANGED vars
  BY <1>2, SameExact DEF vars
<1>3. CASE ClientData(f.id)
  BY <1>3, SameExact DEF ClientData
<1>4. CASE EndStream(f.id, <<CloseOf(f.id)>>, <<>>)
  BY <1>4, EndStreamExact
<1>5. CASE ClientAbort(f.id)
  BY <1>5, EndStreamExact DEF ClientAbort
<1>6. CASE ClientResume(f.id)
  BY <1>2, <1>6, RelayExact DEF ClientResume
<1> QED
  BY <1>1, <1>2, <1>3, <1>4, <1>5, <1>6, OpenAckExact DEF OnClientFrame

LEMMA AgentFrameExact ==
  ASSUME TypeOK, Exact, NEW a \in AgentWs, NEW f \in AgentFrames, OnAgentFrame(a, f)
  PROVE  Exact'
<1>1. CASE f.type = "TCP_CONNECT"
  <2>1. f.port \in Ports
    BY <1>1 DEF AgentFrames, Msg, Frame
  <2> QED
    BY <1>1, <2>1, AgentConnectExact DEF OnAgentFrame
<1>2. CASE f.type # "TCP_CONNECT"
  <2>1. CASE UNCHANGED vars
    BY <2>1, SameExact DEF vars
  <2>2. CASE StreamNotFound(a, f)
    BY <2>2, SameExact DEF StreamNotFound
  <2>3. CASE AgentData(f.id)
    BY <2>1, <2>3, RelayExact, EndStreamExact DEF AgentData
  <2> QED
    BY <1>2, <2>1, <2>2, <2>3, EndStreamExact DEF OnAgentFrame
<1> QED
  BY <1>1, <1>2

LEMMA BeginsExact == Init => Exact
<1> SUFFICES ASSUME Init PROVE Exact
  OBVIOUS
<1>1. \A k \in {"agent", "direct"} : \A p : On(k, p) = {}
  BY DEF Init, On, Free
<1>2. Cardinality({}) = 0
  BY FS_EmptySet
<1> QED
  BY <1>1, <1>2 DEF Init, Exact, CountsExact, OwnersExact, IsAgent, Free

(* Every per-port slot and every agent's set of streams is accounted for    *)
(* exactly, whatever closes, errors, times out or disconnects, as long as   *)
(* no client sends RES_ABORT on a TCP stream (serve/client.js does when its *)
(* idle timer fires first, and then CountsExact is violated).               *)
THEOREM SlotsAccounted ==
  ASSUME "RES_ABORT" \notin ClientTypes
  PROVE  Spec => [](CountsExact /\ OwnersExact)
<1>1. TypeOK /\ Exact /\ [Next]_vars => Exact'
  <2> SUFFICES ASSUME TypeOK, Exact, [Next]_vars PROVE Exact'
    OBVIOUS
  <2>1. CASE UNCHANGED vars
    BY <2>1, SameExact DEF vars
  <2>2. ASSUME NEW w \in ClientWs, NEW f \in ClientFrames, OnClientFrame(w, f) PROVE Exact'
    <3>1. f.type # "RES_ABORT"
      BY DEF ClientFrames, Msg, Frame
    <3> QED
      BY <2>2, <3>1, ClientFrameExact
  <2>3. ASSUME NEW a \in AgentWs, NEW f \in AgentFrames, OnAgentFrame(a, f) PROVE Exact'
    BY <2>3, AgentFrameExact
  <2>4. CASE NetworkTakes
    BY <2>4, SameExact DEF NetworkTakes
  <2> QED
    BY <2>1, <2>2, <2>3, <2>4, EventExact DEF Next
<1> QED
  BY <1>1, BeginsExact, TypeCorrect, PTL DEF Spec, Exact

(* An agent's disconnect therefore aborts exactly the streams of its own    *)
(* (TcpAgentServer._agentStreams), under the same condition.                *)
THEOREM OwnersAccounted ==
  ASSUME "RES_ABORT" \notin ClientTypes
  PROVE  Spec => []OwnersExact
<1>1. CountsExact /\ OwnersExact => OwnersExact
  OBVIOUS
<1> QED
  BY <1>1, SlotsAccounted, PTL
=============================================================================

----------------------------- MODULE TcpServer -----------------------------
(***************************************************************************)
(* The TCP side of the tunnel server: the stream table of StreamManager    *)
(* with its id allocator, the direct listeners of TcpRouter, the agents    *)
(* and their virtual sockets of TcpAgentServer, the registry of            *)
(* ClientManager, and the shutdown of TunnelServer.  Node runs one         *)
(* callback at a time, so every callback is one action.                    *)
(*                                                                         *)
(* A WebSocket is named by a member of ClientWs or AgentWs and goes        *)
(* absent -> open -> closing -> absent.  In "closing" its readyState is no *)
(* longer OPEN: nothing more can be sent on it, but frames that had        *)
(* arrived are still handled, until the 'close' event.                     *)
(*                                                                         *)
(* Flow control (PAUSE, RESUME, the buffer levels) decides when a chunk    *)
(* moves, never whether a stream lives, except for the overflow of a held  *)
(* buffer and the flush of one; both appear here as choices.  Idle timers  *)
(* may expire at any moment a stream exists.  HTTP streams, which share    *)
(* the table, are left out.                                                *)
(***************************************************************************)
EXTENDS Frames, FiniteSets

CONSTANTS
  ClientWs,      \* WebSockets of tunnel clients
  AgentWs,       \* WebSockets of TCP agents
  DirectPorts,   \* TCP_TUNNEL_PORTS
  AgentPorts,    \* TCP_AGENT_ALLOWED_PORTS
  MaxClients,    \* MAX_TUNNEL_CLIENTS
  MaxStreams,    \* MAX_CONCURRENT_STREAMS
  MaxPerPort,    \* TCP_MAX_CONNECTIONS_PER_PORT, 0 for no limit
  MaxPerAgent,   \* TCP_AGENT_MAX_STREAMS_PER_AGENT, 0 for no limit
  ClientTypes,   \* the frame types tunnel clients send on TCP streams
  MaxQueue       \* bound: inputs wait while a channel holds this many frames

NoWs == "none"      \* no WebSocket

ASSUME ServerAssumption ==
  /\ MaxId \in Nat \ {0}
  /\ NoPort \notin Ports /\ NoWs \notin ClientWs /\ NoWs \notin AgentWs
  /\ IsFiniteSet(ClientWs) /\ IsFiniteSet(AgentWs) /\ IsFiniteSet(Ports)
  /\ DirectPorts \subseteq Ports /\ AgentPorts \subseteq Ports
  /\ MaxClients \in Nat /\ MaxStreams \in Nat
  /\ MaxPerPort \in Nat /\ MaxPerAgent \in Nat
  /\ ClientTypes \subseteq TcpTypes
  /\ MaxQueue \in Nat

VARIABLES
  streams,       \* StreamManager.streams, a record for every id
  nextId,        \* StreamManager._nextStreamId
  clients,       \* readyState of each client WebSocket
  agents,        \* readyState of each agent WebSocket
  registered,    \* the keys of TcpAgentServer._agentStreams
  agentStreams,  \* TcpAgentServer._agentStreams
  agentCount,    \* TcpAgentServer._connCountByPort
  routerCount,   \* TcpRouter._connCountByPort
  shuttingDown,  \* TunnelServer._shuttingDown
  toClient,      \* frames sent to each client, not yet received
  toAgent        \* frames sent to each agent, not yet received

wsVars     == <<clients, agents, registered, shuttingDown>>
streamVars == <<streams, agentStreams, agentCount, routerCount>>
channels   == <<toClient, toAgent>>
vars       == <<wsVars, streamVars, nextId, channels>>

(* A slot of the stream table: free, a stream of a direct connection, or    *)
(* a stream of a connection at an agent, which awaits TCP_OPEN_ACK first.   *)
Stream == [kind : {"free", "direct", "agent"}, ws : ClientWs \cup {NoWs},
           agent : AgentWs \cup {NoWs}, port : Ports \cup {NoPort},
           awaiting : BOOLEAN]

Free == [kind |-> "free", ws |-> NoWs, agent |-> NoWs, port |-> NoPort,
         awaiting |-> FALSE]

WsState == {"absent", "open", "closing"}

Init ==
  /\ streams = [i \in Ids |-> Free]
  /\ nextId = 1
  /\ clients = [w \in ClientWs |-> "absent"]
  /\ agents = [a \in AgentWs |-> "absent"]
  /\ registered = {}
  /\ agentStreams = [a \in AgentWs |-> {}]
  /\ agentCount = [p \in Ports |-> 0]
  /\ routerCount = [p \in Ports |-> 0]
  /\ shuttingDown = FALSE
  /\ toClient = [w \in ClientWs |-> <<>>]
  /\ toAgent = [a \in AgentWs |-> <<>>]

-----------------------------------------------------------------------------
(* The stream table.                                                        *)

LiveIds      == {i \in Ids : streams[i].kind # "free"}
IsAgent(i)   == streams[i].kind = "agent"
IsDirect(i)  == streams[i].kind = "direct"

On(kind, p)  == {i \in Ids : streams[i].kind = kind /\ streams[i].port = p}

(* allocateStreamId: the first free id from _nextStreamId on, cyclically.   *)
Distance(i)  == (i + MaxId - nextId) % MaxId
AllocatesNext(i) ==          \* mutant: ids in use are not skipped
  /\ i = nextId
  /\ nextId' = IF i = MaxId THEN 1 ELSE i + 1

AllocatesWithoutWrap(i) ==   \* mutant: no return to 1 after the last id
  /\ i \notin LiveIds
  /\ \A j \in Ids \ LiveIds : Distance(i) <= Distance(j)
  /\ nextId' = i + 1

Allocates(i) ==
  /\ i \notin LiveIds
  /\ \A j \in Ids \ LiveIds : Distance(i) <= Distance(j)
  /\ nextId' = IF i = MaxId THEN 1 ELSE i + 1

(* A count never goes below zero, whatever is taken from it.                *)
Less(c, n) == IF n < c THEN c - n ELSE 0

(* cleanupTcpStream on every stream of S: the slot is freed and onCleanup   *)
(* gives the port's count back and removes the id from its agent's set.     *)
DisownedNone(S) == agentStreams   \* mutant: onCleanup forgets the agent's set

Disowned(S) == [a \in AgentWs |-> agentStreams[a] \ {i \in S : streams[i].agent = a}]

FreedUncounted(S) ==         \* mutant: onCleanup forgets the count
  /\ streams' = [i \in Ids |-> IF i \in S THEN Free ELSE streams[i]]
  /\ UNCHANGED <<agentCount, routerCount>>

Freed(S) ==
  /\ streams' = [i \in Ids |-> IF i \in S THEN Free ELSE streams[i]]
  /\ agentCount' = [p \in Ports |-> Less(agentCount[p], Cardinality(S \cap On("agent", p)))]
  /\ routerCount' = [p \in Ports |-> Less(routerCount[p], Cardinality(S \cap On("direct", p)))]

(* One stream ends: its agent, if it has one, is sent toA and its client    *)
(* toC.                                                                     *)
EndStream(i, toA, toC) ==
  /\ Freed({i})
  /\ agentStreams' = Disowned({i})
  /\ toAgent' = IF IsAgent(i) THEN PostAll(toAgent, agents, streams[i].agent, toA) ELSE toAgent
  /\ toClient' = PostAll(toClient, clients, streams[i].ws, toC)
  /\ UNCHANGED <<wsVars, nextId>>

AbortOf(i) == Msg("TCP_ABORT", i)
CloseOf(i) == Msg("TCP_CLOSE", i)

(* abortTcpStream: a virtual socket tells its agent, and the client is told *)
(* when notify says so.                                                     *)
AbortUnheard(i, notify) ==   \* mutant: the virtual socket tells its agent nothing
  EndStream(i, <<>>, IF notify THEN <<AbortOf(i)>> ELSE <<>>)

Abort(i, notify) ==
  EndStream(i, <<AbortOf(i)>>, IF notify THEN <<AbortOf(i)>> ELSE <<>>)

(* abortTcpStream in a loop over the table.  The order of the frames is the *)
(* table's insertion order, which is the order of the ids only until they   *)
(* wrap around: any order.                                                  *)
Orders(T) == {q \in [1 .. Cardinality(T) -> T] : \A x \in T : \E k \in DOMAIN q : q[k] = x}
Aborts(q) == [k \in DOMAIN q |-> AbortOf(q[k])]

Notifications(W, T(_)) ==
  {q \in [W -> UNION {Orders(T(w)) : w \in W}] : \A w \in W : q[w] \in Orders(T(w))}

NotifyAgents(S) ==
  \E q \in Notifications(AgentWs, LAMBDA a : {i \in S : IsAgent(i) /\ streams[i].agent = a}) :
    toAgent' = [a \in AgentWs |->
                  IF agents[a] = "open" THEN toAgent[a] \o Aborts(q[a]) ELSE toAgent[a]]

NotifyClients(S) ==
  \E q \in Notifications(ClientWs, LAMBDA w : {i \in S : streams[i].ws = w}) :
    toClient' = [w \in ClientWs |->
                  IF clients[w] = "open" THEN toClient[w] \o Aborts(q[w]) ELSE toClient[w]]

(* A chunk that came from the outside goes to the client; a client that is  *)
(* no longer OPEN is found out here.                                        *)
Relay(i) ==
  IF clients[streams[i].ws] = "open"
  THEN /\ toClient' = Post(toClient, clients, streams[i].ws, Msg("TCP_DATA", i))
       /\ UNCHANGED <<wsVars, streamVars, nextId, toAgent>>
  ELSE Abort(i, TRUE)

-----------------------------------------------------------------------------
(* Opening a stream: the client with the least buffered bytes, any of the   *)
(* open ones, is sent TCP_OPEN.                                             *)

KnownClients  == {w \in ClientWs : clients[w] # "absent"}   \* mutant: no readyState test
ActiveClients == {w \in ClientWs : clients[w] = "open"}

AtMost(n, limit) == limit = 0 \/ n <= limit                 \* mutant: off by one
Below(n, limit)  == limit = 0 \/ n < limit

TableOverfull == Cardinality(LiveIds) > MaxStreams \/ LiveIds = Ids   \* mutant
TableFull     == Cardinality(LiveIds) >= MaxStreams \/ LiveIds = Ids

Open(i, s) ==
  /\ Allocates(i)
  /\ streams' = [streams EXCEPT ![i] = s]
  /\ toClient' = Post(toClient, clients, s.ws, Frame("TCP_OPEN", i, s.port))
  /\ UNCHANGED wsVars

(* TcpRouter._handleConnection.  A connection that is refused is destroyed  *)
(* and leaves no trace.                                                     *)
DirectConnect(p) ==
  /\ p \in DirectPorts
  /\ ~shuttingDown
  /\ Below(routerCount[p], MaxPerPort)
  /\ ~TableFull
  /\ \E w \in ActiveClients, i \in Ids :
       Open(i, [kind |-> "direct", ws |-> w, agent |-> NoWs, port |-> p, awaiting |-> FALSE])
  /\ routerCount' = [routerCount EXCEPT ![p] = @ + 1]
  /\ UNCHANGED <<agentStreams, agentCount, toAgent>>

(* TcpAgentServer._handleTcpConnect and TcpRouter.createAgentStream.  The   *)
(* refusal names no port.                                                   *)
Refused(a, p) ==
  \/ p \notin AgentPorts
  \/ ~Below(agentCount[p], MaxPerPort)
  \/ ~Below(Cardinality(agentStreams[a]), MaxPerAgent)
  \/ ActiveClients = {}
  \/ TableFull

AgentConnectEarly(a, p) ==   \* mutant: TCP_CONNECT_ACK before the client's TCP_OPEN_ACK
  \/ /\ Refused(a, p)
     /\ toAgent' = Post(toAgent, agents, a, Msg("TCP_ABORT", 0))
     /\ UNCHANGED <<wsVars, streamVars, nextId, toClient>>
  \/ /\ ~Refused(a, p)
     /\ \E w \in ActiveClients, i \in Ids :
          /\ Open(i, [kind |-> "agent", ws |-> w, agent |-> a, port |-> p, awaiting |-> FALSE])
          /\ agentStreams' = [agentStreams EXCEPT ![a] = @ \cup {i}]
          /\ toAgent' = Post(toAgent, agents, a, Frame("TCP_CONNECT_ACK", i, p))
     /\ agentCount' = [agentCount EXCEPT ![p] = @ + 1]
     /\ UNCHANGED routerCount

AgentConnect(a, p) ==
  \/ /\ Refused(a, p)
     /\ toAgent' = Post(toAgent, agents, a, Msg("TCP_ABORT", 0))
     /\ UNCHANGED <<wsVars, streamVars, nextId, toClient>>
  \/ /\ ~Refused(a, p)
     /\ \E w \in ActiveClients, i \in Ids :
          /\ Open(i, [kind |-> "agent", ws |-> w, agent |-> a, port |-> p, awaiting |-> TRUE])
          /\ agentStreams' = [agentStreams EXCEPT ![a] = @ \cup {i}]
     /\ agentCount' = [agentCount EXCEPT ![p] = @ + 1]
     /\ UNCHANGED <<routerCount, toAgent>>

-----------------------------------------------------------------------------
(* Frames from a tunnel client: StreamManager.handleClientFrame.            *)

ClientData(i) ==     \* written to the socket, virtual or not
  /\ toAgent' = IF IsAgent(i)
                THEN Post(toAgent, agents, streams[i].agent, Msg("TCP_DATA", i))
                ELSE toAgent
  /\ UNCHANGED <<wsVars, streamVars, nextId, toClient>>

ClientOpenAck(i) ==  \* the deferred TCP_CONNECT_ACK
  IF streams[i].awaiting
  THEN /\ streams' = [streams EXCEPT ![i].awaiting = FALSE]
       /\ toAgent' = Post(toAgent, agents, streams[i].agent,
                          Frame("TCP_CONNECT_ACK", i, streams[i].port))
       /\ UNCHANGED <<wsVars, agentStreams, agentCount, routerCount, nextId, toClient>>
  ELSE UNCHANGED vars

ClientAbortById(i) ==    \* mutant: the agent, which knows no id yet, is told only the id
  EndStream(i, <<AbortOf(i)>>, <<>>)

ClientAbort(i) ==    \* an agent not yet acknowledged is answered by port
  EndStream(i, IF streams[i].awaiting
               THEN <<Frame("TCP_ABORT", 0, streams[i].port), AbortOf(i)>>
               ELSE <<AbortOf(i)>>, <<>>)

ClientResume(i) ==   \* what a virtual socket held back is flushed
  \/ UNCHANGED vars
  \/ IsAgent(i) /\ ~streams[i].awaiting /\ Relay(i)

ClientResAbort(i) == \* the HTTP cleanupStream: the slot is freed, nothing else
  /\ streams' = [streams EXCEPT ![i] = Free]
  /\ UNCHANGED <<wsVars, agentStreams, agentCount, routerCount, nextId, channels>>

OnClientFrame(w, f) ==
  /\ clients[w] # "absent"
  /\ IF f.id \in LiveIds /\ streams[f.id].ws = w
     THEN \/ f.type = "TCP_DATA"     /\ ClientData(f.id)
          \/ f.type = "TCP_CLOSE"    /\ EndStream(f.id, <<CloseOf(f.id)>>, <<>>)
          \/ f.type = "TCP_OPEN_ACK" /\ ClientOpenAck(f.id)
          \/ f.type = "TCP_ABORT"    /\ ClientAbort(f.id)
          \/ f.type = "RESUME"       /\ ClientResume(f.id)
          \/ f.type = "RES_ABORT"    /\ ClientResAbort(f.id)
     ELSE UNCHANGED vars

-----------------------------------------------------------------------------
(* Frames from an agent: TcpAgentServer._handleFrame.                       *)

AgentData(i) ==
  \/ Relay(i)
  \/ UNCHANGED vars                                  \* held: the socket is paused
  \/ EndStream(i, <<AbortOf(i)>>, <<CloseOf(i)>>)    \* held bytes over the limit

StreamNotFound(a, f) ==
  /\ toAgent' = IF f.type \in {"TCP_DATA", "TCP_CLOSE"}
                THEN Post(toAgent, agents, a, AbortOf(f.id)) ELSE toAgent
  /\ UNCHANGED <<wsVars, streamVars, nextId, toClient>>

OnAgentFrame(a, f) ==
  /\ agents[a] # "absent"
  /\ IF f.type = "TCP_CONNECT" THEN AgentConnect(a, f.port)
     ELSE IF f.id \notin LiveIds \/ ~IsAgent(f.id) THEN StreamNotFound(a, f)
     ELSE IF streams[f.id].agent # a \/ streams[f.id].awaiting THEN UNCHANGED vars
     ELSE \/ f.type = "TCP_DATA"  /\ AgentData(f.id)
          \/ f.type = "TCP_CLOSE" /\ EndStream(f.id, <<>>, <<CloseOf(f.id)>>)
          \/ f.type = "TCP_ABORT" /\ EndStream(f.id, <<>>, <<AbortOf(f.id)>>)

-----------------------------------------------------------------------------
(* Events of the server's own sockets and timers.                           *)

DirectData(i)  == IsDirect(i) /\ Relay(i)
DirectClose(i) == IsDirect(i) /\ EndStream(i, <<>>, <<CloseOf(i)>>)
DirectError(i) == IsDirect(i) /\ EndStream(i, <<>>, <<AbortOf(i)>>)
IdleQuiet(i)   == i \in LiveIds /\ Abort(i, FALSE)               \* mutant: no TCP_ABORT
IdleTimeout(i) == i \in LiveIds /\ Abort(i, TRUE)

-----------------------------------------------------------------------------
(* WebSockets: ClientManager.addClient and cleanupClient,                   *)
(* TcpAgentServer.handleConnection and cleanupAgent.  A WebSocket leaves    *)
(* OPEN when its peer closes it, its connection breaks or a heartbeat goes  *)
(* unanswered; the 'close' (or 'error') event comes later.                  *)

Present == {w \in ClientWs : clients[w] # "absent"}

ClientJoin(w) ==
  /\ ~shuttingDown
  /\ clients[w] = "absent"
  /\ Cardinality(Present) < MaxClients
  /\ clients' = [clients EXCEPT ![w] = "open"]
  /\ UNCHANGED <<agents, registered, shuttingDown, streamVars, nextId, channels>>

ClientClosing(w) ==
  /\ clients[w] = "open"
  /\ clients' = [clients EXCEPT ![w] = "closing"]
  /\ UNCHANGED <<agents, registered, shuttingDown, streamVars, nextId, channels>>

(* cleanupStreamsForWs: every stream of the client's.                       *)
DirectStreamsOn(w) == {i \in LiveIds : streams[i].ws = w /\ IsDirect(i)}   \* mutant
StreamsOn(w)       == {i \in LiveIds : streams[i].ws = w}

ClientClosed(w) ==
  LET gone == StreamsOn(w) IN
  /\ clients[w] = "closing"
  /\ clients' = [clients EXCEPT ![w] = "absent"]
  /\ Freed(gone)
  /\ agentStreams' = Disowned(gone)
  /\ NotifyAgents(gone)
  /\ toClient' = [toClient EXCEPT ![w] = <<>>]
  /\ UNCHANGED <<agents, registered, shuttingDown, nextId>>

AgentJoin(a) ==
  /\ ~shuttingDown
  /\ agents[a] = "absent"
  /\ agents' = [agents EXCEPT ![a] = "open"]
  /\ registered' = registered \cup {a}
  /\ UNCHANGED <<clients, shuttingDown, streamVars, nextId, channels>>

AgentClosing(a) ==
  /\ agents[a] = "open"
  /\ agents' = [agents EXCEPT ![a] = "closing"]
  /\ UNCHANGED <<clients, registered, shuttingDown, streamVars, nextId, channels>>

AgentClosed(a) ==   \* everything in the agent's set that is still a stream
  LET gone == agentStreams[a] \cap LiveIds IN
  /\ agents[a] = "closing"
  /\ agents' = [agents EXCEPT ![a] = "absent"]
  /\ registered' = registered \ {a}
  /\ Freed(gone)
  /\ agentStreams' = [Disowned(gone) EXCEPT ![a] = {}]
  /\ NotifyClients(gone)
  /\ toAgent' = [toAgent EXCEPT ![a] = <<>>]
  /\ UNCHANGED <<clients, shuttingDown, nextId>>

(* TunnelServer.close: in one turn TcpRouter.close aborts every TCP stream, *)
(* ClientManager.close starts closing every client, TcpAgentServer.close    *)
(* forgets every agent and starts closing it.                               *)
Shutdown ==
  LET stop(st) == [w \in DOMAIN st |-> IF st[w] = "open" THEN "closing" ELSE st[w]] IN
  /\ ~shuttingDown
  /\ shuttingDown' = TRUE
  /\ Freed(LiveIds)
  /\ NotifyAgents(LiveIds)
  /\ NotifyClients(LiveIds)
  /\ clients' = stop(clients)
  /\ agents' = stop(agents)
  /\ registered' = {}
  /\ agentStreams' = [a \in AgentWs |-> {}]
  /\ UNCHANGED nextId

-----------------------------------------------------------------------------
(* The specification of the server alone: clients and agents may send any   *)
(* frame at any time, the network takes what the server sent.               *)

ServerEvent ==
  \/ \E p \in Ports : DirectConnect(p)
  \/ \E i \in Ids : DirectData(i) \/ DirectClose(i) \/ DirectError(i) \/ IdleTimeout(i)
  \/ \E w \in ClientWs : ClientJoin(w) \/ ClientClosing(w) \/ ClientClosed(w)
  \/ \E a \in AgentWs : AgentJoin(a) \/ AgentClosing(a) \/ AgentClosed(a)
  \/ Shutdown

ClientFrames == {Msg(t, i) : t \in ClientTypes, i \in Ids}
AgentFrames  == {Frame("TCP_CONNECT", 0, p) : p \in Ports}
                  \cup {Msg(t, i) : t \in {"TCP_DATA", "TCP_CLOSE", "TCP_ABORT"}, i \in Ids}

Room == /\ \A w \in ClientWs : Len(toClient[w]) < MaxQueue
        /\ \A a \in AgentWs : Len(toAgent[a]) < MaxQueue

NetworkTakes ==
  /\ ~Room
  /\ toClient' = [w \in ClientWs |-> <<>>]
  /\ toAgent' = [a \in AgentWs |-> <<>>]
  /\ UNCHANGED <<wsVars, streamVars, nextId>>

Next ==
  \/ Room /\ ServerEvent
  \/ Room /\ \E w \in ClientWs, f \in ClientFrames : OnClientFrame(w, f)
  \/ Room /\ \E a \in AgentWs, f \in AgentFrames : OnAgentFrame(a, f)
  \/ NetworkTakes

Spec == Init /\ [][Next]_vars

-----------------------------------------------------------------------------
(* Properties.                                                              *)

(* The type invariant of the server's state.                                *)
TypeOK ==
  /\ streams \in [Ids -> Stream]
  /\ nextId \in Ids
  /\ clients \in [ClientWs -> WsState]
  /\ agents \in [AgentWs -> WsState]
  /\ registered \subseteq AgentWs
  /\ agentStreams \in [AgentWs -> SUBSET Ids]
  /\ agentCount \in [Ports -> Nat]
  /\ routerCount \in [Ports -> Nat]
  /\ shuttingDown \in BOOLEAN
  /\ toClient \in [ClientWs -> Seq(FrameSet)]
  /\ toAgent \in [AgentWs -> Seq(FrameSet)]

(* Both per-port counts, kept by increments on open and onCleanup callbacks *)
(* on every way a stream can end, are at every moment the number of streams *)
(* there are: no slot is lost and none is given back twice.                 *)
CountsExact ==
  \A p \in Ports : /\ agentCount[p] = Cardinality(On("agent", p))
                   /\ routerCount[p] = Cardinality(On("direct", p))

(* The set of ids kept for an agent in _agentStreams is exactly the set of  *)
(* streams whose virtual socket belongs to it: an agent's disconnect aborts *)
(* all of its streams and nobody else's.                                    *)
OwnersExact ==
  \A a \in AgentWs : agentStreams[a] = {i \in Ids : IsAgent(i) /\ streams[i].agent = a}

(* However streams end and whatever clients send, the configured limits on  *)
(* agent streams, direct connections, one agent's streams and the table     *)
(* hold for the streams that exist, not only for the counters compared.     *)
LimitsHold ==
  /\ \A p \in Ports, k \in {"agent", "direct"} :
        MaxPerPort > 0 => Cardinality(On(k, p)) <= MaxPerPort
  /\ \A a \in AgentWs :
        MaxPerAgent > 0 => Cardinality({i \in Ids : IsAgent(i) /\ streams[i].agent = a}) <= MaxPerAgent
  /\ Cardinality(LiveIds) <= MaxStreams
  /\ Cardinality(Present) <= MaxClients

(* No stream outlives either of its WebSockets: once the 'close' event of a *)
(* client or an agent has been handled, nothing in the table refers to it.  *)
NoOrphanInTable ==
  \A i \in LiveIds : /\ clients[streams[i].ws] # "absent"
                     /\ IsAgent(i) => agents[streams[i].agent] # "absent"

(* After shutdown has begun no stream is left or ever opened again, however *)
(* late a TCP_CONNECT arrives on a closing WebSocket.                       *)
DownMeansNoStreams == shuttingDown => LiveIds = {}

(* A stream id is never handed out while it is in use: a live id keeps its  *)
(* kind, client, agent and port, and never goes back to awaiting its ACK.   *)
SameBinding(s, t) ==
  /\ t.kind = s.kind /\ t.ws = s.ws /\ t.agent = s.agent /\ t.port = s.port
  /\ t.awaiting => s.awaiting

BindingStable ==
  [][\A i \in Ids : streams[i].kind # "free" /\ streams'[i].kind # "free"
                      => SameBinding(streams[i], streams'[i])]_vars

(* The streams of agents, and the direct connections, take and give back    *)
(* the slots of their port as PortSlots says, in every way a stream can     *)
(* start or end.                                                            *)
Slots == INSTANCE PortSlots WITH
  Streams <- Ids, Ports <- {"agent", "direct"} \X Ports, Limit <- MaxPerPort,
  None <- <<Free.kind, Free.port>>,
  holder <- [i \in Ids |-> <<streams[i].kind, streams[i].port>>]

SlotsKept == Slots!Spec
=============================================================================

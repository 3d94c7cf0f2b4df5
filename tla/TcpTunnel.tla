----------------------------- MODULE TcpTunnel -----------------------------
(***************************************************************************)
(* The whole TCP tunnel: the server, one TCP agent and the tunnel clients, *)
(* each end of every WebSocket with its own view of its state.  A frame    *)
(* sent is received in order or, when the connection breaks, not at all;   *)
(* the two ends learn of the break at different moments.                   *)
(*                                                                         *)
(* The server's state and actions are those of TcpServer, which this       *)
(* module extends; here the frames it handles are those that agents and    *)
(* clients have sent, and MaxQueue bounds nothing.                         *)
(*                                                                         *)
(* Faults names what may go wrong in a run, so that a property can be      *)
(* checked with exactly the faults it is meant to survive:                 *)
(*   agent_link, client_link   a connection breaks                         *)
(*   no_client     the application connects before any tunnel client is up *)
(*   app_leaves    the application gives up before its connect is answered *)
(*   local_fails   the local service cannot be reached, or breaks off      *)
(*   server_idle, client_idle  an idle timer expires                       *)
(*   shutdown      the server is told to stop                              *)
(***************************************************************************)
EXTENDS TcpServer, SequencesExt

CONSTANTS
  Socks, SockPort, HostAllowed, MaxLocal,
  Faults,
  MaxDirect,   \* bound: direct connections made in a run
  MaxConns,    \* bound: connections of both kinds made in a run
  MaxData      \* bound: chunks of data sent into the tunnel in a run

VARIABLES
  sock, pending, streamed, agentLinks, fromAgent,
  opened, local, clientLinks, fromClient,
  directs,     \* how many direct connections were made
  chunks,      \* and chunks of data sent into the tunnel
  idled        \* history: the streams a client gave up at its idle timer

Agt == INSTANCE TcpAgent
Cli == INSTANCE TcpClient

(* Ids are not reused in a run: each connection may have one of its own.    *)
ASSUME TunnelAssumption ==
  /\ {"TCP_OPEN_ACK", "TCP_DATA", "TCP_CLOSE", "TCP_ABORT", "RES_ABORT"} \subseteq ClientTypes
  /\ SockPort \in [Socks -> Ports] /\ Agt!NoSock \notin Socks /\ IsFiniteSet(Socks)
  /\ HostAllowed \in BOOLEAN /\ MaxLocal \in Nat
  /\ MaxDirect \in Nat /\ MaxConns \in Nat /\ MaxData \in Nat
  /\ MaxConns <= MaxId
  /\ Faults \subseteq {"agent_link", "client_link", "no_client", "app_leaves",
                       "local_fails", "server_idle", "client_idle", "shutdown"}

serverVars == <<streams, nextId, clients, agents, registered, agentStreams,
                agentCount, routerCount, shuttingDown>>
agentVars  == <<sock, pending, streamed, agentLinks>>
clientVars == <<opened, local, clientLinks>>
bounds     == <<directs, chunks, idled>>
tunnelVars == <<serverVars, toClient, toAgent, agentVars, fromAgent, clientVars,
          fromClient, bounds>>

May(fault) == fault \in Faults

TunnelInit == Init /\ Agt!Init /\ Cli!Init /\ directs = 0 /\ chunks = 0
              /\ idled = {}

-----------------------------------------------------------------------------
(* One component takes a step of its own.                                   *)

ServerOnly == UNCHANGED <<agentVars, fromAgent, clientVars, fromClient>>
AgentOnly  == UNCHANGED <<serverVars, toClient, toAgent, clientVars, fromClient>>
ClientOnly == UNCHANGED <<serverVars, toClient, toAgent, agentVars, fromAgent>>

ServerStep == ServerOnly /\ UNCHANGED bounds
AgentStep  == AgentOnly /\ UNCHANGED bounds
ClientStep == ClientOnly /\ UNCHANGED bounds

Chunk == chunks < MaxData /\ chunks' = chunks + 1 /\ UNCHANGED <<directs, idled>>

MayConnect == directs + Cardinality({s \in Socks : sock[s] # "new"}) < MaxConns

AppConnects ==
  /\ AgentStep /\ MayConnect
  /\ May("no_client") \/ ActiveClients # {}
  /\ \E s \in Socks : Agt!AppConnect(s)

AppLeaves ==
  /\ AgentStep
  /\ \E s \in Socks : /\ s \in Agt!Bridged \/ May("app_leaves")
                      /\ Agt!AppEnds(s) \/ Agt!AppFails(s)

AppClosed(s) == AgentStep /\ Agt!AppClosed(s)

AppSends == AgentOnly /\ Chunk /\ \E s \in Socks : Agt!AppData(s)

LocalConnects(w, i) == ClientStep /\ Cli!LocalConnects(w, i)

LocalFails ==
  /\ ClientStep /\ May("local_fails")
  /\ \E w \in ClientWs, i \in Ids : Cli!LocalFails(w, i)

LocalCloses ==
  ClientStep /\ \E w \in ClientWs, i \in Ids : Cli!LocalCloses(w, i)

LocalSends ==
  ClientOnly /\ Chunk /\ \E w \in ClientWs, i \in Ids : Cli!LocalData(w, i)

ClientIdle ==
  /\ ClientOnly /\ May("client_idle")
  /\ UNCHANGED <<directs, chunks>>
  /\ \E w \in ClientWs, i \in Ids :
       Cli!IdleTimeout(w, i) /\ idled' = idled \cup {i}

DirectConnects ==
  /\ directs < MaxDirect /\ MayConnect
  /\ directs' = directs + 1
  /\ ServerOnly /\ UNCHANGED <<chunks, idled>>
  /\ \E p \in Ports : DirectConnect(p)

DirectSends == ServerOnly /\ Chunk /\ \E i \in Ids : DirectData(i)

DirectLeaves ==
  /\ ServerStep
  /\ \E i \in Ids : DirectClose(i) \/ DirectError(i)

ServerIdle ==
  /\ ServerStep /\ May("server_idle")
  /\ \E i \in Ids : IdleTimeout(i)

ServerStops == ServerStep /\ May("shutdown") /\ Shutdown

-----------------------------------------------------------------------------
(* Delivery: the frame at the head of a channel, handled in one turn.       *)

Pop(q, w) == q' = [q EXCEPT ![w] = Tail(@)]

ServerHearsAgent(a) ==
  /\ fromAgent[a] # <<>>
  /\ Pop(fromAgent, a)
  /\ OnAgentFrame(a, Head(fromAgent[a]))
  /\ UNCHANGED <<agentVars, clientVars, fromClient, bounds>>

ServerHearsClient(w) ==
  /\ fromClient[w] # <<>>
  /\ Pop(fromClient, w)
  /\ OnClientFrame(w, Head(fromClient[w]))
  /\ UNCHANGED <<agentVars, fromAgent, clientVars, bounds>>

AgentHears(a) ==
  /\ agentLinks[a] \in {"open", "closing"}
  /\ toAgent[a] # <<>>
  /\ Pop(toAgent, a)
  /\ Agt!OnFrame(Head(toAgent[a]))
  /\ UNCHANGED <<serverVars, toClient, clientVars, fromClient, bounds>>

ClientHears(w) ==
  /\ clientLinks[w] \in {"open", "closing"}
  /\ toClient[w] # <<>>
  /\ Pop(toClient, w)
  /\ Cli!OnFrame(w, Head(toClient[w]))
  /\ UNCHANGED <<serverVars, toAgent, agentVars, fromAgent, bounds>>

-----------------------------------------------------------------------------
(* Connections.  The handshake opens both ends; after that an end leaves    *)
(* OPEN when the connection breaks or the other end has left it.            *)

AgentConnects(a) ==
  /\ Agt!LinkOpens(a) /\ AgentJoin(a)
  /\ UNCHANGED <<clientVars, fromClient, bounds>>

ClientConnects(w) ==
  /\ Cli!LinkOpens(w) /\ ClientJoin(w)
  /\ UNCHANGED <<agentVars, fromAgent, bounds>>

AgentLinkBreaks(a) ==
  /\ May("agent_link")
  /\ \/ AgentStep /\ Agt!LinkBreaks(a)
     \/ ServerStep /\ AgentClosing(a)

AgentLinkEnds(a) ==
  \/ agents[a] # "open" /\ AgentStep /\ Agt!LinkBreaks(a)
  \/ agentLinks[a] # "open" /\ ServerStep /\ AgentClosing(a)
  \/ AgentStep /\ Agt!LinkCloses(a)
  \/ ServerStep /\ AgentClosed(a)

ClientLinkBreaks(w) ==
  /\ May("client_link")
  /\ \/ ClientStep /\ Cli!LinkBreaks(w)
     \/ ServerStep /\ ClientClosing(w)

ClientLinkEnds(w) ==
  \/ clients[w] # "open" /\ ClientStep /\ Cli!LinkBreaks(w)
  \/ clientLinks[w] # "open" /\ ServerStep /\ ClientClosing(w)
  \/ ClientStep /\ Cli!LinkCloses(w)
  \/ ServerStep /\ ClientClosed(w)

-----------------------------------------------------------------------------
TunnelNext ==
  \/ AppConnects \/ AppLeaves \/ AppSends
  \/ \E s \in Socks : AppClosed(s)
  \/ LocalFails \/ LocalCloses \/ LocalSends \/ ClientIdle
  \/ \E w \in ClientWs, i \in Ids : LocalConnects(w, i)
  \/ DirectConnects \/ DirectSends \/ DirectLeaves
  \/ ServerIdle \/ ServerStops
  \/ \E a \in AgentWs : \/ AgentConnects(a) \/ ServerHearsAgent(a) \/ AgentHears(a)
                        \/ AgentLinkBreaks(a) \/ AgentLinkEnds(a)
  \/ \E w \in ClientWs : \/ ClientConnects(w) \/ ServerHearsClient(w) \/ ClientHears(w)
                         \/ ClientLinkBreaks(w) \/ ClientLinkEnds(w)

(* Frames are delivered, an end that was left is noticed and its 'close'    *)
(* event comes, and an attempt to reach the local service ends: when        *)
(* LocalFails does not end it, LocalConnects does.                          *)
Fairness ==
  /\ \A a \in AgentWs : /\ WF_tunnelVars(ServerHearsAgent(a))
                        /\ WF_tunnelVars(AgentHears(a))
                        /\ WF_tunnelVars(AgentLinkEnds(a))
  /\ \A w \in ClientWs : /\ WF_tunnelVars(ServerHearsClient(w))
                         /\ WF_tunnelVars(ClientHears(w))
                         /\ WF_tunnelVars(ClientLinkEnds(w))
  /\ \A w \in ClientWs, i \in Ids : WF_tunnelVars(LocalConnects(w, i))

TunnelSpec == TunnelInit /\ [][TunnelNext]_tunnelVars
FairSpec == TunnelSpec /\ Fairness

-----------------------------------------------------------------------------
(* Properties.                                                              *)

TunnelTypeOK == TypeOK /\ Agt!TypeOK /\ Cli!TypeOK
          /\ directs \in 0 .. MaxDirect /\ chunks \in 0 .. MaxData
          /\ idled \subseteq Ids

Found(q, types, i) == {k \in DOMAIN q : q[k].type \in types /\ q[k].id = i}
Ending(q, i) == Found(q, {"TCP_CLOSE", "TCP_ABORT", "RES_ABORT"}, i) # {}

Session(a) == agentLinks[a] \in {"open", "closing"}

(* A connection of the application is in one place only, waiting or bridged *)
(* to one stream, and a bridge is right: the stream is of its own session   *)
(* and port, was confirmed by the client, and leads to a local socket that  *)
(* is connected or whose end is already on its way.                         *)
Bridge(i) ==
  LET st == streams[i] IN
  /\ Session(st.agent)
  /\ st.port = SockPort[streamed[i]]
  /\ ~st.awaiting
  /\ \/ local[st.ws][i] = "connected"
     \/ Ending(fromClient[st.ws], i)
     \/ clientLinks[st.ws] # "open"

BridgesRight ==
  /\ IsInjective(pending) /\ Agt!Waiting \cap Agt!Bridged = {}
  /\ \A s \in Agt!Bridged : Cardinality(Agt!StreamsOf(s)) = 1
  /\ \A i \in Ids : streamed[i] # Agt!NoSock /\ IsAgent(i) => Bridge(i)

(* A connection that is bridged is never left behind: its stream lives, or  *)
(* the frame that ends it is under way, or the session has ended.  The      *)
(* exception is a stream that ended by the client's idle timer: RES_ABORT   *)
(* frees it at the server and nobody tells the agent.                       *)
AgentNotStranded ==
  \A a \in AgentWs, i \in Ids :
    Session(a) /\ streamed[i] # Agt!NoSock
      => \/ IsAgent(i) /\ streams[i].agent = a
         \/ Ending(toAgent[a], i)
         \/ i \in idled
         \/ agents[a] # "open"

(* Nor do the server's table and a client's map part: a stream in the map   *)
(* is in the table, or the frame that ends it is under way; a stream in the *)
(* table is in the map, or the frame that opens it or the one that ends it  *)
(* is under way; or else the session has ended.                             *)
EndsAgree ==
  /\ \A w \in ClientWs : \A i \in opened[w] :
       \/ i \in LiveIds /\ streams[i].ws = w
       \/ Ending(toClient[w], i)
       \/ clients[w] # "open"
  /\ \A i \in LiveIds :
       LET w == streams[i].ws IN
       \/ i \in opened[w]
       \/ Found(toClient[w], {"TCP_OPEN"}, i) # {}
       \/ Ending(fromClient[w], i)
       \/ clientLinks[w] # "open"

(* An agent's stream, once confirmed, has its counterpart at the agent.     *)
AgentStreamsBridged ==
  \A i \in Ids : IsAgent(i) /\ ~streams[i].awaiting =>
    LET a == streams[i].agent IN
    \/ streamed[i] # Agt!NoSock
    \/ Found(toAgent[a], {"TCP_CONNECT_ACK"}, i) # {}
    \/ Ending(fromAgent[a], i)
    \/ agentLinks[a] # "open" \/ agents[a] # "open"

(* A socket to the local service lives no longer than its stream: when the  *)
(* client forgets the stream the socket is destroyed, except by the idle    *)
(* timer, whose cleanup knows only HTTP streams.                            *)
LocalSocketsOwned ==
  \A w \in ClientWs, i \in Ids :
    local[w][i] # "none" => i \in opened[w] \cup idled

(* Only after TCP_OPEN_ACK does the server relay a stream's data: a chunk   *)
(* under way to the client finds its local socket connected, unless the     *)
(* client has ended the stream meanwhile.                                   *)
AfterAck(i) ==
  LET w == streams[i].ws IN
  \A k \in Found(toClient[w], {"TCP_DATA"}, i) :
    /\ i \in opened[w] => local[w][i] = "connected"
    /\ \A j \in Found(toClient[w], {"TCP_OPEN"}, i) : k < j

(* On an agent's stream this is so, because the agent hears of the          *)
(* connection only by TCP_CONNECT_ACK.                                      *)
NoDataBeforeOpen == \A i \in Ids : IsAgent(i) => AfterAck(i)

(* docs/tcp-tunnel.md says so of every stream; but a direct connection is   *)
(* wired when TCP_OPEN is sent, and its data may overtake the TCP_OPEN_ACK. *)
DataAfterAck == \A i \in LiveIds : AfterAck(i)

(* Every connection that waits has an answer coming: on an open session no  *)
(* more of a port's connections wait than there are requests, unconfirmed   *)
(* streams and answers that name the port under way.                        *)
Answers(q, p) ==
  {k \in DOMAIN q : /\ q[k].port = p
                    /\ \/ q[k].type = "TCP_CONNECT_ACK"
                       \/ q[k].type = "TCP_ABORT" /\ q[k].id = 0}
Requests(q, p)  == {k \in DOMAIN q : q[k].type = "TCP_CONNECT" /\ q[k].port = p}
Unconfirmed(a, p) == {i \in On("agent", p) : streams[i].agent = a /\ streams[i].awaiting}

AnswersDue ==
  \A a \in AgentWs, p \in Ports :
    agentLinks[a] = "open" /\ agents[a] = "open" =>
      Cardinality({k \in DOMAIN pending : SockPort[pending[k]] = p})
        <= Cardinality(Requests(fromAgent[a], p)) + Cardinality(Unconfirmed(a, p))
             + Cardinality(Answers(toAgent[a], p))

(* A connection accepted by the agent does not wait for ever: it is bridged *)
(* or closed.                                                               *)
ConnectResolved == \A s \in Socks : (s \in Agt!Waiting) ~> (s \notin Agt!Waiting)
=============================================================================

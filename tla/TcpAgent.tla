------------------------------ MODULE TcpAgent ------------------------------
(***************************************************************************)
(* The TCP agent process (serve/tcp-agent.js): local connections of an     *)
(* application wait in pendingConnects for a TCP_CONNECT_ACK of their port *)
(* and are then bridged to a stream.  The agent has one WebSocket at a     *)
(* time; a session is a member of AgentWs and is used once.                *)
(*                                                                         *)
(* A local connection is open until the application leaves; its net.Socket *)
(* is then destroyed at once ("dying") while the 'close' event comes later *)
(* and other callbacks may run in between.  A connection that fails emits  *)
(* 'error' in the same turn.  PAUSE, RESUME and buffering are left out.    *)
(***************************************************************************)
EXTENDS Frames, FiniteSets, SequencesExt

CONSTANTS
  AgentWs,    \* the WebSocket sessions the agent may have, one after another
  Socks,      \* local connections, each made at most once
  SockPort    \* the AGENT_PORTS listener each one connects to

NoSock == "none"

VARIABLES
  sock,        \* state of each local connection
  pending,     \* pendingConnects
  streamed,    \* streamedSockets: the connection of a stream id
  agentLinks,  \* readyState of each session at the agent's end
  fromAgent    \* frames sent on each session, not yet received

agentVars == <<sock, pending, streamed, agentLinks, fromAgent>>

LinkState == {"unused", "open", "closing", "closed"}
SockState == {"new", "open", "dying", "closed"}

Init ==
  /\ sock = [s \in Socks |-> "new"]
  /\ pending = <<>>
  /\ streamed = [i \in Ids |-> NoSock]
  /\ agentLinks = [a \in AgentWs |-> "unused"]
  /\ fromAgent = [a \in AgentWs |-> <<>>]

Waiting   == ToSet(pending)
Bridged   == {streamed[i] : i \in Ids} \ {NoSock}
StreamsOf(s) == {i \in Ids : streamed[i] = s}
wsReady   == \E a \in AgentWs : agentLinks[a] = "open"

(* Frames go to the session that is OPEN; with none they are not sent.      *)
Sends(fs) ==
  fromAgent' = [a \in AgentWs |-> IF agentLinks[a] = "open" THEN fromAgent[a] \o fs
                                                            ELSE fromAgent[a]]

(* removePending.                                                           *)
Without(s) ==
  IF s \in Waiting THEN RemoveAt(pending, CHOOSE k \in DOMAIN pending : pending[k] = s)
  ELSE pending

Detached(s) == [i \in Ids |-> IF streamed[i] = s THEN NoSock ELSE streamed[i]]

(* The frames that report the end of every stream s is bridged to: there is *)
(* one at most.                                                             *)
Report(type, s) ==
  IF StreamsOf(s) = {} THEN <<>> ELSE <<Msg(type, CHOOSE i \in Ids : streamed[i] = s)>>

-----------------------------------------------------------------------------
(* The application's connections.                                           *)

AppConnect(s) ==   \* createLocalListener's connection handler
  /\ sock[s] = "new"
  /\ IF wsReady
     THEN /\ sock' = [sock EXCEPT ![s] = "open"]
          /\ pending' = Append(pending, s)
          /\ Sends(<<Frame("TCP_CONNECT", 0, SockPort[s])>>)
     ELSE /\ sock' = [sock EXCEPT ![s] = "closed"]
          /\ UNCHANGED <<pending, fromAgent>>
  /\ UNCHANGED <<streamed, agentLinks>>

AppEnds(s) ==
  /\ sock[s] = "open"
  /\ sock' = [sock EXCEPT ![s] = "dying"]
  /\ UNCHANGED <<pending, streamed, agentLinks, fromAgent>>

AppGoneQuiet(s, type) ==   \* mutant: the server is not told
  /\ sock' = [sock EXCEPT ![s] = "closed"]
  /\ pending' = Without(s)
  /\ streamed' = Detached(s)
  /\ UNCHANGED <<agentLinks, fromAgent>>

AppGone(s, type) ==
  /\ sock' = [sock EXCEPT ![s] = "closed"]
  /\ pending' = Without(s)
  /\ streamed' = Detached(s)
  /\ Sends(Report(type, s))
  /\ UNCHANGED agentLinks

AppClosed(s) == sock[s] = "dying" /\ AppGone(s, "TCP_CLOSE")
AppFails(s)  == sock[s] = "open" /\ AppGone(s, "TCP_ABORT")

AppData(s) ==
  /\ sock[s] = "open"
  /\ s \in Bridged
  /\ wsReady
  /\ Sends(Report("TCP_DATA", s))
  /\ UNCHANGED <<sock, pending, streamed, agentLinks>>

-----------------------------------------------------------------------------
(* Frames from the server: handleServerFrame.                               *)

(* The oldest connection that waits for an answer on port p.                *)
IsHead(k, p) == k \in DOMAIN pending /\ k = 1   \* mutant: the port is not looked at

IsFirst(k, p) ==
  /\ k \in DOMAIN pending
  /\ SockPort[pending[k]] = p
  /\ \A j \in 1 .. k - 1 : SockPort[pending[j]] # p

ConnectAck(i, p) ==   \* a connection that is already destroyed is dropped
  IF \E k \in DOMAIN pending : IsFirst(k, p)
  THEN \E k \in DOMAIN pending :
         /\ IsFirst(k, p)
         /\ pending' = RemoveAt(pending, k)
         /\ streamed' = IF sock[pending[k]] = "open"
                        THEN [streamed EXCEPT ![i] = pending[k]] ELSE streamed
         /\ UNCHANGED <<sock, agentLinks, fromAgent>>
  ELSE UNCHANGED agentVars

ConnectReject(p) ==
  IF \E k \in DOMAIN pending : IsFirst(k, p)
  THEN \E k \in DOMAIN pending :
         /\ IsFirst(k, p)
         /\ pending' = RemoveAt(pending, k)
         /\ sock' = [sock EXCEPT ![pending[k]] = "closed"]
         /\ UNCHANGED <<streamed, agentLinks, fromAgent>>
  ELSE UNCHANGED agentVars

StreamEnds(i) ==
  IF i \in Ids /\ streamed[i] # NoSock
  THEN /\ streamed' = [streamed EXCEPT ![i] = NoSock]
       /\ sock' = [sock EXCEPT ![streamed[i]] = "closed"]
       /\ UNCHANGED <<pending, agentLinks, fromAgent>>
  ELSE UNCHANGED agentVars

OnFrame(f) ==
  \/ f.type = "TCP_CONNECT_ACK"          /\ ConnectAck(f.id, f.port)
  \/ f.type = "TCP_ABORT" /\ f.id = 0    /\ ConnectReject(f.port)
  \/ f.type = "TCP_ABORT" /\ f.id # 0    /\ StreamEnds(f.id)
  \/ f.type = "TCP_CLOSE"                /\ StreamEnds(f.id)
  \/ f.type = "TCP_DATA"                 /\ UNCHANGED agentVars

-----------------------------------------------------------------------------
(* The session.  After 'close' the agent reconnects with another one.       *)

LinkOpens(a) ==
  /\ agentLinks[a] = "unused"
  /\ \A b \in AgentWs : agentLinks[b] \in {"unused", "closed"}
  /\ agentLinks' = [agentLinks EXCEPT ![a] = "open"]
  /\ UNCHANGED <<sock, pending, streamed, fromAgent>>

LinkBreaks(a) ==
  /\ agentLinks[a] = "open"
  /\ agentLinks' = [agentLinks EXCEPT ![a] = "closing"]
  /\ UNCHANGED <<sock, pending, streamed, fromAgent>>

LinkClosesBridged(a) ==   \* mutant: cleanupAll forgets the pending connects
  /\ agentLinks[a] = "closing"
  /\ agentLinks' = [agentLinks EXCEPT ![a] = "closed"]
  /\ sock' = [s \in Socks |-> IF s \in Bridged THEN "closed" ELSE sock[s]]
  /\ streamed' = [i \in Ids |-> NoSock]
  /\ UNCHANGED <<pending, fromAgent>>

LinkCloses(a) ==   \* cleanupAll
  /\ agentLinks[a] = "closing"
  /\ agentLinks' = [agentLinks EXCEPT ![a] = "closed"]
  /\ sock' = [s \in Socks |-> IF s \in Waiting \cup Bridged THEN "closed" ELSE sock[s]]
  /\ pending' = <<>>
  /\ streamed' = [i \in Ids |-> NoSock]
  /\ UNCHANGED fromAgent

-----------------------------------------------------------------------------
TypeOK ==
  /\ sock \in [Socks -> SockState]
  /\ pending \in Seq(Socks)
  /\ streamed \in [Ids -> Socks \cup {NoSock}]
  /\ agentLinks \in [AgentWs -> LinkState]
  /\ fromAgent \in [AgentWs -> Seq(FrameSet)]
=============================================================================

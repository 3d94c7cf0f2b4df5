------------------------------ MODULE TcpFlow ------------------------------
(***************************************************************************)
(* Flow control of agents' streams on their way in: application, agent,    *)
(* virtual socket, the server's WebSocket to the tunnel client, the        *)
(* client's socket to the local service (VirtualSocket, TcpFlowControl,    *)
(* TcpRouter._wireStream, TcpClientHandler).  All streams share the        *)
(* WebSockets; each is established.  Data is cut into chunks of one size,  *)
(* numbered in each stream, and buffers are measured in chunks; control    *)
(* frames weigh nothing.                                                   *)
(*                                                                         *)
(* The server's WebSocket writes as Node's streams do: a send on an idle   *)
(* socket starts a write, what is sent meanwhile waits and is written in   *)
(* one batch, and when a write ends the next one starts before the         *)
(* callbacks of the first run, one after the other in one turn.            *)
(* bufferedAmount counts what is being written and what waits.             *)
(*                                                                         *)
(* Left out: data the other way, the agent's own throttle on its           *)
(* WebSocket (the same code as the server's), idle timers and broken       *)
(* connections.                                                            *)
(***************************************************************************)
EXTENDS Naturals, FiniteSets, SequencesExt

CONSTANTS
  Streams,     \* the agents' streams
  Closing,     \* those whose application may close
  High, Low,   \* WS_HIGH_WATER, WS_LOW_WATER
  MaxDest,     \* MAX_DEST_BUFFER_BYTES
  Mark,        \* highWaterMark of the client's local sockets
  MaxChunks    \* bound: chunks sent on each stream

ASSUME FlowAssumption ==
  /\ IsFiniteSet(Streams) /\ Closing \subseteq Streams
  /\ High \in Nat /\ Low \in Nat /\ Low < High
  /\ MaxDest \in Nat /\ Mark \in Nat \ {0}
  /\ MaxChunks \in [Streams -> Nat]

VARIABLES
  sent,              \* chunks the application has sent
  appOpen,           \* the agent has the stream
  agentPaused,       \* the agent's peerPausedRead
  fromAgent,         \* frames from the agent to the server
  live,              \* the server has the stream
  paused, held,      \* VirtualSocket: paused, buffered
  peerPausedRead, localPausedForWs,   \* the two reasons to pause
  inflight, waiting, \* frames in the server's WebSocket
  callbacks,         \* frames written whose send callbacks are due in this turn
  toAgent,           \* frames from the server to the agent
  link,              \* frames from the server to the client
  clientOpen,        \* the client has the stream
  sink,              \* chunks in the client's local socket
  backpressured,     \* the client's localWriteBackpressured
  taken,             \* chunks the local service has received
  fromClient         \* frames from the client to the server

agentVars  == <<sent, appOpen, agentPaused>>
reasons    == <<peerPausedRead, localPausedForWs>>
socketVars == <<live, paused, held, reasons>>
wsVars     == <<inflight, waiting, callbacks>>
clientVars == <<clientOpen, sink, backpressured, taken>>
vars == <<agentVars, fromAgent, socketVars, wsVars, toAgent, link, clientVars, fromClient>>

Chunk == Nat \ {0}
FlowFrame == [type : {"TCP_DATA"}, s : Streams, n : Chunk]
               \cup [type : {"TCP_CLOSE", "TCP_ABORT", "PAUSE", "RESUME"}, s : Streams]

Data(s, n) == [type |-> "TCP_DATA", s |-> s, n |-> n]
Ctl(t, s)  == [type |-> t, s |-> s]

Init ==
  /\ sent = [s \in Streams |-> 0] /\ taken = [s \in Streams |-> 0]
  /\ appOpen = [s \in Streams |-> TRUE]
  /\ live = [s \in Streams |-> TRUE]
  /\ clientOpen = [s \in Streams |-> TRUE]
  /\ agentPaused = [s \in Streams |-> FALSE]
  /\ paused = [s \in Streams |-> FALSE]
  /\ peerPausedRead = [s \in Streams |-> FALSE]
  /\ localPausedForWs = [s \in Streams |-> FALSE]
  /\ backpressured = [s \in Streams |-> FALSE]
  /\ held = [s \in Streams |-> <<>>] /\ sink = [s \in Streams |-> <<>>]
  /\ fromAgent = <<>> /\ toAgent = <<>> /\ link = <<>> /\ fromClient = <<>>
  /\ inflight = <<>> /\ waiting = <<>> /\ callbacks = <<>>

-----------------------------------------------------------------------------
(* The server's WebSocket to the client.                                    *)

Of(q, s)  == {k \in DOMAIN q : q[k].type = "TCP_DATA" /\ q[k].s = s}
DataIn(q) == {k \in DOMAIN q : q[k].type = "TCP_DATA"}

bufferedAmount == Cardinality(DataIn(inflight)) + Cardinality(DataIn(waiting))

pendingSends(s) ==   \* without the callback that is running
  Cardinality(Of(inflight \o waiting \o Tail(callbacks), s))

Sends(fs) ==
  IF inflight = <<>> /\ fs # <<>>
  THEN inflight' = <<Head(fs)>> /\ waiting' = Tail(fs)
  ELSE inflight' = inflight /\ waiting' = waiting \o fs

WriteDone ==
  /\ inflight # <<>> /\ callbacks = <<>>
  /\ link' = link \o inflight
  /\ inflight' = waiting /\ waiting' = <<>>
  /\ callbacks' = inflight
  /\ UNCHANGED <<agentVars, fromAgent, socketVars, toAgent, clientVars, fromClient>>

-----------------------------------------------------------------------------
(* The virtual socket and its 'data' handler.                               *)

Chunks(s, ns) == [k \in DOMAIN ns |-> Data(s, ns[k])]

NeverOverHigh(ns) == FALSE   \* mutant: no throttle

OverHigh(ns) == ns # <<>> /\ bufferedAmount + Len(ns) > High

(* pause: one of the reasons has just become true.                          *)
Pause(s) ==
  /\ paused' = [paused EXCEPT ![s] = TRUE]
  /\ toAgent' = IF paused[s] THEN toAgent ELSE Append(toAgent, Ctl("PAUSE", s))

(* Chunk n reaches the 'data' handler.                                      *)
DataEvent(s, n) ==
  /\ Sends(<<Data(s, n)>>)
  /\ IF OverHigh(<<n>>) /\ ~localPausedForWs[s]
     THEN localPausedForWs' = [localPausedForWs EXCEPT ![s] = TRUE] /\ Pause(s)
     ELSE UNCHANGED <<localPausedForWs, paused, toAgent>>

(* resume: both reasons are gone.  The chunks held are handled first, and   *)
(* one that fills the WebSocket pauses the socket again in the middle; the  *)
(* agent is sent RESUME all the same.                                       *)
ResumeUntold(s) ==   \* mutant: the agent is not told
  LET again == OverHigh(held[s]) IN
  /\ Sends(Chunks(s, held[s]))
  /\ held' = [held EXCEPT ![s] = <<>>]
  /\ paused' = [paused EXCEPT ![s] = again]
  /\ localPausedForWs' = [localPausedForWs EXCEPT ![s] = again]
  /\ UNCHANGED toAgent

ResumeUnpaused(s) ==   \* mutant: paused is reset after the chunks are handled
  /\ Sends(Chunks(s, held[s]))
  /\ held' = [held EXCEPT ![s] = <<>>]
  /\ paused' = [paused EXCEPT ![s] = FALSE]
  /\ localPausedForWs' = [localPausedForWs EXCEPT ![s] = OverHigh(held[s])]
  /\ toAgent' = Append(toAgent, Ctl("RESUME", s))

ResumeEmpty(s) ==   \* mutant: the held chunks are dropped
  /\ held' = [held EXCEPT ![s] = <<>>]
  /\ paused' = [paused EXCEPT ![s] = FALSE]
  /\ localPausedForWs' = [localPausedForWs EXCEPT ![s] = FALSE]
  /\ toAgent' = Append(toAgent, Ctl("RESUME", s))
  /\ UNCHANGED <<inflight, waiting>>

Resume(s) ==
  LET again == OverHigh(held[s]) IN
  /\ Sends(Chunks(s, held[s]))
  /\ held' = [held EXCEPT ![s] = <<>>]
  /\ paused' = [paused EXCEPT ![s] = again]
  /\ localPausedForWs' = [localPausedForWs EXCEPT ![s] = again]
  /\ toAgent' = toAgent \o (IF again THEN <<Ctl("PAUSE", s)>> ELSE <<>>) \o <<Ctl("RESUME", s)>>

(* The stream is cleaned up: what was held is gone, the client is told.     *)
Ends(s, toA) ==
  /\ live' = [live EXCEPT ![s] = FALSE]
  /\ held' = [held EXCEPT ![s] = <<>>]
  /\ paused' = [paused EXCEPT ![s] = FALSE]
  /\ peerPausedRead' = [peerPausedRead EXCEPT ![s] = FALSE]
  /\ localPausedForWs' = [localPausedForWs EXCEPT ![s] = FALSE]
  /\ Sends(<<Ctl("TCP_CLOSE", s)>>)
  /\ toAgent' = toAgent \o toA

(* A send callback; those of control frames do nothing.                     *)
Callback ==
  LET s == Head(callbacks).s IN
  /\ callbacks # <<>>
  /\ callbacks' = Tail(callbacks)
  /\ IF /\ Head(callbacks).type = "TCP_DATA" /\ localPausedForWs[s]
        /\ pendingSends(s) = 0 /\ bufferedAmount <= Low
     THEN IF peerPausedRead[s]
          THEN /\ localPausedForWs' = [localPausedForWs EXCEPT ![s] = FALSE]
               /\ UNCHANGED <<paused, held, inflight, waiting, toAgent>>
          ELSE Resume(s)
     ELSE UNCHANGED <<localPausedForWs, paused, held, inflight, waiting, toAgent>>
  /\ UNCHANGED <<agentVars, fromAgent, live, peerPausedRead, link, clientVars, fromClient>>

-----------------------------------------------------------------------------
(* The agent.                                                               *)

Turn == callbacks = <<>>     \* the server's turn is over

AgentReads(s) ==
  /\ appOpen[s] /\ ~agentPaused[s] /\ sent[s] < MaxChunks[s]
  /\ sent' = [sent EXCEPT ![s] = @ + 1]
  /\ fromAgent' = Append(fromAgent, Data(s, sent'[s]))
  /\ UNCHANGED <<appOpen, agentPaused, socketVars, wsVars, toAgent, link, clientVars, fromClient>>

AgentCloses(s) ==   \* a paused connection does not see its end
  /\ s \in Closing /\ appOpen[s] /\ ~agentPaused[s]
  /\ appOpen' = [appOpen EXCEPT ![s] = FALSE]
  /\ fromAgent' = Append(fromAgent, Ctl("TCP_CLOSE", s))
  /\ UNCHANGED <<sent, agentPaused, socketVars, wsVars, toAgent, link, clientVars, fromClient>>

AgentHears ==
  LET f == Head(toAgent) IN
  /\ toAgent # <<>>
  /\ toAgent' = Tail(toAgent)
  /\ agentPaused' = [agentPaused EXCEPT ![f.s] = appOpen[f.s] /\ f.type = "PAUSE"]
  /\ appOpen' = [appOpen EXCEPT ![f.s] = @ /\ f.type # "TCP_ABORT"]
  /\ UNCHANGED <<sent, fromAgent, socketVars, wsVars, link, clientVars, fromClient>>

-----------------------------------------------------------------------------
(* Frames to the server.                                                    *)

PushInboundLate(s, n) ==   \* mutant: the limit is noticed one chunk late
  \/ /\ ~paused[s] /\ DataEvent(s, n)
     /\ UNCHANGED <<live, held, peerPausedRead>>
  \/ /\ paused[s] /\ Len(held[s]) <= MaxDest
     /\ held' = [held EXCEPT ![s] = Append(@, n)]
     /\ UNCHANGED <<live, paused, reasons, inflight, waiting, toAgent>>
  \/ /\ paused[s] /\ Len(held[s]) > MaxDest
     /\ Ends(s, <<Ctl("TCP_ABORT", s)>>)

PushInbound(s, n) ==
  \/ /\ ~paused[s] /\ DataEvent(s, n)
     /\ UNCHANGED <<live, held, peerPausedRead>>
  \/ /\ paused[s] /\ Len(held[s]) < MaxDest
     /\ held' = [held EXCEPT ![s] = Append(@, n)]
     /\ UNCHANGED <<live, paused, reasons, inflight, waiting, toAgent>>
  \/ /\ paused[s] /\ Len(held[s]) >= MaxDest
     /\ Ends(s, <<Ctl("TCP_ABORT", s)>>)

ServerHearsAgent ==
  LET f == Head(fromAgent) IN
  /\ Turn /\ fromAgent # <<>>
  /\ fromAgent' = Tail(fromAgent)
  /\ IF ~live[f.s]
     THEN /\ toAgent' = Append(toAgent, Ctl("TCP_ABORT", f.s))
          /\ UNCHANGED <<socketVars, inflight, waiting>>
     ELSE \/ f.type = "TCP_DATA"  /\ PushInbound(f.s, f.n)
          \/ f.type = "TCP_CLOSE" /\ Ends(f.s, <<>>)
  /\ UNCHANGED <<agentVars, callbacks, link, clientVars, fromClient>>

PeerPauses(s) ==
  /\ peerPausedRead' = [peerPausedRead EXCEPT ![s] = TRUE]
  /\ Pause(s)
  /\ UNCHANGED <<live, held, localPausedForWs, inflight, waiting>>

PeerResumes(s) ==
  /\ peerPausedRead' = [peerPausedRead EXCEPT ![s] = FALSE]
  /\ IF paused[s] /\ ~localPausedForWs[s]
     THEN Resume(s) ELSE UNCHANGED <<paused, held, localPausedForWs, inflight, waiting, toAgent>>
  /\ UNCHANGED live

ServerHearsClient ==
  LET f == Head(fromClient) IN
  /\ Turn /\ fromClient # <<>>
  /\ fromClient' = Tail(fromClient)
  /\ IF ~live[f.s] THEN UNCHANGED <<socketVars, inflight, waiting, toAgent>>
     ELSE \/ f.type = "PAUSE"  /\ PeerPauses(f.s)
          \/ f.type = "RESUME" /\ PeerResumes(f.s)
  /\ UNCHANGED <<agentVars, fromAgent, callbacks, link, clientVars>>

-----------------------------------------------------------------------------
(* The client and the local service.                                        *)

ClientData(s, n) ==
  /\ sink' = [sink EXCEPT ![s] = Append(@, n)]
  /\ IF Len(sink'[s]) >= Mark /\ ~backpressured[s]
     THEN /\ backpressured' = [backpressured EXCEPT ![s] = TRUE]
          /\ fromClient' = Append(fromClient, Ctl("PAUSE", s))
     ELSE UNCHANGED <<backpressured, fromClient>>
  /\ UNCHANGED <<clientOpen, taken>>

ClientClose(s) ==   \* the socket is destroyed, with what it had not written
  /\ clientOpen' = [clientOpen EXCEPT ![s] = FALSE]
  /\ sink' = [sink EXCEPT ![s] = <<>>]
  /\ backpressured' = [backpressured EXCEPT ![s] = FALSE]
  /\ UNCHANGED <<taken, fromClient>>

ClientHears ==
  LET f == Head(link) IN
  /\ link # <<>>
  /\ link' = Tail(link)
  /\ \/ f.type = "TCP_DATA"  /\ ClientData(f.s, f.n)
     \/ f.type = "TCP_CLOSE" /\ ClientClose(f.s)
  /\ UNCHANGED <<agentVars, fromAgent, socketVars, wsVars, toAgent>>

NeverDrained(s) == FALSE     \* mutant: the 'drain' event sends no RESUME
Drained(s)      == Len(sink[s]) = 1 /\ backpressured[s]

LocalTakes(s) ==   \* the socket emits 'drain' when nothing is left to write
  /\ sink[s] # <<>>
  /\ sink' = [sink EXCEPT ![s] = Tail(@)]
  /\ taken' = [taken EXCEPT ![s] = Head(sink[s])]
  /\ IF Drained(s)
     THEN /\ backpressured' = [backpressured EXCEPT ![s] = FALSE]
          /\ fromClient' = Append(fromClient, Ctl("RESUME", s))
     ELSE UNCHANGED <<backpressured, fromClient>>
  /\ UNCHANGED <<agentVars, fromAgent, socketVars, wsVars, toAgent, link, clientOpen>>

-----------------------------------------------------------------------------
Next ==
  \/ \E s \in Streams : AgentReads(s) \/ AgentCloses(s) \/ LocalTakes(s)
  \/ AgentHears \/ ServerHearsAgent \/ ServerHearsClient \/ ClientHears
  \/ WriteDone \/ Callback

(* Frames are delivered, writes end, and the local service reads.           *)
Fairness ==
  /\ WF_vars(AgentHears) /\ WF_vars(ServerHearsAgent) /\ WF_vars(ServerHearsClient)
  /\ WF_vars(ClientHears) /\ WF_vars(WriteDone) /\ WF_vars(Callback)
  /\ \A s \in Streams : WF_vars(LocalTakes(s))

Spec == Init /\ [][Next]_vars
FairSpec == Spec /\ Fairness

-----------------------------------------------------------------------------
(* Properties.                                                              *)

(* The type invariant of the flow's state.                                  *)
TypeOK ==
  /\ {sent, taken} \subseteq [Streams -> Nat]
  /\ {appOpen, live, clientOpen, agentPaused, paused, peerPausedRead,
      localPausedForWs, backpressured} \subseteq [Streams -> BOOLEAN]
  /\ {held, sink} \subseteq [Streams -> Seq(Chunk)]
  /\ \A s \in Streams : Len(held[s]) <= MaxDest
  /\ {fromAgent, toAgent, link, fromClient, inflight, waiting, callbacks} \subseteq Seq(FlowFrame)

(* While the server has a stream, the chunks on their way, through every    *)
(* buffer from the agent to the local service, are exactly those sent and   *)
(* not yet received, each once and in order; once it has let go, what has   *)
(* passed it still arrives in order and without a gap.                      *)
Run(q, s, lo, hi) ==   \* chunks lo + 1 to hi of s
  /\ {q[k].n : k \in Of(q, s)} = lo + 1 .. hi
  /\ \A j, k \in Of(q, s) : j < k => q[j].n < q[k].n

PastServer(s) == Chunks(s, sink[s]) \o link \o inflight \o waiting
OnTheWay(s)   == IF live[s] THEN PastServer(s) \o Chunks(s, held[s]) \o fromAgent
                            ELSE PastServer(s)

InOrder ==
  \A s \in Streams : clientOpen[s] =>
    \E last \in 0 .. sent[s] : /\ live[s] => last = sent[s]
                              /\ Run(OnTheWay(s), s, taken[s], last)

(* The WebSocket's buffer is bounded however many chunks are sent: above    *)
(* High a stream can add no more than what it sends in one turn, a chunk or *)
(* all that was held.                                                       *)
WsBounded == bufferedAmount <= High + Cardinality(Streams) * (IF MaxDest > 1 THEN MaxDest ELSE 1)

(* A virtual socket is paused exactly while one of the two reasons holds,   *)
(* also when flushing what it held makes one of them hold again.            *)
PausedForReason ==
  \A s \in Streams : live[s] => (paused[s] <=> peerPausedRead[s] \/ localPausedForWs[s])

(* An agent is never left paused by a socket that reads: every PAUSE sent   *)
(* to it, heard or under way, is followed by RESUME.                        *)
Told(k, s) == \E j \in DOMAIN toAgent : j > k /\ toAgent[j] = Ctl("RESUME", s)

NotLeftPaused ==
  \A s \in Streams : live[s] /\ ~paused[s] /\ appOpen[s] =>
    /\ agentPaused[s] => Told(0, s)
    /\ \A k \in DOMAIN toAgent : toAgent[k] = Ctl("PAUSE", s) => Told(k, s)

(* A stream the client has paused will be resumed by it: the client still   *)
(* has chunks to write, whose 'drain' sends RESUME, or RESUME is under way. *)
PauseLifted ==
  \A s \in Streams : live[s] /\ peerPausedRead[s] /\ clientOpen[s] =>
    \/ backpressured[s] /\ sink[s] # <<>>
    \/ \E k \in DOMAIN fromClient : fromClient[k] = Ctl("RESUME", s)

(* A stream paused because the WebSocket's buffer is full resumes once it   *)
(* has drained.                                                             *)
ResumesAfterDrain == \A s \in Streams : localPausedForWs[s] ~> ~localPausedForWs[s]

(* An application that sends, and then closes its connection in the normal  *)
(* way, has all it sent received before the local connection is closed      *)
(* (where no held buffer can overflow, so that no stream is aborted).       *)
Intact ==
  \A s \in Streams : ~clientOpen[s] /\ MaxChunks[s] <= MaxDest => taken[s] = sent[s]
=============================================================================

--------------------------- MODULE TcpFlowProofs ---------------------------
(***************************************************************************)
(* Proofs about TcpFlow for any number of streams, any water marks, limits *)
(* and numbers of chunks: a virtual socket is paused exactly for a reason, *)
(* the client lifts every pause it asks for and the agent hears of it, the *)
(* WebSocket's buffer stays bounded, and chunks keep their order.          *)
(***************************************************************************)
EXTENDS TcpFlow, SequenceTheorems, FiniteSetTheorems, TLAPS

-----------------------------------------------------------------------------
(* Reasons to pause.  The steps of the server that touch them are few, and  *)
(* none needs to know what the buffers hold.                                *)

Flags ==
  /\ live \in [Streams -> BOOLEAN] /\ paused \in [Streams -> BOOLEAN]
  /\ peerPausedRead \in [Streams -> BOOLEAN] /\ localPausedForWs \in [Streams -> BOOLEAN]

Reasoned == Flags /\ PausedForReason

(* What is held is flushed when no reason is left but those it makes. *)
LEMMA ResumeReasoned ==
  ASSUME Reasoned, NEW s, Resume(s), UNCHANGED live,
         \/ UNCHANGED peerPausedRead /\ ~peerPausedRead[s]
         \/ peerPausedRead' = [peerPausedRead EXCEPT ![s] = FALSE]
  PROVE  Reasoned'
<1> DEFINE again == OverHigh(held[s])
<1>1. again \in BOOLEAN
  BY DEF OverHigh
<1>2. /\ paused' = [paused EXCEPT ![s] = again]
      /\ localPausedForWs' = [localPausedForWs EXCEPT ![s] = again]
  BY DEF Resume
<1> HIDE DEF again
<1> QED
  BY <1>1, <1>2 DEF Flags, Reasoned, PausedForReason

(* A chunk that fills the WebSocket pauses its stream. *)
LEMMA DataReasoned ==
  ASSUME Reasoned, NEW s, NEW n, DataEvent(s, n), UNCHANGED <<live, peerPausedRead>>
  PROVE  Reasoned'
<1>1. CASE OverHigh(<<n>>) /\ ~localPausedForWs[s]
  BY <1>1 DEF DataEvent, Pause, Flags, Reasoned, PausedForReason
<1>2. CASE ~(OverHigh(<<n>>) /\ ~localPausedForWs[s])
  BY <1>2 DEF DataEvent, Flags, Reasoned, PausedForReason
<1> QED
  BY <1>1, <1>2

(* A stream that has ended is not paused. *)
LEMMA EndsReasoned ==
  ASSUME Reasoned, NEW s, NEW fs, Ends(s, fs)
  PROVE  Reasoned'
  BY DEF Ends, Flags, Reasoned, PausedForReason

(* Every step. *)
LEMMA NextReasoned ==
  ASSUME Reasoned, [Next]_vars
  PROVE  Reasoned'
<1>1. ASSUME UNCHANGED <<live, paused, reasons>> PROVE Reasoned'
  BY <1>1 DEF Flags, Reasoned, PausedForReason, reasons
<1>2. CASE UNCHANGED vars
  BY <1>1, <1>2 DEF vars, socketVars
<1>3. CASE \/ \E s \in Streams : AgentReads(s) \/ AgentCloses(s) \/ LocalTakes(s)
           \/ AgentHears \/ ClientHears \/ WriteDone
  BY <1>1, <1>3 DEF AgentReads, AgentCloses, LocalTakes, AgentHears, ClientHears, WriteDone,
                    socketVars
<1>4. CASE ServerHearsAgent
  <2> DEFINE f == Head(fromAgent)
  <2>1. CASE ~live[f.s]
    BY <1>1, <1>4, <2>1 DEF ServerHearsAgent, socketVars
  <2>2. CASE live[f.s] /\ f.type = "TCP_DATA" /\ PushInbound(f.s, f.n)
    <3>1. CASE DataEvent(f.s, f.n) /\ UNCHANGED <<live, held, peerPausedRead>>
      BY <3>1, DataReasoned
    <3>2. CASE UNCHANGED <<live, paused, reasons>>
      BY <1>1, <3>2
    <3>3. CASE Ends(f.s, <<Ctl("TCP_ABORT", f.s)>>)
      BY <3>3, EndsReasoned
    <3> QED
      BY <2>2, <3>1, <3>2, <3>3 DEF PushInbound
  <2>3. CASE Ends(f.s, <<>>)
    BY <2>3, EndsReasoned
  <2> QED
    BY <1>4, <2>1, <2>2, <2>3 DEF ServerHearsAgent
<1>5. CASE ServerHearsClient
  <2> DEFINE f == Head(fromClient)
  <2>1. CASE ~live[f.s]
    BY <1>1, <1>5, <2>1 DEF ServerHearsClient, socketVars
  <2>2. CASE PeerPauses(f.s)
    BY <2>2 DEF PeerPauses, Pause, Flags, Reasoned, PausedForReason
  <2>3. CASE PeerResumes(f.s)
    <3>1. CASE paused[f.s] /\ ~localPausedForWs[f.s]
      BY <2>3, <3>1, ResumeReasoned DEF PeerResumes
    <3>2. CASE ~(paused[f.s] /\ ~localPausedForWs[f.s])
      BY <2>3, <3>2 DEF PeerResumes, Flags, Reasoned, PausedForReason
    <3> QED
      BY <3>1, <3>2
  <2> QED
    BY <1>5, <2>1, <2>2, <2>3 DEF ServerHearsClient
<1>6. CASE Callback
  <2> DEFINE s == Head(callbacks).s
  <2>1. CASE UNCHANGED <<localPausedForWs, paused>>
    BY <1>1, <1>6, <2>1 DEF Callback, reasons
  <2>2. CASE /\ localPausedForWs[s] /\ peerPausedRead[s] /\ UNCHANGED paused
             /\ localPausedForWs' = [localPausedForWs EXCEPT ![s] = FALSE]
    BY <1>6, <2>2 DEF Callback, Flags, Reasoned, PausedForReason
  <2>3. CASE ~peerPausedRead[s] /\ Resume(s)
    BY <1>6, <2>3, ResumeReasoned DEF Callback
  <2> QED
    BY <1>6, <2>1, <2>2, <2>3 DEF Callback
<1> QED
  BY <1>2, <1>3, <1>4, <1>5, <1>6 DEF Next

(* A socket reads unless the client or the WebSocket's buffer forbids it,   *)
(* and does not while either does (VirtualSocket.pause and resume, called   *)
(* by syncSocketReadState from five places).                                *)
THEOREM PausesHaveReasons == Spec => []PausedForReason
<1>1. Init => Reasoned
  BY DEF Init, Flags, Reasoned, PausedForReason
<1>2. Reasoned /\ [Next]_vars => Reasoned'
  BY NextReasoned
<1>3. Reasoned => PausedForReason
  BY DEF Reasoned
<1> QED
  BY <1>1, <1>2, <1>3, PTL DEF Spec

-----------------------------------------------------------------------------
(* Types.                                                                   *)

ClientFrame == [type : {"PAUSE", "RESUME"}, s : Streams]

Carried ==
  /\ sent \in [Streams -> Nat] /\ taken \in [Streams -> Nat]
  /\ appOpen \in [Streams -> BOOLEAN] /\ agentPaused \in [Streams -> BOOLEAN]
  /\ fromAgent \in Seq(FlowFrame) /\ toAgent \in Seq(FlowFrame) /\ link \in Seq(FlowFrame)
  /\ inflight \in Seq(FlowFrame) /\ waiting \in Seq(FlowFrame) /\ callbacks \in Seq(FlowFrame)
  /\ held \in [Streams -> Seq(Chunk)] /\ sink \in [Streams -> Seq(Chunk)]
  /\ \A s \in Streams : Len(held[s]) <= MaxDest
  /\ backpressured \in [Streams -> BOOLEAN] /\ clientOpen \in [Streams -> BOOLEAN]
  /\ fromClient \in Seq(ClientFrame)

(* Frames by their type. *)
LEMMA FrameKinds ==
  /\ \A s \in Streams, n \in Chunk : Data(s, n) \in FlowFrame
  /\ \A s \in Streams, t \in {"TCP_CLOSE", "TCP_ABORT", "PAUSE", "RESUME"} : Ctl(t, s) \in FlowFrame
  /\ \A s \in Streams : Ctl("PAUSE", s) \in ClientFrame /\ Ctl("RESUME", s) \in ClientFrame
  /\ \A f \in FlowFrame : f.s \in Streams /\ (f.type = "TCP_DATA" => f.n \in Chunk)
  BY DEF Data, Ctl, FlowFrame, ClientFrame, Chunk

(* What is sent on the WebSocket is written or waits. *)
LEMMA SendsType ==
  ASSUME Carried, NEW fs \in Seq(FlowFrame), Sends(fs)
  PROVE  inflight' \in Seq(FlowFrame) /\ waiting' \in Seq(FlowFrame)
<1>1. CASE inflight = <<>> /\ fs # <<>>
  <2>1. Head(fs) \in FlowFrame /\ Tail(fs) \in Seq(FlowFrame)
    BY <1>1
  <2>2. <<Head(fs)>> \in Seq(FlowFrame)
    BY <2>1
  <2> QED
    BY <1>1, <2>1, <2>2 DEF Sends
<1>2. CASE ~(inflight = <<>> /\ fs # <<>>)
  <2>1. waiting \o fs \in Seq(FlowFrame)
    BY DEF Carried
  <2> QED
    BY <1>2, <2>1 DEF Sends, Carried
<1> QED
  BY <1>1, <1>2

LEMMA ChunksType ==
  ASSUME NEW s \in Streams, NEW ns \in Seq(Chunk)
  PROVE  Chunks(s, ns) \in Seq(FlowFrame)
<1>1. \A k \in 1 .. Len(ns) : Data(s, ns[k]) \in FlowFrame
  BY FrameKinds
<1>2. Chunks(s, ns) \in [1 .. Len(ns) -> FlowFrame]
  BY <1>1 DEF Chunks
<1> QED
  BY <1>2, SeqDef

(* A buffer that is emptied is within its limit. *)
LEMMA Emptied ==
  ASSUME Carried, NEW s, held' = [held EXCEPT ![s] = <<>>]
  PROVE  held' \in [Streams -> Seq(Chunk)] /\ \A r \in Streams : Len(held'[r]) <= MaxDest
<1>1. <<>> \in Seq(Chunk) /\ Len(<<>>) <= MaxDest
  BY FlowAssumption
<1>2. held' \in [Streams -> Seq(Chunk)]
  BY <1>1 DEF Carried
<1>3. \A r \in Streams : held'[r] = <<>> \/ held'[r] = held[r]
  BY DEF Carried
<1> QED
  BY <1>1, <1>2, <1>3 DEF Carried

(* The variables the server's own steps leave alone. *)
Elsewhere == <<sent, taken, appOpen, agentPaused, sink, backpressured, clientOpen>>

(* Flushing what is held. *)
LEMMA ResumeCarried ==
  ASSUME Carried, NEW s \in Streams, Resume(s) \/ UNCHANGED <<held, inflight, waiting, toAgent>>,
         UNCHANGED <<Elsewhere, fromAgent, link>>,
         callbacks' \in Seq(FlowFrame), fromClient' \in Seq(ClientFrame)
  PROVE  Carried'
<1>1. CASE Resume(s)
  <2>1. held[s] \in Seq(Chunk)
    BY DEF Carried
  <2>2. inflight' \in Seq(FlowFrame) /\ waiting' \in Seq(FlowFrame)
    BY <1>1, <2>1, ChunksType, SendsType DEF Resume
  <2>3. held' \in [Streams -> Seq(Chunk)] /\ \A r \in Streams : Len(held'[r]) <= MaxDest
    BY <1>1, Emptied DEF Resume
  <2>4. /\ <<Ctl("PAUSE", s)>> \in Seq(FlowFrame) /\ <<Ctl("RESUME", s)>> \in Seq(FlowFrame)
        /\ <<>> \in Seq(FlowFrame)
    BY FrameKinds
  <2>5. toAgent' \in Seq(FlowFrame)
    BY <1>1, <2>4 DEF Resume, Carried
  <2> QED
    BY <2>2, <2>3, <2>5 DEF Carried, Elsewhere
<1>2. CASE UNCHANGED <<held, inflight, waiting, toAgent>>
  BY <1>2 DEF Carried, Elsewhere
<1> QED
  BY <1>1, <1>2

(* The end of a stream, with what it tells the agent. *)
LEMMA EndsCarried ==
  ASSUME Carried, NEW s \in Streams, NEW toA \in Seq(FlowFrame), Ends(s, toA),
         UNCHANGED <<Elsewhere, link, callbacks, fromClient>>, fromAgent' \in Seq(FlowFrame)
  PROVE  Carried'
<1>1. <<Ctl("TCP_CLOSE", s)>> \in Seq(FlowFrame)
  BY FrameKinds
<1>2. inflight' \in Seq(FlowFrame) /\ waiting' \in Seq(FlowFrame)
  BY <1>1, SendsType DEF Ends
<1>3. held' \in [Streams -> Seq(Chunk)] /\ \A r \in Streams : Len(held'[r]) <= MaxDest
  BY Emptied DEF Ends
<1>4. toAgent' \in Seq(FlowFrame)
  BY DEF Ends, Carried
<1> QED
  BY <1>2, <1>3, <1>4 DEF Carried, Elsewhere

(* A chunk from the agent. *)
LEMMA PushCarried ==
  ASSUME Carried, NEW s \in Streams, NEW n \in Chunk, PushInbound(s, n),
         UNCHANGED <<Elsewhere, link, callbacks, fromClient>>, fromAgent' \in Seq(FlowFrame)
  PROVE  Carried'
<1>1. CASE DataEvent(s, n) /\ UNCHANGED held
  <2>1. <<Data(s, n)>> \in Seq(FlowFrame)
    BY FrameKinds
  <2>2. inflight' \in Seq(FlowFrame) /\ waiting' \in Seq(FlowFrame)
    BY <1>1, <2>1, SendsType DEF DataEvent
  <2>3. Append(toAgent, Ctl("PAUSE", s)) \in Seq(FlowFrame)
    BY FrameKinds DEF Carried
  <2>4. toAgent' \in Seq(FlowFrame)
    BY <1>1, <2>3 DEF DataEvent, Pause, Carried
  <2> QED
    BY <1>1, <2>2, <2>4 DEF Carried, Elsewhere
<1>2. CASE /\ Len(held[s]) < MaxDest /\ held' = [held EXCEPT ![s] = Append(@, n)]
           /\ UNCHANGED <<inflight, waiting, toAgent>>
  <2>1. /\ held[s] \in Seq(Chunk) /\ Append(held[s], n) \in Seq(Chunk)
        /\ Len(Append(held[s], n)) = Len(held[s]) + 1 /\ Len(held[s]) \in Nat
    BY DEF Carried
  <2>2. held' \in [Streams -> Seq(Chunk)]
    BY <1>2, <2>1 DEF Carried
  <2>3. \A r \in Streams : held'[r] = held[r] \/ held'[r] = Append(held[s], n)
    BY <1>2 DEF Carried
  <2>4. Len(Append(held[s], n)) <= MaxDest
    BY <1>2, <2>1, FlowAssumption
  <2>5. \A r \in Streams : Len(held'[r]) <= MaxDest
    BY <2>3, <2>4 DEF Carried
  <2> QED
    BY <1>2, <2>2, <2>5 DEF Carried, Elsewhere
<1>3. CASE Ends(s, <<Ctl("TCP_ABORT", s)>>)
  <2>1. <<Ctl("TCP_ABORT", s)>> \in Seq(FlowFrame)
    BY FrameKinds
  <2> QED
    BY <1>3, <2>1, EndsCarried
<1> QED
  BY <1>1, <1>2, <1>3 DEF PushInbound

(* A frame from the server to the client. *)
LEMMA ClientCarried ==
  ASSUME Carried, NEW s \in Streams, NEW n \in Chunk, ClientData(s, n) \/ ClientClose(s),
         UNCHANGED <<agentVars, fromAgent, socketVars, wsVars, toAgent>>, link' \in Seq(FlowFrame)
  PROVE  Carried'
<1>1. CASE ClientData(s, n)
  <2>1. sink' \in [Streams -> Seq(Chunk)]
    BY <1>1 DEF ClientData, Carried
  <2>2. backpressured' \in [Streams -> BOOLEAN]
    BY <1>1 DEF ClientData, Carried
  <2>3. Append(fromClient, Ctl("PAUSE", s)) \in Seq(ClientFrame)
    BY FrameKinds DEF Carried
  <2>4. fromClient' \in Seq(ClientFrame)
    BY <1>1, <2>3 DEF ClientData, Carried
  <2> QED
    BY <1>1, <2>1, <2>2, <2>4 DEF ClientData, Carried, agentVars, socketVars, wsVars
<1>2. CASE ClientClose(s)
  <2>1. <<>> \in Seq(Chunk)
    OBVIOUS
  <2>2. /\ sink' \in [Streams -> Seq(Chunk)]
        /\ backpressured' \in [Streams -> BOOLEAN] /\ clientOpen' \in [Streams -> BOOLEAN]
    BY <1>2, <2>1 DEF ClientClose, Carried
  <2> QED
    BY <1>2, <2>2 DEF ClientClose, Carried, agentVars, socketVars, wsVars
<1> QED
  BY <1>1, <1>2

LEMMA NextCarried ==
  ASSUME Carried, [Next]_vars
  PROVE  Carried'
<1>1. CASE UNCHANGED vars
  BY <1>1 DEF Carried, vars, agentVars, socketVars, wsVars, clientVars
<1>2. ASSUME NEW s \in Streams, AgentReads(s) PROVE Carried'
  <2>1. sent' \in [Streams -> Nat] /\ sent'[s] \in Chunk
    BY <1>2 DEF AgentReads, Carried, Chunk
  <2>2. fromAgent' \in Seq(FlowFrame)
    BY <1>2, <2>1, FrameKinds DEF AgentReads, Carried
  <2> QED
    BY <1>2, <2>1, <2>2 DEF AgentReads, Carried, socketVars, wsVars, clientVars
<1>3. ASSUME NEW s \in Streams, AgentCloses(s) PROVE Carried'
  <2>1. fromAgent' \in Seq(FlowFrame)
    BY <1>3, FrameKinds DEF AgentCloses, Carried
  <2> QED
    BY <1>3, <2>1 DEF AgentCloses, Carried, socketVars, wsVars, clientVars
<1>4. ASSUME NEW s \in Streams, LocalTakes(s) PROVE Carried'
  <2>1. sink[s] \in Seq(Chunk) /\ Tail(sink[s]) \in Seq(Chunk) /\ Head(sink[s]) \in Nat
    BY <1>4 DEF LocalTakes, Carried, Chunk
  <2>2. sink' \in [Streams -> Seq(Chunk)] /\ taken' \in [Streams -> Nat]
    BY <1>4, <2>1 DEF LocalTakes, Carried
  <2>3. backpressured' \in [Streams -> BOOLEAN]
    BY <1>4 DEF LocalTakes, Carried
  <2>4. Append(fromClient, Ctl("RESUME", s)) \in Seq(ClientFrame)
    BY FrameKinds DEF Carried
  <2>5. fromClient' \in Seq(ClientFrame)
    BY <1>4, <2>4 DEF LocalTakes, Carried
  <2> QED
    BY <1>4, <2>2, <2>3, <2>5 DEF LocalTakes, Carried, agentVars, socketVars, wsVars
<1>5. CASE AgentHears
  <2>1. toAgent' \in Seq(FlowFrame)
    BY <1>5 DEF AgentHears, Carried
  <2>2. agentPaused' \in [Streams -> BOOLEAN] /\ appOpen' \in [Streams -> BOOLEAN]
    BY <1>5 DEF AgentHears, Carried
  <2> QED
    BY <1>5, <2>1, <2>2 DEF AgentHears, Carried, socketVars, wsVars, clientVars
<1>6. CASE ServerHearsAgent
  <2> DEFINE f == Head(fromAgent)
  <2>1. f \in FlowFrame /\ fromAgent' \in Seq(FlowFrame)
    BY <1>6 DEF ServerHearsAgent, Carried
  <2>2. f.s \in Streams /\ (f.type = "TCP_DATA" => f.n \in Chunk)
    BY <2>1, FrameKinds
  <2>3. UNCHANGED <<Elsewhere, link, callbacks, fromClient>>
    BY <1>6 DEF ServerHearsAgent, agentVars, clientVars, Elsewhere
  <2>4. CASE toAgent' = Append(toAgent, Ctl("TCP_ABORT", f.s)) /\ UNCHANGED <<socketVars, inflight, waiting>>
    <3>1. toAgent' \in Seq(FlowFrame)
      BY <2>2, <2>4, FrameKinds DEF Carried
    <3> QED
      BY <2>1, <2>3, <2>4, <3>1 DEF Carried, Elsewhere, socketVars
  <2>5. CASE f.type = "TCP_DATA" /\ PushInbound(f.s, f.n)
    BY <2>1, <2>2, <2>3, <2>5, PushCarried
  <2>6. CASE Ends(f.s, <<>>)
    <3>1. <<>> \in Seq(FlowFrame)
      OBVIOUS
    <3> QED
      BY <2>1, <2>2, <2>3, <2>6, <3>1, EndsCarried
  <2> QED
    BY <1>6, <2>4, <2>5, <2>6 DEF ServerHearsAgent
<1>7. CASE ServerHearsClient
  <2> DEFINE f == Head(fromClient)
  <2>1. f \in ClientFrame /\ fromClient' \in Seq(ClientFrame)
    BY <1>7 DEF ServerHearsClient, Carried
  <2>2. f.s \in Streams
    BY <2>1 DEF ClientFrame
  <2>3. UNCHANGED <<Elsewhere, fromAgent, link, callbacks>> /\ callbacks' \in Seq(FlowFrame)
    BY <1>7 DEF ServerHearsClient, agentVars, clientVars, Elsewhere, Carried
  <2>4. CASE PeerPauses(f.s)
    <3>1. Append(toAgent, Ctl("PAUSE", f.s)) \in Seq(FlowFrame)
      BY <2>2, FrameKinds DEF Carried
    <3>2. toAgent' \in Seq(FlowFrame)
      BY <2>4, <3>1 DEF PeerPauses, Pause, Carried
    <3> QED
      BY <2>1, <2>3, <2>4, <3>2 DEF PeerPauses, Carried, Elsewhere
  <2>5. CASE Resume(f.s) \/ UNCHANGED <<held, inflight, waiting, toAgent>>
    BY <2>1, <2>2, <2>3, <2>5, ResumeCarried
  <2> QED
    BY <1>7, <2>4, <2>5 DEF ServerHearsClient, PeerResumes, socketVars
<1>8. CASE Callback
  <2> DEFINE s == Head(callbacks).s
  <2>1. s \in Streams
    BY <1>8, FrameKinds DEF Callback, Carried
  <2>2. callbacks' \in Seq(FlowFrame) /\ fromClient' \in Seq(ClientFrame)
    BY <1>8 DEF Callback, Carried
  <2>3. UNCHANGED <<Elsewhere, fromAgent, link>>
    BY <1>8 DEF Callback, agentVars, clientVars, Elsewhere
  <2>4. Resume(s) \/ UNCHANGED <<held, inflight, waiting, toAgent>>
    BY <1>8 DEF Callback
  <2> QED
    BY <2>1, <2>2, <2>3, <2>4, ResumeCarried
<1>9. CASE ClientHears
  <2> DEFINE f == Head(link)
  <2>1. f \in FlowFrame /\ link' \in Seq(FlowFrame)
    BY <1>9 DEF ClientHears, Carried
  <2>2. f.s \in Streams /\ (f.type = "TCP_DATA" => f.n \in Chunk)
    BY <2>1, FrameKinds
  <2>3. UNCHANGED <<agentVars, fromAgent, socketVars, wsVars, toAgent>>
    BY <1>9 DEF ClientHears
  <2>4. CASE f.type = "TCP_DATA" /\ ClientData(f.s, f.n)
    BY <2>1, <2>2, <2>3, <2>4, ClientCarried
  <2>5. CASE ClientClose(f.s)
    <3>1. 1 \in Chunk
      BY DEF Chunk
    <3> QED
      BY <2>1, <2>2, <2>3, <2>5, <3>1, ClientCarried
  <2> QED
    BY <1>9, <2>4, <2>5 DEF ClientHears
<1>10. CASE WriteDone
  <2>1. link' \in Seq(FlowFrame) /\ waiting' \in Seq(FlowFrame)
    BY <1>10 DEF WriteDone, Carried
  <2> QED
    BY <1>10, <2>1 DEF WriteDone, Carried, agentVars, socketVars, clientVars
<1> QED
  BY <1>1, <1>2, <1>3, <1>4, <1>5, <1>6, <1>7, <1>8, <1>9, <1>10 DEF Next

LEMMA InitCarried == Init => Carried
  BY FlowAssumption DEF Init, Carried

(* The types, and that no buffer of a virtual socket holds more than        *)
(* MAX_DEST_BUFFER_BYTES allows (VirtualSocket.pushInbound).                *)
THEOREM FlowTypeCorrect == Spec => []TypeOK
<1>1. Init => Carried /\ Reasoned
  BY InitCarried DEF Init, Flags, Reasoned, PausedForReason
<1>2. Carried /\ Reasoned /\ [Next]_vars => Carried' /\ Reasoned'
  BY NextCarried, NextReasoned
<1>3. ASSUME Carried, Reasoned PROVE TypeOK
  <2>1. ClientFrame \subseteq FlowFrame
    BY DEF ClientFrame, FlowFrame
  <2>2. fromClient \in Seq(FlowFrame)
    BY <1>3, <2>1, SeqMonotonic DEF Carried
  <2> QED
    BY <1>3, <2>2 DEF Carried, Reasoned, Flags, TypeOK
<1> QED
  BY <1>1, <1>2, <1>3, PTL DEF Spec

-----------------------------------------------------------------------------
(* The client's pauses.                                                     *)

(* A RESUME for s is among the frames after the k-th.                       *)
Later(q, k, s) == \E j \in DOMAIN q : j > k /\ q[j] = Ctl("RESUME", s)

(* Whoever is backpressured has something to write, and every PAUSE, heard  *)
(* or under way, is followed by RESUME unless the client is backpressured   *)
(* still.                                                                   *)
Due(s) == clientOpen[s] =>
  /\ backpressured[s] => sink[s] # <<>>
  /\ live[s] /\ peerPausedRead[s] => backpressured[s] \/ Later(fromClient, 0, s)
  /\ \A k \in DOMAIN fromClient :
       fromClient[k] = Ctl("PAUSE", s) => backpressured[s] \/ Later(fromClient, k, s)

LEMMA LaterAppend ==
  ASSUME NEW T, NEW q \in Seq(T), NEW f \in T, NEW k \in Nat, NEW s
  PROVE  /\ Later(q, k, s) => Later(Append(q, f), k, s)
         /\ k <= Len(q) /\ f = Ctl("RESUME", s) => Later(Append(q, f), k, s)
<1> DEFINE p == Append(q, f)
<1>1. /\ p \in Seq(T) /\ Len(p) = Len(q) + 1 /\ p[Len(q) + 1] = f
      /\ \A j \in 1 .. Len(q) : p[j] = q[j]
      /\ DOMAIN p = 1 .. Len(p) /\ DOMAIN q = 1 .. Len(q) /\ Len(q) \in Nat
  OBVIOUS
<1> HIDE DEF p
<1> QED
  BY <1>1 DEF Later, p

(* Taking a frame that is not RESUME for s loses none. *)
LEMMA LaterTail ==
  ASSUME NEW T, NEW q \in Seq(T), q # <<>>, NEW k \in Nat, NEW s,
         Later(q, k, s), k > 0 \/ Head(q) # Ctl("RESUME", s)
  PROVE  Later(Tail(q), IF k = 0 THEN 0 ELSE k - 1, s)
<1>1. /\ Len(q) \in Nat /\ Len(q) > 0 /\ Len(Tail(q)) = Len(q) - 1 /\ Head(q) = q[1]
      /\ DOMAIN q = 1 .. Len(q) /\ DOMAIN Tail(q) = 1 .. Len(q) - 1
      /\ \A j \in 1 .. Len(q) - 1 : Tail(q)[j] = q[j + 1]
  OBVIOUS
<1>2. PICK j \in DOMAIN q : j > k /\ q[j] = Ctl("RESUME", s)
  BY DEF Later
<1>3. j > 1
  BY <1>1, <1>2
<1>4. j - 1 \in DOMAIN Tail(q) /\ Tail(q)[j - 1] = Ctl("RESUME", s)
  BY <1>1, <1>2, <1>3
<1> QED
  BY <1>1, <1>2, <1>3, <1>4 DEF Later

(* Steps that only let the client, or its socket, forget. *)
LEMMA SameDue ==
  ASSUME NEW s, Due(s),
         clientOpen'[s] => clientOpen[s],
         backpressured'[s] = backpressured[s], sink'[s] = sink[s],
         live'[s] => live[s], live'[s] /\ peerPausedRead'[s] => peerPausedRead[s],
         UNCHANGED fromClient
  PROVE  Due(s)'
  BY DEF Due, Later

(* A chunk for a local socket that is full: PAUSE. *)
LEMMA DataDue ==
  ASSUME Carried, Flags, NEW c \in Streams, NEW n \in Chunk, ClientData(c, n),
         UNCHANGED <<live, peerPausedRead>>, NEW s \in Streams, Due(s)
  PROVE  Due(s)'
<1>1. sink[c] \in Seq(Chunk) /\ Append(sink[c], n) # <<>>
  <2>1. sink[c] \in Seq(Chunk)
    BY DEF Carried
  <2>2. Len(Append(sink[c], n)) = Len(sink[c]) + 1 /\ Len(sink[c]) \in Nat /\ Len(<<>>) = 0
    BY <2>1
  <2> QED
    BY <2>1, <2>2
<1>2. sink'[s] # <<>> \/ sink'[s] = sink[s]
  BY <1>1 DEF ClientData, Carried
<1>3. CASE UNCHANGED <<backpressured, fromClient>>
  BY <1>2, <1>3 DEF Due, Later, ClientData
<1>4. CASE /\ ~backpressured[c] /\ backpressured' = [backpressured EXCEPT ![c] = TRUE]
           /\ fromClient' = Append(fromClient, Ctl("PAUSE", c))
  <2>1. CASE s = c
    <3>1. backpressured'[s] /\ sink'[s] # <<>>
      BY <1>1, <1>4, <2>1 DEF ClientData, Carried
    <3> QED
      BY <3>1 DEF Due
  <2>2. CASE s # c
    <3> DEFINE f == Ctl("PAUSE", c)
    <3>1. /\ f \in ClientFrame /\ f # Ctl("PAUSE", s)
          /\ fromClient \in Seq(ClientFrame)
      BY <2>2, FrameKinds DEF Ctl, Carried
    <3> HIDE DEF f
    <3>2. /\ DOMAIN fromClient = 1 .. Len(fromClient) /\ Len(fromClient) \in Nat
          /\ DOMAIN Append(fromClient, f) = 1 .. Len(fromClient) + 1
          /\ \A k \in DOMAIN fromClient : Append(fromClient, f)[k] = fromClient[k]
          /\ Append(fromClient, f)[Len(fromClient) + 1] = f
      BY <3>1
    <3>3. \A k \in Nat : Later(fromClient, k, s) => Later(Append(fromClient, f), k, s)
      BY <3>1, LaterAppend
    <3>4. backpressured'[s] = backpressured[s] /\ sink'[s] = sink[s] /\ clientOpen'[s] = clientOpen[s]
      BY <1>4, <2>2 DEF ClientData, Carried
    <3>5. fromClient' = Append(fromClient, f)
      BY <1>4 DEF f
    <3>6. \A k \in DOMAIN fromClient' : fromClient'[k] = Ctl("PAUSE", s) =>
             k \in DOMAIN fromClient /\ k \in Nat /\ fromClient[k] = Ctl("PAUSE", s)
      BY <3>1, <3>2, <3>5
    <3> QED
      BY <3>3, <3>4, <3>5, <3>6 DEF Due
  <2> QED
    BY <2>1, <2>2
<1> QED
  BY <1>3, <1>4 DEF ClientData

(* The local service reads: the last chunk brings 'drain' and RESUME. *)
LEMMA TakesDue ==
  ASSUME Carried, Flags, NEW c \in Streams, LocalTakes(c), NEW s \in Streams, Due(s)
  PROVE  Due(s)'
<1> DEFINE f == Ctl("RESUME", c)
<1>1. /\ f \in ClientFrame /\ f # Ctl("PAUSE", s)
      /\ fromClient \in Seq(ClientFrame)
      /\ UNCHANGED <<live, peerPausedRead, clientOpen>>
  BY FrameKinds DEF Ctl, Carried, LocalTakes, socketVars, reasons
<1>2. /\ sink[c] \in Seq(Chunk) /\ sink[c] # <<>>
      /\ Len(sink[c]) # 1 => Tail(sink[c]) # <<>>
  <2>1. sink[c] \in Seq(Chunk) /\ sink[c] # <<>>
    BY DEF Carried, LocalTakes
  <2>2. /\ Tail(sink[c]) \in Seq(Chunk) /\ Len(Tail(sink[c])) = Len(sink[c]) - 1
        /\ Len(sink[c]) \in Nat /\ Len(sink[c]) # 0 /\ Len(<<>>) = 0
    BY <2>1
  <2>3. Len(sink[c]) # 1 => Len(Tail(sink[c])) # Len(<<>>)
    BY <2>2
  <2> QED
    BY <2>1, <2>3
<1>3. CASE Drained(c)
  <2>1. backpressured' = [backpressured EXCEPT ![c] = FALSE] /\ fromClient' = Append(fromClient, f)
    BY <1>3 DEF LocalTakes
  <2> HIDE DEF f
  <2>2. /\ DOMAIN fromClient = 1 .. Len(fromClient) /\ Len(fromClient) \in Nat
        /\ DOMAIN Append(fromClient, f) = 1 .. Len(fromClient) + 1
        /\ \A k \in DOMAIN fromClient : Append(fromClient, f)[k] = fromClient[k]
        /\ Append(fromClient, f)[Len(fromClient) + 1] = f
    BY <1>1
  <2>3. \A k \in DOMAIN fromClient' : fromClient'[k] = Ctl("PAUSE", s) =>
           k \in DOMAIN fromClient /\ k \in Nat /\ k <= Len(fromClient)
             /\ fromClient[k] = Ctl("PAUSE", s)
    BY <1>1, <2>1, <2>2
  <2>4. CASE s = c
    <3>1. \A k \in Nat : k <= Len(fromClient) => Later(fromClient', k, s)
      BY <1>1, <2>1, <2>4, LaterAppend DEF f
    <3>2. Later(fromClient', 0, s)
      BY <2>2, <3>1
    <3>3. ~backpressured'[s]
      BY <2>1, <2>4 DEF Carried
    <3> QED
      BY <2>3, <3>1, <3>2, <3>3 DEF Due
  <2>5. CASE s # c
    <3>1. \A k \in Nat : Later(fromClient, k, s) => Later(fromClient', k, s)
      BY <1>1, <2>1, LaterAppend
    <3>2. backpressured'[s] = backpressured[s] /\ sink'[s] = sink[s]
      BY <2>1, <2>5 DEF Carried, LocalTakes
    <3> QED
      BY <1>1, <2>3, <3>1, <3>2 DEF Due
  <2> QED
    BY <2>4, <2>5
<1>4. CASE ~Drained(c)
  <2>1. UNCHANGED <<backpressured, fromClient>>
    BY <1>4 DEF LocalTakes
  <2>2. backpressured'[s] => sink'[s] # <<>> \/ sink'[s] = sink[s]
    BY <1>2, <1>4, <2>1 DEF Drained, LocalTakes, Carried
  <2> QED
    BY <1>1, <2>1, <2>2 DEF Due, Later
<1> QED
  BY <1>3, <1>4

(* The server hears the client: a PAUSE it takes in has its RESUME behind   *)
(* it, and a RESUME ends the pause.                                         *)
LEMMA HearsDue ==
  ASSUME Carried, Flags, ServerHearsClient, NEW s \in Streams, Due(s)
  PROVE  Due(s)'
<1> DEFINE f == Head(fromClient)
<1>1. /\ fromClient \in Seq(ClientFrame) /\ fromClient # <<>> /\ fromClient' = Tail(fromClient)
      /\ f \in ClientFrame /\ f.s \in Streams
  <2>1. fromClient \in Seq(ClientFrame) /\ fromClient # <<>> /\ fromClient' = Tail(fromClient)
    BY DEF ServerHearsClient, Carried
  <2>2. f \in ClientFrame
    BY <2>1
  <2> QED
    BY <2>1, <2>2 DEF ClientFrame
<1>2. /\ Len(fromClient) \in Nat /\ f = fromClient[1] /\ 1 \in DOMAIN fromClient
      /\ DOMAIN fromClient = 1 .. Len(fromClient)
      /\ DOMAIN fromClient' = 1 .. Len(fromClient) - 1
      /\ \A k \in DOMAIN fromClient' : fromClient'[k] = fromClient[k + 1] /\ k + 1 \in DOMAIN fromClient
  BY <1>1
<1>3. UNCHANGED <<sink, backpressured, clientOpen>>
  BY DEF ServerHearsClient, clientVars
<1>4. f = Ctl("PAUSE", f.s) \/ f = Ctl("RESUME", f.s)
  BY <1>1 DEF ClientFrame, Ctl
<1>5. Ctl("PAUSE", s).type = "PAUSE" /\ Ctl("RESUME", s).type = "RESUME" /\ Ctl("RESUME", s).s = s
      /\ Ctl("PAUSE", s).s = s
  BY DEF Ctl
<1>6. /\ live' = live
      /\ s # f.s => peerPausedRead'[s] = peerPausedRead[s]
      /\ live[s] /\ f = Ctl("RESUME", s) => ~peerPausedRead'[s]
      /\ ~live[f.s] => UNCHANGED peerPausedRead
  BY <1>1, <1>5 DEF ServerHearsClient, socketVars, reasons, PeerPauses, PeerResumes, Flags
<1> HIDE DEF f
<1>7. \A k \in Nat : k > 0 /\ Later(fromClient, k, s) => Later(fromClient', k - 1, s)
  <2> SUFFICES ASSUME NEW k \in Nat, k > 0, Later(fromClient, k, s)
               PROVE  Later(fromClient', k - 1, s)
    OBVIOUS
  <2>1. Later(Tail(fromClient), IF k = 0 THEN 0 ELSE k - 1, s)
    BY <1>1, LaterTail
  <2> QED
    BY <1>1, <2>1
<1>8. Later(fromClient, 0, s) /\ f # Ctl("RESUME", s) => Later(fromClient', 0, s)
  <2> SUFFICES ASSUME Later(fromClient, 0, s), f # Ctl("RESUME", s)
               PROVE  Later(fromClient', 0, s)
    OBVIOUS
  <2>1. Later(Tail(fromClient), IF 0 = 0 THEN 0 ELSE 0 - 1, s)
    BY <1>1, LaterTail DEF f
  <2> QED
    BY <1>1, <2>1
<1> SUFFICES ASSUME clientOpen'[s]
             PROVE  /\ backpressured'[s] => sink'[s] # <<>>
                    /\ live'[s] /\ peerPausedRead'[s] => backpressured'[s] \/ Later(fromClient', 0, s)
                    /\ \A k \in DOMAIN fromClient' :
                         fromClient'[k] = Ctl("PAUSE", s) => backpressured'[s] \/ Later(fromClient', k, s)
  BY DEF Due
<1>9. backpressured'[s] => sink'[s] # <<>>
  BY <1>3 DEF Due
<1>10. ASSUME NEW k \in DOMAIN fromClient', fromClient'[k] = Ctl("PAUSE", s), ~backpressured'[s]
       PROVE  Later(fromClient', k, s)
  <2>1. k + 1 \in DOMAIN fromClient /\ fromClient[k + 1] = Ctl("PAUSE", s) /\ k \in Nat
    BY <1>2, <1>10
  <2>2. Later(fromClient, k + 1, s)
    BY <1>3, <1>10, <2>1 DEF Due
  <2>3. k + 1 \in Nat /\ k + 1 > 0 /\ (k + 1) - 1 = k
    BY <2>1
  <2> QED
    BY <1>7, <2>2, <2>3
<1>11. ASSUME live'[s], peerPausedRead'[s], ~backpressured'[s] PROVE Later(fromClient', 0, s)
  <2>1. CASE f = Ctl("PAUSE", s)
    <3>1. Later(fromClient, 1, s)
      BY <1>2, <1>3, <1>11, <2>1 DEF Due
    <3> QED
      BY <1>7, <3>1
  <2>2. CASE f # Ctl("PAUSE", s)
    <3>1. f # Ctl("RESUME", s)
      BY <1>6, <1>11
    <3>2. s # f.s
      BY <1>4, <2>2, <3>1
    <3>3. Later(fromClient, 0, s)
      BY <1>3, <1>6, <1>11, <3>2 DEF Due
    <3> QED
      BY <1>8, <3>1, <3>3
  <2> QED
    BY <2>1, <2>2
<1> QED
  BY <1>9, <1>10, <1>11

LEMMA NextDue ==
  ASSUME Carried, Flags, [Next]_vars, NEW s \in Streams, Due(s)
  PROVE  Due(s)'
<1>1. ASSUME UNCHANGED <<live, peerPausedRead, clientVars, fromClient>> PROVE Due(s)'
  BY <1>1, SameDue DEF clientVars
<1>2. CASE UNCHANGED vars
  BY <1>1, <1>2 DEF vars, socketVars, reasons
<1>3. CASE \/ \E r \in Streams : AgentReads(r) \/ AgentCloses(r)
           \/ AgentHears \/ WriteDone
  BY <1>1, <1>3 DEF AgentReads, AgentCloses, AgentHears, WriteDone, socketVars, reasons
<1>4. CASE Callback
  BY <1>1, <1>4 DEF Callback
<1>5. CASE \E r \in Streams : LocalTakes(r)
  BY <1>5, TakesDue
<1>6. CASE ServerHearsClient
  BY <1>6, HearsDue
<1>7. CASE ServerHearsAgent
  <2> DEFINE f == Head(fromAgent)
  <2>1. UNCHANGED <<clientVars, fromClient>>
    BY <1>7 DEF ServerHearsAgent
  <2>2. ASSUME NEW toA, Ends(f.s, toA) PROVE Due(s)'
    <3>1. live'[s] => live[s] /\ peerPausedRead'[s] = peerPausedRead[s]
      BY <2>2 DEF Ends, Flags
    <3> QED
      BY <2>1, <3>1, SameDue DEF clientVars
  <2>3. CASE UNCHANGED <<live, peerPausedRead>>
    BY <1>1, <2>1, <2>3
  <2> QED
    BY <1>7, <2>2, <2>3 DEF ServerHearsAgent, PushInbound, socketVars, reasons
<1>8. CASE ClientHears
  <2> DEFINE f == Head(link)
  <2>1. f.s \in Streams /\ (f.type = "TCP_DATA" => f.n \in Chunk)
    <3>1. link \in Seq(FlowFrame) /\ link # <<>>
      BY <1>8 DEF ClientHears, Carried
    <3>2. f \in FlowFrame
      BY <3>1
    <3> HIDE DEF f
    <3> QED
      BY <3>2, FrameKinds
  <2>2. UNCHANGED <<live, peerPausedRead>>
    BY <1>8 DEF ClientHears, socketVars, reasons
  <2>3. CASE f.type = "TCP_DATA" /\ ClientData(f.s, f.n)
    BY <2>1, <2>2, <2>3, DataDue
  <2>4. CASE ClientClose(f.s)
    <3>1. CASE s = f.s
      <4>1. ~clientOpen'[s]
        BY <2>4, <3>1 DEF ClientClose, Carried
      <4> QED
        BY <4>1 DEF Due
    <3>2. CASE s # f.s
      <4>1. /\ clientOpen'[s] = clientOpen[s] /\ backpressured'[s] = backpressured[s]
            /\ sink'[s] = sink[s] /\ UNCHANGED fromClient
        BY <2>4, <3>2 DEF ClientClose, Carried
      <4> QED
        BY <2>2, <4>1, SameDue
    <3> QED
      BY <3>1, <3>2
  <2> QED
    BY <1>8, <2>3, <2>4 DEF ClientHears
<1> QED
  BY <1>2, <1>3, <1>4, <1>5, <1>6, <1>7, <1>8 DEF Next

(* A stream the client has paused is resumed by it: there is something left *)
(* to write, whose 'drain' sends RESUME, or RESUME is under way, at any     *)
(* speed of the link (TcpClientHandler: localWriteBackpressured).           *)
THEOREM PausesLifted == Spec => []PauseLifted
<1> DEFINE Inv == Carried /\ Reasoned /\ \A s \in Streams : Due(s)
<1>1. Init => Inv
  <2>1. Init => \A s \in Streams : Due(s)
    BY DEF Init, Due
  <2> QED
    BY <2>1, InitCarried DEF Init, Flags, Reasoned, PausedForReason
<1>2. ASSUME Inv, [Next]_vars PROVE Inv'
  <2>1. Carried' /\ Reasoned'
    BY <1>2, NextCarried, NextReasoned
  <2>2. \A s \in Streams : Due(s)'
    BY <1>2, NextDue DEF Reasoned
  <2> QED
    BY <2>1, <2>2
<1>3. Inv => PauseLifted
  BY DEF Due, Later, PauseLifted
<1> QED
  BY <1>1, <1>2, <1>3, PTL DEF Spec

-----------------------------------------------------------------------------
(* The agent's pauses.                                                      *)

(* NotLeftPaused, of one stream. *)
Heard(s) == live[s] /\ ~paused[s] /\ appOpen[s] =>
  /\ agentPaused[s] => Later(toAgent, 0, s)
  /\ \A k \in DOMAIN toAgent : toAgent[k] = Ctl("PAUSE", s) => Later(toAgent, k, s)

(* Another frame, or RESUME for a socket that was paused. *)
LEMMA AppendHeard ==
  ASSUME NEW q \in Seq(FlowFrame), NEW f \in FlowFrame, NEW s
  PROVE  LET p == Append(q, f) IN
    /\ f = Ctl("RESUME", s) =>
         /\ Later(p, 0, s)
         /\ \A k \in DOMAIN p : p[k] = Ctl("PAUSE", s) => Later(p, k, s)
    /\ f # Ctl("PAUSE", s) /\ (\A k \in DOMAIN q : q[k] = Ctl("PAUSE", s) => Later(q, k, s)) =>
         \A k \in DOMAIN p : p[k] = Ctl("PAUSE", s) => Later(p, k, s)
    /\ Later(q, 0, s) => Later(p, 0, s)
<1> DEFINE p == Append(q, f)
<1>1. /\ DOMAIN q = 1 .. Len(q) /\ DOMAIN p = 1 .. Len(q) + 1 /\ Len(q) \in Nat
      /\ p[Len(q) + 1] = f /\ \A k \in 1 .. Len(q) : p[k] = q[k]
  OBVIOUS
<1>2. \A k \in Nat : Later(q, k, s) => Later(p, k, s)
  BY LaterAppend
<1>3. f = Ctl("RESUME", s) => \A k \in Nat : k <= Len(q) => Later(p, k, s)
  BY LaterAppend
<1>4. Ctl("RESUME", s) # Ctl("PAUSE", s)
  BY DEF Ctl
<1> HIDE DEF p
<1>5. ASSUME NEW k \in DOMAIN p, p[k] = Ctl("PAUSE", s), f # Ctl("PAUSE", s)
      PROVE  k \in Nat /\ k <= Len(q) /\ k \in DOMAIN q /\ q[k] = Ctl("PAUSE", s)
  BY <1>1, <1>5
<1>6. f = Ctl("RESUME", s) =>
        Later(p, 0, s) /\ \A k \in DOMAIN p : p[k] = Ctl("PAUSE", s) => Later(p, k, s)
  BY <1>1, <1>3, <1>4, <1>5
<1>7. f # Ctl("PAUSE", s) /\ (\A k \in DOMAIN q : q[k] = Ctl("PAUSE", s) => Later(q, k, s)) =>
        \A k \in DOMAIN p : p[k] = Ctl("PAUSE", s) => Later(p, k, s)
  BY <1>2, <1>5
<1>8. Later(q, 0, s) => Later(p, 0, s)
  BY <1>2
<1> QED
  BY <1>6, <1>7, <1>8 DEF p

(* Steps that leave the stream reading, or not, as it was. *)
LEMMA SameHeard ==
  ASSUME NEW s, Heard(s), live'[s] => live[s], live'[s] /\ ~paused'[s] => ~paused[s],
         appOpen'[s] => appOpen[s], agentPaused'[s] => agentPaused[s], UNCHANGED toAgent
  PROVE  Heard(s)'
  BY DEF Heard, Later

(* A frame for another stream, or one that is no PAUSE. *)
LEMMA PostHeard ==
  ASSUME Carried, NEW s, Heard(s), NEW f \in FlowFrame, toAgent' = Append(toAgent, f),
         UNCHANGED <<appOpen, agentPaused>>, live'[s] => live[s],
         live'[s] /\ ~paused'[s] => ~paused[s] /\ f # Ctl("PAUSE", s)
  PROVE  Heard(s)'
<1>1. toAgent \in Seq(FlowFrame)
  BY DEF Carried
<1> QED
  BY <1>1, AppendHeard DEF Heard

(* resume tells the agent so, after whatever else it says. *)
LEMMA ResumeHeard ==
  ASSUME Carried, Flags, NEW c \in Streams, Resume(c), UNCHANGED <<live, appOpen, agentPaused>>,
         NEW s \in Streams, Heard(s)
  PROVE  Heard(s)'
<1> DEFINE q == toAgent \o (IF OverHigh(held[c]) THEN <<Ctl("PAUSE", c)>> ELSE <<>>)
           f == Ctl("RESUME", c)
<1>1. /\ Ctl("PAUSE", c) \in FlowFrame /\ f \in FlowFrame
      /\ toAgent \in Seq(FlowFrame) /\ Append(toAgent, Ctl("PAUSE", c)) \in Seq(FlowFrame)
  BY FrameKinds DEF Carried
<1>2. q = toAgent \/ q = Append(toAgent, Ctl("PAUSE", c))
  BY <1>1
<1>3. q \in Seq(FlowFrame)
  BY <1>1, <1>2
<1>4. toAgent' = q \o <<f>>
  BY DEF Resume
<1> HIDE DEF q
<1>5. toAgent' = Append(q, f)
  BY <1>1, <1>3, <1>4
<1>6. CASE s = c
  BY <1>1, <1>3, <1>5, <1>6, AppendHeard DEF Heard
<1>7. CASE s # c
  <2>1. Ctl("PAUSE", c) # Ctl("PAUSE", s) /\ f # Ctl("PAUSE", s)
    BY <1>7 DEF Ctl
  <2>2. paused'[s] = paused[s]
    BY <1>7 DEF Resume, Flags
  <2> HIDE DEF f
  <2> SUFFICES ASSUME live[s], ~paused[s], appOpen[s]
               PROVE  /\ agentPaused[s] => Later(toAgent', 0, s)
                      /\ \A k \in DOMAIN toAgent' :
                           toAgent'[k] = Ctl("PAUSE", s) => Later(toAgent', k, s)
    BY <2>2 DEF Heard
  <2>3. /\ agentPaused[s] => Later(q, 0, s)
        /\ \A k \in DOMAIN q : q[k] = Ctl("PAUSE", s) => Later(q, k, s)
    BY <1>1, <1>2, <2>1, AppendHeard DEF Heard
  <2> QED
    BY <1>1, <1>3, <1>5, <2>1, <2>3, AppendHeard
<1> QED
  BY <1>6, <1>7

(* pause speaks of a stream that is paused from then on. *)
LEMMA PauseHeard ==
  ASSUME Carried, Flags, NEW c \in Streams, Pause(c), UNCHANGED <<live, appOpen, agentPaused>>,
         NEW s \in Streams, Heard(s)
  PROVE  Heard(s)'
<1>1. Ctl("PAUSE", c) \in FlowFrame
  BY FrameKinds
<1>2. s # c => paused'[s] = paused[s] /\ Ctl("PAUSE", c) # Ctl("PAUSE", s)
  BY DEF Pause, Flags, Ctl
<1>3. s = c => paused'[s]
  BY DEF Pause, Flags
<1>4. CASE UNCHANGED toAgent
  BY <1>2, <1>3, <1>4, SameHeard
<1>5. CASE toAgent' = Append(toAgent, Ctl("PAUSE", c))
  BY <1>1, <1>2, <1>3, <1>5, PostHeard
<1> QED
  BY <1>4, <1>5 DEF Pause

(* A stream the server gives up is no longer spoken of. *)
LEMMA EndsHeard ==
  ASSUME Carried, Flags, NEW c \in Streams, NEW toA, Ends(c, toA),
         toA = <<>> \/ toA = <<Ctl("TCP_ABORT", c)>>, UNCHANGED <<appOpen, agentPaused>>,
         NEW s \in Streams, Heard(s)
  PROVE  Heard(s)'
<1>1. CASE s = c
  <2>1. ~live'[s]
    BY <1>1 DEF Ends, Flags
  <2> QED
    BY <2>1 DEF Heard
<1>2. CASE s # c
  <2>1. live'[s] = live[s] /\ paused'[s] = paused[s]
    BY <1>2 DEF Ends, Flags
  <2>2. Ctl("TCP_ABORT", c) \in FlowFrame /\ Ctl("TCP_ABORT", c) # Ctl("PAUSE", s)
    BY FrameKinds DEF Ctl
  <2>3. toAgent \in Seq(FlowFrame) /\ toAgent' = toAgent \o toA
    BY DEF Carried, Ends
  <2>4. toAgent' = toAgent \/ toAgent' = Append(toAgent, Ctl("TCP_ABORT", c))
    BY <2>2, <2>3
  <2> QED
    BY <2>1, <2>2, <2>4, SameHeard, PostHeard
<1> QED
  BY <1>1, <1>2

(* The agent hears PAUSE, with its RESUME behind it, or RESUME, or the end. *)
LEMMA AgentHeard ==
  ASSUME Carried, AgentHears, NEW s \in Streams, Heard(s)
  PROVE  Heard(s)'
<1> DEFINE f == Head(toAgent)
<1>1. /\ toAgent \in Seq(FlowFrame) /\ toAgent # <<>> /\ toAgent' = Tail(toAgent)
      /\ UNCHANGED <<live, paused>>
  BY DEF AgentHears, Carried, socketVars
<1>2. /\ Len(toAgent) \in Nat /\ f = toAgent[1] /\ 1 \in DOMAIN toAgent
      /\ \A k \in DOMAIN toAgent' :
           toAgent'[k] = toAgent[k + 1] /\ k + 1 \in DOMAIN toAgent /\ k \in Nat
  BY <1>1
<1>3. f \in FlowFrame
  BY <1>1
<1>4. /\ f = Ctl("RESUME", s) => f.type = "RESUME" /\ f.s = s
      /\ f.type = "PAUSE" /\ f.s = s => f = Ctl("PAUSE", s)
  BY <1>3 DEF Ctl, FlowFrame
<1>5. /\ appOpen'[s] => appOpen[s]
      /\ s = f.s => (agentPaused'[s] => f.type = "PAUSE")
      /\ s # f.s => agentPaused'[s] = agentPaused[s]
  BY DEF AgentHears, Carried
<1> HIDE DEF f
<1>6. \A k \in Nat : k > 0 /\ Later(toAgent, k, s) => Later(toAgent', k - 1, s)
  <2> SUFFICES ASSUME NEW k \in Nat, k > 0, Later(toAgent, k, s)
               PROVE  Later(toAgent', k - 1, s)
    OBVIOUS
  <2>1. Later(Tail(toAgent), IF k = 0 THEN 0 ELSE k - 1, s)
    BY <1>1, LaterTail
  <2> QED
    BY <1>1, <2>1
<1>7. Later(toAgent, 0, s) /\ f # Ctl("RESUME", s) => Later(toAgent', 0, s)
  <2> SUFFICES ASSUME Later(toAgent, 0, s), f # Ctl("RESUME", s)
               PROVE  Later(toAgent', 0, s)
    OBVIOUS
  <2>1. Later(Tail(toAgent), IF 0 = 0 THEN 0 ELSE 0 - 1, s)
    BY <1>1, LaterTail DEF f
  <2> QED
    BY <1>1, <2>1
<1> SUFFICES ASSUME live[s], ~paused[s], appOpen[s]
             PROVE  /\ agentPaused'[s] => Later(toAgent', 0, s)
                    /\ \A k \in DOMAIN toAgent' :
                         toAgent'[k] = Ctl("PAUSE", s) => Later(toAgent', k, s)
  BY <1>1, <1>5 DEF Heard
<1>8. ASSUME NEW k \in DOMAIN toAgent', toAgent'[k] = Ctl("PAUSE", s)
      PROVE  Later(toAgent', k, s)
  <2>1. k + 1 \in DOMAIN toAgent /\ toAgent[k + 1] = Ctl("PAUSE", s) /\ k \in Nat
    BY <1>2, <1>8
  <2>2. Later(toAgent, k + 1, s)
    BY <2>1 DEF Heard
  <2>3. k + 1 \in Nat /\ k + 1 > 0 /\ (k + 1) - 1 = k
    BY <2>1
  <2> QED
    BY <1>6, <2>2, <2>3
<1>9. ASSUME agentPaused'[s] PROVE Later(toAgent', 0, s)
  <2>1. CASE s = f.s
    <3>1. f = Ctl("PAUSE", s)
      BY <1>4, <1>5, <1>9, <2>1
    <3>2. Later(toAgent, 1, s)
      BY <1>2, <3>1 DEF Heard
    <3> QED
      BY <1>6, <3>2
  <2>2. CASE s # f.s
    <3>1. Later(toAgent, 0, s)
      BY <1>5, <1>9, <2>2 DEF Heard
    <3> QED
      BY <1>4, <1>7, <2>2, <3>1
  <2> QED
    BY <2>1, <2>2
<1> QED
  BY <1>8, <1>9

LEMMA NextHeard ==
  ASSUME Carried, Flags, [Next]_vars, NEW s \in Streams, Heard(s)
  PROVE  Heard(s)'
<1>1. ASSUME UNCHANGED <<live, paused, appOpen, agentPaused, toAgent>> PROVE Heard(s)'
  BY <1>1, SameHeard
<1>2. CASE UNCHANGED vars
  BY <1>1, <1>2 DEF vars, socketVars, agentVars
<1>3. CASE \/ \E r \in Streams : AgentReads(r) \/ LocalTakes(r)
           \/ ClientHears \/ WriteDone
  BY <1>1, <1>3 DEF AgentReads, LocalTakes, ClientHears, WriteDone, socketVars, agentVars
<1>4. ASSUME NEW r \in Streams, AgentCloses(r) PROVE Heard(s)'
  <2>1. appOpen'[s] => appOpen[s]
    BY <1>4 DEF AgentCloses, Carried
  <2> QED
    BY <1>4, <2>1, SameHeard DEF AgentCloses, socketVars
<1>5. CASE AgentHears
  BY <1>5, AgentHeard
<1>6. CASE Callback
  <2> DEFINE c == Head(callbacks).s
  <2>1. c \in Streams
    BY <1>6, FrameKinds DEF Callback, Carried
  <2>2. UNCHANGED <<live, appOpen, agentPaused>>
    BY <1>6 DEF Callback, agentVars
  <2>3. Resume(c) \/ UNCHANGED <<paused, toAgent>>
    BY <1>6 DEF Callback
  <2> QED
    BY <1>1, <2>1, <2>2, <2>3, ResumeHeard
<1>7. CASE ServerHearsClient
  <2> DEFINE c == Head(fromClient).s
  <2>1. c \in Streams
    <3>1. Head(fromClient) \in ClientFrame
      BY <1>7 DEF ServerHearsClient, Carried
    <3> QED
      BY <3>1 DEF ClientFrame
  <2>2. UNCHANGED <<live, appOpen, agentPaused>>
    BY <1>7 DEF ServerHearsClient, agentVars, socketVars, PeerPauses, PeerResumes
  <2>3. Pause(c) \/ Resume(c) \/ UNCHANGED <<paused, toAgent>>
    BY <1>7 DEF ServerHearsClient, socketVars, PeerPauses, PeerResumes
  <2> QED
    BY <1>1, <2>1, <2>2, <2>3, PauseHeard, ResumeHeard
<1>8. CASE ServerHearsAgent
  <2> DEFINE f == Head(fromAgent)
  <2>1. f.s \in Streams
    BY <1>8, FrameKinds DEF ServerHearsAgent, Carried
  <2>2. UNCHANGED <<appOpen, agentPaused>>
    BY <1>8 DEF ServerHearsAgent, agentVars
  <2>3. CASE toAgent' = Append(toAgent, Ctl("TCP_ABORT", f.s)) /\ UNCHANGED <<live, paused>>
    <3>1. Ctl("TCP_ABORT", f.s) \in FlowFrame /\ Ctl("TCP_ABORT", f.s) # Ctl("PAUSE", s)
      BY <2>1, FrameKinds DEF Ctl
    <3> QED
      BY <2>2, <2>3, <3>1, PostHeard
  <2>4. CASE Ends(f.s, <<>>) \/ Ends(f.s, <<Ctl("TCP_ABORT", f.s)>>)
    BY <2>1, <2>2, <2>4, EndsHeard
  <2>5. CASE UNCHANGED live /\ (Pause(f.s) \/ UNCHANGED <<paused, toAgent>>)
    BY <1>1, <2>1, <2>2, <2>5, PauseHeard
  <2> QED
    BY <1>8, <2>3, <2>4, <2>5 DEF ServerHearsAgent, PushInbound, DataEvent, socketVars
<1> QED
  BY <1>2, <1>3, <1>4, <1>5, <1>6, <1>7, <1>8 DEF Next

(* An agent whose virtual socket reads has heard, or will hear, RESUME after *)
(* every PAUSE (VirtualSocket.pause, resume and their frames).               *)
THEOREM AgentsResumed == Spec => []NotLeftPaused
<1> DEFINE Inv == Carried /\ Reasoned /\ \A s \in Streams : Heard(s)
<1>1. Init => Inv
  <2>1. Init => \A s \in Streams : Heard(s)
    BY DEF Init, Heard
  <2> QED
    BY <2>1, InitCarried DEF Init, Flags, Reasoned, PausedForReason
<1>2. ASSUME Inv, [Next]_vars PROVE Inv'
  <2>1. Carried' /\ Reasoned'
    BY <1>2, NextCarried, NextReasoned
  <2>2. \A s \in Streams : Heard(s)'
    BY <1>2, NextHeard DEF Reasoned
  <2> QED
    BY <2>1, <2>2
<1>3. Inv => NotLeftPaused
  BY DEF Heard, Later, NotLeftPaused, Told
<1> QED
  BY <1>1, <1>2, <1>3, PTL DEF Spec

-----------------------------------------------------------------------------
(* The WebSocket's buffer.                                                  *)

Weight(q) == Cardinality(DataIn(q))

(* What a sequence of frames weighs. *)
LEMMA WeightType ==
  ASSUME NEW q \in Seq(FlowFrame)
  PROVE  /\ IsFiniteSet(DataIn(q)) /\ Weight(q) \in Nat /\ Weight(q) <= Len(q)
         /\ (\A k \in DOMAIN q : q[k].type # "TCP_DATA") => Weight(q) = 0
<1>1. DOMAIN q = 1 .. Len(q) /\ Len(q) \in Nat
  OBVIOUS
<1>2. IsFiniteSet(1 .. Len(q)) /\ Cardinality(1 .. Len(q)) = Len(q)
  <2>1. 1 \in Int /\ Len(q) \in Int /\ Len(q) >= 0
    BY <1>1
  <2>2. /\ IsFiniteSet(1 .. Len(q))
        /\ Cardinality(1 .. Len(q)) = IF 1 > Len(q) THEN 0 ELSE Len(q) - 1 + 1
    BY <2>1, FS_Interval
  <2> QED
    BY <2>1, <2>2
<1>3. DataIn(q) \in SUBSET (1 .. Len(q))
  BY <1>1 DEF DataIn
<1>4. IsFiniteSet(DataIn(q)) /\ Cardinality(DataIn(q)) <= Len(q)
  BY <1>2, <1>3, FS_Subset
<1>5. Cardinality(DataIn(q)) \in Nat
  BY <1>4, FS_CardinalityType
<1>6. (\A k \in DOMAIN q : q[k].type # "TCP_DATA") => DataIn(q) = {}
  BY DEF DataIn
<1> QED
  BY <1>4, <1>5, <1>6, FS_EmptySet DEF Weight

(* Two sequences weigh no less than their concatenation. *)
LEMMA WeightConcat ==
  ASSUME NEW p \in Seq(FlowFrame), NEW q \in Seq(FlowFrame)
  PROVE  Weight(p \o q) <= Weight(p) + Weight(q)
<1> DEFINE shifted == {Len(p) + k : k \in DataIn(q)}
<1>1. IsFiniteSet(DataIn(p)) /\ IsFiniteSet(DataIn(q)) /\ Weight(p) \in Nat /\ Weight(q) \in Nat
  BY WeightType
<1>2. IsFiniteSet(shifted) /\ Cardinality(shifted) <= Cardinality(DataIn(q))
  <2> DEFINE f == [k \in DataIn(q) |-> Len(p) + k]
  <2>1. f \in Surjection(DataIn(q), shifted)
    BY DEF Surjection
  <2> QED
    BY <1>1, <2>1, FS_Surjection
<1>3. DataIn(p \o q) \in SUBSET (DataIn(p) \cup shifted)
  <2> SUFFICES ASSUME NEW k \in DataIn(p \o q), k \notin DataIn(p)
               PROVE  k \in shifted
    OBVIOUS
  <2>1. k \in 1 .. Len(p) + Len(q) /\ (p \o q)[k].type = "TCP_DATA"
    BY DEF DataIn
  <2>2. Len(p) \in Nat /\ Len(q) \in Nat /\ DOMAIN p = 1 .. Len(p) /\ DOMAIN q = 1 .. Len(q)
    OBVIOUS
  <2>3. CASE k <= Len(p)
    <3>1. (p \o q)[k] = p[k] /\ k \in DOMAIN p
      BY <2>1, <2>2, <2>3
    <3> QED
      BY <2>1, <3>1 DEF DataIn
  <2>4. CASE k > Len(p)
    <3>1. (p \o q)[k] = q[k - Len(p)] /\ k - Len(p) \in DOMAIN q /\ k = Len(p) + (k - Len(p))
      BY <2>1, <2>2, <2>4
    <3>2. k - Len(p) \in DataIn(q)
      BY <2>1, <3>1 DEF DataIn
    <3> QED
      BY <3>1, <3>2
  <2> QED
    BY <2>1, <2>2, <2>3, <2>4
<1> HIDE DEF shifted
<1>4. /\ IsFiniteSet(DataIn(p) \cup shifted)
      /\ Cardinality(DataIn(p) \cup shifted) =
           Cardinality(DataIn(p)) + Cardinality(shifted) - Cardinality(DataIn(p) \cap shifted)
  BY <1>1, <1>2, FS_Union
<1>5. Cardinality(DataIn(p) \cap shifted) \in Nat
  BY <1>1, FS_Intersection, FS_CardinalityType
<1>6. Cardinality(DataIn(p \o q)) <= Cardinality(DataIn(p) \cup shifted)
  BY <1>3, <1>4, FS_Subset
<1>7. IsFiniteSet(DataIn(p \o q)) /\ Cardinality(DataIn(p \o q)) \in Nat
  BY <1>3, <1>4, FS_Subset, FS_CardinalityType
<1>8. Cardinality(shifted) \in Nat
  BY <1>2, FS_CardinalityType
<1> QED
  BY <1>1, <1>2, <1>4, <1>5, <1>6, <1>7, <1>8 DEF Weight

Idle(fs) == \A k \in DOMAIN fs : fs[k].type # "TCP_DATA"

(* A send adds to the buffer no more than its frames; control frames weigh  *)
(* nothing.                                                                 *)
LEMMA SendsWeight ==
  ASSUME Carried, NEW fs \in Seq(FlowFrame), Sends(fs)
  PROVE  /\ bufferedAmount \in Nat /\ bufferedAmount' \in Nat
         /\ bufferedAmount' <= bufferedAmount + Len(fs)
         /\ Idle(fs) => bufferedAmount' <= bufferedAmount
<1>1. inflight \in Seq(FlowFrame) /\ waiting \in Seq(FlowFrame)
  BY DEF Carried
<1>2. /\ bufferedAmount = Weight(inflight) + Weight(waiting)
      /\ bufferedAmount' = Weight(inflight') + Weight(waiting')
      /\ Weight(inflight) \in Nat /\ Weight(waiting) \in Nat /\ Len(fs) \in Nat
  BY <1>1, WeightType DEF bufferedAmount, Weight, DataIn
<1>3. Weight(fs) \in Nat /\ Weight(fs) <= Len(fs) /\ (Idle(fs) => Weight(fs) = 0)
  BY WeightType DEF Idle
<1>4. CASE inflight = <<>> /\ fs # <<>>
  <2>1. inflight' = <<Head(fs)>> /\ waiting' = Tail(fs)
    BY <1>4 DEF Sends
  <2>2. /\ <<Head(fs)>> \in Seq(FlowFrame) /\ Tail(fs) \in Seq(FlowFrame)
        /\ Len(<<Head(fs)>>) = 1 /\ Len(Tail(fs)) = Len(fs) - 1
    BY <1>4
  <2>3. Idle(fs) => Idle(<<Head(fs)>>) /\ Idle(Tail(fs))
    BY <1>4 DEF Idle
  <2>4. /\ Weight(<<Head(fs)>>) \in Nat /\ Weight(<<Head(fs)>>) <= 1
        /\ Weight(Tail(fs)) \in Nat /\ Weight(Tail(fs)) <= Len(fs) - 1
        /\ Idle(fs) => Weight(<<Head(fs)>>) = 0 /\ Weight(Tail(fs)) = 0
    BY <2>2, <2>3, WeightType DEF Idle
  <2> QED
    BY <1>2, <2>1, <2>4
<1>5. CASE ~(inflight = <<>> /\ fs # <<>>)
  <2>1. inflight' = inflight /\ waiting' = waiting \o fs
    BY <1>5 DEF Sends
  <2>2. Weight(waiting \o fs) <= Weight(waiting) + Weight(fs) /\ Weight(waiting \o fs) \in Nat
    <3>1. waiting \o fs \in Seq(FlowFrame)
      BY <1>1
    <3> QED
      BY <1>1, <3>1, WeightConcat, WeightType
  <2> QED
    BY <1>2, <1>3, <2>1, <2>2
<1> QED
  BY <1>4, <1>5

(* Streams that may have sent all they could on top of a full buffer: those *)
(* it has paused and those that are over.                                   *)
Spent == {s \in Streams : ~live[s] \/ localPausedForWs[s]}
Burst == IF MaxDest > 1 THEN MaxDest ELSE 1

WsFilled == bufferedAmount <= High + Cardinality(Spent) * Burst

(* The arithmetic of the bound. *)
LEMMA Bursts ==
  ASSUME NEW S \in SUBSET Streams, NEW T \in SUBSET Streams, S \subseteq T
  PROVE  /\ Cardinality(S) \in Nat /\ Burst \in Nat /\ High \in Nat
         /\ High <= High + Cardinality(S) * Burst
         /\ High + Cardinality(S) * Burst <= High + Cardinality(T) * Burst
         /\ \A s \in T \ S : High + Cardinality(S) * Burst + Burst <= High + Cardinality(T) * Burst
<1>1. IsFiniteSet(S) /\ IsFiniteSet(T) /\ Cardinality(S) <= Cardinality(T)
  BY FS_Subset, FlowAssumption
<1>2. Cardinality(S) \in Nat /\ Cardinality(T) \in Nat
  BY <1>1, FS_CardinalityType
<1>3. Burst \in Nat /\ High \in Nat
  BY FlowAssumption DEF Burst
<1>4. \A s \in T \ S : Cardinality(S) + 1 <= Cardinality(T)
  <2> SUFFICES ASSUME NEW s \in T \ S PROVE Cardinality(S) + 1 <= Cardinality(T)
    OBVIOUS
  <2>1. Cardinality(S) = Cardinality(T) => S = T
    BY <1>1, FS_Subset
  <2> QED
    BY <1>1, <1>2, <2>1
<1>5. \A a, b, m \in Nat : a <= b => 0 <= a * m /\ a * m <= b * m
  OBVIOUS
<1>6. \A a, m \in Nat : (a + 1) * m = a * m + m /\ a * m \in Nat
  OBVIOUS
<1>7. 0 <= Cardinality(S) * Burst /\ Cardinality(S) * Burst <= Cardinality(T) * Burst
  BY <1>1, <1>2, <1>3, <1>5
<1>8. \A s \in T \ S : Cardinality(S) * Burst + Burst <= Cardinality(T) * Burst
  <2> SUFFICES ASSUME NEW s \in T \ S
               PROVE  Cardinality(S) * Burst + Burst <= Cardinality(T) * Burst
    OBVIOUS
  <2>1. Cardinality(S) + 1 \in Nat /\ Cardinality(S) + 1 <= Cardinality(T)
    BY <1>2, <1>4
  <2> QED
    BY <1>2, <1>3, <1>5, <1>6, <2>1
<1>9. Cardinality(S) * Burst \in Nat /\ Cardinality(T) * Burst \in Nat
  BY <1>2, <1>3, <1>6
<1> HIDE DEF Burst
<1> QED
  BY <1>2, <1>3, <1>7, <1>8, <1>9

(* The ways a step keeps the bound. *)
LEMMA FilledBy ==
  ASSUME WsFilled, bufferedAmount \in Nat, bufferedAmount' \in Nat,
         \/ bufferedAmount' <= High
         \/ Spent \subseteq Spent' /\ bufferedAmount' <= bufferedAmount
         \/ Spent \subseteq Spent' /\ Spent # Spent' /\ bufferedAmount' <= bufferedAmount + Burst
         \/ Spent' # {} /\ bufferedAmount' <= High + Burst
  PROVE  WsFilled'
<1> DEFINE S == Spent
           T == Spent'
           Top(R) == High + Cardinality(R) * Burst
<1>1. S \in SUBSET Streams /\ T \in SUBSET Streams /\ {} \in SUBSET Streams
  BY DEF Spent
<1>2. WsFilled' <=> bufferedAmount' <= Top(T)
  BY DEF WsFilled
<1>3. /\ Burst \in Nat /\ High \in Nat /\ Cardinality(S) \in Nat /\ Cardinality(T) \in Nat
      /\ Top(S) \in Nat /\ Top(T) \in Nat
  BY <1>1, Bursts
<1>4. bufferedAmount <= Top(S)
  BY DEF WsFilled
<1> HIDE DEF S, T
<1>5. CASE bufferedAmount' <= High
  BY <1>1, <1>2, <1>3, <1>5, Bursts
<1>6. CASE S \subseteq T /\ bufferedAmount' <= bufferedAmount
  <2>1. Top(S) <= Top(T)
    BY <1>1, <1>6, Bursts
  <2> HIDE DEF Top
  <2> QED
    BY <1>2, <1>3, <1>4, <1>6, <2>1
<1>7. CASE S \subseteq T /\ S # T /\ bufferedAmount' <= bufferedAmount + Burst
  <2>1. PICK s \in T \ S : TRUE
    BY <1>7
  <2>2. Top(S) + Burst <= Top(T)
    BY <1>1, <1>7, <2>1, Bursts
  <2> HIDE DEF Top
  <2> QED
    BY <1>2, <1>3, <1>4, <1>7, <2>2
<1>8. CASE T # {} /\ bufferedAmount' <= High + Burst
  <2>1. PICK s \in T \ {} : TRUE
    BY <1>8
  <2>2. High + Cardinality({}) * Burst + Burst <= Top(T)
    BY <1>1, <2>1, Bursts
  <2>3. Cardinality({}) = 0 /\ 0 * Burst = 0
    BY <1>3, FS_EmptySet
  <2> HIDE DEF Top
  <2> QED
    BY <1>2, <1>3, <1>8, <2>2, <2>3
<1> QED
  BY <1>5, <1>6, <1>7, <1>8 DEF S, T

(* A chunk reaches the WebSocket: the one that fills it pauses its stream. *)
LEMMA DataFilled ==
  ASSUME Carried, Flags, WsFilled, NEW s \in Streams, live[s], ~localPausedForWs[s],
         NEW n \in Chunk, DataEvent(s, n), UNCHANGED live
  PROVE  WsFilled'
<1>1. <<Data(s, n)>> \in Seq(FlowFrame) /\ Len(<<Data(s, n)>>) = 1 /\ Len(<<n>>) = 1 /\ <<n>> # <<>>
  BY FrameKinds
<1>2. /\ bufferedAmount \in Nat /\ bufferedAmount' \in Nat
      /\ bufferedAmount' <= bufferedAmount + 1
  BY <1>1, SendsWeight DEF DataEvent
<1>3. Burst \in Nat /\ Burst >= 1 /\ High \in Nat
  BY FlowAssumption DEF Burst
<1>4. CASE OverHigh(<<n>>)
  <2>1. localPausedForWs' = [localPausedForWs EXCEPT ![s] = TRUE]
    BY <1>4 DEF DataEvent
  <2>2. Spent \subseteq Spent' /\ s \in Spent' /\ s \notin Spent
    BY <2>1 DEF Spent, Flags
  <2> QED
    BY <1>2, <1>3, <2>2, FilledBy
<1>5. CASE ~OverHigh(<<n>>)
  <2>1. bufferedAmount + 1 <= High
    BY <1>1, <1>2, <1>3, <1>5 DEF OverHigh
  <2> QED
    BY <1>2, <1>3, <2>1, FilledBy
<1> QED
  BY <1>4, <1>5

(* A stream that resumes: no reason is left, or the buffer is nearly empty. *)
LEMMA ResumeFilled ==
  ASSUME Carried, Flags, WsFilled, NEW s \in Streams, Resume(s), UNCHANGED live,
         bufferedAmount <= Low \/ (live[s] /\ ~localPausedForWs[s])
  PROVE  WsFilled'
<1>1. held[s] \in Seq(Chunk) /\ Len(held[s]) <= MaxDest /\ Len(held[s]) \in Nat
  BY DEF Carried
<1>2. Chunks(s, held[s]) \in Seq(FlowFrame) /\ Len(Chunks(s, held[s])) = Len(held[s])
  <2>1. DOMAIN Chunks(s, held[s]) = 1 .. Len(held[s])
    BY <1>1 DEF Chunks
  <2> QED
    BY <1>1, <2>1, ChunksType
<1>3. /\ bufferedAmount \in Nat /\ bufferedAmount' \in Nat
      /\ bufferedAmount' <= bufferedAmount + Len(held[s])
  BY <1>2, SendsWeight DEF Resume
<1>4. Burst \in Nat /\ Len(held[s]) <= Burst /\ High \in Nat /\ Low \in Nat /\ Low < High
  BY <1>1, FlowAssumption DEF Burst
<1>5. CASE OverHigh(held[s])
  <2>1. localPausedForWs' = [localPausedForWs EXCEPT ![s] = TRUE]
    BY <1>5 DEF Resume
  <2>2. Spent \subseteq Spent' /\ s \in Spent'
    BY <2>1 DEF Spent, Flags
  <2>3. CASE bufferedAmount <= Low
    <3>1. Spent' # {} /\ bufferedAmount' <= High + Burst
      BY <1>3, <1>4, <2>2, <2>3
    <3> QED
      BY <1>3, <3>1, FilledBy
  <2>4. CASE live[s] /\ ~localPausedForWs[s]
    <3>1. s \notin Spent
      BY <2>4 DEF Spent
    <3>2. bufferedAmount' <= bufferedAmount + Burst
      BY <1>1, <1>3, <1>4
    <3> QED
      BY <1>3, <2>2, <3>1, <3>2, FilledBy
  <2> QED
    BY <2>3, <2>4
<1>6. CASE ~OverHigh(held[s])
  <2>1. CASE held[s] = <<>>
    <3>1. bufferedAmount' <= bufferedAmount
      <4>1. Len(held[s]) = 0
        BY <1>1, <2>1
      <4> QED
        BY <1>3, <4>1
    <3>2. localPausedForWs' = [localPausedForWs EXCEPT ![s] = FALSE]
      <4>1. OverHigh(held[s]) = FALSE
        BY <1>6 DEF OverHigh
      <4> QED
        BY <4>1 DEF Resume
    <3>3. CASE bufferedAmount <= Low
      <4>1. bufferedAmount' <= High
        BY <1>3, <1>4, <3>1, <3>3
      <4> QED
        BY <1>3, <4>1, FilledBy
    <3>4. CASE live[s] /\ ~localPausedForWs[s]
      <4>1. Spent \subseteq Spent'
        BY <3>2, <3>4 DEF Spent, Flags
      <4> QED
        BY <1>3, <3>1, <4>1, FilledBy
    <3> QED
      BY <3>3, <3>4
  <2>2. CASE held[s] # <<>>
    <3>1. bufferedAmount + Len(held[s]) <= High
      BY <1>1, <1>3, <1>4, <1>6, <2>2 DEF OverHigh
    <3>2. bufferedAmount' <= High
      BY <1>1, <1>3, <1>4, <3>1
    <3> QED
      BY <1>3, <3>2, FilledBy
  <2> QED
    BY <2>1, <2>2
<1> QED
  BY <1>5, <1>6

(* The end of a stream. *)
LEMMA EndsFilled ==
  ASSUME Carried, Flags, WsFilled, NEW s \in Streams, NEW toA, Ends(s, toA)
  PROVE  WsFilled'
<1>1. <<Ctl("TCP_CLOSE", s)>> \in Seq(FlowFrame) /\ Idle(<<Ctl("TCP_CLOSE", s)>>)
  <2>1. Ctl("TCP_CLOSE", s) \in FlowFrame
    BY FrameKinds
  <2>2. Ctl("TCP_CLOSE", s).type # "TCP_DATA"
    BY DEF Ctl
  <2> HIDE DEF Ctl
  <2> QED
    BY <2>1, <2>2 DEF Idle
<1>2. /\ bufferedAmount \in Nat /\ bufferedAmount' \in Nat
      /\ bufferedAmount' <= bufferedAmount
  BY <1>1, SendsWeight DEF Ends
<1>3. Spent \subseteq Spent'
  BY DEF Ends, Spent, Flags
<1> QED
  BY <1>2, <1>3, FilledBy

LEMMA NextFilled ==
  ASSUME Carried, Reasoned, WsFilled, [Next]_vars
  PROVE  WsFilled'
<1>1. ASSUME UNCHANGED <<live, localPausedForWs, inflight, waiting>> PROVE WsFilled'
  BY <1>1 DEF WsFilled, Spent, bufferedAmount, DataIn
<1>2. CASE UNCHANGED vars
  BY <1>1, <1>2 DEF vars, socketVars, reasons, wsVars
<1>3. CASE \/ \E s \in Streams : AgentReads(s) \/ AgentCloses(s) \/ LocalTakes(s)
           \/ AgentHears \/ ClientHears
  BY <1>1, <1>3 DEF AgentReads, AgentCloses, LocalTakes, AgentHears, ClientHears,
                    socketVars, reasons, wsVars
<1>4. CASE WriteDone
  <2>1. inflight' = waiting /\ waiting' = <<>> /\ UNCHANGED <<live, localPausedForWs>>
    BY <1>4 DEF WriteDone, socketVars, reasons
  <2>2. /\ inflight \in Seq(FlowFrame) /\ waiting \in Seq(FlowFrame) /\ <<>> \in Seq(FlowFrame)
        /\ Len(<<>>) = 0
    BY DEF Carried
  <2>3. /\ Weight(inflight) \in Nat /\ Weight(waiting) \in Nat
        /\ Weight(<<>>) \in Nat /\ Weight(<<>>) <= 0
    BY <2>2, WeightType
  <2>4. /\ bufferedAmount = Weight(inflight) + Weight(waiting)
        /\ bufferedAmount' = Weight(waiting) + Weight(<<>>)
    BY <2>1 DEF bufferedAmount, Weight, DataIn
  <2>5. Spent' = Spent
    BY <2>1 DEF Spent
  <2> QED
    BY <2>3, <2>4, <2>5, FilledBy
<1>5. CASE Callback
  <2> DEFINE s == Head(callbacks).s
  <2>1. s \in Streams
    <3>1. Head(callbacks) \in FlowFrame
      BY <1>5 DEF Callback, Carried
    <3> QED
      BY <3>1, FrameKinds
  <2>2. CASE UNCHANGED <<localPausedForWs, inflight, waiting>>
    BY <1>1, <1>5, <2>2 DEF Callback
  <2>3. CASE bufferedAmount <= Low /\ UNCHANGED <<inflight, waiting>>
    <3>1. inflight \in Seq(FlowFrame) /\ waiting \in Seq(FlowFrame)
      BY DEF Carried
    <3>2. bufferedAmount \in Nat /\ bufferedAmount' = bufferedAmount
      BY <2>3, <3>1, WeightType DEF bufferedAmount, Weight, DataIn
    <3>3. bufferedAmount' <= High
      BY <2>3, <3>2, FlowAssumption
    <3> QED
      BY <3>2, <3>3, FilledBy
  <2>4. CASE bufferedAmount <= Low /\ Resume(s)
    <3>1. Flags
      BY DEF Reasoned
    <3>2. UNCHANGED live
      BY <1>5 DEF Callback
    <3> QED
      BY <2>1, <2>4, <3>1, <3>2, ResumeFilled
  <2> QED
    BY <1>5, <2>2, <2>3, <2>4 DEF Callback
<1>6. CASE ServerHearsClient
  <2> DEFINE s == Head(fromClient).s
  <2>1. s \in Streams
    <3>1. Head(fromClient) \in ClientFrame
      BY <1>6 DEF ServerHearsClient, Carried
    <3> QED
      BY <3>1 DEF ClientFrame
  <2>2. CASE UNCHANGED <<live, localPausedForWs, inflight, waiting>>
    BY <1>1, <2>2
  <2>3. CASE live[s] /\ ~localPausedForWs[s] /\ Resume(s) /\ UNCHANGED live
    BY <2>1, <2>3, ResumeFilled DEF Reasoned
  <2> QED
    BY <1>6, <2>2, <2>3 DEF ServerHearsClient, PeerPauses, PeerResumes, socketVars, reasons
<1>7. CASE ServerHearsAgent
  <2> DEFINE f == Head(fromAgent)
  <2>1. f.s \in Streams /\ (f.type = "TCP_DATA" => f.n \in Chunk)
    <3>1. f \in FlowFrame
      BY <1>7 DEF ServerHearsAgent, Carried
    <3> HIDE DEF f
    <3> QED
      BY <3>1, FrameKinds
  <2>2. CASE UNCHANGED <<live, localPausedForWs, inflight, waiting>>
    BY <1>1, <2>2
  <2>3. ASSUME live[f.s], ~paused[f.s], f.type = "TCP_DATA", DataEvent(f.s, f.n), UNCHANGED live
        PROVE  WsFilled'
    <3>1. ~localPausedForWs[f.s]
      BY <2>1, <2>3 DEF Reasoned, PausedForReason
    <3> QED
      BY <2>1, <2>3, <3>1, DataFilled DEF Reasoned
  <2>4. ASSUME NEW toA, Ends(f.s, toA) PROVE WsFilled'
    BY <2>1, <2>4, EndsFilled DEF Reasoned
  <2> QED
    BY <1>7, <2>2, <2>3, <2>4 DEF ServerHearsAgent, PushInbound, socketVars, reasons
<1> QED
  BY <1>2, <1>3, <1>4, <1>5, <1>6, <1>7 DEF Next

(* The server holds no more for a tunnel client than the high mark and a    *)
(* burst of each stream, whatever agents send and however slowly the client *)
(* reads (TcpFlowControl: the pause before the buffer overflows, and the    *)
(* low mark before a stream may flush what it holds).                       *)
THEOREM WebSocketBounded == Spec => []WsBounded
<1> DEFINE Inv == Carried /\ Reasoned /\ WsFilled
<1>1. Init => Inv
  <2>1. ASSUME Init PROVE WsFilled
    <3>1. Weight(<<>>) = 0
      <4>1. <<>> \in Seq(FlowFrame) /\ Len(<<>>) = 0
        OBVIOUS
      <4>2. Weight(<<>>) \in Nat /\ Weight(<<>>) <= Len(<<>>)
        BY <4>1, WeightType
      <4> QED
        BY <4>1, <4>2
    <3>2. bufferedAmount = 0
      <4>1. bufferedAmount = Weight(<<>>) + Weight(<<>>)
        BY <2>1 DEF Init, bufferedAmount, Weight
      <4> QED
        BY <3>1, <4>1
    <3>3. Spent \in SUBSET Streams
      BY DEF Spent
    <3>4. /\ High \in Nat /\ High <= High + Cardinality(Spent) * Burst
          /\ Cardinality(Spent) \in Nat /\ Burst \in Nat
      BY <3>3, Bursts
    <3> QED
      BY <3>2, <3>4 DEF WsFilled
  <2> QED
    BY <2>1, InitCarried DEF Init, Flags, Reasoned, PausedForReason
<1>2. Inv /\ [Next]_vars => Inv'
  BY NextCarried, NextReasoned, NextFilled
<1>3. Inv => WsBounded
  <2> SUFFICES ASSUME Inv PROVE WsBounded
    OBVIOUS
  <2>1. Spent \in SUBSET Streams /\ Streams \in SUBSET Streams
    BY DEF Spent
  <2>2. /\ Cardinality(Spent) \in Nat /\ Cardinality(Streams) \in Nat
        /\ Burst \in Nat /\ High \in Nat
        /\ High + Cardinality(Spent) * Burst <= High + Cardinality(Streams) * Burst
    BY <2>1, Bursts
  <2>3. bufferedAmount \in Nat
    <3>1. inflight \in Seq(FlowFrame) /\ waiting \in Seq(FlowFrame)
      BY DEF Carried
    <3>2. Weight(inflight) \in Nat /\ Weight(waiting) \in Nat
      BY <3>1, WeightType
    <3> QED
      BY <3>2 DEF bufferedAmount, Weight
  <2>4. bufferedAmount <= High + Cardinality(Streams) * Burst
    BY <2>2, <2>3 DEF WsFilled
  <2> QED
    BY <2>4 DEF WsBounded, Burst
<1> QED
  BY <1>1, <1>2, <1>3, PTL DEF Spec

-----------------------------------------------------------------------------
(* Runs of chunks.                                                          *)

Mine(f, s) == f.type = "TCP_DATA" /\ f.s = s

(* A run, chunk by chunk. *)
LEMMA RunMeans ==
  ASSUME NEW q \in Seq(FlowFrame), NEW s, NEW lo \in Nat, NEW hi \in Nat
  PROVE  Run(q, s, lo, hi) <=>
           /\ \A k \in 1 .. Len(q) : Mine(q[k], s) => q[k].n \in lo + 1 .. hi
           /\ \A m \in lo + 1 .. hi : \E k \in 1 .. Len(q) : Mine(q[k], s) /\ q[k].n = m
           /\ \A j, k \in 1 .. Len(q) :
                Mine(q[j], s) /\ Mine(q[k], s) /\ j < k => q[j].n < q[k].n
<1>1. Of(q, s) = {k \in 1 .. Len(q) : Mine(q[k], s)}
  BY DEF Of, Mine
<1> HIDE DEF Mine
<1> QED
  BY <1>1 DEF Run

(* No chunk of the stream is a run of none. *)
LEMMA RunNone ==
  ASSUME NEW q \in Seq(FlowFrame), NEW s, NEW a \in Nat,
         \A k \in 1 .. Len(q) : ~Mine(q[k], s)
  PROVE  Run(q, s, a, a) /\ \A b \in Nat : a <= b /\ Run(q, s, a, b) => b = a
<1>1. Run(q, s, a, a)
  <2>1. a + 1 .. a = {}
    OBVIOUS
  <2>2. \A j, k \in 1 .. Len(q) : Mine(q[j], s) /\ Mine(q[k], s) /\ j < k => q[j].n < q[k].n
    OBVIOUS
  <2>3. \A m \in a + 1 .. a : \E k \in 1 .. Len(q) : Mine(q[k], s) /\ q[k].n = m
    BY <2>1
  <2> QED
    BY <2>2, <2>3, RunMeans
<1>2. \A b \in Nat : Run(q, s, a, b) /\ a <= b => b = a
  <2> SUFFICES ASSUME NEW b \in Nat, Run(q, s, a, b), a < b PROVE FALSE
    OBVIOUS
  <2>1. \A m \in a + 1 .. b : \E k \in 1 .. Len(q) : Mine(q[k], s)
    BY RunMeans
  <2>2. b \in a + 1 .. b
    OBVIOUS
  <2> QED
    BY <2>1, <2>2
<1> QED
  BY <1>1, <1>2

(* The next chunk alone. *)
LEMMA RunOne ==
  ASSUME NEW s \in Streams, NEW n \in Nat
  PROVE  <<Data(s, n + 1)>> \in Seq(FlowFrame) /\ Run(<<Data(s, n + 1)>>, s, n, n + 1)
<1> DEFINE f == Data(s, n + 1)
           q == <<f>>
<1>1. f \in FlowFrame /\ f.n = n + 1 /\ Mine(f, s)
  BY DEF FlowFrame, Data, Chunk, Mine
<1> HIDE DEF f
<1>2. q \in Seq(FlowFrame) /\ Len(q) = 1 /\ q[1] = f
  BY <1>1
<1> HIDE DEF q
<1>3. Run(q, s, n, n + 1)
  <2>1. n + 1 \in Nat /\ 1 .. Len(q) = {1} /\ n + 1 .. n + 1 = {n + 1}
    BY <1>2
  <2>2. \A k \in 1 .. Len(q) : Mine(q[k], s) => q[k].n \in n + 1 .. n + 1
    BY <1>1, <1>2, <2>1
  <2>3. \A m \in n + 1 .. n + 1 : \E k \in 1 .. Len(q) : Mine(q[k], s) /\ q[k].n = m
    BY <1>1, <1>2, <2>1
  <2>4. \A j, k \in 1 .. Len(q) : Mine(q[j], s) /\ Mine(q[k], s) /\ j < k => q[j].n < q[k].n
    BY <2>1
  <2> QED
    BY <1>2, <2>1, <2>2, <2>3, <2>4, RunMeans
<1> QED
  BY <1>2, <1>3 DEF q, f

(* Runs follow one another. *)
LEMMA RunConcat ==
  ASSUME NEW p \in Seq(FlowFrame), NEW q \in Seq(FlowFrame), NEW s,
         NEW a \in Nat, NEW b \in Nat, NEW c \in Nat, a <= b, b <= c,
         Run(p, s, a, b), Run(q, s, b, c)
  PROVE  Run(p \o q, s, a, c)
<1> DEFINE r == p \o q
<1>1. /\ r \in Seq(FlowFrame) /\ Len(r) = Len(p) + Len(q) /\ Len(p) \in Nat /\ Len(q) \in Nat
      /\ \A k \in 1 .. Len(p) : r[k] = p[k] /\ k \in 1 .. Len(r)
      /\ \A k \in 1 .. Len(q) : r[Len(p) + k] = q[k] /\ Len(p) + k \in 1 .. Len(r)
      /\ \A k \in 1 .. Len(r) : \/ k \in 1 .. Len(p)
                                \/ k - Len(p) \in 1 .. Len(q) /\ k = Len(p) + (k - Len(p))
  OBVIOUS
<1> HIDE DEF r
<1>2. /\ \A k \in 1 .. Len(p) : Mine(p[k], s) => p[k].n \in a + 1 .. b
      /\ \A m \in a + 1 .. b : \E k \in 1 .. Len(p) : Mine(p[k], s) /\ p[k].n = m
      /\ \A j, k \in 1 .. Len(p) : Mine(p[j], s) /\ Mine(p[k], s) /\ j < k => p[j].n < p[k].n
  BY RunMeans
<1>3. /\ \A k \in 1 .. Len(q) : Mine(q[k], s) => q[k].n \in b + 1 .. c
      /\ \A m \in b + 1 .. c : \E k \in 1 .. Len(q) : Mine(q[k], s) /\ q[k].n = m
      /\ \A j, k \in 1 .. Len(q) : Mine(q[j], s) /\ Mine(q[k], s) /\ j < k => q[j].n < q[k].n
  BY RunMeans
<1>4. \A k \in 1 .. Len(r) : Mine(r[k], s) => r[k].n \in a + 1 .. c
  <2> SUFFICES ASSUME NEW k \in 1 .. Len(r), Mine(r[k], s)
               PROVE  r[k].n \in a + 1 .. c
    OBVIOUS
  <2>1. CASE k \in 1 .. Len(p)
    <3>1. r[k] = p[k] /\ p[k].n \in a + 1 .. b
      BY <1>1, <1>2, <2>1
    <3> QED
      BY <3>1
  <2>2. CASE k - Len(p) \in 1 .. Len(q) /\ k = Len(p) + (k - Len(p))
    <3>1. r[k] = q[k - Len(p)] /\ q[k - Len(p)].n \in b + 1 .. c
      BY <1>1, <1>3, <2>2
    <3> QED
      BY <3>1
  <2> QED
    BY <1>1, <2>1, <2>2
<1>5. \A m \in a + 1 .. c : \E k \in 1 .. Len(r) : Mine(r[k], s) /\ r[k].n = m
  <2> SUFFICES ASSUME NEW m \in a + 1 .. c
               PROVE  \E k \in 1 .. Len(r) : Mine(r[k], s) /\ r[k].n = m
    OBVIOUS
  <2>1. CASE m \in a + 1 .. b
    BY <1>1, <1>2, <2>1
  <2>2. CASE m \in b + 1 .. c
    BY <1>1, <1>3, <2>2
  <2> QED
    BY <2>1, <2>2
<1>6. \A j, k \in 1 .. Len(r) : Mine(r[j], s) /\ Mine(r[k], s) /\ j < k => r[j].n < r[k].n
  <2> SUFFICES ASSUME NEW j \in 1 .. Len(r), NEW k \in 1 .. Len(r),
                      Mine(r[j], s), Mine(r[k], s), j < k
               PROVE  r[j].n < r[k].n
    OBVIOUS
  <2>1. CASE j \in 1 .. Len(p) /\ k \in 1 .. Len(p)
    BY <1>1, <1>2, <2>1
  <2>2. CASE j - Len(p) \in 1 .. Len(q) /\ k - Len(p) \in 1 .. Len(q)
    <3>1. j = Len(p) + (j - Len(p)) /\ k = Len(p) + (k - Len(p)) /\ j - Len(p) < k - Len(p)
      BY <1>1
    <3>2. r[j] = q[j - Len(p)] /\ r[k] = q[k - Len(p)]
      BY <1>1, <2>2, <3>1
    <3> QED
      BY <1>3, <2>2, <3>1, <3>2
  <2>3. CASE j \in 1 .. Len(p) /\ k - Len(p) \in 1 .. Len(q)
    <3>1. r[j] = p[j] /\ r[k] = q[k - Len(p)]
      <4>1. k = Len(p) + (k - Len(p))
        BY <1>1
      <4> QED
        BY <1>1, <2>3, <4>1
    <3>2. r[j].n \in a + 1 .. b /\ r[k].n \in b + 1 .. c
      BY <1>2, <1>3, <2>3, <3>1
    <3> QED
      BY <3>2
  <2> QED
    BY <1>1, <2>1, <2>2, <2>3
<1> QED
  BY <1>1, <1>4, <1>5, <1>6, RunMeans DEF r

(* The first frame leaves. *)
LEMMA RunTail ==
  ASSUME NEW q \in Seq(FlowFrame), q # <<>>, NEW s,
         NEW a \in Nat, NEW b \in Nat, a <= b, Run(q, s, a, b)
  PROVE  /\ Mine(Head(q), s) => /\ Head(q).n = a + 1 /\ a + 1 <= b
                                /\ Run(Tail(q), s, a + 1, b)
         /\ ~Mine(Head(q), s) => Run(Tail(q), s, a, b)
<1> DEFINE r == Tail(q)
<1>1. /\ r \in Seq(FlowFrame) /\ Len(r) = Len(q) - 1 /\ Len(q) \in Nat /\ Len(q) >= 1
      /\ Head(q) = q[1] /\ 1 \in 1 .. Len(q)
      /\ \A k \in 1 .. Len(r) : r[k] = q[k + 1] /\ k + 1 \in 1 .. Len(q)
      /\ \A k \in 1 .. Len(q) : k = 1 \/ (k - 1 \in 1 .. Len(r) /\ r[k - 1] = q[k] /\ 1 < k)
  OBVIOUS
<1> HIDE DEF r
<1>2. /\ \A k \in 1 .. Len(q) : Mine(q[k], s) => q[k].n \in a + 1 .. b
      /\ \A m \in a + 1 .. b : \E k \in 1 .. Len(q) : Mine(q[k], s) /\ q[k].n = m
      /\ \A j, k \in 1 .. Len(q) : Mine(q[j], s) /\ Mine(q[k], s) /\ j < k => q[j].n < q[k].n
  BY RunMeans
<1>3. \A j, k \in 1 .. Len(r) : Mine(r[j], s) /\ Mine(r[k], s) /\ j < k => r[j].n < r[k].n
  <2> SUFFICES ASSUME NEW j \in 1 .. Len(r), NEW k \in 1 .. Len(r),
                      Mine(r[j], s), Mine(r[k], s), j < k
               PROVE  r[j].n < r[k].n
    OBVIOUS
  <2>1. r[j] = q[j + 1] /\ r[k] = q[k + 1] /\ j + 1 < k + 1
    BY <1>1
  <2> QED
    BY <1>1, <1>2, <2>1
<1>4. CASE ~Mine(Head(q), s)
  <2>1. \A k \in 1 .. Len(r) : Mine(r[k], s) => r[k].n \in a + 1 .. b
    BY <1>1, <1>2
  <2>2. \A m \in a + 1 .. b : \E k \in 1 .. Len(r) : Mine(r[k], s) /\ r[k].n = m
    <3> SUFFICES ASSUME NEW m \in a + 1 .. b
                 PROVE  \E k \in 1 .. Len(r) : Mine(r[k], s) /\ r[k].n = m
      OBVIOUS
    <3>1. PICK k \in 1 .. Len(q) : Mine(q[k], s) /\ q[k].n = m
      BY <1>2
    <3>2. k - 1 \in 1 .. Len(r) /\ r[k - 1] = q[k]
      BY <1>1, <1>4, <3>1
    <3> QED
      BY <3>1, <3>2
  <2> QED
    BY <1>1, <1>3, <1>4, <2>1, <2>2, RunMeans DEF r
<1>5. CASE Mine(Head(q), s)
  <2>1. q[1].n \in a + 1 .. b /\ a + 1 \in a + 1 .. b
    BY <1>1, <1>2, <1>5
  <2>2. PICK k \in 1 .. Len(q) : Mine(q[k], s) /\ q[k].n = a + 1
    BY <1>2, <2>1
  <2>3. k = 1
    <3> SUFFICES ASSUME k # 1 PROVE FALSE
      OBVIOUS
    <3>1. 1 < k
      BY <1>1
    <3>2. q[1].n < a + 1
      BY <1>1, <1>2, <1>5, <2>2, <3>1
    <3> QED
      BY <2>1, <3>2
  <2>4. q[1].n = a + 1
    BY <2>2, <2>3
  <2>5. \A j \in 1 .. Len(r) : Mine(r[j], s) => r[j].n \in a + 1 + 1 .. b
    <3> SUFFICES ASSUME NEW j \in 1 .. Len(r), Mine(r[j], s)
                 PROVE  r[j].n \in a + 1 + 1 .. b
      OBVIOUS
    <3>1. r[j] = q[j + 1] /\ j + 1 \in 1 .. Len(q) /\ 1 < j + 1
      BY <1>1
    <3>2. r[j].n \in a + 1 .. b /\ q[1].n < r[j].n
      BY <1>1, <1>2, <1>5, <3>1
    <3> QED
      BY <2>4, <3>2
  <2>6. \A m \in a + 1 + 1 .. b : \E j \in 1 .. Len(r) : Mine(r[j], s) /\ r[j].n = m
    <3> SUFFICES ASSUME NEW m \in a + 1 + 1 .. b
                 PROVE  \E j \in 1 .. Len(r) : Mine(r[j], s) /\ r[j].n = m
      OBVIOUS
    <3>1. m \in a + 1 .. b /\ m # a + 1
      OBVIOUS
    <3>2. PICK j \in 1 .. Len(q) : Mine(q[j], s) /\ q[j].n = m
      BY <1>2, <3>1
    <3>3. j - 1 \in 1 .. Len(r) /\ r[j - 1] = q[j]
      BY <1>1, <2>4, <3>1, <3>2
    <3> QED
      BY <3>2, <3>3
  <2>7. a + 1 \in Nat /\ a + 1 <= b
    BY <2>1
  <2>8. Run(r, s, a + 1, b)
    BY <1>1, <1>3, <2>5, <2>6, <2>7, RunMeans
  <2> QED
    BY <1>1, <1>5, <2>4, <2>7, <2>8 DEF r
<1> QED
  BY <1>4, <1>5

(* Frames that are none of the stream's chunks make no difference. *)
LEMMA RunAppend ==
  ASSUME NEW p \in Seq(FlowFrame), NEW q \in Seq(FlowFrame), NEW s,
         \A k \in 1 .. Len(q) : ~Mine(q[k], s),
         NEW a \in Nat, NEW b \in Nat, a <= b, Run(p, s, a, b)
  PROVE  Run(p \o q, s, a, b)
<1>1. Run(q, s, b, b)
  BY RunNone
<1> QED
  BY <1>1, RunConcat

(* Numbers of one stream as frames. *)
LEMMA ChunksAre ==
  ASSUME NEW s \in Streams, NEW ns \in Seq(Chunk)
  PROVE  /\ Chunks(s, ns) \in Seq(FlowFrame) /\ Len(Chunks(s, ns)) = Len(ns)
         /\ \A k \in 1 .. Len(ns) : Chunks(s, ns)[k] = Data(s, ns[k])
         /\ \A r, k : r # s /\ k \in 1 .. Len(ns) => ~Mine(Chunks(s, ns)[k], r)
<1>1. DOMAIN Chunks(s, ns) = 1 .. Len(ns)
  BY DEF Chunks
<1>2. Chunks(s, ns) \in Seq(FlowFrame)
  BY ChunksType
<1>3. \A k \in 1 .. Len(ns) : Chunks(s, ns)[k] = Data(s, ns[k])
  BY DEF Chunks
<1>4. \A r, k : r # s /\ k \in 1 .. Len(ns) => ~Mine(Chunks(s, ns)[k], r)
  <2> SUFFICES ASSUME NEW r, NEW k, r # s, k \in 1 .. Len(ns), Mine(Chunks(s, ns)[k], r)
               PROVE  FALSE
    OBVIOUS
  <2>1. Chunks(s, ns)[k] = Data(s, ns[k])
    BY <1>3
  <2>2. Data(s, ns[k]).s = s
    BY DEF Data
  <2> QED
    BY <2>1, <2>2 DEF Mine
<1> QED
  BY <1>1, <1>2, <1>3, <1>4

LEMMA ChunksEmpty ==
  ASSUME NEW s \in Streams
  PROVE  Chunks(s, <<>>) = <<>>
<1>1. <<>> \in Seq(Chunk) /\ Len(<<>>) = 0
  OBVIOUS
<1>2. Chunks(s, <<>>) \in Seq(FlowFrame) /\ Len(Chunks(s, <<>>)) = 0
  BY <1>1, ChunksAre
<1> QED
  BY <1>2

LEMMA ChunksAppend ==
  ASSUME NEW s \in Streams, NEW ns \in Seq(Chunk), NEW n \in Chunk
  PROVE  Chunks(s, Append(ns, n)) = Chunks(s, ns) \o <<Data(s, n)>>
<1> DEFINE p == Chunks(s, Append(ns, n))
           q == Chunks(s, ns)
           f == Data(s, n)
<1>1. /\ Append(ns, n) \in Seq(Chunk) /\ Len(Append(ns, n)) = Len(ns) + 1 /\ Len(ns) \in Nat
      /\ \A k \in 1 .. Len(ns) : Append(ns, n)[k] = ns[k]
      /\ Append(ns, n)[Len(ns) + 1] = n
  OBVIOUS
<1>2. /\ p \in Seq(FlowFrame) /\ Len(p) = Len(ns) + 1
      /\ \A k \in 1 .. Len(ns) + 1 : p[k] = Data(s, Append(ns, n)[k])
  BY <1>1, ChunksAre
<1>3. /\ q \in Seq(FlowFrame) /\ Len(q) = Len(ns)
      /\ \A k \in 1 .. Len(ns) : q[k] = Data(s, ns[k])
  BY ChunksAre
<1>4. f \in FlowFrame
  BY FrameKinds
<1>5. p[Len(ns) + 1] = f /\ \A k \in 1 .. Len(ns) : p[k] = q[k]
  <2>1. Len(ns) + 1 \in 1 .. Len(ns) + 1 /\ \A k \in 1 .. Len(ns) : k \in 1 .. Len(ns) + 1
    BY <1>1
  <2> HIDE DEF p, q
  <2> QED
    BY <1>1, <1>2, <1>3, <2>1
<1> HIDE DEF p, q, f
<1>6. /\ q \o <<f>> \in Seq(FlowFrame) /\ Len(q \o <<f>>) = Len(ns) + 1
      /\ \A k \in 1 .. Len(ns) + 1 : (q \o <<f>>)[k] = IF k <= Len(ns) THEN q[k] ELSE f
  BY <1>1, <1>3, <1>4
<1>7. p = q \o <<f>>
  <2>1. \A k \in 1 .. Len(ns) + 1 : k \in 1 .. Len(ns) \/ (k = Len(ns) + 1 /\ ~(k <= Len(ns)))
    BY <1>1
  <2>2. \A k \in 1 .. Len(ns) + 1 : p[k] = (q \o <<f>>)[k]
    BY <1>5, <1>6, <2>1
  <2> QED
    BY <1>2, <1>6, <2>2, SeqEqual
<1> QED
  BY <1>7 DEF p, q, f

LEMMA ChunksTail ==
  ASSUME NEW s \in Streams, NEW ns \in Seq(Chunk), ns # <<>>
  PROVE  /\ Chunks(s, ns) # <<>> /\ Head(Chunks(s, ns)) = Data(s, Head(ns))
         /\ Chunks(s, Tail(ns)) = Tail(Chunks(s, ns))
<1> DEFINE p == Chunks(s, Tail(ns))
           q == Chunks(s, ns)
<1>1. /\ Tail(ns) \in Seq(Chunk) /\ Len(Tail(ns)) = Len(ns) - 1 /\ Len(ns) \in Nat /\ Len(ns) >= 1
      /\ \A k \in 1 .. Len(ns) - 1 : Tail(ns)[k] = ns[k + 1]
      /\ Head(ns) = ns[1]
  OBVIOUS
<1>2. /\ p \in Seq(FlowFrame) /\ Len(p) = Len(ns) - 1
      /\ \A k \in 1 .. Len(ns) - 1 : p[k] = Data(s, Tail(ns)[k])
  BY <1>1, ChunksAre
<1>3. /\ q \in Seq(FlowFrame) /\ Len(q) = Len(ns)
      /\ \A k \in 1 .. Len(ns) : q[k] = Data(s, ns[k])
  BY ChunksAre
<1> HIDE DEF p, q
<1>4. /\ q # <<>> /\ Tail(q) \in Seq(FlowFrame) /\ Len(Tail(q)) = Len(ns) - 1 /\ Head(q) = q[1]
      /\ \A k \in 1 .. Len(ns) - 1 : Tail(q)[k] = q[k + 1]
  BY <1>1, <1>3
<1>5. Head(q) = Data(s, Head(ns))
  BY <1>1, <1>3, <1>4
<1>6. \A k \in 1 .. Len(ns) - 1 : p[k] = Tail(q)[k]
  BY <1>1, <1>2, <1>3, <1>4
<1>7. p = Tail(q)
  BY <1>1, <1>2, <1>4, <1>6, SeqEqual
<1> QED
  BY <1>4, <1>5, <1>7 DEF p, q

-----------------------------------------------------------------------------
(* Where the chunks of a stream are.                                        *)

Wire == link \o inflight \o waiting

Placed(s) ==
  clientOpen[s] =>
    \E a, b \in Nat :
      /\ taken[s] <= a /\ a <= b /\ b <= sent[s]
      /\ Run(Chunks(s, sink[s]), s, taken[s], a) /\ Run(Wire, s, a, b)
      /\ live[s] => \E c \in Nat :
           /\ b <= c /\ c <= sent[s]
           /\ Run(Chunks(s, held[s]), s, b, c) /\ Run(fromAgent, s, c, sent[s])

(* The WebSocket writes whenever there is something to write, and only a    *)
(* socket that is paused holds anything.                                    *)
Written == inflight = <<>> => waiting = <<>>
HeldPaused == \A s \in Streams : held[s] # <<>> => live[s] /\ paused[s]

Straight == Written /\ HeldPaused /\ \A s \in Streams : Placed(s)

LEMMA WireType ==
  ASSUME Carried
  PROVE  Wire \in Seq(FlowFrame) /\ fromAgent \in Seq(FlowFrame)
<1>1. link \in Seq(FlowFrame) /\ inflight \in Seq(FlowFrame) /\ waiting \in Seq(FlowFrame)
  BY DEF Carried
<1>2. link \o inflight \in Seq(FlowFrame)
  BY <1>1
<1> QED
  BY <1>1, <1>2 DEF Wire, Carried

(* What is sent goes on the wire behind the rest. *)
LEMMA SendsWire ==
  ASSUME Carried, Written, NEW fs \in Seq(FlowFrame), Sends(fs), UNCHANGED link
  PROVE  Wire' = Wire \o fs /\ Written'
<1>1. link \in Seq(FlowFrame) /\ inflight \in Seq(FlowFrame) /\ waiting \in Seq(FlowFrame)
  BY DEF Carried
<1>2. CASE inflight = <<>> /\ fs # <<>>
  <2>1. inflight' = <<Head(fs)>> /\ waiting' = Tail(fs) /\ waiting = <<>>
    BY <1>2 DEF Sends, Written
  <2>2. <<Head(fs)>> \in Seq(FlowFrame) /\ Tail(fs) \in Seq(FlowFrame) /\ <<Head(fs)>> \o Tail(fs) = fs
    BY <1>2
  <2>3. Wire = link
    BY <1>1, <1>2, <2>1, ConcatEmptySeq DEF Wire
  <2>4. link \o <<Head(fs)>> \o Tail(fs) = link \o (<<Head(fs)>> \o Tail(fs))
    BY <1>1, <2>2, ConcatAssociative
  <2>5. Wire' = link \o <<Head(fs)>> \o Tail(fs)
    BY <2>1 DEF Wire
  <2>6. inflight' # <<>>
    BY <2>1
  <2> QED
    BY <2>2, <2>3, <2>4, <2>5, <2>6 DEF Written
<1>3. CASE ~(inflight = <<>> /\ fs # <<>>)
  <2>1. inflight' = inflight /\ waiting' = waiting \o fs
    BY <1>3 DEF Sends
  <2>2. link \o inflight \in Seq(FlowFrame)
    BY <1>1
  <2>3. (link \o inflight) \o (waiting \o fs) = ((link \o inflight) \o waiting) \o fs
    BY <1>1, <2>2, ConcatAssociative
  <2>4. Wire' = Wire \o fs
    BY <2>1, <2>3 DEF Wire
  <2>5. inflight' = <<>> => waiting' = <<>>
    <3> SUFFICES ASSUME inflight' = <<>> PROVE waiting' = <<>>
      OBVIOUS
    <3>1. waiting = <<>> /\ fs = <<>>
      BY <1>3, <2>1 DEF Written
    <3> QED
      BY <1>1, <2>1, <3>1, ConcatEmptySeq
  <2> QED
    BY <2>4, <2>5 DEF Written
<1> QED
  BY <1>2, <1>3

(* Where they are after a step. *)
LEMMA PlacedAt ==
  ASSUME NEW s,
         clientOpen'[s] =>
           \E a, b \in Nat :
             /\ taken'[s] <= a /\ a <= b /\ b <= sent'[s]
             /\ Run(Chunks(s, sink'[s]), s, taken'[s], a) /\ Run(Wire', s, a, b)
             /\ live'[s] => \E c \in Nat :
                  /\ b <= c /\ c <= sent'[s]
                  /\ Run(Chunks(s, held'[s]), s, b, c) /\ Run(fromAgent', s, c, sent'[s])
  PROVE  Placed(s)'
  BY DEF Placed, Chunks, Run, Of, Data

(* What a step must keep for the chunks of a stream to stay where they are. *)
LEMMA StaysPlaced ==
  ASSUME NEW s \in Streams, Placed(s),
         clientOpen'[s] => clientOpen[s] /\ taken'[s] = taken[s] /\ sink'[s] = sink[s],
         sent'[s] = sent[s],
         \A a, b \in Nat : a <= b /\ Run(Wire, s, a, b) => Run(Wire', s, a, b),
         live'[s] => live[s] /\ held'[s] = held[s],
         live'[s] => \A a, b \in Nat : a <= b /\ Run(fromAgent, s, a, b) => Run(fromAgent', s, a, b),
         sent \in [Streams -> Nat]
  PROVE  Placed(s)'
<1> SUFFICES ASSUME clientOpen'[s]
             PROVE  \E a, b \in Nat :
               /\ taken'[s] <= a /\ a <= b /\ b <= sent'[s]
               /\ Run(Chunks(s, sink'[s]), s, taken'[s], a) /\ Run(Wire', s, a, b)
               /\ live'[s] => \E c \in Nat :
                    /\ b <= c /\ c <= sent'[s]
                    /\ Run(Chunks(s, held'[s]), s, b, c) /\ Run(fromAgent', s, c, sent'[s])
  BY PlacedAt
<1>1. PICK a \in Nat, b \in Nat :
        /\ taken[s] <= a /\ a <= b /\ b <= sent[s]
        /\ Run(Chunks(s, sink[s]), s, taken[s], a) /\ Run(Wire, s, a, b)
        /\ live[s] => \E c \in Nat :
             /\ b <= c /\ c <= sent[s]
             /\ Run(Chunks(s, held[s]), s, b, c) /\ Run(fromAgent, s, c, sent[s])
  BY DEF Placed
<1>2. Run(Wire', s, a, b)
  BY <1>1
<1>3. live'[s] => \E c \in Nat :
        /\ b <= c /\ c <= sent'[s]
        /\ Run(Chunks(s, held'[s]), s, b, c) /\ Run(fromAgent', s, c, sent'[s])
  BY <1>1
<1> QED
  BY <1>1, <1>2, <1>3

LEMMA SamePlaced ==
  ASSUME Carried, NEW s \in Streams, Placed(s), live'[s] => live[s],
         UNCHANGED <<clientOpen, taken, sink, sent, held, fromAgent, Wire>>
  PROVE  Placed(s)'
<1>1. \A a, b \in Nat : Run(Wire, s, a, b) => Run(Wire', s, a, b)
  BY DEF Run, Of
<1>2. \A a, b \in Nat : Run(fromAgent, s, a, b) => Run(fromAgent', s, a, b)
  BY DEF Run, Of
<1>3. sent \in [Streams -> Nat]
  BY DEF Carried
<1> QED
  BY <1>1, <1>2, <1>3, StaysPlaced

(* The application sends a chunk, or closes. *)
LEMMA ReadsPlaced ==
  ASSUME Carried, NEW r \in Streams, AgentReads(r) \/ AgentCloses(r),
         NEW s \in Streams, Placed(s)
  PROVE  Placed(s)'
<1>1. /\ UNCHANGED <<live, held, clientOpen, sink, taken>> /\ Wire' = Wire
      /\ sent \in [Streams -> Nat] /\ sent[r] \in Nat
  BY DEF AgentReads, AgentCloses, socketVars, wsVars, clientVars, Wire, Carried
<1>2. fromAgent \in Seq(FlowFrame)
  BY DEF Carried
<1>3. ASSUME NEW f \in FlowFrame, fromAgent' = Append(fromAgent, f), ~Mine(f, s), sent'[s] = sent[s]
      PROVE  Placed(s)'
  <2>1. /\ <<f>> \in Seq(FlowFrame) /\ fromAgent' = fromAgent \o <<f>>
        /\ \A k \in 1 .. Len(<<f>>) : ~Mine(<<f>>[k], s)
    <3>1. Len(<<f>>) = 1 /\ <<f>>[1] = f
      OBVIOUS
    <3> QED
      BY <1>2, <1>3, <3>1
  <2>2. \A a, b \in Nat : a <= b /\ Run(fromAgent, s, a, b) => Run(fromAgent', s, a, b)
    BY <1>2, <2>1, RunAppend
  <2> QED
    BY <1>1, <1>3, <2>2, StaysPlaced
<1>4. CASE AgentCloses(r)
  <2>1. Ctl("TCP_CLOSE", r) \in FlowFrame /\ ~Mine(Ctl("TCP_CLOSE", r), s)
    BY FrameKinds DEF Mine, Ctl
  <2> QED
    BY <1>3, <1>4, <2>1 DEF AgentCloses
<1>5. CASE AgentReads(r) /\ r # s
  <2>1. /\ sent'[s] = sent[s] /\ sent'[r] \in Chunk /\ fromAgent' = Append(fromAgent, Data(r, sent'[r]))
    BY <1>1, <1>5 DEF AgentReads, Chunk
  <2>2. Data(r, sent'[r]) \in FlowFrame
    BY <2>1, FrameKinds
  <2>3. ~Mine(Data(r, sent'[r]), s)
    BY <1>5 DEF Mine, Data
  <2> QED
    BY <1>3, <2>1, <2>2, <2>3
<1>6. CASE AgentReads(s)
  <2> DEFINE n == sent[s]
             fs == <<Data(s, n + 1)>>
  <2>1. n \in Nat /\ sent'[s] = n + 1 /\ fromAgent' = Append(fromAgent, Data(s, n + 1))
    BY <1>1, <1>6 DEF AgentReads
  <2>2. fs \in Seq(FlowFrame) /\ Run(fs, s, n, n + 1) /\ Data(s, n + 1) \in FlowFrame
    <3>1. n + 1 \in Chunk
      BY <2>1 DEF Chunk
    <3> QED
      BY <2>1, <3>1, RunOne, FrameKinds
  <2>3. fromAgent' = fromAgent \o fs
    BY <1>2, <2>1, <2>2
  <2> HIDE DEF fs
  <2> SUFFICES ASSUME clientOpen'[s]
               PROVE  \E a, b \in Nat :
                 /\ taken'[s] <= a /\ a <= b /\ b <= sent'[s]
                 /\ Run(Chunks(s, sink'[s]), s, taken'[s], a) /\ Run(Wire', s, a, b)
                 /\ live'[s] => \E c \in Nat :
                      /\ b <= c /\ c <= sent'[s]
                      /\ Run(Chunks(s, held'[s]), s, b, c) /\ Run(fromAgent', s, c, sent'[s])
    BY PlacedAt
  <2>4. PICK a \in Nat, b \in Nat :
          /\ taken[s] <= a /\ a <= b /\ b <= n
          /\ Run(Chunks(s, sink[s]), s, taken[s], a) /\ Run(Wire, s, a, b)
          /\ live[s] => \E c \in Nat :
               /\ b <= c /\ c <= n
               /\ Run(Chunks(s, held[s]), s, b, c) /\ Run(fromAgent, s, c, n)
    BY <1>1 DEF Placed
  <2>5. ASSUME NEW c \in Nat, c <= n, Run(fromAgent, s, c, n)
        PROVE  Run(fromAgent', s, c, n + 1)
    <3>1. n + 1 \in Nat /\ n <= n + 1
      BY <2>1
    <3> QED
      BY <1>2, <2>1, <2>2, <2>3, <2>5, <3>1, RunConcat
  <2>6. b <= n + 1 /\ \A c \in Nat : c <= n => c <= n + 1
    BY <2>1, <2>4
  <2> HIDE DEF n
  <2>7. live'[s] => \E c \in Nat :
          /\ b <= c /\ c <= sent'[s]
          /\ Run(Chunks(s, held'[s]), s, b, c) /\ Run(fromAgent', s, c, sent'[s])
    BY <1>1, <2>1, <2>4, <2>5, <2>6
  <2> QED
    BY <1>1, <2>1, <2>4, <2>6, <2>7
<1> QED
  BY <1>4, <1>5, <1>6

(* The local service receives the first chunk of its socket. *)
LEMMA TakesPlaced ==
  ASSUME Carried, NEW r \in Streams, LocalTakes(r), NEW s \in Streams, Placed(s)
  PROVE  Placed(s)'
<1>1. /\ UNCHANGED <<live, held, fromAgent, clientOpen, sent>> /\ Wire' = Wire
      /\ sent \in [Streams -> Nat] /\ taken \in [Streams -> Nat]
  BY DEF LocalTakes, agentVars, socketVars, wsVars, Wire, Carried
<1>2. CASE r # s
  <2>1. sink'[s] = sink[s] /\ taken'[s] = taken[s]
    BY <1>2 DEF LocalTakes, Carried
  <2>2. \A a, b \in Nat : Run(Wire, s, a, b) => Run(Wire', s, a, b)
    BY <1>1
  <2>3. \A a, b \in Nat : Run(fromAgent, s, a, b) => Run(fromAgent', s, a, b)
    BY <1>1
  <2> QED
    BY <1>1, <2>1, <2>2, <2>3, StaysPlaced
<1>3. CASE r = s
  <2> DEFINE p == Chunks(s, sink[s])
  <2>1. /\ sink[s] \in Seq(Chunk) /\ sink[s] # <<>> /\ taken[s] \in Nat
        /\ sink'[s] = Tail(sink[s]) /\ taken'[s] = Head(sink[s])
    BY <1>3 DEF LocalTakes, Carried
  <2>2. /\ p \in Seq(FlowFrame) /\ p # <<>> /\ Head(p) = Data(s, Head(sink[s]))
        /\ Chunks(s, sink'[s]) = Tail(p)
    BY <2>1, ChunksAre, ChunksTail
  <2>3. Mine(Head(p), s) /\ Head(p).n = taken'[s]
    BY <2>1, <2>2 DEF Mine, Data
  <2> HIDE DEF p
  <2> SUFFICES ASSUME clientOpen'[s]
               PROVE  \E a, b \in Nat :
                 /\ taken'[s] <= a /\ a <= b /\ b <= sent'[s]
                 /\ Run(Chunks(s, sink'[s]), s, taken'[s], a) /\ Run(Wire', s, a, b)
                 /\ live'[s] => \E c \in Nat :
                      /\ b <= c /\ c <= sent'[s]
                      /\ Run(Chunks(s, held'[s]), s, b, c) /\ Run(fromAgent', s, c, sent'[s])
    BY PlacedAt
  <2>4. PICK a \in Nat, b \in Nat :
          /\ taken[s] <= a /\ a <= b /\ b <= sent[s]
          /\ Run(p, s, taken[s], a) /\ Run(Wire, s, a, b)
          /\ live[s] => \E c \in Nat :
               /\ b <= c /\ c <= sent[s]
               /\ Run(Chunks(s, held[s]), s, b, c) /\ Run(fromAgent, s, c, sent[s])
    BY <1>1 DEF Placed, p
  <2>5. taken'[s] = taken[s] + 1 /\ taken[s] + 1 <= a /\ Run(Tail(p), s, taken[s] + 1, a)
    BY <2>1, <2>2, <2>3, <2>4, RunTail
  <2> QED
    BY <1>1, <2>2, <2>4, <2>5
<1> QED
  BY <1>2, <1>3

(* The client hears the first frame of the wire. *)
LEMMA ClientPlaced ==
  ASSUME Carried, ClientHears, NEW s \in Streams, Placed(s)
  PROVE  Placed(s)'
<1> DEFINE f == Head(link)
<1>1. /\ UNCHANGED <<live, held, fromAgent, sent, inflight, waiting>>
      /\ link # <<>> /\ link' = Tail(link) /\ sent \in [Streams -> Nat]
      /\ link \in Seq(FlowFrame) /\ inflight \in Seq(FlowFrame) /\ waiting \in Seq(FlowFrame)
  BY DEF ClientHears, agentVars, socketVars, wsVars, Carried
<1>2. Wire \in Seq(FlowFrame) /\ Wire # <<>> /\ Head(Wire) = f /\ Wire' = Tail(Wire)
  <2> DEFINE rest == inflight \o waiting
  <2>1. /\ rest \in Seq(FlowFrame) /\ Tail(link) \in Seq(FlowFrame)
        /\ Wire = link \o rest /\ Wire' = Tail(link) \o rest
    <3>1. rest \in Seq(FlowFrame) /\ Tail(link) \in Seq(FlowFrame)
      BY <1>1
    <3>2. ASSUME NEW q \in Seq(FlowFrame) PROVE (q \o inflight) \o waiting = q \o rest
      <4>1. inflight \in Seq(FlowFrame) /\ waiting \in Seq(FlowFrame)
        BY <1>1
      <4>2. (q \o inflight) \o waiting = q \o (inflight \o waiting)
        BY <4>1, ConcatAssociative
      <4> QED
        BY <4>2
    <3>3. Wire' = (Tail(link) \o inflight) \o waiting
      BY <1>1 DEF Wire
    <3> HIDE DEF rest
    <3> QED
      BY <1>1, <3>1, <3>2, <3>3 DEF Wire
  <2> HIDE DEF rest
  <2>2. /\ link \o rest # <<>> /\ Head(link \o rest) = Head(link)
        /\ Tail(link \o rest) = Tail(link) \o rest /\ link \o rest \in Seq(FlowFrame)
    BY <1>1, <2>1
  <2> QED
    BY <2>1, <2>2
<1>3. f \in FlowFrame
  BY <1>1
<1>4. f.s \in Streams /\ (f.type = "TCP_DATA" => f.n \in Chunk)
  <2> HIDE DEF f
  <2> QED
    BY <1>3, FrameKinds
<1>5. sink \in [Streams -> Seq(Chunk)] /\ clientOpen \in [Streams -> BOOLEAN] /\ taken \in [Streams -> Nat]
  BY DEF Carried
<1>6. \/ f.type = "TCP_DATA"  /\ ClientData(f.s, f.n)
      \/ f.type = "TCP_CLOSE" /\ ClientClose(f.s)
  BY DEF ClientHears
<1> HIDE DEF f
<1>7. CASE ~Mine(f, s)
  <2>1. \A a, b \in Nat : a <= b /\ Run(Wire, s, a, b) => Run(Wire', s, a, b)
    BY <1>2, <1>7, RunTail
  <2>2. \A a, b \in Nat : Run(fromAgent, s, a, b) => Run(fromAgent', s, a, b)
    BY <1>1
  <2>3. clientOpen'[s] => clientOpen[s] /\ taken'[s] = taken[s] /\ sink'[s] = sink[s]
    BY <1>4, <1>5, <1>6, <1>7 DEF ClientData, ClientClose, Mine
  <2> QED
    BY <1>1, <2>1, <2>2, <2>3, StaysPlaced
<1>8. CASE Mine(f, s)
  <2> DEFINE p == Chunks(s, sink[s])
             n == f.n
  <2>1. f.s = s /\ n \in Chunk /\ ClientData(s, n)
    BY <1>4, <1>6, <1>8 DEF Mine
  <2>2. UNCHANGED <<clientOpen, taken>> /\ sink'[s] = Append(sink[s], n) /\ sink[s] \in Seq(Chunk)
    BY <1>5, <2>1 DEF ClientData
  <2>3. p \in Seq(FlowFrame) /\ Chunks(s, sink'[s]) = p \o <<Data(s, n)>>
    BY <2>1, <2>2, ChunksAre, ChunksAppend
  <2> HIDE DEF p, n
  <2> SUFFICES ASSUME clientOpen'[s]
               PROVE  \E a, b \in Nat :
                 /\ taken'[s] <= a /\ a <= b /\ b <= sent'[s]
                 /\ Run(Chunks(s, sink'[s]), s, taken'[s], a) /\ Run(Wire', s, a, b)
                 /\ live'[s] => \E c \in Nat :
                      /\ b <= c /\ c <= sent'[s]
                      /\ Run(Chunks(s, held'[s]), s, b, c) /\ Run(fromAgent', s, c, sent'[s])
    BY PlacedAt
  <2>4. PICK a \in Nat, b \in Nat :
          /\ taken[s] <= a /\ a <= b /\ b <= sent[s]
          /\ Run(p, s, taken[s], a) /\ Run(Wire, s, a, b)
          /\ live[s] => \E c \in Nat :
               /\ b <= c /\ c <= sent[s]
               /\ Run(Chunks(s, held[s]), s, b, c) /\ Run(fromAgent, s, c, sent[s])
    BY <2>2 DEF Placed, p
  <2>5. n = a + 1 /\ a + 1 <= b /\ Run(Wire', s, a + 1, b)
    BY <1>2, <1>8, <2>4, RunTail DEF n
  <2>6. <<Data(s, n)>> \in Seq(FlowFrame) /\ Run(<<Data(s, n)>>, s, a, a + 1)
    BY <2>5, RunOne
  <2>7. Run(p \o <<Data(s, n)>>, s, taken[s], a + 1) /\ taken[s] <= a + 1 /\ a + 1 \in Nat
    <3>1. taken[s] \in Nat /\ a + 1 \in Nat /\ a <= a + 1 /\ taken[s] <= a + 1
      BY <1>5, <2>4
    <3> QED
      BY <2>3, <2>4, <2>6, <3>1, RunConcat
  <2> QED
    BY <1>1, <2>2, <2>3, <2>4, <2>5, <2>7
<1> QED
  BY <1>7, <1>8

(* Frames sent to the client that are none of the stream's chunks. *)
LEMMA SendPlaced ==
  ASSUME Carried, Written, NEW fs \in Seq(FlowFrame), Sends(fs), UNCHANGED <<link, clientVars, sent>>,
         NEW s \in Streams, Placed(s), \A k \in 1 .. Len(fs) : ~Mine(fs[k], s),
         live'[s] => live[s] /\ held'[s] = held[s],
         live'[s] => \A a, b \in Nat : a <= b /\ Run(fromAgent, s, a, b) => Run(fromAgent', s, a, b)
  PROVE  Placed(s)'
<1>1. Wire \in Seq(FlowFrame) /\ Wire' = Wire \o fs
  BY WireType, SendsWire
<1>2. \A a, b \in Nat : a <= b /\ Run(Wire, s, a, b) => Run(Wire', s, a, b)
  BY <1>1, RunAppend
<1>3. sent \in [Streams -> Nat] /\ UNCHANGED <<clientOpen, sink, taken>>
  BY DEF Carried, clientVars
<1> QED
  BY <1>2, <1>3, StaysPlaced

(* What was held goes on the wire. *)
LEMMA ResumePlaced ==
  ASSUME Carried, Straight, NEW r \in Streams, Resume(r),
         UNCHANGED <<live, link, clientVars, sent, fromAgent>>, NEW s \in Streams
  PROVE  Placed(s)'
<1> DEFINE fs == Chunks(r, held[r])
<1>1. held[r] \in Seq(Chunk) /\ held' = [held EXCEPT ![r] = <<>>] /\ Sends(fs)
  BY DEF Carried, Resume
<1>2. fs \in Seq(FlowFrame) /\ Len(fs) = Len(held[r])
  BY <1>1, ChunksAre
<1>3. Wire \in Seq(FlowFrame) /\ Wire' = Wire \o fs
  BY <1>1, <1>2, WireType, SendsWire DEF Straight
<1>4. \A a, b \in Nat : Run(fromAgent, s, a, b) => Run(fromAgent', s, a, b)
  OBVIOUS
<1>5. sent \in [Streams -> Nat] /\ UNCHANGED <<clientOpen, sink, taken>> /\ Placed(s)
  BY DEF Carried, clientVars, Straight
<1>6. CASE r # s
  <2>1. \A k \in 1 .. Len(fs) : ~Mine(fs[k], s)
    BY <1>1, <1>2, <1>6, ChunksAre
  <2>2. held'[s] = held[s]
    BY <1>1, <1>6 DEF Carried
  <2> HIDE DEF fs
  <2>3. \A a, b \in Nat : a <= b /\ Run(Wire, s, a, b) => Run(Wire', s, a, b)
    BY <1>2, <1>3, <2>1, RunAppend
  <2> QED
    BY <1>4, <1>5, <2>2, <2>3, StaysPlaced
<1>7. CASE r = s /\ ~live[s]
  <2>1. held[s] = <<>>
    BY <1>7 DEF Straight, HeldPaused
  <2>2. fs = <<>>
    BY <1>7, <2>1, ChunksEmpty
  <2> HIDE DEF fs
  <2>3. Wire' = Wire
    BY <1>3, <2>2, ConcatEmptySeq
  <2>4. \A a, b \in Nat : a <= b /\ Run(Wire, s, a, b) => Run(Wire', s, a, b)
    BY <2>3
  <2> QED
    BY <1>4, <1>5, <1>7, <2>4, StaysPlaced
<1>8. CASE r = s /\ live[s]
  <2>1. held'[s] = <<>> /\ Chunks(s, held'[s]) = <<>> /\ fs = Chunks(s, held[s])
    BY <1>1, <1>8, ChunksEmpty DEF Carried
  <2>2. \A c \in Nat : Run(<<>>, s, c, c)
    <3>1. <<>> \in Seq(FlowFrame) /\ Len(<<>>) = 0
      OBVIOUS
    <3>2. \A k \in 1 .. Len(<<>>) : ~Mine(<<>>[k], s)
      BY <3>1
    <3> QED
      BY <3>1, <3>2, RunNone
  <2> HIDE DEF fs
  <2> SUFFICES ASSUME clientOpen'[s]
               PROVE  \E a, b \in Nat :
                 /\ taken'[s] <= a /\ a <= b /\ b <= sent'[s]
                 /\ Run(Chunks(s, sink'[s]), s, taken'[s], a) /\ Run(Wire', s, a, b)
                 /\ live'[s] => \E c \in Nat :
                      /\ b <= c /\ c <= sent'[s]
                      /\ Run(Chunks(s, held'[s]), s, b, c) /\ Run(fromAgent', s, c, sent'[s])
    BY PlacedAt
  <2>3. PICK a \in Nat, b \in Nat, c \in Nat :
          /\ taken[s] <= a /\ a <= b /\ b <= sent[s] /\ b <= c /\ c <= sent[s]
          /\ Run(Chunks(s, sink[s]), s, taken[s], a) /\ Run(Wire, s, a, b)
          /\ Run(fs, s, b, c) /\ Run(fromAgent, s, c, sent[s])
    BY <1>5, <1>8, <2>1 DEF Placed
  <2>4. Run(Wire', s, a, c)
    BY <1>2, <1>3, <2>3, RunConcat
  <2>5. a <= c
    BY <2>3
  <2>6. live'[s] => \E d \in Nat :
          /\ c <= d /\ d <= sent'[s]
          /\ Run(Chunks(s, held'[s]), s, c, d) /\ Run(fromAgent', s, d, sent'[s])
    BY <2>1, <2>2, <2>3
  <2> QED
    BY <1>5, <2>3, <2>4, <2>5, <2>6
<1> QED
  BY <1>6, <1>7, <1>8

(* The server hears a frame of another stream, or none that is a chunk. *)
LEMMA OthersPlaced ==
  ASSUME Carried, Flags, Straight, ServerHearsAgent, NEW s \in Streams,
         ~Mine(Head(fromAgent), s)
  PROVE  Placed(s)'
<1> DEFINE f == Head(fromAgent)
<1>1. /\ fromAgent \in Seq(FlowFrame) /\ fromAgent # <<>> /\ fromAgent' = Tail(fromAgent)
      /\ UNCHANGED <<link, clientVars, sent>> /\ sent \in [Streams -> Nat] /\ Placed(s)
  BY DEF ServerHearsAgent, agentVars, Carried, Straight
<1>2. \A a, b \in Nat : a <= b /\ Run(fromAgent, s, a, b) => Run(fromAgent', s, a, b)
  BY <1>1, RunTail
<1>3. f \in FlowFrame
  BY <1>1
<1>4. f.s \in Streams /\ (f.type = "TCP_DATA" => f.n \in Chunk)
  <2> HIDE DEF f
  <2> QED
    BY <1>3, FrameKinds
<1>5. UNCHANGED <<clientOpen, sink, taken>>
  BY <1>1 DEF clientVars
<1>6. CASE UNCHANGED <<live, inflight, waiting>> /\ held'[s] = held[s]
  <2>1. Wire' = Wire
    BY <1>1, <1>6 DEF Wire
  <2>2. \A a, b \in Nat : Run(Wire, s, a, b) => Run(Wire', s, a, b)
    BY <2>1
  <2> QED
    BY <1>1, <1>2, <1>5, <1>6, <2>2, StaysPlaced
<1>7. ASSUME NEW toA, Ends(f.s, toA) PROVE Placed(s)'
  <2> DEFINE fs == <<Ctl("TCP_CLOSE", f.s)>>
  <2>1. fs \in Seq(FlowFrame) /\ \A k \in 1 .. Len(fs) : ~Mine(fs[k], s)
    <3>1. Ctl("TCP_CLOSE", f.s) \in FlowFrame /\ ~Mine(Ctl("TCP_CLOSE", f.s), s)
      BY <1>4, FrameKinds DEF Mine, Ctl
    <3> QED
      BY <3>1
  <2>2. /\ live' = [live EXCEPT ![f.s] = FALSE] /\ held' = [held EXCEPT ![f.s] = <<>>]
        /\ live \in [Streams -> BOOLEAN] /\ held \in [Streams -> Seq(Chunk)]
    BY <1>7 DEF Ends, Carried, Flags
  <2>3. live'[s] => live[s] /\ held'[s] = held[s]
    BY <2>2
  <2>4. Sends(fs)
    BY <1>7 DEF Ends
  <2> HIDE DEF fs
  <2> QED
    BY <1>1, <1>2, <2>1, <2>3, <2>4, SendPlaced DEF Straight
<1>8. CASE f.type = "TCP_DATA" /\ UNCHANGED <<live, held>> /\ DataEvent(f.s, f.n)
  <2> DEFINE fs == <<Data(f.s, f.n)>>
  <2>1. fs \in Seq(FlowFrame) /\ \A k \in 1 .. Len(fs) : ~Mine(fs[k], s)
    <3>1. f.s # s
      BY <1>8 DEF Mine
    <3>2. Data(f.s, f.n) \in FlowFrame
      BY <1>4, <1>8, FrameKinds
    <3>3. ~Mine(Data(f.s, f.n), s)
      BY <3>1 DEF Mine, Data
    <3> HIDE DEF f
    <3> QED
      BY <3>2, <3>3
  <2>2. Sends(fs)
    BY <1>8 DEF DataEvent
  <2> HIDE DEF fs
  <2> QED
    BY <1>1, <1>2, <1>8, <2>1, <2>2, SendPlaced DEF Straight
<1>9. CASE /\ f.type = "TCP_DATA" /\ held' = [held EXCEPT ![f.s] = Append(@, f.n)]
           /\ UNCHANGED <<live, inflight, waiting>>
  <2>1. held'[s] = held[s]
    BY <1>9 DEF Mine, Carried
  <2> QED
    BY <1>6, <1>9, <2>1
<1>10. \/ UNCHANGED <<live, held, inflight, waiting>>
       \/ \E toA : Ends(f.s, toA)
       \/ f.type = "TCP_DATA" /\ UNCHANGED <<live, held>> /\ DataEvent(f.s, f.n)
       \/ /\ f.type = "TCP_DATA" /\ held' = [held EXCEPT ![f.s] = Append(@, f.n)]
          /\ UNCHANGED <<live, inflight, waiting>>
  <2>1. CASE ~live[f.s]
    BY <2>1 DEF ServerHearsAgent, socketVars
  <2>2. CASE f.type = "TCP_DATA" /\ PushInbound(f.s, f.n)
    BY <2>2 DEF PushInbound
  <2>3. CASE f.type = "TCP_CLOSE" /\ Ends(f.s, <<>>)
    BY <2>3
  <2> QED
    BY <2>1, <2>2, <2>3 DEF ServerHearsAgent
<1> HIDE DEF f
<1> QED
  BY <1>6, <1>7, <1>8, <1>9, <1>10

(* The server hears the stream's next chunk: it goes on the wire when       *)
(* nothing is held, and waits behind what is held when the socket is        *)
(* paused.                                                                  *)
LEMMA ChunkPlaced ==
  ASSUME Carried, Flags, Straight, ServerHearsAgent, NEW s \in Streams, Mine(Head(fromAgent), s)
  PROVE  Placed(s)'
<1> DEFINE f == Head(fromAgent)
           n == f.n
           fs == <<Data(s, n)>>
<1>1. /\ fromAgent \in Seq(FlowFrame) /\ fromAgent # <<>> /\ fromAgent' = Tail(fromAgent)
      /\ UNCHANGED <<link, clientVars, sent>> /\ sent \in [Streams -> Nat] /\ Placed(s)
  BY DEF ServerHearsAgent, agentVars, Carried, Straight
<1>2. f \in FlowFrame /\ f.s = s /\ f.type = "TCP_DATA"
  BY <1>1 DEF Mine
<1>3. n \in Chunk
  <2> HIDE DEF f
  <2> QED
    BY <1>2, FrameKinds
<1>4. fs \in Seq(FlowFrame)
  BY <1>3, FrameKinds
<1>5. UNCHANGED <<clientOpen, sink, taken>> /\ Wire \in Seq(FlowFrame)
  BY <1>1, WireType DEF clientVars
<1>6. ASSUME NEW b \in Nat, NEW c \in Nat, c <= sent[s], Run(fromAgent, s, c, sent[s])
      PROVE  n = c + 1 /\ c + 1 <= sent[s] /\ Run(fromAgent', s, c + 1, sent[s])
  BY <1>1, <1>6, RunTail
<1>7. CASE ~live[s]
  <2>1. UNCHANGED <<live, inflight, waiting>>
    BY <1>2, <1>7 DEF ServerHearsAgent, socketVars
  <2>2. Wire' = Wire
    BY <1>1, <2>1 DEF Wire
  <2>3. \A a, b \in Nat : Run(Wire, s, a, b) => Run(Wire', s, a, b)
    BY <2>2
  <2> QED
    BY <1>1, <1>5, <1>7, <2>1, <2>3, StaysPlaced
<1> DEFINE Goal == \E a, b \in Nat :
             /\ taken'[s] <= a /\ a <= b /\ b <= sent'[s]
             /\ Run(Chunks(s, sink'[s]), s, taken'[s], a) /\ Run(Wire', s, a, b)
             /\ live'[s] => \E c \in Nat :
                  /\ b <= c /\ c <= sent'[s]
                  /\ Run(Chunks(s, held'[s]), s, b, c) /\ Run(fromAgent', s, c, sent'[s])
<1>8. CASE live[s] /\ clientOpen[s]
  <2>1. PICK a \in Nat, b \in Nat, c \in Nat :
          /\ taken[s] <= a /\ a <= b /\ b <= sent[s] /\ b <= c /\ c <= sent[s]
          /\ Run(Chunks(s, sink[s]), s, taken[s], a) /\ Run(Wire, s, a, b)
          /\ Run(Chunks(s, held[s]), s, b, c) /\ Run(fromAgent, s, c, sent[s])
    BY <1>1, <1>8 DEF Placed
  <2>2. n = c + 1 /\ c + 1 <= sent[s] /\ Run(fromAgent', s, c + 1, sent[s]) /\ c + 1 \in Nat
    BY <1>6, <2>1
  <2>3. Run(fs, s, c, c + 1)
    BY <2>2, RunOne
  <2>4. held \in [Streams -> Seq(Chunk)]
    BY DEF Carried
  <2> HIDE DEF f, n
  <2>5. CASE ~paused[s] /\ DataEvent(s, n) /\ UNCHANGED <<live, held>>
    <3>1. held[s] = <<>> /\ Chunks(s, held[s]) = <<>>
      BY <2>5, ChunksEmpty DEF Straight, HeldPaused
    <3>2. c = b /\ Run(<<>>, s, c + 1, c + 1)
      <4>1. /\ <<>> \in Seq(FlowFrame) /\ Len(<<>>) = 0
            /\ \A k \in 1 .. Len(<<>>) : ~Mine(<<>>[k], s)
        OBVIOUS
      <4>2. Run(<<>>, s, b, c) /\ b <= c
        BY <2>1, <3>1
      <4>3. c = b
        BY <4>1, <4>2, RunNone
      <4>4. Run(<<>>, s, c + 1, c + 1)
        BY <2>2, <4>1, RunNone
      <4> QED
        BY <4>3, <4>4
    <3>3. Wire' = Wire \o fs
      BY <1>1, <1>4, <2>5, SendsWire DEF DataEvent, Straight
    <3> HIDE DEF fs
    <3>4. Run(Wire', s, a, c + 1) /\ a <= c + 1
      <4>1. c <= c + 1 /\ a <= c /\ a <= c + 1
        BY <2>1, <2>2
      <4> QED
        BY <1>4, <1>5, <2>1, <2>2, <2>3, <3>2, <3>3, <4>1, RunConcat
    <3>5. Run(Chunks(s, held'[s]), s, c + 1, c + 1)
      BY <2>5, <3>1, <3>2
    <3>6. \E d \in Nat : /\ c + 1 <= d /\ d <= sent'[s]
                         /\ Run(Chunks(s, held'[s]), s, c + 1, d) /\ Run(fromAgent', s, d, sent'[s])
      BY <1>1, <2>2, <3>5
    <3>7. Goal
      BY <1>1, <1>5, <2>1, <2>2, <3>4, <3>6
    <3> HIDE DEF Goal
    <3> QED
      BY <3>7, PlacedAt DEF Goal
  <2>6. CASE held' = [held EXCEPT ![s] = Append(@, n)] /\ UNCHANGED <<live, inflight, waiting>>
    <3>1. Wire' = Wire
      BY <1>1, <2>6 DEF Wire
    <3>2. Chunks(s, held'[s]) = Chunks(s, held[s]) \o fs /\ Chunks(s, held[s]) \in Seq(FlowFrame)
      <4>1. held'[s] = Append(held[s], n) /\ held[s] \in Seq(Chunk)
        BY <2>4, <2>6
      <4> QED
        BY <1>3, <4>1, ChunksAppend, ChunksAre
    <3> HIDE DEF fs
    <3>3. Run(Chunks(s, held'[s]), s, b, c + 1) /\ b <= c + 1
      <4>1. c <= c + 1 /\ b <= c + 1
        BY <2>1
      <4> QED
        BY <1>4, <2>1, <2>2, <2>3, <3>2, <4>1, RunConcat
    <3>4. \E d \in Nat : /\ b <= d /\ d <= sent'[s]
                         /\ Run(Chunks(s, held'[s]), s, b, d) /\ Run(fromAgent', s, d, sent'[s])
      BY <1>1, <2>2, <3>3
    <3>5. Goal
      BY <1>1, <1>5, <2>1, <3>1, <3>4
    <3> HIDE DEF Goal
    <3> QED
      BY <3>5, PlacedAt DEF Goal
  <2>7. CASE \E toA : Ends(s, toA)
    <3>1. ~live'[s]
      BY <2>7 DEF Ends, Flags
    <3>2. Sends(<<Ctl("TCP_CLOSE", s)>>)
      BY <2>7 DEF Ends
    <3>3. Ctl("TCP_CLOSE", s) \in FlowFrame /\ ~Mine(Ctl("TCP_CLOSE", s), s)
      BY FrameKinds DEF Mine, Ctl
    <3>4. /\ <<Ctl("TCP_CLOSE", s)>> \in Seq(FlowFrame)
          /\ \A k \in 1 .. Len(<<Ctl("TCP_CLOSE", s)>>) : ~Mine(<<Ctl("TCP_CLOSE", s)>>[k], s)
      BY <3>3
    <3> QED
      BY <1>1, <3>1, <3>2, <3>4, SendPlaced DEF Straight
  <2>8. PushInbound(s, n)
    BY <1>2, <1>8 DEF ServerHearsAgent, f, n
  <2> QED
    BY <2>5, <2>6, <2>7, <2>8 DEF PushInbound
<1>9. CASE ~clientOpen[s]
  BY <1>5, <1>9, PlacedAt
<1> QED
  BY <1>7, <1>8, <1>9

(* A frame to the server leaves the WebSocket writing, and only a paused    *)
(* socket holding.                                                          *)
LEMMA HearsHeld ==
  ASSUME Carried, Flags, Straight, ServerHearsAgent
  PROVE  Written' /\ HeldPaused'
<1> DEFINE f == Head(fromAgent)
<1>1. /\ f.s \in Streams /\ (f.type = "TCP_DATA" => f.n \in Chunk)
      /\ held \in [Streams -> Seq(Chunk)] /\ UNCHANGED link
  <2>1. f \in FlowFrame
    BY DEF ServerHearsAgent, Carried
  <2> HIDE DEF f
  <2> QED
    BY <2>1, FrameKinds DEF ServerHearsAgent, Carried
<1>2. CASE UNCHANGED <<live, paused, held, inflight, waiting>>
  BY <1>2 DEF Straight, Written, HeldPaused
<1>3. ASSUME NEW toA, Ends(f.s, toA) PROVE Written' /\ HeldPaused'
  <2>1. Sends(<<Ctl("TCP_CLOSE", f.s)>>) /\ <<Ctl("TCP_CLOSE", f.s)>> \in Seq(FlowFrame)
    BY <1>1, <1>3, FrameKinds DEF Ends
  <2>2. Written'
    BY <1>1, <2>1, SendsWire DEF Straight
  <2>3. /\ live' = [live EXCEPT ![f.s] = FALSE] /\ held' = [held EXCEPT ![f.s] = <<>>]
        /\ paused' = [paused EXCEPT ![f.s] = FALSE]
    BY <1>3 DEF Ends
  <2> HIDE DEF f
  <2>4. HeldPaused'
    BY <1>1, <2>3 DEF Straight, HeldPaused, Flags
  <2> QED
    BY <2>2, <2>4
<1>4. CASE /\ f.type = "TCP_DATA" /\ ~paused[f.s] /\ UNCHANGED <<live, held>>
           /\ DataEvent(f.s, f.n)
  <2>1. Sends(<<Data(f.s, f.n)>>)
    BY <1>4 DEF DataEvent
  <2>2. <<Data(f.s, f.n)>> \in Seq(FlowFrame)
    BY <1>1, <1>4, FrameKinds
  <2>3. Written'
    BY <1>1, <2>1, <2>2, SendsWire DEF Straight
  <2>4. paused' = paused \/ paused' = [paused EXCEPT ![f.s] = TRUE]
    BY <1>4 DEF DataEvent, Pause
  <2> HIDE DEF f
  <2>5. \A s \in Streams : paused[s] => paused'[s]
    BY <1>1, <2>4 DEF Flags
  <2>6. HeldPaused'
    BY <1>4, <2>5 DEF Straight, HeldPaused
  <2> QED
    BY <2>3, <2>6
<1>5. CASE /\ live[f.s] /\ paused[f.s] /\ held' = [held EXCEPT ![f.s] = Append(@, f.n)]
           /\ UNCHANGED <<live, paused, inflight, waiting>>
  <2> HIDE DEF f
  <2>1. \A s \in Streams : s # f.s => held'[s] = held[s]
    BY <1>1, <1>5
  <2> QED
    BY <1>5, <2>1 DEF Straight, Written, HeldPaused
<1>6. CASE ~live[f.s]
  <2>1. UNCHANGED <<live, paused, held, inflight, waiting>>
    BY <1>6 DEF ServerHearsAgent, socketVars
  <2> QED
    BY <1>2, <2>1
<1>7. CASE live[f.s] /\ f.type = "TCP_DATA" /\ PushInbound(f.s, f.n)
  BY <1>3, <1>4, <1>5, <1>7 DEF PushInbound
<1>8. CASE Ends(f.s, <<>>)
  BY <1>3, <1>8
<1> QED
  BY <1>6, <1>7, <1>8 DEF ServerHearsAgent

(* After a flush nothing is held. *)
LEMMA ResumeHeld ==
  ASSUME Carried, Flags, Straight, NEW r \in Streams, Resume(r), UNCHANGED <<live, link>>
  PROVE  Written' /\ HeldPaused'
<1>1. held[r] \in Seq(Chunk) /\ held \in [Streams -> Seq(Chunk)]
  BY DEF Carried
<1>2. Chunks(r, held[r]) \in Seq(FlowFrame)
  BY <1>1, ChunksAre
<1>3. Written'
  BY <1>2, SendsWire DEF Resume, Straight
<1>4. held' = [held EXCEPT ![r] = <<>>] /\ \A s \in Streams : s # r => paused'[s] = paused[s]
  BY DEF Resume, Flags
<1>5. HeldPaused'
  BY <1>1, <1>4 DEF Straight, HeldPaused
<1> QED
  BY <1>3, <1>5

LEMMA NextStraight ==
  ASSUME Carried, Flags, Straight, [Next]_vars
  PROVE  Straight'
<1>1. ASSUME UNCHANGED <<live, held, paused, inflight, waiting>> PROVE Written' /\ HeldPaused'
  BY <1>1 DEF Straight, Written, HeldPaused
<1>2. ASSUME UNCHANGED <<live, clientVars, sent, held, fromAgent, Wire>>
      PROVE  \A s \in Streams : Placed(s)'
  <2>1. \A s \in Streams : Placed(s)
    BY DEF Straight
  <2> QED
    BY <1>2, <2>1, SamePlaced DEF clientVars
<1>3. ASSUME NEW r \in Streams, Resume(r), UNCHANGED <<live, link, clientVars, sent, fromAgent>>
      PROVE  Straight'
  BY <1>3, ResumePlaced, ResumeHeld DEF Straight
<1>4. CASE UNCHANGED vars
  BY <1>1, <1>2, <1>4 DEF Straight, vars, agentVars, socketVars, wsVars, Wire
<1>5. ASSUME NEW r \in Streams, AgentReads(r) \/ AgentCloses(r) PROVE Straight'
  <2>1. UNCHANGED <<live, held, paused, inflight, waiting>>
    BY <1>5 DEF AgentReads, AgentCloses, socketVars, wsVars
  <2> QED
    BY <1>1, <1>5, <2>1, ReadsPlaced DEF Straight
<1>6. ASSUME NEW r \in Streams, LocalTakes(r) PROVE Straight'
  <2>1. UNCHANGED <<live, held, paused, inflight, waiting>>
    BY <1>6 DEF LocalTakes, socketVars, wsVars
  <2> QED
    BY <1>1, <1>6, <2>1, TakesPlaced DEF Straight
<1>7. CASE AgentHears
  BY <1>1, <1>2, <1>7 DEF AgentHears, Straight, agentVars, socketVars, wsVars, Wire
<1>8. CASE ServerHearsAgent
  BY <1>8, HearsHeld, OthersPlaced, ChunkPlaced DEF Straight
<1>9. CASE ServerHearsClient
  <2> DEFINE s == Head(fromClient).s
  <2>1. s \in Streams
    <3>1. Head(fromClient) \in ClientFrame
      BY <1>9 DEF ServerHearsClient, Carried
    <3> QED
      BY <3>1 DEF ClientFrame
  <2>2. UNCHANGED <<link, clientVars, sent, fromAgent, live>>
    BY <1>9 DEF ServerHearsClient, agentVars, socketVars, PeerPauses, PeerResumes
  <2>3. CASE UNCHANGED <<paused, held, inflight, waiting>>
    BY <1>1, <1>2, <2>2, <2>3 DEF Straight, Wire
  <2>4. CASE PeerPauses(s)
    <3>1. UNCHANGED <<held, inflight, waiting>> /\ \A r \in Streams : paused[r] => paused'[r]
      BY <2>1, <2>4 DEF PeerPauses, Pause, Flags
    <3>2. Written' /\ HeldPaused'
      BY <2>2, <3>1 DEF Straight, Written, HeldPaused
    <3> QED
      BY <1>2, <2>2, <3>1, <3>2 DEF Straight, Wire
  <2>5. CASE Resume(s)
    BY <1>3, <2>1, <2>2, <2>5
  <2> QED
    BY <1>9, <2>3, <2>4, <2>5 DEF ServerHearsClient, PeerResumes, socketVars
<1>10. CASE ClientHears
  <2>1. UNCHANGED <<live, held, paused, inflight, waiting>>
    BY <1>10 DEF ClientHears, socketVars, wsVars
  <2> QED
    BY <1>1, <1>10, <2>1, ClientPlaced DEF Straight
<1>11. CASE WriteDone
  <2>1. /\ link' = link \o inflight /\ inflight' = waiting /\ waiting' = <<>>
        /\ UNCHANGED <<live, held, paused, clientVars, sent, fromAgent>>
    BY <1>11 DEF WriteDone, agentVars, socketVars
  <2>2. link \o inflight \o waiting \in Seq(FlowFrame)
    BY WireType DEF Wire
  <2>3. Wire' = (link \o inflight \o waiting) \o <<>>
    BY <2>1 DEF Wire
  <2>4. Wire' = Wire
    BY <2>2, <2>3, ConcatEmptySeq DEF Wire
  <2>5. Written' /\ HeldPaused'
    BY <2>1 DEF Straight, Written, HeldPaused
  <2> QED
    BY <1>2, <2>1, <2>4, <2>5 DEF Straight
<1>12. CASE Callback
  <2> DEFINE s == Head(callbacks).s
  <2>1. s \in Streams
    <3>1. Head(callbacks) \in FlowFrame
      BY <1>12 DEF Callback, Carried
    <3> QED
      BY <3>1, FrameKinds
  <2>2. UNCHANGED <<link, clientVars, sent, fromAgent, live>>
    BY <1>12 DEF Callback, agentVars
  <2>3. CASE UNCHANGED <<paused, held, inflight, waiting>>
    BY <1>1, <1>2, <2>2, <2>3 DEF Straight, Wire
  <2>4. CASE Resume(s)
    BY <1>3, <2>1, <2>2, <2>4
  <2> QED
    BY <1>12, <2>3, <2>4 DEF Callback
<1> QED
  BY <1>4, <1>5, <1>6, <1>7, <1>8, <1>9, <1>10, <1>11, <1>12 DEF Next

(* All the buffers in a row. *)
LEMMA PlacedInOrder ==
  ASSUME Carried, NEW s \in Streams, Placed(s), clientOpen[s]
  PROVE  \E last \in 0 .. sent[s] : /\ live[s] => last = sent[s]
                                    /\ Run(OnTheWay(s), s, taken[s], last)
<1> DEFINE p == Chunks(s, sink[s])
           h == Chunks(s, held[s])
<1>1. /\ sink[s] \in Seq(Chunk) /\ held[s] \in Seq(Chunk)
      /\ sent[s] \in Nat /\ taken[s] \in Nat
      /\ link \in Seq(FlowFrame) /\ inflight \in Seq(FlowFrame) /\ waiting \in Seq(FlowFrame)
      /\ fromAgent \in Seq(FlowFrame)
  BY DEF Carried
<1>2. p \in Seq(FlowFrame) /\ h \in Seq(FlowFrame) /\ Wire \in Seq(FlowFrame)
  BY <1>1, ChunksAre, WireType
<1>3. PastServer(s) = p \o link \o inflight \o waiting
  BY DEF PastServer
<1>4. OnTheWay(s) = IF live[s] THEN PastServer(s) \o h \o fromAgent ELSE PastServer(s)
  BY DEF OnTheWay
<1>5. PICK a \in Nat, b \in Nat :
        /\ taken[s] <= a /\ a <= b /\ b <= sent[s]
        /\ Run(p, s, taken[s], a) /\ Run(Wire, s, a, b)
        /\ live[s] => \E c \in Nat :
             /\ b <= c /\ c <= sent[s]
             /\ Run(h, s, b, c) /\ Run(fromAgent, s, c, sent[s])
  BY DEF Placed
<1> HIDE DEF p, h
<1>6. PastServer(s) = p \o Wire
  <2>1. /\ p \in Seq(FlowFrame) /\ link \in Seq(FlowFrame)
        /\ inflight \in Seq(FlowFrame) /\ waiting \in Seq(FlowFrame)
    BY <1>1, <1>2
  <2>2. link \o inflight \in Seq(FlowFrame)
    BY <1>1
  <2>3. (p \o link) \o inflight = p \o (link \o inflight)
    BY <2>1, ConcatAssociative
  <2>4. (p \o (link \o inflight)) \o waiting = p \o ((link \o inflight) \o waiting)
    <3> DEFINE k == link \o inflight
    <3>1. k \in Seq(FlowFrame)
      BY <2>2
    <3> HIDE DEF k
    <3>2. (p \o k) \o waiting = p \o (k \o waiting)
      BY <2>1, <3>1, ConcatAssociative
    <3> QED
      BY <3>2 DEF k
  <2> QED
    BY <1>3, <2>3, <2>4 DEF Wire
<1>7. Run(PastServer(s), s, taken[s], b) /\ PastServer(s) \in Seq(FlowFrame) /\ taken[s] <= b
  <2>1. p \o Wire \in Seq(FlowFrame)
    BY <1>2
  <2>2. taken[s] <= b
    BY <1>1, <1>5
  <2> QED
    BY <1>1, <1>2, <1>5, <1>6, <2>1, <2>2, RunConcat
<1>8. CASE ~live[s]
  <2>1. b \in 0 .. sent[s]
    BY <1>1, <1>5
  <2> QED
    BY <1>4, <1>7, <1>8, <2>1
<1>9. CASE live[s]
  <2>1. PICK c \in Nat : /\ b <= c /\ c <= sent[s]
                         /\ Run(h, s, b, c) /\ Run(fromAgent, s, c, sent[s])
    BY <1>5, <1>9
  <2> DEFINE q == PastServer(s)
  <2>2. q \in Seq(FlowFrame) /\ Run(q, s, taken[s], b) /\ taken[s] <= b /\ taken[s] <= c
    BY <1>1, <1>7, <2>1
  <2> HIDE DEF q
  <2>3. q \o h \in Seq(FlowFrame) /\ Run(q \o h, s, taken[s], c)
    BY <1>1, <1>2, <2>1, <2>2, RunConcat
  <2>4. Run((q \o h) \o fromAgent, s, taken[s], sent[s])
    BY <1>1, <2>1, <2>2, <2>3, RunConcat
  <2>5. sent[s] \in 0 .. sent[s]
    BY <1>1
  <2> QED
    BY <1>4, <1>9, <2>4, <2>5 DEF q
<1> QED
  BY <1>8, <1>9

(* No chunk is lost, repeated or overtaken while the server has the stream, *)
(* and none that has passed it after, however often any buffer on the way   *)
(* fills, is paused and flushed (VirtualSocket.pushInbound and resume, the  *)
(* WebSocket's queue, the local socket).                                    *)
THEOREM ChunksInOrder == Spec => []InOrder
<1> DEFINE Inv == Carried /\ Reasoned /\ Straight
<1>1. Init => Inv
  <2>1. ASSUME Init PROVE Straight
    <3>1. ASSUME NEW s \in Streams PROVE Run(<<>>, s, 0, 0)
      <4>1. /\ <<>> \in Seq(FlowFrame) /\ Len(<<>>) = 0
            /\ \A k \in 1 .. Len(<<>>) : ~Mine(<<>>[k], s)
        OBVIOUS
      <4> QED
        BY <4>1, RunNone
    <3>2. Wire = <<>>
      BY <2>1 DEF Init, Wire
    <3>3. ASSUME NEW s \in Streams PROVE Placed(s)
      <4>1. /\ sent[s] = 0 /\ taken[s] = 0 /\ sink[s] = <<>> /\ held[s] = <<>> /\ fromAgent = <<>>
            /\ 0 \in Nat /\ 0 <= 0
        BY <2>1 DEF Init
      <4> QED
        BY <3>1, <3>2, <4>1, ChunksEmpty DEF Placed
    <3> QED
      BY <2>1, <3>3 DEF Init, Straight, Written, HeldPaused
  <2> QED
    BY <2>1, InitCarried DEF Init, Flags, Reasoned, PausedForReason
<1>2. Inv /\ [Next]_vars => Inv'
  BY NextCarried, NextReasoned, NextStraight DEF Reasoned
<1>3. Inv => InOrder
  BY PlacedInOrder DEF Straight, InOrder
<1> QED
  BY <1>1, <1>2, <1>3, PTL DEF Spec
=============================================================================

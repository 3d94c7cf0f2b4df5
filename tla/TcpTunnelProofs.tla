-------------------------- MODULE TcpTunnelProofs --------------------------
(***************************************************************************)
(* Proofs about the whole tunnel for every value of its constants: its     *)
(* types, and that server, agent and clients agree on the streams there    *)
(* are, whatever is under way between them.                                *)
(*                                                                         *)
(* The joint invariant says of each id, at each end, which frames about it *)
(* may be on their way in either direction and what both ends then know.   *)
(* The frames a channel holds about an id are seen as the set of their     *)
(* types (Kinds), with the order that matters: the frame that opens a      *)
(* stream comes before those that end it (Leads).  A turn of the server is *)
(* summed up by what it does about each id (Calm, Flows, Strays, Acks,     *)
(* Ends, Opens), whatever handler it is the turn of.                       *)
(***************************************************************************)
EXTENDS TcpTunnel, TcpServerProofs

(* The three ends speak of the same ids and frames. *)
LEMMA SameNames ==
  /\ Agt!Ids = Ids /\ Cli!Ids = Ids
  /\ Agt!FrameSet = FrameSet /\ Cli!FrameSet = FrameSet
  /\ \A t, i : Agt!Msg(t, i) = Msg(t, i) /\ Cli!Msg(t, i) = Msg(t, i)
  /\ \A t, i, p : Agt!Frame(t, i, p) = Frame(t, i, p)
  /\ \A q, st, w, f : Cli!Post(q, st, w, f) = Post(q, st, w, f)
  /\ \A q, k : Agt!RemoveAt(q, k) = RemoveAt(q, k)
  /\ \A q : Agt!ToSet(q) = ToSet(q)
  BY DEF Agt!Ids, Cli!Ids, Ids, Agt!FrameSet, Cli!FrameSet, FrameSet,
         Agt!TcpTypes, Cli!TcpTypes, TcpTypes, Agt!NoPort, Cli!NoPort, NoPort,
         Agt!Msg, Cli!Msg, Msg, Agt!Frame, Cli!Frame, Frame,
         Cli!Post, Cli!PostAll, Post, PostAll,
         Agt!RemoveAt, RemoveAt, Agt!ToSet, ToSet

-----------------------------------------------------------------------------
(* Types.  The frames under way to the server are those it was checked with *)
(* alone.                                                                   *)
Sent ==
  /\ fromClient \in [ClientWs -> Seq(ClientFrames)]
  /\ fromAgent \in [AgentWs -> Seq(AgentFrames)]

Typed == TunnelTypeOK /\ Sent

(* They are frames of the protocol. *)
LEMMA SentFrames == ClientFrames \subseteq FrameSet /\ AgentFrames \subseteq FrameSet
<1>1. ASSUME NEW f \in ClientFrames PROVE f \in FrameSet
  BY <1>1, ServerAssumption, FrameType DEF ClientFrames
<1>2. ASSUME NEW f \in AgentFrames PROVE f \in FrameSet
  <2>1. \A p \in Ports : Frame("TCP_CONNECT", 0, p) \in FrameSet
    BY FrameType DEF TcpTypes
  <2>2. \A t \in {"TCP_DATA", "TCP_CLOSE", "TCP_ABORT"}, i \in Ids : Msg(t, i) \in FrameSet
    BY FrameType DEF TcpTypes
  <2> QED
    BY <1>2, <2>1, <2>2 DEF AgentFrames
<1> QED
  BY <1>1, <1>2

(* What is left of a channel, and what sending adds to it, keep its type. *)
LEMMA TailType == ASSUME NEW T, NEW q \in Seq(T), q # <<>> PROVE Head(q) \in T /\ Tail(q) \in Seq(T)
  OBVIOUS

LEMMA PopType ==
  ASSUME NEW T, NEW W, NEW q, NEW r, q \in [W -> Seq(T)], NEW w \in W, q[w] # <<>>,
         r = [q EXCEPT ![w] = Tail(@)]
  PROVE  r \in [W -> Seq(T)] /\ Head(q[w]) \in T
  BY TailType

LEMMA SendType ==
  ASSUME NEW T, NEW W, NEW st, NEW q \in [W -> Seq(T)], NEW w \in W, NEW f \in T
  PROVE  Post(q, st, w, f) \in [W -> Seq(T)]
<1>1. <<f>> \in Seq(T)
  OBVIOUS
<1>2. q[w] \o <<f>> \in Seq(T)
  BY <1>1, ConcatType
<1> QED
  BY <1>2 DEF Post, PostAll

(* Every frame a client sends is one of those. *)
LEMMA ClientFrameOf ==
  ASSUME NEW i \in Ids, NEW t \in {"TCP_OPEN_ACK", "TCP_DATA", "TCP_CLOSE", "TCP_ABORT", "RES_ABORT"}
  PROVE  Msg(t, i) \in ClientFrames
  BY TunnelAssumption DEF ClientFrames

ClientTyped == Cli!TypeOK /\ fromClient \in [ClientWs -> Seq(ClientFrames)]

(* A frame a client sends keeps its channel typed, at both ends. *)
LEMMA ClientSendsType ==
  ASSUME ClientTyped, NEW w \in ClientWs, NEW i \in Ids,
         NEW t \in {"TCP_OPEN_ACK", "TCP_DATA", "TCP_CLOSE", "TCP_ABORT", "RES_ABORT"},
         Cli!Sends(w, Cli!Msg(t, i))
  PROVE  /\ fromClient' \in [ClientWs -> Seq(ClientFrames)]
         /\ fromClient' \in [ClientWs -> Seq(Cli!FrameSet)]
<1>1. fromClient' = Post(fromClient, clientLinks, w, Msg(t, i))
  BY SameNames DEF Cli!Sends
<1>2. Msg(t, i) \in ClientFrames /\ Msg(t, i) \in FrameSet
  BY ClientFrameOf, SentFrames
<1>3. fromClient' \in [ClientWs -> Seq(ClientFrames)]
  BY <1>1, <1>2, SendType DEF ClientTyped
<1>4. fromClient' \in [ClientWs -> Seq(FrameSet)]
  BY <1>1, <1>2, SendType, SameNames DEF ClientTyped, Cli!TypeOK
<1> QED
  BY <1>3, <1>4, SameNames

(* The client's own steps. *)
ClientMoves(w) ==
  \/ \E i \in Ids : Cli!LocalConnects(w, i) \/ Cli!LocalFails(w, i) \/ Cli!LocalCloses(w, i)
                    \/ Cli!LocalData(w, i) \/ Cli!IdleTimeout(w, i)
  \/ Cli!LinkOpens(w) \/ Cli!LinkBreaks(w) \/ Cli!LinkCloses(w)

LEMMA CleanupType ==
  ASSUME ClientTyped, NEW w \in ClientWs, NEW i \in Ids, Cli!Cleanup(w, i)
  PROVE  opened' \in [ClientWs -> SUBSET Ids] /\ local' \in [ClientWs -> [Ids -> Cli!LocalState]]
  BY SameNames DEF ClientTyped, Cli!TypeOK, Cli!Cleanup, Cli!Forgets, Cli!SetLocal, Cli!LocalState

LEMMA LocalGoneType ==
  ASSUME ClientTyped, NEW w \in ClientWs, NEW i \in Ids, NEW t \in {"TCP_CLOSE", "TCP_ABORT"},
         Cli!LocalGone(w, i, t)
  PROVE  ClientTyped'
<1>1. opened' \in [ClientWs -> SUBSET Ids] /\ local' \in [ClientWs -> [Ids -> Cli!LocalState]]
  BY CleanupType DEF Cli!LocalGone
<1>2. /\ fromClient' \in [ClientWs -> Seq(ClientFrames)]
      /\ fromClient' \in [ClientWs -> Seq(Cli!FrameSet)]
  BY ClientSendsType, SameNames DEF Cli!LocalGone, ClientTyped, Cli!TypeOK
<1> QED
  BY <1>1, <1>2, SameNames DEF Cli!LocalGone, ClientTyped, Cli!TypeOK

LEMMA ClientMovesType ==
  ASSUME ClientTyped, NEW w \in ClientWs, ClientMoves(w)
  PROVE  ClientTyped'
<1>1. ASSUME NEW i \in Ids, Cli!LocalConnects(w, i) PROVE ClientTyped'
  <2>1. Cli!Sends(w, Cli!Msg("TCP_OPEN_ACK", i))
    BY <1>1 DEF Cli!LocalConnects
  <2>2. local' \in [ClientWs -> [Ids -> Cli!LocalState]]
    BY <1>1, SameNames DEF ClientTyped, Cli!TypeOK, Cli!LocalConnects, Cli!SetLocal, Cli!LocalState
  <2> QED
    BY <1>1, <2>1, <2>2, ClientSendsType, SameNames DEF ClientTyped, Cli!TypeOK, Cli!LocalConnects
<1>2. ASSUME NEW i \in Ids, Cli!LocalFails(w, i) \/ Cli!LocalCloses(w, i) PROVE ClientTyped'
  BY <1>2, LocalGoneType DEF Cli!LocalFails, Cli!LocalCloses
<1>3. ASSUME NEW i \in Ids, Cli!LocalData(w, i) PROVE ClientTyped'
  <2>1. CASE clientLinks[w] = "open"
    <3>1. Cli!Sends(w, Cli!Msg("TCP_DATA", i)) /\ UNCHANGED <<opened, local, clientLinks>>
      BY <1>3, <2>1 DEF Cli!LocalData
    <3> QED
      BY <3>1, ClientSendsType, SameNames DEF ClientTyped, Cli!TypeOK
  <2>2. CASE clientLinks[w] # "open"
    <3>1. Cli!Cleanup(w, i) /\ UNCHANGED <<fromClient, clientLinks>>
      BY <1>3, <2>2 DEF Cli!LocalData
    <3> QED
      BY <3>1, CleanupType, SameNames DEF ClientTyped, Cli!TypeOK
  <2> QED
    BY <2>1, <2>2
<1>4. ASSUME NEW i \in Ids, Cli!IdleTimeout(w, i) PROVE ClientTyped'
  <2>1. Cli!Sends(w, Cli!Msg("RES_ABORT", i))
    BY <1>4 DEF Cli!IdleTimeout
  <2>2. opened' \in [ClientWs -> SUBSET Ids]
    BY <1>4, SameNames DEF ClientTyped, Cli!TypeOK, Cli!IdleTimeout, Cli!Forgets
  <2> QED
    BY <1>4, <2>1, <2>2, ClientSendsType, SameNames DEF ClientTyped, Cli!TypeOK, Cli!IdleTimeout
<1>5. CASE Cli!LinkOpens(w) \/ Cli!LinkBreaks(w)
  BY <1>5, SameNames DEF ClientTyped, Cli!TypeOK, Cli!LinkOpens, Cli!LinkBreaks, Cli!LinkState
<1>6. CASE Cli!LinkCloses(w)
  <2>1. local' \in [ClientWs -> [Ids -> Cli!LocalState]]
    BY <1>6, SameNames DEF ClientTyped, Cli!TypeOK, Cli!LinkCloses, Cli!LocalState
  <2>2. opened' \in [ClientWs -> SUBSET Ids] /\ clientLinks' \in [ClientWs -> Cli!LinkState]
    BY <1>6, SameNames DEF ClientTyped, Cli!TypeOK, Cli!LinkCloses, Cli!LinkState
  <2> QED
    BY <1>6, <2>1, <2>2, SameNames DEF ClientTyped, Cli!TypeOK, Cli!LinkCloses
<1> QED
  BY <1>1, <1>2, <1>3, <1>4, <1>5, <1>6 DEF ClientMoves

(* A frame that reaches the client. *)
LEMMA ClientOnFrameType ==
  ASSUME ClientTyped, NEW w \in ClientWs, NEW f \in FrameSet, f.type = "TCP_OPEN" => f.id \in Ids,
         Cli!OnFrame(w, f)
  PROVE  ClientTyped'
<1>1. CASE f.type = "TCP_OPEN" /\ Cli!TcpOpen(w, f.id)
  <2>1. CASE Cli!Sends(w, Cli!Msg("TCP_ABORT", f.id)) /\ UNCHANGED <<opened, local, clientLinks>>
    BY <1>1, <2>1, ClientSendsType, SameNames DEF ClientTyped, Cli!TypeOK
  <2>2. CASE /\ opened' = [opened EXCEPT ![w] = @ \cup {f.id}]
             /\ Cli!SetLocal(w, f.id, "connecting")
             /\ UNCHANGED <<clientLinks, fromClient>>
    <3>1. local' \in [ClientWs -> [Ids -> Cli!LocalState]]
      BY <1>1, <2>2, SameNames DEF ClientTyped, Cli!TypeOK, Cli!SetLocal, Cli!LocalState
    <3> QED
      BY <1>1, <2>2, <3>1, SameNames DEF ClientTyped, Cli!TypeOK
  <2> QED
    BY <1>1, <2>1, <2>2 DEF Cli!TcpOpen
<1>2. CASE f.id \in opened[w] /\ Cli!Cleanup(w, f.id) /\ UNCHANGED <<clientLinks, fromClient>>
  <2>1. f.id \in Ids
    BY <1>2, SameNames DEF ClientTyped, Cli!TypeOK
  <2> QED
    BY <1>2, <2>1, CleanupType, SameNames DEF ClientTyped, Cli!TypeOK
<1>3. CASE UNCHANGED Cli!clientVars
  BY <1>3 DEF ClientTyped, Cli!TypeOK, Cli!clientVars
<1> QED
  BY <1>1, <1>2, <1>3 DEF Cli!OnFrame

-----------------------------------------------------------------------------
(* The agent's side. *)
AgentTyped == Agt!TypeOK /\ fromAgent \in [AgentWs -> Seq(AgentFrames)]

LEMMA AgentSendsType ==
  ASSUME AgentTyped, NEW fs \in Seq(AgentFrames), Agt!Sends(fs)
  PROVE  /\ fromAgent' \in [AgentWs -> Seq(AgentFrames)]
         /\ fromAgent' \in [AgentWs -> Seq(Agt!FrameSet)]
<1>1. ASSUME NEW a \in AgentWs PROVE fromAgent[a] \o fs \in Seq(AgentFrames)
  BY ConcatType DEF AgentTyped
<1>2. fromAgent' \in [AgentWs -> Seq(AgentFrames)]
  BY <1>1 DEF AgentTyped, Agt!Sends
<1>3. \A s \in Seq(AgentFrames) : s \in Seq(FrameSet)
  BY SentFrames
<1> QED
  BY <1>2, <1>3, SameNames

(* Report names a stream the connection is bridged to, if there is one. *)
LEMMA ReportIs ==
  ASSUME NEW s, NEW t
  PROVE  \/ Agt!Report(t, s) = <<>> /\ \A i \in Ids : streamed[i] # s
         \/ \E i \in Ids : streamed[i] = s /\ Agt!Report(t, s) = <<Msg(t, i)>>
<1> DEFINE c == CHOOSE i \in Agt!Ids : streamed[i] = s
<1>1. CASE Agt!StreamsOf(s) = {}
  BY <1>1, SameNames DEF Agt!Report, Agt!StreamsOf
<1>2. CASE Agt!StreamsOf(s) # {}
  <2>1. \E i \in Agt!Ids : streamed[i] = s
    BY <1>2 DEF Agt!StreamsOf
  <2>2. c \in Agt!Ids /\ streamed[c] = s
    BY <2>1
  <2>3. Agt!Report(t, s) = <<Agt!Msg(t, c)>>
    BY <1>2 DEF Agt!Report
  <2> HIDE DEF c
  <2> QED
    BY <2>2, <2>3, SameNames
<1> QED
  BY <1>1, <1>2

LEMMA ReportType ==
  ASSUME NEW s, NEW t \in {"TCP_DATA", "TCP_CLOSE", "TCP_ABORT"}
  PROVE  Agt!Report(t, s) \in Seq(AgentFrames)
<1>1. \A i \in Ids : Msg(t, i) \in AgentFrames
  BY DEF AgentFrames
<1>2. <<>> \in Seq(AgentFrames) /\ \A f \in AgentFrames : <<f>> \in Seq(AgentFrames)
  OBVIOUS
<1>3. CASE Agt!Report(t, s) = <<>>
  BY <1>2, <1>3
<1>4. ASSUME NEW i \in Ids, Agt!Report(t, s) = <<Msg(t, i)>> PROVE Agt!Report(t, s) \in Seq(AgentFrames)
  <2>1. Msg(t, i) \in AgentFrames
    BY <1>1
  <2> QED
    BY <1>2, <1>4, <2>1
<1> QED
  BY <1>3, <1>4, ReportIs

(* Taking one element out of a sequence. *)
LEMMA RemoveType ==
  ASSUME NEW T, NEW q \in Seq(T), NEW k \in DOMAIN q
  PROVE  /\ RemoveAt(q, k) \in Seq(T)
         /\ Len(RemoveAt(q, k)) = Len(q) - 1
         /\ \A j \in 1 .. Len(q) - 1 : RemoveAt(q, k)[j] = q[IF j < k THEN j ELSE j + 1]
<1>1. k \in 1 .. Len(q) /\ Len(q) \in Nat
  OBVIOUS
<1> DEFINE u == SubSeq(q, 1, k - 1)
           v == SubSeq(q, k + 1, Len(q))
<1>2. \A j \in 1 .. Len(q) : q[j] \in T
  OBVIOUS
<1>3. u \in Seq(T) /\ Len(u) = k - 1 /\ \A j \in 1 .. k - 1 : u[j] = q[j]
  BY <1>1, <1>2, SubSeqProperties, 0 \in Int
<1>4. v \in Seq(T) /\ Len(v) = Len(q) - k /\ \A j \in 1 .. Len(q) - k : v[j] = q[k + j]
  BY <1>1, <1>2, SubSeqProperties
<1>5. RemoveAt(q, k) = u \o v
  BY DEF RemoveAt
<1> HIDE DEF u, v
<1>6. u \o v \in Seq(T) /\ Len(u \o v) = Len(q) - 1
  BY <1>1, <1>3, <1>4
<1>7. \A j \in 1 .. Len(q) - 1 : (u \o v)[j] = IF j < k THEN u[j] ELSE v[j - (k - 1)]
  <2>1. Len(u) + Len(v) = Len(q) - 1
    BY <1>1, <1>3, <1>4
  <2>2. \A j \in 1 .. Len(u) + Len(v) : (u \o v)[j] = IF j <= Len(u) THEN u[j] ELSE v[j - Len(u)]
    BY <1>3, <1>4
  <2> QED
    BY <1>1, <1>3, <2>1, <2>2
<1>8. ASSUME NEW j \in 1 .. Len(q) - 1 PROVE (u \o v)[j] = q[IF j < k THEN j ELSE j + 1]
  <2>1. CASE j < k
    BY <1>1, <1>3, <1>7, <2>1
  <2>2. CASE ~(j < k)
    <3>1. j - (k - 1) \in 1 .. Len(q) - k /\ k + (j - (k - 1)) = j + 1
      BY <1>1, <2>2
    <3>2. v[j - (k - 1)] = q[k + (j - (k - 1))]
      BY <1>4, <3>1
    <3> QED
      BY <1>7, <2>2, <3>1, <3>2
  <2> QED
    BY <2>1, <2>2
<1> QED
  BY <1>5, <1>6, <1>8

(* removePending takes one connection out, at one place. *)
LEMMA WithoutIs ==
  ASSUME NEW s, pending \in Seq(Socks)
  PROVE  /\ Agt!Without(s) \in Seq(Socks)
         /\ \/ s \notin Agt!Waiting /\ Agt!Without(s) = pending
            \/ \E k \in DOMAIN pending : pending[k] = s /\ Agt!Without(s) = RemoveAt(pending, k)
<1>1. CASE s \in Agt!Waiting
  <2> DEFINE c == CHOOSE k \in DOMAIN pending : pending[k] = s
  <2>1. \E k \in DOMAIN pending : pending[k] = s
    BY <1>1, SameNames DEF Agt!Waiting, ToSet
  <2>2. c \in DOMAIN pending /\ pending[c] = s
    BY <2>1
  <2>3. Agt!Without(s) = RemoveAt(pending, c)
    BY <1>1, SameNames DEF Agt!Without
  <2> HIDE DEF c
  <2> QED
    BY <2>2, <2>3, RemoveType
<1>2. CASE s \notin Agt!Waiting
  BY <1>2 DEF Agt!Without
<1> QED
  BY <1>1, <1>2

(* The agent's own steps. *)
AgentMoves ==
  \/ \E s \in Socks : Agt!AppConnect(s) \/ Agt!AppEnds(s) \/ Agt!AppFails(s)
                      \/ Agt!AppClosed(s) \/ Agt!AppData(s)
  \/ \E a \in AgentWs : Agt!LinkOpens(a) \/ Agt!LinkBreaks(a) \/ Agt!LinkCloses(a)

LEMMA AppGoneType ==
  ASSUME AgentTyped, NEW s \in Socks, NEW t \in {"TCP_CLOSE", "TCP_ABORT"}, Agt!AppGone(s, t)
  PROVE  AgentTyped'
<1>1. Agt!Sends(Agt!Report(t, s)) /\ pending' = Agt!Without(s)
  BY DEF Agt!AppGone
<1>2. /\ fromAgent' \in [AgentWs -> Seq(AgentFrames)]
      /\ fromAgent' \in [AgentWs -> Seq(Agt!FrameSet)]
  BY <1>1, ReportType, AgentSendsType
<1>3. pending' \in Seq(Socks)
  BY <1>1, WithoutIs DEF AgentTyped, Agt!TypeOK
<1>4. streamed' \in [Agt!Ids -> Socks \cup {Agt!NoSock}]
  BY DEF Agt!AppGone, Agt!Detached, AgentTyped, Agt!TypeOK
<1>5. sock' \in [Socks -> Agt!SockState] /\ agentLinks' = agentLinks
  BY DEF Agt!AppGone, AgentTyped, Agt!TypeOK, Agt!SockState
<1> QED
  BY <1>2, <1>3, <1>4, <1>5 DEF AgentTyped, Agt!TypeOK

LEMMA AgentMovesType ==
  ASSUME AgentTyped, AgentMoves
  PROVE  AgentTyped'
<1>1. ASSUME NEW s \in Socks, Agt!AppConnect(s) PROVE AgentTyped'
  <2>1. sock' \in [Socks -> Agt!SockState]
    BY <1>1 DEF Agt!AppConnect, AgentTyped, Agt!TypeOK, Agt!SockState
  <2>2. CASE Agt!wsReady
    <3>1. /\ pending' = Append(pending, s)
          /\ Agt!Sends(<<Agt!Frame("TCP_CONNECT", 0, SockPort[s])>>)
          /\ UNCHANGED <<streamed, agentLinks>>
      BY <1>1, <2>2 DEF Agt!AppConnect
    <3>2. Frame("TCP_CONNECT", 0, SockPort[s]) \in AgentFrames
      BY TunnelAssumption DEF AgentFrames
    <3>3. <<Agt!Frame("TCP_CONNECT", 0, SockPort[s])>> \in Seq(AgentFrames)
      BY <3>2, SameNames
    <3>4. pending' \in Seq(Socks)
      BY <3>1 DEF AgentTyped, Agt!TypeOK
    <3> QED
      BY <2>1, <3>1, <3>3, <3>4, AgentSendsType DEF AgentTyped, Agt!TypeOK
  <2>3. CASE ~Agt!wsReady
    BY <1>1, <2>1, <2>3 DEF Agt!AppConnect, AgentTyped, Agt!TypeOK
  <2> QED
    BY <2>2, <2>3
<1>2. ASSUME NEW s \in Socks, Agt!AppEnds(s) PROVE AgentTyped'
  BY <1>2 DEF Agt!AppEnds, AgentTyped, Agt!TypeOK, Agt!SockState
<1>3. ASSUME NEW s \in Socks, Agt!AppFails(s) \/ Agt!AppClosed(s) PROVE AgentTyped'
  BY <1>3, AppGoneType DEF Agt!AppFails, Agt!AppClosed
<1>4. ASSUME NEW s \in Socks, Agt!AppData(s) PROVE AgentTyped'
  <2>1. Agt!Sends(Agt!Report("TCP_DATA", s)) /\ UNCHANGED <<sock, pending, streamed, agentLinks>>
    BY <1>4 DEF Agt!AppData
  <2> QED
    BY <2>1, ReportType, AgentSendsType DEF AgentTyped, Agt!TypeOK
<1>5. ASSUME NEW a \in AgentWs, Agt!LinkOpens(a) \/ Agt!LinkBreaks(a) PROVE AgentTyped'
  BY <1>5 DEF AgentTyped, Agt!TypeOK, Agt!LinkOpens, Agt!LinkBreaks, Agt!LinkState
<1>6. ASSUME NEW a \in AgentWs, Agt!LinkCloses(a) PROVE AgentTyped'
  <2>1. sock' \in [Socks -> Agt!SockState]
    BY <1>6 DEF AgentTyped, Agt!TypeOK, Agt!LinkCloses, Agt!SockState
  <2>2. streamed' \in [Agt!Ids -> Socks \cup {Agt!NoSock}] /\ pending' \in Seq(Socks)
    BY <1>6 DEF Agt!LinkCloses
  <2>3. agentLinks' \in [AgentWs -> Agt!LinkState] /\ fromAgent' = fromAgent
    BY <1>6 DEF AgentTyped, Agt!TypeOK, Agt!LinkCloses, Agt!LinkState
  <2> QED
    BY <2>1, <2>2, <2>3 DEF AgentTyped, Agt!TypeOK
<1> QED
  BY <1>1, <1>2, <1>3, <1>4, <1>5, <1>6 DEF AgentMoves

(* A frame that reaches the agent. *)
LEMMA AgentOnFrameType ==
  ASSUME AgentTyped, NEW f, Agt!OnFrame(f)
  PROVE  AgentTyped'
<1>1. CASE UNCHANGED Agt!agentVars
  BY <1>1 DEF AgentTyped, Agt!TypeOK, Agt!agentVars
<1>2. ASSUME NEW k \in DOMAIN pending, pending' = RemoveAt(pending, k),
             UNCHANGED <<agentLinks, fromAgent>>,
             \/ UNCHANGED sock /\ streamed' = IF sock[pending[k]] = "open"
                                              THEN [streamed EXCEPT ![f.id] = pending[k]] ELSE streamed
             \/ UNCHANGED streamed /\ sock' = [sock EXCEPT ![pending[k]] = "closed"]
      PROVE  AgentTyped'
  <2>1. pending[k] \in Socks /\ pending' \in Seq(Socks)
    BY <1>2, RemoveType DEF AgentTyped, Agt!TypeOK
  <2>2. streamed' \in [Agt!Ids -> Socks \cup {Agt!NoSock}]
    BY <1>2, <2>1 DEF AgentTyped, Agt!TypeOK
  <2>3. sock' \in [Socks -> Agt!SockState]
    BY <1>2, <2>1 DEF AgentTyped, Agt!TypeOK, Agt!SockState
  <2> QED
    BY <1>2, <2>1, <2>2, <2>3 DEF AgentTyped, Agt!TypeOK
<1>3. CASE Agt!ConnectAck(f.id, f.port)
  BY <1>1, <1>2, <1>3, SameNames DEF Agt!ConnectAck, Agt!IsFirst
<1>4. CASE Agt!ConnectReject(f.port)
  BY <1>1, <1>2, <1>4, SameNames DEF Agt!ConnectReject, Agt!IsFirst
<1>5. CASE Agt!StreamEnds(f.id)
  <2>1. CASE f.id \in Agt!Ids /\ streamed[f.id] # Agt!NoSock
    <3>1. /\ streamed' = [streamed EXCEPT ![f.id] = Agt!NoSock]
          /\ sock' = [sock EXCEPT ![streamed[f.id]] = "closed"]
          /\ UNCHANGED <<pending, agentLinks, fromAgent>>
      BY <1>5, <2>1 DEF Agt!StreamEnds
    <3> QED
      BY <3>1 DEF AgentTyped, Agt!TypeOK, Agt!SockState
  <2> QED
    BY <1>1, <1>5, <2>1 DEF Agt!StreamEnds
<1> QED
  BY <1>1, <1>3, <1>4, <1>5 DEF Agt!OnFrame

-----------------------------------------------------------------------------
(* What a channel holds about one stream: the types of the frames that name *)
(* it, and whether the frame that opens the stream there comes before those *)
(* that end it.                                                             *)
Endings == {"TCP_CLOSE", "TCP_ABORT", "RES_ABORT"}

Kinds(q, i) == {q[k].type : k \in {k \in DOMAIN q : q[k].id = i}}

Leads(q, t, i) ==
  \A j, k \in DOMAIN q :
    q[j].id = i /\ q[k].id = i /\ q[k].type = t /\ q[j].type \in Endings \cup {t} => k <= j

(* The ports that the frames of type t about i name. *)
Named(q, t, i) == {q[k].port : k \in {k \in DOMAIN q : q[k].id = i /\ q[k].type = t}}

(* r is q with frames about i of the types in X added. *)
Adds(q, r, X, i) ==
  /\ Kinds(q, i) \subseteq Kinds(r, i)
  /\ Kinds(r, i) \subseteq Kinds(q, i) \cup X
  /\ \A t : t \notin X /\ Leads(q, t, i) => Leads(r, t, i)
  /\ \A t : t \notin X => Named(r, t, i) \subseteq Named(q, t, i)

LEMMA KindsMeans ==
  ASSUME NEW q, NEW i, NEW t
  PROVE  t \in Kinds(q, i) <=> \E k \in DOMAIN q : q[k].id = i /\ q[k].type = t
  BY DEF Kinds

LEMMA KindsNone == ASSUME NEW i PROVE Kinds(<<>>, i) = {}
  BY DEF Kinds

LEMMA KindsOne ==
  ASSUME NEW f, NEW i
  PROVE  Kinds(<<f>>, i) = IF f.id = i THEN {f.type} ELSE {}
<1>1. DOMAIN <<f>> = {1} /\ <<f>>[1] = f
  OBVIOUS
<1> QED
  BY <1>1 DEF Kinds

LEMMA KindsConcat ==
  ASSUME NEW T, NEW q \in Seq(T), NEW r \in Seq(T), NEW i
  PROVE  Kinds(q \o r, i) = Kinds(q, i) \cup Kinds(r, i)
<1>1. Len(q) \in Nat /\ Len(r) \in Nat /\ DOMAIN q = 1 .. Len(q) /\ DOMAIN r = 1 .. Len(r)
  OBVIOUS
<1>2. /\ DOMAIN (q \o r) = 1 .. Len(q) + Len(r)
      /\ \A k \in 1 .. Len(q) : (q \o r)[k] = q[k]
      /\ \A k \in 1 .. Len(r) : (q \o r)[Len(q) + k] = r[k]
  OBVIOUS
<1> DEFINE p == q \o r
<1> HIDE DEF p
<1>3. ASSUME NEW t \in Kinds(p, i) PROVE t \in Kinds(q, i) \cup Kinds(r, i)
  <2>1. PICK k \in DOMAIN p : p[k].id = i /\ p[k].type = t
    BY <1>3, KindsMeans
  <2>2. CASE k \in 1 .. Len(q)
    BY <1>1, <1>2, <2>1, <2>2, KindsMeans DEF p
  <2>3. CASE k \notin 1 .. Len(q)
    <3>1. k - Len(q) \in 1 .. Len(r) /\ Len(q) + (k - Len(q)) = k
      BY <1>1, <1>2, <2>1, <2>3 DEF p
    <3>2. p[k] = r[k - Len(q)]
      BY <1>2, <3>1 DEF p
    <3> QED
      BY <1>1, <2>1, <3>1, <3>2, KindsMeans
  <2> QED
    BY <2>2, <2>3
<1>4. ASSUME NEW t \in Kinds(q, i) PROVE t \in Kinds(p, i)
  <2>1. PICK k \in DOMAIN q : q[k].id = i /\ q[k].type = t
    BY <1>4, KindsMeans
  <2>2. k \in DOMAIN p /\ p[k] = q[k]
    BY <1>1, <1>2, <2>1 DEF p
  <2> QED
    BY <2>1, <2>2, KindsMeans
<1>5. ASSUME NEW t \in Kinds(r, i) PROVE t \in Kinds(p, i)
  <2>1. PICK k \in DOMAIN r : r[k].id = i /\ r[k].type = t
    BY <1>5, KindsMeans
  <2>2. Len(q) + k \in DOMAIN p /\ p[Len(q) + k] = r[k]
    BY <1>1, <1>2, <2>1 DEF p
  <2> QED
    BY <2>1, <2>2, KindsMeans
<1> QED
  BY <1>3, <1>4, <1>5 DEF p

LEMMA KindsPut ==
  ASSUME NEW T, NEW q \in Seq(T), NEW f \in T, NEW i
  PROVE  Kinds(q \o <<f>>, i) = Kinds(q, i) \cup (IF f.id = i THEN {f.type} ELSE {})
<1>1. <<f>> \in Seq(T)
  OBVIOUS
<1>2. \A r \in Seq(T) : Kinds(q \o r, i) = Kinds(q, i) \cup Kinds(r, i)
  BY KindsConcat
<1>3. Kinds(<<f>>, i) = IF f.id = i THEN {f.type} ELSE {}
  BY KindsOne
<1>4. Kinds(q \o <<f>>, i) = Kinds(q, i) \cup Kinds(<<f>>, i)
  BY <1>1, <1>2
<1> QED
  BY <1>3, <1>4

(* What is sent adds its own types. *)
LEMMA AddsConcat ==
  ASSUME NEW T, NEW q \in Seq(T), NEW r \in Seq(T), NEW i, NEW X, Kinds(r, i) \subseteq X
  PROVE  Adds(q, q \o r, X, i)
<1>1. Kinds(q \o r, i) = Kinds(q, i) \cup Kinds(r, i)
  BY KindsConcat
<1>2. Len(q) \in Nat /\ Len(r) \in Nat /\ DOMAIN q = 1 .. Len(q) /\ DOMAIN r = 1 .. Len(r)
  OBVIOUS
<1>3. /\ DOMAIN (q \o r) = 1 .. Len(q) + Len(r)
      /\ \A k \in 1 .. Len(q) : (q \o r)[k] = q[k]
      /\ \A k \in 1 .. Len(r) : (q \o r)[Len(q) + k] = r[k]
  OBVIOUS
<1> DEFINE p == q \o r
<1>4. ASSUME NEW t, t \notin X, Leads(q, t, i) PROVE Leads(p, t, i)
  <2> HIDE DEF p
  <2> SUFFICES ASSUME NEW j \in DOMAIN p, NEW k \in DOMAIN p, p[j].id = i, p[k].id = i, p[k].type = t,
                      p[j].type \in Endings \cup {t}
               PROVE  k <= j
    BY DEF Leads
  <2>1. k \in 1 .. Len(q)
    <3> SUFFICES ASSUME k \notin 1 .. Len(q) PROVE FALSE
      OBVIOUS
    <3>0. k \in 1 .. Len(q) + Len(r)
      BY <1>3 DEF p
    <3>1. k - Len(q) \in 1 .. Len(r) /\ Len(q) + (k - Len(q)) = k
      BY <1>2, <3>0
    <3>2. p[k] = r[k - Len(q)]
      BY <1>3, <3>1 DEF p
    <3>3. r[k - Len(q)].id = i /\ r[k - Len(q)].type = t /\ k - Len(q) \in DOMAIN r
      BY <1>2, <3>1, <3>2
    <3>4. t \in Kinds(r, i)
      BY <3>3, KindsMeans
    <3> QED
      BY <1>4, <3>4
  <2>2. CASE j \in 1 .. Len(q)
    BY <1>2, <1>3, <1>4, <2>1, <2>2 DEF p, Leads
  <2>3. CASE j \notin 1 .. Len(q)
    BY <1>2, <1>3, <2>1, <2>3 DEF p
  <2> QED
    BY <2>2, <2>3
<1>5. ASSUME NEW t, t \notin X, NEW x \in Named(p, t, i) PROVE x \in Named(q, t, i)
  <2> HIDE DEF p
  <2>1. PICK k \in DOMAIN p : p[k].id = i /\ p[k].type = t /\ x = p[k].port
    BY <1>5 DEF Named
  <2>2. CASE k \in 1 .. Len(q)
    <3>1. p[k] = q[k] /\ k \in DOMAIN q
      BY <1>2, <1>3, <2>2 DEF p
    <3> QED
      BY <2>1, <3>1 DEF Named
  <2>3. CASE k \notin 1 .. Len(q)
    <3>1. k - Len(q) \in 1 .. Len(r) /\ Len(q) + (k - Len(q)) = k
      BY <1>2, <1>3, <2>1, <2>3 DEF p
    <3>2. p[k] = r[k - Len(q)] /\ k - Len(q) \in DOMAIN r
      BY <1>2, <1>3, <3>1 DEF p
    <3>3. t \in Kinds(r, i)
      BY <2>1, <3>2, KindsMeans
    <3> QED
      BY <1>5, <3>3
  <2> QED
    BY <2>2, <2>3
<1> QED
  BY <1>1, <1>4, <1>5 DEF Adds

LEMMA AddsNothing == ASSUME NEW q, NEW X, NEW i PROVE Adds(q, q, X, i)
  BY DEF Adds

LEMMA AddsMore ==
  ASSUME NEW q, NEW r, NEW i, NEW X, NEW Y, X \subseteq Y, Adds(q, r, X, i)
  PROVE  Adds(q, r, Y, i)
  BY DEF Adds

(* The first frame that opens a stream, sent before any that ends it. *)
LEMMA LeadsFirst ==
  ASSUME NEW T, NEW q \in Seq(T), NEW f \in T, Kinds(q, f.id) \cap (Endings \cup {f.type}) = {}
  PROVE  Leads(q \o <<f>>, f.type, f.id)
<1>1. Len(q) \in Nat /\ DOMAIN q = 1 .. Len(q)
  OBVIOUS
<1>2. \A k \in 1 .. Len(q) : q[k].id = f.id => q[k].type \notin Endings \cup {f.type}
  BY <1>1 DEF Kinds
<1> DEFINE p == q \o <<f>>
<1>3. DOMAIN p = 1 .. Len(q) + 1 /\ \A k \in 1 .. Len(q) : p[k] = q[k]
  BY <1>1
<1> HIDE DEF p
<1>4. \A k \in DOMAIN p : p[k].id = f.id /\ p[k].type \in Endings \cup {f.type} => k = Len(q) + 1
  BY <1>1, <1>2, <1>3
<1>5. Leads(p, f.type, f.id)
  BY <1>1, <1>4 DEF Leads
<1> QED
  BY <1>5 DEF p

(* Taking the head. *)
LEMMA KindsTail ==
  ASSUME NEW T, NEW q \in Seq(T), q # <<>>, NEW i
  PROVE  /\ Kinds(Tail(q), i) \subseteq Kinds(q, i)
         /\ Kinds(q, i) = Kinds(Tail(q), i) \cup (IF Head(q).id = i THEN {Head(q).type} ELSE {})
         /\ \A t : Leads(q, t, i) => Leads(Tail(q), t, i)
         /\ \A t : Named(Tail(q), t, i) \subseteq Named(q, t, i)
         /\ Head(q).id = i => Head(q).port \in Named(q, Head(q).type, i)
         /\ \A t : Leads(q, t, i) /\ Head(q).id = i /\ Head(q).type \in Endings \cup {t}
                     => t \notin Kinds(Tail(q), i)
<1>1. Len(q) \in Nat \ {0} /\ DOMAIN q = 1 .. Len(q) /\ Head(q) = q[1]
  OBVIOUS
<1> DEFINE r == Tail(q)
<1>2. DOMAIN r = 1 .. Len(q) - 1 /\ \A k \in 1 .. Len(q) - 1 : r[k] = q[k + 1]
  BY <1>1
<1> HIDE DEF r
<1>3. ASSUME NEW t \in Kinds(r, i)
      PROVE  \E k \in DOMAIN r : r[k].id = i /\ r[k].type = t /\ k + 1 \in DOMAIN q /\ q[k + 1] = r[k] /\ k \in Nat \ {0}
  BY <1>1, <1>2, KindsMeans
<1>4. Kinds(r, i) \subseteq Kinds(q, i)
  BY <1>3, KindsMeans
<1>5. Kinds(q, i) = Kinds(r, i) \cup (IF Head(q).id = i THEN {Head(q).type} ELSE {})
  <2>1. ASSUME NEW t \in Kinds(q, i), t \notin Kinds(r, i) PROVE Head(q).id = i /\ t = Head(q).type
    <3>1. PICK k \in DOMAIN q : q[k].id = i /\ q[k].type = t
      BY <2>1, KindsMeans
    <3>2. CASE k = 1
      BY <1>1, <3>1, <3>2
    <3>3. CASE k # 1
      <4>1. k - 1 \in DOMAIN r /\ r[k - 1] = q[k]
        BY <1>1, <1>2, <3>3
      <4> QED
        BY <2>1, <3>1, <4>1, KindsMeans
    <3> QED
      BY <3>2, <3>3
  <2>2. Head(q).id = i => Head(q).type \in Kinds(q, i)
    BY <1>1, KindsMeans
  <2> QED
    BY <1>4, <2>1, <2>2
<1>6. ASSUME NEW t, Leads(q, t, i) PROVE Leads(r, t, i)
  <2> SUFFICES ASSUME NEW j \in DOMAIN r, NEW k \in DOMAIN r, r[j].id = i, r[k].id = i, r[k].type = t,
                      r[j].type \in Endings \cup {t}
               PROVE  k <= j
    BY DEF Leads
  <2>1. k + 1 \in DOMAIN q /\ j + 1 \in DOMAIN q /\ r[k] = q[k + 1] /\ r[j] = q[j + 1]
    BY <1>1, <1>2
  <2>2. k + 1 <= j + 1
    BY <1>6, <2>1 DEF Leads
  <2> QED
    BY <1>1, <1>2, <2>2
<1>7. ASSUME NEW t, Leads(q, t, i), Head(q).id = i, Head(q).type \in Endings \cup {t}, t \in Kinds(r, i)
      PROVE  FALSE
  <2>1. PICK k \in DOMAIN r : r[k].id = i /\ r[k].type = t /\ k + 1 \in DOMAIN q /\ q[k + 1] = r[k] /\ k \in Nat \ {0}
    BY <1>3, <1>7
  <2>2. k + 1 <= 1
    BY <1>1, <1>7, <2>1 DEF Leads
  <2> QED
    BY <2>1, <2>2
<1>8. ASSUME NEW t, NEW x \in Named(r, t, i) PROVE x \in Named(q, t, i)
  <2>1. PICK k \in DOMAIN r : r[k].id = i /\ r[k].type = t /\ x = r[k].port
    BY <1>8 DEF Named
  <2>2. k + 1 \in DOMAIN q /\ q[k + 1] = r[k]
    BY <1>1, <1>2, <2>1
  <2> QED
    BY <2>1, <2>2 DEF Named
<1>9. Head(q).id = i => Head(q).port \in Named(q, Head(q).type, i)
  BY <1>1 DEF Named
<1> QED
  BY <1>4, <1>5, <1>6, <1>7, <1>8, <1>9 DEF r

(* sendFrame adds the frames to one channel, if that is open. *)
LEMMA PostAdds ==
  ASSUME NEW W, NEW q \in [W -> Seq(FrameSet)], NEW st, NEW v, NEW fs \in Seq(FrameSet), NEW i
  PROVE  /\ \A w \in W : Adds(q[w], PostAll(q, st, v, fs)[w], IF w = v THEN Kinds(fs, i) ELSE {}, i)
         /\ v \in W /\ st[v] = "open" => Kinds(fs, i) \subseteq Kinds(PostAll(q, st, v, fs)[v], i)
<1> DEFINE r == PostAll(q, st, v, fs)
<1>1. CASE v \in W /\ st[v] = "open"
  <2>1. r = [q EXCEPT ![v] = q[v] \o fs]
    BY <1>1 DEF PostAll
  <2> HIDE DEF r
  <2>2. Adds(q[v], q[v] \o fs, Kinds(fs, i), i) /\ Kinds(q[v] \o fs, i) = Kinds(q[v], i) \cup Kinds(fs, i)
    BY <1>1, AddsConcat, KindsConcat
  <2>3. r[v] = q[v] \o fs /\ \A w \in W : w # v => r[w] = q[w]
    BY <1>1, <2>1
  <2>4. \A w \in W : Adds(q[w], r[w], IF w = v THEN Kinds(fs, i) ELSE {}, i)
    BY <2>2, <2>3, AddsNothing
  <2> QED
    BY <2>2, <2>3, <2>4 DEF r
<1>2. CASE ~(v \in W /\ st[v] = "open")
  <2>1. r = q
    BY <1>2 DEF PostAll
  <2> QED
    BY <1>2, <2>1, AddsNothing
<1> QED
  BY <1>1, <1>2

-----------------------------------------------------------------------------
(* What a turn of the server does about one stream, as far as the other two *)
(* ends can tell: what it sends, what becomes of the stream's slot, and     *)
(* what it takes from the channels that lead to it.                         *)
Live(i) == streams[i].kind # "free"

Acked(a, i) == "TCP_CONNECT_ACK" \in Kinds(toAgent[a], i)

Feed(q, r, st, stNext, X, i) ==
  \/ r = <<>> /\ stNext # "open"
  \/ Adds(q, r, X, i) /\ (stNext = "open" => st = "open")

Feeds(i, X, b, Y) ==
  /\ \A w \in ClientWs :
       Feed(toClient[w], toClient'[w], clients[w], clients'[w], IF w = streams[i].ws THEN X ELSE {}, i)
  /\ \A a \in AgentWs :
       Feed(toAgent[a], toAgent'[a], agents[a], agents'[a], IF a = b THEN Y ELSE {}, i)
  /\ \A a \in AgentWs : i \in agentStreams'[a] => i \in agentStreams[a]

(* The slot is as it was, and a client that has the stream keeps what it    *)
(* was sent.                                                                *)
Stays(i, X) ==
  /\ streams'[i] = streams[i]
  /\ Live(i) => \A w \in ClientWs : w = streams[i].ws => Adds(toClient[w], toClient'[w], X, i)

Calm(i) == Stays(i, {}) /\ Feeds(i, {}, NoWs, {})

(* Data passes; to the client not before the stream is confirmed. *)
DataOf(i) == IF IsAgent(i) /\ streams[i].awaiting THEN {} ELSE {"TCP_DATA"}

Flows(i) == Live(i) /\ Stays(i, DataOf(i)) /\ Feeds(i, DataOf(i), streams[i].agent, {"TCP_DATA"})

(* An agent's frame finds no stream of an agent. *)
Strays(i) ==
  /\ ~IsAgent(i) /\ Stays(i, {})
  /\ \E b \in AgentWs : Kinds(fromAgent[b], i) # {} /\ Feeds(i, {}, b, {"TCP_ABORT"})

(* The client's TCP_OPEN_ACK is passed on as TCP_CONNECT_ACK. *)
Acks(i) ==
  /\ IsAgent(i) /\ streams[i].awaiting
  /\ \E w \in ClientWs : w = streams[i].ws /\ "TCP_OPEN_ACK" \in Kinds(fromClient[w], i)
  /\ streams' = [streams EXCEPT ![i].awaiting = FALSE]
  /\ toAgent' = Post(toAgent, agents, streams[i].agent, Frame("TCP_CONNECT_ACK", i, streams[i].port))
  /\ UNCHANGED <<toClient, clients, agents, agentStreams>>

(* The stream ends, and who had a part in it is told. *)
Told(i) ==
  /\ \A w \in ClientWs :
       w = streams[i].ws /\ clients'[w] = "open" /\ (i \in opened[w] \/ "TCP_OPEN" \in Kinds(toClient[w], i))
         => Kinds(toClient'[w], i) \cap Endings # {}
  /\ \A a \in AgentWs :
       IsAgent(i) /\ a = streams[i].agent /\ agents'[a] = "open" /\ (streamed[i] # Agt!NoSock \/ Acked(a, i))
         => Kinds(toAgent'[a], i) \cap Endings # {} \/ i \in idled

Ends(i) ==
  /\ Live(i) /\ streams'[i] = Free
  /\ Feeds(i, {"TCP_ABORT", "TCP_CLOSE"}, streams[i].agent, {"TCP_ABORT", "TCP_CLOSE"})
  /\ Told(i)

(* A slot is taken. *)
Opens(i) ==
  LET s == streams'[i] IN
  /\ Allocates(i)
  /\ s.kind \in {"agent", "direct"} /\ s.ws \in ClientWs /\ s.port \in Ports
  /\ s.awaiting <=> s.kind = "agent"
  /\ s.kind = "agent" => s.agent \in AgentWs
  /\ clients[s.ws] = "open"
  /\ toClient' = Post(toClient, clients, s.ws, Frame("TCP_OPEN", i, s.port))
  /\ \A a \in AgentWs : i \in agentStreams'[a] => i \in agentStreams[a] \/ (s.kind = "agent" /\ s.agent = a)
  /\ UNCHANGED <<toAgent, clients, agents>>

(* No frame to a client is about stream 0. *)
NoZero == \A w \in ClientWs : Kinds(toClient[w], 0) = {}

(* A channel whose end is no longer open takes nothing more; it is emptied  *)
(* when its WebSocket has closed, and by then no stream is left on it.      *)
Hushed ==
  /\ \A w \in ClientWs :
       /\ clients[w] # "open" => toClient'[w] \in {toClient[w], <<>>}
       /\ clients'[w] = "absent" =>
            \/ clients[w] = "absent"
            \/ toClient'[w] = <<>> /\ \A i \in Ids : Live(i)' => streams'[i].ws # w
  /\ \A a \in AgentWs :
       /\ agents[a] # "open" => toAgent'[a] \in {toAgent[a], <<>>}
       /\ agents'[a] = "absent" => agents[a] = "absent" \/ toAgent'[a] = <<>>

Turn ==
  /\ Hushed
  /\ NoZero => NoZero'
  /\ \/ /\ nextId' = nextId
        /\ \A i \in Ids : Calm(i) \/ Flows(i) \/ Strays(i) \/ Acks(i) \/ Ends(i)
     \/ \E j \in Ids : Opens(j) /\ \A i \in Ids : i # j => Calm(i)

(* Frames are sent, and no WebSocket changes its state. *)
LEMMA HushedIf ==
  ASSUME TypeOK, UNCHANGED <<clients, agents>>,
         toClient' = toClient \/ \E v, fs : toClient' = PostAll(toClient, clients, v, fs),
         toAgent' = toAgent \/ \E v, fs : toAgent' = PostAll(toAgent, agents, v, fs)
  PROVE  Hushed
<1>1. \A w \in ClientWs : clients[w] # "open" => toClient'[w] = toClient[w]
  BY DEF TypeOK, PostAll
<1>2. \A a \in AgentWs : agents[a] # "open" => toAgent'[a] = toAgent[a]
  BY DEF TypeOK, PostAll
<1> QED
  BY <1>1, <1>2 DEF Hushed

(* A turn in which no frame moves and no stream changes. *)
LEMMA StillTurn ==
  ASSUME UNCHANGED <<streams, nextId, toClient, toAgent, agentStreams>>,
         \A w \in ClientWs : clients'[w] \in {clients[w], "closing"},
         \A a \in AgentWs : agents'[a] \in {agents[a], "closing"}
  PROVE  Turn
<1>1. ASSUME NEW i \in Ids PROVE Calm(i)
  BY AddsNothing DEF Calm, Stays, Feeds, Feed
<1>2. NoZero => NoZero'
  BY DEF NoZero
<1>3. Hushed
  BY DEF Hushed
<1> QED
  BY <1>1, <1>2, <1>3 DEF Turn

LEMMA VarsStill == ASSUME UNCHANGED vars PROVE Turn
  BY StillTurn DEF vars, wsVars, streamVars, channels

(* The frames about one stream j, and those that name none. *)
AreOf(fs, j, X) == \A k \in DOMAIN fs : fs[k].id \in {j, 0} /\ (fs[k].id = j => fs[k].type \in X)

LEMMA KindsAreOf ==
  ASSUME NEW fs \in Seq(FrameSet), NEW j \in Ids, NEW X, AreOf(fs, j, X)
  PROVE  /\ Kinds(fs, j) \subseteq X
         /\ \A i \in Ids : i # j => Kinds(fs, i) = {}
  BY DEF AreOf, Kinds, Ids

(* Frames that are only added feed every channel. *)
LEMMA FeedsIf ==
  ASSUME NEW i, NEW X, NEW b, NEW Y,
         \A w \in ClientWs : Adds(toClient[w], toClient'[w], IF w = streams[i].ws THEN X ELSE {}, i),
         \A a \in AgentWs : Adds(toAgent[a], toAgent'[a], IF a = b THEN Y ELSE {}, i),
         \A w \in ClientWs : clients'[w] = "open" => clients[w] = "open",
         \A a \in AgentWs : agents'[a] = "open" => agents[a] = "open",
         \A a \in AgentWs : i \in agentStreams'[a] => i \in agentStreams[a]
  PROVE  Feeds(i, X, b, Y)
  BY DEF Feeds, Feed

LEMMA CalmIf ==
  ASSUME NEW i, streams'[i] = streams[i],
         \A w \in ClientWs : Adds(toClient[w], toClient'[w], {}, i),
         \A a \in AgentWs : Adds(toAgent[a], toAgent'[a], {}, i),
         \A w \in ClientWs : clients'[w] = "open" => clients[w] = "open",
         \A a \in AgentWs : agents'[a] = "open" => agents[a] = "open",
         \A a \in AgentWs : i \in agentStreams'[a] => i \in agentStreams[a]
  PROVE  Calm(i)
<1>1. \A v : Adds(toClient[v], toClient'[v], {}, i) => Adds(toClient[v], toClient'[v], IF v = streams[i].ws THEN {} ELSE {}, i)
  BY AddsMore
<1>2. \A a : Adds(toAgent[a], toAgent'[a], {}, i) => Adds(toAgent[a], toAgent'[a], IF a = NoWs THEN {} ELSE {}, i)
  BY AddsMore
<1>3. Feeds(i, {}, NoWs, {})
  BY <1>1, <1>2 DEF Feeds, Feed
<1> QED
  BY <1>3 DEF Calm, Stays

(* The end of one stream. *)
LEMMA EndTurn ==
  ASSUME TypeOK, NEW j \in Ids, Live(j), NEW toA \in Seq(FrameSet), NEW toC \in Seq(FrameSet),
         AreOf(toA, j, {"TCP_ABORT", "TCP_CLOSE"}), AreOf(toC, j, {"TCP_ABORT", "TCP_CLOSE"}),
         \A k \in DOMAIN toC : toC[k].id # 0,
         EndStream(j, toA, toC),
         \/ Kinds(toC, j) \cap Endings # {}
         \/ \A w \in ClientWs : w = streams[j].ws => j \notin opened[w] /\ "TCP_OPEN" \notin Kinds(toClient[w], j),
         \/ Kinds(toA, j) \cap Endings # {}
         \/ j \in idled
         \/ \A a \in AgentWs : IsAgent(j) /\ a = streams[j].agent => streamed[j] = Agt!NoSock /\ ~Acked(a, j)
  PROVE  Turn
<1> DEFINE E == {"TCP_ABORT", "TCP_CLOSE"}
<1>1. /\ streams' = [i \in Ids |-> IF i \in {j} THEN Free ELSE streams[i]]
      /\ agentStreams' = Disowned({j})
      /\ toAgent' = IF IsAgent(j) THEN PostAll(toAgent, agents, streams[j].agent, toA) ELSE toAgent
      /\ toClient' = PostAll(toClient, clients, streams[j].ws, toC)
      /\ clients' = clients /\ agents' = agents /\ nextId' = nextId
  BY DEF EndStream, Freed, wsVars
<1>2. toClient \in [ClientWs -> Seq(FrameSet)] /\ toAgent \in [AgentWs -> Seq(FrameSet)]
  BY DEF TypeOK
<1>3. ASSUME NEW i PROVE \A w \in ClientWs :
        Adds(toClient[w], toClient'[w], IF w = streams[j].ws THEN Kinds(toC, i) ELSE {}, i)
  BY <1>1, <1>2, PostAdds
<1>4. ASSUME NEW i PROVE \A a \in AgentWs :
        Adds(toAgent[a], toAgent'[a], IF a = streams[j].agent THEN Kinds(toA, i) ELSE {}, i)
  <2>1. CASE IsAgent(j)
    BY <1>1, <1>2, <2>1, PostAdds
  <2>2. CASE ~IsAgent(j)
    BY <1>1, <2>2, AddsNothing
  <2> QED
    BY <2>1, <2>2
<1>5. \A i : \A a \in AgentWs : i \in agentStreams'[a] => i \in agentStreams[a]
  BY <1>1 DEF Disowned
<1>6. /\ Kinds(toC, j) \subseteq E /\ Kinds(toA, j) \subseteq E
      /\ \A i \in Ids : i # j => Kinds(toC, i) = {} /\ Kinds(toA, i) = {}
  BY KindsAreOf
<1>7. ASSUME NEW i \in Ids, i # j PROVE Calm(i)
  <2>1. \A w \in ClientWs : Adds(toClient[w], toClient'[w], {}, i)
    BY <1>3, <1>6, <1>7
  <2>2. \A a \in AgentWs : Adds(toAgent[a], toAgent'[a], {}, i)
    BY <1>4, <1>6, <1>7
  <2>3. streams'[i] = streams[i]
    BY <1>1, <1>7
  <2> QED
    BY <1>1, <1>5, <2>1, <2>2, <2>3, CalmIf
<1>8. Ends(j)
  <2>1. \A w \in ClientWs : Adds(toClient[w], toClient'[w], IF w = streams[j].ws THEN E ELSE {}, j)
    BY <1>3, <1>6, AddsMore
  <2>2. \A a \in AgentWs : Adds(toAgent[a], toAgent'[a], IF a = streams[j].agent THEN E ELSE {}, j)
    BY <1>4, <1>6, AddsMore
  <2>3. Feeds(j, E, streams[j].agent, E)
    BY <1>1, <1>5, <2>1, <2>2, FeedsIf
  <2>4. ASSUME NEW w \in ClientWs, w = streams[j].ws, clients'[w] = "open",
               j \in opened[w] \/ "TCP_OPEN" \in Kinds(toClient[w], j)
        PROVE  Kinds(toClient'[w], j) \cap Endings # {}
    <3>1. Kinds(toC, j) \subseteq Kinds(toClient'[w], j)
      BY <1>1, <1>2, <2>4, PostAdds
    <3> QED
      BY <2>4, <3>1
  <2>5. ASSUME NEW a \in AgentWs, IsAgent(j), a = streams[j].agent, agents'[a] = "open",
               streamed[j] # Agt!NoSock \/ Acked(a, j)
        PROVE  Kinds(toAgent'[a], j) \cap Endings # {} \/ j \in idled
    <3>1. Kinds(toA, j) \subseteq Kinds(toAgent'[a], j)
      BY <1>1, <1>2, <2>5, PostAdds
    <3> QED
      BY <2>5, <3>1
  <2> QED
    <3>1. Told(j)
      BY <2>4, <2>5 DEF Told
    <3>2. streams'[j] = Free
      BY <1>1
    <3> QED
      BY <2>3, <3>1, <3>2 DEF Ends
<1>9. NoZero => NoZero'
  <2>1. Kinds(toC, 0) = {}
    BY DEF Kinds
  <2> QED
    BY <1>3, <2>1 DEF NoZero, Adds
<1>20. Hushed
  BY <1>1, HushedIf
<1> QED
  BY <1>1, <1>7, <1>8, <1>9, <1>20 DEF Turn

LEMMA OneOf ==
  ASSUME NEW j \in Ids
  PROVE  /\ AreOf(<<>>, j, {"TCP_ABORT", "TCP_CLOSE"})
         /\ AreOf(<<AbortOf(j)>>, j, {"TCP_ABORT", "TCP_CLOSE"})
         /\ AreOf(<<CloseOf(j)>>, j, {"TCP_ABORT", "TCP_CLOSE"})
         /\ \A k \in DOMAIN <<AbortOf(j)>> : <<AbortOf(j)>>[k].id # 0
         /\ \A k \in DOMAIN <<CloseOf(j)>> : <<CloseOf(j)>>[k].id # 0
         /\ Kinds(<<AbortOf(j)>>, j) \cap Endings # {}
         /\ Kinds(<<CloseOf(j)>>, j) \cap Endings # {}
<1>1. AbortOf(j).id = j /\ AbortOf(j).type = "TCP_ABORT" /\ CloseOf(j).id = j /\ CloseOf(j).type = "TCP_CLOSE"
  BY DEF AbortOf, CloseOf, Msg, Frame
<1>2. \A f : DOMAIN <<f>> = {1} /\ <<f>>[1] = f
  OBVIOUS
<1>3. j # 0
  BY ServerAssumption DEF Ids
<1>4. Kinds(<<AbortOf(j)>>, j) = {"TCP_ABORT"} /\ Kinds(<<CloseOf(j)>>, j) = {"TCP_CLOSE"}
  BY <1>1, KindsOne
<1> QED
  BY <1>1, <1>2, <1>3, <1>4 DEF AreOf, Endings

(* abortTcpStream. *)
LEMMA AbortTurn ==
  ASSUME TypeOK, NEW j \in Ids, Live(j), Abort(j, TRUE)
  PROVE  Turn
<1>1. EndStream(j, <<AbortOf(j)>>, <<AbortOf(j)>>)
  BY DEF Abort
<1>2. <<AbortOf(j)>> \in Seq(FrameSet)
  BY EndFrames
<1> QED
  BY <1>1, <1>2, OneOf, EndTurn

(* One frame of data, to the client or to the agent, or none. *)
LEMMA DataTurn ==
  ASSUME TypeOK, NEW j \in Ids, Live(j),
         \/ toClient' = toClient
         \/ ~(IsAgent(j) /\ streams[j].awaiting) /\ toClient' = Post(toClient, clients, streams[j].ws, Msg("TCP_DATA", j)),
         toAgent' = toAgent \/ toAgent' = Post(toAgent, agents, streams[j].agent, Msg("TCP_DATA", j)),
         UNCHANGED <<streams, nextId, clients, agents, agentStreams>>
  PROVE  Turn
<1> DEFINE f == Msg("TCP_DATA", j)
<1>1. f \in FrameSet /\ f.id = j /\ f.type = "TCP_DATA" /\ j # 0
  BY FrameType, ServerAssumption DEF TcpTypes, Msg, Frame, Ids
<1> HIDE DEF f
<1>2. <<f>> \in Seq(FrameSet)
  BY <1>1
<1>3. \A i : Kinds(<<f>>, i) = IF i = j THEN {"TCP_DATA"} ELSE {}
  BY <1>1, KindsOne
<1>4. toClient \in [ClientWs -> Seq(FrameSet)] /\ toAgent \in [AgentWs -> Seq(FrameSet)]
  BY DEF TypeOK
<1>5. ASSUME NEW w \in ClientWs, NEW i
      PROVE  Adds(toClient[w], toClient'[w], IF i = j /\ w = streams[j].ws THEN DataOf(j) ELSE {}, i)
  <2>1. CASE toClient' = toClient
    BY <2>1, AddsNothing
  <2>2. CASE ~(IsAgent(j) /\ streams[j].awaiting) /\ toClient' = PostAll(toClient, clients, streams[j].ws, <<f>>)
    <3>1. DataOf(j) = {"TCP_DATA"}
      BY <2>2 DEF DataOf
    <3>2. Adds(toClient[w], toClient'[w], IF w = streams[j].ws THEN Kinds(<<f>>, i) ELSE {}, i)
      BY <1>2, <1>4, <2>2, PostAdds
    <3> QED
      BY <1>3, <3>1, <3>2
  <2> QED
    BY <2>1, <2>2 DEF Post, f
<1>6. ASSUME NEW a \in AgentWs, NEW i
      PROVE  Adds(toAgent[a], toAgent'[a], IF i = j /\ a = streams[j].agent THEN {"TCP_DATA"} ELSE {}, i)
  <2>1. CASE toAgent' = toAgent
    BY <2>1, AddsNothing
  <2>2. CASE toAgent' = PostAll(toAgent, agents, streams[j].agent, <<f>>)
    <3>1. Adds(toAgent[a], toAgent'[a], IF a = streams[j].agent THEN Kinds(<<f>>, i) ELSE {}, i)
      BY <1>2, <1>4, <2>2, PostAdds
    <3> QED
      BY <1>3, <3>1
  <2> QED
    BY <2>1, <2>2 DEF Post, f
<1>7. ASSUME NEW i \in Ids, i # j PROVE Calm(i)
  BY <1>5, <1>6, <1>7, CalmIf
<1>8. Flows(j)
  <2>1. \A w \in ClientWs : Adds(toClient[w], toClient'[w], IF w = streams[j].ws THEN DataOf(j) ELSE {}, j)
    BY <1>5
  <2>2. \A a \in AgentWs : Adds(toAgent[a], toAgent'[a], IF a = streams[j].agent THEN {"TCP_DATA"} ELSE {}, j)
    BY <1>6
  <2>3. Feeds(j, DataOf(j), streams[j].agent, {"TCP_DATA"})
    BY <2>1, <2>2, FeedsIf
  <2>4. Stays(j, DataOf(j))
    BY <2>1 DEF Stays
  <2> QED
    BY <2>3, <2>4 DEF Flows
<1>9. NoZero => NoZero'
  <2>1. \A w \in ClientWs : Adds(toClient[w], toClient'[w], {}, 0)
    BY <1>1, <1>5
  <2> QED
    BY <2>1 DEF NoZero, Adds
<1>20. Hushed
  BY HushedIf DEF Post
<1> QED
  BY <1>7, <1>8, <1>9, <1>20 DEF Turn

LEMMA RelayTurn ==
  ASSUME TypeOK, NEW j \in Ids, Live(j), ~(IsAgent(j) /\ streams[j].awaiting), Relay(j)
  PROVE  Turn
<1>1. CASE clients[streams[j].ws] = "open"
  BY <1>1, DataTurn DEF Relay, wsVars, streamVars
<1>2. CASE clients[streams[j].ws] # "open"
  BY <1>2, AbortTurn DEF Relay
<1> QED
  BY <1>1, <1>2

(* A slot is taken: createTcpStream. *)
LEMMA OpenTurn ==
  ASSUME TypeOK, NEW j \in Ids, NEW s \in Stream, s.ws \in ClientWs, s.port \in Ports,
         s.kind \in {"agent", "direct"}, s.awaiting <=> s.kind = "agent",
         s.kind = "agent" => s.agent \in AgentWs,
         clients[s.ws] = "open", Open(j, s), toAgent' = toAgent,
         \/ agentStreams' = agentStreams
         \/ s.kind = "agent" /\ agentStreams' = [agentStreams EXCEPT ![s.agent] = @ \cup {j}]
  PROVE  Turn
<1>1. /\ Allocates(j)
      /\ streams' = [streams EXCEPT ![j] = s]
      /\ toClient' = Post(toClient, clients, s.ws, Frame("TCP_OPEN", j, s.port))
      /\ clients' = clients /\ agents' = agents
  BY DEF Open, wsVars
<1>2. streams'[j] = s /\ \A i \in Ids : i # j => streams'[i] = streams[i]
  BY <1>1 DEF TypeOK
<1> DEFINE f == Frame("TCP_OPEN", j, s.port)
<1>3. f \in FrameSet /\ f.id = j /\ f.type = "TCP_OPEN" /\ j # 0
  BY FrameType, ServerAssumption DEF TcpTypes, Frame, Ids
<1>4. toClient' = PostAll(toClient, clients, s.ws, <<f>>)
  BY <1>1 DEF Post
<1> HIDE DEF f
<1>5. <<f>> \in Seq(FrameSet) /\ toClient \in [ClientWs -> Seq(FrameSet)]
  BY <1>3 DEF TypeOK
<1>6. ASSUME NEW w \in ClientWs, NEW i, i # j
      PROVE  Adds(toClient[w], toClient'[w], {}, i)
  <2>1. Kinds(<<f>>, i) = {}
    BY <1>3, <1>6, KindsOne
  <2>2. Adds(toClient[w], toClient'[w], IF w = s.ws THEN Kinds(<<f>>, i) ELSE {}, i)
    BY <1>4, <1>5, PostAdds
  <2> QED
    BY <2>1, <2>2
<1>7. ASSUME NEW i, NEW a \in AgentWs, i \in agentStreams'[a]
      PROVE  i \in agentStreams[a] \/ (i = j /\ s.kind = "agent" /\ s.agent = a)
  BY <1>7 DEF TypeOK
<1>8. ASSUME NEW i \in Ids, i # j PROVE Calm(i)
  <2>1. \A a \in AgentWs : i \in agentStreams'[a] => i \in agentStreams[a]
    BY <1>7, <1>8
  <2>2. \A a \in AgentWs : Adds(toAgent[a], toAgent'[a], {}, i)
    BY AddsNothing
  <2>3. streams'[i] = streams[i]
    BY <1>2, <1>8
  <2> QED
    BY <1>1, <1>6, <1>8, <2>1, <2>2, <2>3, CalmIf
<1>9. Opens(j)
  BY <1>1, <1>2, <1>7 DEF Opens
<1>10. NoZero => NoZero'
  BY <1>3, <1>6 DEF NoZero, Adds
<1>20. Hushed
  BY <1>1, <1>4, HushedIf
<1> QED
  BY <1>8, <1>9, <1>10, <1>20 DEF Turn

(* The answer to an agent that names no stream, or one that is not found. *)
LEMMA AnswerTurn ==
  ASSUME TypeOK, NEW a \in AgentWs, NEW f \in FrameSet, f.type = "TCP_ABORT",
         f.id = 0 \/ (f.id \in Ids /\ ~IsAgent(f.id) /\ Kinds(fromAgent[a], f.id) # {}),
         toAgent' = Post(toAgent, agents, a, f),
         UNCHANGED <<streams, nextId, clients, agents, agentStreams, toClient>>
  PROVE  Turn
<1>1. <<f>> \in Seq(FrameSet) /\ toAgent \in [AgentWs -> Seq(FrameSet)]
  BY DEF TypeOK
<1>2. ASSUME NEW b \in AgentWs, NEW i
      PROVE  Adds(toAgent[b], toAgent'[b], IF b = a THEN (IF f.id = i THEN {"TCP_ABORT"} ELSE {}) ELSE {}, i)
  <2>1. Kinds(<<f>>, i) = IF f.id = i THEN {"TCP_ABORT"} ELSE {}
    BY KindsOne
  <2>2. Adds(toAgent[b], toAgent'[b], IF b = a THEN Kinds(<<f>>, i) ELSE {}, i)
    BY <1>1, PostAdds DEF Post
  <2> QED
    BY <2>1, <2>2
<1>3. ASSUME NEW i \in Ids, i # f.id PROVE Calm(i)
  <2>1. \A w \in ClientWs : Adds(toClient[w], toClient'[w], {}, i)
    BY AddsNothing
  <2>2. \A b \in AgentWs : Adds(toAgent[b], toAgent'[b], {}, i)
    BY <1>2, <1>3
  <2> QED
    BY <2>1, <2>2, CalmIf
<1>4. ASSUME f.id \in Ids, ~IsAgent(f.id), Kinds(fromAgent[a], f.id) # {} PROVE Strays(f.id)
  <2> DEFINE i == f.id
  <2>1. \A w \in ClientWs : Adds(toClient[w], toClient'[w], IF w = streams[i].ws THEN {} ELSE {}, i)
    BY AddsNothing
  <2>2. \A b \in AgentWs : Adds(toAgent[b], toAgent'[b], IF b = a THEN {"TCP_ABORT"} ELSE {}, i)
    BY <1>2
  <2>3. Feeds(i, {}, a, {"TCP_ABORT"})
    BY <2>1, <2>2, FeedsIf
  <2>4. Stays(i, {})
    BY AddsNothing DEF Stays
  <2> QED
    BY <1>4, <2>3, <2>4 DEF Strays
<1>5. NoZero => NoZero'
  BY DEF NoZero
<1>6. 0 \notin Ids
  BY ServerAssumption DEF Ids
<1>20. Hushed
  BY HushedIf DEF Post
<1> QED
  BY <1>3, <1>4, <1>5, <1>6, <1>20 DEF Turn

(* _handleTcpConnect and createAgentStream. *)
LEMMA ConnectTurn ==
  ASSUME TypeOK, NEW a \in AgentWs, NEW p \in Ports, AgentConnect(a, p)
  PROVE  Turn
<1>1. CASE /\ toAgent' = Post(toAgent, agents, a, Msg("TCP_ABORT", 0))
           /\ UNCHANGED <<wsVars, streamVars, nextId, toClient>>
  <2>1. Msg("TCP_ABORT", 0) \in FrameSet /\ Msg("TCP_ABORT", 0).id = 0 /\ Msg("TCP_ABORT", 0).type = "TCP_ABORT"
    BY FrameType DEF TcpTypes, Msg, Frame
  <2> QED
    BY <1>1, <2>1, AnswerTurn DEF wsVars, streamVars
<1>2. ASSUME NEW w \in ActiveClients, NEW i \in Ids,
             Open(i, [kind |-> "agent", ws |-> w, agent |-> a, port |-> p, awaiting |-> TRUE]),
             agentStreams' = [agentStreams EXCEPT ![a] = @ \cup {i}], UNCHANGED toAgent
      PROVE  Turn
  <2> DEFINE s == [kind |-> "agent", ws |-> w, agent |-> a, port |-> p, awaiting |-> TRUE]
  <2>1. /\ s \in Stream /\ s.ws \in ClientWs /\ s.port \in Ports
        /\ s.kind = "agent" /\ s.awaiting /\ s.agent = a /\ s.ws = w /\ clients[w] = "open"
    BY DEF Stream, ActiveClients
  <2>2. Open(i, s)
    BY <1>2
  <2> HIDE DEF s
  <2> QED
    BY <1>2, <2>1, <2>2, OpenTurn
<1> QED
  BY <1>1, <1>2 DEF AgentConnect

LEMMA DirectTurn ==
  ASSUME TypeOK, NEW p \in Ports, DirectConnect(p)
  PROVE  Turn
<1> DEFINE s(w) == [kind |-> "direct", ws |-> w, agent |-> NoWs, port |-> p, awaiting |-> FALSE]
<1>1. PICK w \in ActiveClients, i \in Ids : Open(i, s(w))
  BY DEF DirectConnect
<1>2. s(w) \in Stream /\ s(w).ws = w /\ s(w).port = p /\ s(w).kind = "direct" /\ ~s(w).awaiting /\ w \in ClientWs /\ clients[w] = "open"
  BY DEF Stream, ActiveClients
<1>3. UNCHANGED <<agentStreams, toAgent>>
  BY DEF DirectConnect
<1> HIDE DEF s
<1> QED
  BY <1>1, <1>2, <1>3, OpenTurn

(* The client's TCP_OPEN_ACK. *)
LEMMA AckTurn ==
  ASSUME TypeOK, NEW j \in Ids, Acks(j), nextId' = nextId
  PROVE  Turn
<1> DEFINE f == Frame("TCP_CONNECT_ACK", j, streams[j].port)
<1>1. /\ streams' = [streams EXCEPT ![j].awaiting = FALSE]
      /\ toAgent' = PostAll(toAgent, agents, streams[j].agent, <<f>>)
      /\ UNCHANGED <<toClient, clients, agents, agentStreams>>
  BY DEF Acks, Post
<1>2. f \in FrameSet /\ f.id = j
  BY FrameType DEF TcpTypes, Frame, TypeOK, Stream
<1> HIDE DEF f
<1>3. <<f>> \in Seq(FrameSet) /\ toAgent \in [AgentWs -> Seq(FrameSet)]
  BY <1>2 DEF TypeOK
<1>4. ASSUME NEW i \in Ids, i # j PROVE Calm(i)
  <2>1. Kinds(<<f>>, i) = {}
    BY <1>2, <1>4, KindsOne
  <2>2. \A a \in AgentWs : Adds(toAgent[a], toAgent'[a], IF a = streams[j].agent THEN Kinds(<<f>>, i) ELSE {}, i)
    BY <1>1, <1>3, PostAdds
  <2>3. \A a \in AgentWs : Adds(toAgent[a], toAgent'[a], {}, i)
    BY <2>1, <2>2
  <2>4. \A w \in ClientWs : Adds(toClient[w], toClient'[w], {}, i)
    BY <1>1, AddsNothing
  <2>5. streams'[i] = streams[i]
    BY <1>1, <1>4 DEF TypeOK
  <2> QED
    BY <1>1, <2>3, <2>4, <2>5, CalmIf
<1>5. NoZero => NoZero'
  BY <1>1 DEF NoZero
<1>20. Hushed
  BY <1>1, HushedIf
<1> QED
  BY <1>4, <1>5, <1>20 DEF Turn

(* handleClientFrame, for a frame the client has sent: when it ends the     *)
(* stream the client has forgotten it.                                      *)
LEMMA ClientFrameTurn ==
  ASSUME TypeOK, NEW w \in ClientWs, NEW f \in ClientFrames, OnClientFrame(w, f),
         f.type \in Kinds(fromClient[w], f.id),
         f.type \in Endings => f.id \notin opened[w] /\ "TCP_OPEN" \notin Kinds(toClient[w], f.id),
         f.type = "RES_ABORT" => f.id \in idled,
         \A i \in Ids : streams[i].awaiting => IsAgent(i)
  PROVE  /\ Turn
         /\ f.type \in Endings /\ streams[f.id].ws = w => ~Live(f.id)'
<1> DEFINE j == f.id
<1>0. j \in Ids
  BY DEF ClientFrames, Msg, Frame
<1> HIDE DEF j
<1>1. CASE ~(j \in LiveIds /\ streams[j].ws = w)
  <2>1. UNCHANGED vars
    BY <1>1 DEF OnClientFrame, j
  <2>2. streams[j].ws = w => ~Live(j)'
    BY <1>0, <1>1, <2>1 DEF vars, streamVars, LiveIds, Live
  <2> QED
    BY <2>1, <2>2, VarsStill DEF j
<1>2. CASE j \in LiveIds /\ streams[j].ws = w
  <2>0. Live(j) /\ streams[j].ws = w
    BY <1>0, <1>2 DEF LiveIds, Live
  <2>00. streams' = [i \in Ids |-> IF i \in {j} THEN Free ELSE streams[i]] => ~Live(j)'
    BY <1>0 DEF Live, Free
  <2>01. <<AbortOf(j)>> \in Seq(FrameSet) /\ <<CloseOf(j)>> \in Seq(FrameSet) /\ <<>> \in Seq(FrameSet)
    BY <1>0, EndFrames
  <2>02. \A k \in DOMAIN <<>> : <<>>[k].id # 0
    OBVIOUS
  <2>03. f.type \in Endings =>
           \A v \in ClientWs : v = streams[j].ws => j \notin opened[v] /\ "TCP_OPEN" \notin Kinds(toClient[v], j)
    BY <2>0 DEF j
  <2>1. CASE f.type = "TCP_DATA" /\ ClientData(j)
    <3>1. toAgent' = toAgent \/ toAgent' = Post(toAgent, agents, streams[j].agent, Msg("TCP_DATA", j))
      BY <2>1 DEF ClientData
    <3>2. UNCHANGED <<streams, nextId, clients, agents, agentStreams, toClient>>
      BY <2>1 DEF ClientData, wsVars, streamVars
    <3>3. Turn
      BY <1>0, <2>0, <3>1, <3>2, DataTurn
    <3> QED
      BY <2>1, <3>3 DEF Endings
  <2>2. CASE f.type = "TCP_CLOSE" /\ EndStream(j, <<CloseOf(j)>>, <<>>)
    <3>1. f.type \in Endings
      BY <2>2 DEF Endings
    <3>2. Turn
      BY <1>0, <2>0, <2>01, <2>02, <2>03, <2>2, <3>1, OneOf, EndTurn
    <3> QED
      BY <2>00, <2>2, <3>2 DEF EndStream, Freed, j
  <2>3. CASE f.type = "TCP_OPEN_ACK" /\ ClientOpenAck(j)
    <3>1. CASE streams[j].awaiting
      <4>1. /\ streams' = [streams EXCEPT ![j].awaiting = FALSE]
            /\ toAgent' = Post(toAgent, agents, streams[j].agent, Frame("TCP_CONNECT_ACK", j, streams[j].port))
            /\ UNCHANGED <<toClient, clients, agents, agentStreams, nextId>>
        BY <2>3, <3>1 DEF ClientOpenAck, wsVars
      <4>2. "TCP_OPEN_ACK" \in Kinds(fromClient[w], j) /\ IsAgent(j)
        BY <1>0, <2>3, <3>1 DEF j
      <4>3. Acks(j)
        BY <2>0, <3>1, <4>1, <4>2 DEF Acks
      <4>4. Turn
        BY <1>0, <4>1, <4>3, AckTurn
      <4> QED
        BY <2>3, <4>4 DEF Endings
    <3>2. CASE ~streams[j].awaiting
      BY <2>3, <3>2, VarsStill DEF ClientOpenAck, Endings
    <3> QED
      BY <3>1, <3>2
  <2>4. CASE f.type = "TCP_ABORT" /\ ClientAbort(j)
    <3>1. f.type \in Endings
      BY <2>4 DEF Endings
    <3> DEFINE p == Frame("TCP_ABORT", 0, streams[j].port)
               toA == IF streams[j].awaiting THEN <<p, AbortOf(j)>> ELSE <<AbortOf(j)>>
    <3>2. EndStream(j, toA, <<>>)
      BY <2>4 DEF ClientAbort
    <3>3. p \in FrameSet /\ p.id = 0 /\ AbortOf(j) \in FrameSet /\ AbortOf(j).id = j /\ AbortOf(j).type = "TCP_ABORT"
      BY <1>0, FrameType DEF TypeOK, Stream, TcpTypes, AbortOf, Msg, Frame
    <3> HIDE DEF p
    <3>4. toA \in Seq(FrameSet)
      BY <3>3
    <3>5. AreOf(toA, j, {"TCP_ABORT", "TCP_CLOSE"}) /\ Kinds(toA, j) \cap Endings # {}
      <4>1. DOMAIN <<p, AbortOf(j)>> = {1, 2} /\ <<p, AbortOf(j)>>[1] = p /\ <<p, AbortOf(j)>>[2] = AbortOf(j)
        OBVIOUS
      <4>2. j # 0
        BY <1>0, ServerAssumption DEF Ids
      <4>3. AreOf(<<p, AbortOf(j)>>, j, {"TCP_ABORT", "TCP_CLOSE"})
        BY <3>3, <4>1, <4>2 DEF AreOf
      <4>4. "TCP_ABORT" \in Kinds(<<p, AbortOf(j)>>, j)
        BY <3>3, <4>1, KindsMeans
      <4> QED
        BY <1>0, <4>3, <4>4, OneOf DEF Endings
    <3> HIDE DEF toA
    <3>6. Turn
      BY <1>0, <2>0, <2>01, <2>02, <2>03, <3>1, <3>2, <3>4, <3>5, OneOf, EndTurn
    <3> QED
      BY <2>00, <3>2, <3>6 DEF EndStream, Freed, j
  <2>5. CASE f.type = "RESUME" /\ ClientResume(j)
    <3>1. Turn
      BY <1>0, <2>0, <2>5, VarsStill, RelayTurn DEF ClientResume
    <3> QED
      BY <2>5, <3>1 DEF Endings
  <2>6. CASE f.type = "RES_ABORT" /\ ClientResAbort(j)
    <3>1. /\ streams' = [streams EXCEPT ![j] = Free]
          /\ UNCHANGED <<clients, agents, agentStreams, nextId, toClient, toAgent>>
      BY <2>6 DEF ClientResAbort, wsVars, channels
    <3>2. streams'[j] = Free /\ \A i \in Ids : i # j => streams'[i] = streams[i]
      BY <1>0, <3>1 DEF TypeOK
    <3>3. \A i : /\ \A v \in ClientWs : Adds(toClient[v], toClient'[v], {}, i)
                 /\ \A a \in AgentWs : Adds(toAgent[a], toAgent'[a], {}, i)
      BY <3>1, AddsNothing
    <3>4. ASSUME NEW i \in Ids, i # j PROVE Calm(i)
      BY <3>1, <3>2, <3>3, <3>4, CalmIf
    <3>5. Feeds(j, {"TCP_ABORT", "TCP_CLOSE"}, streams[j].agent, {"TCP_ABORT", "TCP_CLOSE"})
      <4>1. /\ \A v \in ClientWs : Adds(toClient[v], toClient'[v], IF v = streams[j].ws THEN {"TCP_ABORT", "TCP_CLOSE"} ELSE {}, j)
            /\ \A a \in AgentWs : Adds(toAgent[a], toAgent'[a], IF a = streams[j].agent THEN {"TCP_ABORT", "TCP_CLOSE"} ELSE {}, j)
        BY <3>1, AddsNothing
      <4> QED
        BY <3>1, <4>1, FeedsIf
    <3>6. Told(j)
      <4>1. j \in idled /\ f.type \in Endings
        BY <2>6 DEF j, Endings
      <4> QED
        BY <2>03, <4>1 DEF Told
    <3>7. Ends(j)
      BY <2>0, <3>2, <3>5, <3>6 DEF Ends
    <3>8. NoZero => NoZero'
      BY <3>1 DEF NoZero
    <3>20. Hushed
      BY <3>1, HushedIf
    <3>9. Turn
      BY <1>0, <3>1, <3>4, <3>7, <3>8, <3>20 DEF Turn
    <3> QED
      BY <3>2, <3>9 DEF Live, Free, j
  <2> QED
    BY <1>2, <2>1, <2>2, <2>3, <2>4, <2>5, <2>6 DEF OnClientFrame, j
<1> QED
  BY <1>1, <1>2

(* TcpAgentServer._handleFrame, for a frame the agent has sent: when it     *)
(* ends a stream the agent has forgotten it.                                *)
LEMMA AgentFrameTurn ==
  ASSUME TypeOK, NEW a \in AgentWs, NEW f \in AgentFrames, OnAgentFrame(a, f),
         f.type \in Kinds(fromAgent[a], f.id),
         f.type \in Endings => streamed[f.id] = Agt!NoSock /\ \A b \in AgentWs : ~Acked(b, f.id)
  PROVE  Turn
<1> DEFINE j == f.id
<1>1. CASE f.type = "TCP_CONNECT"
  <2>1. f.port \in Ports
    BY <1>1 DEF AgentFrames, Msg, Frame
  <2> QED
    BY <1>1, <2>1, ConnectTurn DEF OnAgentFrame
<1>2. CASE f.type # "TCP_CONNECT"
  <2>0. j \in Ids
    BY <1>2 DEF AgentFrames, Msg, Frame
  <2>1. CASE j \notin LiveIds \/ ~IsAgent(j)
    <3>1. StreamNotFound(a, f)
      BY <1>2, <2>1 DEF OnAgentFrame
    <3>2. UNCHANGED <<streams, nextId, clients, agents, agentStreams, toClient>>
      BY <3>1 DEF StreamNotFound, wsVars, streamVars
    <3>3. ~IsAgent(j)
      BY <2>0, <2>1 DEF LiveIds, IsAgent
    <3>4. CASE f.type \in {"TCP_DATA", "TCP_CLOSE"}
      <4> DEFINE g == AbortOf(j)
      <4>1. g \in FrameSet /\ g.type = "TCP_ABORT" /\ g.id = j /\ toAgent' = Post(toAgent, agents, a, g)
        BY <2>0, <3>1, <3>4, EndFrames DEF StreamNotFound, AbortOf, Msg, Frame
      <4>2. Kinds(fromAgent[a], j) # {}
        OBVIOUS
      <4> HIDE DEF g, j
      <4> QED
        BY <2>0, <3>2, <3>3, <4>1, <4>2, AnswerTurn
    <3>5. CASE f.type \notin {"TCP_DATA", "TCP_CLOSE"}
      BY <3>1, <3>2, <3>5, StillTurn DEF StreamNotFound
    <3> QED
      BY <3>4, <3>5
  <2>2. CASE j \in LiveIds /\ IsAgent(j) /\ (streams[j].agent # a \/ streams[j].awaiting)
    <3>1. UNCHANGED vars
      BY <1>2, <2>2 DEF OnAgentFrame
    <3> QED
      BY <3>1, VarsStill
  <2>3. CASE j \in LiveIds /\ IsAgent(j) /\ streams[j].agent = a /\ ~streams[j].awaiting
    <3>0. Live(j)
      BY <2>3 DEF LiveIds, Live
    <3>1. \/ f.type = "TCP_DATA"  /\ AgentData(j)
          \/ f.type = "TCP_CLOSE" /\ EndStream(j, <<>>, <<CloseOf(j)>>)
          \/ f.type = "TCP_ABORT" /\ EndStream(j, <<>>, <<AbortOf(j)>>)
      BY <1>2, <2>3 DEF OnAgentFrame
    <3>2. <<AbortOf(j)>> \in Seq(FrameSet) /\ <<CloseOf(j)>> \in Seq(FrameSet) /\ <<>> \in Seq(FrameSet)
      BY <2>0, EndFrames
    <3>3. f.type \in Endings =>
            \A b \in AgentWs : b = streams[j].agent => streamed[j] = Agt!NoSock /\ ~Acked(b, j)
      OBVIOUS
    <3> HIDE DEF j
    <3>4. CASE f.type = "TCP_DATA" /\ AgentData(j)
      <4>1. CASE Relay(j)
        BY <2>0, <2>3, <3>0, <4>1, RelayTurn
      <4>2. CASE EndStream(j, <<AbortOf(j)>>, <<CloseOf(j)>>)
        BY <2>0, <3>0, <3>2, <4>2, OneOf, EndTurn
      <4> QED
        BY <3>4, <4>1, <4>2, VarsStill DEF AgentData
    <3>5. CASE f.type = "TCP_CLOSE" /\ EndStream(j, <<>>, <<CloseOf(j)>>)
      <4>1. f.type \in Endings
        BY <3>5 DEF Endings
      <4> QED
        BY <2>0, <3>0, <3>2, <3>3, <3>5, <4>1, OneOf, EndTurn
    <3>6. CASE f.type = "TCP_ABORT" /\ EndStream(j, <<>>, <<AbortOf(j)>>)
      <4>1. f.type \in Endings
        BY <3>6 DEF Endings
      <4> QED
        BY <2>0, <3>0, <3>2, <3>3, <3>6, <4>1, OneOf, EndTurn
    <3> QED
      BY <3>1, <3>4, <3>5, <3>6
  <2> QED
    BY <2>1, <2>2, <2>3
<1> QED
  BY <1>1, <1>2

(* The notices of many ends. *)
LEMMA AbortsKinds ==
  ASSUME NEW T \in SUBSET Ids, NEW q \in Orders(T), NEW i
  PROVE  Kinds(Aborts(q), i) = IF i \in T THEN {"TCP_ABORT"} ELSE {}
<1>1. DOMAIN Aborts(q) = DOMAIN q /\ \A k \in DOMAIN q : Aborts(q)[k] = AbortOf(q[k])
  BY DEF Aborts
<1>2. \A k \in DOMAIN q : Aborts(q)[k].type = "TCP_ABORT" /\ Aborts(q)[k].id = q[k]
  BY <1>1 DEF AbortOf, Msg, Frame
<1>3. (\A k \in DOMAIN q : q[k] \in T) /\ (\A x \in T : \E k \in DOMAIN q : q[k] = x)
  BY DEF Orders
<1>4. CASE i \in T
  <2>1. PICK k \in DOMAIN q : q[k] = i
    BY <1>3, <1>4
  <2>2. "TCP_ABORT" \in Kinds(Aborts(q), i)
    BY <1>1, <1>2, <2>1, KindsMeans
  <2>3. \A t \in Kinds(Aborts(q), i) : t = "TCP_ABORT"
    BY <1>1, <1>2, KindsMeans
  <2> QED
    BY <1>4, <2>2, <2>3
<1>5. CASE i \notin T
  <2>1. \A t : t \notin Kinds(Aborts(q), i)
    BY <1>1, <1>2, <1>3, <1>5, KindsMeans
  <2> QED
    BY <1>5, <2>1
<1> QED
  BY <1>4, <1>5

LEMMA NotifyAgentsAdds ==
  ASSUME TypeOK, NEW S \in SUBSET Ids, NotifyAgents(S), NEW a \in AgentWs, NEW i
  PROVE  /\ Adds(toAgent[a], toAgent'[a],
                 IF i \in S /\ IsAgent(i) /\ streams[i].agent = a THEN {"TCP_ABORT"} ELSE {}, i)
         /\ i \in S /\ IsAgent(i) /\ streams[i].agent = a /\ agents[a] = "open"
              => "TCP_ABORT" \in Kinds(toAgent'[a], i)
         /\ agents[a] # "open" => toAgent'[a] = toAgent[a]
<1> DEFINE T(b) == {k \in S : IsAgent(k) /\ streams[k].agent = b}
<1>1. PICK q \in Notifications(AgentWs, T) :
        toAgent' = [b \in AgentWs |->
                      IF agents[b] = "open" THEN toAgent[b] \o Aborts(q[b]) ELSE toAgent[b]]
  BY DEF NotifyAgents
<1>2. q[a] \in Orders(T(a)) /\ T(a) \in SUBSET Ids
  BY DEF Notifications
<1>3. Aborts(q[a]) \in Seq(FrameSet) /\ Kinds(Aborts(q[a]), i) = IF i \in T(a) THEN {"TCP_ABORT"} ELSE {}
  BY <1>2, AbortsType, AbortsKinds
<1>4. toAgent[a] \in Seq(FrameSet)
  BY DEF TypeOK
<1> DEFINE X == IF i \in S /\ IsAgent(i) /\ streams[i].agent = a THEN {"TCP_ABORT"} ELSE {}
<1>5. Kinds(Aborts(q[a]), i) = X
  BY <1>3
<1> HIDE DEF X, T
<1>6. CASE agents[a] = "open"
  <2>1. toAgent'[a] = toAgent[a] \o Aborts(q[a])
    BY <1>1, <1>6
  <2>2. Adds(toAgent[a], toAgent'[a], X, i) /\ X \subseteq Kinds(toAgent'[a], i)
    BY <1>3, <1>4, <1>5, <2>1, AddsConcat, KindsConcat
  <2> QED
    BY <1>6, <2>2 DEF X
<1>7. CASE agents[a] # "open"
  <2>1. toAgent'[a] = toAgent[a]
    BY <1>1, <1>7
  <2> QED
    BY <1>7, <2>1, AddsNothing
<1> QED
  BY <1>6, <1>7

LEMMA NotifyClientsAdds ==
  ASSUME TypeOK, NEW S \in SUBSET Ids, NotifyClients(S), NEW w \in ClientWs, NEW i
  PROVE  /\ Adds(toClient[w], toClient'[w],
                 IF i \in S /\ streams[i].ws = w THEN {"TCP_ABORT"} ELSE {}, i)
         /\ i \in S /\ streams[i].ws = w /\ clients[w] = "open" => "TCP_ABORT" \in Kinds(toClient'[w], i)
         /\ clients[w] # "open" => toClient'[w] = toClient[w]
<1> DEFINE T(b) == {k \in S : streams[k].ws = b}
<1>1. PICK q \in Notifications(ClientWs, T) :
        toClient' = [b \in ClientWs |->
                      IF clients[b] = "open" THEN toClient[b] \o Aborts(q[b]) ELSE toClient[b]]
  BY DEF NotifyClients
<1>2. q[w] \in Orders(T(w)) /\ T(w) \in SUBSET Ids
  BY DEF Notifications
<1>3. Aborts(q[w]) \in Seq(FrameSet) /\ Kinds(Aborts(q[w]), i) = IF i \in T(w) THEN {"TCP_ABORT"} ELSE {}
  BY <1>2, AbortsType, AbortsKinds
<1>4. toClient[w] \in Seq(FrameSet)
  BY DEF TypeOK
<1> DEFINE X == IF i \in S /\ streams[i].ws = w THEN {"TCP_ABORT"} ELSE {}
<1>5. Kinds(Aborts(q[w]), i) = X
  BY <1>3
<1> HIDE DEF X, T
<1>6. CASE clients[w] = "open"
  <2>1. toClient'[w] = toClient[w] \o Aborts(q[w])
    BY <1>1, <1>6
  <2>2. Adds(toClient[w], toClient'[w], X, i) /\ X \subseteq Kinds(toClient'[w], i)
    BY <1>3, <1>4, <1>5, <2>1, AddsConcat, KindsConcat
  <2> QED
    BY <1>6, <2>2 DEF X
<1>7. CASE clients[w] # "open"
  <2>1. toClient'[w] = toClient[w]
    BY <1>1, <1>7
  <2> QED
    BY <1>7, <2>1, AddsNothing
<1> QED
  BY <1>6, <1>7

(* Many streams end in one turn. *)
NoticeC(S, w, i) == IF i \in S /\ streams[i].ws = w THEN {"TCP_ABORT"} ELSE {}
NoticeA(S, a, i) == IF i \in S /\ IsAgent(i) /\ streams[i].agent = a THEN {"TCP_ABORT"} ELSE {}

LEMMA ManyTurn ==
  ASSUME TypeOK, NEW S \in SUBSET Ids, \A i \in S : Live(i), Freed(S), nextId' = nextId,
         \A w \in ClientWs :
           \/ /\ clients'[w] # "open" /\ toClient'[w] = <<>>
              /\ \A i \in Ids : Live(i) /\ streams[i].ws = w => i \in S
           \/ /\ clients'[w] \in {clients[w], "closing"}
              /\ clients[w] # "open" => toClient'[w] = toClient[w]
              /\ \A i : Adds(toClient[w], toClient'[w], NoticeC(S, w, i), i),
         \A a \in AgentWs :
           \/ agents'[a] # "open" /\ toAgent'[a] = <<>>
           \/ /\ agents'[a] \in {agents[a], "closing"}
              /\ agents[a] # "open" => toAgent'[a] = toAgent[a]
              /\ \A i : Adds(toAgent[a], toAgent'[a], NoticeA(S, a, i), i),
         \A w \in ClientWs : \A i \in S :
           streams[i].ws = w /\ clients'[w] = "open" => "TCP_ABORT" \in Kinds(toClient'[w], i),
         \A a \in AgentWs : \A i \in S :
           IsAgent(i) /\ streams[i].agent = a /\ agents'[a] = "open" => "TCP_ABORT" \in Kinds(toAgent'[a], i),
         \A a \in AgentWs : \A i : i \in agentStreams'[a] => i \in agentStreams[a]
  PROVE  Turn
<1>1. streams' = [i \in Ids |-> IF i \in S THEN Free ELSE streams[i]]
  BY DEF Freed
<1>2. ASSUME NEW i \in Ids, i \notin S PROVE Calm(i)
  <2>1. streams'[i] = streams[i]
    BY <1>1, <1>2
  <2>2. ASSUME NEW w \in ClientWs
        PROVE  /\ Feed(toClient[w], toClient'[w], clients[w], clients'[w], IF w = streams[i].ws THEN {} ELSE {}, i)
               /\ Live(i) /\ w = streams[i].ws => Adds(toClient[w], toClient'[w], {}, i)
    <3>1. NoticeC(S, w, i) = {}
      BY <1>2 DEF NoticeC
    <3> QED
      BY <1>2, <3>1 DEF Feed
  <2>3. ASSUME NEW a \in AgentWs
        PROVE  Feed(toAgent[a], toAgent'[a], agents[a], agents'[a], IF a = NoWs THEN {} ELSE {}, i)
    <3>1. NoticeA(S, a, i) = {}
      BY <1>2 DEF NoticeA
    <3> QED
      BY <3>1 DEF Feed
  <2>4. Feeds(i, {}, NoWs, {})
    BY <2>2, <2>3 DEF Feeds
  <2>5. Stays(i, {})
    BY <2>1, <2>2 DEF Stays
  <2> QED
    BY <2>4, <2>5 DEF Calm
<1>3. ASSUME NEW i \in S PROVE Ends(i)
  <2> DEFINE E == {"TCP_ABORT", "TCP_CLOSE"}
  <2>1. Live(i) /\ streams'[i] = Free /\ i \in Ids
    BY <1>1
  <2>2. ASSUME NEW w \in ClientWs
        PROVE  Feed(toClient[w], toClient'[w], clients[w], clients'[w], IF w = streams[i].ws THEN E ELSE {}, i)
    <3>1. NoticeC(S, w, i) \subseteq IF w = streams[i].ws THEN E ELSE {}
      BY DEF NoticeC
    <3>2. Adds(toClient[w], toClient'[w], NoticeC(S, w, i), i)
            => Adds(toClient[w], toClient'[w], IF w = streams[i].ws THEN E ELSE {}, i)
      BY <3>1, AddsMore
    <3> QED
      BY <3>2 DEF Feed
  <2>3. ASSUME NEW a \in AgentWs
        PROVE  Feed(toAgent[a], toAgent'[a], agents[a], agents'[a], IF a = streams[i].agent THEN E ELSE {}, i)
    <3>1. NoticeA(S, a, i) \subseteq IF a = streams[i].agent THEN E ELSE {}
      BY DEF NoticeA
    <3>2. Adds(toAgent[a], toAgent'[a], NoticeA(S, a, i), i)
            => Adds(toAgent[a], toAgent'[a], IF a = streams[i].agent THEN E ELSE {}, i)
      BY <3>1, AddsMore
    <3> QED
      BY <3>2 DEF Feed
  <2>4. Feeds(i, E, streams[i].agent, E)
    BY <2>2, <2>3 DEF Feeds
  <2>5. Told(i)
    BY DEF Told, Endings
  <2> QED
    BY <2>1, <2>4, <2>5 DEF Ends
<1>4. NoZero => NoZero'
  <2>1. ASSUME NEW w \in ClientWs, Kinds(toClient[w], 0) = {} PROVE Kinds(toClient'[w], 0) = {}
    <3>1. 0 \notin S
      BY ServerAssumption DEF Ids
    <3>2. NoticeC(S, w, 0) = {}
      BY <3>1 DEF NoticeC
    <3>3. toClient'[w] = <<>> \/ Adds(toClient[w], toClient'[w], {}, 0)
      BY <3>2
    <3> QED
      BY <2>1, <3>3, KindsNone DEF Adds
  <2> QED
    BY <2>1 DEF NoZero
<1>5. ASSUME NEW w \in ClientWs, \A i \in Ids : Live(i) /\ streams[i].ws = w => i \in S
      PROVE  \A i \in Ids : Live(i)' => streams'[i].ws # w
  BY <1>1, <1>5 DEF Live, Free
<1>6. Hushed
  BY <1>5 DEF Hushed
<1> QED
  BY <1>2, <1>3, <1>4, <1>6 DEF Turn

(* cleanupStreamsForWs, when a client's connection has closed. *)
LEMMA ClientClosedTurn ==
  ASSUME TypeOK, NEW w \in ClientWs, ClientClosed(w)
  PROVE  Turn
<1> DEFINE S == StreamsOn(w)
<1>1. S \in SUBSET Ids /\ \A i \in Ids : i \in S <=> Live(i) /\ streams[i].ws = w
  BY DEF StreamsOn, LiveIds, Live
<1>2. /\ Freed(S) /\ agentStreams' = Disowned(S) /\ NotifyAgents(S)
      /\ clients' = [clients EXCEPT ![w] = "absent"]
      /\ toClient' = [toClient EXCEPT ![w] = <<>>]
      /\ UNCHANGED <<agents, nextId>>
  BY DEF ClientClosed
<1> HIDE DEF S
<1>3. clients'[w] # "open" /\ toClient'[w] = <<>>
  BY <1>2 DEF TypeOK
<1>4. ASSUME NEW v \in ClientWs, v # w
      PROVE  clients'[v] = clients[v] /\ toClient'[v] = toClient[v] /\ \A i : Adds(toClient[v], toClient'[v], NoticeC(S, v, i), i)
  <2>1. clients'[v] = clients[v] /\ toClient'[v] = toClient[v]
    BY <1>2, <1>4 DEF TypeOK
  <2> QED
    BY <2>1, AddsNothing
<1>5. ASSUME NEW a \in AgentWs, NEW i
      PROVE  /\ Adds(toAgent[a], toAgent'[a], NoticeA(S, a, i), i)
             /\ agents[a] # "open" => toAgent'[a] = toAgent[a]
             /\ i \in S /\ IsAgent(i) /\ streams[i].agent = a /\ agents[a] = "open"
                  => "TCP_ABORT" \in Kinds(toAgent'[a], i)
  BY <1>1, <1>2, NotifyAgentsAdds DEF NoticeA
<1>6. \A a \in AgentWs : \A i : i \in agentStreams'[a] => i \in agentStreams[a]
  BY <1>2 DEF Disowned
<1>7. \A v \in ClientWs : \A i \in S : streams[i].ws = v => v = w
  BY <1>1
<1> QED
  BY <1>1, <1>2, <1>3, <1>4, <1>5, <1>6, <1>7, ManyTurn

(* cleanupAgent, when an agent's connection has closed; the ids in its set  *)
(* are its own streams.                                                     *)
LEMMA AgentClosedTurn ==
  ASSUME TypeOK, NEW a \in AgentWs, AgentClosed(a),
         \A i \in Ids : i \in agentStreams[a] /\ Live(i) => streams[i].agent = a
  PROVE  Turn
<1> DEFINE S == agentStreams[a] \cap LiveIds
<1>1. S \in SUBSET Ids /\ \A i \in S : Live(i) /\ streams[i].agent = a
  BY DEF LiveIds, Live
<1>2. /\ Freed(S) /\ agentStreams' = [Disowned(S) EXCEPT ![a] = {}] /\ NotifyClients(S)
      /\ agents' = [agents EXCEPT ![a] = "absent"]
      /\ toAgent' = [toAgent EXCEPT ![a] = <<>>]
      /\ UNCHANGED <<clients, nextId>>
  BY DEF AgentClosed
<1> HIDE DEF S
<1>3. agents'[a] # "open" /\ toAgent'[a] = <<>>
  BY <1>2 DEF TypeOK
<1>4. ASSUME NEW b \in AgentWs, b # a
      PROVE  agents'[b] = agents[b] /\ toAgent'[b] = toAgent[b] /\ \A i : Adds(toAgent[b], toAgent'[b], NoticeA(S, b, i), i)
  <2>1. agents'[b] = agents[b] /\ toAgent'[b] = toAgent[b]
    BY <1>2, <1>4 DEF TypeOK
  <2> QED
    BY <2>1, AddsNothing
<1>5. ASSUME NEW w \in ClientWs, NEW i
      PROVE  /\ Adds(toClient[w], toClient'[w], NoticeC(S, w, i), i)
             /\ clients[w] # "open" => toClient'[w] = toClient[w]
             /\ i \in S /\ streams[i].ws = w /\ clients[w] = "open"
                  => "TCP_ABORT" \in Kinds(toClient'[w], i)
  BY <1>1, <1>2, NotifyClientsAdds DEF NoticeC
<1>6. \A b \in AgentWs : \A i : i \in agentStreams'[b] => i \in agentStreams[b]
  BY <1>2 DEF Disowned
<1>7. \A b \in AgentWs : \A i \in S : streams[i].agent = b => b = a
  BY <1>1
<1> QED
  BY <1>1, <1>2, <1>3, <1>4, <1>5, <1>6, <1>7, ManyTurn

(* The shutdown. *)
LEMMA ShutdownTurn ==
  ASSUME TypeOK, Shutdown
  PROVE  Turn
<1> DEFINE stop(st) == [w \in DOMAIN st |-> IF st[w] = "open" THEN "closing" ELSE st[w]]
<1>1. LiveIds \in SUBSET Ids /\ \A i \in LiveIds : Live(i)
  BY DEF LiveIds, Live
<1>2. /\ Freed(LiveIds) /\ NotifyAgents(LiveIds) /\ NotifyClients(LiveIds)
      /\ clients' = stop(clients) /\ agents' = stop(agents)
      /\ agentStreams' = [a \in AgentWs |-> {}] /\ nextId' = nextId
  BY DEF Shutdown
<1>3. /\ \A w \in ClientWs : clients'[w] # "open" /\ clients'[w] \in {clients[w], "closing"}
      /\ \A a \in AgentWs : agents'[a] # "open" /\ agents'[a] \in {agents[a], "closing"}
  BY <1>2 DEF TypeOK
<1>4. \A w \in ClientWs : /\ clients[w] # "open" => toClient'[w] = toClient[w]
                          /\ \A i : Adds(toClient[w], toClient'[w], NoticeC(LiveIds, w, i), i)
  BY <1>1, <1>2, NotifyClientsAdds DEF NoticeC
<1>5. \A a \in AgentWs : /\ agents[a] # "open" => toAgent'[a] = toAgent[a]
                         /\ \A i : Adds(toAgent[a], toAgent'[a], NoticeA(LiveIds, a, i), i)
  BY <1>1, <1>2, NotifyAgentsAdds DEF NoticeA
<1>6. \A a \in AgentWs : \A i : i \in agentStreams'[a] => i \in agentStreams[a]
  BY <1>2
<1> HIDE DEF stop
<1> QED
  BY <1>1, <1>2, <1>3, <1>4, <1>5, <1>6, ManyTurn

(* The events of the server's own in which no connection is made. *)
ServerMoves ==
  \/ \E i \in Ids : DirectData(i) \/ DirectClose(i) \/ DirectError(i) \/ IdleTimeout(i)
  \/ \E w \in ClientWs : ClientClosing(w) \/ ClientClosed(w)
  \/ \E a \in AgentWs : AgentClosing(a) \/ AgentClosed(a)
  \/ Shutdown

(* Each is a turn, and so is a direct connection. *)
LEMMA EventTurn ==
  ASSUME TypeOK, ServerMoves \/ \E p \in Ports : DirectConnect(p),
         \A a \in AgentWs, i \in Ids : i \in agentStreams[a] /\ Live(i) => streams[i].agent = a,
         \A i \in Ids : streams[i].awaiting => IsAgent(i)
  PROVE  Turn
<1>1. ASSUME NEW p \in Ports, DirectConnect(p) PROVE Turn
  BY <1>1, DirectTurn
<1>2. ASSUME NEW i \in Ids, IsDirect(i), Relay(i) \/ EndStream(i, <<>>, <<CloseOf(i)>>) \/ EndStream(i, <<>>, <<AbortOf(i)>>)
      PROVE  Turn
  <2>1. Live(i) /\ ~IsAgent(i)
    BY <1>2 DEF IsDirect, IsAgent, Live
  <2>2. CASE Relay(i)
    BY <2>1, <2>2, RelayTurn
  <2>3. ASSUME NEW c \in {AbortOf(i), CloseOf(i)}, EndStream(i, <<>>, <<c>>) PROVE Turn
    <3>1. /\ <<c>> \in Seq(FrameSet) /\ <<>> \in Seq(FrameSet)
          /\ AreOf(<<>>, i, {"TCP_ABORT", "TCP_CLOSE"}) /\ AreOf(<<c>>, i, {"TCP_ABORT", "TCP_CLOSE"})
          /\ \A k \in DOMAIN <<c>> : <<c>>[k].id # 0
          /\ Kinds(<<c>>, i) \cap Endings # {}
      BY <2>3, EndFrames, OneOf
    <3> QED
      BY <2>1, <2>3, <3>1, EndTurn
  <2> QED
    BY <1>2, <2>2, <2>3
<1>3. ASSUME NEW i \in Ids, IdleTimeout(i) PROVE Turn
  BY <1>3, AbortTurn DEF IdleTimeout, LiveIds, Live
<1>4. ASSUME NEW w \in ClientWs, ClientClosing(w) PROVE Turn
  BY <1>4, StillTurn DEF ClientClosing, streamVars, channels, TypeOK
<1>5. ASSUME NEW a \in AgentWs, AgentClosing(a) PROVE Turn
  BY <1>5, StillTurn DEF AgentClosing, streamVars, channels, TypeOK
<1>6. ASSUME NEW w \in ClientWs, ClientClosed(w) PROVE Turn
  BY <1>6, ClientClosedTurn
<1>7. ASSUME NEW a \in AgentWs, AgentClosed(a) PROVE Turn
  BY <1>7, AgentClosedTurn
<1> QED
  BY <1>1, <1>2, <1>3, <1>4, <1>5, <1>6, <1>7, ShutdownTurn
     DEF ServerMoves, DirectData, DirectClose, DirectError

-----------------------------------------------------------------------------
(* The inductive invariant.  A stream's slot is well formed, its client's   *)
(* WebSocket has not closed, and the agent that keeps it in its set is its  *)
(* own.                                                                     *)
Owned(i) ==
  /\ ~Live(i) => streams[i] = Free
  /\ Live(i) => streams[i].ws \in ClientWs /\ streams[i].port \in Ports
  /\ IsAgent(i) => streams[i].agent \in AgentWs
  /\ streams[i].awaiting => IsAgent(i)
  /\ \A a \in AgentWs : i \in agentStreams[a] /\ Live(i) => streams[i].agent = a
  /\ \A w \in ClientWs : clients[w] = "absent" /\ Live(i) => streams[i].ws # w

(* An id that was not used yet is known nowhere. *)
Fresh(i) ==
  /\ streams[i] = Free /\ streamed[i] = Agt!NoSock /\ i \notin idled
  /\ \A w \in ClientWs : /\ i \notin opened[w] /\ local[w][i] = "none"
                         /\ Kinds(toClient[w], i) = {} /\ Kinds(fromClient[w], i) = {}
  /\ \A a \in AgentWs : /\ Kinds(toAgent[a], i) = {} /\ Kinds(fromAgent[a], i) = {}
                        /\ i \notin agentStreams[a]

(* A stream at the client's end: what the client knows of it, what is on    *)
(* its way in both directions and what the server knows agree.              *)
AtClient(w, i) ==
  LET in == Kinds(toClient[w], i)
      out == Kinds(fromClient[w], i)
      own == Live(i) /\ streams[i].ws = w
  IN
  /\ Leads(toClient[w], "TCP_OPEN", i)
  /\ in \subseteq {"TCP_OPEN", "TCP_DATA", "TCP_CLOSE", "TCP_ABORT"}
  /\ "TCP_OPEN" \in in => /\ i \notin opened[w] /\ local[w][i] = "none" /\ out = {}
                          /\ own \/ in \cap Endings # {} \/ clients[w] # "open"
  /\ in \cap Endings # {} => ~Live(i)
  /\ out \cap Endings # {} => i \notin opened[w]
  /\ "TCP_OPEN_ACK" \in out /\ i \in opened[w] => local[w][i] = "connected"
  /\ "RES_ABORT" \in out => i \in idled
  /\ local[w][i] # "none" => i \in opened[w] \cup idled
  /\ i \in opened[w] => own \/ in \cap Endings # {} \/ clients[w] # "open"
  /\ own => i \in opened[w] \/ "TCP_OPEN" \in in \/ out \cap Endings # {} \/ clientLinks[w] # "open"
  /\ own /\ IsAgent(i) /\ streams[i].awaiting => "TCP_DATA" \notin in
  /\ own /\ IsAgent(i) /\ ~streams[i].awaiting =>
       "TCP_OPEN" \notin in /\ (i \in opened[w] => local[w][i] = "connected")

(* And at the agent's end, which hears of a stream by TCP_CONNECT_ACK.      *)
Unheard(i) == streamed[i] = Agt!NoSock /\ \A b \in AgentWs : Kinds(fromAgent[b], i) = {}

AtAgent(a, i) ==
  LET in == Kinds(toAgent[a], i)
      out == Kinds(fromAgent[a], i)
      told == \/ IsAgent(i) /\ streams[i].agent = a
              \/ in \cap Endings # {} \/ i \in idled \/ agents[a] # "open"
  IN
  /\ Leads(toAgent[a], "TCP_CONNECT_ACK", i)
  /\ Acked(a, i) => Unheard(i) /\ told /\ \A b \in AgentWs : Acked(b, i) => b = a
  /\ in \cap Endings # {} => ~IsAgent(i)
  /\ out \cap Endings # {} => streamed[i] = Agt!NoSock
  /\ Session(a) /\ streamed[i] # Agt!NoSock => told
  /\ IsAgent(i) /\ streams[i].awaiting => ~Acked(a, i)
  /\ Acked(a, i) /\ IsAgent(i) =>
       streams[i].agent = a /\ Named(toAgent[a], "TCP_CONNECT_ACK", i) \subseteq {streams[i].port}

Confirmed(i) ==
  IsAgent(i) => /\ streams[i].awaiting => Unheard(i)
                /\ streamed[i] # Agt!NoSock => /\ Session(streams[i].agent)
                                               /\ streams[i].port = SockPort[streamed[i]]

Sound(i) == /\ Owned(i) /\ Confirmed(i)
            /\ \A w \in ClientWs : AtClient(w, i)
            /\ \A a \in AgentWs : AtAgent(a, i)

(* Before a connection and after it there is nothing under way.             *)
Blank ==
  /\ \A w \in ClientWs : /\ clients[w] = "absent" => toClient[w] = <<>>
                         /\ clientLinks[w] = "unused" => opened[w] = {}
  /\ \A a \in AgentWs : agents[a] = "absent" => toAgent[a] = <<>>

(* The agent has one session at a time, and a connection is in one place.   *)
Apart ==
  /\ \A a, b \in AgentWs : Session(a) /\ Session(b) => a = b
  /\ (\A a \in AgentWs : ~Session(a)) => pending = <<>> /\ \A i \in Ids : streamed[i] = Agt!NoSock
  /\ \A j, k \in DOMAIN pending : pending[j] = pending[k] => j = k
  /\ \A k \in DOMAIN pending : sock[pending[k]] # "new"
  /\ \A i \in Ids : streamed[i] # Agt!NoSock =>
       /\ \A k \in DOMAIN pending : pending[k] # streamed[i]
       /\ \A j \in Ids : streamed[j] = streamed[i] => i = j
       /\ sock[streamed[i]] # "new"

(* Ids are handed out in turn, and not more of them than there are          *)
(* connections: n were used, and each TCP_CONNECT under way may take one    *)
(* more.                                                                    *)
Asking == {x \in UNION {{a} \X DOMAIN fromAgent[a] : a \in AgentWs} : fromAgent[x[1]][x[2]].type = "TCP_CONNECT"}
Made   == {s \in Socks : sock[s] # "new"}

Used(n) ==
  /\ nextId = (n % MaxId) + 1
  /\ n + Cardinality(Asking) <= directs + Cardinality(Made)
  /\ \A i \in n + 1 .. MaxId : Fresh(i)

Unused ==
  /\ IsFiniteSet(Asking)
  /\ directs + Cardinality(Made) <= MaxConns
  /\ \E n \in 0 .. MaxId : Used(n)

Joint == NoZero /\ Blank /\ Apart /\ Unused /\ \A i \in Ids : Sound(i)

IInvTunnel == Typed /\ Joint

-----------------------------------------------------------------------------
(* A turn of the server.  The other ends keep what they have; the server    *)
(* has taken at most one frame from a channel.                              *)
OthersKeep == UNCHANGED <<sock, pending, streamed, agentLinks, opened, local, clientLinks, idled>>

Hears(i) ==
  /\ \A w \in ClientWs : Kinds(fromClient'[w], i) \subseteq Kinds(fromClient[w], i)
  /\ \A a \in AgentWs : Kinds(fromAgent'[a], i) \subseteq Kinds(fromAgent[a], i)

(* A frame that ends a stream, once taken, has ended it. *)
Obeys(i) ==
  \A w \in ClientWs :
    Live(i)' /\ streams'[i].ws = w /\ Kinds(fromClient[w], i) \cap Endings # {}
      => Kinds(fromClient'[w], i) \cap Endings # {}

Done(i) == Calm(i) \/ Flows(i) \/ Strays(i) \/ Acks(i) \/ Ends(i) \/ (Opens(i) /\ Fresh(i))

LEMMA OwnedTurn ==
  ASSUME TypeOK, NEW i \in Ids, Owned(i), Done(i), Hushed
  PROVE  Owned(i)'
<1>1. \A w \in ClientWs : clients'[w] = "absent" /\ Live(i)' => clients[w] = "absent" \/ streams'[i].ws # w
  BY DEF Hushed
<1>2. CASE streams'[i] = streams[i] /\ \A a \in AgentWs : i \in agentStreams'[a] => i \in agentStreams[a]
  BY <1>1, <1>2 DEF Owned, Live, IsAgent
<1>3. CASE Acks(i)
  <2>1. /\ streams'[i].kind = streams[i].kind /\ streams'[i].ws = streams[i].ws
        /\ streams'[i].agent = streams[i].agent /\ streams'[i].port = streams[i].port
        /\ ~streams'[i].awaiting /\ IsAgent(i) /\ agentStreams' = agentStreams
    BY <1>3 DEF Acks, TypeOK, Stream
  <2> QED
    BY <1>1, <2>1 DEF Owned, Live, IsAgent
<1>4. CASE Ends(i)
  BY <1>4 DEF Ends, Owned, Live, IsAgent, Free
<1>5. CASE Opens(i) /\ Fresh(i)
  <2>1. \A w \in ClientWs : clients'[w] = "absent" => streams'[i].ws # w
    BY <1>5 DEF Opens
  <2>2. \A a \in AgentWs : i \in agentStreams'[a] => streams'[i].agent = a
    BY <1>5 DEF Opens, Fresh
  <2>3. /\ streams'[i].kind \in {"agent", "direct"}
        /\ streams'[i].ws \in ClientWs /\ streams'[i].port \in Ports
        /\ streams'[i].awaiting <=> streams'[i].kind = "agent"
        /\ streams'[i].kind = "agent" => streams'[i].agent \in AgentWs
    BY <1>5 DEF Opens
  <2> QED
    BY <2>1, <2>2, <2>3 DEF Owned, Live, IsAgent
<1> QED
  BY <1>2, <1>3, <1>4, <1>5 DEF Done, Calm, Flows, Strays, Stays, Feeds

LEMMA FreshTurn ==
  ASSUME TypeOK, NEW i \in Ids, Fresh(i), Done(i), ~Opens(i), OthersKeep, Hears(i)
  PROVE  Fresh(i)'
<1>1. ~Live(i) /\ ~IsAgent(i) /\ \A b \in AgentWs : Kinds(fromAgent[b], i) = {}
  BY DEF Fresh, Free, Live, IsAgent
<1>2. Calm(i)
  BY <1>1 DEF Done, Flows, Strays, Acks, Ends
<1>3. streams'[i] = streams[i] /\ Feeds(i, {}, NoWs, {})
  BY <1>2 DEF Calm, Stays
<1>4. ASSUME NEW w \in ClientWs PROVE Kinds(toClient'[w], i) = {}
  <2>1. toClient'[w] = <<>> \/ Adds(toClient[w], toClient'[w], {}, i)
    BY <1>3 DEF Feeds, Feed
  <2> QED
    BY <2>1, KindsNone DEF Adds, Fresh
<1>5. ASSUME NEW a \in AgentWs PROVE Kinds(toAgent'[a], i) = {}
  <2>1. toAgent'[a] = <<>> \/ Adds(toAgent[a], toAgent'[a], {}, i)
    BY <1>3 DEF Feeds, Feed
  <2> QED
    BY <2>1, KindsNone DEF Adds, Fresh
<1>6. \A w \in ClientWs : Kinds(fromClient'[w], i) = {}
  BY DEF Hears, Fresh
<1>7. \A a \in AgentWs : Kinds(fromAgent'[a], i) = {} /\ i \notin agentStreams'[a]
  BY <1>3 DEF Hears, Fresh, Feeds
<1> QED
  BY <1>3, <1>4, <1>5, <1>6, <1>7 DEF Fresh, OthersKeep

LEMMA LeadsNone == ASSUME NEW t, NEW i PROVE Leads(<<>>, t, i)
  BY DEF Leads

(* The client's side of a stream after a turn of the server. *)
LEMMA ClientTurn ==
  ASSUME TypeOK, NEW i \in Ids, NEW w \in ClientWs, AtClient(w, i), Owned(i), Done(i),
         OthersKeep, Hears(i), Obeys(i)
  PROVE  AtClient(w, i)'
<1> DEFINE in == Kinds(toClient[w], i)
           out == Kinds(fromClient[w], i)
           own == Live(i) /\ streams[i].ws = w
<1>1. /\ opened' = opened /\ local' = local /\ clientLinks' = clientLinks /\ idled' = idled
      /\ out' \subseteq out
      /\ own' /\ out \cap Endings # {} => out' \cap Endings # {}
  BY DEF OthersKeep, Hears, Obeys
<1>2. ASSUME NEW X, X \subseteq {"TCP_DATA"}, streams'[i] = streams[i],
             IsAgent(i) /\ streams[i].awaiting => X = {},
             Feed(toClient[w], toClient'[w], clients[w], clients'[w], X, i),
             own => Adds(toClient[w], toClient'[w], X, i)
      PROVE  AtClient(w, i)'
  <2>1. (own' <=> own) /\ (Live(i)' <=> Live(i)) /\ (IsAgent(i)' <=> IsAgent(i))
    BY <1>2 DEF Live, IsAgent
  <2>2. CASE toClient'[w] = <<>> /\ clients'[w] # "open" /\ ~own
    <3>1. in' = {} /\ Leads(toClient'[w], "TCP_OPEN", i)
      BY <2>2, KindsNone, LeadsNone
    <3> HIDE DEF in, out, own
    <3> QED
      BY <1>1, <1>2, <2>1, <2>2, <3>1 DEF AtClient, in, out, own
  <2>3. CASE Adds(toClient[w], toClient'[w], X, i) /\ (clients'[w] = "open" => clients[w] = "open")
    <3>1. /\ in \subseteq in' /\ in' \subseteq in \cup {"TCP_DATA"} /\ (IsAgent(i) /\ streams[i].awaiting => in' = in)
          /\ Leads(toClient[w], "TCP_OPEN", i) => Leads(toClient'[w], "TCP_OPEN", i)
      BY <1>2, <2>3 DEF Adds
    <3>2. in' \cap Endings = in \cap Endings /\ ("TCP_OPEN" \in in' <=> "TCP_OPEN" \in in)
      BY <3>1 DEF Endings
    <3> HIDE DEF in, out, own
    <3> QED
      BY <1>1, <1>2, <2>1, <2>3, <3>1, <3>2 DEF AtClient, in, out, own
  <2> QED
    BY <1>2, <2>2, <2>3 DEF Feed
<1>3. ASSUME NEW X, X \subseteq {"TCP_DATA"}, Stays(i, X), \E b, Y : Feeds(i, X, b, Y),
             IsAgent(i) /\ streams[i].awaiting => X = {}
      PROVE  AtClient(w, i)'
  <2>1. Feed(toClient[w], toClient'[w], clients[w], clients'[w], IF w = streams[i].ws THEN X ELSE {}, i)
    BY <1>3 DEF Feeds
  <2>2. CASE own
    BY <1>2, <1>3, <2>1, <2>2 DEF Stays
  <2>3. CASE ~Live(i) \/ streams[i].ws # w
    <3>1. Feed(toClient[w], toClient'[w], clients[w], clients'[w], {}, i)
      <4>1. streams[i].ws # w
        BY <2>3, ServerAssumption DEF Owned, Free
      <4> QED
        BY <2>1, <4>1
    <3> QED
      BY <1>2, <1>3, <2>3, <3>1 DEF Stays
  <2> QED
    BY <2>2, <2>3
<1>4. CASE Acks(i)
  <2>1. /\ streams'[i].kind = streams[i].kind /\ streams'[i].ws = streams[i].ws
        /\ streams[i].awaiting /\ ~streams'[i].awaiting /\ IsAgent(i)
        /\ toClient' = toClient /\ clients' = clients
    BY <1>4 DEF Acks, TypeOK, Stream
  <2>2. (own' <=> own) /\ (Live(i)' <=> Live(i)) /\ IsAgent(i)' /\ Live(i)
    BY <2>1 DEF Live, IsAgent
  <2>3. own => "TCP_OPEN_ACK" \in out
    BY <1>4 DEF Acks
  <2>4. own => "TCP_OPEN" \notin in /\ (i \in opened[w] => local[w][i] = "connected")
    BY <2>3 DEF AtClient
  <2> QED
    BY <1>1, <2>1, <2>2, <2>4 DEF AtClient
<1>5. CASE Ends(i)
  <2>1. Live(i) /\ ~Live(i)' /\ ~IsAgent(i)'
    BY <1>5 DEF Ends, Live, IsAgent, Free
  <2>2. /\ own /\ clients'[w] = "open" /\ (i \in opened[w] \/ "TCP_OPEN" \in in)
             => in' \cap Endings # {}
        /\ Feed(toClient[w], toClient'[w], clients[w], clients'[w],
                IF w = streams[i].ws THEN {"TCP_ABORT", "TCP_CLOSE"} ELSE {}, i)
    BY <1>5 DEF Ends, Told, Feeds
  <2>3. CASE toClient'[w] = <<>> /\ clients'[w] # "open"
    <3>1. in' = {} /\ Leads(toClient'[w], "TCP_OPEN", i)
      BY <2>3, KindsNone, LeadsNone
    <3> QED
      BY <1>1, <2>1, <2>3, <3>1 DEF AtClient
  <2>4. CASE Adds(toClient[w], toClient'[w], {"TCP_ABORT", "TCP_CLOSE"}, i) /\ (clients'[w] = "open" => clients[w] = "open")
    <3>1. /\ in \subseteq in' /\ in' \subseteq in \cup {"TCP_ABORT", "TCP_CLOSE"}
          /\ Leads(toClient[w], "TCP_OPEN", i) => Leads(toClient'[w], "TCP_OPEN", i)
      BY <2>4 DEF Adds
    <3> QED
      BY <1>1, <2>1, <2>2, <2>4, <3>1 DEF AtClient
  <2> QED
    BY <2>2, <2>3, <2>4, AddsMore DEF Feed
<1>6. CASE Opens(i) /\ Fresh(i)
  <2> DEFINE s == streams'[i]
             f == Frame("TCP_OPEN", i, s.port)
  <2>1. /\ s.kind \in {"agent", "direct"} /\ s.ws \in ClientWs /\ s.port \in Ports /\ clients[s.ws] = "open"
        /\ s.awaiting <=> s.kind = "agent"
        /\ toClient' = Post(toClient, clients, s.ws, f) /\ clients' = clients
    BY <1>6 DEF Opens
  <2>2. i \notin opened[w] /\ local[w][i] = "none" /\ in = {} /\ out = {}
    BY <1>6 DEF Fresh
  <2>3. f \in FrameSet /\ f.id = i /\ f.type = "TCP_OPEN"
    BY <2>1, FrameType DEF TcpTypes, Frame
  <2>4. Live(i)' /\ (own' <=> s.ws = w) /\ (IsAgent(i)' => s.awaiting)
    BY <2>1 DEF Live, IsAgent
  <2> HIDE DEF f
  <2>5. CASE w = s.ws
    <3>1. toClient'[w] = toClient[w] \o <<f>> /\ toClient[w] \in Seq(FrameSet)
      BY <2>1, <2>5 DEF Post, PostAll, TypeOK
    <3>2. Leads(toClient'[w], "TCP_OPEN", i)
      BY <2>2, <2>3, <3>1, LeadsFirst
    <3>3. in' = {"TCP_OPEN"}
      <4>1. Kinds(toClient[w] \o <<f>>, i) = Kinds(toClient[w], i) \cup (IF f.id = i THEN {f.type} ELSE {})
        BY <2>3, <3>1, KindsPut
      <4> QED
        BY <2>2, <2>3, <3>1, <4>1
    <3> QED
      BY <1>1, <2>1, <2>2, <2>4, <2>5, <3>2, <3>3 DEF AtClient, Endings
  <2>6. CASE w # s.ws
    <3>1. toClient'[w] = toClient[w]
      BY <2>1, <2>6 DEF Post, PostAll, TypeOK
    <3> QED
      BY <1>1, <2>1, <2>2, <2>4, <2>6, <3>1 DEF AtClient
  <2> QED
    BY <2>5, <2>6
<1>7. CASE Calm(i)
  BY <1>3, <1>7 DEF Calm
<1>8. CASE Flows(i)
  <2>1. Stays(i, DataOf(i)) /\ Feeds(i, DataOf(i), streams[i].agent, {"TCP_DATA"})
    BY <1>8 DEF Flows
  <2>2. DataOf(i) \subseteq {"TCP_DATA"} /\ (IsAgent(i) /\ streams[i].awaiting => DataOf(i) = {})
    BY DEF DataOf
  <2> QED
    BY <1>3, <2>1, <2>2
<1>9. CASE Strays(i)
  BY <1>3, <1>9 DEF Strays
<1> QED
  BY <1>4, <1>5, <1>6, <1>7, <1>8, <1>9 DEF Done

LEMMA NamedFirst ==
  ASSUME NEW T, NEW q \in Seq(T), NEW f \in T, f.type \notin Kinds(q, f.id)
  PROVE  Named(q \o <<f>>, f.type, f.id) \subseteq {f.port}
<1>1. Len(q) \in Nat /\ DOMAIN q = 1 .. Len(q)
  OBVIOUS
<1>2. \A k \in 1 .. Len(q) : q[k].id = f.id => q[k].type # f.type
  BY <1>1 DEF Kinds
<1> DEFINE p == q \o <<f>>
<1>3. DOMAIN p = 1 .. Len(q) + 1 /\ (\A k \in 1 .. Len(q) : p[k] = q[k]) /\ p[Len(q) + 1] = f
  BY <1>1
<1> HIDE DEF p
<1>4. \A k \in DOMAIN p : p[k].id = f.id /\ p[k].type = f.type => p[k].port = f.port
  BY <1>1, <1>2, <1>3
<1>5. Named(p, f.type, f.id) \subseteq {f.port}
  BY <1>4 DEF Named
<1> QED
  BY <1>5 DEF p

(* What the agent knows of a stream after a turn of the server. *)
LEMMA ConfirmedTurn ==
  ASSUME TypeOK, NEW i \in Ids, Confirmed(i), Done(i), OthersKeep, Hears(i)
  PROVE  Confirmed(i)'
<1>1. /\ streamed' = streamed /\ agentLinks' = agentLinks
      /\ Unheard(i) => Unheard(i)'
  BY DEF OthersKeep, Hears, Unheard
<1>2. CASE streams'[i] = streams[i]
  BY <1>1, <1>2 DEF Confirmed, IsAgent, Session
<1>3. CASE Acks(i)
  <2>1. ~streams'[i].awaiting /\ streamed[i] = Agt!NoSock
    BY <1>3 DEF Acks, TypeOK, Stream, Confirmed, Unheard
  <2> QED
    BY <1>1, <2>1 DEF Confirmed
<1>4. CASE Ends(i)
  BY <1>4 DEF Ends, Confirmed, IsAgent, Free
<1>5. CASE Opens(i) /\ Fresh(i)
  <2>1. Unheard(i)
    BY <1>5 DEF Fresh, Unheard
  <2> QED
    BY <1>1, <2>1 DEF Confirmed, Unheard
<1> QED
  BY <1>2, <1>3, <1>4, <1>5 DEF Done, Calm, Flows, Strays, Stays

LEMMA AgentTurn ==
  ASSUME TypeOK, NEW i \in Ids, NEW a \in AgentWs, \A b \in AgentWs : AtAgent(b, i),
         Owned(i), Confirmed(i), Done(i), OthersKeep, Hears(i)
  PROVE  AtAgent(a, i)'
<1> DEFINE in == Kinds(toAgent[a], i)
           out == Kinds(fromAgent[a], i)
<1>1. /\ streamed' = streamed /\ agentLinks' = agentLinks /\ idled' = idled
      /\ out' \subseteq out /\ (Unheard(i) => Unheard(i)') /\ (Session(a)' <=> Session(a))
  BY DEF OthersKeep, Hears, Unheard, Session
<1>2. AtAgent(a, i)
  OBVIOUS
<1>3. ASSUME NEW X, NEW b, NEW Y, Feeds(i, X, b, Y), "TCP_CONNECT_ACK" \notin Y
      PROVE  /\ Leads(toAgent'[a], "TCP_CONNECT_ACK", i)
             /\ in' \cap Endings # {} => in \cap Endings # {} \/ (a = b /\ Y \cap Endings # {})
             /\ in \cap Endings # {} => in' \cap Endings # {} \/ agents'[a] # "open"
             /\ agents'[a] = "open" => agents[a] = "open"
             /\ \A c \in AgentWs : Acked(c, i)' => Acked(c, i)
             /\ Named(toAgent'[a], "TCP_CONNECT_ACK", i) \subseteq Named(toAgent[a], "TCP_CONNECT_ACK", i)
  <2>1. ASSUME NEW c \in AgentWs
        PROVE  \/ toAgent'[c] = <<>> /\ agents'[c] # "open"
               \/ Adds(toAgent[c], toAgent'[c], IF c = b THEN Y ELSE {}, i) /\ (agents'[c] = "open" => agents[c] = "open")
    BY <1>3 DEF Feeds, Feed
  <2>2. ASSUME NEW c \in AgentWs, Acked(c, i)' PROVE Acked(c, i)
    BY <1>3, <2>1, <2>2, KindsNone DEF Acked, Adds
  <2>3. CASE toAgent'[a] = <<>> /\ agents'[a] # "open"
    <3>1. in' = {} /\ Leads(toAgent'[a], "TCP_CONNECT_ACK", i) /\ Named(toAgent'[a], "TCP_CONNECT_ACK", i) = {}
      BY <2>3, KindsNone, LeadsNone DEF Named
    <3> QED
      BY <2>2, <2>3, <3>1
  <2>4. CASE Adds(toAgent[a], toAgent'[a], IF a = b THEN Y ELSE {}, i) /\ (agents'[a] = "open" => agents[a] = "open")
    <3>1. Leads(toAgent[a], "TCP_CONNECT_ACK", i)
      BY <1>2 DEF AtAgent
    <3>2. "TCP_CONNECT_ACK" \notin (IF a = b THEN Y ELSE {})
      BY <1>3
    <3>3. /\ in \subseteq in' /\ in' \subseteq in \cup (IF a = b THEN Y ELSE {})
          /\ Leads(toAgent'[a], "TCP_CONNECT_ACK", i)
          /\ Named(toAgent'[a], "TCP_CONNECT_ACK", i) \subseteq Named(toAgent[a], "TCP_CONNECT_ACK", i)
      BY <2>4, <3>1, <3>2 DEF Adds
    <3> QED
      BY <2>2, <2>4, <3>3
  <2> QED
    BY <2>1, <2>3, <2>4
<1>4. ASSUME NEW X, NEW b, NEW Y, Feeds(i, X, b, Y), "TCP_CONNECT_ACK" \notin Y, streams'[i] = streams[i],
             Y \cap Endings # {} => ~IsAgent(i)
      PROVE  AtAgent(a, i)'
  <2>1. IsAgent(i)' <=> IsAgent(i)
    BY <1>4 DEF IsAgent
  <2>2. /\ Leads(toAgent'[a], "TCP_CONNECT_ACK", i)
        /\ in' \cap Endings # {} => ~IsAgent(i)
        /\ in \cap Endings # {} => in' \cap Endings # {} \/ agents'[a] # "open"
        /\ agents'[a] = "open" => agents[a] = "open"
        /\ \A c \in AgentWs : Acked(c, i)' => Acked(c, i)
        /\ Named(toAgent'[a], "TCP_CONNECT_ACK", i) \subseteq Named(toAgent[a], "TCP_CONNECT_ACK", i)
    BY <1>2, <1>3, <1>4 DEF AtAgent
  <2> HIDE DEF in, out
  <2>3. ASSUME \/ IsAgent(i) /\ streams[i].agent = a
               \/ in \cap Endings # {} \/ i \in idled \/ agents[a] # "open"
        PROVE  \/ IsAgent(i)' /\ streams'[i].agent = a
               \/ in' \cap Endings # {} \/ i \in idled' \/ agents'[a] # "open"
    BY <1>1, <1>4, <2>1, <2>2, <2>3
  <2> QED
    BY <1>1, <1>2, <1>4, <2>1, <2>2, <2>3 DEF AtAgent, in, out
<1>5. CASE Acks(i)
  <2> DEFINE b == streams[i].agent
             f == Frame("TCP_CONNECT_ACK", i, streams[i].port)
  <2>1. /\ IsAgent(i) /\ streams[i].awaiting /\ b \in AgentWs /\ streams[i].port \in Ports
        /\ IsAgent(i)' /\ ~streams'[i].awaiting /\ streams'[i].agent = b /\ streams'[i].port = streams[i].port
        /\ toAgent' = Post(toAgent, agents, b, f) /\ agents' = agents
    <3>1. Live(i)
      BY <1>5 DEF Acks, IsAgent, Live
    <3> QED
      BY <1>5, <3>1 DEF Acks, IsAgent, TypeOK, Stream, Owned
  <2>2. Unheard(i) /\ \A c \in AgentWs : ~Acked(c, i) /\ Kinds(toAgent[c], i) \cap Endings = {}
    BY <2>1 DEF Confirmed, AtAgent
  <2>3. f \in FrameSet /\ f.id = i /\ f.type = "TCP_CONNECT_ACK" /\ f.port = streams[i].port
    BY <2>1, FrameType DEF TcpTypes, Frame
  <2> HIDE DEF f
  <2>4. \A c \in AgentWs : c # b => toAgent'[c] = toAgent[c]
    BY <2>1 DEF Post, PostAll, TypeOK
  <2>5. toAgent'[b] = toAgent[b] \/ toAgent'[b] = toAgent[b] \o <<f>>
    BY <2>1 DEF Post, PostAll, TypeOK
  <2>6. \A c \in AgentWs : Acked(c, i)' => c = b
    BY <2>2, <2>4 DEF Acked
  <2>7. streamed[i] = Agt!NoSock
    BY <2>2 DEF Unheard
  <2>8. CASE toAgent'[a] = toAgent[a]
    <3>1. ~Acked(a, i)' /\ in' = in
      BY <2>2, <2>8 DEF Acked
    <3> QED
      BY <1>1, <1>2, <2>1, <2>2, <2>7, <2>8, <3>1 DEF AtAgent
  <2>9. CASE a = b /\ toAgent'[a] = toAgent[a] \o <<f>>
    <3>1. toAgent[a] \in Seq(FrameSet) /\ <<f>> \in Seq(FrameSet)
      BY <2>3 DEF TypeOK
    <3>2. Kinds(toAgent[a] \o <<f>>, i) = Kinds(toAgent[a], i) \cup (IF f.id = i THEN {f.type} ELSE {})
      BY <2>3, <3>1, KindsPut
    <3>3. in' = in \cup {"TCP_CONNECT_ACK"}
      BY <2>3, <2>9, <3>2
    <3>4. in' \cap Endings = {}
      BY <2>2, <3>3 DEF Endings
    <3>5. Kinds(toAgent[a], f.id) \cap (Endings \cup {f.type}) = {} /\ f.type \notin Kinds(toAgent[a], f.id)
      BY <2>2, <2>3 DEF Acked
    <3>6. Leads(toAgent'[a], "TCP_CONNECT_ACK", i)
      BY <2>3, <2>9, <3>1, <3>5, LeadsFirst
    <3>7. Named(toAgent'[a], "TCP_CONNECT_ACK", i) \subseteq {streams[i].port}
      <4>1. Named(toAgent[a] \o <<f>>, f.type, f.id) \subseteq {f.port}
        BY <2>3, <3>1, <3>5, NamedFirst
      <4> QED
        BY <2>3, <2>9, <4>1
    <3> QED
      BY <1>1, <1>2, <2>1, <2>2, <2>6, <2>7, <2>9, <3>4, <3>6, <3>7 DEF AtAgent
  <2> QED
    BY <2>4, <2>5, <2>8, <2>9
<1>6. CASE Ends(i)
  <2>1. /\ ~IsAgent(i)' /\ Told(i)
        /\ Feeds(i, {"TCP_ABORT", "TCP_CLOSE"}, streams[i].agent, {"TCP_ABORT", "TCP_CLOSE"})
    BY <1>6 DEF Ends, IsAgent, Free
  <2>2. /\ Leads(toAgent'[a], "TCP_CONNECT_ACK", i)
        /\ in \cap Endings # {} => in' \cap Endings # {} \/ agents'[a] # "open"
        /\ agents'[a] = "open" => agents[a] = "open"
        /\ \A c \in AgentWs : Acked(c, i)' => Acked(c, i)
    BY <1>3, <2>1
  <2>3. ASSUME Acked(a, i) \/ streamed[i] # Agt!NoSock, IsAgent(i) /\ streams[i].agent = a
        PROVE  in' \cap Endings # {} \/ i \in idled \/ agents'[a] # "open"
    BY <2>1, <2>3 DEF Told
  <2> HIDE DEF in, out
  <2> QED
    BY <1>1, <1>2, <2>1, <2>2, <2>3 DEF AtAgent, in, out
<1>7. CASE Opens(i) /\ Fresh(i)
  <2>1. toAgent' = toAgent /\ agents' = agents
    BY <1>7 DEF Opens
  <2>2. /\ in = {} /\ out = {} /\ streamed[i] = Agt!NoSock /\ ~Acked(a, i)
        /\ Leads(toAgent[a], "TCP_CONNECT_ACK", i)
    BY <1>2, <1>7 DEF Fresh, Acked, AtAgent
  <2>3. ~Acked(a, i)' /\ in' = {} /\ out' = {}
    BY <1>1, <2>1, <2>2 DEF Acked
  <2> QED
    BY <1>1, <2>1, <2>2, <2>3 DEF AtAgent
<1>8. CASE Calm(i)
  BY <1>4, <1>8 DEF Calm, Stays
<1>9. CASE Flows(i)
  <2>1. "TCP_CONNECT_ACK" \notin {"TCP_DATA"} /\ {"TCP_DATA"} \cap Endings = {}
    BY DEF Endings
  <2> QED
    BY <1>4, <1>9, <2>1 DEF Flows, Stays
<1>10. CASE Strays(i)
  BY <1>4, <1>10 DEF Strays, Stays
<1> QED
  BY <1>5, <1>6, <1>7, <1>8, <1>9, <1>10 DEF Done

-----------------------------------------------------------------------------
(* A step of a client.  The server and the agent keep what they have. *)
ServerKeeps == UNCHANGED <<serverVars, toAgent, agentVars, fromAgent, directs>>

(* A stream at a client's end is as it was. *)
SameAt(v, j) ==
  /\ j \in opened'[v] <=> j \in opened[v]
  /\ local'[v][j] = local[v][j]
  /\ clientLinks'[v] = clientLinks[v]
  /\ Kinds(toClient'[v], j) = Kinds(toClient[v], j)
  /\ Leads(toClient[v], "TCP_OPEN", j) => Leads(toClient'[v], "TCP_OPEN", j)
  /\ Kinds(fromClient'[v], j) = Kinds(fromClient[v], j)

SameElse(w, i) ==
  \A v \in ClientWs, j \in Ids : v # w \/ j # i => SameAt(v, j)

LEMMA SameAtClient ==
  ASSUME NEW v \in ClientWs, NEW j \in Ids, AtClient(v, j), SameAt(v, j),
         streams'[j] = streams[j], clients'[v] = clients[v], idled \subseteq idled'
  PROVE  AtClient(v, j)'
  BY DEF AtClient, SameAt, Live, IsAgent

(* What holds of everything else while the clients keep their part. *)
LEMMA ClientJoint ==
  ASSUME Joint, ServerKeeps, idled \subseteq idled',
         \A v \in ClientWs, j \in Ids : AtClient(v, j)',
         \A j \in Ids : Fresh(j) => Fresh(j)',
         NoZero',
         \A v \in ClientWs : clients[v] = "absent" => toClient'[v] = <<>>,
         \A v \in ClientWs : clientLinks'[v] = "unused" => opened'[v] = {}
  PROVE  Joint'
<1>1. /\ streams' = streams /\ nextId' = nextId /\ clients' = clients /\ agents' = agents
      /\ agentStreams' = agentStreams /\ toAgent' = toAgent /\ fromAgent' = fromAgent
      /\ sock' = sock /\ pending' = pending /\ streamed' = streamed /\ agentLinks' = agentLinks
      /\ directs' = directs
  BY DEF ServerKeeps, serverVars, agentVars
<1>2. Blank' /\ Apart'
  BY <1>1 DEF Joint, Blank, Apart, Session
<1>3. Unused'
  <2>1. PICK n \in 0 .. MaxId : Used(n)
    BY DEF Joint, Unused
  <2>2. Asking' = Asking /\ Made' = Made
    BY <1>1 DEF Asking, Made
  <2>3. \A i \in n + 1 .. MaxId : Fresh(i)'
    BY <2>1, ServerAssumption DEF Used, Ids
  <2>4. Used(n)'
    BY <1>1, <2>1, <2>2, <2>3 DEF Used
  <2> QED
    BY <1>1, <2>2, <2>4 DEF Joint, Unused
<1>4. ASSUME NEW i \in Ids PROVE Owned(i)' /\ Confirmed(i)'
  BY <1>1 DEF Joint, Sound, Owned, Confirmed, Live, IsAgent, Unheard, Session
<1>5. ASSUME NEW i \in Ids, NEW a \in AgentWs PROVE AtAgent(a, i)'
  BY <1>1 DEF Joint, Sound, AtAgent, IsAgent, Unheard, Session, Acked
<1> QED
  BY <1>2, <1>3, <1>4, <1>5 DEF Joint, Sound

(* An id that was not used yet is touched by nothing a client does. *)
LEMMA FreshAtClient ==
  ASSUME NEW j \in Ids, Fresh(j), ServerKeeps, \A v \in ClientWs : SameAt(v, j), j \notin idled'
  PROVE  Fresh(j)'
  BY DEF Fresh, ServerKeeps, serverVars, agentVars, SameAt

LEMMA SendsKinds ==
  ASSUME ClientTyped, NEW w \in ClientWs, NEW i \in Ids,
         NEW t \in {"TCP_OPEN_ACK", "TCP_DATA", "TCP_CLOSE", "TCP_ABORT", "RES_ABORT"},
         Cli!Sends(w, Cli!Msg(t, i))
  PROVE  /\ \A v \in ClientWs, j \in Ids :
              v # w \/ j # i => Kinds(fromClient'[v], j) = Kinds(fromClient[v], j)
         /\ Kinds(fromClient'[w], i)
              = Kinds(fromClient[w], i) \cup (IF clientLinks[w] = "open" THEN {t} ELSE {})
<1> DEFINE f == Msg(t, i)
<1>1. fromClient' = Post(fromClient, clientLinks, w, f)
  BY SameNames DEF Cli!Sends
<1>2. f \in ClientFrames /\ f.id = i /\ f.type = t
  BY ClientFrameOf DEF Msg, Frame
<1> HIDE DEF f
<1>3. fromClient \in [ClientWs -> Seq(ClientFrames)]
  BY DEF ClientTyped
<1>4. CASE clientLinks[w] = "open"
  <2>1. fromClient' = [fromClient EXCEPT ![w] = @ \o <<f>>]
    BY <1>1, <1>4 DEF Post, PostAll
  <2>2. fromClient[w] \in Seq(ClientFrames)
    BY <1>3
  <2>3. ASSUME NEW j PROVE Kinds(fromClient[w] \o <<f>>, j) = Kinds(fromClient[w], j) \cup (IF j = i THEN {t} ELSE {})
    <3>1. Kinds(fromClient[w] \o <<f>>, j) = Kinds(fromClient[w], j) \cup (IF f.id = j THEN {f.type} ELSE {})
      BY <1>2, <2>2, KindsPut
    <3> QED
      BY <1>2, <3>1
  <2>5. fromClient'[w] = fromClient[w] \o <<f>> /\ \A v \in ClientWs : v # w => fromClient'[v] = fromClient[v]
    BY <1>3, <2>1
  <2> QED
    BY <1>4, <2>3, <2>5
<1>5. CASE clientLinks[w] # "open"
  <2>1. fromClient' = fromClient
    BY <1>1, <1>5 DEF Post, PostAll
  <2> QED
    BY <1>5, <2>1
<1> QED
  BY <1>4, <1>5

(* A client forgets a stream, and says so if it can. *)
LEMMA DropsStream ==
  ASSUME ClientTyped, NEW w \in ClientWs, NEW i \in Ids, AtClient(w, i),
         ServerKeeps, UNCHANGED <<toClient, clientLinks, idled>>,
         i \in opened[w] \/ local[w][i] # "none",
         Cli!Cleanup(w, i),
         \/ fromClient' = fromClient /\ (i \in opened[w] => clientLinks[w] # "open")
         \/ Cli!Sends(w, Cli!Msg("TCP_CLOSE", i)) \/ Cli!Sends(w, Cli!Msg("TCP_ABORT", i))
  PROVE  AtClient(w, i)' /\ SameElse(w, i)
<1> DEFINE out == Kinds(fromClient[w], i)
<1>1. /\ \A v \in ClientWs, j \in Ids : v # w \/ j # i => Kinds(fromClient'[v], j) = Kinds(fromClient[v], j)
      /\ out \subseteq out' /\ out' \subseteq out \cup {"TCP_CLOSE", "TCP_ABORT"}
      /\ i \in opened[w] /\ clientLinks[w] = "open" => out' \cap Endings # {}
  <2>1. CASE fromClient' = fromClient /\ (i \in opened[w] => clientLinks[w] # "open")
    BY <2>1
  <2>2. CASE Cli!Sends(w, Cli!Msg("TCP_CLOSE", i)) \/ Cli!Sends(w, Cli!Msg("TCP_ABORT", i))
    BY <2>2, SendsKinds DEF Endings
  <2> QED
    BY <2>1, <2>2
<1>2. /\ i \notin opened'[w] /\ local'[w][i] = "none"
      /\ \A v \in ClientWs, j \in Ids :
           v # w \/ j # i => (j \in opened'[v] <=> j \in opened[v]) /\ local'[v][j] = local[v][j]
  BY SameNames DEF ClientTyped, Cli!TypeOK, Cli!Cleanup, Cli!Forgets, Cli!SetLocal
<1>3. SameElse(w, i)
  BY <1>1, <1>2 DEF SameElse, SameAt
<1>4. streams' = streams /\ clients' = clients
  BY DEF ServerKeeps, serverVars
<1>5. "TCP_OPEN" \notin Kinds(toClient[w], i)
  BY DEF AtClient
<1> QED
  BY <1>1, <1>2, <1>3, <1>4, <1>5 DEF AtClient, Live, IsAgent

(* The local service, and the client's idle timer. *)
LocalMove(w, i) ==
  \/ (Cli!LocalConnects(w, i) \/ Cli!LocalFails(w, i) \/ Cli!LocalCloses(w, i) \/ Cli!LocalData(w, i)) /\ idled' = idled
  \/ Cli!IdleTimeout(w, i) /\ idled' = idled \cup {i}

LEMMA LocalMoveSound ==
  ASSUME ClientTyped, NEW w \in ClientWs, NEW i \in Ids, AtClient(w, i),
         ServerKeeps, toClient' = toClient, LocalMove(w, i)
  PROVE  AtClient(w, i)' /\ SameElse(w, i)
<1>1. streams' = streams /\ clients' = clients
  BY DEF ServerKeeps, serverVars
<1>2. CASE Cli!LocalConnects(w, i) /\ idled' = idled
  <2>1. Cli!Sends(w, Cli!Msg("TCP_OPEN_ACK", i)) /\ local[w][i] = "connecting" /\ UNCHANGED <<opened, clientLinks>>
    BY <1>2 DEF Cli!LocalConnects
  <2>2. /\ local'[w][i] = "connected"
        /\ \A v \in ClientWs, j \in Ids : v # w \/ j # i => local'[v][j] = local[v][j]
    BY <1>2, SameNames DEF ClientTyped, Cli!TypeOK, Cli!LocalConnects, Cli!SetLocal
  <2>3. /\ \A v \in ClientWs, j \in Ids : v # w \/ j # i => Kinds(fromClient'[v], j) = Kinds(fromClient[v], j)
        /\ Kinds(fromClient'[w], i) \subseteq Kinds(fromClient[w], i) \cup {"TCP_OPEN_ACK"}
        /\ Kinds(fromClient[w], i) \subseteq Kinds(fromClient'[w], i)
    BY <2>1, SendsKinds
  <2>4. SameElse(w, i)
    BY <2>1, <2>2, <2>3 DEF SameElse, SameAt
  <2>5. "TCP_OPEN" \notin Kinds(toClient[w], i)
    BY <2>1 DEF AtClient
  <2> QED
    BY <1>1, <1>2, <2>1, <2>2, <2>3, <2>4, <2>5 DEF AtClient, Live, IsAgent, Endings
<1>3. CASE (Cli!LocalFails(w, i) \/ Cli!LocalCloses(w, i)) /\ idled' = idled
  <2>1. PICK t \in {"TCP_CLOSE", "TCP_ABORT"} : local[w][i] # "none" /\ Cli!LocalGone(w, i, t)
    BY <1>3 DEF Cli!LocalFails, Cli!LocalCloses
  <2>2. /\ i \in opened[w] => Cli!Sends(w, Cli!Msg(t, i))
        /\ i \notin opened[w] => fromClient' = fromClient
        /\ Cli!Cleanup(w, i) /\ clientLinks' = clientLinks
    BY <2>1 DEF Cli!LocalGone
  <2> QED
    BY <1>3, <2>1, <2>2, DropsStream
<1>4. CASE Cli!LocalData(w, i) /\ idled' = idled
  <2>1. CASE clientLinks[w] = "open"
    <3>1. /\ Cli!Sends(w, Cli!Msg("TCP_DATA", i)) /\ UNCHANGED <<opened, local, clientLinks>>
          /\ i \in opened[w]
      BY <1>4, <2>1 DEF Cli!LocalData
    <3>2. /\ \A v \in ClientWs, j \in Ids : v # w \/ j # i => Kinds(fromClient'[v], j) = Kinds(fromClient[v], j)
          /\ Kinds(fromClient'[w], i) \subseteq Kinds(fromClient[w], i) \cup {"TCP_DATA"}
          /\ Kinds(fromClient[w], i) \subseteq Kinds(fromClient'[w], i)
      BY <3>1, SendsKinds
    <3>3. SameElse(w, i)
      BY <3>1, <3>2 DEF SameElse, SameAt
    <3>4. "TCP_OPEN" \notin Kinds(toClient[w], i)
      BY <3>1 DEF AtClient
    <3> QED
      BY <1>1, <1>4, <3>1, <3>2, <3>3, <3>4 DEF AtClient, Live, IsAgent, Endings
  <2>2. CASE clientLinks[w] # "open"
    <3>1. Cli!Cleanup(w, i) /\ UNCHANGED <<fromClient, clientLinks>> /\ i \in opened[w]
      BY <1>4, <2>2 DEF Cli!LocalData
    <3> QED
      BY <1>4, <2>2, <3>1, DropsStream
  <2> QED
    BY <2>1, <2>2
<1>5. CASE Cli!IdleTimeout(w, i) /\ idled' = idled \cup {i}
  <2>1. Cli!Sends(w, Cli!Msg("RES_ABORT", i)) /\ i \in opened[w] /\ UNCHANGED <<local, clientLinks>>
    BY <1>5 DEF Cli!IdleTimeout
  <2>2. /\ i \notin opened'[w]
        /\ \A v \in ClientWs, j \in Ids : v # w \/ j # i => (j \in opened'[v] <=> j \in opened[v])
    BY <1>5, SameNames DEF ClientTyped, Cli!TypeOK, Cli!IdleTimeout, Cli!Forgets
  <2>3. /\ \A v \in ClientWs, j \in Ids : v # w \/ j # i => Kinds(fromClient'[v], j) = Kinds(fromClient[v], j)
        /\ Kinds(fromClient'[w], i) = Kinds(fromClient[w], i) \cup (IF clientLinks[w] = "open" THEN {"RES_ABORT"} ELSE {})
    BY <2>1, SendsKinds
  <2>4. SameElse(w, i)
    BY <2>1, <2>2, <2>3 DEF SameElse, SameAt
  <2>5. "TCP_OPEN" \notin Kinds(toClient[w], i)
    BY <2>1 DEF AtClient
  <2>6. i \in idled'
    BY <1>5
  <2> QED
    BY <1>1, <2>1, <2>2, <2>3, <2>4, <2>5, <2>6 DEF AtClient, Live, IsAgent, Endings
<1> QED
  BY <1>2, <1>3, <1>4, <1>5 DEF LocalMove

LEMMA LocalMoveJoint ==
  ASSUME Typed, Joint, NEW w \in ClientWs, NEW i \in Ids, ServerKeeps, toClient' = toClient, LocalMove(w, i)
  PROVE  Joint'
<1>1. AtClient(w, i)' /\ SameElse(w, i)
  BY LocalMoveSound, SameNames DEF Typed, Sent, TunnelTypeOK, ClientTyped, Joint, Sound
<1>2. /\ streams' = streams /\ clients' = clients /\ idled \subseteq idled'
      /\ \A j \in Ids : j # i => (j \in idled' <=> j \in idled)
      /\ clientLinks' = clientLinks
      /\ i \in opened[w] \/ local[w][i] # "none"
  BY DEF ServerKeeps, serverVars, LocalMove, Cli!LocalConnects, Cli!LocalFails, Cli!LocalCloses, Cli!LocalGone,
         Cli!LocalData, Cli!IdleTimeout
<1>3. ASSUME NEW v \in ClientWs, NEW j \in Ids PROVE AtClient(v, j)'
  <2>1. CASE v = w /\ j = i
    BY <1>1, <2>1
  <2>2. CASE v # w \/ j # i
    BY <1>1, <1>2, <2>2, SameAtClient DEF SameElse, Joint, Sound
  <2> QED
    BY <2>1, <2>2
<1>4. ASSUME NEW j \in Ids, Fresh(j) PROVE Fresh(j)'
  <2>1. j # i /\ j \notin idled
    BY <1>2, <1>4 DEF Fresh
  <2> QED
    BY <1>1, <1>2, <1>4, <2>1, FreshAtClient DEF SameElse
<1>5. NoZero'
  BY DEF Joint, NoZero
<1>6. \A v \in ClientWs : opened'[v] \subseteq opened[v]
  <2>1. opened \in [ClientWs -> SUBSET Ids]
    BY SameNames DEF Typed, TunnelTypeOK, Cli!TypeOK
  <2> QED
    BY <2>1 DEF LocalMove, Cli!LocalConnects, Cli!LocalFails, Cli!LocalCloses, Cli!LocalGone,
       Cli!LocalData, Cli!IdleTimeout, Cli!Cleanup, Cli!Forgets
<1>7. \A v \in ClientWs : clients[v] = "absent" => toClient'[v] = <<>>
  BY DEF Joint, Blank
<1>8. ASSUME NEW v \in ClientWs, clientLinks'[v] = "unused" PROVE opened'[v] = {}
  <2>1. opened[v] = {}
    BY <1>2, <1>8 DEF Joint, Blank
  <2> QED
    BY <1>6, <2>1
<1> QED
  BY <1>2, <1>3, <1>4, <1>5, <1>7, <1>8, ClientJoint

(* The client's end of the connection. *)
LEMMA ClientLinkJoint ==
  ASSUME Typed, Joint, NEW w \in ClientWs, ServerKeeps, UNCHANGED <<toClient, idled>>,
         Cli!LinkBreaks(w) \/ Cli!LinkCloses(w)
  PROVE  Joint'
<1>1. /\ streams' = streams /\ clients' = clients /\ fromClient' = fromClient
      /\ clientLinks[w] # "unused" /\ clientLinks'[w] # "open" /\ clientLinks'[w] # "unused"
      /\ \A v \in ClientWs : v # w => clientLinks'[v] = clientLinks[v]
  BY DEF ServerKeeps, serverVars, Cli!LinkBreaks, Cli!LinkCloses, Typed, TunnelTypeOK, Cli!TypeOK
<1>2. /\ \A v \in ClientWs, j \in Ids : v # w => (j \in opened'[v] <=> j \in opened[v]) /\ local'[v][j] = local[v][j]
      /\ \/ opened' = opened /\ local' = local
         \/ opened'[w] = {} /\ \A j \in Ids : local'[w][j] = IF j \in opened[w] THEN "none" ELSE local[w][j]
  BY SameNames DEF Cli!LinkBreaks, Cli!LinkCloses, Typed, TunnelTypeOK, Cli!TypeOK
<1>3. ASSUME NEW j \in Ids, NEW v \in ClientWs, v # w PROVE SameAt(v, j)
  BY <1>1, <1>2, <1>3 DEF SameAt
<1>4. ASSUME NEW j \in Ids PROVE AtClient(w, j)'
  <2>1. AtClient(w, j)
    BY DEF Joint, Sound
  <2>2. CASE opened' = opened /\ local' = local
    BY <1>1, <2>1, <2>2 DEF AtClient, Live, IsAgent
  <2>3. CASE opened'[w] = {} /\ local'[w][j] = IF j \in opened[w] THEN "none" ELSE local[w][j]
    BY <1>1, <2>1, <2>3 DEF AtClient, Live, IsAgent
  <2> QED
    BY <1>2, <2>2, <2>3
<1>5. ASSUME NEW v \in ClientWs, NEW j \in Ids PROVE AtClient(v, j)'
  BY <1>1, <1>3, <1>4, SameAtClient DEF Joint, Sound
<1>6. ASSUME NEW j \in Ids, Fresh(j) PROVE Fresh(j)'
  BY <1>1, <1>2, <1>6 DEF Fresh, ServerKeeps, serverVars, agentVars
<1>7. /\ \A v \in ClientWs : clients[v] = "absent" => toClient'[v] = <<>>
      /\ \A v \in ClientWs : clientLinks'[v] = "unused" => opened'[v] = {}
  <2>1. \A v \in ClientWs : v # w => opened'[v] = opened[v]
    BY DEF Cli!LinkBreaks, Cli!LinkCloses, Typed, TunnelTypeOK, Cli!TypeOK
  <2> QED
    BY <1>1, <2>1 DEF Joint, Blank
<1>8. NoZero' /\ idled \subseteq idled'
  BY DEF Joint, NoZero
<1> QED
  BY <1>5, <1>6, <1>7, <1>8, ClientJoint

(* A client connects.  Its session has known nothing so far. *)
LEMMA ClientConnectsJoint ==
  ASSUME Typed, Joint, NEW w \in ClientWs, ClientConnects(w)
  PROVE  Joint'
<1>1. /\ streams' = streams /\ nextId' = nextId /\ agents' = agents /\ agentStreams' = agentStreams
      /\ toAgent' = toAgent /\ fromAgent' = fromAgent /\ sock' = sock /\ pending' = pending
      /\ streamed' = streamed /\ agentLinks' = agentLinks /\ directs' = directs
      /\ toClient' = toClient /\ fromClient' = fromClient /\ opened' = opened /\ local' = local /\ idled' = idled
      /\ clients[w] = "absent" /\ clientLinks[w] = "unused"
  BY DEF ClientConnects, ClientJoin, Cli!LinkOpens, channels, streamVars, agentVars, bounds
<1>2. /\ clients' = [clients EXCEPT ![w] = "open"] /\ clientLinks' = [clientLinks EXCEPT ![w] = "open"]
  BY DEF ClientConnects, ClientJoin, Cli!LinkOpens
<1>3. /\ clients'[w] = "open" /\ clientLinks'[w] = "open"
      /\ \A v \in ClientWs : v # w => clients'[v] = clients[v] /\ clientLinks'[v] = clientLinks[v]
  BY <1>2 DEF Typed, TunnelTypeOK, TypeOK, Cli!TypeOK
<1>4. ASSUME NEW j \in Ids PROVE AtClient(w, j)'
  <2>1. AtClient(w, j) /\ Owned(j)
    BY DEF Joint, Sound
  <2>2. Kinds(toClient[w], j) = {} /\ j \notin opened[w]
    BY <1>1, KindsNone DEF Joint, Blank
  <2>3. ~(Live(j) /\ streams[j].ws = w)
    BY <1>1, <2>1 DEF Owned
  <2> QED
    BY <1>1, <2>1, <2>2, <2>3 DEF AtClient, Live, IsAgent
<1>5. ASSUME NEW v \in ClientWs, NEW j \in Ids PROVE AtClient(v, j)'
  <2>1. CASE v # w
    BY <1>1, <1>3, <2>1 DEF Joint, Sound, AtClient, Live, IsAgent
  <2> QED
    BY <1>4, <2>1
<1>6. Blank' /\ Apart' /\ NoZero'
  BY <1>1, <1>3 DEF Joint, Blank, Apart, NoZero, Session
<1>7. Unused'
  <2>1. PICK n \in 0 .. MaxId : Used(n)
    BY DEF Joint, Unused
  <2>2. Asking' = Asking /\ Made' = Made
    BY <1>1 DEF Asking, Made
  <2>3. \A i \in n + 1 .. MaxId : Fresh(i)'
    BY <1>1, <2>1 DEF Used, Fresh
  <2>4. Used(n)'
    BY <1>1, <2>1, <2>2, <2>3 DEF Used
  <2> QED
    BY <1>1, <2>2, <2>4 DEF Joint, Unused
<1>8. ASSUME NEW i \in Ids PROVE Owned(i)' /\ Confirmed(i)'
  BY <1>1, <1>3 DEF Joint, Sound, Owned, Confirmed, Live, IsAgent, Unheard, Session
<1>9. ASSUME NEW i \in Ids, NEW a \in AgentWs PROVE AtAgent(a, i)'
  BY <1>1 DEF Joint, Sound, AtAgent, IsAgent, Unheard, Session, Acked
<1> QED
  BY <1>5, <1>6, <1>7, <1>8, <1>9 DEF Joint, Sound

(* A client takes a frame. *)
LEMMA ClientHearsSound ==
  ASSUME Typed, Joint, NEW w \in ClientWs, ClientHears(w), NEW i, i = Head(toClient[w]).id
  PROVE  /\ i \in Ids /\ AtClient(w, i)' /\ SameElse(w, i) /\ ~Fresh(i)
         /\ ServerKeeps /\ idled' = idled /\ clientLinks' = clientLinks /\ NoZero'
         /\ clientLinks[w] # "unused" /\ \A v \in ClientWs : v # w => toClient'[v] = toClient[v] /\ opened'[v] = opened[v]
         /\ toClient'[w] = Tail(toClient[w]) /\ toClient[w] # <<>>
<1> DEFINE f == Head(toClient[w])
           in == Kinds(toClient[w], i)
           rest == Kinds(toClient'[w], i)
           out == Kinds(fromClient[w], i)
<1>1. /\ ServerKeeps /\ idled' = idled /\ toClient[w] # <<>> /\ clientLinks[w] \in {"open", "closing"}
      /\ toClient' = [toClient EXCEPT ![w] = Tail(@)] /\ Cli!OnFrame(w, f)
  BY DEF ClientHears, ServerKeeps, Pop, bounds
<1>2. toClient \in [ClientWs -> Seq(FrameSet)] /\ toClient[w] \in Seq(FrameSet) /\ f \in FrameSet
  BY <1>1 DEF Typed, TunnelTypeOK, TypeOK
<1>3. toClient'[w] = Tail(toClient[w]) /\ \A v \in ClientWs : v # w => toClient'[v] = toClient[v]
  BY <1>1, <1>2
<1>4. ASSUME NEW j
      PROVE  /\ Kinds(toClient[w], j) = Kinds(toClient'[w], j) \cup (IF i = j THEN {f.type} ELSE {})
             /\ Leads(toClient[w], "TCP_OPEN", j) => Leads(toClient'[w], "TCP_OPEN", j)
             /\ Leads(toClient[w], "TCP_OPEN", j) /\ i = j /\ f.type \in Endings \cup {"TCP_OPEN"}
                  => "TCP_OPEN" \notin Kinds(toClient'[w], j)
  BY <1>1, <1>2, <1>3, KindsTail
<1>17. \A v \in ClientWs, j \in Ids :
         v # w \/ j # i =>
           /\ Kinds(toClient'[v], j) = Kinds(toClient[v], j)
           /\ Leads(toClient[v], "TCP_OPEN", j) => Leads(toClient'[v], "TCP_OPEN", j)
  BY <1>3, <1>4
<1>5. i \in Ids
  <2>1. i # 0
    BY <1>4 DEF Joint, NoZero
  <2> QED
    BY <1>2, <2>1 DEF FrameSet
<1>6. AtClient(w, i) /\ Owned(i)
  BY <1>5 DEF Joint, Sound
<1>7. /\ f.type \in {"TCP_OPEN", "TCP_DATA", "TCP_CLOSE", "TCP_ABORT"}
      /\ in = rest \cup {f.type} /\ Leads(toClient'[w], "TCP_OPEN", i)
      /\ f.type \in Endings \cup {"TCP_OPEN"} => "TCP_OPEN" \notin rest
  BY <1>4, <1>6 DEF AtClient
<1>8. streams' = streams /\ clients' = clients /\ ClientTyped
  BY <1>1, SameNames DEF ServerKeeps, serverVars, Typed, Sent, TunnelTypeOK, ClientTyped
<1>9. clientLinks' = clientLinks
  BY <1>1 DEF Cli!OnFrame, Cli!TcpOpen, Cli!clientVars
<1>10. ASSUME f.type = "TCP_OPEN" /\ Cli!TcpOpen(w, i)
       PROVE  AtClient(w, i)' /\ SameElse(w, i)
  <2>1. /\ i \notin opened[w] /\ local[w][i] = "none" /\ out = {}
        /\ (Live(i) /\ streams[i].ws = w) \/ in \cap Endings # {} \/ clients[w] # "open"
        /\ rest \cap Endings = in \cap Endings
        /\ Live(i) /\ streams[i].ws = w => ~(IsAgent(i) /\ ~streams[i].awaiting)
    BY <1>6, <1>7, <1>10 DEF AtClient, Endings
  <2>2. CASE Cli!Sends(w, Cli!Msg("TCP_ABORT", i)) /\ UNCHANGED <<opened, local>>
    <3>1. /\ \A v \in ClientWs, j \in Ids : v # w \/ j # i => Kinds(fromClient'[v], j) = Kinds(fromClient[v], j)
          /\ out' = IF clientLinks[w] = "open" THEN {"TCP_ABORT"} ELSE {}
      <4>1. /\ \A v \in ClientWs, j \in Ids : v # w \/ j # i => Kinds(fromClient'[v], j) = Kinds(fromClient[v], j)
            /\ out' = out \cup (IF clientLinks[w] = "open" THEN {"TCP_ABORT"} ELSE {})
        BY <1>5, <1>8, <2>2, SendsKinds
      <4> QED
        BY <2>1, <4>1
    <3>2. AtClient(w, i)'
      <4>1. /\ streams' = streams /\ clients' = clients /\ clientLinks' = clientLinks /\ idled' = idled
            /\ opened' = opened /\ local' = local
            /\ (Live(i) <=> Live(i)') /\ (IsAgent(i) <=> IsAgent(i)')
        BY <1>1, <1>8, <1>9, <2>2 DEF Live, IsAgent
      <4>2. /\ Leads(toClient'[w], "TCP_OPEN", i) /\ "TCP_OPEN" \notin rest
            /\ rest \subseteq {"TCP_OPEN", "TCP_DATA", "TCP_CLOSE", "TCP_ABORT"}
            /\ rest \subseteq in /\ rest \cap Endings = in \cap Endings
        BY <1>6, <1>7, <1>10, <2>1 DEF AtClient
      <4>3. /\ out' \subseteq {"TCP_ABORT"} /\ (out' \cap Endings # {} \/ clientLinks[w] # "open")
            /\ i \notin opened[w] /\ local[w][i] = "none"
            /\ Live(i) /\ streams[i].ws = w => ~(IsAgent(i) /\ ~streams[i].awaiting)
        BY <2>1, <3>1 DEF Endings
      <4> QED
        BY <1>6, <4>1, <4>2, <4>3 DEF AtClient
    <3>3. ASSUME NEW v \in ClientWs, NEW j \in Ids, v # w \/ j # i PROVE SameAt(v, j)
      <4>1. /\ Kinds(toClient'[v], j) = Kinds(toClient[v], j) /\ clientLinks'[v] = clientLinks[v]
            /\ Leads(toClient[v], "TCP_OPEN", j) => Leads(toClient'[v], "TCP_OPEN", j)
        BY <1>9, <1>17, <3>3
      <4>2. /\ j \in opened'[v] <=> j \in opened[v]
            /\ local'[v][j] = local[v][j] /\ Kinds(fromClient'[v], j) = Kinds(fromClient[v], j)
        BY <3>3, <2>2, <3>1
      <4> QED
        BY <4>1, <4>2 DEF SameAt
    <3> QED
      BY <3>2, <3>3 DEF SameElse
  <2>3. CASE opened' = [opened EXCEPT ![w] = @ \cup {i}] /\ Cli!SetLocal(w, i, "connecting") /\ fromClient' = fromClient
    <3>1. /\ i \in opened'[w] /\ local'[w][i] = "connecting"
          /\ \A v \in ClientWs, j \in Ids :
               v # w \/ j # i => (j \in opened'[v] <=> j \in opened[v]) /\ local'[v][j] = local[v][j]
      BY <1>5, <1>8, <2>3, SameNames DEF ClientTyped, Cli!TypeOK, Cli!SetLocal
    <3>2. AtClient(w, i)'
      BY <1>1, <1>6, <1>7, <1>8, <1>9, <1>10, <2>1, <2>3, <3>1 DEF AtClient, Live, IsAgent, Endings
    <3>3. ASSUME NEW v \in ClientWs, NEW j \in Ids, v # w \/ j # i PROVE SameAt(v, j)
      <4>1. /\ Kinds(toClient'[v], j) = Kinds(toClient[v], j) /\ clientLinks'[v] = clientLinks[v]
            /\ Leads(toClient[v], "TCP_OPEN", j) => Leads(toClient'[v], "TCP_OPEN", j)
        BY <1>9, <1>17, <3>3
      <4>2. /\ j \in opened'[v] <=> j \in opened[v]
            /\ local'[v][j] = local[v][j] /\ Kinds(fromClient'[v], j) = Kinds(fromClient[v], j)
        BY <3>3, <2>3, <3>1
      <4> QED
        BY <4>1, <4>2 DEF SameAt
    <3> QED
      BY <3>2, <3>3 DEF SameElse
  <2> QED
    BY <1>10, <2>2, <2>3 DEF Cli!TcpOpen
<1>11. ASSUME i \in opened[w] /\ f.type \in {"TCP_CLOSE", "TCP_ABORT"} /\ Cli!Cleanup(w, i) /\ fromClient' = fromClient
       PROVE  AtClient(w, i)' /\ SameElse(w, i)
  <2>1. /\ i \notin opened'[w] /\ local'[w][i] = "none"
        /\ \A v \in ClientWs, j \in Ids :
             v # w \/ j # i => (j \in opened'[v] <=> j \in opened[v]) /\ local'[v][j] = local[v][j]
    BY <1>5, <1>8, <1>11, SameNames DEF ClientTyped, Cli!TypeOK, Cli!Cleanup, Cli!Forgets, Cli!SetLocal
  <2>2. ~Live(i) /\ "TCP_OPEN" \notin rest
    BY <1>6, <1>7, <1>11 DEF AtClient, Endings
  <2>3. AtClient(w, i)'
    BY <1>1, <1>6, <1>7, <1>8, <1>9, <1>11, <2>1, <2>2 DEF AtClient, Live, IsAgent
  <2>4. ASSUME NEW v \in ClientWs, NEW j \in Ids, v # w \/ j # i PROVE SameAt(v, j)
    <3>1. /\ Kinds(toClient'[v], j) = Kinds(toClient[v], j) /\ clientLinks'[v] = clientLinks[v]
          /\ Leads(toClient[v], "TCP_OPEN", j) => Leads(toClient'[v], "TCP_OPEN", j)
      BY <1>9, <1>17, <2>4
    <3>2. /\ j \in opened'[v] <=> j \in opened[v]
          /\ local'[v][j] = local[v][j] /\ Kinds(fromClient'[v], j) = Kinds(fromClient[v], j)
      BY <2>4, <1>11, <2>1
    <3> QED
      BY <3>1, <3>2 DEF SameAt
  <2> QED
    BY <2>3, <2>4 DEF SameElse
<1>12. ASSUME (i \notin opened[w] \/ f.type = "TCP_DATA") /\ f.type # "TCP_OPEN" /\ UNCHANGED Cli!clientVars
       PROVE  AtClient(w, i)' /\ SameElse(w, i)
  <2>1. opened' = opened /\ local' = local /\ fromClient' = fromClient
    BY <1>12 DEF Cli!clientVars
  <2>2. ASSUME NEW v \in ClientWs, NEW j \in Ids, v # w \/ j # i PROVE SameAt(v, j)
    <3>1. /\ Kinds(toClient'[v], j) = Kinds(toClient[v], j) /\ clientLinks'[v] = clientLinks[v]
          /\ Leads(toClient[v], "TCP_OPEN", j) => Leads(toClient'[v], "TCP_OPEN", j)
      BY <1>9, <1>17, <2>2
    <3>2. /\ j \in opened'[v] <=> j \in opened[v]
          /\ local'[v][j] = local[v][j] /\ Kinds(fromClient'[v], j) = Kinds(fromClient[v], j)
      BY <2>2, <2>1
    <3> QED
      BY <3>1, <3>2 DEF SameAt
  <2>5. SameElse(w, i)
    BY <2>2 DEF SameElse
  <2>3. CASE f.type = "TCP_DATA"
    <3>1. rest \cap Endings = in \cap Endings /\ ("TCP_OPEN" \in rest <=> "TCP_OPEN" \in in)
      BY <1>7, <2>3 DEF Endings
    <3> QED
      BY <1>1, <1>6, <1>7, <1>8, <1>9, <2>1, <2>3, <2>5, <3>1 DEF AtClient, Live, IsAgent
  <2>4. CASE i \notin opened[w] /\ f.type \in {"TCP_CLOSE", "TCP_ABORT"}
    <3>1. ~Live(i) /\ "TCP_OPEN" \notin rest
      BY <1>6, <1>7, <2>4 DEF AtClient, Endings
    <3> QED
      BY <1>1, <1>6, <1>7, <1>8, <1>9, <2>1, <2>4, <2>5, <3>1 DEF AtClient, Live, IsAgent
  <2> QED
    BY <1>7, <1>12, <2>3, <2>4
<1>13. AtClient(w, i)' /\ SameElse(w, i)
  BY <1>1, <1>7, <1>10, <1>11, <1>12 DEF Cli!OnFrame
<1>14. ~Fresh(i)
  BY <1>7 DEF Fresh
<1>15. NoZero'
  BY <1>3, <1>4 DEF Joint, NoZero
<1>16. \A v \in ClientWs : v # w => opened'[v] = opened[v]
  <2>1. opened \in [ClientWs -> SUBSET Ids]
    BY <1>8, SameNames DEF ClientTyped, Cli!TypeOK
  <2> QED
    BY <1>1, <2>1 DEF Cli!OnFrame, Cli!TcpOpen, Cli!Cleanup, Cli!Forgets, Cli!clientVars
<1> QED
  BY <1>1, <1>3, <1>5, <1>9, <1>13, <1>14, <1>15, <1>16

LEMMA ClientHearsJoint ==
  ASSUME Typed, Joint, NEW w \in ClientWs, ClientHears(w)
  PROVE  Joint'
<1>0. PICK i : i = Head(toClient[w]).id
  OBVIOUS
<1>1. /\ i \in Ids /\ AtClient(w, i)' /\ SameElse(w, i) /\ ~Fresh(i)
      /\ ServerKeeps /\ idled' = idled /\ clientLinks' = clientLinks /\ NoZero'
      /\ clientLinks[w] # "unused" /\ \A v \in ClientWs : v # w => toClient'[v] = toClient[v] /\ opened'[v] = opened[v]
      /\ toClient'[w] = Tail(toClient[w]) /\ toClient[w] # <<>>
  BY <1>0, ClientHearsSound
<1>2. streams' = streams /\ clients' = clients
  BY <1>1 DEF ServerKeeps, serverVars
<1>3. ASSUME NEW v \in ClientWs, NEW j \in Ids PROVE AtClient(v, j)'
  <2>1. CASE v = w /\ j = i
    BY <1>1, <2>1
  <2>2. CASE v # w \/ j # i
    BY <1>1, <1>2, <2>2, SameAtClient DEF SameElse, Joint, Sound
  <2> QED
    BY <2>1, <2>2
<1>4. ASSUME NEW j \in Ids, Fresh(j) PROVE Fresh(j)'
  <2>1. j # i /\ j \notin idled
    BY <1>1, <1>4 DEF Fresh
  <2> QED
    BY <1>1, <1>4, <2>1, FreshAtClient DEF SameElse
<1>5. /\ \A v \in ClientWs : clients[v] = "absent" => toClient'[v] = <<>>
      /\ \A v \in ClientWs : clientLinks'[v] = "unused" => opened'[v] = {}
  BY <1>1 DEF Joint, Blank
<1> QED
  BY <1>1, <1>3, <1>4, <1>5, ClientJoint

-----------------------------------------------------------------------------
(* A step of the agent.  The server and the clients keep what they have. *)
AgentKeeps == UNCHANGED <<serverVars, toClient, clientVars, fromClient, idled, directs>>

(* A stream at the agent's end is as it was. *)
SameFor(j) ==
  /\ streamed'[j] = streamed[j]
  /\ \A b \in AgentWs :
       /\ Kinds(fromAgent'[b], j) = Kinds(fromAgent[b], j)
       /\ Kinds(toAgent'[b], j) = Kinds(toAgent[b], j)
       /\ Leads(toAgent[b], "TCP_CONNECT_ACK", j) => Leads(toAgent'[b], "TCP_CONNECT_ACK", j)
       /\ Named(toAgent'[b], "TCP_CONNECT_ACK", j) \subseteq Named(toAgent[b], "TCP_CONNECT_ACK", j)

SameSessions == \A b \in AgentWs : Session(b)' <=> Session(b)

LEMMA SameForAgent ==
  ASSUME NEW j \in Ids, \A a \in AgentWs : AtAgent(a, j), Confirmed(j), SameFor(j), SameSessions,
         AgentKeeps, Owned(j)
  PROVE  (\A a \in AgentWs : AtAgent(a, j)') /\ Confirmed(j)' /\ (Fresh(j) => Fresh(j)')
<1>1. /\ streams' = streams /\ agents' = agents /\ agentStreams' = agentStreams /\ toClient' = toClient
      /\ opened' = opened /\ local' = local /\ fromClient' = fromClient /\ idled' = idled
  BY DEF AgentKeeps, serverVars, clientVars
<1>2. (IsAgent(j)' <=> IsAgent(j)) /\ (Unheard(j)' <=> Unheard(j)) /\ \A b \in AgentWs : Acked(b, j)' <=> Acked(b, j)
  BY <1>1 DEF IsAgent, Unheard, SameFor, Acked
<1>3. ASSUME NEW a \in AgentWs PROVE AtAgent(a, j)'
  BY <1>1, <1>2 DEF AtAgent, SameFor, SameSessions
<1>4. Confirmed(j)'
  <2>1. IsAgent(j) => streams[j].agent \in AgentWs
    BY DEF Owned
  <2> QED
    BY <1>1, <1>2, <2>1 DEF Confirmed, SameFor, SameSessions
<1>5. Fresh(j) => Fresh(j)'
  BY <1>1 DEF Fresh, SameFor
<1> QED
  BY <1>3, <1>4, <1>5

(* What holds of everything else while the agent keeps its part. *)
LEMMA AgentJoint ==
  ASSUME Joint, AgentKeeps, Apart', Unused',
         \A a \in AgentWs, i \in Ids : AtAgent(a, i)',
         \A i \in Ids : Confirmed(i)',
         \A a \in AgentWs : agents[a] = "absent" => toAgent'[a] = <<>>
  PROVE  Joint'
<1>1. /\ streams' = streams /\ nextId' = nextId /\ clients' = clients /\ agents' = agents
      /\ agentStreams' = agentStreams /\ toClient' = toClient /\ fromClient' = fromClient
      /\ opened' = opened /\ local' = local /\ clientLinks' = clientLinks /\ idled' = idled
  BY DEF AgentKeeps, serverVars, clientVars
<1>2. Blank' /\ NoZero'
  BY <1>1 DEF Joint, Blank, NoZero
<1>3. ASSUME NEW i \in Ids PROVE Owned(i)'
  BY <1>1 DEF Joint, Sound, Owned, Live, IsAgent
<1>4. ASSUME NEW i \in Ids, NEW w \in ClientWs PROVE AtClient(w, i)'
  BY <1>1 DEF Joint, Sound, AtClient, Live, IsAgent
<1> QED
  BY <1>2, <1>3, <1>4 DEF Joint, Sound

LEMMA AskingIs ==
  ASSUME NEW x
  PROVE  x \in Asking <=> \E a \in AgentWs : \E k \in DOMAIN fromAgent[a] : x = <<a, k>> /\ fromAgent[a][k].type = "TCP_CONNECT"
  BY DEF Asking

(* The connections made are finitely many, as are the requests under way. *)
LEMMA Countings ==
  ASSUME Typed, Joint
  PROVE  IsFiniteSet(Made) /\ IsFiniteSet(Asking) /\ Cardinality(Made) \in Nat /\ Cardinality(Asking) \in Nat /\ directs \in Nat
<1>1. IsFiniteSet(Made)
  <2>1. Made \subseteq Socks
    BY DEF Made
  <2> QED
    BY <2>1, TunnelAssumption, FS_Subset
<1>2. IsFiniteSet(Asking)
  BY DEF Joint, Unused
<1>3. Cardinality(Made) \in Nat /\ Cardinality(Asking) \in Nat
  BY <1>1, <1>2, FS_CardinalityType
<1>4. directs \in Nat
  BY TunnelAssumption DEF Typed, TunnelTypeOK
<1> QED
  BY <1>1, <1>2, <1>3, <1>4

(* No id is handed out, and a request goes with a connection. *)
LEMMA UnusedKept ==
  ASSUME Typed, Joint, nextId' = nextId, IsFiniteSet(Asking'),
         Cardinality(Asking') \in Nat, Cardinality(Made') \in Nat, directs' \in Nat,
         Cardinality(Asking') + directs + Cardinality(Made) <= Cardinality(Asking) + directs' + Cardinality(Made'),
         directs' + Cardinality(Made') <= MaxConns,
         \A j \in Ids : Fresh(j) => Fresh(j)'
  PROVE  Unused'
<1>1. PICK n \in 0 .. MaxId : Used(n)
  BY DEF Joint, Unused
<1>2. n \in Nat
  BY <1>1, ServerAssumption
<1>3. n + Cardinality(Asking') <= directs' + Cardinality(Made')
  BY <1>1, <1>2, Countings DEF Used
<1>4. \A i \in n + 1 .. MaxId : Fresh(i)'
  BY <1>1, <1>2, ServerAssumption DEF Used, Ids
<1>5. Used(n)'
  BY <1>1, <1>3, <1>4 DEF Used
<1> QED
  BY <1>5 DEF Unused

LEMMA UnusedSame ==
  ASSUME Typed, Joint, nextId' = nextId, directs' = directs, Asking' = Asking, Made' = Made,
         \A j \in Ids : Fresh(j) => Fresh(j)'
  PROVE  Unused'
<1>1. directs + Cardinality(Made) <= MaxConns
  BY DEF Joint, Unused
<1> QED
  BY <1>1, Countings, UnusedKept

(* Frames of the agent. *)
LEMMA AgentSendsKinds ==
  ASSUME AgentTyped, NEW f \in AgentFrames, Agt!Sends(<<f>>)
  PROVE  /\ \A a \in AgentWs : fromAgent'[a] = IF agentLinks[a] = "open" THEN fromAgent[a] \o <<f>> ELSE fromAgent[a]
         /\ \A a \in AgentWs, j \in Ids :
              Kinds(fromAgent'[a], j)
                = Kinds(fromAgent[a], j) \cup (IF agentLinks[a] = "open" /\ f.id = j THEN {f.type} ELSE {})
<1>1. \A a \in AgentWs : fromAgent'[a] = IF agentLinks[a] = "open" THEN fromAgent[a] \o <<f>> ELSE fromAgent[a]
  BY DEF Agt!Sends
<1>2. <<f>> \in Seq(AgentFrames)
  OBVIOUS
<1>3. ASSUME NEW a \in AgentWs, NEW j
      PROVE  Kinds(fromAgent[a] \o <<f>>, j) = Kinds(fromAgent[a], j) \cup (IF f.id = j THEN {f.type} ELSE {})
  <2>1. fromAgent[a] \in Seq(AgentFrames)
    BY DEF AgentTyped
  <2>2. Kinds(fromAgent[a] \o <<f>>, j) = Kinds(fromAgent[a], j) \cup Kinds(<<f>>, j)
    BY <1>2, <2>1, KindsConcat
  <2> QED
    BY <2>2, KindsOne
<1> QED
  BY <1>1, <1>3

LEMMA AskingAfter ==
  ASSUME AgentTyped, NEW f \in AgentFrames, Agt!Sends(<<f>>)
  PROVE  Asking' = Asking \cup (IF f.type = "TCP_CONNECT"
                                THEN {<<a, Len(fromAgent[a]) + 1>> : a \in {a \in AgentWs : agentLinks[a] = "open"}}
                                ELSE {})
<1>1. \A a \in AgentWs : fromAgent'[a] = IF agentLinks[a] = "open" THEN fromAgent[a] \o <<f>> ELSE fromAgent[a]
  BY DEF Agt!Sends
<1> DEFINE new == {<<a, Len(fromAgent[a]) + 1>> : a \in {a \in AgentWs : agentLinks[a] = "open"}}
<1>2. ASSUME NEW a \in AgentWs
      PROVE  /\ Len(fromAgent[a]) \in Nat /\ DOMAIN fromAgent[a] = 1 .. Len(fromAgent[a])
             /\ DOMAIN (fromAgent[a] \o <<f>>) = 1 .. Len(fromAgent[a]) + 1
             /\ \A k \in 1 .. Len(fromAgent[a]) : (fromAgent[a] \o <<f>>)[k] = fromAgent[a][k]
             /\ (fromAgent[a] \o <<f>>)[Len(fromAgent[a]) + 1] = f
  <2>1. fromAgent[a] \in Seq(AgentFrames)
    BY DEF AgentTyped
  <2> QED
    BY <2>1
<1>3. ASSUME NEW x \in Asking' PROVE x \in Asking \cup (IF f.type = "TCP_CONNECT" THEN new ELSE {})
  <2>0. PICK a \in AgentWs : \E k \in DOMAIN fromAgent'[a] : x = <<a, k>> /\ fromAgent'[a][k].type = "TCP_CONNECT"
    BY <1>3 DEF Asking
  <2>1. PICK k \in DOMAIN fromAgent'[a] : x = <<a, k>> /\ fromAgent'[a][k].type = "TCP_CONNECT"
    BY <2>0
  <2>2. CASE k \in DOMAIN fromAgent[a] /\ fromAgent'[a][k] = fromAgent[a][k]
    BY <2>1, <2>2, AskingIs
  <2>3. CASE agentLinks[a] = "open" /\ k = Len(fromAgent[a]) + 1
    <3>1. f.type = "TCP_CONNECT"
      BY <1>1, <1>2, <2>1, <2>3
    <3> QED
      BY <2>1, <2>3, <3>1
  <2>4. CASE agentLinks[a] = "open"
    <3>1. k \in 1 .. Len(fromAgent[a]) + 1 /\ fromAgent'[a] = fromAgent[a] \o <<f>>
      BY <1>1, <1>2, <2>1, <2>4
    <3>2. k \in 1 .. Len(fromAgent[a]) \/ k = Len(fromAgent[a]) + 1
      BY <1>2, <3>1
    <3> QED
      BY <1>2, <2>2, <2>3, <2>4, <3>1, <3>2
  <2>5. CASE agentLinks[a] # "open"
    <3>1. fromAgent'[a] = fromAgent[a]
      BY <1>1, <2>5
    <3> QED
      BY <2>1, <2>2, <3>1
  <2> QED
    BY <2>4, <2>5
<1>4. ASSUME NEW x \in Asking PROVE x \in Asking'
  <2>0. PICK a \in AgentWs : \E k \in DOMAIN fromAgent[a] : x = <<a, k>> /\ fromAgent[a][k].type = "TCP_CONNECT"
    BY <1>4, AskingIs
  <2>1. PICK k \in DOMAIN fromAgent[a] : x = <<a, k>> /\ fromAgent[a][k].type = "TCP_CONNECT"
    BY <2>0
  <2>2. k \in DOMAIN fromAgent'[a] /\ fromAgent'[a][k] = fromAgent[a][k]
    <3>1. CASE agentLinks[a] = "open"
      <4>1. fromAgent'[a] = fromAgent[a] \o <<f>>
        BY <1>1, <3>1
      <4>2. k \in 1 .. Len(fromAgent[a]) /\ k \in 1 .. Len(fromAgent[a]) + 1
        BY <1>2, <2>1
      <4> QED
        BY <1>2, <4>1, <4>2
    <3>2. CASE agentLinks[a] # "open"
      BY <1>1, <2>1, <3>2
    <3> QED
      BY <3>1, <3>2
  <2> QED
    BY <2>1, <2>2 DEF Asking
<1>5. ASSUME NEW x \in new, f.type = "TCP_CONNECT" PROVE x \in Asking'
  <2>1. PICK a \in AgentWs : agentLinks[a] = "open" /\ x = <<a, Len(fromAgent[a]) + 1>>
    BY <1>5
  <2>2. /\ Len(fromAgent[a]) + 1 \in DOMAIN fromAgent'[a]
        /\ fromAgent'[a][Len(fromAgent[a]) + 1].type = "TCP_CONNECT"
    <3>1. fromAgent'[a] = fromAgent[a] \o <<f>>
      BY <1>1, <2>1
    <3>2. Len(fromAgent[a]) + 1 \in 1 .. Len(fromAgent[a]) + 1
      BY <1>2
    <3> QED
      BY <1>2, <1>5, <3>1, <3>2
  <2> QED
    BY <2>1, <2>2 DEF Asking
<1> QED
  BY <1>3, <1>4, <1>5

-----------------------------------------------------------------------------
(* Where the agent's connections are. *)
LEMMA RemoveKeeps ==
  ASSUME NEW T, NEW q \in Seq(T), NEW k \in DOMAIN q, NEW r, r = RemoveAt(q, k),
         \A j, l \in DOMAIN q : q[j] = q[l] => j = l
  PROVE  /\ \A j, l \in DOMAIN r : r[j] = r[l] => j = l
         /\ \A j \in DOMAIN r : r[j] # q[k] /\ \E m \in DOMAIN q : r[j] = q[m]
<1>1. r \in Seq(T) /\ Len(r) = Len(q) - 1 /\ \A j \in 1 .. Len(q) - 1 : r[j] = q[IF j < k THEN j ELSE j + 1]
  BY RemoveType
<1>2. Len(q) \in Nat /\ DOMAIN q = 1 .. Len(q) /\ DOMAIN r = 1 .. Len(q) - 1 /\ k \in 1 .. Len(q)
  BY <1>1
<1> DEFINE at(j) == IF j < k THEN j ELSE j + 1
<1>3. \A j \in DOMAIN r : at(j) \in DOMAIN q /\ at(j) # k /\ r[j] = q[at(j)]
  BY <1>1, <1>2
<1>4. \A j, l \in DOMAIN r : at(j) = at(l) => j = l
  BY <1>2
<1> HIDE DEF at
<1> QED
  BY <1>2, <1>3, <1>4

(* A connection that leaves a place, or takes none. *)
LEMMA ApartKept ==
  ASSUME Typed, Apart, SameSessions,
         pending' = pending \/ \E k \in DOMAIN pending : pending' = RemoveAt(pending, k),
         \A i \in Ids : streamed'[i] = streamed[i] \/ streamed'[i] = Agt!NoSock,
         \A s \in Socks : sock[s] # "new" => sock'[s] # "new"
  PROVE  Apart'
<1>1. pending \in Seq(Socks) /\ \A i \in Ids : streamed[i] \in Socks \cup {Agt!NoSock}
  BY SameNames DEF Typed, TunnelTypeOK, Agt!TypeOK
<1>2. /\ \A j, k \in DOMAIN pending' : pending'[j] = pending'[k] => j = k
      /\ \A j \in DOMAIN pending' : \E m \in DOMAIN pending : pending'[j] = pending[m]
  BY <1>1, RemoveKeeps DEF Apart
<1>3. \A m \in DOMAIN pending : pending[m] \in Socks
  BY <1>1
<1>4. \A j \in DOMAIN pending' : sock'[pending'[j]] # "new"
  BY <1>2, <1>3 DEF Apart
<1>5. (\A a \in AgentWs : ~Session(a)) => pending' = <<>>
  BY DEF Apart
<1>6. ASSUME NEW i \in Ids, streamed'[i] # Agt!NoSock
      PROVE  /\ \A k \in DOMAIN pending' : pending'[k] # streamed'[i]
             /\ \A j \in Ids : streamed'[j] = streamed'[i] => i = j
             /\ sock'[streamed'[i]] # "new"
  <2>1. streamed'[i] = streamed[i] /\ streamed[i] \in Socks
    BY <1>1, <1>6
  <2>2. \A k \in DOMAIN pending' : pending'[k] # streamed'[i]
    BY <1>2, <1>6, <2>1 DEF Apart
  <2>3. \A j \in Ids : streamed'[j] = streamed'[i] => i = j
    BY <1>6, <2>1 DEF Apart
  <2>4. sock'[streamed'[i]] # "new"
    BY <1>6, <2>1 DEF Apart
  <2> QED
    BY <2>2, <2>3, <2>4
<1>7. \A a, b \in AgentWs : Session(a)' /\ Session(b)' => a = b
  BY DEF SameSessions, Apart
<1>8. (\A a \in AgentWs : ~Session(a)') => pending' = <<>> /\ \A i \in Ids : streamed'[i] = Agt!NoSock
  BY <1>5 DEF SameSessions, Apart
<1> QED
  BY <1>2, <1>4, <1>6, <1>7, <1>8 DEF Apart

LEMMA TypedParts ==
  ASSUME Typed
  PROVE  /\ TypeOK /\ AgentTyped /\ ClientTyped
         /\ pending \in Seq(Socks) /\ sock \in [Socks -> Agt!SockState]
         /\ streamed \in [Ids -> Socks \cup {Agt!NoSock}]
         /\ agentLinks \in [AgentWs -> Agt!LinkState]
         /\ Agt!NoSock \notin Socks
  BY SameNames, TunnelAssumption DEF Typed, TunnelTypeOK, Sent, AgentTyped, ClientTyped, Agt!TypeOK

(* The application's end of a bridged connection sends, or goes.  The frame *)
(* names the stream it is bridged to, if there is one.                      *)
LEMMA ReportSound ==
  ASSUME Typed, Joint, AgentKeeps, toAgent' = toAgent, agentLinks' = agentLinks,
         NEW s \in Socks, NEW t \in {"TCP_DATA", "TCP_CLOSE", "TCP_ABORT"},
         Agt!Sends(Agt!Report(t, s)),
         streamed' = Agt!Detached(s) \/ (t = "TCP_DATA" /\ streamed' = streamed)
  PROVE  /\ \A i \in Ids : (\A a \in AgentWs : AtAgent(a, i)') /\ Confirmed(i)' /\ (Fresh(i) => Fresh(i)')
         /\ Asking' = Asking
<1>1. SameSessions
  BY DEF SameSessions, Session
<1>2. streamed \in [Ids -> Socks \cup {Agt!NoSock}] /\ s # Agt!NoSock /\ AgentTyped
  BY TypedParts
<1>3. \A i \in Ids : streamed'[i] = streamed[i] \/ (streamed[i] = s /\ streamed'[i] = Agt!NoSock)
  BY SameNames DEF Agt!Detached
<1>4. \A i \in Ids : streamed[i] # s => streamed'[i] = streamed[i]
  BY <1>3
<1>5. \A i \in Ids : (\A a \in AgentWs : AtAgent(a, i)) /\ Confirmed(i) /\ Owned(i)
  BY DEF Joint, Sound
<1>6. CASE Agt!Report(t, s) = <<>> /\ \A i \in Ids : streamed[i] # s
  <2>1. \A a \in AgentWs : fromAgent'[a] = fromAgent[a]
    <3>1. \A a \in AgentWs : fromAgent[a] \in Seq(AgentFrames)
      BY <1>2 DEF AgentTyped
    <3>2. \A a \in AgentWs : fromAgent[a] \o <<>> = fromAgent[a]
      BY <3>1
    <3> QED
      BY <1>6, <3>2 DEF Agt!Sends
  <2>2. \A i \in Ids : SameFor(i)
    BY <1>4, <1>6, <2>1 DEF SameFor
  <2>3. Asking' = Asking
    BY <2>1 DEF Asking
  <2> QED
    BY <1>1, <1>5, <2>2, <2>3, SameForAgent
<1>7. ASSUME NEW i \in Ids, streamed[i] = s, Agt!Report(t, s) = <<Msg(t, i)>>
      PROVE  /\ \A j \in Ids : (\A a \in AgentWs : AtAgent(a, j)') /\ Confirmed(j)' /\ (Fresh(j) => Fresh(j)')
             /\ Asking' = Asking
  <2> DEFINE f == Msg(t, i)
  <2>1. f \in AgentFrames /\ f.id = i /\ f.type = t /\ Agt!Sends(<<f>>)
    BY <1>7 DEF AgentFrames, Msg, Frame
  <2> HIDE DEF f
  <2>2. \A a \in AgentWs, j \in Ids :
          Kinds(fromAgent'[a], j) = Kinds(fromAgent[a], j) \cup (IF agentLinks[a] = "open" /\ f.id = j THEN {f.type} ELSE {})
    BY <1>2, <2>1, AgentSendsKinds
  <2>3. Asking' = Asking
    <3>1. f.type # "TCP_CONNECT"
      BY <2>1
    <3> QED
      BY <1>2, <2>1, <3>1, AskingAfter
  <2>4. ASSUME NEW j \in Ids, j # i PROVE SameFor(j)
    <3>1. streamed[j] # s
      BY <1>2, <1>7, <2>4 DEF Joint, Apart
    <3>2. streamed'[j] = streamed[j]
      BY <1>4, <3>1
    <3>3. ASSUME NEW a \in AgentWs PROVE Kinds(fromAgent'[a], j) = Kinds(fromAgent[a], j)
      <4>1. Kinds(fromAgent'[a], j) = Kinds(fromAgent[a], j) \cup (IF agentLinks[a] = "open" /\ f.id = j THEN {f.type} ELSE {})
        BY <2>2
      <4> QED
        BY <2>1, <2>4, <4>1
    <3> QED
      BY <3>2, <3>3 DEF SameFor
  <2>5. ~Unheard(i) /\ streamed[i] # Agt!NoSock
    BY <1>2, <1>7 DEF Unheard
  <2>6. \A a \in AgentWs : ~Acked(a, i)
    BY <1>5, <2>5 DEF AtAgent
  <2>7. /\ streams' = streams /\ agents' = agents /\ idled' = idled
        /\ (IsAgent(i)' <=> IsAgent(i)) /\ \A a \in AgentWs : ~Acked(a, i)'
    BY <2>6 DEF AgentKeeps, serverVars, IsAgent, Acked
  <2>8. ASSUME NEW a \in AgentWs PROVE AtAgent(a, i)'
    <3>1. Kinds(fromAgent'[a], i) \cap Endings # {} => streamed'[i] = Agt!NoSock
      <4>1. CASE streamed' = Agt!Detached(s)
        BY <1>7, <4>1, SameNames DEF Agt!Detached
      <4>2. CASE t = "TCP_DATA" /\ streamed' = streamed
        <5>1. Kinds(fromAgent'[a], i) \cap Endings = Kinds(fromAgent[a], i) \cap Endings
          BY <2>1, <2>2, <4>2 DEF Endings
        <5> QED
          BY <1>5, <4>2, <5>1 DEF AtAgent
      <4> QED
        BY <4>1, <4>2
    <3>2. streamed'[i] # Agt!NoSock => streamed[i] # Agt!NoSock
      BY <1>3
    <3> QED
      BY <1>1, <1>5, <2>7, <3>1, <3>2 DEF AtAgent, SameSessions
  <2>9. Confirmed(i)'
    <3>1. IsAgent(i) => ~streams[i].awaiting /\ streams[i].agent \in AgentWs
      BY <1>5, <2>5 DEF Confirmed, Owned
    <3>2. streamed'[i] # Agt!NoSock => streamed'[i] = streamed[i]
      BY <1>3
    <3> QED
      BY <1>1, <1>5, <2>7, <3>1, <3>2 DEF Confirmed, SameSessions
  <2>10. ~Fresh(i)
    BY <2>5 DEF Fresh
  <2>11. ASSUME NEW j \in Ids PROVE (\A a \in AgentWs : AtAgent(a, j)') /\ Confirmed(j)' /\ (Fresh(j) => Fresh(j)')
    <3>1. CASE j = i
      BY <2>8, <2>9, <2>10, <3>1
    <3>2. CASE j # i
      BY <1>1, <1>5, <2>4, <3>2, SameForAgent
    <3> QED
      BY <3>1, <3>2
  <2> QED
    BY <2>3, <2>11
<1> QED
  BY <1>6, <1>7, ReportIs

(* The application sends, ends or goes. *)
LEMMA AppMoveJoint ==
  ASSUME Typed, Joint, AgentKeeps, toAgent' = toAgent, NEW s \in Socks,
         Agt!AppEnds(s) \/ Agt!AppFails(s) \/ Agt!AppClosed(s) \/ Agt!AppData(s)
  PROVE  Joint'
<1>1. agentLinks' = agentLinks /\ SameSessions
  BY DEF Agt!AppEnds, Agt!AppFails, Agt!AppClosed, Agt!AppGone, Agt!AppData, SameSessions, Session
<1>2. sock \in [Socks -> Agt!SockState] /\ pending \in Seq(Socks) /\ Apart
  BY TypedParts DEF Joint
<1>3. /\ sock[s] # "new" /\ \A r \in Socks : r # s => sock'[r] = sock[r]
      /\ sock'[s] # "new"
  BY <1>2 DEF Agt!AppEnds, Agt!AppFails, Agt!AppClosed, Agt!AppGone, Agt!AppData
<1>4. Made' = Made
  BY <1>3 DEF Made
<1>5. /\ \A i \in Ids : (\A a \in AgentWs : AtAgent(a, i)') /\ Confirmed(i)' /\ (Fresh(i) => Fresh(i)')
      /\ Asking' = Asking
      /\ pending' = pending \/ pending' = Agt!Without(s)
      /\ streamed' = streamed \/ streamed' = Agt!Detached(s)
  <2>1. CASE Agt!AppEnds(s)
    <3>1. pending' = pending /\ streamed' = streamed /\ fromAgent' = fromAgent
      BY <2>1 DEF Agt!AppEnds
    <3>2. \A i \in Ids : SameFor(i)
      BY <3>1 DEF SameFor
    <3>3. \A i \in Ids : (\A a \in AgentWs : AtAgent(a, i)) /\ Confirmed(i) /\ Owned(i)
      BY DEF Joint, Sound
    <3>4. Asking' = Asking
      BY <3>1 DEF Asking
    <3> QED
      BY <1>1, <3>1, <3>2, <3>3, <3>4, SameForAgent
  <2>2. CASE Agt!AppFails(s) \/ Agt!AppClosed(s)
    <3>1. PICK t \in {"TCP_CLOSE", "TCP_ABORT"} : Agt!AppGone(s, t)
      BY <2>2 DEF Agt!AppFails, Agt!AppClosed
    <3>2. Agt!Sends(Agt!Report(t, s)) /\ streamed' = Agt!Detached(s) /\ pending' = Agt!Without(s)
      BY <3>1 DEF Agt!AppGone
    <3> QED
      BY <1>1, <3>2, ReportSound
  <2>3. CASE Agt!AppData(s)
    <3>1. Agt!Sends(Agt!Report("TCP_DATA", s)) /\ streamed' = streamed /\ pending' = pending
      BY <2>3 DEF Agt!AppData
    <3> QED
      BY <1>1, <3>1, ReportSound
  <2> QED
    BY <2>1, <2>2, <2>3
<1>6. Apart'
  <2>1. pending' = pending \/ \E k \in DOMAIN pending : pending' = RemoveAt(pending, k)
    BY <1>2, <1>5, WithoutIs
  <2>2. \A i \in Ids : streamed'[i] = streamed[i] \/ streamed'[i] = Agt!NoSock
    BY <1>5, SameNames DEF Agt!Detached
  <2>3. \A r \in Socks : sock[r] # "new" => sock'[r] # "new"
    BY <1>3
  <2> QED
    BY <1>1, <1>2, <2>1, <2>2, <2>3, ApartKept
<1>7. Unused'
  BY <1>4, <1>5, UnusedSame DEF AgentKeeps, serverVars
<1>8. \A a \in AgentWs : agents[a] = "absent" => toAgent'[a] = <<>>
  BY DEF Joint, Blank
<1> QED
  BY <1>5, <1>6, <1>7, <1>8, AgentJoint

(* The application connects: a request for each connection that waits. *)
LEMMA AppConnectJoint ==
  ASSUME Typed, Joint, AgentKeeps, toAgent' = toAgent, NEW s \in Socks, Agt!AppConnect(s),
         directs + Cardinality(Made) < MaxConns
  PROVE  Joint'
<1>1. agentLinks' = agentLinks /\ streamed' = streamed /\ SameSessions /\ sock[s] = "new"
  BY DEF Agt!AppConnect, SameSessions, Session
<1>2. /\ sock \in [Socks -> Agt!SockState] /\ pending \in Seq(Socks) /\ Apart /\ AgentTyped
      /\ streamed \in [Ids -> Socks \cup {Agt!NoSock}]
  BY TypedParts DEF Joint
<1>3. sock'[s] # "new" /\ \A r \in Socks : r # s => sock'[r] = sock[r]
  BY <1>2 DEF Agt!AppConnect
<1>4. Made' = Made \cup {s} /\ s \notin Made
  BY <1>1, <1>3 DEF Made
<1>5. IsFiniteSet(Made) /\ Cardinality(Made') = Cardinality(Made) + 1 /\ Cardinality(Made) \in Nat /\ directs \in Nat
  BY <1>4, Countings, FS_AddElement
<1>6. directs' = directs /\ nextId' = nextId
  BY DEF AgentKeeps, serverVars
<1>7. \A i \in Ids : (\A a \in AgentWs : AtAgent(a, i)) /\ Confirmed(i) /\ Owned(i)
  BY DEF Joint, Sound
<1>8. \A a \in AgentWs : agents[a] = "absent" => toAgent'[a] = <<>>
  BY DEF Joint, Blank
<1>9. CASE Agt!wsReady
  <2> DEFINE f == Frame("TCP_CONNECT", 0, SockPort[s])
  <2>1. f \in AgentFrames /\ f.id = 0 /\ f.type = "TCP_CONNECT" /\ 0 \notin Ids
    BY TunnelAssumption, ServerAssumption DEF AgentFrames, Frame, Ids
  <2>2. Agt!Sends(<<f>>)
    BY <1>9, SameNames DEF Agt!AppConnect
  <2>13. pending' = Append(pending, s)
    BY <1>9 DEF Agt!AppConnect
  <2>14. f \in AgentFrames /\ AgentTyped
    BY <1>2, <2>1
  <2> HIDE DEF f
  <2>15. \A a \in AgentWs, j \in Ids :
           Kinds(fromAgent'[a], j) = Kinds(fromAgent[a], j) \cup (IF agentLinks[a] = "open" /\ f.id = j THEN {f.type} ELSE {})
    BY <2>2, <2>14, AgentSendsKinds
  <2>3. ASSUME NEW a \in AgentWs, NEW j \in Ids PROVE Kinds(fromAgent'[a], j) = Kinds(fromAgent[a], j)
    <3>1. Kinds(fromAgent'[a], j) = Kinds(fromAgent[a], j) \cup (IF agentLinks[a] = "open" /\ f.id = j THEN {f.type} ELSE {})
      BY <2>15
    <3> QED
      BY <2>1, <3>1
  <2>4. \A j \in Ids : SameFor(j)
    BY <1>1, <2>3 DEF SameFor
  <2>5. \A j \in Ids : (\A a \in AgentWs : AtAgent(a, j)') /\ Confirmed(j)' /\ (Fresh(j) => Fresh(j)')
    BY <1>1, <1>7, <2>4, SameForAgent
  <2>6. PICK b \in AgentWs : agentLinks[b] = "open"
    BY <1>9 DEF Agt!wsReady
  <2>7. \A a \in AgentWs : agentLinks[a] = "open" => a = b
    BY <1>2, <2>6 DEF Apart, Session
  <2>8. Asking' = Asking \cup {<<b, Len(fromAgent[b]) + 1>>}
    <3>1. {a \in AgentWs : agentLinks[a] = "open"} = {b}
      BY <2>6, <2>7
    <3>2. Asking' = Asking \cup {<<a, Len(fromAgent[a]) + 1>> : a \in {a \in AgentWs : agentLinks[a] = "open"}}
      BY <1>2, <2>1, <2>2, AskingAfter
    <3> QED
      BY <3>1, <3>2
  <2>9. <<b, Len(fromAgent[b]) + 1>> \notin Asking
    <3>1. fromAgent[b] \in Seq(AgentFrames)
      BY <1>2 DEF AgentTyped
    <3>2. Len(fromAgent[b]) + 1 \notin DOMAIN fromAgent[b]
      BY <3>1
    <3> QED
      BY <3>2, AskingIs
  <2>10. IsFiniteSet(Asking') /\ Cardinality(Asking') = Cardinality(Asking) + 1 /\ Cardinality(Asking) \in Nat
    BY <2>8, <2>9, Countings, FS_AddElement
  <2>11. Unused'
    <3>1. /\ Cardinality(Asking') \in Nat /\ Cardinality(Made') \in Nat /\ directs' \in Nat
          /\ Cardinality(Asking') + directs + Cardinality(Made) <= Cardinality(Asking) + directs' + Cardinality(Made')
          /\ directs' + Cardinality(Made') <= MaxConns
      BY <1>5, <1>6, <2>10, TunnelAssumption
    <3> QED
      BY <1>6, <2>5, <2>10, <3>1, UnusedKept
  <2>12. Apart'
    <3>1. /\ Len(pending) \in Nat /\ DOMAIN pending = 1 .. Len(pending)
          /\ DOMAIN pending' = 1 .. Len(pending) + 1 /\ pending'[Len(pending) + 1] = s
          /\ \A k \in 1 .. Len(pending) : pending'[k] = pending[k] /\ pending[k] \in Socks
      BY <1>2, <2>13
    <3>2. \A k \in DOMAIN pending : pending[k] # s
      BY <1>1, <1>2 DEF Apart
    <3>3. \A i \in Ids : streamed[i] # s
      BY <1>1, <1>2, TypedParts DEF Apart
    <3>4. ASSUME NEW j \in DOMAIN pending', NEW k \in DOMAIN pending', pending'[j] = pending'[k] PROVE j = k
      <4>1. CASE j \in DOMAIN pending /\ k \in DOMAIN pending
        BY <1>2, <3>1, <3>4, <4>1 DEF Apart
      <4>2. CASE j = Len(pending) + 1 \/ k = Len(pending) + 1
        BY <3>1, <3>2, <3>4, <4>2
      <4> QED
        BY <3>1, <4>1, <4>2
    <3>5. \A k \in DOMAIN pending' : sock'[pending'[k]] # "new"
      BY <1>2, <1>3, <3>1, <3>2 DEF Apart
    <3>6. ASSUME NEW i \in Ids, streamed[i] # Agt!NoSock
          PROVE  /\ \A k \in DOMAIN pending' : pending'[k] # streamed[i]
                 /\ \A j \in Ids : streamed[j] = streamed[i] => i = j
                 /\ sock'[streamed[i]] # "new"
      <4>1. /\ \A k \in DOMAIN pending : pending[k] # streamed[i]
            /\ \A j \in Ids : streamed[j] = streamed[i] => i = j
            /\ sock[streamed[i]] # "new" /\ streamed[i] \in Socks
        BY <1>2, <3>6 DEF Apart
      <4>2. \A k \in DOMAIN pending' : pending'[k] # streamed[i]
        BY <3>1, <3>3, <4>1
      <4> QED
        BY <1>3, <4>1, <4>2
    <3>7. \A a, c \in AgentWs : Session(a)' /\ Session(c)' => a = c
      BY <1>1, <1>2 DEF SameSessions, Apart
    <3>8. Session(b)'
      BY <1>1, <2>6 DEF Session
    <3> QED
      BY <1>1, <3>4, <3>5, <3>6, <3>7, <3>8 DEF Apart
  <2> QED
    BY <1>8, <2>5, <2>11, <2>12, AgentJoint
<1>10. CASE ~Agt!wsReady
  <2>1. pending' = pending /\ fromAgent' = fromAgent
    BY <1>10 DEF Agt!AppConnect
  <2>2. \A j \in Ids : SameFor(j)
    BY <1>1, <2>1 DEF SameFor
  <2>3. \A j \in Ids : (\A a \in AgentWs : AtAgent(a, j)') /\ Confirmed(j)' /\ (Fresh(j) => Fresh(j)')
    BY <1>1, <1>7, <2>2, SameForAgent
  <2>4. Asking' = Asking
    BY <2>1 DEF Asking
  <2>5. Unused'
    <3>1. /\ Cardinality(Asking') \in Nat /\ Cardinality(Made') \in Nat /\ directs' \in Nat /\ IsFiniteSet(Asking')
          /\ Cardinality(Asking') + directs + Cardinality(Made) <= Cardinality(Asking) + directs' + Cardinality(Made')
          /\ directs' + Cardinality(Made') <= MaxConns
      BY <1>5, <1>6, <2>4, Countings, TunnelAssumption
    <3> QED
      BY <1>6, <2>3, <3>1, UnusedKept
  <2>6. Apart'
    <3>1. \A i \in Ids : streamed'[i] = streamed[i] \/ streamed'[i] = Agt!NoSock
      BY <1>1
    <3>2. \A r \in Socks : sock[r] # "new" => sock'[r] # "new"
      BY <1>3
    <3> QED
      BY <1>1, <1>2, <2>1, <3>1, <3>2, ApartKept
  <2> QED
    BY <1>8, <2>3, <2>5, <2>6, AgentJoint
<1> QED
  BY <1>9, <1>10

(* The agent's end of the connection. *)
LEMMA AgentLinkJoint ==
  ASSUME Typed, Joint, AgentKeeps, toAgent' = toAgent, NEW a \in AgentWs,
         Agt!LinkBreaks(a) \/ Agt!LinkCloses(a)
  PROVE  Joint'
<1>1. /\ sock \in [Socks -> Agt!SockState] /\ pending \in Seq(Socks)
      /\ streamed \in [Ids -> Socks \cup {Agt!NoSock}] /\ agentLinks \in [AgentWs -> Agt!LinkState]
  BY TypedParts
<1>2. Apart /\ \A i \in Ids : (\A b \in AgentWs : AtAgent(b, i)) /\ Confirmed(i) /\ Owned(i)
  BY DEF Joint, Sound
<1>3. /\ streams' = streams /\ agents' = agents /\ idled' = idled /\ nextId' = nextId /\ directs' = directs
      /\ agentStreams' = agentStreams /\ toClient' = toClient
      /\ opened' = opened /\ local' = local /\ fromClient' = fromClient
  BY DEF AgentKeeps, serverVars, clientVars
<1>4. fromAgent' = fromAgent /\ Asking' = Asking
  BY DEF Agt!LinkBreaks, Agt!LinkCloses, Asking
<1>5. \A b \in AgentWs : agents[b] = "absent" => toAgent'[b] = <<>>
  BY DEF Joint, Blank
<1>6. CASE Agt!LinkBreaks(a)
  <2>1. SameSessions
    BY <1>1, <1>6 DEF Agt!LinkBreaks, SameSessions, Session
  <2>2. sock' = sock /\ pending' = pending /\ streamed' = streamed
    BY <1>6 DEF Agt!LinkBreaks
  <2>3. \A i \in Ids : SameFor(i)
    BY <1>4, <2>2 DEF SameFor
  <2>4. \A i \in Ids : (\A b \in AgentWs : AtAgent(b, i)') /\ Confirmed(i)' /\ (Fresh(i) => Fresh(i)')
    BY <1>2, <2>1, <2>3, SameForAgent
  <2>5. Apart'
    BY <1>2, <2>1, <2>2, ApartKept
  <2>6. Unused'
    <3>1. Made' = Made
      BY <2>2 DEF Made
    <3> QED
      BY <1>3, <1>4, <2>4, <3>1, UnusedSame
  <2> QED
    BY <1>5, <2>4, <2>5, <2>6, AgentJoint
<1>7. CASE Agt!LinkCloses(a)
  <2>1. /\ pending' = <<>> /\ \A i \in Ids : streamed'[i] = Agt!NoSock
        /\ sock' = [s \in Socks |-> IF s \in Agt!Waiting \cup Agt!Bridged THEN "closed" ELSE sock[s]]
    BY <1>7, SameNames DEF Agt!LinkCloses
  <2>2. \A b \in AgentWs : ~Session(b)'
    <3>1. Session(a) /\ agentLinks' = [agentLinks EXCEPT ![a] = "closed"]
      BY <1>7 DEF Agt!LinkCloses, Session
    <3>2. \A b \in AgentWs : b # a => ~Session(b)
      BY <1>2, <3>1 DEF Apart
    <3> QED
      BY <1>1, <3>1, <3>2 DEF Session
  <2>3. Made' = Made
    <3>1. \A s \in Agt!Waiting : sock[s] # "new"
      BY <1>2, SameNames DEF Agt!Waiting, ToSet, Apart
    <3>2. \A s \in Agt!Bridged : sock[s] # "new"
      BY <1>2, SameNames DEF Agt!Bridged, Apart
    <3>3. \A s \in Socks : sock'[s] # "new" <=> sock[s] # "new"
      BY <2>1, <3>1, <3>2
    <3> QED
      BY <3>3 DEF Made
  <2>4. ASSUME NEW i \in Ids PROVE (Fresh(i) => Fresh(i)') /\ Confirmed(i)' /\ (Unheard(i) => Unheard(i)')
    BY <1>2, <1>3, <1>4, <2>1 DEF Fresh, Confirmed, Unheard, IsAgent
  <2>5. ASSUME NEW i \in Ids, NEW b \in AgentWs PROVE AtAgent(b, i)'
    BY <1>2, <1>3, <1>4, <2>1, <2>2, <2>4 DEF AtAgent, IsAgent, Acked
  <2>6. Apart'
    BY <2>1, <2>2 DEF Apart
  <2>7. Unused'
    BY <1>3, <1>4, <2>3, <2>4, UnusedSame
  <2> QED
    BY <1>5, <2>4, <2>5, <2>6, <2>7, AgentJoint
<1> QED
  BY <1>6, <1>7

(* The agent connects.  It has no connection of an earlier session left. *)
LEMMA AgentConnectsJoint ==
  ASSUME Typed, Joint, NEW a \in AgentWs, AgentConnects(a)
  PROVE  Joint'
<1>1. /\ streams' = streams /\ nextId' = nextId /\ clients' = clients /\ agentStreams' = agentStreams
      /\ toAgent' = toAgent /\ fromAgent' = fromAgent /\ sock' = sock /\ pending' = pending
      /\ streamed' = streamed /\ directs' = directs /\ idled' = idled
      /\ toClient' = toClient /\ fromClient' = fromClient /\ opened' = opened /\ local' = local
      /\ clientLinks' = clientLinks
      /\ agents[a] = "absent" /\ \A b \in AgentWs : agentLinks[b] \in {"unused", "closed"}
  BY DEF AgentConnects, AgentJoin, Agt!LinkOpens, channels, streamVars, clientVars, bounds
<1>2. /\ agents' = [agents EXCEPT ![a] = "open"] /\ agentLinks' = [agentLinks EXCEPT ![a] = "open"]
  BY DEF AgentConnects, AgentJoin, Agt!LinkOpens
<1>3. /\ agents'[a] = "open" /\ agentLinks'[a] = "open"
      /\ \A b \in AgentWs : b # a => agents'[b] = agents[b] /\ agentLinks'[b] = agentLinks[b]
  BY <1>2, TypedParts DEF TypeOK
<1>4. Session(a)' /\ (\A b \in AgentWs : ~Session(b)) /\ \A b \in AgentWs : Session(b)' => b = a
  BY <1>1, <1>3 DEF Session
<1>5. pending = <<>> /\ \A i \in Ids : streamed[i] = Agt!NoSock
  BY <1>4 DEF Joint, Apart
<1>6. toAgent[a] = <<>>
  BY <1>1 DEF Joint, Blank
<1>7. ASSUME NEW i \in Ids PROVE Owned(i)' /\ Confirmed(i)' /\ (Fresh(i) => Fresh(i)') /\ (Unheard(i) => Unheard(i)')
  BY <1>1, <1>5 DEF Joint, Sound, Owned, Confirmed, Live, IsAgent, Unheard, Fresh
<1>8. ASSUME NEW i \in Ids, NEW w \in ClientWs PROVE AtClient(w, i)'
  BY <1>1 DEF Joint, Sound, AtClient, Live, IsAgent
<1>9. ASSUME NEW i \in Ids, NEW b \in AgentWs PROVE AtAgent(b, i)'
  <2>1. CASE b = a
    <3>1. Kinds(toAgent[a], i) = {} /\ Leads(toAgent[a], "TCP_CONNECT_ACK", i)
      BY <1>6, KindsNone, LeadsNone
    <3> QED
      BY <1>1, <1>5, <2>1, <3>1 DEF AtAgent, Acked
  <2>2. CASE b # a
    BY <1>1, <1>3, <1>4, <1>5, <1>7, <2>2 DEF Joint, Sound, AtAgent, Acked, IsAgent
  <2> QED
    BY <2>1, <2>2
<1>10. Blank' /\ NoZero'
  BY <1>1, <1>3 DEF Joint, Blank, NoZero
<1>11. Apart'
  BY <1>1, <1>4, <1>5 DEF Apart
<1>12. Unused'
  <2>1. Asking' = Asking /\ Made' = Made
    BY <1>1 DEF Asking, Made
  <2> QED
    BY <1>1, <1>7, <2>1, UnusedSame
<1> QED
  BY <1>7, <1>8, <1>9, <1>10, <1>11, <1>12 DEF Joint, Sound

(* The agent takes a frame.  Of all frames only TCP_CONNECT_ACK can bridge a *)
(* connection.                                                              *)
HearsQuietly(i, f) ==
  /\ pending' = pending \/ \E k \in DOMAIN pending : pending' = RemoveAt(pending, k)
  /\ \A j \in Ids : streamed'[j] = streamed[j] \/ (j = i /\ streamed'[j] = Agt!NoSock)
  /\ i \in Ids /\ f.type \in Endings => streamed'[i] = Agt!NoSock
  /\ \A s \in Socks : sock'[s] # "new" <=> sock[s] # "new"

HearsBridge(i, f) ==
  /\ i \in Ids /\ f.type = "TCP_CONNECT_ACK" /\ sock' = sock
  /\ \E k \in DOMAIN pending :
       /\ SockPort[pending[k]] = f.port
       /\ pending' = RemoveAt(pending, k)
       /\ streamed' = [streamed EXCEPT ![i] = pending[k]]

LEMMA AgentHearsWhat ==
  ASSUME Typed, Apart, NEW f \in FrameSet, Agt!OnFrame(f)
  PROVE  /\ agentLinks' = agentLinks /\ fromAgent' = fromAgent
         /\ HearsQuietly(f.id, f) \/ HearsBridge(f.id, f)
<1>1. /\ pending \in Seq(Socks) /\ sock \in [Socks -> Agt!SockState]
      /\ streamed \in [Ids -> Socks \cup {Agt!NoSock}]
      /\ \A k \in DOMAIN pending : pending[k] \in Socks /\ sock[pending[k]] # "new"
  BY TypedParts DEF Apart
<1>2. CASE f.type \notin Endings /\ UNCHANGED Agt!agentVars
  BY <1>2 DEF Agt!agentVars, HearsQuietly
<1>3. CASE f.type = "TCP_CONNECT_ACK" /\ Agt!ConnectAck(f.id, f.port)
  <2>0. f.type \notin Endings
    BY <1>3 DEF Endings
  <2>1. CASE UNCHANGED Agt!agentVars
    BY <1>2, <2>0, <2>1
  <2>2. CASE \E k \in DOMAIN pending :
               /\ Agt!IsFirst(k, f.port)
               /\ pending' = RemoveAt(pending, k)
               /\ streamed' = IF sock[pending[k]] = "open"
                              THEN [streamed EXCEPT ![f.id] = pending[k]] ELSE streamed
               /\ UNCHANGED <<sock, agentLinks, fromAgent>>
    <3>1. PICK k \in DOMAIN pending :
               /\ SockPort[pending[k]] = f.port
               /\ pending' = RemoveAt(pending, k)
               /\ streamed' = IF sock[pending[k]] = "open"
                              THEN [streamed EXCEPT ![f.id] = pending[k]] ELSE streamed
               /\ UNCHANGED <<sock, agentLinks, fromAgent>>
      BY <2>2 DEF Agt!IsFirst
    <3>2. CASE sock[pending[k]] = "open" /\ f.id \in Ids
      BY <1>3, <3>1, <3>2 DEF HearsBridge
    <3>3. CASE ~(sock[pending[k]] = "open" /\ f.id \in Ids)
      <4>1. streamed' = streamed
        BY <1>1, <3>1, <3>3
      <4> QED
        BY <2>0, <3>1, <4>1 DEF HearsQuietly
    <3> QED
      BY <3>2, <3>3
  <2> QED
    BY <1>3, <2>1, <2>2, SameNames DEF Agt!ConnectAck
<1>4. CASE f.id = 0 /\ Agt!ConnectReject(f.port)
  <2>0. f.id \notin Ids
    BY <1>4, ServerAssumption DEF Ids
  <2>1. CASE UNCHANGED Agt!agentVars
    BY <2>0, <2>1 DEF Agt!agentVars, HearsQuietly
  <2>2. CASE \E k \in DOMAIN pending :
               /\ pending' = RemoveAt(pending, k)
               /\ sock' = [sock EXCEPT ![pending[k]] = "closed"]
               /\ UNCHANGED <<streamed, agentLinks, fromAgent>>
    <3>1. \A s \in Socks : sock'[s] # "new" <=> sock[s] # "new"
      BY <1>1, <2>2
    <3> QED
      BY <2>0, <2>2, <3>1 DEF HearsQuietly
  <2> QED
    BY <1>4, <2>1, <2>2, SameNames DEF Agt!ConnectReject
<1>5. CASE f.id # 0 /\ Agt!StreamEnds(f.id)
  <2>0. f.id \in Ids
    BY <1>5 DEF FrameSet
  <2>1. CASE UNCHANGED Agt!agentVars /\ streamed[f.id] = Agt!NoSock
    BY <2>1 DEF Agt!agentVars, HearsQuietly
  <2>2. CASE /\ streamed[f.id] # Agt!NoSock
             /\ streamed' = [streamed EXCEPT ![f.id] = Agt!NoSock]
             /\ sock' = [sock EXCEPT ![streamed[f.id]] = "closed"]
             /\ UNCHANGED <<pending, agentLinks, fromAgent>>
    <3>1. streamed[f.id] \in Socks /\ sock[streamed[f.id]] # "new"
      BY <1>1, <2>0, <2>2 DEF Apart
    <3>2. \A s \in Socks : sock'[s] # "new" <=> sock[s] # "new"
      BY <1>1, <2>2, <3>1
    <3> QED
      BY <1>1, <2>0, <2>2, <3>2 DEF HearsQuietly
  <2> QED
    BY <1>5, <2>0, <2>1, <2>2, SameNames DEF Agt!StreamEnds
<1>6. CASE f.id = 0 /\ Agt!StreamEnds(f.id)
  <2>0. f.id \notin Ids
    BY <1>6, ServerAssumption DEF Ids
  <2>1. UNCHANGED Agt!agentVars
    BY <1>6, <2>0, SameNames DEF Agt!StreamEnds
  <2> QED
    BY <2>0, <2>1 DEF Agt!agentVars, HearsQuietly
<1>7. CASE f.type = "TCP_DATA" /\ UNCHANGED Agt!agentVars
  BY <1>2, <1>7 DEF Endings
<1> QED
  BY <1>3, <1>4, <1>5, <1>6, <1>7 DEF Agt!OnFrame

LEMMA AgentHearsJoint ==
  ASSUME Typed, Joint, NEW a \in AgentWs, AgentHears(a)
  PROVE  Joint'
<1>0. PICK f : f = Head(toAgent[a])
  OBVIOUS
<1>00. PICK i : i = f.id
  OBVIOUS
<1>1. /\ AgentKeeps /\ toAgent[a] # <<>> /\ Session(a)
      /\ toAgent' = [toAgent EXCEPT ![a] = Tail(@)] /\ Agt!OnFrame(f)
  BY <1>0 DEF AgentHears, AgentKeeps, Pop, bounds, Session
<1>2. /\ toAgent \in [AgentWs -> Seq(FrameSet)] /\ toAgent[a] \in Seq(FrameSet) /\ f \in FrameSet
      /\ pending \in Seq(Socks) /\ streamed \in [Ids -> Socks \cup {Agt!NoSock}] /\ Agt!NoSock \notin Socks
      /\ sock \in [Socks -> Agt!SockState]
  BY <1>0, <1>1, TypedParts DEF TypeOK
<1>3. toAgent'[a] = Tail(toAgent[a]) /\ \A b \in AgentWs : b # a => toAgent'[b] = toAgent[b]
  BY <1>1, <1>2
<1>4. /\ Apart /\ \A j \in Ids : (\A b \in AgentWs : AtAgent(b, j)) /\ Confirmed(j) /\ Owned(j)
  BY DEF Joint, Sound
<1>5. /\ agentLinks' = agentLinks /\ fromAgent' = fromAgent
      /\ HearsQuietly(i, f) \/ HearsBridge(i, f)
  BY <1>00, <1>1, <1>2, <1>4, AgentHearsWhat
<1>6. SameSessions /\ Asking' = Asking
  BY <1>5 DEF SameSessions, Session, Asking
<1>7. /\ streams' = streams /\ agents' = agents /\ idled' = idled /\ nextId' = nextId /\ directs' = directs
      /\ \A j \in Ids : IsAgent(j)' <=> IsAgent(j)
  BY <1>1 DEF AgentKeeps, serverVars, IsAgent
<1>8. ASSUME NEW j
      PROVE  /\ Kinds(toAgent'[a], j) \subseteq Kinds(toAgent[a], j)
             /\ Kinds(toAgent[a], j) = Kinds(toAgent'[a], j) \cup (IF i = j THEN {f.type} ELSE {})
             /\ Leads(toAgent[a], "TCP_CONNECT_ACK", j) => Leads(toAgent'[a], "TCP_CONNECT_ACK", j)
             /\ Named(toAgent'[a], "TCP_CONNECT_ACK", j) \subseteq Named(toAgent[a], "TCP_CONNECT_ACK", j)
             /\ i = j => f.port \in Named(toAgent[a], f.type, j)
             /\ Leads(toAgent[a], "TCP_CONNECT_ACK", j) /\ i = j /\ f.type \in Endings \cup {"TCP_CONNECT_ACK"}
                  => "TCP_CONNECT_ACK" \notin Kinds(toAgent'[a], j)
  BY <1>0, <1>00, <1>1, <1>2, <1>3, KindsTail
<1>9. ASSUME NEW j \in Ids, j # i PROVE SameFor(j)
  <2>1. streamed'[j] = streamed[j]
    BY <1>2, <1>5, <1>9 DEF HearsQuietly, HearsBridge
  <2>2. ASSUME NEW b \in AgentWs
        PROVE  /\ Kinds(toAgent'[b], j) = Kinds(toAgent[b], j)
               /\ Leads(toAgent[b], "TCP_CONNECT_ACK", j) => Leads(toAgent'[b], "TCP_CONNECT_ACK", j)
               /\ Named(toAgent'[b], "TCP_CONNECT_ACK", j) \subseteq Named(toAgent[b], "TCP_CONNECT_ACK", j)
    <3>1. CASE b = a
      BY <1>8, <1>9, <3>1
    <3>2. CASE b # a
      BY <1>3, <3>2
    <3> QED
      BY <3>1, <3>2
  <2> QED
    BY <1>5, <2>1, <2>2 DEF SameFor
<1>10. \A j \in Ids : j # i => (\A b \in AgentWs : AtAgent(b, j)') /\ Confirmed(j)' /\ (Fresh(j) => Fresh(j)')
  BY <1>1, <1>4, <1>6, <1>9, SameForAgent
<1>11. i \in Ids => ~Fresh(i)
  BY <1>8 DEF Fresh
<1>12. \A b \in AgentWs : agents[b] = "absent" => toAgent'[b] = <<>>
  BY <1>1, <1>3 DEF Joint, Blank
<1>13. ASSUME NEW b \in AgentWs, i \in Ids
       PROVE  /\ Leads(toAgent'[b], "TCP_CONNECT_ACK", i)
              /\ Kinds(toAgent'[b], i) \subseteq Kinds(toAgent[b], i)
              /\ Named(toAgent'[b], "TCP_CONNECT_ACK", i) \subseteq Named(toAgent[b], "TCP_CONNECT_ACK", i)
              /\ Acked(b, i)' => Acked(b, i)
              /\ f.type \notin Endings => Kinds(toAgent'[b], i) \cap Endings = Kinds(toAgent[b], i) \cap Endings
              /\ b # a => Kinds(toAgent'[b], i) = Kinds(toAgent[b], i)
  <2>0. Leads(toAgent[b], "TCP_CONNECT_ACK", i)
    BY <1>4, <1>13 DEF AtAgent
  <2>1. CASE b = a
    BY <1>8, <2>0, <2>1 DEF Acked
  <2>2. CASE b # a
    BY <1>3, <2>0, <2>2 DEF Acked
  <2> QED
    BY <2>1, <2>2
<1>14. ASSUME HearsQuietly(i, f)
       PROVE  Joint'
  <2>1. ASSUME i \in Ids, NEW b \in AgentWs PROVE AtAgent(b, i)'
    <3>1. streamed'[i] # Agt!NoSock => streamed'[i] = streamed[i] /\ f.type \notin Endings
      BY <1>14, <2>1 DEF HearsQuietly
    <3>2. Unheard(i) => Unheard(i)'
      BY <1>5, <3>1 DEF Unheard
    <3>3. f.type \in Endings => ~Acked(a, i)'
      BY <1>4, <1>8, <2>1 DEF AtAgent, Acked
    <3>4. Acked(b, i)' => Kinds(toAgent'[b], i) \cap Endings = Kinds(toAgent[b], i) \cap Endings
      BY <1>13, <2>1, <3>3
    <3>5. streamed'[i] # Agt!NoSock => Kinds(toAgent'[b], i) \cap Endings = Kinds(toAgent[b], i) \cap Endings
      BY <1>13, <2>1, <3>1
    <3>6. /\ AtAgent(b, i) /\ \A c \in AgentWs : Acked(c, i)' => Acked(c, i)
          /\ Leads(toAgent'[b], "TCP_CONNECT_ACK", i)
          /\ Kinds(toAgent'[b], i) \subseteq Kinds(toAgent[b], i)
          /\ Named(toAgent'[b], "TCP_CONNECT_ACK", i) \subseteq Named(toAgent[b], "TCP_CONNECT_ACK", i)
      BY <1>4, <1>13, <2>1
    <3>7. Session(b)' <=> Session(b)
      BY <1>6 DEF SameSessions
    <3>8. streamed[i] = Agt!NoSock => streamed'[i] = Agt!NoSock
      BY <3>1
    <3> QED
      BY <1>5, <1>7, <2>1, <3>1, <3>2, <3>4, <3>5, <3>6, <3>7, <3>8 DEF AtAgent
  <2>2. ASSUME i \in Ids PROVE Confirmed(i)'
    <3>1. streamed'[i] # Agt!NoSock => streamed'[i] = streamed[i]
      BY <1>14, <2>2 DEF HearsQuietly
    <3>2. Unheard(i) => Unheard(i)'
      BY <1>5, <3>1 DEF Unheard
    <3>3. IsAgent(i) => streams[i].agent \in AgentWs
      BY <1>4, <2>2 DEF Owned
    <3> QED
      BY <1>4, <1>6, <1>7, <2>2, <3>1, <3>2, <3>3 DEF Confirmed, SameSessions
  <2>3. Apart'
    <3>1. /\ pending' = pending \/ \E k \in DOMAIN pending : pending' = RemoveAt(pending, k)
          /\ \A j \in Ids : streamed'[j] = streamed[j] \/ streamed'[j] = Agt!NoSock
          /\ \A s \in Socks : sock[s] # "new" => sock'[s] # "new"
      BY <1>14 DEF HearsQuietly
    <3> QED
      BY <1>4, <1>6, <3>1, ApartKept
  <2>4. Unused'
    <3>1. Made' = Made
      BY <1>14 DEF HearsQuietly, Made
    <3>2. \A j \in Ids : Fresh(j) => Fresh(j)'
      BY <1>10, <1>11
    <3> QED
      BY <1>6, <1>7, <3>1, <3>2, UnusedSame
  <2>5. \A j \in Ids : (\A b \in AgentWs : AtAgent(b, j)') /\ Confirmed(j)'
    BY <1>10, <2>1, <2>2
  <2> QED
    BY <1>1, <1>12, <2>3, <2>4, <2>5, AgentJoint
<1>15. ASSUME HearsBridge(i, f)
       PROVE  Joint'
  <2>1. PICK k \in DOMAIN pending : /\ SockPort[pending[k]] = f.port
                                    /\ pending' = RemoveAt(pending, k)
                                    /\ streamed' = [streamed EXCEPT ![i] = pending[k]]
    BY <1>15 DEF HearsBridge
  <2>2. i \in Ids /\ f.type = "TCP_CONNECT_ACK" /\ sock' = sock /\ pending[k] \in Socks
    BY <1>2, <1>15 DEF HearsBridge
  <2>3. streamed'[i] = pending[k] /\ streamed'[i] # Agt!NoSock /\ \A j \in Ids : j # i => streamed'[j] = streamed[j]
    BY <1>2, <2>1, <2>2
  <2>4. Acked(a, i) /\ AtAgent(a, i)
    BY <1>4, <1>8, <2>2 DEF Acked
  <2>5. /\ Unheard(i) /\ \A b \in AgentWs : Acked(b, i) => b = a
        /\ \/ IsAgent(i) /\ streams[i].agent = a
           \/ Kinds(toAgent[a], i) \cap Endings # {} \/ i \in idled \/ agents[a] # "open"
        /\ IsAgent(i) => ~streams[i].awaiting
        /\ IsAgent(i) => streams[i].agent = a /\ Named(toAgent[a], "TCP_CONNECT_ACK", i) \subseteq {streams[i].port}
    BY <2>4 DEF AtAgent
  <2>6. ~Acked(a, i)'
    BY <1>8, <2>2, <2>4 DEF Acked, AtAgent
  <2>7. \A b \in AgentWs : ~Acked(b, i)'
    BY <1>13, <2>2, <2>5, <2>6
  <2>8. f.type \notin Endings
    BY <2>2 DEF Endings
  <2>9. ASSUME NEW b \in AgentWs PROVE AtAgent(b, i)'
    <3>1. /\ AtAgent(b, i) /\ Leads(toAgent'[b], "TCP_CONNECT_ACK", i)
          /\ Kinds(toAgent'[b], i) \cap Endings = Kinds(toAgent[b], i) \cap Endings
      BY <1>4, <1>13, <2>2, <2>8
    <3>2. Session(b)' => b = a
      BY <1>1, <1>4, <1>6 DEF SameSessions, Apart
    <3>3. Kinds(fromAgent'[b], i) = {}
      BY <1>5, <2>5 DEF Unheard
    <3> QED
      BY <1>7, <2>2, <2>5, <2>7, <3>1, <3>2, <3>3 DEF AtAgent
  <2>10. Confirmed(i)'
    <3>1. IsAgent(i) => streams[i].port = SockPort[streamed'[i]]
      <4>1. f.port \in Named(toAgent[a], "TCP_CONNECT_ACK", i)
        BY <1>8, <2>2
      <4> QED
        BY <2>1, <2>3, <2>5, <4>1
    <3>2. IsAgent(i) => Session(streams[i].agent)'
      BY <1>1, <1>6, <1>7, <2>5 DEF SameSessions, Session
    <3> QED
      BY <1>7, <2>2, <2>5, <3>1, <3>2 DEF Confirmed
  <2>11. Apart'
    <3>1. /\ \A j, l \in DOMAIN pending' : pending'[j] = pending'[l] => j = l
          /\ \A j \in DOMAIN pending' : pending'[j] # pending[k] /\ \E m \in DOMAIN pending : pending'[j] = pending[m]
      BY <1>2, <1>4, <2>1, RemoveKeeps DEF Apart
    <3>2. \A j \in DOMAIN pending' : sock'[pending'[j]] # "new"
      BY <1>4, <2>2, <3>1 DEF Apart
    <3>3. ASSUME NEW j \in Ids, streamed'[j] # Agt!NoSock
          PROVE  /\ \A l \in DOMAIN pending' : pending'[l] # streamed'[j]
                 /\ \A l \in Ids : streamed'[l] = streamed'[j] => j = l
                 /\ sock'[streamed'[j]] # "new"
      <4>1. \A l \in Ids : streamed[l] # pending[k]
        BY <1>2, <1>4, <2>2 DEF Apart
      <4>2. CASE j = i
        <5>1. \A l \in Ids : streamed'[l] = streamed'[j] => j = l
          BY <2>3, <4>1, <4>2
        <5> QED
          BY <1>4, <2>2, <2>3, <3>1, <4>2, <5>1 DEF Apart
      <4>3. CASE j # i
        <5>1. streamed'[j] = streamed[j] /\ streamed[j] # pending[k]
          BY <2>3, <4>1, <4>3
        <5>2. /\ \A l \in DOMAIN pending : pending[l] # streamed[j]
              /\ \A l \in Ids : streamed[l] = streamed[j] => j = l
              /\ sock[streamed[j]] # "new"
          BY <1>4, <3>3, <5>1 DEF Apart
        <5>3. \A l \in Ids : streamed'[l] = streamed'[j] => j = l
          BY <2>3, <5>1, <5>2
        <5> QED
          BY <2>2, <3>1, <5>1, <5>2, <5>3
      <4> QED
        BY <4>2, <4>3
    <3>4. \A b, c \in AgentWs : Session(b)' /\ Session(c)' => b = c
      BY <1>4, <1>6 DEF SameSessions, Apart
    <3>5. Session(a)'
      BY <1>1, <1>6 DEF SameSessions
    <3> QED
      BY <3>1, <3>2, <3>3, <3>4, <3>5 DEF Apart
  <2>12. Unused'
    <3>1. Made' = Made
      BY <2>2 DEF Made
    <3>2. \A j \in Ids : Fresh(j) => Fresh(j)'
      BY <1>10, <1>11
    <3> QED
      BY <1>6, <1>7, <3>1, <3>2, UnusedSame
  <2>13. \A j \in Ids : (\A b \in AgentWs : AtAgent(b, j)') /\ Confirmed(j)'
    BY <1>10, <2>9, <2>10
  <2> QED
    BY <1>1, <1>12, <2>11, <2>12, <2>13, AgentJoint
<1> QED
  BY <1>5, <1>14, <1>15

-----------------------------------------------------------------------------
(* A turn of the server keeps the joint invariant.                          *)

(* A channel that is not open stays as empty as it was. *)
LEMMA BlankTurn ==
  ASSUME Blank, Hushed, OthersKeep
  PROVE  Blank'
<1>1. ASSUME NEW w \in ClientWs, clients'[w] = "absent" PROVE toClient'[w] = <<>>
  BY <1>1 DEF Blank, Hushed
<1>2. ASSUME NEW a \in AgentWs, agents'[a] = "absent" PROVE toAgent'[a] = <<>>
  BY <1>2 DEF Blank, Hushed
<1> QED
  BY <1>1, <1>2 DEF Blank, OthersKeep

LEMMA ModBelow == ASSUME NEW m \in Nat \ {0}, NEW x \in Nat, x < m PROVE x % m = x
  OBVIOUS

LEMMA ModAbove == ASSUME NEW m \in Nat \ {0}, NEW x \in Nat, m <= x, x < 2 * m PROVE x % m = x - m
  OBVIOUS

(* While ids are left that were never used, the next of them is handed out. *)
LEMMA OpeningNext ==
  ASSUME NEW n \in 0 .. MaxId, Used(n), n < MaxId, NEW j \in Ids, Allocates(j)
  PROVE  j = n + 1 /\ nextId' = ((n + 1) % MaxId) + 1
<1>1. n \in Nat /\ MaxId \in Nat \ {0} /\ n + 1 \in Ids /\ j \in 1 .. MaxId
  BY ServerAssumption DEF Ids
<1>2. nextId = n + 1
  BY <1>1, ModBelow DEF Used
<1>3. n + 1 \in Ids \ LiveIds
  <2>1. n + 1 \in n + 1 .. MaxId
    BY <1>1
  <2>2. Fresh(n + 1)
    BY <2>1 DEF Used
  <2> QED
    BY <1>1, <2>2 DEF Fresh, LiveIds, Free
<1>4. Distance(n + 1) = 0
  <2>1. (n + 1) + MaxId - nextId = MaxId
    BY <1>1, <1>2
  <2> QED
    BY <1>1, <2>1, ModAbove DEF Distance
<1>5. Distance(j) <= 0
  BY <1>3, <1>4 DEF Allocates
<1>6. j + MaxId - nextId = MaxId
  <2> DEFINE x == j + MaxId - nextId
  <2>1. x \in Nat /\ x < 2 * MaxId /\ x - MaxId = j - (n + 1)
    BY <1>1, <1>2
  <2>2. x % MaxId <= 0
    BY <1>5 DEF Distance
  <2> HIDE DEF x
  <2>3. CASE x < MaxId
    <3>1. x = 0
      BY <1>1, <2>1, <2>2, <2>3, ModBelow
    <3> QED
      BY <1>1, <1>2, <3>1 DEF x
  <2>4. CASE MaxId <= x
    <3>1. x - MaxId <= 0
      BY <1>1, <2>1, <2>2, <2>4, ModAbove
    <3> QED
      BY <1>1, <2>1, <2>4, <3>1 DEF x
  <2> QED
    BY <1>1, <2>1, <2>3, <2>4
<1>7. j = n + 1
  BY <1>1, <1>2, <1>6
<1>8. nextId' = ((n + 1) % MaxId) + 1
  <2>1. CASE j = MaxId
    BY <1>1, <1>7, <2>1, ModAbove DEF Allocates
  <2>2. CASE j # MaxId
    BY <1>1, <1>7, <2>2, ModBelow DEF Allocates
  <2> QED
    BY <2>1, <2>2
<1> QED
  BY <1>7, <1>8

(* An id that was not used yet, and is not handed out in this turn. *)
LEMMA FreshStill ==
  ASSUME NEW i \in Ids, Fresh(i), Calm(i) \/ Flows(i) \/ Strays(i) \/ Acks(i) \/ Ends(i)
  PROVE  ~Opens(i)
<1>1. ~Live(i) /\ ~IsAgent(i)
  BY DEF Fresh, Free, Live, IsAgent
<1>2. streams'[i] = streams[i]
  BY <1>1 DEF Calm, Flows, Strays, Acks, Ends, Stays
<1> QED
  BY <1>1, <1>2 DEF Opens, Live

(* A turn takes requests, and hands out an id only for one it has taken or  *)
(* for a direct connection.                                                 *)
LEMMA ServerTurnJoint ==
  ASSUME Typed, Joint, Turn, OthersKeep, \A i \in Ids : Hears(i) /\ Obeys(i),
         IsFiniteSet(Asking'), Cardinality(Asking') \in Nat, directs' \in Nat,
         directs' + Cardinality(Made) <= MaxConns,
         Cardinality(Asking') + directs <= Cardinality(Asking) + directs',
         \A j \in Ids : Opens(j) => Cardinality(Asking') + directs < Cardinality(Asking) + directs'
  PROVE  Joint'
<1>1. TypeOK /\ Hushed /\ NoZero' /\ \A i \in Ids : Sound(i)
  BY TypedParts DEF Turn, Joint
<1>2. Blank'
  BY <1>1, BlankTurn DEF Joint
<1>3. Apart'
  BY DEF Joint, Apart, OthersKeep, Session
<1>4. Made' = Made /\ Cardinality(Made) \in Nat /\ Cardinality(Asking) \in Nat /\ directs \in Nat
  BY Countings DEF Made, OthersKeep
<1>5. ASSUME NEW i \in Ids, Done(i) PROVE Sound(i)'
  <2>1. Owned(i)'
    BY <1>1, <1>5, OwnedTurn DEF Sound
  <2>2. Confirmed(i)'
    BY <1>1, <1>5, ConfirmedTurn DEF Sound
  <2>3. \A w \in ClientWs : AtClient(w, i)'
    BY <1>1, <1>5, ClientTurn DEF Sound
  <2>4. \A a \in AgentWs : AtAgent(a, i)'
    BY <1>1, <1>5, AgentTurn DEF Sound
  <2> QED
    BY <2>1, <2>2, <2>3, <2>4 DEF Sound
<1>6. PICK n \in 0 .. MaxId : Used(n)
  BY DEF Joint, Unused
<1>7. n \in Nat /\ n <= MaxId /\ MaxId \in Nat \ {0} /\ MaxConns \in Nat /\ MaxConns <= MaxId
      /\ n + Cardinality(Asking) <= directs + Cardinality(Made)
  BY <1>6, ServerAssumption, TunnelAssumption DEF Used
<1>8. ASSUME nextId' = nextId, \A i \in Ids : Calm(i) \/ Flows(i) \/ Strays(i) \/ Acks(i) \/ Ends(i)
      PROVE  Joint'
  <2>1. \A i \in Ids : Done(i)
    BY <1>8 DEF Done
  <2>2. \A i \in Ids : Fresh(i) => Fresh(i)'
    BY <1>1, <1>8, <2>1, FreshStill, FreshTurn
  <2>3. Cardinality(Asking') + directs + Cardinality(Made) <= Cardinality(Asking) + directs' + Cardinality(Made')
    BY <1>4
  <2>4. Cardinality(Made') \in Nat /\ directs' + Cardinality(Made') <= MaxConns
    BY <1>4
  <2>5. Unused'
    BY <1>8, <2>2, <2>3, <2>4, UnusedKept
  <2> QED
    BY <1>1, <1>2, <1>3, <1>5, <2>1, <2>5 DEF Joint
<1>9. ASSUME NEW j \in Ids, Opens(j), \A i \in Ids : i # j => Calm(i)
      PROVE  Joint'
  <2>1. Cardinality(Asking') + directs < Cardinality(Asking) + directs'
    BY <1>9
  <2>2. n < MaxId
    BY <1>4, <1>7, <2>1
  <2>3. j = n + 1 /\ nextId' = ((n + 1) % MaxId) + 1
    BY <1>6, <1>9, <2>2, OpeningNext DEF Opens
  <2>4. Fresh(j)
    BY <1>6, <1>7, <2>2, <2>3 DEF Used
  <2>5. \A i \in Ids : Done(i)
    BY <1>9, <2>4 DEF Done
  <2>6. ASSUME NEW i \in (n + 1) + 1 .. MaxId PROVE Fresh(i)'
    <3>1. i \in Ids /\ i # j /\ Fresh(i)
      BY <1>6, <1>7, <2>3 DEF Used, Ids
    <3>2. ~Opens(i)
      BY <1>9, <3>1, FreshStill
    <3> QED
      BY <1>1, <2>5, <3>1, <3>2, FreshTurn
  <2>7. n + 1 \in 0 .. MaxId /\ (n + 1) + Cardinality(Asking') <= directs' + Cardinality(Made')
    BY <1>4, <1>7, <2>1, <2>2
  <2>8. Used(n + 1)'
    BY <2>3, <2>6, <2>7 DEF Used
  <2>9. Unused'
    BY <1>4, <2>7, <2>8 DEF Unused
  <2> QED
    BY <1>1, <1>2, <1>3, <1>5, <2>5, <2>9 DEF Joint
<1> QED
  BY <1>8, <1>9 DEF Turn

(* A request that is taken is no longer under way. *)
LEMMA AskingTail ==
  ASSUME AgentTyped, IsFiniteSet(Asking), NEW a \in AgentWs, fromAgent[a] # <<>>, Pop(fromAgent, a)
  PROVE  /\ IsFiniteSet(Asking') /\ Cardinality(Asking') \in Nat /\ Cardinality(Asking) \in Nat
         /\ Cardinality(Asking') <= Cardinality(Asking)
         /\ Head(fromAgent[a]).type = "TCP_CONNECT" => Cardinality(Asking') < Cardinality(Asking)
<1> DEFINE S == Asking \ {<<a, 1>>}
           h == [x \in S |-> IF x[1] = a THEN <<a, x[2] - 1>> ELSE x]
<1>1. /\ fromAgent[a] \in Seq(AgentFrames)
      /\ fromAgent'[a] = Tail(fromAgent[a])
      /\ \A b \in AgentWs : b # a => fromAgent'[b] = fromAgent[b]
  BY DEF AgentTyped, Pop
<1>2. /\ Len(fromAgent[a]) \in Nat \ {0} /\ DOMAIN fromAgent[a] = 1 .. Len(fromAgent[a])
      /\ Head(fromAgent[a]) = fromAgent[a][1]
      /\ DOMAIN fromAgent'[a] = 1 .. Len(fromAgent[a]) - 1
      /\ \A k \in 1 .. Len(fromAgent[a]) - 1 : fromAgent'[a][k] = fromAgent[a][k + 1]
  BY <1>1
<1>3. ASSUME NEW x \in S PROVE h[x] \in Asking'
  <2>0. PICK b \in AgentWs : \E k \in DOMAIN fromAgent[b] : x = <<b, k>> /\ fromAgent[b][k].type = "TCP_CONNECT"
    BY <1>3, AskingIs
  <2>1. PICK k \in DOMAIN fromAgent[b] : x = <<b, k>> /\ fromAgent[b][k].type = "TCP_CONNECT"
    BY <2>0
  <2>2. CASE b = a
    <3>1. k \in 1 .. Len(fromAgent[a]) /\ k # 1
      BY <1>2, <1>3, <2>1, <2>2
    <3>2. k - 1 \in DOMAIN fromAgent'[a] /\ fromAgent'[a][k - 1] = fromAgent[a][k]
      BY <1>2, <3>1
    <3>3. h[x] = <<a, k - 1>>
      BY <1>3, <2>1, <2>2
    <3> HIDE DEF h
    <3> QED
      BY <2>1, <2>2, <3>2, <3>3 DEF Asking
  <2>3. CASE b # a
    <3>1. h[x] = <<b, k>>
      BY <1>3, <2>1, <2>3
    <3>2. k \in DOMAIN fromAgent'[b] /\ fromAgent'[b][k].type = "TCP_CONNECT"
      BY <1>1, <2>1, <2>3
    <3> HIDE DEF h
    <3> QED
      BY <3>1, <3>2 DEF Asking
  <2> QED
    BY <2>2, <2>3
<1>4. ASSUME NEW y \in Asking' PROVE \E x \in S : h[x] = y
  <2>0. PICK b \in AgentWs : \E k \in DOMAIN fromAgent'[b] : y = <<b, k>> /\ fromAgent'[b][k].type = "TCP_CONNECT"
    BY <1>4 DEF Asking
  <2>1. PICK k \in DOMAIN fromAgent'[b] : y = <<b, k>> /\ fromAgent'[b][k].type = "TCP_CONNECT"
    BY <2>0
  <2>2. CASE b = a
    <3>1. k \in 1 .. Len(fromAgent[a]) - 1 /\ k + 1 \in DOMAIN fromAgent[a] /\ k + 1 # 1 /\ (k + 1) - 1 = k
      BY <1>2, <2>1, <2>2
    <3>2. fromAgent[a][k + 1].type = "TCP_CONNECT"
      BY <1>2, <2>1, <2>2, <3>1
    <3>3. <<a, k + 1>> \in S
      BY <3>1, <3>2, AskingIs
    <3>4. h[<<a, k + 1>>] = <<a, k>>
      BY <3>1, <3>3
    <3> QED
      BY <2>1, <2>2, <3>3, <3>4
  <2>3. CASE b # a
    <3>1. <<b, k>> \in S
      BY <1>1, <2>1, <2>3, AskingIs
    <3>2. h[<<b, k>>] = <<b, k>>
      BY <2>3, <3>1
    <3> QED
      BY <2>1, <3>1, <3>2
  <2> QED
    BY <2>2, <2>3
<1>5. h \in Surjection(S, Asking')
  BY <1>3, <1>4 DEF Surjection
<1>6. /\ IsFiniteSet(S) /\ Cardinality(Asking) \in Nat
      /\ Cardinality(S) = IF <<a, 1>> \in Asking THEN Cardinality(Asking) - 1 ELSE Cardinality(Asking)
  BY FS_RemoveElement, FS_CardinalityType
<1>7. Head(fromAgent[a]).type = "TCP_CONNECT" => <<a, 1>> \in Asking
  BY <1>2, AskingIs
<1> HIDE DEF h, S
<1>8. IsFiniteSet(Asking') /\ Cardinality(Asking') <= Cardinality(S)
  BY <1>5, <1>6, FS_Surjection
<1>9. Cardinality(Asking') \in Nat /\ Cardinality(S) \in Nat
  BY <1>6, <1>8, FS_CardinalityType
<1> QED
  BY <1>6, <1>7, <1>8, <1>9

(* Ids are handed out only to direct connections and for TCP_CONNECT.       *)
Unborn == \A i \in Ids : Live(i)' => Live(i)

LEMMA FreedUnborn == ASSUME TypeOK, NEW S, Freed(S) PROVE Unborn
  BY DEF Freed, Unborn, Live, Free, TypeOK

LEMMA SameUnborn == ASSUME streams' = streams PROVE Unborn
  BY DEF Unborn, Live

LEMMA EndUnborn ==
  ASSUME TypeOK, NEW i, NEW toA, NEW toC, EndStream(i, toA, toC)
  PROVE  Unborn
  BY FreedUnborn DEF EndStream

LEMMA RelayUnborn == ASSUME TypeOK, NEW i, Relay(i) PROVE Unborn
  BY EndUnborn, SameUnborn DEF Relay, Abort, streamVars

LEMMA UnbornOpens == ASSUME Unborn, NEW j \in Ids PROVE ~Opens(j)
  BY DEF Unborn, Opens, Live, Allocates, LiveIds

LEMMA ClientFrameUnborn ==
  ASSUME TypeOK, NEW w \in ClientWs, NEW f, OnClientFrame(w, f)
  PROVE  Unborn
<1>1. CASE UNCHANGED vars
  BY <1>1, SameUnborn DEF vars, streamVars
<1>2. CASE ClientData(f.id)
  BY <1>2, SameUnborn DEF ClientData, streamVars
<1>3. CASE EndStream(f.id, <<CloseOf(f.id)>>, <<>>) \/ ClientAbort(f.id)
  BY <1>3, EndUnborn DEF ClientAbort
<1>4. CASE ClientOpenAck(f.id)
  <2>1. CASE streams' = [streams EXCEPT ![f.id].awaiting = FALSE]
    BY <2>1 DEF Unborn, Live, TypeOK
  <2> QED
    BY <1>1, <1>4, <2>1 DEF ClientOpenAck
<1>5. CASE ClientResume(f.id)
  BY <1>1, <1>5, RelayUnborn DEF ClientResume
<1>6. CASE ClientResAbort(f.id)
  BY <1>6 DEF ClientResAbort, Unborn, Live, Free, TypeOK
<1> QED
  BY <1>1, <1>2, <1>3, <1>4, <1>5, <1>6 DEF OnClientFrame

LEMMA AgentFrameUnborn ==
  ASSUME TypeOK, NEW a \in AgentWs, NEW f, OnAgentFrame(a, f), f.type # "TCP_CONNECT"
  PROVE  Unborn
<1>1. CASE UNCHANGED vars
  BY <1>1, SameUnborn DEF vars, streamVars
<1>2. CASE StreamNotFound(a, f)
  BY <1>2, SameUnborn DEF StreamNotFound, streamVars
<1>3. CASE AgentData(f.id)
  BY <1>1, <1>3, RelayUnborn, EndUnborn DEF AgentData
<1>4. CASE EndStream(f.id, <<>>, <<CloseOf(f.id)>>) \/ EndStream(f.id, <<>>, <<AbortOf(f.id)>>)
  BY <1>4, EndUnborn
<1> QED
  BY <1>1, <1>2, <1>3, <1>4 DEF OnAgentFrame

LEMMA EventUnborn ==
  ASSUME TypeOK, ServerMoves
  PROVE  Unborn
<1>1. ASSUME NEW i \in Ids, DirectData(i) \/ DirectClose(i) \/ DirectError(i) \/ IdleTimeout(i) PROVE Unborn
  BY <1>1, RelayUnborn, EndUnborn DEF DirectData, DirectClose, DirectError, IdleTimeout, Abort
<1>2. ASSUME NEW w \in ClientWs, ClientClosing(w) \/ ClientClosed(w) PROVE Unborn
  BY <1>2, SameUnborn, FreedUnborn DEF ClientClosing, ClientClosed, streamVars
<1>3. ASSUME NEW a \in AgentWs, AgentClosing(a) \/ AgentClosed(a) PROVE Unborn
  BY <1>3, SameUnborn, FreedUnborn DEF AgentClosing, AgentClosed, streamVars
<1>4. CASE Shutdown
  BY <1>4, FreedUnborn DEF Shutdown
<1> QED
  BY <1>1, <1>2, <1>3, <1>4 DEF ServerMoves

(* The server takes a frame of a client's. *)
LEMMA ServerHearsClientJoint ==
  ASSUME Typed, Joint, NEW w \in ClientWs, ServerHearsClient(w)
  PROVE  Joint'
<1>0. PICK f : f = Head(fromClient[w])
  OBVIOUS
<1>1. /\ fromClient[w] # <<>> /\ fromClient' = [fromClient EXCEPT ![w] = Tail(@)] /\ OnClientFrame(w, f)
      /\ UNCHANGED <<agentVars, fromAgent, clientVars, bounds>>
  BY <1>0 DEF ServerHearsClient, Pop
<1>2. /\ TypeOK /\ ClientTyped /\ fromClient[w] \in Seq(ClientFrames) /\ f \in ClientFrames
      /\ fromClient'[w] = Tail(fromClient[w]) /\ \A v \in ClientWs : v # w => fromClient'[v] = fromClient[v]
  BY <1>0, <1>1, TypedParts DEF ClientTyped
<1>3. f.id \in Ids
  BY <1>2 DEF ClientFrames, Msg, Frame
<1>4. PICK i \in Ids : i = f.id
  BY <1>3
<1>5. OthersKeep /\ directs' = directs /\ fromAgent' = fromAgent
  BY <1>1 DEF OthersKeep, agentVars, clientVars, bounds
<1>6. ASSUME NEW j
      PROVE  /\ Kinds(fromClient'[w], j) \subseteq Kinds(fromClient[w], j)
             /\ Kinds(fromClient[w], j) = Kinds(fromClient'[w], j) \cup (IF i = j THEN {f.type} ELSE {})
  BY <1>0, <1>1, <1>2, <1>4, KindsTail
<1>7. AtClient(w, i) /\ f.type \in Kinds(fromClient[w], i)
  BY <1>6 DEF Joint, Sound
<1>8. /\ f.type \in Endings => i \notin opened[w] /\ "TCP_OPEN" \notin Kinds(toClient[w], i)
      /\ f.type = "RES_ABORT" => i \in idled
  BY <1>7 DEF AtClient
<1>9. \A j \in Ids : streams[j].awaiting => IsAgent(j)
  BY DEF Joint, Sound, Owned
<1>10. /\ Turn
       /\ f.type \in Endings /\ streams[i].ws = w => ~Live(i)'
  BY <1>1, <1>2, <1>4, <1>7, <1>8, <1>9, ClientFrameTurn
<1>11. ASSUME NEW j \in Ids PROVE Hears(j)
  <2>1. \A v \in ClientWs : Kinds(fromClient'[v], j) \subseteq Kinds(fromClient[v], j)
    BY <1>2, <1>6
  <2> QED
    BY <1>5, <2>1 DEF Hears
<1>12. ASSUME NEW j \in Ids PROVE Obeys(j)
  <2> SUFFICES ASSUME NEW v \in ClientWs, Live(j)', streams'[j].ws = v, Kinds(fromClient[v], j) \cap Endings # {}
               PROVE  Kinds(fromClient'[v], j) \cap Endings # {}
    BY DEF Obeys
  <2>1. CASE v # w
    BY <1>2, <2>1
  <2>2. CASE v = w /\ j # i
    BY <1>6, <2>2
  <2>3. CASE v = w /\ j = i
    <3>1. CASE f.type \in Endings
      <4>1. streams[i].ws # w
        BY <1>10, <2>3, <3>1
      <4>2. UNCHANGED vars
        BY <1>1, <1>4, <4>1 DEF OnClientFrame
      <4> QED
        BY <2>3, <4>1, <4>2 DEF vars, streamVars
    <3>2. CASE f.type \notin Endings
      BY <1>6, <2>3, <3>2
    <3> QED
      BY <3>1, <3>2
  <2> QED
    BY <2>1, <2>2, <2>3
<1>13. \A j \in Ids : ~Opens(j)
  BY <1>1, <1>2, ClientFrameUnborn, UnbornOpens
<1>14. Asking' = Asking
  BY <1>5 DEF Asking
<1>15. directs + Cardinality(Made) <= MaxConns
  BY DEF Joint, Unused
<1> QED
  BY <1>5, <1>10, <1>11, <1>12, <1>13, <1>14, <1>15, Countings, ServerTurnJoint

(* The server takes a frame of an agent's. *)
LEMMA ServerHearsAgentJoint ==
  ASSUME Typed, Joint, NEW a \in AgentWs, ServerHearsAgent(a)
  PROVE  Joint'
<1>0. PICK f : f = Head(fromAgent[a])
  OBVIOUS
<1>1. /\ fromAgent[a] # <<>> /\ Pop(fromAgent, a) /\ fromAgent' = [fromAgent EXCEPT ![a] = Tail(@)]
      /\ OnAgentFrame(a, f)
      /\ UNCHANGED <<agentVars, clientVars, fromClient, bounds>>
  BY <1>0 DEF ServerHearsAgent, Pop
<1>2. /\ TypeOK /\ AgentTyped /\ fromAgent[a] \in Seq(AgentFrames) /\ f \in AgentFrames
      /\ fromAgent'[a] = Tail(fromAgent[a]) /\ \A b \in AgentWs : b # a => fromAgent'[b] = fromAgent[b]
  BY <1>0, <1>1, TypedParts DEF AgentTyped
<1>3. OthersKeep /\ directs' = directs /\ fromClient' = fromClient
  BY <1>1 DEF OthersKeep, agentVars, clientVars, bounds
<1>4. ASSUME NEW j
      PROVE  /\ Kinds(fromAgent'[a], j) \subseteq Kinds(fromAgent[a], j)
             /\ f.id = j => f.type \in Kinds(fromAgent[a], j)
  BY <1>0, <1>1, <1>2, KindsTail
<1>5. f.type \in Endings => f.id \in Ids
  BY <1>2 DEF AgentFrames, Endings, Msg, Frame
<1>6. ASSUME f.type \in Endings
      PROVE  streamed[f.id] = Agt!NoSock /\ \A b \in AgentWs : ~Acked(b, f.id)
  <2>1. Kinds(fromAgent[a], f.id) \cap Endings # {}
    BY <1>4, <1>6
  <2>2. \A b \in AgentWs : AtAgent(b, f.id)
    BY <1>5, <1>6 DEF Joint, Sound
  <2>3. streamed[f.id] = Agt!NoSock
    BY <2>1, <2>2 DEF AtAgent
  <2>4. ~Unheard(f.id)
    BY <2>1 DEF Unheard
  <2> QED
    BY <2>2, <2>3, <2>4 DEF AtAgent
<1>7. Turn
  BY <1>1, <1>2, <1>4, <1>6, AgentFrameTurn
<1>8. ASSUME NEW j \in Ids PROVE Hears(j)
  <2>1. \A b \in AgentWs : Kinds(fromAgent'[b], j) \subseteq Kinds(fromAgent[b], j)
    BY <1>2, <1>4
  <2> QED
    BY <1>3, <2>1 DEF Hears
<1>9. \A j \in Ids : Obeys(j)
  BY <1>3 DEF Obeys
<1>10. IsFiniteSet(Asking)
  BY Countings
<1>11. /\ IsFiniteSet(Asking') /\ Cardinality(Asking') \in Nat /\ Cardinality(Asking) \in Nat
       /\ Cardinality(Asking') <= Cardinality(Asking)
       /\ f.type = "TCP_CONNECT" => Cardinality(Asking') < Cardinality(Asking)
  BY <1>0, <1>1, <1>2, <1>10, AskingTail
<1>12. f.type # "TCP_CONNECT" => \A j \in Ids : ~Opens(j)
  BY <1>1, <1>2, AgentFrameUnborn, UnbornOpens
<1>13. directs + Cardinality(Made) <= MaxConns /\ directs \in Nat
  BY Countings DEF Joint, Unused
<1>14. \A j \in Ids : Opens(j) => Cardinality(Asking') + directs < Cardinality(Asking) + directs'
  BY <1>3, <1>11, <1>12, <1>13
<1>15. Cardinality(Asking') + directs <= Cardinality(Asking) + directs'
  BY <1>3, <1>11, <1>13
<1> QED
  BY <1>3, <1>7, <1>8, <1>9, <1>11, <1>13, <1>14, <1>15, ServerTurnJoint

(* An event of the server's own. *)
LEMMA ServerEventJoint ==
  ASSUME Typed, Joint, ServerOnly, idled' = idled,
         \/ directs' = directs /\ ServerMoves
         \/ directs' = directs + 1 /\ MayConnect /\ \E p \in Ports : DirectConnect(p)
  PROVE  Joint'
<1>1. OthersKeep /\ fromAgent' = fromAgent /\ fromClient' = fromClient
  BY DEF ServerOnly, OthersKeep, agentVars, clientVars
<1>2. TypeOK /\ \A i \in Ids : Owned(i)
  BY TypedParts DEF Joint, Sound
<1>3. Turn
  BY <1>2, EventTurn DEF Owned
<1>4. \A i \in Ids : Hears(i) /\ Obeys(i)
  BY <1>1 DEF Hears, Obeys
<1>5. Asking' = Asking
  BY <1>1 DEF Asking
<1>6. /\ IsFiniteSet(Asking) /\ Cardinality(Asking) \in Nat /\ Cardinality(Made) \in Nat /\ directs \in Nat
      /\ directs + Cardinality(Made) <= MaxConns /\ MaxConns \in Nat
  BY Countings, TunnelAssumption DEF Joint, Unused
<1>7. CASE directs' = directs /\ ServerMoves
  <2>1. \A j \in Ids : ~Opens(j)
    BY <1>2, <1>7, EventUnborn, UnbornOpens
  <2> QED
    BY <1>1, <1>3, <1>4, <1>5, <1>6, <1>7, <2>1, ServerTurnJoint
<1>8. CASE directs' = directs + 1 /\ MayConnect
  <2>1. directs + Cardinality(Made) < MaxConns
    BY <1>8 DEF MayConnect, Made
  <2>2. /\ directs' \in Nat /\ directs' + Cardinality(Made) <= MaxConns
        /\ Cardinality(Asking') + directs < Cardinality(Asking) + directs'
        /\ Cardinality(Asking') + directs <= Cardinality(Asking) + directs'
    BY <1>5, <1>6, <1>8, <2>1
  <2> QED
    BY <1>1, <1>3, <1>4, <1>5, <1>6, <2>2, ServerTurnJoint
<1> QED
  BY <1>7, <1>8

-----------------------------------------------------------------------------
(* Every step keeps the types.                                              *)
BoundsTyped == directs \in 0 .. MaxDirect /\ chunks \in 0 .. MaxData /\ idled \subseteq Ids

LEMMA TypedIf ==
  Typed <=> TypeOK /\ AgentTyped /\ ClientTyped /\ BoundsTyped
  BY DEF Typed, TunnelTypeOK, Sent, AgentTyped, ClientTyped, BoundsTyped

LEMMA SameServer ==
  ASSUME TypeOK, UNCHANGED <<serverVars, toClient, toAgent>>
  PROVE  TypeOK'
  BY DEF TypeOK, serverVars

LEMMA SameAgent ==
  ASSUME AgentTyped, UNCHANGED <<agentVars, fromAgent>>
  PROVE  AgentTyped'
  BY DEF AgentTyped, Agt!TypeOK, agentVars

LEMMA SameClient ==
  ASSUME ClientTyped, UNCHANGED <<clientVars, fromClient>>
  PROVE  ClientTyped'
  BY DEF ClientTyped, Cli!TypeOK, clientVars

(* One component moves, the others keep what they have. *)
LEMMA AgentAlone ==
  ASSUME Typed, AgentOnly, AgentMoves, BoundsTyped'
  PROVE  Typed'
<1>1. TypeOK /\ AgentTyped /\ ClientTyped
  BY TypedIf
<1>2. TypeOK' /\ ClientTyped'
  BY <1>1, SameServer, SameClient DEF AgentOnly
<1>3. AgentTyped'
  BY <1>1, AgentMovesType
<1> QED
  BY <1>2, <1>3 DEF Typed, TunnelTypeOK, Sent, AgentTyped, ClientTyped, BoundsTyped

LEMMA ClientAlone ==
  ASSUME Typed, ClientOnly, NEW w \in ClientWs, ClientMoves(w), BoundsTyped'
  PROVE  Typed'
<1>1. TypeOK /\ AgentTyped /\ ClientTyped
  BY TypedIf
<1>2. TypeOK' /\ AgentTyped'
  BY <1>1, SameServer, SameAgent DEF ClientOnly
<1>3. ClientTyped'
  BY <1>1, ClientMovesType
<1> QED
  BY <1>2, <1>3 DEF Typed, TunnelTypeOK, Sent, AgentTyped, ClientTyped, BoundsTyped

LEMMA ServerAlone ==
  ASSUME Typed, ServerOnly, ServerEvent, BoundsTyped'
  PROVE  Typed'
<1>1. TypeOK /\ AgentTyped /\ ClientTyped
  BY TypedIf
<1>2. AgentTyped' /\ ClientTyped'
  BY <1>1, SameAgent, SameClient DEF ServerOnly
<1>3. TypeOK'
  BY <1>1, ServerEventType
<1> QED
  BY <1>2, <1>3 DEF Typed, TunnelTypeOK, Sent, AgentTyped, ClientTyped, BoundsTyped

LEMMA BoundsStill ==
  ASSUME Typed, UNCHANGED bounds
  PROVE  BoundsTyped'
  BY TypedIf DEF bounds, BoundsTyped

LEMMA ChunkTyped ==
  ASSUME Typed, Chunk
  PROVE  BoundsTyped'
  BY TypedIf, TunnelAssumption DEF Chunk, BoundsTyped

(* A frame is taken from a channel and handled. *)
LEMMA ServerHearsAgentType ==
  ASSUME Typed, NEW a \in AgentWs, ServerHearsAgent(a)
  PROVE  Typed'
<1>1. TypeOK /\ AgentTyped /\ ClientTyped /\ fromAgent[a] # <<>>
  BY TypedIf DEF ServerHearsAgent
<1>2. fromAgent' = [fromAgent EXCEPT ![a] = Tail(@)]
  BY DEF ServerHearsAgent, Pop
<1>3. fromAgent' \in [AgentWs -> Seq(AgentFrames)] /\ Head(fromAgent[a]) \in AgentFrames
  BY <1>1, <1>2, PopType DEF AgentTyped
<1>4. fromAgent' \in [AgentWs -> Seq(Agt!FrameSet)]
  BY <1>1, <1>2, PopType DEF AgentTyped, Agt!TypeOK
<1>5. AgentTyped'
  BY <1>1, <1>3, <1>4 DEF ServerHearsAgent, AgentTyped, Agt!TypeOK, agentVars
<1>6. ClientTyped'
  BY <1>1, SameClient DEF ServerHearsAgent
<1>7. TypeOK'
  BY <1>1, <1>3, AgentFrameType DEF ServerHearsAgent
<1>8. BoundsTyped'
  BY BoundsStill DEF ServerHearsAgent
<1> QED
  BY <1>5, <1>6, <1>7, <1>8 DEF Typed, TunnelTypeOK, Sent, AgentTyped, ClientTyped, BoundsTyped

LEMMA ServerHearsClientType ==
  ASSUME Typed, NEW w \in ClientWs, ServerHearsClient(w)
  PROVE  Typed'
<1>1. TypeOK /\ AgentTyped /\ ClientTyped /\ fromClient[w] # <<>>
  BY TypedIf DEF ServerHearsClient
<1>2. fromClient' = [fromClient EXCEPT ![w] = Tail(@)]
  BY DEF ServerHearsClient, Pop
<1>3. fromClient' \in [ClientWs -> Seq(ClientFrames)] /\ Head(fromClient[w]) \in ClientFrames
  BY <1>1, <1>2, PopType DEF ClientTyped
<1>4. fromClient' \in [ClientWs -> Seq(Cli!FrameSet)]
  BY <1>1, <1>2, PopType DEF ClientTyped, Cli!TypeOK
<1>5. ClientTyped'
  BY <1>1, <1>3, <1>4 DEF ServerHearsClient, ClientTyped, Cli!TypeOK, clientVars
<1>6. AgentTyped'
  BY <1>1, SameAgent DEF ServerHearsClient
<1>7. TypeOK'
  BY <1>1, <1>3, ClientFrameType DEF ServerHearsClient
<1>8. BoundsTyped'
  BY BoundsStill DEF ServerHearsClient
<1> QED
  BY <1>5, <1>6, <1>7, <1>8 DEF Typed, TunnelTypeOK, Sent, AgentTyped, ClientTyped, BoundsTyped

LEMMA AgentHearsType ==
  ASSUME Typed, NEW a \in AgentWs, AgentHears(a)
  PROVE  Typed'
<1>1. TypeOK /\ AgentTyped /\ ClientTyped /\ toAgent[a] # <<>>
  BY TypedIf DEF AgentHears
<1>2. toAgent' \in [AgentWs -> Seq(FrameSet)]
  <2>1. toAgent' = [toAgent EXCEPT ![a] = Tail(@)] /\ toAgent \in [AgentWs -> Seq(FrameSet)]
    BY <1>1 DEF AgentHears, Pop, TypeOK
  <2> QED
    BY <1>1, <2>1, PopType
<1>3. TypeOK'
  BY <1>1, <1>2 DEF AgentHears, TypeOK, serverVars
<1>4. AgentTyped'
  BY <1>1, AgentOnFrameType DEF AgentHears
<1>5. ClientTyped'
  BY <1>1, SameClient DEF AgentHears
<1>6. BoundsTyped'
  BY BoundsStill DEF AgentHears
<1> QED
  BY <1>3, <1>4, <1>5, <1>6 DEF Typed, TunnelTypeOK, Sent, AgentTyped, ClientTyped, BoundsTyped

LEMMA ClientHearsType ==
  ASSUME Typed, NoZero, NEW w \in ClientWs, ClientHears(w)
  PROVE  Typed'
<1>0. PICK f : f = Head(toClient[w])
  OBVIOUS
<1>1. TypeOK /\ AgentTyped /\ ClientTyped /\ toClient[w] # <<>> /\ toClient[w] \in Seq(FrameSet)
  BY TypedIf DEF ClientHears, TypeOK
<1>2. toClient' \in [ClientWs -> Seq(FrameSet)] /\ f \in FrameSet
  <2>1. toClient' = [toClient EXCEPT ![w] = Tail(@)] /\ toClient \in [ClientWs -> Seq(FrameSet)]
    BY <1>1 DEF ClientHears, Pop, TypeOK
  <2> QED
    BY <1>0, <1>1, <2>1, PopType
<1>3. TypeOK'
  BY <1>1, <1>2 DEF ClientHears, TypeOK, serverVars
<1>4. f.id \in Ids
  <2>1. f.id \in Ids \cup {0}
    BY <1>2 DEF FrameSet
  <2>2. f.id = 0 => f.type \in Kinds(toClient[w], 0)
    BY <1>0, <1>1, KindsTail
  <2> QED
    BY <2>1, <2>2 DEF NoZero
<1>5. ClientTyped'
  BY <1>0, <1>1, <1>2, <1>4, ClientOnFrameType DEF ClientHears
<1>6. AgentTyped'
  BY <1>1, SameAgent DEF ClientHears
<1>7. BoundsTyped'
  BY BoundsStill DEF ClientHears
<1> QED
  BY <1>3, <1>5, <1>6, <1>7 DEF Typed, TunnelTypeOK, Sent, AgentTyped, ClientTyped, BoundsTyped

(* A connection opens, at both ends. *)
LEMMA AgentConnectsType ==
  ASSUME Typed, NEW a \in AgentWs, AgentConnects(a)
  PROVE  Typed'
<1>1. TypeOK /\ AgentTyped /\ ClientTyped
  BY TypedIf
<1>2. AgentTyped'
  BY <1>1, AgentMovesType DEF AgentConnects, AgentMoves
<1>3. TypeOK'
  BY <1>1, ServerEventType DEF AgentConnects, ServerEvent
<1>4. ClientTyped' /\ BoundsTyped'
  BY <1>1, SameClient, BoundsStill DEF AgentConnects
<1> QED
  BY <1>2, <1>3, <1>4 DEF Typed, TunnelTypeOK, Sent, AgentTyped, ClientTyped, BoundsTyped

LEMMA ClientConnectsType ==
  ASSUME Typed, NEW w \in ClientWs, ClientConnects(w)
  PROVE  Typed'
<1>1. TypeOK /\ AgentTyped /\ ClientTyped
  BY TypedIf
<1>2. ClientTyped'
  BY <1>1, ClientMovesType DEF ClientConnects, ClientMoves
<1>3. TypeOK'
  BY <1>1, ServerEventType DEF ClientConnects, ServerEvent
<1>4. AgentTyped' /\ BoundsTyped'
  BY <1>1, SameAgent, BoundsStill DEF ClientConnects
<1> QED
  BY <1>2, <1>3, <1>4 DEF Typed, TunnelTypeOK, Sent, AgentTyped, ClientTyped, BoundsTyped

-----------------------------------------------------------------------------
(* The steps, one by one.                                                   *)
Kept == Typed' /\ Joint'

LEMMA AgentStepKeeps ==
  ASSUME AgentOnly, UNCHANGED <<directs, idled>>
  PROVE  AgentKeeps /\ toAgent' = toAgent
  BY DEF AgentOnly, AgentKeeps

LEMMA ClientStepKeeps ==
  ASSUME ClientOnly, UNCHANGED directs
  PROVE  ServerKeeps /\ toClient' = toClient
  BY DEF ClientOnly, ServerKeeps

(* The application's. *)
LEMMA AppStep ==
  ASSUME IInvTunnel, AppConnects \/ AppLeaves \/ AppSends \/ \E s \in Socks : AppClosed(s)
  PROVE  Kept
<1>1. Typed /\ Joint
  BY DEF IInvTunnel
<1>2. CASE AppConnects
  <2>1. PICK s \in Socks : Agt!AppConnect(s)
    BY <1>2 DEF AppConnects
  <2>2. AgentKeeps /\ toAgent' = toAgent /\ BoundsTyped'
    BY <1>1, <1>2, AgentStepKeeps, BoundsStill DEF AppConnects, AgentStep, bounds
  <2>3. directs + Cardinality(Made) < MaxConns
    BY <1>2 DEF AppConnects, MayConnect, Made
  <2>4. Typed'
    BY <1>1, <1>2, <2>1, <2>2, AgentAlone DEF AppConnects, AgentStep, AgentMoves
  <2>5. Joint'
    BY <1>1, <2>1, <2>2, <2>3, AppConnectJoint
  <2> QED
    BY <2>4, <2>5 DEF Kept
<1>3. ASSUME NEW s \in Socks, Agt!AppEnds(s) \/ Agt!AppFails(s) \/ Agt!AppClosed(s) \/ Agt!AppData(s),
             AgentOnly, UNCHANGED <<directs, idled>>, BoundsTyped'
      PROVE  Kept
  <2>1. AgentKeeps /\ toAgent' = toAgent
    BY <1>3, AgentStepKeeps
  <2>2. Typed'
    BY <1>1, <1>3, AgentAlone DEF AgentMoves
  <2>3. Joint'
    BY <1>1, <1>3, <2>1, AppMoveJoint
  <2> QED
    BY <2>2, <2>3 DEF Kept
<1>4. CASE AppLeaves
  BY <1>1, <1>3, <1>4, BoundsStill DEF AppLeaves, AgentStep, bounds
<1>5. CASE AppSends
  BY <1>1, <1>3, <1>5, ChunkTyped DEF AppSends, Chunk
<1>6. ASSUME NEW s \in Socks, AppClosed(s) PROVE Kept
  BY <1>1, <1>3, <1>6, BoundsStill DEF AppClosed, AgentStep, bounds
<1> QED
  BY <1>2, <1>4, <1>5, <1>6

(* The local service's. *)
LEMMA LocalStep ==
  ASSUME IInvTunnel,
         \/ LocalFails \/ LocalCloses \/ LocalSends \/ ClientIdle
         \/ \E w \in ClientWs, i \in Ids : LocalConnects(w, i)
  PROVE  Kept
<1>1. Typed /\ Joint
  BY DEF IInvTunnel
<1>2. ASSUME NEW w \in ClientWs, NEW i \in Ids, LocalMove(w, i), ClientOnly, UNCHANGED directs, BoundsTyped'
      PROVE  Kept
  <2>1. ServerKeeps /\ toClient' = toClient
    BY <1>2, ClientStepKeeps
  <2>2. Typed'
    BY <1>1, <1>2, ClientAlone DEF ClientMoves, LocalMove
  <2>3. Joint'
    BY <1>1, <1>2, <2>1, LocalMoveJoint
  <2> QED
    BY <2>2, <2>3 DEF Kept
<1>3. CASE LocalFails
  BY <1>1, <1>2, <1>3, BoundsStill DEF LocalFails, ClientStep, bounds, LocalMove
<1>4. CASE LocalCloses
  BY <1>1, <1>2, <1>4, BoundsStill DEF LocalCloses, ClientStep, bounds, LocalMove
<1>5. CASE LocalSends
  BY <1>1, <1>2, <1>5, ChunkTyped DEF LocalSends, Chunk, LocalMove
<1>6. CASE ClientIdle
  <2>1. PICK w \in ClientWs, i \in Ids : Cli!IdleTimeout(w, i) /\ idled' = idled \cup {i}
    BY <1>6 DEF ClientIdle
  <2>2. BoundsTyped'
    BY <1>1, <1>6, <2>1, TypedIf DEF ClientIdle, BoundsTyped
  <2> QED
    BY <1>2, <1>6, <2>1, <2>2 DEF ClientIdle, LocalMove
<1>7. ASSUME NEW w \in ClientWs, NEW i \in Ids, LocalConnects(w, i) PROVE Kept
  BY <1>1, <1>2, <1>7, BoundsStill DEF LocalConnects, ClientStep, bounds, LocalMove
<1> QED
  BY <1>3, <1>4, <1>5, <1>6, <1>7

(* Those of the server's own sockets and timers. *)
LEMMA ServerStepKept ==
  ASSUME IInvTunnel, ServerStep, ServerMoves
  PROVE  Kept
<1>1. Typed /\ Joint
  BY DEF IInvTunnel
<1>2. Typed'
  BY <1>1, ServerAlone, BoundsStill DEF ServerStep, ServerMoves, ServerEvent
<1>3. Joint'
  BY <1>1, ServerEventJoint DEF ServerStep, bounds
<1> QED
  BY <1>2, <1>3 DEF Kept

LEMMA DirectStep ==
  ASSUME IInvTunnel, DirectConnects \/ DirectSends \/ DirectLeaves \/ ServerIdle \/ ServerStops
  PROVE  Kept
<1>1. Typed /\ Joint
  BY DEF IInvTunnel
<1>2. CASE DirectConnects
  <2>1. /\ ServerOnly /\ idled' = idled /\ directs' = directs + 1 /\ chunks' = chunks
        /\ MayConnect /\ directs < MaxDirect /\ \E p \in Ports : DirectConnect(p)
    BY <1>2 DEF DirectConnects
  <2>2. BoundsTyped'
    BY <1>1, <2>1, TypedIf, TunnelAssumption DEF BoundsTyped
  <2>3. Typed'
    BY <1>1, <2>1, <2>2, ServerAlone DEF ServerEvent
  <2>4. Joint'
    BY <1>1, <2>1, ServerEventJoint
  <2> QED
    BY <2>3, <2>4 DEF Kept
<1>3. CASE DirectSends
  <2>1. ServerOnly /\ Chunk /\ ServerMoves
    BY <1>3 DEF DirectSends, ServerMoves
  <2>2. Typed'
    BY <1>1, <2>1, ServerAlone, ChunkTyped DEF ServerMoves, ServerEvent
  <2>3. Joint'
    BY <1>1, <2>1, ServerEventJoint DEF Chunk
  <2> QED
    BY <2>2, <2>3 DEF Kept
<1>4. CASE DirectLeaves
  BY <1>4, ServerStepKept DEF DirectLeaves, ServerMoves
<1>5. CASE ServerIdle
  BY <1>5, ServerStepKept DEF ServerIdle, ServerMoves
<1>6. CASE ServerStops
  BY <1>6, ServerStepKept DEF ServerStops, ServerMoves
<1> QED
  BY <1>2, <1>3, <1>4, <1>5, <1>6

(* Those of a session of the agent. *)
LEMMA AgentSessionStep ==
  ASSUME IInvTunnel, NEW a \in AgentWs,
         \/ AgentConnects(a) \/ ServerHearsAgent(a) \/ AgentHears(a)
         \/ AgentLinkBreaks(a) \/ AgentLinkEnds(a)
  PROVE  Kept
<1>1. Typed /\ Joint
  BY DEF IInvTunnel
<1>2. CASE AgentConnects(a)
  BY <1>1, <1>2, AgentConnectsType, AgentConnectsJoint DEF Kept
<1>3. CASE ServerHearsAgent(a)
  BY <1>1, <1>3, ServerHearsAgentType, ServerHearsAgentJoint DEF Kept
<1>4. CASE AgentHears(a)
  BY <1>1, <1>4, AgentHearsType, AgentHearsJoint DEF Kept
<1>5. ASSUME AgentStep, Agt!LinkBreaks(a) \/ Agt!LinkCloses(a) PROVE Kept
  <2>1. AgentKeeps /\ toAgent' = toAgent
    BY <1>5, AgentStepKeeps DEF AgentStep, bounds
  <2>2. Typed'
    BY <1>1, <1>5, AgentAlone, BoundsStill DEF AgentStep, AgentMoves
  <2>3. Joint'
    BY <1>1, <1>5, <2>1, AgentLinkJoint
  <2> QED
    BY <2>2, <2>3 DEF Kept
<1>6. ASSUME ServerStep, AgentClosing(a) \/ AgentClosed(a) PROVE Kept
  BY <1>6, ServerStepKept DEF ServerMoves
<1> QED
  BY <1>2, <1>3, <1>4, <1>5, <1>6 DEF AgentLinkBreaks, AgentLinkEnds

(* And of a client. *)
LEMMA ClientSessionStep ==
  ASSUME IInvTunnel, NEW w \in ClientWs,
         \/ ClientConnects(w) \/ ServerHearsClient(w) \/ ClientHears(w)
         \/ ClientLinkBreaks(w) \/ ClientLinkEnds(w)
  PROVE  Kept
<1>1. Typed /\ Joint /\ NoZero
  BY DEF IInvTunnel, Joint
<1>2. CASE ClientConnects(w)
  BY <1>1, <1>2, ClientConnectsType, ClientConnectsJoint DEF Kept
<1>3. CASE ServerHearsClient(w)
  BY <1>1, <1>3, ServerHearsClientType, ServerHearsClientJoint DEF Kept
<1>4. CASE ClientHears(w)
  BY <1>1, <1>4, ClientHearsType, ClientHearsJoint DEF Kept
<1>5. ASSUME ClientStep, Cli!LinkBreaks(w) \/ Cli!LinkCloses(w) PROVE Kept
  <2>1. ServerKeeps /\ toClient' = toClient /\ idled' = idled
    BY <1>5, ClientStepKeeps DEF ClientStep, bounds
  <2>2. Typed'
    BY <1>1, <1>5, ClientAlone, BoundsStill DEF ClientStep, ClientMoves
  <2>3. Joint'
    BY <1>1, <1>5, <2>1, ClientLinkJoint
  <2> QED
    BY <2>2, <2>3 DEF Kept
<1>6. ASSUME ServerStep, ClientClosing(w) \/ ClientClosed(w) PROVE Kept
  BY <1>6, ServerStepKept DEF ServerMoves
<1> QED
  BY <1>2, <1>3, <1>4, <1>5, <1>6 DEF ClientLinkBreaks, ClientLinkEnds

(* Every step of the tunnel keeps the invariant. *)
LEMMA TunnelStep ==
  ASSUME IInvTunnel, [TunnelNext]_tunnelVars
  PROVE  IInvTunnel'
<1>1. CASE TunnelNext
  <2>1. Kept
    BY <1>1, AppStep, LocalStep, DirectStep, AgentSessionStep, ClientSessionStep DEF TunnelNext
  <2> QED
    BY <2>1 DEF Kept, IInvTunnel
<1>2. CASE UNCHANGED tunnelVars
  <2>1. Typed'
    BY <1>2, TypedIf, SameServer, SameAgent, SameClient
       DEF IInvTunnel, tunnelVars, bounds, BoundsTyped, Typed, TunnelTypeOK, Sent, AgentTyped, ClientTyped
  <2>2. /\ ServerKeeps /\ UNCHANGED <<toClient, opened, local, clientLinks, fromClient, idled>>
    BY <1>2 DEF tunnelVars, ServerKeeps, clientVars, bounds
  <2>3. ASSUME NEW v \in ClientWs, NEW j \in Ids PROVE AtClient(v, j)'
    BY <2>2, SameAtClient DEF IInvTunnel, Joint, Sound, SameAt, ServerKeeps, serverVars
  <2>4. ASSUME NEW j \in Ids, Fresh(j) PROVE Fresh(j)'
    BY <2>2, <2>4 DEF Fresh, ServerKeeps, serverVars, agentVars
  <2>5. Joint'
    BY <2>2, <2>3, <2>4, ClientJoint DEF IInvTunnel, Joint, NoZero, Blank
  <2> QED
    BY <2>1, <2>5 DEF IInvTunnel
<1> QED
  BY <1>1, <1>2

-----------------------------------------------------------------------------
(* The invariant holds of the beginning: every id is fresh.                 *)
LEMMA TunnelBegins == TunnelInit => IInvTunnel
<1> SUFFICES ASSUME TunnelInit PROVE IInvTunnel
  OBVIOUS
<1>1. /\ streams = [i \in Ids |-> Free] /\ nextId = 1
      /\ clients = [w \in ClientWs |-> "absent"] /\ agents = [a \in AgentWs |-> "absent"]
      /\ agentStreams = [a \in AgentWs |-> {}]
      /\ toClient = [w \in ClientWs |-> <<>>] /\ toAgent = [a \in AgentWs |-> <<>>]
  BY DEF TunnelInit, Init
<1>2. /\ sock = [s \in Socks |-> "new"] /\ pending = <<>> /\ streamed = [i \in Ids |-> Agt!NoSock]
      /\ agentLinks = [a \in AgentWs |-> "unused"] /\ fromAgent = [a \in AgentWs |-> <<>>]
  BY SameNames DEF TunnelInit, Agt!Init
<1>3. /\ opened = [w \in ClientWs |-> {}] /\ local = [w \in ClientWs |-> [i \in Ids |-> "none"]]
      /\ clientLinks = [w \in ClientWs |-> "unused"] /\ fromClient = [w \in ClientWs |-> <<>>]
  BY SameNames DEF TunnelInit, Cli!Init
<1>4. directs = 0 /\ chunks = 0 /\ idled = {}
  BY DEF TunnelInit
<1>5. \A S : <<>> \in Seq(S)
  OBVIOUS
<1>6. TypeOK
  <2>1. Free \in Stream
    BY DEF Free, Stream
  <2>2. 1 \in Ids
    BY ServerAssumption DEF Ids
  <2>3. streams \in [Ids -> Stream] /\ nextId \in Ids
    BY <1>1, <2>1, <2>2
  <2>4. toClient \in [ClientWs -> Seq(FrameSet)] /\ toAgent \in [AgentWs -> Seq(FrameSet)]
    BY <1>1, <1>5
  <2> QED
    BY <2>3, <2>4 DEF TunnelInit, Init, TypeOK, WsState
<1>7. AgentTyped
  <2>1. pending \in Seq(Socks) /\ streamed \in [Agt!Ids -> Socks \cup {Agt!NoSock}]
    BY <1>2, <1>5, SameNames
  <2>2. /\ fromAgent \in [AgentWs -> Seq(AgentFrames)]
        /\ fromAgent \in [AgentWs -> Seq(Agt!FrameSet)]
    BY <1>2, <1>5
  <2> QED
    BY <1>2, <2>1, <2>2 DEF AgentTyped, Agt!TypeOK, Agt!SockState, Agt!LinkState
<1>8. ClientTyped
  <2>1. local \in [ClientWs -> [Cli!Ids -> Cli!LocalState]] /\ opened \in [ClientWs -> SUBSET Cli!Ids]
    BY <1>3, SameNames DEF Cli!LocalState
  <2>2. /\ fromClient \in [ClientWs -> Seq(ClientFrames)]
        /\ fromClient \in [ClientWs -> Seq(Cli!FrameSet)]
    BY <1>3, <1>5
  <2> QED
    BY <1>3, <2>1, <2>2 DEF ClientTyped, Cli!TypeOK, Cli!LinkState
<1>9. Typed
  BY <1>4, <1>6, <1>7, <1>8, TypedIf, TunnelAssumption DEF BoundsTyped
<1>10. \A i : /\ \A w \in ClientWs : Kinds(toClient[w], i) = {} /\ Kinds(fromClient[w], i) = {}
              /\ \A a \in AgentWs : Kinds(toAgent[a], i) = {} /\ Kinds(fromAgent[a], i) = {}
  BY <1>1, <1>2, <1>3, KindsNone
<1>11. \A i : /\ \A w \in ClientWs : Leads(toClient[w], "TCP_OPEN", i)
              /\ \A a \in AgentWs : Leads(toAgent[a], "TCP_CONNECT_ACK", i)
  BY <1>1, LeadsNone
<1>12. NoZero /\ Blank
  BY <1>1, <1>3, <1>10 DEF NoZero, Blank
<1>13. Apart
  <2>1. DOMAIN pending = {}
    BY <1>2
  <2>2. \A a \in AgentWs : ~Session(a)
    BY <1>2 DEF Session
  <2> QED
    BY <1>2, <2>1, <2>2 DEF Apart
<1>14. ASSUME NEW i \in Ids PROVE Fresh(i) /\ Sound(i)
  <2>1. ~Live(i) /\ ~IsAgent(i) /\ ~streams[i].awaiting /\ streams[i] = Free
    BY <1>1, <1>14 DEF Live, IsAgent, Free
  <2>2. Fresh(i)
    BY <1>1, <1>2, <1>3, <1>4, <1>10, <1>14, <2>1 DEF Fresh
  <2>3. Owned(i) /\ Confirmed(i)
    BY <1>1, <2>1 DEF Owned, Confirmed
  <2>4. ASSUME NEW w \in ClientWs PROVE AtClient(w, i)
    BY <1>10, <1>11, <2>1, <2>2 DEF AtClient, Fresh
  <2>5. ASSUME NEW a \in AgentWs PROVE AtAgent(a, i)
    BY <1>10, <1>11, <2>1, <2>2 DEF AtAgent, Fresh, Acked
  <2> QED
    BY <2>2, <2>3, <2>4, <2>5 DEF Sound
<1>15. Unused
  <2>1. Asking = {} /\ Made = {}
    BY <1>2 DEF Asking, Made
  <2>2. Cardinality({}) = 0 /\ IsFiniteSet({})
    BY FS_EmptySet
  <2>3. \A i \in 1 .. MaxId : Fresh(i)
    BY <1>14 DEF Ids
  <2>4. 0 % MaxId = 0 /\ 0 \in 0 .. MaxId
    BY ServerAssumption, ModBelow
  <2>5. Used(0)
    BY <1>1, <1>4, <2>1, <2>2, <2>3, <2>4 DEF Used
  <2> QED
    BY <1>4, <2>1, <2>2, <2>4, <2>5, TunnelAssumption DEF Unused
<1> QED
  BY <1>9, <1>12, <1>13, <1>14, <1>15 DEF IInvTunnel, Joint

LEMMA TunnelInvariant == TunnelSpec => []IInvTunnel
<1>1. IInvTunnel /\ [TunnelNext]_tunnelVars => IInvTunnel'
  BY TunnelStep
<1> QED
  BY <1>1, TunnelBegins, PTL DEF TunnelSpec

-----------------------------------------------------------------------------
(* What follows from it.                                                    *)

(* The state of all three programs and of the channels between them keeps   *)
(* its types, whatever breaks and in whatever order frames are received.    *)
THEOREM TunnelTypes == TunnelSpec => []TunnelTypeOK
<1>1. IInvTunnel => TunnelTypeOK
  BY DEF IInvTunnel, Typed
<1> QED
  BY <1>1, TunnelInvariant, PTL

LEMMA FoundIs ==
  ASSUME NEW q, NEW X, NEW i
  PROVE  Found(q, X, i) # {} <=> Kinds(q, i) \cap X # {}
  BY DEF Found, Kinds

LEMMA EndingIs ==
  ASSUME NEW q, NEW i
  PROVE  Ending(q, i) <=> Kinds(q, i) \cap Endings # {}
  BY FoundIs DEF Ending, Endings

(* However the streams of a client end, none of its sockets to the local    *)
(* service is left behind, except by the idle timer.                        *)
THEOREM LocalSocketsKept == TunnelSpec => []LocalSocketsOwned
<1>1. IInvTunnel => LocalSocketsOwned
  BY DEF IInvTunnel, Joint, Sound, AtClient, LocalSocketsOwned
<1> QED
  BY <1>1, TunnelInvariant, PTL

(* The server's table and the clients' maps never part, however many frames *)
(* are under way: what one end has and the other has not is explained by a  *)
(* frame between them or by a session that is over.                         *)
THEOREM TablesAgree == TunnelSpec => []EndsAgree
<1>1. IInvTunnel => EndsAgree
  <2> SUFFICES ASSUME IInvTunnel PROVE EndsAgree
    OBVIOUS
  <2>1. ClientTyped
    BY TypedParts DEF IInvTunnel
  <2>2. ASSUME NEW w \in ClientWs, NEW i \in opened[w]
        PROVE  \/ i \in LiveIds /\ streams[i].ws = w
               \/ Ending(toClient[w], i)
               \/ clients[w] # "open"
    <3>1. i \in Ids
      BY <2>1, <2>2, SameNames DEF ClientTyped, Cli!TypeOK
    <3>2. AtClient(w, i)
      BY <3>1 DEF IInvTunnel, Joint, Sound
    <3> QED
      BY <2>2, <3>1, <3>2, EndingIs DEF AtClient, LiveIds, Live
  <2>3. ASSUME NEW i \in LiveIds, NEW w, w = streams[i].ws
        PROVE  \/ i \in opened[w]
               \/ Found(toClient[w], {"TCP_OPEN"}, i) # {}
               \/ Ending(fromClient[w], i)
               \/ clientLinks[w] # "open"
    <3>1. i \in Ids /\ Live(i)
      BY <2>3 DEF LiveIds, Live
    <3>2. w \in ClientWs
      BY <2>3, <3>1 DEF IInvTunnel, Joint, Sound, Owned
    <3>3. AtClient(w, i)
      BY <3>1, <3>2 DEF IInvTunnel, Joint, Sound
    <3> QED
      BY <2>3, <3>1, <3>3, EndingIs, FoundIs DEF AtClient
  <2> QED
    BY <2>2, <2>3 DEF EndsAgree
<1> QED
  BY <1>1, TunnelInvariant, PTL

(* A chunk that the server relays on an agent's stream finds the local      *)
(* socket connected: TCP_DATA is held back until TCP_OPEN_ACK.              *)
THEOREM DataAfterOpen == TunnelSpec => []NoDataBeforeOpen
<1>1. IInvTunnel => NoDataBeforeOpen
  <2> SUFFICES ASSUME IInvTunnel, NEW i \in Ids, IsAgent(i), NEW w, w = streams[i].ws,
                      NEW k \in Found(toClient[w], {"TCP_DATA"}, i)
               PROVE  /\ i \in opened[w] => local[w][i] = "connected"
                      /\ \A j \in Found(toClient[w], {"TCP_OPEN"}, i) : k < j
    BY DEF NoDataBeforeOpen, AfterAck
  <2>1. Live(i) /\ w \in ClientWs
    BY DEF IInvTunnel, Joint, Sound, Owned, IsAgent, Live
  <2>2. AtClient(w, i)
    BY <2>1 DEF IInvTunnel, Joint, Sound
  <2>3. "TCP_DATA" \in Kinds(toClient[w], i)
    BY FoundIs
  <2>4. ~streams[i].awaiting
    BY <2>1, <2>2, <2>3 DEF AtClient
  <2>5. "TCP_OPEN" \notin Kinds(toClient[w], i) /\ (i \in opened[w] => local[w][i] = "connected")
    BY <2>1, <2>2, <2>4 DEF AtClient
  <2>6. Found(toClient[w], {"TCP_OPEN"}, i) = {}
    BY <2>5, FoundIs
  <2> QED
    BY <2>5, <2>6
<1> QED
  BY <1>1, TunnelInvariant, PTL

(* No bridged connection of the application is left behind when its stream  *)
(* ends at the server, in whatever order the ends learn of it; but for the  *)
(* client's idle timer.                                                     *)
THEOREM NobodyStranded == TunnelSpec => []AgentNotStranded
<1>1. IInvTunnel => AgentNotStranded
  BY EndingIs DEF IInvTunnel, Joint, Sound, AtAgent, AgentNotStranded
<1> QED
  BY <1>1, TunnelInvariant, PTL

(* A connection waits or is bridged to one stream, of its own session and   *)
(* port, which its client has confirmed.                                    *)
THEOREM BridgesHold == TunnelSpec => []BridgesRight
<1>1. IInvTunnel => BridgesRight
  <2> SUFFICES ASSUME IInvTunnel PROVE BridgesRight
    OBVIOUS
  <2>1. Apart /\ \A i \in Ids : Sound(i)
    BY DEF IInvTunnel, Joint
  <2>2. IsInjective(pending)
    BY <2>1 DEF Apart, IsInjective
  <2>3. ASSUME NEW s \in Agt!Bridged
        PROVE  s \notin Agt!Waiting /\ Cardinality(Agt!StreamsOf(s)) = 1
    <3>1. PICK i \in Ids : streamed[i] = s /\ s # Agt!NoSock
      BY <2>3, SameNames DEF Agt!Bridged
    <3>2. s \notin Agt!Waiting
      BY <2>1, <3>1, SameNames DEF Apart, Agt!Waiting, ToSet
    <3>3. Agt!StreamsOf(s) = {i}
      BY <2>1, <3>1, SameNames DEF Apart, Agt!StreamsOf
    <3> QED
      BY <3>2, <3>3, FS_Singleton
  <2>4. ASSUME NEW i \in Ids, streamed[i] # Agt!NoSock, IsAgent(i) PROVE Bridge(i)
    <3>1. Sound(i) /\ Live(i)
      BY <2>1, <2>4 DEF IsAgent, Live
    <3>2. streams[i].ws \in ClientWs
      BY <3>1 DEF Sound, Owned
    <3>3. /\ Session(streams[i].agent) /\ streams[i].port = SockPort[streamed[i]]
          /\ ~streams[i].awaiting
      BY <2>4, <3>1 DEF Sound, Confirmed, Unheard
    <3>4. PICK w \in ClientWs : w = streams[i].ws
      BY <3>2
    <3>5. AtClient(w, i)
      BY <3>1 DEF Sound
    <3>6. local[w][i] = "connected" \/ Ending(fromClient[w], i) \/ clientLinks[w] # "open"
      BY <2>4, <3>1, <3>3, <3>4, <3>5, EndingIs DEF AtClient
    <3> QED
      BY <3>3, <3>4, <3>6 DEF Bridge
  <2> QED
    BY <2>2, <2>3, <2>4 DEF BridgesRight
<1> QED
  BY <1>1, TunnelInvariant, PTL
=============================================================================

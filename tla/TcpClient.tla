----------------------------- MODULE TcpClient -----------------------------
(***************************************************************************)
(* The TCP side of the tunnel client: createTcpClientHandler               *)
(* (src/tcp/TcpClientHandler.js) and the stream map and idle timers of     *)
(* serve/client.js around it.  A client has one WebSocket at a time, and   *)
(* its streams map is emptied when that closes, so a session w in ClientWs *)
(* stands for a client process for as long as that connection lasts.       *)
(*                                                                         *)
(* The local service is the environment: a connection attempt succeeds,    *)
(* fails or times out, and a connection may send, end or break at any      *)
(* time.  PAUSE, RESUME and buffering are left out.                        *)
(***************************************************************************)
EXTENDS Frames, FiniteSets

CONSTANTS
  ClientWs,      \* sessions of tunnel clients
  HostAllowed,   \* whether TCP_TUNNEL_HOST is in TCP_CLIENT_ALLOWED_HOSTS
  MaxLocal       \* the client's MAX_CONCURRENT_STREAMS

VARIABLES
  opened,        \* the keys of each client's streams map
  local,         \* the socket to the local service, for each client and id
  clientLinks,   \* readyState of each session at the client's end
  fromClient     \* frames sent on each session, not yet received

clientVars == <<opened, local, clientLinks, fromClient>>

LinkState  == {"unused", "open", "closing", "closed"}
LocalState == {"none", "connecting", "connected"}

Init ==
  /\ opened = [w \in ClientWs |-> {}]
  /\ local = [w \in ClientWs |-> [i \in Ids |-> "none"]]
  /\ clientLinks = [w \in ClientWs |-> "unused"]
  /\ fromClient = [w \in ClientWs |-> <<>>]

Sends(w, f) == fromClient' = Post(fromClient, clientLinks, w, f)

Forgets(w, i)  == opened' = [opened EXCEPT ![w] = @ \ {i}]
SetLocal(w, i, l) == local' = [local EXCEPT ![w][i] = l]

(* cleanupTcpState: the stream is forgotten and its socket destroyed.       *)
Cleanup(w, i) == Forgets(w, i) /\ SetLocal(w, i, "none")

-----------------------------------------------------------------------------
(* Frames from the server.                                                  *)

TcpOpen(w, i) ==
  \/ /\ ~HostAllowed \/ Cardinality(opened[w]) >= MaxLocal
     /\ Sends(w, Msg("TCP_ABORT", i))
     /\ UNCHANGED <<opened, local, clientLinks>>
  \/ /\ HostAllowed /\ Cardinality(opened[w]) < MaxLocal
     /\ opened' = [opened EXCEPT ![w] = @ \cup {i}]
     /\ SetLocal(w, i, "connecting")
     /\ UNCHANGED <<clientLinks, fromClient>>

OnFrame(w, f) ==
  IF f.type = "TCP_OPEN" THEN TcpOpen(w, f.id)
  ELSE IF f.id \in opened[w] /\ f.type \in {"TCP_CLOSE", "TCP_ABORT"}
  THEN Cleanup(w, f.id) /\ UNCHANGED <<clientLinks, fromClient>>
  ELSE UNCHANGED clientVars    \* unknown stream; or data, written to the socket

-----------------------------------------------------------------------------
(* The local service.  The handlers of a stream that was forgotten but      *)
(* whose socket lives on only let the socket go; 'connect' still confirms.  *)

LocalConnects(w, i) ==
  /\ local[w][i] = "connecting"
  /\ SetLocal(w, i, "connected")
  /\ Sends(w, Msg("TCP_OPEN_ACK", i))
  /\ UNCHANGED <<opened, clientLinks>>

LocalGone(w, i, type) ==
  /\ IF i \in opened[w] THEN Sends(w, Msg(type, i)) ELSE UNCHANGED fromClient
  /\ Cleanup(w, i)
  /\ UNCHANGED clientLinks

LocalFails(w, i)  == local[w][i] # "none" /\ LocalGone(w, i, "TCP_ABORT")
LocalCloses(w, i) == local[w][i] = "connected" /\ LocalGone(w, i, "TCP_CLOSE")

LocalData(w, i) ==
  /\ local[w][i] = "connected" /\ i \in opened[w]
  /\ IF clientLinks[w] = "open"
     THEN Sends(w, Msg("TCP_DATA", i)) /\ UNCHANGED <<opened, local>>
     ELSE Cleanup(w, i) /\ UNCHANGED fromClient
  /\ UNCHANGED clientLinks

(* The idle timer: sendResAbort and the HTTP cleanupStream, which knows     *)
(* nothing of localSocket.                                                  *)
IdleTimeout(w, i) ==
  /\ i \in opened[w]
  /\ Sends(w, Msg("RES_ABORT", i))
  /\ Forgets(w, i)
  /\ UNCHANGED <<local, clientLinks>>

-----------------------------------------------------------------------------
(* The session.                                                             *)

LinkOpens(w) ==
  /\ clientLinks[w] = "unused"
  /\ clientLinks' = [clientLinks EXCEPT ![w] = "open"]
  /\ UNCHANGED <<opened, local, fromClient>>

LinkBreaks(w) ==
  /\ clientLinks[w] = "open"
  /\ clientLinks' = [clientLinks EXCEPT ![w] = "closing"]
  /\ UNCHANGED <<opened, local, fromClient>>

LinkClosesMapOnly(w) ==   \* mutant: the streams are forgotten, their sockets live on
  /\ clientLinks[w] = "closing"
  /\ clientLinks' = [clientLinks EXCEPT ![w] = "closed"]
  /\ opened' = [opened EXCEPT ![w] = {}]
  /\ UNCHANGED <<local, fromClient>>

LinkCloses(w) ==   \* cleanupAllStreams
  /\ clientLinks[w] = "closing"
  /\ clientLinks' = [clientLinks EXCEPT ![w] = "closed"]
  /\ opened' = [opened EXCEPT ![w] = {}]
  /\ local' = [local EXCEPT ![w] = [i \in Ids |-> IF i \in opened[w] THEN "none" ELSE @[i]]]
  /\ UNCHANGED fromClient

-----------------------------------------------------------------------------
TypeOK ==
  /\ opened \in [ClientWs -> SUBSET Ids]
  /\ local \in [ClientWs -> [Ids -> LocalState]]
  /\ clientLinks \in [ClientWs -> LinkState]
  /\ fromClient \in [ClientWs -> Seq(FrameSet)]
=============================================================================

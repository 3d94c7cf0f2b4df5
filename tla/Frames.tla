------------------------------- MODULE Frames -------------------------------
(***************************************************************************)
(* The binary frames of the tunnel protocol (src/shared/protocol.js) and   *)
(* what sending one does.  A frame is version, type, 32-bit stream id and  *)
(* payload; of the payloads only the port of TCP_OPEN, TCP_CONNECT,        *)
(* TCP_CONNECT_ACK and (sometimes) TCP_ABORT matters to any reader, so a   *)
(* frame is its type, its stream id and that port.                         *)
(***************************************************************************)
EXTENDS Naturals, Sequences

CONSTANTS
  Ports,   \* the TCP ports a stream can be for
  MaxId    \* the greatest stream id, 0xffffffff in the code

NoPort == "none"     \* the payload names no port

Ids == 1 .. MaxId

TcpTypes ==
  {"TCP_OPEN", "TCP_OPEN_ACK", "TCP_DATA", "TCP_CLOSE", "TCP_ABORT",
   "TCP_CONNECT", "TCP_CONNECT_ACK", "RES_ABORT", "RESUME"}

FrameSet == [type : TcpTypes, id : Ids \cup {0}, port : Ports \cup {NoPort}]

Frame(t, i, p) == [type |-> t, id |-> i, port |-> p]
Msg(t, i)      == Frame(t, i, NoPort)

(***************************************************************************)
(* sendFrame / sendJsonFrame: a frame is queued on the WebSocket when its  *)
(* readyState is OPEN and silently dropped otherwise.  q maps each         *)
(* WebSocket to the frames on their way, st to its readyState.             *)
(***************************************************************************)
PostAll(q, st, w, fs) == IF st[w] = "open" THEN [q EXCEPT ![w] = @ \o fs] ELSE q
Post(q, st, w, f)     == PostAll(q, st, w, <<f>>)
=============================================================================

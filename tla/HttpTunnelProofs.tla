-------------------------- MODULE HttpTunnelProofs --------------------------
(***************************************************************************)
(* Proofs about HttpTunnel for any number of requests, any lengths of      *)
(* bodies and responses and any limits: the buffer of a response is        *)
(* bounded, either end learns of a stream's end at the other, a response   *)
(* held back is let go, and one that ends whole is whole.                  *)
(***************************************************************************)
EXTENDS HttpTunnel, FiniteSetTheorems, FunctionTheorems, SequenceTheorems, TLAPS

-----------------------------------------------------------------------------
(* Types, and the buffer of a response.                                     *)

Fits == \A r \in Requests : res[r] <= MaxDest + 1

ServerTyped ==
  /\ srv \in [Requests -> {"new", "open", "closed"}]
  /\ outcome \in [Requests -> Outcome]
  /\ requestEnded \in [Requests -> BOOLEAN] /\ responseStarted \in [Requests -> BOOLEAN]
  /\ responseEnded \in [Requests -> BOOLEAN] /\ responsePaused \in [Requests -> BOOLEAN]
  /\ body \in [Requests -> Nat] /\ res \in [Requests -> Nat] /\ got \in [Requests -> Nat]

ClientTyped ==
  /\ cli \in [Requests -> {"none", "requesting", "responding", "closed"}]
  /\ asked \in [Requests -> BOOLEAN] /\ peerPaused \in [Requests -> BOOLEAN]
  /\ produced \in [Requests -> Nat]

LinksTyped ==
  /\ serverWs \in WsState /\ clientWs \in WsState
  /\ toClient \in Seq(HttpFrame) /\ toServer \in Seq(HttpFrame)

Typed == ServerTyped /\ ClientTyped /\ LinksTyped

(* Frames by their type. *)
LEMMA FrameForm ==
  /\ \A t \in FrameTypes, r \in Requests : Msg(t, r) \in HttpFrame
  /\ \A f \in HttpFrame : f.type \in FrameTypes /\ f.id \in Requests /\ f = Msg(f.type, f.id)
  /\ \A t, u, r, s : Msg(t, r) = Msg(u, s) <=> t = u /\ r = s
<1>1. \A t, u, r, s : Msg(t, r) = Msg(u, s) <=> t = u /\ r = s
  <2> TAKE t, u, r, s
  <2>1. Msg(t, r).type = t /\ Msg(t, r).id = r /\ Msg(u, s).type = u /\ Msg(u, s).id = s
    BY DEF Msg
  <2> QED
    BY <2>1
<1> QED
  BY <1>1 DEF Msg, HttpFrame

(* What sendFrame leaves in the channel: the frame, or nothing new on a     *)
(* WebSocket that is not OPEN.                                              *)
LEMMA Posts ==
  ASSUME LinksTyped, NEW f \in HttpFrame
  PROVE  /\ ToClient(<<f>>) => toClient' = IF serverWs = "open" THEN Append(toClient, f) ELSE toClient
         /\ ToServer(<<f>>) => toServer' = IF clientWs = "open" THEN Append(toServer, f) ELSE toServer
         /\ ToClient(<<>>) => toClient' = toClient
<1>1. \A q \in Seq(HttpFrame) : q \o <<f>> = Append(q, f) /\ q \o <<>> = q
  OBVIOUS
<1> QED
  BY <1>1 DEF ToClient, ToServer, LinksTyped

LEMMA PostsType ==
  ASSUME LinksTyped, NEW r \in Requests, NEW t \in FrameTypes
  PROVE  /\ ToClient(<<Msg(t, r)>>) => toClient' \in Seq(HttpFrame)
         /\ ToServer(<<Msg(t, r)>>) => toServer' \in Seq(HttpFrame)
         /\ ToClient(<<>>) => toClient' \in Seq(HttpFrame)
<1> DEFINE f == Msg(t, r)
<1>1. f \in HttpFrame
  BY FrameForm
<1> HIDE DEF f
<1>2. \A q \in Seq(HttpFrame) : Append(q, f) \in Seq(HttpFrame)
  BY <1>1
<1>3. toClient \in Seq(HttpFrame) /\ toServer \in Seq(HttpFrame)
  BY DEF LinksTyped
<1>4. /\ ToClient(<<f>>) => toClient' \in Seq(HttpFrame)
      /\ ToServer(<<f>>) => toServer' \in Seq(HttpFrame)
      /\ ToClient(<<>>) => toClient' \in Seq(HttpFrame)
  BY <1>1, <1>2, <1>3, Posts
<1> QED
  BY <1>4 DEF f

(* The end of a stream at the server. *)
LEMMA CloseType ==
  ASSUME ServerTyped, Fits, NEW r \in Requests, NEW o \in Outcome, Close(r, o)
  PROVE  ServerTyped' /\ Fits'
<1>1. Kept(r, o) \in Nat /\ Kept(r, o) <= MaxDest + 1
  BY HttpAssumption DEF Kept, Fits, ServerTyped
<1>2. res' = [res EXCEPT ![r] = Kept(r, o)]
  BY DEF Close, Set
<1> HIDE DEF Kept
<1>3. Fits' /\ res' \in [Requests -> Nat]
  BY <1>1, <1>2 DEF Fits, ServerTyped
<1> QED
  BY <1>3 DEF Close, Set, ServerTyped, requestVars

LEMMA AbortedType ==
  ASSUME ServerTyped, NEW r \in Requests
  PROVE  /\ AbortedOutcome(r) \in Outcome
         /\ (IF outcome[r] = "left" THEN "left" ELSE AbortedOutcome(r)) \in Outcome
  BY DEF AbortedOutcome, Left, ServerTyped, Outcome

LEMMA AbortType ==
  ASSUME ServerTyped, Fits, LinksTyped, NEW r \in Requests, NEW n \in BOOLEAN, Abort(r, n)
  PROVE  ServerTyped' /\ Fits' /\ toClient' \in Seq(HttpFrame)
<1>1. "REQ_ABORT" \in FrameTypes
  BY DEF FrameTypes
<1>2. toClient' \in Seq(HttpFrame)
  BY <1>1, PostsType DEF Abort
<1> QED
  BY <1>2, AbortedType, CloseType DEF Abort

(* The actions of the server that concern one request. *)
LEMMA ServerStepType ==
  ASSUME Typed, Fits, NEW r \in Requests,
         \/ UserRequests(r) \/ BodyChunk(r) \/ BodyEnds(r) \/ RequestStalls(r) \/ UserReads(r)
         \/ ResponseFinishes(r) \/ UserLeaves(r) \/ ServerIdle(r)
  PROVE  Typed' /\ Fits'
<1>1. UNCHANGED <<clientVars, links, toServer>>
  BY DEF UserRequests, BodyChunk, BodyEnds, RequestStalls, UserReads, ResponseFinishes,
         UserLeaves, ServerIdle, ServerOnly
<1>2. SUFFICES ServerTyped' /\ Fits' /\ toClient' \in Seq(HttpFrame)
  BY <1>1 DEF Typed, ClientTyped, LinksTyped, clientVars, links
<1>3. /\ ServerTyped /\ LinksTyped /\ toClient \in Seq(HttpFrame)
      /\ {"REQ_META", "REQ_DATA", "REQ_END", "REQ_ABORT", "RESUME"} \subseteq FrameTypes
      /\ {"left", "whole"} \subseteq Outcome
  BY DEF Typed, LinksTyped, FrameTypes, Outcome
<1>4. CASE UserRequests(r)
  <2>1. toClient' \in Seq(HttpFrame)
    BY <1>3, <1>4, PostsType DEF UserRequests
  <2>2. ServerTyped' /\ Fits'
    BY <1>3, <1>4 DEF UserRequests, ServerTyped, Fits, Set, Outcome, requestVars, responseVars
  <2> QED
    BY <2>1, <2>2
<1>5. CASE \E n \in BOOLEAN : Abort(r, n)
  BY <1>3, <1>5, AbortType
<1>6. CASE BodyChunk(r) /\ serverWs = "open"
  <2>1. toClient' \in Seq(HttpFrame)
    BY <1>3, <1>6, PostsType DEF BodyChunk
  <2>2. body' \in [Requests -> Nat]
    <3>1. body \in [Requests -> Nat] /\ body[r] > 0 /\ body' = [body EXCEPT ![r] = body[r] - 1]
      BY <1>3, <1>6 DEF BodyChunk, HasMore, ServerTyped, Set
    <3>2. body[r] - 1 \in Nat
      BY <3>1
    <3> QED
      BY <3>1, <3>2
  <2>3. UNCHANGED <<srv, requestEnded, responseVars, userVars>>
    BY <1>6 DEF BodyChunk
  <2> QED
    BY <1>3, <2>1, <2>2, <2>3 DEF ServerTyped, Fits, responseVars, userVars
<1>7. CASE BodyEnds(r)
  <2>1. toClient' \in Seq(HttpFrame)
    BY <1>3, <1>7, PostsType DEF BodyEnds
  <2> QED
    BY <1>3, <1>7, <2>1 DEF BodyEnds, ServerTyped, Fits, Set, responseVars, userVars
<1>8. CASE UserReads(r)
  <2>1. toClient' \in Seq(HttpFrame)
    BY <1>3, <1>8, PostsType DEF UserReads
  <2>2. res' \in [Requests -> Nat] /\ got' \in [Requests -> Nat] /\ Fits'
    BY <1>3, <1>8, HttpAssumption DEF UserReads, ServerTyped, Fits, Set
  <2> QED
    BY <1>3, <1>8, <2>1, <2>2 DEF UserReads, ServerTyped, Set, requestVars
<1>9. CASE ResponseFinishes(r)
  BY <1>3, <1>9, CloseType DEF ResponseFinishes
<1>10. CASE UserLeaves(r)
  <2>1. CASE Close(r, "left") /\ ToClient(<<Msg("REQ_ABORT", r)>>)
    BY <1>3, <2>1, CloseType, PostsType
  <2>2. CASE /\ outcome' = Set(outcome, r, "left") /\ res' = Set(res, r, 0)
             /\ UNCHANGED <<srv, requestVars, responseStarted, responseEnded, responsePaused,
                            got, toClient>>
    BY <1>3, <2>2, HttpAssumption DEF ServerTyped, Fits, Set, requestVars
  <2> QED
    BY <1>10, <2>1, <2>2 DEF UserLeaves
<1> QED
  BY <1>4, <1>5, <1>6, <1>7, <1>8, <1>9, <1>10 DEF BodyChunk, RequestStalls, ServerIdle

(* A frame from the client.  Only a buffer that is not above its limit      *)
(* takes another chunk.                                                     *)
LEMMA ServerHearsType ==
  ASSUME Typed, Fits, ServerHears
  PROVE  Typed' /\ Fits'
<1> DEFINE f == Head(toServer) r == f.id
<1>1. f \in HttpFrame /\ r \in Requests /\ toServer' \in Seq(HttpFrame)
  BY FrameForm DEF ServerHears, Typed, LinksTyped
<1>2. UNCHANGED <<clientVars, links>> /\ OnClientFrame(f)
  BY DEF ServerHears
<1> HIDE DEF f
<1>3. SUFFICES ServerTyped' /\ Fits' /\ toClient' \in Seq(HttpFrame)
  BY <1>1, <1>2 DEF Typed, ClientTyped, LinksTyped, clientVars, links
<1>4. /\ ServerTyped /\ LinksTyped /\ toClient \in Seq(HttpFrame) /\ "PAUSE" \in FrameTypes
  BY DEF Typed, LinksTyped, FrameTypes
<1>5. CASE UNCHANGED <<serverVars, toClient>>
  BY <1>4, <1>5 DEF ServerTyped, Fits, serverVars, requestVars, responseVars, userVars
<1>6. CASE \E n \in BOOLEAN : Abort(r, n)
  BY <1>1, <1>4, <1>6, AbortType
<1>7. CASE ResMeta(r) /\ UNCHANGED toClient /\ responseStarted' = Set(responseStarted, r, TRUE)
               /\ outcome' = Set(outcome, r, "started")
               /\ UNCHANGED <<srv, requestVars, responseEnded, responsePaused, res, got>>
  BY <1>1, <1>4, <1>7 DEF ServerTyped, Fits, Set, Outcome, requestVars
<1>8. CASE /\ ~TooMuch(r) /\ res' = Set(res, r, res[r] + 1)
           /\ IF res'[r] >= ResMark /\ ~responsePaused[r]
              THEN responsePaused' = Set(responsePaused, r, TRUE) /\ ToClient(<<Msg("PAUSE", r)>>)
              ELSE UNCHANGED <<responsePaused, toClient>>
           /\ UNCHANGED <<srv, requestVars, responseStarted, responseEnded, userVars>>
  <2>1. toClient' \in Seq(HttpFrame)
    BY <1>1, <1>4, <1>8, PostsType
  <2>2. res' \in [Requests -> Nat] /\ Fits'
    <3>1. res \in [Requests -> Nat] /\ res' = [res EXCEPT ![r] = res[r] + 1]
      BY <1>4, <1>8 DEF ServerTyped, Set
    <3>2. res[r] \in Nat /\ res[r] <= MaxDest /\ MaxDest \in Nat
      BY <1>1, <1>8, <3>1, HttpAssumption DEF TooMuch
    <3>3. res[r] + 1 \in Nat /\ res[r] + 1 <= MaxDest + 1
      BY <3>2
    <3> QED
      BY <1>1, <3>1, <3>3 DEF Fits
  <2>3. responsePaused' \in [Requests -> BOOLEAN]
    BY <1>1, <1>4, <1>8 DEF ServerTyped, Set
  <2> QED
    BY <1>4, <1>8, <2>1, <2>2, <2>3 DEF ServerTyped, requestVars, userVars
<1>9. CASE /\ responseEnded' = Set(responseEnded, r, TRUE)
           /\ outcome' = IF responseEnded[r] THEN outcome ELSE Set(outcome, r, "ending")
           /\ UNCHANGED <<srv, requestVars, responseStarted, responsePaused, res, got, toClient>>
  BY <1>1, <1>4, <1>9 DEF ServerTyped, Fits, Set, Outcome, requestVars
<1>10. CASE ResAbort(r)
  <2> DEFINE o == IF ~responseStarted[r] THEN "error"
                  ELSE IF ~responseEnded[r] THEN Left(r, "short") ELSE Left(r, outcome[r])
  <2>1. o \in Outcome
    BY <1>1, <1>4 DEF Left, ServerTyped, Outcome
  <2>2. Close(r, o) /\ UNCHANGED toClient
    BY <1>10 DEF ResAbort
  <2> HIDE DEF o
  <2> QED
    BY <1>1, <1>4, <2>1, <2>2, CloseType
<1> QED
  BY <1>2, <1>5, <1>6, <1>7, <1>8, <1>9, <1>10 DEF OnClientFrame, ResMeta, ResData, ResEnd

(* The actions of the client. *)
LEMMA ClientStepType ==
  ASSUME Typed, NEW r \in Requests,
         LocalResponds(r) \/ LocalData(r) \/ LocalEnds(r) \/ LocalFails(r) \/ ClientIdle(r)
  PROVE  Typed' /\ UNCHANGED <<serverVars, links, toClient>>
<1>1. UNCHANGED <<serverVars, links, toClient>>
  BY DEF LocalResponds, LocalData, LocalEnds, LocalFails, ClientIdle, ClientOnly
<1>2. /\ ClientTyped /\ LinksTyped
      /\ {"RES_META", "RES_DATA", "RES_END", "RES_ABORT"} \subseteq FrameTypes
  BY DEF Typed, FrameTypes
<1>3. toServer' \in Seq(HttpFrame)
  <2>1. \E t \in {"RES_META", "RES_DATA", "RES_END", "RES_ABORT"} : ToServer(<<Msg(t, r)>>)
    BY DEF LocalResponds, LocalData, LocalEnds, LocalFails, ClientIdle, SendResAbort
  <2> QED
    BY <1>2, <2>1, PostsType
<1>4. ClientTyped'
  <2>1. produced[r] + 1 \in Nat
    BY <1>2 DEF ClientTyped
  <2> QED
    BY <1>2, <2>1 DEF LocalResponds, LocalData, LocalEnds, LocalFails, ClientIdle, SendResAbort,
                      Forget, Set, ClientTyped
<1> QED
  BY <1>1, <1>3, <1>4 DEF Typed, ServerTyped, LinksTyped, serverVars, requestVars, responseVars,
                          userVars, links

LEMMA ClientHearsType ==
  ASSUME Typed, ClientHears
  PROVE  Typed' /\ UNCHANGED <<serverVars, links>>
<1> DEFINE f == Head(toClient) r == f.id
<1>1. f \in HttpFrame /\ r \in Requests /\ toClient' \in Seq(HttpFrame)
  BY FrameForm DEF ClientHears, Typed, LinksTyped
<1>2. UNCHANGED <<serverVars, links>> /\ OnServerFrame(f)
  BY DEF ClientHears
<1> HIDE DEF f
<1>3. ClientTyped /\ LinksTyped /\ toServer \in Seq(HttpFrame) /\ "RES_ABORT" \in FrameTypes
  BY DEF Typed, LinksTyped, FrameTypes
<1>4. toServer' \in Seq(HttpFrame)
  <2>1. toServer' = toServer \/ ToServer(<<Msg("RES_ABORT", r)>>)
    BY <1>2 DEF OnServerFrame, ReqMeta, Request, ReqData, SendResAbort, ReqEnd, PeerPaused
  <2> QED
    BY <1>1, <1>3, <2>1, PostsType
<1>5. ClientTyped'
  <2>1. CASE Request(r)
    BY <1>1, <1>3, <2>1 DEF Request, ClientTyped, Set
  <2>2. CASE UNCHANGED clientVars
    BY <1>3, <2>2 DEF clientVars, ClientTyped
  <2>3. CASE ReqData(r) \/ ReqEnd(r)
    BY <1>1, <1>3, <2>3 DEF ReqData, ReqEnd, SendResAbort, Forget, ClientTyped, Set, clientVars
  <2>4. CASE Forget(r) /\ UNCHANGED <<asked, produced, toServer>>
    BY <1>1, <1>3, <2>4 DEF Forget, ClientTyped, Set
  <2>5. ASSUME NEW p \in BOOLEAN, PeerPaused(r, p) PROVE ClientTyped'
    BY <1>1, <1>3, <2>5 DEF PeerPaused, ClientTyped, Set
  <2> QED
    BY <1>2, <2>1, <2>2, <2>3, <2>4, <2>5 DEF OnServerFrame, ReqMeta
<1> QED
  BY <1>1, <1>2, <1>4, <1>5 DEF Typed, ServerTyped, LinksTyped, serverVars, requestVars,
                                responseVars, userVars, links

(* The session's own events. *)
LEMMA SessionType ==
  ASSUME Typed, Fits, ServerLeaves \/ ServerClosed \/ ClientLeaves \/ ClientClosed
  PROVE  Typed' /\ Fits'
<1>1. CASE ServerLeaves \/ ClientLeaves
  BY <1>1 DEF ServerLeaves, ClientLeaves, Typed, Fits, ServerTyped, ClientTyped, LinksTyped, WsState,
              serverVars, clientVars, requestVars, responseVars, userVars
<1>2. CASE ServerClosed
  <2>1. outcome' \in [Requests -> Outcome]
    BY <1>2, AbortedType DEF ServerClosed, Typed, ServerTyped
  <2>2. \A r \in Requests : res'[r] \in Nat /\ (res'[r] = 0 \/ res'[r] = res[r])
    BY <1>2 DEF ServerClosed, Kept, Typed, ServerTyped
  <2>3. res' \in [Requests -> Nat] /\ Fits'
    BY <1>2, <2>2, HttpAssumption DEF ServerClosed, Fits, Typed, ServerTyped
  <2>4. srv' \in [Requests -> {"new", "open", "closed"}] /\ responsePaused' \in [Requests -> BOOLEAN]
    BY <1>2 DEF ServerClosed, Typed, ServerTyped
  <2> QED
    BY <1>2, <2>1, <2>3, <2>4 DEF ServerClosed, Typed, ServerTyped, ClientTyped, LinksTyped, WsState,
                                  clientVars, requestVars
<1>3. CASE ClientClosed
  BY <1>3 DEF ClientClosed, Typed, Fits, ServerTyped, ClientTyped, LinksTyped, WsState, serverVars,
              requestVars, responseVars, userVars
<1> QED
  BY <1>1, <1>2, <1>3

LEMMA InitTyped == Init => Typed /\ Fits
<1>1. <<>> \in Seq(HttpFrame)
  OBVIOUS
<1>2. [Requests -> BodyLens] \subseteq [Requests -> Nat]
  BY HttpAssumption
<1>3. Init => body \in [Requests -> Nat]
  BY <1>2 DEF Init
<1> QED
  BY <1>1, <1>3, HttpAssumption DEF Init, Typed, ServerTyped, ClientTyped, LinksTyped, Fits, Outcome, WsState

LEMMA NextTyped ==
  ASSUME Typed, Fits, [Next]_vars
  PROVE  Typed' /\ Fits'
<1>1. CASE UNCHANGED vars
  BY <1>1 DEF vars, serverVars, clientVars, requestVars, responseVars, userVars, links,
              Typed, Fits, ServerTyped, ClientTyped, LinksTyped
<1>2. ASSUME Typed', UNCHANGED serverVars PROVE Typed' /\ Fits'
  BY <1>2 DEF Fits, serverVars, responseVars
<1> QED
  BY <1>1, <1>2, ServerStepType, ServerHearsType, ClientStepType, ClientHearsType, SessionType DEF Next

(* The types of both ends and of what is under way between them.            *)
THEOREM HttpTypeCorrect == Spec => []TypeOK
<1>1. Typed => TypeOK
  BY DEF Typed, ServerTyped, ClientTyped, LinksTyped, TypeOK
<1> QED
  BY <1>1, InitTyped, NextTyped, PTL DEF Spec

(* The response's buffer at the server never holds more than one chunk      *)
(* above MAX_DEST_BUFFER_BYTES (StreamManager.handleClientFrame, RES_DATA), *)
(* whatever the client sends and however slowly the user reads.             *)
THEOREM BufferBounded == Spec => []ResponseBounded
<1>1. Fits => ResponseBounded
  BY DEF Fits, ResponseBounded
<1> QED
  BY <1>1, InitTyped, NextTyped, PTL DEF Spec
-----------------------------------------------------------------------------
(* What is under way for a request.                                         *)

Has(q, t, r) == \E k \in DOMAIN q : q[k] = Msg(t, r)

(* No frame of r is before one of type t. *)
First(q, t, r) == \A j, k \in DOMAIN q : q[j] = Msg(t, r) /\ q[k].id = r => j <= k

(* RES_DATA and RES_END have RES_META before them. *)
Headed(q, r) ==
  \A k \in DOMAIN q : q[k] = Msg("RES_DATA", r) \/ q[k] = Msg("RES_END", r) =>
    \E j \in DOMAIN q : j < k /\ q[j] = Msg("RES_META", r)

(* No frame of r is behind one of type t. *)
Final(q, t, r) == \A j, k \in DOMAIN q : q[j] = Msg(t, r) /\ q[k].id = r => k <= j

(* Every PAUSE is followed by RESUME. *)
LetGo(q, r) ==
  \A k \in DOMAIN q : q[k] = Msg("PAUSE", r) => \E j \in DOMAIN q : j > k /\ q[j] = Msg("RESUME", r)

Positions(q, r) == {k \in DOMAIN q : q[k] = Msg("RES_DATA", r)}
Number(q, r)    == Cardinality(Positions(q, r))

Silent(q, r) == \A t \in FrameTypes : ~Has(q, t, r)


(* What holds of the frames of r before a step holds after it. *)
Same(q, p, r) ==
  /\ \A t : Has(p, t, r) <=> Has(q, t, r)
  /\ \A t : First(q, t, r) => First(p, t, r)
  /\ Headed(q, r) => Headed(p, r)
  /\ \A t : Final(q, t, r) => Final(p, t, r)
  /\ LetGo(q, r) => LetGo(p, r)
  /\ Number(p, r) = Number(q, r)

LEMMA NumberType ==
  ASSUME NEW q \in Seq(HttpFrame), NEW r
  PROVE  /\ IsFiniteSet(Positions(q, r)) /\ Number(q, r) \in Nat
         /\ Number(q, r) = 0 <=> ~Has(q, "RES_DATA", r)
<1>1. IsFiniteSet(1 .. Len(q)) /\ Positions(q, r) \subseteq 1 .. Len(q)
  <2>1. Len(q) \in Nat /\ DOMAIN q = 1 .. Len(q) /\ 1 \in Int /\ Len(q) \in Int
    OBVIOUS
  <2> QED
    BY <2>1, FS_Interval DEF Positions
<1>2. IsFiniteSet(Positions(q, r))
  BY <1>1, FS_Subset
<1>3. Number(q, r) \in Nat
  BY <1>2, FS_CardinalityType DEF Number
<1>4. Number(q, r) = 0 <=> Positions(q, r) = {}
  BY <1>2, FS_EmptySet DEF Number
<1> QED
  BY <1>2, <1>3, <1>4 DEF Positions, Has

(* A frame is sent. *)
LEMMA Appended ==
  ASSUME NEW q \in Seq(HttpFrame), NEW t \in FrameTypes, NEW r \in Requests, NEW s \in Requests
  PROVE  LET p == Append(q, Msg(t, s)) IN
    /\ r # s => Same(q, p, r)
    /\ r = s =>
         /\ \A u : Has(p, u, r) <=> Has(q, u, r) \/ u = t
         /\ \A u : First(q, u, r) /\ (u # t \/ Silent(q, r)) => First(p, u, r)
         /\ Headed(q, r) /\ (t \in {"RES_DATA", "RES_END"} => Has(q, "RES_META", r)) => Headed(p, r)
         /\ \A u : ~Has(q, u, r) => Final(p, u, r)
         /\ t = "RESUME" \/ (t # "PAUSE" /\ LetGo(q, r)) => LetGo(p, r)
         /\ Number(p, r) = IF t = "RES_DATA" THEN Number(q, r) + 1 ELSE Number(q, r)
<1> DEFINE f == Msg(t, s) p == Append(q, f) n == Len(q)
<1>1. f \in HttpFrame /\ f.id = s /\ \A u, v : Msg(u, v) = f <=> u = t /\ v = s
  BY FrameForm DEF Msg
<1>2. \A k \in DOMAIN q : q[k].type \in FrameTypes /\ q[k] = Msg(q[k].type, q[k].id)
  BY FrameForm
<1>3. \A u, v : Msg(u, v).id = v /\ Msg(u, v).type = u
  BY DEF Msg
<1> HIDE DEF f
<1>4. /\ p \in Seq(HttpFrame) /\ n \in Nat /\ DOMAIN q = 1 .. n /\ DOMAIN p = 1 .. n + 1
      /\ p[n + 1] = f /\ \A k \in 1 .. n : p[k] = q[k]
  BY <1>1
<1>5. Positions(p, r) = IF t = "RES_DATA" /\ r = s THEN Positions(q, r) \cup {n + 1} ELSE Positions(q, r)
  <2> HIDE DEF p, n
  <2> QED
    BY <1>1, <1>4 DEF Positions
<1>6. Number(p, r) = IF t = "RES_DATA" /\ r = s THEN Number(q, r) + 1 ELSE Number(q, r)
  <2>1. n + 1 \notin Positions(q, r)
    BY <1>4 DEF Positions
  <2>2. IsFiniteSet(Positions(q, r))
    BY NumberType
  <2> HIDE DEF p, n
  <2> QED
    BY <1>5, <2>1, <2>2, FS_AddElement DEF Number
<1> HIDE DEF p, n
<1>7. \A u : Has(p, u, r) <=> Has(q, u, r) \/ (u = t /\ r = s)
  BY <1>1, <1>4 DEF Has
<1>8. ASSUME NEW u, First(q, u, r), r # s \/ u # t \/ Silent(q, r) PROVE First(p, u, r)
  <2> SUFFICES ASSUME NEW j \in DOMAIN p, NEW k \in DOMAIN p, p[j] = Msg(u, r), p[k].id = r
               PROVE  j <= k
    BY DEF First
  <2>1. CASE j \in 1 .. n /\ k \in 1 .. n
    BY <1>4, <1>8, <2>1 DEF First
  <2>2. CASE k = n + 1
    BY <1>4, <2>2
  <2>3. CASE j = n + 1 /\ k \in 1 .. n
    <3>1. Msg(u, r) = f
      BY <1>4, <2>3
    <3>2. u = t /\ r = s
      BY <1>1, <3>1
    <3>3. Silent(q, r) /\ q[k].id = r
      BY <1>4, <1>8, <2>3, <3>2
    <3>4. Has(q, q[k].type, r) /\ q[k].type \in FrameTypes
      BY <1>2, <1>4, <2>3, <3>3 DEF Has
    <3> QED
      BY <3>3, <3>4 DEF Silent
  <2> QED
    BY <1>4, <2>1, <2>2, <2>3
<1>9. ASSUME Headed(q, r), r = s /\ t \in {"RES_DATA", "RES_END"} => Has(q, "RES_META", r)
      PROVE  Headed(p, r)
  <2> SUFFICES ASSUME NEW k \in DOMAIN p, p[k] = Msg("RES_DATA", r) \/ p[k] = Msg("RES_END", r)
               PROVE  \E j \in DOMAIN p : j < k /\ p[j] = Msg("RES_META", r)
    BY DEF Headed
  <2>1. CASE k \in 1 .. n
    <3>1. PICK j \in DOMAIN q : j < k /\ q[j] = Msg("RES_META", r)
      BY <1>4, <1>9, <2>1 DEF Headed
    <3> QED
      BY <1>4, <3>1
  <2>2. CASE k = n + 1
    <3>1. Has(q, "RES_META", r)
      BY <1>1, <1>4, <1>9, <2>2
    <3> QED
      BY <1>4, <2>2, <3>1 DEF Has
  <2> QED
    BY <1>4, <2>1, <2>2
<1>10. ASSUME NEW u, \/ r # s /\ Final(q, u, r)
                     \/ ~Has(q, u, r)
       PROVE  Final(p, u, r)
  <2> SUFFICES ASSUME NEW j \in DOMAIN p, NEW k \in DOMAIN p, p[j] = Msg(u, r), p[k].id = r
               PROVE  k <= j
    BY DEF Final
  <2>1. CASE r # s /\ Final(q, u, r)
    <3>1. j \in 1 .. n /\ k \in 1 .. n
      BY <1>1, <1>3, <1>4, <2>1
    <3> QED
      BY <1>4, <2>1, <3>1 DEF Final
  <2>2. CASE ~Has(q, u, r)
    <3>1. j = n + 1
      BY <1>4, <2>2 DEF Has
    <3> QED
      BY <1>4, <3>1
  <2> QED
    BY <1>10, <2>1, <2>2
<1>11. ASSUME (r = s /\ t = "RESUME") \/ (~(r = s /\ t = "PAUSE") /\ LetGo(q, r)) PROVE LetGo(p, r)
  <2> SUFFICES ASSUME NEW k \in DOMAIN p, p[k] = Msg("PAUSE", r)
               PROVE  \E j \in DOMAIN p : j > k /\ p[j] = Msg("RESUME", r)
    BY DEF LetGo
  <2>1. k \in 1 .. n /\ q[k] = Msg("PAUSE", r)
    BY <1>1, <1>4, <1>11
  <2>2. CASE r = s /\ t = "RESUME"
    <3>1. n + 1 \in DOMAIN p /\ n + 1 > k /\ p[n + 1] = Msg("RESUME", r)
      BY <1>1, <1>4, <2>1, <2>2
    <3> QED
      BY <3>1
  <2>3. CASE LetGo(q, r)
    <3>1. PICK j \in DOMAIN q : j > k /\ q[j] = Msg("RESUME", r)
      BY <1>4, <2>1, <2>3 DEF LetGo
    <3> QED
      BY <1>4, <3>1
  <2> QED
    BY <1>11, <2>2, <2>3
<1>12. r # s => Same(q, p, r)
  BY <1>6, <1>7, <1>8, <1>9, <1>10, <1>11 DEF Same
<1> QED
  BY <1>6, <1>7, <1>8, <1>9, <1>10, <1>11, <1>12 DEF p, f

(* A frame is taken. *)
LEMMA Taken ==
  ASSUME NEW q \in Seq(HttpFrame), q # <<>>, NEW r \in Requests,
         NEW t \in FrameTypes, NEW s \in Requests, Head(q) = Msg(t, s)
  PROVE  LET p == Tail(q) IN
    /\ r # s => Same(q, p, r)
    /\ r = s =>
         /\ Has(q, t, r)
         /\ \A u : Has(p, u, r) => Has(q, u, r)
         /\ \A u : Has(q, u, r) /\ u # t => Has(p, u, r)
         /\ \A u : First(q, u, r) => First(p, u, r) /\ ~Has(p, u, r)
         /\ Headed(q, r) => t \notin {"RES_DATA", "RES_END"}
         /\ Headed(q, r) /\ t # "RES_META" => Headed(p, r)
         /\ \A u : Final(q, u, r) => Final(p, u, r) /\ (u = t => Silent(p, r))
         /\ LetGo(q, r) => LetGo(p, r) /\ (t = "PAUSE" => Has(p, "RESUME", r))
         /\ Number(q, r) = IF t = "RES_DATA" THEN Number(p, r) + 1 ELSE Number(p, r)
<1> DEFINE f == Msg(t, s) p == Tail(q) n == Len(q)
<1>1. f \in HttpFrame /\ f.id = s /\ \A u, v : Msg(u, v) = f <=> u = t /\ v = s
  BY FrameForm DEF Msg
<1>2. \A u, v : Msg(u, v).id = v /\ Msg(u, v).type = u
  BY DEF Msg
<1>3. \A u, v, r1, r2 : Msg(u, r1) = Msg(v, r2) <=> u = v /\ r1 = r2
  BY FrameForm
<1> HIDE DEF f
<1>4. /\ p \in Seq(HttpFrame) /\ n \in Nat /\ n > 0 /\ DOMAIN q = 1 .. n /\ DOMAIN p = 1 .. n - 1
      /\ q[1] = f /\ \A k \in 1 .. n - 1 : p[k] = q[k + 1]
  BY DEF f
<1> HIDE DEF p, n
<1>5. \A k \in DOMAIN p : k \in Nat /\ k + 1 \in DOMAIN q /\ p[k] = q[k + 1]
  BY <1>4
<1>6. \A k \in DOMAIN q : k = 1 \/ (k - 1 \in DOMAIN p /\ p[k - 1] = q[k] /\ k > 1 /\ k \in Nat)
  BY <1>4
<1>7. \A u : Has(p, u, r) => Has(q, u, r)
  BY <1>5 DEF Has
<1>8. \A u : Has(q, u, r) /\ (r # s \/ u # t) => Has(p, u, r)
  BY <1>1, <1>4, <1>6 DEF Has
<1>9. ASSUME NEW u, First(q, u, r) PROVE First(p, u, r) /\ (r = s => ~Has(p, u, r))
  <2>1. First(p, u, r)
    <3> SUFFICES ASSUME NEW j \in DOMAIN p, NEW k \in DOMAIN p, p[j] = Msg(u, r), p[k].id = r
                 PROVE  j <= k
      BY DEF First
    <3>1. j + 1 <= k + 1
      BY <1>5, <1>9 DEF First
    <3> QED
      BY <1>5, <3>1
  <2>2. ASSUME r = s, NEW k \in DOMAIN p, p[k] = Msg(u, r) PROVE FALSE
    <3>1. k + 1 <= 1
      BY <1>1, <1>4, <1>5, <1>9, <2>2 DEF First
    <3> QED
      BY <1>4, <3>1
  <2> QED
    BY <2>1, <2>2 DEF Has
<1>10. ASSUME Headed(q, r), r = s PROVE t \notin {"RES_DATA", "RES_END"}
  BY <1>4, <1>10 DEF Headed, f
<1>11. ASSUME Headed(q, r), r # s \/ t # "RES_META" PROVE Headed(p, r)
  <2> SUFFICES ASSUME NEW k \in DOMAIN p, p[k] = Msg("RES_DATA", r) \/ p[k] = Msg("RES_END", r)
               PROVE  \E j \in DOMAIN p : j < k /\ p[j] = Msg("RES_META", r)
    BY DEF Headed
  <2>1. PICK j \in DOMAIN q : j < k + 1 /\ q[j] = Msg("RES_META", r)
    BY <1>5, <1>11 DEF Headed
  <2>2. j # 1
    BY <1>1, <1>4, <1>11, <2>1
  <2> QED
    BY <1>5, <1>6, <2>1, <2>2
<1>12. ASSUME NEW u, Final(q, u, r) PROVE Final(p, u, r) /\ (r = s /\ u = t => Silent(p, r))
  <2>1. Final(p, u, r)
    <3> SUFFICES ASSUME NEW j \in DOMAIN p, NEW k \in DOMAIN p, p[j] = Msg(u, r), p[k].id = r
                 PROVE  k <= j
      BY DEF Final
    <3>1. k + 1 <= j + 1
      BY <1>5, <1>12 DEF Final
    <3> QED
      BY <1>5, <3>1
  <2>2. ASSUME r = s, u = t, NEW v, NEW k \in DOMAIN p, p[k] = Msg(v, r) PROVE FALSE
    <3>1. q[1] = Msg(u, r) /\ q[k + 1].id = r /\ 1 \in DOMAIN q /\ k + 1 \in DOMAIN q
      BY <1>2, <1>4, <1>5, <2>2 DEF f
    <3>2. k + 1 <= 1
      BY <1>12, <3>1 DEF Final
    <3> QED
      BY <1>4, <3>2
  <2> QED
    BY <2>1, <2>2 DEF Has, Silent
<1>13. ASSUME LetGo(q, r) PROVE LetGo(p, r) /\ (r = s /\ t = "PAUSE" => Has(p, "RESUME", r))
  <2>1. LetGo(p, r)
    <3> SUFFICES ASSUME NEW k \in DOMAIN p, p[k] = Msg("PAUSE", r)
                 PROVE  \E j \in DOMAIN p : j > k /\ p[j] = Msg("RESUME", r)
      BY DEF LetGo
    <3>1. PICK j \in DOMAIN q : j > k + 1 /\ q[j] = Msg("RESUME", r)
      BY <1>5, <1>13 DEF LetGo
    <3>2. j # 1
      BY <1>5, <3>1
    <3>3. j - 1 > k
      BY <1>4, <1>5, <3>1
    <3> QED
      BY <1>6, <3>1, <3>2, <3>3
  <2>2. ASSUME r = s, t = "PAUSE" PROVE Has(p, "RESUME", r)
    <3>1. PICK j \in DOMAIN q : j > 1 /\ q[j] = Msg("RESUME", r)
      BY <1>4, <1>13, <2>2 DEF LetGo, f
    <3> QED
      BY <1>6, <3>1 DEF Has
  <2> QED
    BY <2>1, <2>2
<1>14. Number(q, r) = IF r = s /\ t = "RES_DATA" THEN Number(p, r) + 1 ELSE Number(p, r)
  <2> DEFINE S == Positions(p, r) T == Positions(q, r) \ {1} g == [k \in S |-> k + 1]
  <2>1. \A k \in S : k + 1 \in T
    BY <1>5 DEF Positions
  <2>2. \A k \in T : k - 1 \in S /\ (k - 1) + 1 = k
    BY <1>6 DEF Positions
  <2>3. \A j, k \in S : j + 1 = k + 1 => j = k
    BY <1>5 DEF Positions
  <2> HIDE DEF S, T
  <2>4. g \in [S -> T] /\ \A k \in S : g[k] = k + 1
    BY <2>1
  <2>5. g \in Bijection(S, T)
    <3>1. g \in Injection(S, T)
      BY <2>3, <2>4, Fun_IsInj
    <3>2. g \in Surjection(S, T)
      BY <2>2, <2>4, Fun_IsSurj
    <3> QED
      BY <3>1, <3>2, Fun_IsBij
  <2>6. IsFiniteSet(S) /\ IsFiniteSet(Positions(q, r))
    BY <1>4, NumberType DEF S
  <2>7. Cardinality(T) = Cardinality(S)
    BY <2>5, <2>6, FS_Bijection DEF ExistsBijection
  <2>8. 1 \in Positions(q, r) <=> r = s /\ t = "RES_DATA"
    BY <1>1, <1>4 DEF Positions
  <2>9. Cardinality(T) = IF 1 \in Positions(q, r) THEN Number(q, r) - 1 ELSE Number(q, r)
    BY <2>6, FS_RemoveElement DEF T, Number
  <2>10. Number(p, r) = Cardinality(S) /\ Number(q, r) \in Nat /\ Number(p, r) \in Nat
    <3>1. Number(q, r) \in Nat /\ Number(p, r) \in Nat
      BY <1>4, NumberType
    <3> QED
      BY <3>1 DEF Number, S
  <2>11. CASE r = s /\ t = "RES_DATA"
    <3>1. Number(q, r) - 1 = Number(p, r)
      BY <2>7, <2>8, <2>9, <2>10, <2>11
    <3>2. Number(q, r) = Number(p, r) + 1
      BY <2>10, <3>1
    <3> QED
      BY <2>11, <3>2
  <2>12. CASE ~(r = s /\ t = "RES_DATA")
    BY <2>7, <2>8, <2>9, <2>10, <2>12
  <2> QED
    BY <2>11, <2>12
<1>15. r # s => Same(q, p, r)
  BY <1>7, <1>8, <1>9, <1>11, <1>12, <1>13, <1>14 DEF Same
<1>16. r = s => Has(q, t, r)
  BY <1>4 DEF Has, f
<1> QED
  BY <1>7, <1>8, <1>9, <1>10, <1>11, <1>12, <1>13, <1>14, <1>15, <1>16 DEF p

-----------------------------------------------------------------------------
(* How far a stream has come, at both ends.                                 *)

(* A stream begins at the server, then with REQ_META at the client. *)
Begins(r) ==
  /\ srv[r] = "new" =>
       /\ cli[r] = "none" /\ outcome[r] = "none" /\ Silent(toClient, r) /\ Silent(toServer, r)
       /\ got[r] = 0 /\ res[r] = 0
  /\ Has(toClient, "REQ_META", r) => cli[r] = "none"
  /\ First(toClient, "REQ_META", r)
  /\ cli[r] \in {"none", "requesting"} =>
       /\ \A t \in FrameTypes \ {"RES_ABORT"} : ~Has(toServer, t, r)
       /\ ~responseStarted[r] /\ produced[r] = 0 /\ ~peerPaused[r] /\ ~Has(toClient, "PAUSE", r)
  /\ peerPaused[r] => cli[r] = "responding"

Answers == {"RES_META", "RES_DATA", "RES_END", "RES_ABORT"}

(* A response begins with RES_META. *)
Responds(r) ==
  /\ \A t \in FrameTypes \ Answers : ~Has(toServer, t, r)
  /\ First(toServer, "RES_META", r)
  /\ Has(toServer, "RES_META", r) => ~responseStarted[r]
  /\ srv[r] = "open" => responseStarted[r] \/ Headed(toServer, r)
  /\ srv[r] = "open" /\ cli[r] = "responding" /\ clientWs = "open" =>
       responseStarted[r] \/ Has(toServer, "RES_META", r)

(* It ends with RES_END or RES_ABORT at the client, or is given up with     *)
(* REQ_ABORT at the server.                                                 *)
Finishes(r) ==
  /\ Has(toClient, "REQ_ABORT", r) => srv[r] = "closed"
  /\ responseEnded[r] \/ Has(toServer, "RES_END", r) \/ Has(toServer, "RES_ABORT", r) =>
       cli[r] \in {"none", "closed"} /\ ~Has(toClient, "REQ_META", r)
  /\ Final(toServer, "RES_END", r) /\ Final(toServer, "RES_ABORT", r)
  /\ responseEnded[r] => responseStarted[r] /\ Silent(toServer, r)

(* What the user has is what the flags say. *)
Seen(r) ==
  /\ srv[r] = "open" => outcome[r] \in {"waiting", "started", "ending", "left"}
  /\ srv[r] = "open" /\ ~responseStarted[r] => outcome[r] = "waiting"
  /\ srv[r] = "open" /\ outcome[r] = "left" => responseEnded[r]
  /\ outcome[r] = "ending" => responseEnded[r]

Course(r) == Begins(r) /\ Responds(r) /\ Finishes(r) /\ Seen(r)

(* No chunk is lost or made up. *)
Counted(r) ==
  /\ srv[r] = "open" /\ outcome[r] # "left" => got[r] + res[r] + Number(toServer, r) = produced[r]
  /\ responseEnded[r] \/ Has(toServer, "RES_END", r) => produced[r] = ResponseLen[r]
  /\ outcome[r] = "ending" => got[r] + res[r] = ResponseLen[r]
  /\ outcome[r] = "whole" => got[r] = ResponseLen[r]

(* The client knows, or will, what the server has given up. *)
Told(r) ==
  cli[r] \in {"requesting", "responding"} \/ Has(toClient, "REQ_META", r) =>
    srv[r] = "open" \/ Cut \/ Untold(r) \/ Has(toClient, "REQ_ABORT", r)

(* And the server what the client has. *)
Answering(r) ==
  srv[r] = "open" =>
    \/ responseEnded[r] \/ Cut \/ cli[r] \in {"requesting", "responding"}
    \/ Has(toClient, "REQ_META", r) \/ Has(toServer, "RES_END", r) \/ Has(toServer, "RES_ABORT", r)

(* A response held back has something to be written, or RESUME behind it. *)
Freed(r) ==
  srv[r] = "open" /\ cli[r] = "responding" /\ ~Cut =>
    \/ responsePaused[r] /\ res[r] > 0
    \/ (peerPaused[r] => Has(toClient, "RESUME", r)) /\ LetGo(toClient, r)

(* All of it, of one request. *)
Sound(r) == Course(r) /\ Counted(r) /\ Told(r) /\ Answering(r) /\ Freed(r)

LEMMA SameItself == ASSUME NEW q, NEW r PROVE Same(q, q, r)
  BY DEF Same

AtServer(r) == <<srv[r], outcome[r], responseStarted[r], responseEnded[r], responsePaused[r],
                 res[r], got[r], body[r]>>
AtClient(r) == <<cli[r], produced[r], peerPaused[r]>>

(* A WebSocket that has left OPEN never returns. *)
Older == (serverWs' = "open" => serverWs = "open") /\ (clientWs' = "open" => clientWs = "open")

(* A step about another request. *)
LEMMA Elsewhere ==
  ASSUME NEW r \in Requests, Sound(r), UNCHANGED <<AtServer(r), AtClient(r)>>, Older,
         Same(toClient, toClient', r), Same(toServer, toServer', r)
  PROVE  Sound(r)'
<1>1. /\ \A t : Has(toClient, t, r)' <=> Has(toClient, t, r)
      /\ \A t : Has(toServer, t, r)' <=> Has(toServer, t, r)
      /\ \A t : First(toClient, t, r) => First(toClient, t, r)'
      /\ \A t : First(toServer, t, r) => First(toServer, t, r)'
      /\ Headed(toServer, r) => Headed(toServer, r)'
      /\ \A t : Final(toServer, t, r) => Final(toServer, t, r)'
      /\ LetGo(toClient, r) => LetGo(toClient, r)'
      /\ Number(toServer, r)' = Number(toServer, r)
  BY DEF Same, Has, First, Headed, Final, LetGo, Number, Positions
<1>2. /\ Silent(toClient, r)' <=> Silent(toClient, r)
      /\ Silent(toServer, r)' <=> Silent(toServer, r)
  BY <1>1 DEF Silent
<1>3. /\ srv'[r] = srv[r] /\ outcome'[r] = outcome[r] /\ responseStarted'[r] = responseStarted[r]
      /\ responseEnded'[r] = responseEnded[r] /\ responsePaused'[r] = responsePaused[r]
      /\ res'[r] = res[r] /\ got'[r] = got[r] /\ body'[r] = body[r]
      /\ cli'[r] = cli[r] /\ produced'[r] = produced[r] /\ peerPaused'[r] = peerPaused[r]
  BY DEF AtServer, AtClient
<1>4. Course(r)'
  BY <1>1, <1>2, <1>3 DEF Sound, Course, Begins, Responds, Finishes, Seen, Older
<1>5. Counted(r)'
  BY <1>1, <1>3 DEF Sound, Counted
<1>6. Cut => Cut'
  BY DEF Cut, Older
<1>7. Told(r)' /\ Answering(r)' /\ Freed(r)'
  BY <1>1, <1>3, <1>6 DEF Sound, Told, Untold, Answering, Freed
<1> QED
  BY <1>4, <1>5, <1>7 DEF Sound

(* What a step may do to a channel: nothing, send a frame, or take one.     *)
Sent(q, p, t, r)   == t \in FrameTypes /\ p = Append(q, Msg(t, r))
TakenBy(q, p, t, r) == t \in FrameTypes /\ q # <<>> /\ Head(q) = Msg(t, r) /\ p = Tail(q)

(* The server's stream ends; what it sends is REQ_ABORT, what it has heard  *)
(* a frame of this stream.  It must have told the client, or need not.      *)
LEMMA Closed ==
  ASSUME Typed, NEW r \in Requests, Sound(r), srv[r] # "new", NEW o, Close(r, o),
         UNCHANGED <<clientVars, links>>,
         toServer' = toServer \/ \E t : TakenBy(toServer, toServer', t, r),
         toClient' = toClient \/ Sent(toClient, toClient', "REQ_ABORT", r),
         o = "ending" => outcome[r] = "ending",
         o = "whole" => outcome[r] = "ending" /\ res[r] = 0,
         \/ Cut \/ Sent(toClient, toClient', "REQ_ABORT", r)
         \/ May("drain_timeout") /\ body[r] > 0 /\ o \in {"error", "cut"}
         \/ May("bad_headers") /\ o = "error" /\ cli[r] = "responding"
         \/ cli[r] \in {"none", "closed"} /\ ~Has(toClient, "REQ_META", r)
  PROVE  Sound(r)'
<1>1. /\ srv'[r] = "closed" /\ outcome'[r] = o /\ res'[r] = Kept(r, o)
      /\ UNCHANGED <<body[r], responseStarted[r], responseEnded[r], got[r]>>
      /\ UNCHANGED <<cli, produced, peerPaused, serverWs, clientWs>>
  BY DEF Close, Set, Typed, ServerTyped, requestVars, clientVars, links
<1>2. /\ \A t : Has(toServer', t, r) => Has(toServer, t, r)
      /\ \A t : First(toServer, t, r) => First(toServer', t, r)
      /\ \A t : Final(toServer, t, r) => Final(toServer', t, r)
  <2>1. CASE toServer' = toServer
    BY <2>1
  <2>2. ASSUME NEW t, TakenBy(toServer, toServer', t, r) PROVE <1>2
    BY <2>2, Taken DEF Typed, LinksTyped, TakenBy
  <2> QED
    BY <2>1, <2>2
<1>3. /\ \A t : Has(toClient', t, r) =>
             Has(toClient, t, r) \/ (t = "REQ_ABORT" /\ Sent(toClient, toClient', "REQ_ABORT", r))
      /\ \A t : Has(toClient, t, r) => Has(toClient', t, r)
      /\ First(toClient, "REQ_META", r) => First(toClient', "REQ_META", r)
      /\ Sent(toClient, toClient', "REQ_ABORT", r) => Has(toClient', "REQ_ABORT", r)
  <2>1. CASE toClient' = toClient /\ ~Sent(toClient, toClient', "REQ_ABORT", r)
    BY <2>1
  <2>2. CASE Sent(toClient, toClient', "REQ_ABORT", r)
    BY <2>2, Appended DEF Typed, LinksTyped, Sent
  <2> QED
    BY <2>1, <2>2
<1>4. Course(r)'
  <2>1. Begins(r)'
    BY <1>1, <1>2, <1>3 DEF Sound, Course, Begins
  <2>2. Responds(r)'
    BY <1>1, <1>2 DEF Sound, Course, Responds
  <2>3. Finishes(r)'
    BY <1>1, <1>2, <1>3 DEF Sound, Course, Finishes, Silent
  <2>4. Seen(r)'
    BY <1>1 DEF Sound, Course, Seen
  <2> QED
    BY <2>1, <2>2, <2>3, <2>4 DEF Course
<1>5. Counted(r)'
  <2>1. o = "whole" => got[r] = ResponseLen[r]
    BY DEF Sound, Counted, Typed, ServerTyped
  <2>2. o = "ending" => Kept(r, o) = res[r] /\ got[r] + res[r] = ResponseLen[r]
    BY DEF Sound, Counted, Kept
  <2> QED
    BY <1>1, <1>2, <2>1, <2>2 DEF Sound, Counted
<1>6. Told(r)'
  BY <1>1, <1>3 DEF Sound, Told, Untold, Cut
<1>7. Answering(r)' /\ Freed(r)'
  BY <1>1 DEF Answering, Freed
<1> QED
  BY <1>4, <1>5, <1>6, <1>7 DEF Sound

LEMMA Aborted ==
  ASSUME Typed, NEW r \in Requests, Sound(r), srv[r] = "open", NEW n \in BOOLEAN, Abort(r, n),
         UNCHANGED <<clientVars, links>>,
         toServer' = toServer \/ \E t : TakenBy(toServer, toServer', t, r),
         \/ n \/ Cut \/ (May("drain_timeout") /\ body[r] > 0)
         \/ May("bad_headers") /\ ~responseStarted[r] /\ cli[r] = "responding"
         \/ cli[r] \in {"none", "closed"} /\ ~Has(toClient, "REQ_META", r)
  PROVE  Sound(r)'
<1> DEFINE o == IF outcome[r] = "left" THEN "left" ELSE AbortedOutcome(r)
<1>1. Close(r, o)
  BY DEF Abort
<1>2. /\ o = "ending" => outcome[r] = "ending"
      /\ o # "whole"
      /\ ~responseStarted[r] => o = "error"
      /\ o \in {"error", "cut"} \/ (cli[r] \in {"none", "closed"} /\ ~Has(toClient, "REQ_META", r))
  BY DEF AbortedOutcome, Left, Sound, Course, Seen, Finishes
<1> HIDE DEF o
<1>3. \/ toClient' = toClient /\ (Cut \/ ~n)
      \/ Sent(toClient, toClient', "REQ_ABORT", r) /\ n
  <2>1. "REQ_ABORT" \in FrameTypes /\ Msg("REQ_ABORT", r) \in HttpFrame
    BY FrameForm DEF FrameTypes
  <2>2. ToClient(<<Msg("REQ_ABORT", r)>>) =>
          toClient' = IF serverWs = "open" THEN Append(toClient, Msg("REQ_ABORT", r)) ELSE toClient
    BY <2>1, Posts DEF Typed
  <2>3. ToClient(<<>>) => toClient' = toClient
    BY <2>1, Posts DEF Typed
  <2> QED
    BY <2>1, <2>2, <2>3 DEF Abort, Cut, Sent
<1> QED
  BY <1>1, <1>2, <1>3, Closed

(* Steps of the server about its own stream. *)
LEMMA ServerOwn ==
  ASSUME Typed, NEW r \in Requests, Sound(r),
         \/ UserRequests(r) \/ BodyChunk(r) \/ BodyEnds(r) \/ RequestStalls(r) \/ UserReads(r)
         \/ ResponseFinishes(r) \/ UserLeaves(r) \/ ServerIdle(r)
  PROVE  Sound(r)'
<1>1. UNCHANGED <<clientVars, links, toServer>>
  BY DEF UserRequests, BodyChunk, BodyEnds, RequestStalls, UserReads, ResponseFinishes,
         UserLeaves, ServerIdle, ServerOnly
<1>2. /\ UNCHANGED <<cli, produced, peerPaused, serverWs, clientWs, toServer>>
      /\ {"REQ_META", "REQ_DATA", "REQ_END", "REQ_ABORT", "RESUME"} \subseteq FrameTypes
      /\ ServerTyped /\ LinksTyped /\ toClient \in Seq(HttpFrame) /\ ClientTyped
      /\ toServer \in Seq(HttpFrame)
  BY <1>1 DEF clientVars, links, FrameTypes, Typed, LinksTyped
<1>3. ASSUME NEW t \in FrameTypes, ToClient(<<Msg(t, r)>>)
      PROVE  \/ toClient' = toClient /\ Cut /\ serverWs # "open"
             \/ toClient' = Append(toClient, Msg(t, r)) /\ Sent(toClient, toClient', t, r)
                  /\ serverWs = "open"
  BY <1>2, <1>3, FrameForm, Posts DEF Cut, Sent
<1>4. CASE UserRequests(r)
  <2>1. CASE /\ srv' = Set(srv, r, "open") /\ outcome' = Set(outcome, r, "waiting")
             /\ ToClient(<<Msg("REQ_META", r)>>) /\ serverWs = "open"
    <3>1. /\ srv'[r] = "open" /\ outcome'[r] = "waiting"
          /\ UNCHANGED <<responseStarted, responseEnded, responsePaused, res, got, body>>
      BY <1>2, <1>4, <2>1 DEF UserRequests, ServerTyped, Set, requestVars, responseVars
    <3>2. toClient' = Append(toClient, Msg("REQ_META", r))
      BY <1>2, <1>3, <1>4, <2>1 DEF UserRequests
    <3>3. /\ \A t : Has(toClient', t, r) <=> Has(toClient, t, r) \/ t = "REQ_META"
          /\ Silent(toClient, r) => First(toClient', "REQ_META", r)
      <4>1. First(toClient, "REQ_META", r)
        BY DEF Sound, Course, Begins
      <4> QED
        BY <1>2, <3>2, <4>1, Appended
    <3>4. srv[r] = "new"
      BY <1>4 DEF UserRequests
    <3>5. /\ cli[r] = "none" /\ outcome[r] = "none" /\ Silent(toClient, r) /\ Silent(toServer, r)
          /\ got[r] = 0 /\ res[r] = 0 /\ ~responseStarted[r] /\ produced[r] = 0 /\ ~peerPaused[r]
          /\ ~responseEnded[r]
      BY <3>4 DEF Sound, Course, Begins, Finishes
    <3>6. \A t \in FrameTypes : ~Has(toServer, t, r) /\ ~Has(toClient, t, r)
      BY <3>5 DEF Silent
    <3>7. Headed(toServer, r)
      <4>1. "RES_DATA" \in FrameTypes /\ "RES_END" \in FrameTypes
        BY DEF FrameTypes
      <4> QED
        BY <3>6, <4>1 DEF Headed, Has
    <3>8. Number(toServer, r) = 0
      BY <1>2, <3>6, NumberType DEF FrameTypes
    <3>9. /\ "REQ_ABORT" \in FrameTypes /\ "RES_END" \in FrameTypes /\ "RES_ABORT" \in FrameTypes
          /\ "PAUSE" \in FrameTypes /\ "RES_DATA" \in FrameTypes
      BY DEF FrameTypes
    <3>10. Course(r)'
      <4>1. Begins(r)'
        BY <1>2, <3>1, <3>3, <3>5, <3>6, <3>9 DEF Begins
      <4>2. Responds(r)'
        BY <1>2, <3>1, <3>5, <3>7 DEF Responds, Sound, Course
      <4>3. Finishes(r)'
        BY <1>2, <3>1, <3>3, <3>5, <3>6, <3>9 DEF Finishes, Sound, Course
      <4>4. Seen(r)'
        BY <3>1, <3>5 DEF Seen
      <4> QED
        BY <4>1, <4>2, <4>3, <4>4 DEF Course
    <3>11. Counted(r)'
      BY <1>2, <3>1, <3>5, <3>6, <3>8, <3>9 DEF Counted
    <3>12. Told(r)' /\ Answering(r)' /\ Freed(r)'
      BY <1>2, <3>1, <3>3, <3>5 DEF Told, Answering, Freed
    <3> QED
      BY <3>10, <3>11, <3>12 DEF Sound
  <2>2. CASE /\ srv' = Set(srv, r, "closed") /\ outcome' = Set(outcome, r, "error")
             /\ UNCHANGED toClient
    <3>1. /\ srv'[r] = "closed" /\ outcome'[r] = "error" /\ srv[r] = "new"
          /\ UNCHANGED <<responseStarted, responseEnded, responsePaused, res, got, body, toClient>>
      BY <1>2, <1>4, <2>2 DEF UserRequests, ServerTyped, Set, requestVars, responseVars
    <3>2. cli[r] = "none" /\ \A t \in FrameTypes : ~Has(toClient, t, r) /\ ~Has(toServer, t, r)
      BY <3>1 DEF Sound, Course, Begins, Silent
    <3>3. Course(r)'
      BY <1>2, <3>1 DEF Sound, Course, Begins, Responds, Finishes, Seen
    <3>4. Counted(r)'
      BY <1>2, <3>1 DEF Sound, Counted
    <3>5. Told(r)' /\ Answering(r)' /\ Freed(r)'
      BY <1>2, <3>1, <3>2 DEF Told, Answering, Freed
    <3> QED
      BY <3>3, <3>4, <3>5 DEF Sound
  <2> QED
    BY <1>4, <2>1, <2>2 DEF UserRequests, Admits
<1>5. CASE (BodyChunk(r) /\ serverWs = "open") \/ BodyEnds(r)
  <2>1. /\ srv[r] = "open"
        /\ UNCHANGED <<srv, outcome, responseStarted, responseEnded, responsePaused, res, got>>
    BY <1>5 DEF BodyChunk, BodyEnds, responseVars, userVars
  <2>2. \E t \in {"REQ_DATA", "REQ_END"} : toClient' = toClient \/ toClient' = Append(toClient, Msg(t, r))
    BY <1>2, <1>3, <1>5 DEF BodyChunk, BodyEnds
  <2>3. /\ \A t \in {"REQ_META", "REQ_ABORT", "PAUSE", "RESUME"} : Has(toClient', t, r) <=> Has(toClient, t, r)
        /\ First(toClient, "REQ_META", r) => First(toClient', "REQ_META", r)
        /\ LetGo(toClient, r) => LetGo(toClient', r)
    <3>1. CASE toClient' = toClient
      BY <3>1
    <3>2. ASSUME NEW t \in {"REQ_DATA", "REQ_END"}, toClient' = Append(toClient, Msg(t, r))
          PROVE  <2>3
      BY <1>2, <3>2, Appended
    <3> QED
      BY <2>2, <3>1, <3>2
  <2>4. Course(r)'
    BY <1>2, <2>1, <2>3 DEF Sound, Course, Begins, Responds, Finishes, Seen
  <2>5. Counted(r)'
    BY <1>2, <2>1 DEF Sound, Counted
  <2>6. Told(r)' /\ Answering(r)' /\ Freed(r)'
    BY <1>2, <2>1, <2>3 DEF Sound, Told, Answering, Freed, Cut
  <2> QED
    BY <2>4, <2>5, <2>6 DEF Sound
<1>6. CASE BodyChunk(r) /\ serverWs # "open"
  BY <1>1, <1>6, Aborted DEF BodyChunk, Cut
<1>7. CASE RequestStalls(r)
  BY <1>1, <1>7, Aborted DEF RequestStalls, HasMore
<1>8. CASE ServerIdle(r)
  BY <1>1, <1>8, Aborted DEF ServerIdle
<1>9. CASE ResponseFinishes(r)
  <2>1. Close(r, "whole") /\ outcome[r] = "ending" /\ res[r] = 0 /\ toClient' = toClient
    BY <1>9 DEF ResponseFinishes
  <2>2. srv[r] # "new"
    BY <2>1 DEF Sound, Course, Begins
  <2>3. cli[r] \in {"none", "closed"} /\ ~Has(toClient, "REQ_META", r)
    BY <2>1 DEF Sound, Course, Seen, Finishes
  <2> QED
    BY <1>1, <2>1, <2>2, <2>3, Closed
<1>10. CASE UserReads(r)
  <2>1. /\ res[r] > 0 /\ res'[r] = res[r] - 1 /\ got'[r] = got[r] + 1
        /\ UNCHANGED <<srv, body, responseStarted, responseEnded, outcome>>
        /\ outcome[r] \in {"started", "ending", "short"}
        /\ got[r] \in Nat /\ res[r] \in Nat /\ got'[r] + res'[r] = got[r] + res[r]
    <3>1. /\ res[r] > 0 /\ res'[r] = res[r] - 1 /\ got'[r] = got[r] + 1
          /\ UNCHANGED <<srv, body, responseStarted, responseEnded, outcome>>
          /\ outcome[r] \in {"started", "ending", "short"}
      BY <1>2, <1>10 DEF UserReads, ServerTyped, Set, requestVars
    <3>2. got[r] \in Nat /\ res[r] \in Nat
      BY <1>2 DEF ServerTyped
    <3> QED
      BY <3>1, <3>2
  <2>2. \/ toClient' = toClient /\ Cut
        \/ toClient' = toClient /\ ~Drained(r) /\ responsePaused' = responsePaused
        \/ toClient' = Append(toClient, Msg("RESUME", r))
    BY <1>2, <1>3, <1>10 DEF UserReads
  <2>3. /\ \A t \in {"REQ_META", "REQ_ABORT", "PAUSE"} : Has(toClient', t, r) <=> Has(toClient, t, r)
        /\ First(toClient, "REQ_META", r) => First(toClient', "REQ_META", r)
        /\ LetGo(toClient, r) => LetGo(toClient', r)
        /\ toClient' # toClient => LetGo(toClient', r) /\ Has(toClient', "RESUME", r)
    <3>1. CASE toClient' = toClient
      BY <3>1
    <3>2. CASE toClient' = Append(toClient, Msg("RESUME", r))
      BY <1>2, <3>2, Appended
    <3> QED
      BY <2>2, <3>1, <3>2
  <2>4. Course(r)'
    <3>1. srv[r] # "new"
      BY <2>1 DEF Sound, Course, Begins
    <3> QED
      BY <1>2, <2>1, <2>3, <3>1 DEF Sound, Course, Begins, Responds, Finishes, Seen
  <2>5. Counted(r)'
    <3>1. Number(toServer, r) \in Nat
      BY <1>2, NumberType
    <3>2. srv[r] = "open" => got'[r] + res'[r] + Number(toServer, r) = produced[r]
      BY <2>1, <3>1 DEF Sound, Counted
    <3> QED
      BY <1>2, <2>1, <3>2 DEF Sound, Counted
  <2>6. Told(r)' /\ Answering(r)'
    BY <1>2, <2>1, <2>3 DEF Sound, Told, Answering, Cut, Untold
  <2>7. Freed(r)'
    <3> SUFFICES ASSUME srv[r] = "open", cli[r] = "responding", ~Cut
                 PROVE  \/ responsePaused'[r] /\ res'[r] > 0
                        \/ (peerPaused[r] => Has(toClient', "RESUME", r)) /\ LetGo(toClient', r)
      BY <1>2, <2>1 DEF Freed, Cut
    <3>1. ~responseEnded[r]
      BY DEF Sound, Course, Finishes
    <3>2. CASE toClient' # toClient
      BY <2>3, <3>2
    <3>3. CASE toClient' = toClient /\ ~Drained(r) /\ responsePaused' = responsePaused
      <4>1. responsePaused[r] => res'[r] > 0
        BY <2>1, <3>1, <3>3 DEF Drained
      <4> QED
        BY <3>3, <4>1 DEF Sound, Freed
    <3> QED
      BY <2>2, <3>2, <3>3
  <2> QED
    BY <2>4, <2>5, <2>6, <2>7 DEF Sound
<1>11. CASE UserLeaves(r)
  <2>1. outcome[r] \in {"waiting", "started", "ending"}
    BY <1>11 DEF UserLeaves
  <2>2. srv[r] # "new"
    BY <2>1 DEF Sound, Course, Begins
  <2>3. CASE Close(r, "left") /\ ToClient(<<Msg("REQ_ABORT", r)>>)
    BY <1>1, <1>2, <1>3, <2>2, <2>3, Closed
  <2>4. CASE ~(srv[r] = "open" /\ (~responseEnded[r] \/ ~requestEnded[r]))
    <3>1. UNCHANGED <<srv, body, responseStarted, responseEnded, responsePaused, got, toClient>>
      BY <1>2, <1>11, <2>4 DEF UserLeaves, ServerTyped, Set, requestVars
    <3>2. srv[r] = "open" => responseEnded[r] /\ responseStarted[r]
      BY <2>4 DEF Sound, Course, Finishes
    <3>3. outcome'[r] = "left" /\ outcome[r] # "error"
      BY <1>2, <1>11, <2>1, <2>4 DEF UserLeaves, ServerTyped, Set
    <3>4. Course(r)'
      BY <1>2, <2>2, <3>1, <3>2, <3>3 DEF Sound, Course, Begins, Responds, Finishes, Seen
    <3>5. Counted(r)'
      BY <1>2, <3>1, <3>3 DEF Sound, Counted
    <3>6. Told(r)' /\ Answering(r)'
      BY <1>2, <2>1, <3>1, <3>3 DEF Sound, Told, Answering, Cut, Untold
    <3>7. Freed(r)'
      BY <1>2, <3>1, <3>2 DEF Sound, Course, Finishes, Freed, Cut
    <3> QED
      BY <3>4, <3>5, <3>6, <3>7 DEF Sound
  <2> QED
    BY <1>11, <2>3, <2>4 DEF UserLeaves
<1> QED
  BY <1>4, <1>5, <1>6, <1>7, <1>8, <1>9, <1>10, <1>11

(* The server hears a frame of its own stream. *)
LEMMA ServerHearsOwn ==
  ASSUME Typed, ServerHears, NEW r \in Requests, r = Head(toServer).id, Sound(r)
  PROVE  Sound(r)'
<1> DEFINE f == Head(toServer) t == f.type
<1>1. /\ f \in HttpFrame /\ t \in FrameTypes /\ f = Msg(t, r) /\ toServer # <<>>
      /\ toServer' = Tail(toServer) /\ OnClientFrame(f) /\ UNCHANGED <<clientVars, links>>
      /\ toServer \in Seq(HttpFrame) /\ TakenBy(toServer, toServer', t, r)
  <2>1. /\ toServer # <<>> /\ toServer \in Seq(HttpFrame) /\ toServer' = Tail(toServer)
        /\ OnClientFrame(f) /\ UNCHANGED <<clientVars, links>>
    BY DEF ServerHears, Typed, LinksTyped
  <2>2. f \in HttpFrame
    BY <2>1
  <2> QED
    BY <2>1, <2>2, FrameForm DEF TakenBy
<1>2. f.id = r /\ f.type = t
  OBVIOUS
<1> HIDE DEF f, t
<1>3. /\ UNCHANGED <<cli, produced, peerPaused, serverWs, clientWs>>
      /\ ServerTyped /\ LinksTyped /\ toClient \in Seq(HttpFrame) /\ ClientTyped
  BY <1>1 DEF clientVars, links, Typed, LinksTyped
<1>4. /\ Has(toServer, t, r)
      /\ \A u : Has(toServer', u, r) => Has(toServer, u, r)
      /\ \A u : Has(toServer, u, r) /\ u # t => Has(toServer', u, r)
      /\ \A u : First(toServer, u, r) => First(toServer', u, r) /\ ~Has(toServer', u, r)
      /\ Headed(toServer, r) => t \notin {"RES_DATA", "RES_END"}
      /\ Headed(toServer, r) /\ t # "RES_META" => Headed(toServer', r)
      /\ \A u : Final(toServer, u, r) => Final(toServer', u, r) /\ (u = t => Silent(toServer', r))
      /\ Number(toServer, r) = IF t = "RES_DATA" THEN Number(toServer', r) + 1 ELSE Number(toServer', r)
  BY <1>1, <1>3, Taken DEF f
<1>5. srv[r] # "new"
  BY <1>1, <1>4 DEF Sound, Course, Begins, Silent
<1>6. CASE srv[r] # "open"
  <2>1. UNCHANGED <<serverVars, toClient>>
    BY <1>1, <1>2, <1>6 DEF OnClientFrame
  <2>2. /\ UNCHANGED <<srv, outcome, body, responseStarted, responseEnded, responsePaused, res, got, toClient>>
    BY <2>1 DEF serverVars, requestVars, responseVars, userVars
  <2>3. Course(r)'
    BY <1>3, <1>4, <1>5, <1>6, <2>2 DEF Sound, Course, Begins, Responds, Finishes, Seen, Silent
  <2>4. Counted(r)' /\ Told(r)' /\ Answering(r)' /\ Freed(r)'
    BY <1>3, <1>4, <1>6, <2>2 DEF Sound, Counted, Told, Answering, Freed, Cut, Untold
  <2> QED
    BY <2>3, <2>4 DEF Sound
<1>7. CASE srv[r] = "open" /\ t = "RES_META"
  <2>1. ~responseStarted[r] /\ outcome[r] = "waiting"
    BY <1>4, <1>7 DEF Sound, Course, Responds, Seen
  <2>2. cli[r] \in {"responding", "closed"} /\ ~Has(toClient, "REQ_META", r)
    BY <1>1, <1>3, <1>4, <1>7 DEF Sound, Course, Begins, ClientTyped
  <2>3. CASE May("bad_headers") /\ Abort(r, FALSE)
    BY <1>1, <1>3, <1>7, <2>1, <2>2, <2>3, Aborted
  <2>4. CASE /\ responseStarted' = Set(responseStarted, r, TRUE)
             /\ outcome' = Set(outcome, r, "started")
             /\ UNCHANGED <<srv, requestVars, responseEnded, responsePaused, res, got, toClient>>
    <3>1. responseStarted'[r] /\ outcome'[r] = "started" /\ UNCHANGED body
      BY <1>3, <2>4 DEF Set, ServerTyped, requestVars
    <3>2. ~Has(toServer', "RES_META", r) /\ First(toServer', "RES_META", r)
      BY <1>4 DEF Sound, Course, Responds
    <3>3. Number(toServer', r) = Number(toServer, r)
      BY <1>4, <1>7
    <3>4. Course(r)'
      BY <1>3, <1>4, <1>7, <2>2, <2>4, <3>1, <3>2 DEF Sound, Course, Begins, Responds, Finishes, Seen
    <3>5. Counted(r)'
      BY <1>3, <1>4, <1>7, <2>1, <2>4, <3>1, <3>3 DEF Sound, Counted
    <3>6. Told(r)' /\ Answering(r)' /\ Freed(r)'
      BY <1>3, <1>4, <1>7, <2>1, <2>4, <3>1 DEF Sound, Told, Answering, Freed, Cut, Untold
    <3> QED
      BY <3>4, <3>5, <3>6 DEF Sound
  <2> QED
    BY <1>1, <1>2, <1>7, <2>1, <2>3, <2>4 DEF OnClientFrame, ResMeta
<1>8. CASE srv[r] = "open" /\ t = "RES_DATA"
  <2>1. responseStarted[r] /\ ~responseEnded[r]
    BY <1>4, <1>8 DEF Sound, Course, Responds, Finishes, Silent, FrameTypes
  <2>2. CASE TooMuch(r)
    <3>1. Abort(r, TRUE)
      BY <1>1, <1>2, <1>8, <2>1, <2>2 DEF OnClientFrame, ResData
    <3> QED
      BY <1>1, <1>8, <3>1, Aborted
  <2>3. CASE ~TooMuch(r)
    <3>1. /\ res' = Set(res, r, res[r] + 1)
          /\ IF res'[r] >= ResMark /\ ~responsePaused[r]
             THEN responsePaused' = Set(responsePaused, r, TRUE) /\ ToClient(<<Msg("PAUSE", r)>>)
             ELSE UNCHANGED <<responsePaused, toClient>>
          /\ UNCHANGED <<srv, requestVars, responseStarted, responseEnded, userVars>>
      BY <1>1, <1>2, <1>8, <2>1, <2>3 DEF OnClientFrame, ResData
    <3>2. /\ res'[r] = res[r] + 1 /\ res[r] \in Nat /\ got[r] \in Nat
          /\ UNCHANGED <<srv, body, responseStarted, responseEnded, outcome, got>>
      BY <1>3, <3>1 DEF Set, ServerTyped, requestVars, userVars
    <3>3. "PAUSE" \in FrameTypes /\ Msg("PAUSE", r) \in HttpFrame
      BY FrameForm DEF FrameTypes
    <3>4. \/ toClient' = toClient /\ responsePaused' = responsePaused
          \/ toClient' = toClient /\ Cut
          \/ toClient' = Append(toClient, Msg("PAUSE", r)) /\ responsePaused'[r]
      BY <1>3, <3>1, <3>3, Posts DEF Cut, Set, ServerTyped
    <3>5. /\ \A u : u # "PAUSE" => (Has(toClient', u, r) <=> Has(toClient, u, r))
          /\ First(toClient, "REQ_META", r) => First(toClient', "REQ_META", r)
      <4>1. CASE toClient' = toClient
        BY <4>1
      <4>2. CASE toClient' = Append(toClient, Msg("PAUSE", r))
        BY <1>3, <3>3, <4>2, Appended
      <4> QED
        BY <3>4, <4>1, <4>2
    <3>6. cli[r] \notin {"none", "requesting"}
      BY <2>1 DEF Sound, Course, Begins
    <3>7. Course(r)'
      BY <1>3, <1>4, <1>8, <2>1, <3>2, <3>5, <3>6 DEF Sound, Course, Begins, Responds, Finishes, Seen
    <3>8. Counted(r)'
      <4>1. Number(toServer, r) = Number(toServer', r) + 1 /\ Number(toServer', r) \in Nat
        <5>1. toServer' \in Seq(HttpFrame)
          BY <1>1
        <5> QED
          BY <1>4, <1>8, <5>1, NumberType
      <4>2. outcome[r] # "left" => got[r] + res'[r] + Number(toServer', r) = produced[r]
        BY <1>8, <3>2, <4>1 DEF Sound, Counted
      <4>3. outcome[r] \notin {"ending", "whole"}
        BY <1>8, <2>1 DEF Sound, Course, Seen
      <4> QED
        BY <1>3, <1>4, <2>1, <3>2, <4>2, <4>3 DEF Sound, Counted
    <3>9. Told(r)' /\ Answering(r)'
      BY <1>3, <1>4, <1>8, <3>2, <3>5 DEF Sound, Told, Answering, Cut, Untold
    <3>10. Freed(r)'
      <4> SUFFICES ASSUME cli[r] = "responding", ~Cut
                   PROVE  \/ responsePaused'[r] /\ res'[r] > 0
                          \/ (peerPaused[r] => Has(toClient', "RESUME", r)) /\ LetGo(toClient', r)
        BY <1>3 DEF Freed, Cut
      <4>1. res'[r] > 0
        BY <3>2
      <4>2. CASE toClient' = toClient /\ responsePaused' = responsePaused
        BY <1>8, <4>1, <4>2 DEF Sound, Freed
      <4> QED
        BY <3>4, <4>1, <4>2
    <3> QED
      BY <3>7, <3>8, <3>9, <3>10 DEF Sound
  <2> QED
    BY <2>2, <2>3
<1>9. CASE srv[r] = "open" /\ t = "RES_END"
  <2>1. responseStarted[r] /\ cli[r] \in {"none", "closed"} /\ ~Has(toClient, "REQ_META", r)
    BY <1>4, <1>9 DEF Sound, Course, Responds, Finishes
  <2>2. /\ responseEnded' = Set(responseEnded, r, TRUE)
        /\ outcome' = IF responseEnded[r] THEN outcome ELSE Set(outcome, r, "ending")
        /\ UNCHANGED <<srv, requestVars, responseStarted, responsePaused, res, got, toClient>>
    BY <1>1, <1>2, <1>9, <2>1 DEF OnClientFrame, ResEnd
  <2>3. /\ responseEnded'[r] /\ UNCHANGED body
        /\ outcome'[r] = IF responseEnded[r] THEN outcome[r] ELSE "ending"
    BY <1>3, <2>2 DEF Set, ServerTyped, requestVars
  <2>4. ~Has(toServer', "RES_DATA", r) /\ ~Has(toServer, "RES_DATA", r)
    <3>1. ~Has(toServer', "RES_DATA", r)
      BY <1>4, <1>9 DEF Sound, Course, Finishes, Silent, FrameTypes
    <3> QED
      BY <1>4, <1>9, <3>1
  <2>5. Number(toServer', r) = 0 /\ Number(toServer, r) = 0 /\ got[r] \in Nat /\ res[r] \in Nat
    <3>1. toServer' \in Seq(HttpFrame)
      BY <1>1
    <3> QED
      BY <1>1, <1>3, <2>4, <3>1, NumberType DEF ServerTyped
  <2>6. Course(r)'
    BY <1>3, <1>4, <1>9, <2>1, <2>2, <2>3, <2>4 DEF Sound, Course, Begins, Responds, Finishes, Seen
  <2>7. Counted(r)'
    <3>1. produced[r] = ResponseLen[r]
      BY <1>4, <1>9 DEF Sound, Counted
    <3>2. outcome[r] # "left" => got[r] + res[r] = produced[r]
      BY <1>9, <2>5 DEF Sound, Counted
    <3>3. outcome[r] # "whole" /\ (outcome[r] = "left" => responseEnded[r])
      BY <1>9 DEF Sound, Course, Seen
    <3> QED
      BY <1>3, <2>2, <2>3, <2>5, <3>1, <3>2, <3>3 DEF Counted
  <2>8. Told(r)' /\ Answering(r)' /\ Freed(r)'
    BY <1>3, <2>1, <2>2, <2>3 DEF Told, Answering, Freed
  <2> QED
    BY <2>6, <2>7, <2>8 DEF Sound
<1>10. CASE srv[r] = "open" /\ t = "RES_ABORT"
  <2>1. cli[r] \in {"none", "closed"} /\ ~Has(toClient, "REQ_META", r)
    BY <1>4, <1>10 DEF Sound, Course, Finishes
  <2> DEFINE o == IF ~responseStarted[r] THEN "error"
                  ELSE IF ~responseEnded[r] THEN Left(r, "short") ELSE Left(r, outcome[r])
  <2>2. Close(r, o) /\ toClient' = toClient
    BY <1>1, <1>2, <1>10 DEF OnClientFrame, ResAbort
  <2>3. o # "whole" /\ (o = "ending" => outcome[r] = "ending")
    BY <1>10 DEF Left, Sound, Course, Seen
  <2> HIDE DEF o
  <2> QED
    BY <1>1, <1>5, <2>1, <2>2, <2>3, Closed
<1> QED
  BY <1>1, <1>2, <1>6, <1>7, <1>8, <1>9, <1>10 DEF OnClientFrame

(* The client's stream ends with RES_ABORT, or it refuses one. *)
LEMMA GivenUp ==
  ASSUME Typed, NEW r \in Requests, Sound(r), ToServer(<<Msg("RES_ABORT", r)>>), srv[r] # "new",
         UNCHANGED <<serverVars, links>>,
         produced'[r] = produced[r], ~peerPaused'[r],
         \/ cli'[r] = "closed" /\ cli[r] \in {"requesting", "responding"}
         \/ cli'[r] = "none" /\ cli[r] = "none" /\ Has(toClient, "REQ_META", r),
         toClient' = toClient \/ \E t : TakenBy(toClient, toClient', t, r),
         ~Has(toClient', "REQ_META", r)
  PROVE  Sound(r)'
<1>1. /\ UNCHANGED <<srv, outcome, responseStarted, responseEnded, responsePaused, res, got, body>>
      /\ UNCHANGED <<serverWs, clientWs>> /\ LinksTyped /\ toServer \in Seq(HttpFrame)
      /\ "RES_ABORT" \in FrameTypes /\ Msg("RES_ABORT", r) \in HttpFrame /\ ClientTyped
  BY FrameForm DEF serverVars, requestVars, responseVars, userVars, links, Typed, LinksTyped, FrameTypes
<1>0. ~responseEnded[r] /\ ~Has(toServer, "RES_END", r) /\ ~Has(toServer, "RES_ABORT", r)
  BY DEF Sound, Course, Finishes
<1>2. \/ toServer' = toServer /\ Cut
      \/ toServer' = Append(toServer, Msg("RES_ABORT", r))
  BY <1>1, Posts DEF Cut
<1>3. /\ \A u : Has(toServer', u, r) =>  Has(toServer, u, r) \/ u = "RES_ABORT"
      /\ \A u : Has(toServer, u, r) => Has(toServer', u, r)
      /\ First(toServer, "RES_META", r) => First(toServer', "RES_META", r)
      /\ Headed(toServer, r) => Headed(toServer', r)
      /\ Final(toServer', "RES_END", r) /\ Final(toServer', "RES_ABORT", r)
      /\ Number(toServer', r) = Number(toServer, r)
      /\ Cut \/ Has(toServer', "RES_ABORT", r)
  <2>1. CASE toServer' = toServer /\ Cut
    BY <2>1 DEF Sound, Course, Finishes
  <2>2. CASE toServer' = Append(toServer, Msg("RES_ABORT", r))
    BY <1>1, <1>0, <2>2, Appended
  <2> QED
    BY <1>2, <2>1, <2>2
<1>4. /\ \A u : Has(toClient', u, r) => Has(toClient, u, r)
      /\ First(toClient, "REQ_META", r) => First(toClient', "REQ_META", r)
  <2>1. CASE toClient' = toClient
    BY <2>1
  <2>2. ASSUME NEW t, TakenBy(toClient, toClient', t, r) PROVE <1>4
    BY <2>2, Taken DEF Typed, LinksTyped, TakenBy
  <2> QED
    BY <2>1, <2>2
<1>5. Course(r)'
  <2>1. Begins(r)'
    BY <1>1, <1>3, <1>4 DEF Sound, Course, Begins
  <2>2. Responds(r)'
    BY <1>1, <1>3 DEF Sound, Course, Responds, Answers
  <2>3. Finishes(r)'
    BY <1>0, <1>1, <1>3, <1>4 DEF Sound, Course, Finishes
  <2>4. Seen(r)'
    BY <1>1 DEF Sound, Course, Seen
  <2> QED
    BY <2>1, <2>2, <2>3, <2>4 DEF Course
<1>6. Counted(r)'
  BY <1>1, <1>3 DEF Sound, Counted
<1>7. Told(r)' /\ Answering(r)' /\ Freed(r)'
  BY <1>1, <1>3 DEF Told, Answering, Freed, Cut
<1> QED
  BY <1>5, <1>6, <1>7 DEF Sound

(* Steps of the client about its own stream. *)
LEMMA ClientOwn ==
  ASSUME Typed, NEW r \in Requests, Sound(r),
         LocalResponds(r) \/ LocalData(r) \/ LocalEnds(r) \/ LocalFails(r) \/ ClientIdle(r)
  PROVE  Sound(r)'
<1>1. UNCHANGED <<serverVars, links, toClient>>
  BY DEF LocalResponds, LocalData, LocalEnds, LocalFails, ClientIdle, ClientOnly
<1>2. /\ UNCHANGED <<srv, outcome, responseStarted, responseEnded, responsePaused, res, got, body>>
      /\ UNCHANGED <<serverWs, clientWs, toClient>> /\ LinksTyped /\ toServer \in Seq(HttpFrame)
      /\ {"RES_META", "RES_DATA", "RES_END"} \subseteq FrameTypes /\ ClientTyped
      /\ "RES_ABORT" \in FrameTypes
  BY <1>1 DEF serverVars, requestVars, responseVars, userVars, links, Typed, LinksTyped, FrameTypes
<1>3. ASSUME NEW t \in FrameTypes, ToServer(<<Msg(t, r)>>)
      PROVE  \/ toServer' = toServer /\ clientWs # "open"
             \/ toServer' = Append(toServer, Msg(t, r)) /\ clientWs = "open"
  BY <1>2, <1>3, FrameForm, Posts
<1>4. cli[r] \in {"requesting", "responding"} /\ srv[r] # "new" /\ ~Has(toClient, "REQ_META", r)
  <2>1. cli[r] \in {"requesting", "responding"}
    BY DEF LocalResponds, LocalData, LocalEnds, LocalFails, ClientIdle, OpenAtClient
  <2> QED
    BY <2>1 DEF Sound, Course, Begins
<1>5. ~responseEnded[r] /\ ~Has(toServer, "RES_END", r) /\ ~Has(toServer, "RES_ABORT", r)
  BY <1>4 DEF Sound, Course, Finishes
<1>6. CASE SendResAbort(r)
  <2>1. /\ ToServer(<<Msg("RES_ABORT", r)>>) /\ UNCHANGED produced
        /\ ~peerPaused'[r] /\ cli'[r] = "closed"
    BY <1>2, <1>6 DEF SendResAbort, Forget, Set, ClientTyped
  <2> QED
    BY <1>1, <1>4, <2>1, GivenUp
<1>7. CASE LocalResponds(r)
  <2>1. cli'[r] = "responding" /\ cli[r] = "requesting" /\ UNCHANGED <<produced, peerPaused>>
    BY <1>2, <1>7 DEF LocalResponds, Set, ClientTyped
  <2>2. Silent(toServer, r)
    BY <1>5, <2>1 DEF Sound, Course, Begins, Silent
  <2>3. \/ toServer' = toServer /\ clientWs # "open"
        \/ toServer' = Append(toServer, Msg("RES_META", r)) /\ clientWs = "open"
    BY <1>2, <1>3, <1>7 DEF LocalResponds
  <2>4. /\ \A u : Has(toServer', u, r) => Has(toServer, u, r) \/ u = "RES_META"
        /\ \A u : Has(toServer, u, r) => Has(toServer', u, r)
        /\ First(toServer, "RES_META", r) => First(toServer', "RES_META", r)
        /\ Headed(toServer, r) => Headed(toServer', r)
        /\ Final(toServer', "RES_END", r) /\ Final(toServer', "RES_ABORT", r)
        /\ Number(toServer', r) = Number(toServer, r)
        /\ clientWs = "open" => Has(toServer', "RES_META", r)
    <3>1. CASE toServer' = toServer /\ clientWs # "open"
      BY <3>1 DEF Sound, Course, Finishes
    <3>2. CASE toServer' = Append(toServer, Msg("RES_META", r))
      BY <1>2, <1>5, <2>2, <3>2, Appended
    <3> QED
      BY <2>3, <3>1, <3>2
  <2>5. ~responseStarted[r] /\ produced[r] = 0 /\ ~peerPaused[r] /\ ~Has(toClient, "PAUSE", r)
    BY <2>1 DEF Sound, Course, Begins
  <2>6. Course(r)'
    <3>1. Begins(r)'
      BY <1>2, <1>4, <2>1 DEF Sound, Course, Begins
    <3>2. Responds(r)'
      BY <1>2, <2>4, <2>5 DEF Sound, Course, Responds, Answers
    <3>3. Finishes(r)'
      BY <1>2, <1>5, <2>4, <2>5 DEF Sound, Course, Finishes
    <3>4. Seen(r)'
      BY <1>2 DEF Sound, Course, Seen
    <3> QED
      BY <3>1, <3>2, <3>3, <3>4 DEF Course
  <2>7. Counted(r)'
    BY <1>2, <1>5, <2>1, <2>4 DEF Sound, Counted
  <2>8. Told(r)' /\ Answering(r)'
    BY <1>2, <1>4, <2>1 DEF Sound, Told, Untold, Answering, Cut
  <2>9. Freed(r)'
    BY <1>2, <2>1, <2>5 DEF Freed, LetGo, Has
  <2> QED
    BY <2>6, <2>7, <2>8, <2>9 DEF Sound
<1>8. CASE LocalData(r) /\ clientWs = "open"
  <2>1. cli[r] = "responding" /\ produced[r] \in Nat /\ produced'[r] = produced[r] + 1
        /\ UNCHANGED <<cli, peerPaused>>
    BY <1>2, <1>8 DEF LocalData, Set, ClientTyped
  <2>2. toServer' = Append(toServer, Msg("RES_DATA", r))
    BY <1>2, <1>3, <1>8 DEF LocalData
  <2>3. /\ \A u : Has(toServer', u, r) <=> Has(toServer, u, r) \/ u = "RES_DATA"
        /\ First(toServer, "RES_META", r) => First(toServer', "RES_META", r)
        /\ Headed(toServer, r) /\ Has(toServer, "RES_META", r) => Headed(toServer', r)
        /\ Final(toServer', "RES_END", r) /\ Final(toServer', "RES_ABORT", r)
        /\ Number(toServer', r) = Number(toServer, r) + 1
    BY <1>2, <1>5, <2>2, Appended
  <2>4. srv[r] = "open" => responseStarted[r] \/ Has(toServer, "RES_META", r)
    BY <1>8, <2>1 DEF Sound, Course, Responds
  <2>5. Course(r)'
    <3>1. Begins(r)'
      BY <1>2, <1>4, <2>1 DEF Sound, Course, Begins
    <3>2. Responds(r)'
      BY <1>2, <2>1, <2>3, <2>4 DEF Sound, Course, Responds, Answers
    <3>3. Finishes(r)'
      BY <1>2, <1>5, <2>3 DEF Sound, Course, Finishes
    <3>4. Seen(r)'
      BY <1>2 DEF Sound, Course, Seen
    <3> QED
      BY <3>1, <3>2, <3>3, <3>4 DEF Course
  <2>6. Counted(r)'
    <3>1. Number(toServer, r) \in Nat /\ got[r] \in Nat /\ res[r] \in Nat
      BY <1>2, NumberType DEF Typed, ServerTyped
    <3>2. srv[r] = "open" /\ outcome[r] # "left" =>
            got[r] + res[r] + Number(toServer', r) = produced'[r]
      BY <2>1, <2>3, <3>1 DEF Sound, Counted
    <3> QED
      BY <1>2, <1>5, <2>3, <3>2 DEF Sound, Counted
  <2>7. Told(r)' /\ Answering(r)' /\ Freed(r)'
    BY <1>2, <2>1, <2>3 DEF Sound, Told, Untold, Answering, Cut, Freed
  <2> QED
    BY <2>5, <2>6, <2>7 DEF Sound
<1>9. CASE LocalEnds(r)
  <2>1. /\ cli[r] = "responding" /\ produced[r] = ResponseLen[r] /\ UNCHANGED produced
        /\ cli'[r] = "closed" /\ ~peerPaused'[r]
    BY <1>2, <1>9 DEF LocalEnds, Forget, Set, ClientTyped
  <2>2. \/ toServer' = toServer /\ clientWs # "open"
        \/ toServer' = Append(toServer, Msg("RES_END", r)) /\ clientWs = "open"
    BY <1>2, <1>3, <1>9 DEF LocalEnds
  <2>3. srv[r] = "open" /\ clientWs = "open" => responseStarted[r] \/ Has(toServer, "RES_META", r)
    BY <2>1 DEF Sound, Course, Responds
  <2>4. /\ \A u : Has(toServer', u, r) => Has(toServer, u, r) \/ u = "RES_END"
        /\ \A u : Has(toServer, u, r) => Has(toServer', u, r)
        /\ First(toServer, "RES_META", r) => First(toServer', "RES_META", r)
        /\ Headed(toServer, r) /\ (clientWs = "open" => Has(toServer, "RES_META", r)) => Headed(toServer', r)
        /\ Final(toServer', "RES_END", r) /\ Final(toServer', "RES_ABORT", r)
        /\ Number(toServer', r) = Number(toServer, r)
        /\ clientWs = "open" => Has(toServer', "RES_END", r)
    <3>1. CASE toServer' = toServer /\ clientWs # "open"
      BY <3>1 DEF Sound, Course, Finishes
    <3>2. CASE toServer' = Append(toServer, Msg("RES_END", r)) /\ clientWs = "open"
      BY <1>2, <1>5, <3>2, Appended
    <3> QED
      BY <2>2, <3>1, <3>2
  <2>5. Course(r)'
    <3>1. Begins(r)'
      BY <1>2, <1>4, <2>1 DEF Sound, Course, Begins
    <3>2. Responds(r)'
      BY <1>2, <2>1, <2>3, <2>4 DEF Sound, Course, Responds, Answers
    <3>3. Finishes(r)'
      BY <1>2, <1>4, <1>5, <2>1, <2>4 DEF Sound, Course, Finishes
    <3>4. Seen(r)'
      BY <1>2 DEF Sound, Course, Seen
    <3> QED
      BY <3>1, <3>2, <3>3, <3>4 DEF Course
  <2>6. Counted(r)'
    BY <1>2, <2>1, <2>4 DEF Sound, Counted
  <2>7. Told(r)' /\ Answering(r)' /\ Freed(r)'
    BY <1>2, <1>4, <2>1, <2>4 DEF Told, Answering, Freed, Cut
  <2> QED
    BY <2>5, <2>6, <2>7 DEF Sound
<1> QED
  BY <1>6, <1>7, <1>8, <1>9 DEF LocalData, LocalFails, ClientIdle

(* The client hears a frame of its own stream. *)
LEMMA ClientHearsOwn ==
  ASSUME Typed, ClientHears, NEW r \in Requests, r = Head(toClient).id, Sound(r)
  PROVE  Sound(r)'
<1> DEFINE f == Head(toClient) t == f.type
<1>1. /\ f \in HttpFrame /\ t \in FrameTypes /\ f = Msg(t, r) /\ toClient # <<>>
      /\ toClient' = Tail(toClient) /\ OnServerFrame(f) /\ UNCHANGED <<serverVars, links>>
      /\ toClient \in Seq(HttpFrame) /\ TakenBy(toClient, toClient', t, r)
  <2>1. /\ toClient # <<>> /\ toClient \in Seq(HttpFrame) /\ toClient' = Tail(toClient)
        /\ OnServerFrame(f) /\ UNCHANGED <<serverVars, links>>
    BY DEF ClientHears, Typed, LinksTyped
  <2>2. f \in HttpFrame
    BY <2>1
  <2> QED
    BY <2>1, <2>2, FrameForm DEF TakenBy
<1>2. f.id = r /\ f.type = t
  OBVIOUS
<1> HIDE DEF f, t
<1>3. /\ UNCHANGED <<srv, outcome, responseStarted, responseEnded, responsePaused, res, got, body>>
      /\ UNCHANGED <<serverWs, clientWs>> /\ ClientTyped
  BY <1>1 DEF serverVars, requestVars, responseVars, userVars, links, Typed
<1>4. /\ Has(toClient, t, r)
      /\ \A u : Has(toClient', u, r) => Has(toClient, u, r)
      /\ \A u : Has(toClient, u, r) /\ u # t => Has(toClient', u, r)
      /\ \A u : First(toClient, u, r) => First(toClient', u, r) /\ ~Has(toClient', u, r)
      /\ LetGo(toClient, r) => LetGo(toClient', r) /\ (t = "PAUSE" => Has(toClient', "RESUME", r))
  BY <1>1, Taken DEF f
<1>5. /\ srv[r] # "new" /\ ~Has(toClient', "REQ_META", r) /\ First(toClient', "REQ_META", r)
      /\ t # "REQ_META" => ~Has(toClient, "REQ_META", r)
  <2>1. srv[r] # "new"
    BY <1>1, <1>4 DEF Sound, Course, Begins, Silent
  <2>2. First(toClient, "REQ_META", r)
    BY DEF Sound, Course, Begins
  <2> QED
    BY <1>4, <2>1, <2>2
<1>6. CASE ToServer(<<Msg("RES_ABORT", r)>>) /\ UNCHANGED clientVars /\ t = "REQ_META"
  <2>1. cli[r] = "none" /\ ~peerPaused[r] /\ UNCHANGED <<cli, produced, peerPaused>>
    BY <1>4, <1>6 DEF Sound, Course, Begins, clientVars
  <2> QED
    BY <1>1, <1>4, <1>5, <1>6, <2>1, GivenUp
<1>7. CASE Request(r) /\ t = "REQ_META"
  <2>1. /\ cli[r] = "none" /\ cli'[r] = "requesting" /\ UNCHANGED <<produced, peerPaused, toServer>>
    BY <1>3, <1>4, <1>7 DEF Sound, Course, Begins, Request, Set, ClientTyped
  <2>2. ~responseEnded[r] /\ ~Has(toServer, "RES_END", r) /\ ~Has(toServer, "RES_ABORT", r)
    BY <1>4, <1>7 DEF Sound, Course, Finishes
  <2>3. Course(r)'
    <3>1. Begins(r)'
      BY <1>3, <1>4, <1>5, <2>1 DEF Sound, Course, Begins
    <3>2. Responds(r)'
      BY <1>3, <2>1 DEF Sound, Course, Responds
    <3>3. Finishes(r)'
      BY <1>3, <1>4, <2>1, <2>2 DEF Sound, Course, Finishes
    <3>4. Seen(r)'
      BY <1>3 DEF Sound, Course, Seen
    <3> QED
      BY <3>1, <3>2, <3>3, <3>4 DEF Course
  <2>4. Counted(r)'
    BY <1>3, <2>1 DEF Sound, Counted
  <2>5. Told(r)' /\ Answering(r)' /\ Freed(r)'
    BY <1>3, <1>4, <1>7, <2>1 DEF Sound, Told, Untold, Answering, Freed, Cut
  <2> QED
    BY <2>3, <2>4, <2>5 DEF Sound
<1>8. CASE SendResAbort(r) /\ cli[r] \in {"requesting", "responding"}
  <2>1. /\ ToServer(<<Msg("RES_ABORT", r)>>) /\ UNCHANGED produced
        /\ ~peerPaused'[r] /\ cli'[r] = "closed"
    BY <1>3, <1>8 DEF SendResAbort, Forget, Set, ClientTyped
  <2> QED
    BY <1>1, <1>5, <1>8, <2>1, GivenUp
<1>9. ASSUME UNCHANGED <<cli, produced, toServer>>, t # "REQ_META",
             cli[r] \in {"requesting", "responding"} => t # "REQ_ABORT",
             \/ /\ peerPaused'[r] = peerPaused[r]
                /\ cli[r] = "responding" => t # "PAUSE" /\ t # "RESUME"
             \/ /\ peerPaused'[r] = (t = "PAUSE" /\ cli[r] = "responding")
                /\ t = "PAUSE" \/ t = "RESUME"
      PROVE  Sound(r)'
  <2>1. Course(r)'
    <3>1. ~Has(toClient, "PAUSE", r) => t # "PAUSE"
      BY <1>4
    <3>2. Begins(r)'
      BY <1>3, <1>4, <1>5, <1>9, <3>1 DEF Sound, Course, Begins
    <3>3. Responds(r)'
      BY <1>3, <1>9 DEF Sound, Course, Responds
    <3>4. Finishes(r)'
      BY <1>3, <1>4, <1>9 DEF Sound, Course, Finishes
    <3>5. Seen(r)'
      BY <1>3 DEF Sound, Course, Seen
    <3> QED
      BY <3>2, <3>3, <3>4, <3>5 DEF Course
  <2>2. Counted(r)'
    BY <1>3, <1>9 DEF Sound, Counted
  <2>3. Told(r)'
    BY <1>3, <1>4, <1>5, <1>9 DEF Sound, Told, Untold, Cut
  <2>4. Answering(r)'
    BY <1>3, <1>4, <1>9 DEF Sound, Answering, Cut
  <2>5. Freed(r)'
    BY <1>3, <1>4, <1>9 DEF Sound, Freed, Cut
  <2> QED
    BY <2>1, <2>2, <2>3, <2>4, <2>5 DEF Sound
<1>10. CASE Forget(r) /\ UNCHANGED <<produced, toServer>> /\ t = "REQ_ABORT"
  <2>1. srv[r] = "closed" /\ cli'[r] = "closed" /\ ~peerPaused'[r]
    BY <1>3, <1>4, <1>10 DEF Sound, Course, Finishes, Forget, Set, ClientTyped
  <2>2. Course(r)'
    BY <1>3, <1>4, <1>5, <1>10, <2>1 DEF Sound, Course, Begins, Responds, Finishes, Seen
  <2>3. Counted(r)'
    BY <1>3, <1>10, <2>1 DEF Sound, Counted
  <2>4. Told(r)' /\ Answering(r)' /\ Freed(r)'
    BY <1>3, <1>5, <2>1 DEF Told, Answering, Freed
  <2> QED
    BY <2>2, <2>3, <2>4 DEF Sound
<1>11. CASE t = "REQ_META"
  BY <1>1, <1>2, <1>6, <1>7, <1>11 DEF OnServerFrame, ReqMeta
<1>12. CASE t # "REQ_META" /\ r \notin OpenAtClient
  <2>1. UNCHANGED <<clientVars, toServer>> /\ cli[r] \notin {"requesting", "responding"}
    BY <1>1, <1>2, <1>12 DEF OnServerFrame, OpenAtClient
  <2>2. UNCHANGED <<cli, produced, peerPaused, toServer>> /\ peerPaused'[r] = peerPaused[r]
    BY <2>1 DEF clientVars
  <2> QED
    BY <1>9, <1>12, <2>1, <2>2
<1>13. CASE t # "REQ_META" /\ r \in OpenAtClient
  <2>1. /\ cli[r] \in {"requesting", "responding"}
        /\ \/ t = "REQ_DATA"  /\ ReqData(r)
           \/ t = "REQ_END"   /\ ReqEnd(r)
           \/ t = "REQ_ABORT" /\ Forget(r) /\ UNCHANGED <<asked, produced, toServer>>
           \/ t = "PAUSE"     /\ PeerPaused(r, TRUE)
           \/ t = "RESUME"    /\ PeerPaused(r, FALSE)
    BY <1>1, <1>2, <1>13 DEF OnServerFrame, OpenAtClient
  <2>2. CASE SendResAbort(r)
    BY <1>8, <2>1, <2>2
  <2>3. CASE \/ t = "REQ_DATA" /\ ReqData(r) /\ ~SendResAbort(r)
             \/ t = "REQ_END" /\ ReqEnd(r)
    <3>1. UNCHANGED <<cli, produced, peerPaused, toServer>>
      BY <2>3 DEF ReqData, ReqEnd, clientVars
    <3>2. peerPaused'[r] = peerPaused[r] /\ t # "PAUSE" /\ t # "RESUME" /\ t # "REQ_ABORT" /\ t # "REQ_META"
      BY <2>3, <3>1
    <3> QED
      BY <1>9, <3>1, <3>2
  <2>4. ASSUME NEW p \in BOOLEAN, PeerPaused(r, p), t = IF p THEN "PAUSE" ELSE "RESUME" PROVE Sound(r)'
    <3>1. peerPaused'[r] = (p /\ cli[r] = "responding") /\ UNCHANGED <<cli, produced, toServer>>
      BY <1>3, <2>4 DEF PeerPaused, Set, ClientTyped
    <3>2. /\ t # "REQ_META" /\ t # "REQ_ABORT" /\ (t = "PAUSE" \/ t = "RESUME")
          /\ peerPaused'[r] = (t = "PAUSE" /\ cli[r] = "responding")
      BY <2>4, <3>1
    <3> QED
      BY <1>9, <3>1, <3>2
  <2> QED
    BY <1>10, <2>1, <2>2, <2>3, <2>4
<1> QED
  BY <1>11, <1>12, <1>13

(* Steps about other requests. *)
LEMMA StepElsewhere ==
  ASSUME Typed, NEW r \in Requests, Sound(r),
         \/ ServerHears /\ Head(toServer).id # r
         \/ ClientHears /\ Head(toClient).id # r
         \/ \E c \in Requests \ {r} :
              \/ UserRequests(c) \/ BodyChunk(c) \/ BodyEnds(c) \/ RequestStalls(c) \/ UserReads(c)
              \/ ResponseFinishes(c) \/ UserLeaves(c) \/ ServerIdle(c)
              \/ LocalResponds(c) \/ LocalData(c) \/ LocalEnds(c) \/ LocalFails(c) \/ ClientIdle(c)
  PROVE  Sound(r)'
<1>1. ServerTyped /\ ClientTyped /\ LinksTyped /\ toClient \in Seq(HttpFrame) /\ toServer \in Seq(HttpFrame)
  BY DEF Typed, LinksTyped
<1>2. ASSUME NEW c \in Requests \ {r}, NEW t \in FrameTypes
      PROVE  /\ ToClient(<<Msg(t, c)>>) => Same(toClient, toClient', r)
             /\ ToClient(<<>>) => Same(toClient, toClient', r)
             /\ ToServer(<<Msg(t, c)>>) => Same(toServer, toServer', r)
  <2>1. Msg(t, c) \in HttpFrame
    BY <1>2, FrameForm
  <2>2. /\ Same(toClient, toClient, r) /\ Same(toClient, Append(toClient, Msg(t, c)), r)
        /\ Same(toServer, toServer, r) /\ Same(toServer, Append(toServer, Msg(t, c)), r)
    BY <1>1, Appended, SameItself
  <2> QED
    BY <1>1, <2>1, <2>2, Posts
<1>3. \A t \in {"REQ_META", "REQ_DATA", "REQ_END", "REQ_ABORT", "RESUME", "PAUSE",
                "RES_META", "RES_DATA", "RES_END", "RES_ABORT"} : t \in FrameTypes
  BY DEF FrameTypes
<1>4. Same(toClient, toClient, r) /\ Same(toServer, toServer, r)
  BY SameItself
<1>5. ASSUME NEW c \in Requests \ {r}, NEW o, Close(c, o) PROVE UNCHANGED AtServer(r)
  BY <1>1, <1>5 DEF Close, Set, ServerTyped, AtServer, requestVars
<1>6. CASE \E c \in Requests \ {r} :
             \/ UserRequests(c) \/ BodyChunk(c) \/ BodyEnds(c) \/ RequestStalls(c) \/ UserReads(c)
             \/ ResponseFinishes(c) \/ UserLeaves(c) \/ ServerIdle(c)
  <2>1. PICK c \in Requests \ {r} :
             \/ UserRequests(c) \/ BodyChunk(c) \/ BodyEnds(c) \/ RequestStalls(c) \/ UserReads(c)
             \/ ResponseFinishes(c) \/ UserLeaves(c) \/ ServerIdle(c)
    BY <1>6
  <2>2. UNCHANGED <<clientVars, links, toServer>>
    BY <2>1 DEF UserRequests, BodyChunk, BodyEnds, RequestStalls, UserReads, ResponseFinishes,
                UserLeaves, ServerIdle, ServerOnly
  <2>3. Same(toClient, toClient', r)
    BY <1>2, <1>3, <1>4, <2>1 DEF UserRequests, BodyChunk, BodyEnds, RequestStalls, UserReads,
                                  ResponseFinishes, UserLeaves, ServerIdle, Abort
  <2>4. UNCHANGED AtServer(r)
    <3>1. CASE RequestStalls(c) \/ ServerIdle(c) \/ ResponseFinishes(c) \/ (BodyChunk(c) /\ serverWs # "open")
      BY <1>5, <3>1 DEF RequestStalls, ServerIdle, ResponseFinishes, BodyChunk, Abort
    <3>2. CASE UserRequests(c) \/ BodyEnds(c) \/ UserReads(c) \/ (BodyChunk(c) /\ serverWs = "open")
      BY <1>1, <3>2 DEF UserRequests, BodyEnds, UserReads, BodyChunk, Set, ServerTyped, AtServer,
                        requestVars, responseVars, userVars
    <3>3. CASE UserLeaves(c)
      <4>1. CASE Close(c, "left")
        BY <1>5, <4>1
      <4>2. CASE ~Close(c, "left")
        BY <1>1, <3>3, <4>2 DEF UserLeaves, Set, ServerTyped, AtServer, requestVars
      <4> QED
        BY <4>1, <4>2
    <3> QED
      BY <2>1, <3>1, <3>2, <3>3
  <2>5. UNCHANGED AtClient(r) /\ Older
    BY <2>2 DEF clientVars, links, AtClient, Older
  <2> QED
    BY <1>4, <2>2, <2>3, <2>4, <2>5, Elsewhere
<1>7. CASE \E c \in Requests \ {r} :
             LocalResponds(c) \/ LocalData(c) \/ LocalEnds(c) \/ LocalFails(c) \/ ClientIdle(c)
  <2>1. PICK c \in Requests \ {r} :
             LocalResponds(c) \/ LocalData(c) \/ LocalEnds(c) \/ LocalFails(c) \/ ClientIdle(c)
    BY <1>7
  <2>2. UNCHANGED <<serverVars, links, toClient>>
    BY <2>1 DEF LocalResponds, LocalData, LocalEnds, LocalFails, ClientIdle, ClientOnly
  <2>3. Same(toServer, toServer', r)
    BY <1>2, <1>3, <2>1 DEF LocalResponds, LocalData, LocalEnds, LocalFails, ClientIdle, SendResAbort
  <2>4. UNCHANGED AtClient(r)
    BY <1>1, <2>1 DEF LocalResponds, LocalData, LocalEnds, LocalFails, ClientIdle, SendResAbort, Forget,
                      Set, ClientTyped, AtClient
  <2>5. UNCHANGED AtServer(r) /\ Older
    BY <2>2 DEF serverVars, requestVars, responseVars, userVars, links, AtServer, Older
  <2> QED
    BY <1>4, <2>2, <2>3, <2>4, <2>5, Elsewhere
<1>8. CASE ServerHears /\ Head(toServer).id # r
  <2> DEFINE f == Head(toServer) c == f.id
  <2>1. /\ toServer # <<>> /\ toServer' = Tail(toServer) /\ OnClientFrame(f)
        /\ UNCHANGED <<clientVars, links>> /\ f \in HttpFrame
    BY <1>1, <1>8 DEF ServerHears
  <2>2. f = Msg(f.type, c) /\ f.type \in FrameTypes /\ c \in Requests \ {r}
    BY <1>8, <2>1, FrameForm
  <2>3. Same(toServer, toServer', r)
    BY <1>1, <2>1, <2>2, Taken
  <2> HIDE DEF f
  <2>4. Same(toClient, toClient', r)
    BY <1>2, <1>3, <1>4, <2>1, <2>2 DEF OnClientFrame, ResMeta, ResData, ResEnd, ResAbort, Abort
  <2>5. UNCHANGED AtServer(r)
    <3>1. CASE \E o : Close(c, o)
      BY <1>5, <2>2, <3>1
    <3>2. CASE UNCHANGED serverVars
      BY <3>2 DEF serverVars, requestVars, responseVars, userVars, AtServer
    <3>3. CASE ~(\E o : Close(c, o)) /\ ~UNCHANGED serverVars
      <4>1. ~Abort(c, TRUE) /\ ~Abort(c, FALSE) /\ ~ResAbort(c)
        BY <3>3 DEF Abort, ResAbort
      <4>2. ResMeta(c) \/ ResData(c) \/ ResEnd(c)
        BY <2>1, <3>3, <4>1 DEF OnClientFrame
      <4> QED
        BY <1>1, <2>2, <3>3, <4>1, <4>2 DEF ResMeta, ResData, ResEnd, Set, ServerTyped, AtServer,
                                            requestVars, userVars
    <3> QED
      BY <3>1, <3>2, <3>3
  <2>6. UNCHANGED AtClient(r) /\ Older
    BY <2>1 DEF clientVars, links, AtClient, Older
  <2> QED
    BY <2>3, <2>4, <2>5, <2>6, Elsewhere
<1>9. CASE ClientHears /\ Head(toClient).id # r
  <2> DEFINE f == Head(toClient) c == f.id
  <2>1. /\ toClient # <<>> /\ toClient' = Tail(toClient) /\ OnServerFrame(f)
        /\ UNCHANGED <<serverVars, links>> /\ f \in HttpFrame
    BY <1>1, <1>9 DEF ClientHears
  <2>2. f = Msg(f.type, c) /\ f.type \in FrameTypes /\ c \in Requests \ {r}
    BY <1>9, <2>1, FrameForm
  <2>3. Same(toClient, toClient', r)
    BY <1>1, <2>1, <2>2, Taken
  <2> HIDE DEF f
  <2>4. Same(toServer, toServer', r)
    BY <1>2, <1>3, <1>4, <2>1, <2>2 DEF OnServerFrame, ReqMeta, Request, ReqData, ReqEnd, SendResAbort,
                                        PeerPaused
  <2>5. UNCHANGED AtClient(r)
    BY <1>1, <2>1, <2>2 DEF OnServerFrame, ReqMeta, Request, ReqData, ReqEnd, SendResAbort, Forget,
                            PeerPaused, Set, ClientTyped, AtClient, clientVars
  <2>6. UNCHANGED AtServer(r) /\ Older
    BY <2>1 DEF serverVars, requestVars, responseVars, userVars, links, AtServer, Older
  <2> QED
    BY <2>3, <2>4, <2>5, <2>6, Elsewhere
<1> QED
  BY <1>6, <1>7, <1>8, <1>9

(* The session's own events, which reach every stream. *)
LEMMA SessionSound ==
  ASSUME Typed, NEW r \in Requests, Sound(r),
         ServerLeaves \/ ServerClosed \/ ClientLeaves \/ ClientClosed
  PROVE  Sound(r)'
<1>1. CASE ServerLeaves \/ ClientLeaves
  <2>1. /\ UNCHANGED <<AtServer(r), AtClient(r), toClient, toServer>> /\ Older
    BY <1>1 DEF ServerLeaves, ClientLeaves, AtServer, AtClient, Older, serverVars, clientVars,
                requestVars, responseVars, userVars
  <2> QED
    BY <2>1, Elsewhere, SameItself
<1>2. CASE ServerClosed
  <2>1. /\ UNCHANGED <<body, responseStarted, responseEnded, got, cli, produced, peerPaused,
                       clientWs, toClient, toServer>>
        /\ Cut'
    BY <1>2 DEF ServerClosed, clientVars, requestVars, Cut
  <2>2. CASE srv[r] = "open"
    <3>1. srv'[r] = "closed" /\ outcome'[r] = (IF outcome[r] # "left" THEN AbortedOutcome(r) ELSE outcome[r])
          /\ res'[r] = Kept(r, outcome'[r])
      BY <1>2, <2>2 DEF ServerClosed, OpenStreams
    <3>2. /\ outcome'[r] # "whole"
          /\ outcome'[r] = "ending" => outcome[r] = "ending" /\ res'[r] = res[r]
      BY <2>2, <3>1 DEF AbortedOutcome, Left, Kept, Sound, Course, Seen
    <3>3. Course(r)'
      BY <2>1, <2>2, <3>1, <3>2 DEF Sound, Course, Begins, Responds, Finishes, Seen
    <3>4. Counted(r)'
      BY <2>1, <3>1, <3>2 DEF Sound, Counted
    <3> QED
      BY <2>1, <3>1, <3>3, <3>4 DEF Sound, Told, Answering, Freed
  <2>3. CASE srv[r] # "open"
    <3>1. /\ srv'[r] = srv[r] /\ outcome'[r] = outcome[r]
          /\ res'[r] = Kept(r, outcome[r]) /\ (outcome[r] = "none" /\ res[r] = 0 => res'[r] = 0)
          /\ outcome[r] = "ending" => res'[r] = res[r]
      BY <1>2, <2>3 DEF ServerClosed, OpenStreams, Kept, Typed, ServerTyped
    <3>2. /\ srv'[r] = srv[r] /\ outcome'[r] = outcome[r]
          /\ srv[r] = "new" => res'[r] = 0
      BY <1>2, <2>3 DEF ServerClosed, OpenStreams, Kept, Sound, Course, Begins, Typed, ServerTyped
    <3>3. Course(r)'
      BY <2>1, <2>3, <3>2 DEF Sound, Course, Begins, Responds, Finishes, Seen
    <3>4. Counted(r)'
      BY <2>1, <2>3, <3>1, <3>2 DEF Sound, Counted
    <3> QED
      BY <2>1, <2>3, <3>2, <3>3, <3>4 DEF Sound, Told, Answering, Freed
  <2> QED
    BY <2>2, <2>3
<1>3. CASE ClientClosed
  <2>1. /\ UNCHANGED <<srv, body, outcome, responseStarted, responseEnded, responsePaused, res, got,
                       produced, serverWs, toClient, toServer>>
        /\ Cut' /\ ~peerPaused'[r]
        /\ cli'[r] = IF cli[r] \in {"requesting", "responding"} THEN "closed" ELSE cli[r]
    BY <1>3 DEF ClientClosed, serverVars, requestVars, responseVars, userVars, Cut, OpenAtClient
  <2>2. Course(r)'
    <3>1. Begins(r)'
      BY <2>1 DEF Sound, Course, Begins
    <3>2. Responds(r)'
      BY <2>1 DEF Sound, Course, Responds
    <3>3. Finishes(r)'
      BY <2>1 DEF Sound, Course, Finishes
    <3>4. Seen(r)'
      BY <2>1 DEF Sound, Course, Seen
    <3> QED
      BY <3>1, <3>2, <3>3, <3>4 DEF Course
  <2>3. Counted(r)'
    BY <2>1 DEF Sound, Counted
  <2> QED
    BY <2>1, <2>2, <2>3 DEF Sound, Told, Answering, Freed
<1> QED
  BY <1>1, <1>2, <1>3

(* The invariant. *)
AllSound == Typed /\ Fits /\ \A r \in Requests : Sound(r)

LEMMA InitSound == Init => AllSound
<1> SUFFICES ASSUME Init PROVE \A r \in Requests : Sound(r)
  BY InitTyped DEF AllSound
<1> TAKE r \in Requests
<1>1. /\ srv[r] = "new" /\ cli[r] = "none" /\ outcome[r] = "none" /\ ~responseStarted[r]
      /\ ~responseEnded[r] /\ ~peerPaused[r] /\ res[r] = 0 /\ got[r] = 0 /\ produced[r] = 0
      /\ toClient = <<>> /\ toServer = <<>>
  BY DEF Init
<1>2. /\ \A t : ~Has(toClient, t, r) /\ ~Has(toServer, t, r)
      /\ \A t : First(toClient, t, r) /\ First(toServer, t, r)
      /\ \A t : Final(toServer, t, r)
      /\ Headed(toServer, r)
  BY <1>1 DEF Has, First, Headed, Final
<1>3. Course(r)
  BY <1>1, <1>2 DEF Course, Begins, Responds, Finishes, Seen, Silent
<1> QED
  BY <1>1, <1>2, <1>3 DEF Sound, Counted, Told, Answering, Freed

LEMMA NextSound ==
  ASSUME AllSound, [Next]_vars
  PROVE  AllSound'
<1>1. Typed /\ Fits /\ Typed' /\ Fits'
  BY NextTyped DEF AllSound
<1> SUFFICES ASSUME NEW r \in Requests PROVE Sound(r)'
  BY <1>1 DEF AllSound
<1>2. Sound(r)
  BY DEF AllSound
<1>3. CASE UNCHANGED vars
  <2>1. UNCHANGED <<AtServer(r), AtClient(r), toClient, toServer>> /\ Older
    BY <1>3 DEF vars, serverVars, clientVars, requestVars, responseVars, userVars, links,
                AtServer, AtClient, Older
  <2> QED
    BY <1>2, <2>1, Elsewhere, SameItself
<1>4. CASE ServerHears \/ ClientHears
  BY <1>1, <1>2, <1>4, ServerHearsOwn, ClientHearsOwn, StepElsewhere
<1>5. CASE ServerLeaves \/ ServerClosed \/ ClientLeaves \/ ClientClosed
  BY <1>1, <1>2, <1>5, SessionSound
<1>6. ASSUME NEW c \in Requests,
             \/ UserRequests(c) \/ BodyChunk(c) \/ BodyEnds(c) \/ RequestStalls(c) \/ UserReads(c)
             \/ ResponseFinishes(c) \/ UserLeaves(c) \/ ServerIdle(c)
             \/ LocalResponds(c) \/ LocalData(c) \/ LocalEnds(c) \/ LocalFails(c) \/ ClientIdle(c)
      PROVE  Sound(r)'
  <2>1. CASE c = r
    BY <1>1, <1>2, <1>6, <2>1, ServerOwn, ClientOwn
  <2>2. CASE c # r
    BY <1>1, <1>2, <1>6, <2>2, StepElsewhere
  <2> QED
    BY <2>1, <2>2
<1> QED
  BY <1>3, <1>4, <1>5, <1>6 DEF Next

(* A response that ends as a complete one after RES_END has every chunk     *)
(* that the local service produced (StreamManager.handleClientFrame,        *)
(* serve/client.js handleReqMeta), at whatever point PAUSE and RESUME,      *)
(* timeouts or a lost session fell.                                         *)
THEOREM WholeResponses == Spec => []WholeIsWhole
<1>1. AllSound => WholeIsWhole
  BY DEF AllSound, Sound, Counted, WholeIsWhole
<1> QED
  BY <1>1, InitSound, NextSound, PTL DEF Spec

(* A channel holds what it holds. *)
LEMMA HasUnderWay ==
  ASSUME NEW q \in Seq(HttpFrame), NEW types, NEW r \in Requests
  PROVE  \A t \in types : Has(q, t, r) => UnderWay(q, types, r) # {}
<1>1. \A t : Msg(t, r).type = t /\ Msg(t, r).id = r
  BY DEF Msg
<1> QED
  BY <1>1 DEF Has, UnderWay

(* The client hears of every stream the server has given up, but for a body *)
(* that stalled half way and a response whose head was refused, and of all  *)
(* of them when neither fault occurs (StreamManager's abortStream, with and *)
(* without notifying the client).                                           *)
THEOREM ClientIsTold == Spec => []ClientLearns
<1>1. ASSUME AllSound PROVE ClientLearns
  <2> SUFFICES ASSUME NEW r \in OpenAtClient, srv[r] # "open", ~Cut, ~Untold(r)
               PROVE  UnderWay(toClient, {"REQ_ABORT"}, r) # {}
    BY DEF ClientLearns
  <2>1. r \in Requests /\ Sound(r) /\ cli[r] \in {"requesting", "responding"}
    BY <1>1 DEF OpenAtClient, AllSound
  <2>2. Has(toClient, "REQ_ABORT", r)
    BY <2>1 DEF Sound, Told
  <2> QED
    BY <1>1, <2>1, <2>2, HasUnderWay DEF AllSound, Typed, LinksTyped
<1> QED
  BY <1>1, InitSound, NextSound, PTL DEF Spec

(* And the server of every stream the client has given up or refused, while *)
(* the session lasts (serve/client.js sendResAbort, at each of its calls).  *)
THEOREM ServerIsTold == Spec => []ServerLearns
<1>1. ASSUME AllSound PROVE ServerLearns
  <2> SUFFICES ASSUME NEW r \in OpenStreams, ~responseEnded[r], ~Cut, r \notin OpenAtClient
               PROVE  \/ UnderWay(toClient, {"REQ_META"}, r) # {}
                      \/ UnderWay(toServer, {"RES_END", "RES_ABORT"}, r) # {}
    BY DEF ServerLearns
  <2>1. r \in Requests /\ Sound(r) /\ srv[r] = "open" /\ cli[r] \notin {"requesting", "responding"}
    BY <1>1 DEF OpenStreams, OpenAtClient, AllSound
  <2>2. Has(toClient, "REQ_META", r) \/ Has(toServer, "RES_END", r) \/ Has(toServer, "RES_ABORT", r)
    BY <2>1 DEF Sound, Answering
  <2> QED
    BY <1>1, <2>1, <2>2, HasUnderWay DEF AllSound, Typed, LinksTyped
<1> QED
  BY <1>1, InitSound, NextSound, PTL DEF Spec

(* A response held back at the client is let go, at any speed of the user   *)
(* and of the link (HttpRouter's 'drain' handler, StreamManager's PAUSE).   *)
THEOREM ResponsesLetGo == Spec => []PauseLifted
<1>1. ASSUME AllSound PROVE PauseLifted
  <2> SUFFICES ASSUME NEW r \in Requests, peerPaused[r], ~Cut, ~Untold(r),
                      ~(responsePaused[r] /\ res[r] > 0)
               PROVE  UnderWay(toClient, {"RESUME", "REQ_ABORT"}, r) # {}
    BY DEF PauseLifted
  <2>1. Sound(r) /\ cli[r] = "responding"
    BY <1>1 DEF AllSound, Sound, Course, Begins
  <2>2. Has(toClient, "RESUME", r) \/ Has(toClient, "REQ_ABORT", r)
    BY <2>1 DEF Sound, Freed, Told
  <2> QED
    BY <1>1, <2>2, HasUnderWay DEF AllSound, Typed, LinksTyped
<1> QED
  BY <1>1, InitSound, NextSound, PTL DEF Spec

(* Of the frames of a response that are under way, RES_META is the first    *)
(* and nothing follows RES_END or RES_ABORT, whatever was sent, refused or  *)
(* given up meanwhile (TunnelClient's handleHttpRequest and its listeners). *)
THEOREM ResponsesOrderly == Spec => []Orderly
<1>1. ASSUME AllSound PROVE Orderly
  <2> SUFFICES ASSUME NEW r \in OpenStreams, NEW k \in DOMAIN toServer, toServer[k].id = r
               PROVE  LET of    == {j \in DOMAIN toServer : toServer[j].id = r}
                          first == ~responseStarted[r] /\ \A j \in of : k <= j
                          last  == ~responseEnded[r] /\ \A j \in of : j <= k IN
                      /\ toServer[k].type = "RES_META" => first
                      /\ first => toServer[k].type \in {"RES_META", "RES_ABORT"}
                      /\ toServer[k].type \in {"RES_END", "RES_ABORT"} => last
    BY DEF Orderly
  <2> DEFINE t == toServer[k].type
  <2>1. r \in Requests /\ srv[r] = "open" /\ Course(r) /\ toServer \in Seq(HttpFrame)
    BY <1>1 DEF OpenStreams, AllSound, Sound, Typed, LinksTyped
  <2>2. toServer[k] = Msg(t, r) /\ t \in FrameTypes /\ Has(toServer, t, r)
    BY <2>1, FrameForm DEF Has
  <2>3. /\ \A j \in DOMAIN toServer : toServer[j] = Msg("RES_META", r) => toServer[j].id = r
        /\ \A j, i \in DOMAIN toServer : j \in Int /\ (j < i => ~(i <= j))
    BY <2>1 DEF Msg
  <2> HIDE DEF t
  <2>4. t \in Answers
    BY <2>1, <2>2 DEF Course, Responds
  <2>5. t = "RES_META" =>
          ~responseStarted[r] /\ \A j \in DOMAIN toServer : toServer[j].id = r => k <= j
    BY <2>1, <2>2 DEF Course, Responds, First
  <2>6. ~responseStarted[r] /\ (\A j \in DOMAIN toServer : toServer[j].id = r => k <= j) =>
          t \notin {"RES_DATA", "RES_END"}
    BY <2>1, <2>2, <2>3 DEF Course, Responds, Headed
  <2>7. t \in {"RES_END", "RES_ABORT"} =>
          ~responseEnded[r] /\ \A j \in DOMAIN toServer : toServer[j].id = r => j <= k
    BY <2>1, <2>2 DEF Course, Finishes, Final, Silent
  <2> QED
    BY <2>4, <2>5, <2>6, <2>7 DEF t, Answers
<1> QED
  BY <1>1, InitSound, NextSound, PTL DEF Spec
=============================================================================

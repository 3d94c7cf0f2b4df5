----------------------------- MODULE HttpTunnel -----------------------------
(***************************************************************************)
(* HTTP requests through the tunnel: HttpRouter, the HTTP streams of       *)
(* StreamManager and WsFrameWriter at the server, serve/client.js at the   *)
(* client, one WebSocket session between them.  A request is used once, so *)
(* its name stands for its stream id; its body and its response are so     *)
(* many chunks.                                                            *)
(*                                                                         *)
(* An end of the WebSocket goes open -> closing -> closed: in "closing"    *)
(* nothing is sent any more but frames are still handled, until the        *)
(* 'close' event.  The idle timers, the wait for a WebSocket to drain and  *)
(* the local request's timeout may expire at any moment.  Requests the     *)
(* server answers itself (health, installer, configuration) are left out.  *)
(***************************************************************************)
EXTENDS Naturals, FiniteSets, SequencesExt

CONSTANTS
  Requests,
  BodyLens,     \* how many chunks the body of a request may have
  ResponseLen,  \* chunks in the body of each response
  MaxStreams,   \* the server's MAX_CONCURRENT_STREAMS
  MaxLocal,     \* the client's MAX_CONCURRENT_STREAMS
  MaxOthers,    \* TCP streams in the table of either end, which count as well
  ResMark,      \* highWaterMark of a response
  MaxDest,      \* MAX_DEST_BUFFER_BYTES
  Faults        \* of "link", "local_fails", "user_leaves", "server_idle",
                \* "client_idle", "drain_timeout", "bad_headers"

ASSUME HttpAssumption ==
  /\ IsFiniteSet(Requests)
  /\ BodyLens \subseteq Nat /\ ResponseLen \in [Requests -> Nat]
  /\ MaxStreams \in Nat /\ MaxLocal \in Nat /\ MaxOthers \in Nat /\ ResMark \in Nat \ {0} /\ MaxDest \in Nat

VARIABLES
  srv,              \* the server's stream: new, open or closed
  body,             \* chunks of the request's body not yet sent
  requestEnded,     \* the fields of the server's stream
  responseStarted, responseEnded, responsePaused,
  res,              \* chunks written to the response and not yet on the wire
  outcome, got,     \* what the end user has of the response
  cli,              \* the client's stream
  asked,            \* the local service has the end of the request
  produced,         \* chunks of the response sent
  peerPaused,       \* the response writer's peerPaused
  serverWs, clientWs,    \* readyState at either end
  toClient, toServer     \* frames under way

requestVars  == <<body, requestEnded>>
responseVars == <<responseStarted, responseEnded, responsePaused, res>>
userVars     == <<outcome, got>>
serverVars   == <<srv, requestVars, responseVars, userVars>>
clientVars   == <<cli, asked, produced, peerPaused>>
links        == <<serverWs, clientWs>>
vars         == <<serverVars, clientVars, links, toClient, toServer>>

FrameTypes == {"REQ_META", "REQ_DATA", "REQ_END", "REQ_ABORT",
               "RES_META", "RES_DATA", "RES_END", "RES_ABORT", "PAUSE", "RESUME"}
HttpFrame  == [type : FrameTypes, id : Requests]
Msg(t, r)  == [type |-> t, id |-> r]

WsState == {"open", "closing", "closed"}
Outcome == {"none", "waiting", "started", "ending",     \* still to come
            "whole", "short", "cut", "error", "left"}   \* over

May(fault) == fault \in Faults

Init ==
  /\ srv = [r \in Requests |-> "new"] /\ cli = [r \in Requests |-> "none"]
  /\ body \in [Requests -> BodyLens]
  /\ outcome = [r \in Requests |-> "none"]
  /\ requestEnded = [r \in Requests |-> FALSE] /\ responseStarted = [r \in Requests |-> FALSE]
  /\ responseEnded = [r \in Requests |-> FALSE] /\ responsePaused = [r \in Requests |-> FALSE]
  /\ asked = [r \in Requests |-> FALSE] /\ peerPaused = [r \in Requests |-> FALSE]
  /\ res = [r \in Requests |-> 0] /\ got = [r \in Requests |-> 0]
  /\ produced = [r \in Requests |-> 0]
  /\ serverWs = "open" /\ clientWs = "open"
  /\ toClient = <<>> /\ toServer = <<>>

Set(f, r, v) == [f EXCEPT ![r] = v]

(* sendFrame, at either end.                                                *)
ToClient(fs) == toClient' = IF serverWs = "open" THEN toClient \o fs ELSE toClient
ToServer(fs) == toServer' = IF clientWs = "open" THEN toServer \o fs ELSE toServer

ServerOnly == UNCHANGED <<clientVars, links, toServer>>
ClientOnly == UNCHANGED <<serverVars, links, toClient>>

-----------------------------------------------------------------------------
(* The end of a stream at the server.                                       *)

OpenStreams == {r \in Requests : srv[r] = "open"}

(* cleanupStream destroys the request.  If its body has not been read this  *)
(* destroys the connection, with what the response still had to send.       *)
Left(r, o) == IF requestEnded[r] \/ o = "error" THEN o ELSE "cut"

(* What abortStream leaves the user with: an error page, a response cut     *)
(* off, or a complete one that is still being sent.                         *)
AbortedOutcome(r) ==
  IF ~responseStarted[r] THEN "error"
  ELSE IF ~responseEnded[r] THEN "cut" ELSE Left(r, outcome[r])

(* Whether what was written to the response still reaches the user.         *)
Kept(r, o) == IF o \in {"ending", "short"} THEN res[r] ELSE 0

Close(r, o) ==
  /\ srv' = Set(srv, r, "closed")
  /\ outcome' = Set(outcome, r, o)
  /\ res' = Set(res, r, Kept(r, o))
  /\ responsePaused' = Set(responsePaused, r, FALSE)
  /\ UNCHANGED <<requestVars, responseStarted, responseEnded, got>>

AbortQuiet(r, notify) ==  \* mutant: the client is never told
  /\ Close(r, IF outcome[r] = "left" THEN "left" ELSE AbortedOutcome(r))
  /\ UNCHANGED toClient

Abort(r, notify) ==
  /\ Close(r, IF outcome[r] = "left" THEN "left" ELSE AbortedOutcome(r))
  /\ ToClient(IF notify THEN <<Msg("REQ_ABORT", r)>> ELSE <<>>)

-----------------------------------------------------------------------------
(* HttpRouter._proxyHttpRequest and the events of request and response.     *)

Admits(others) == Cardinality(OpenStreams) + others < MaxStreams /\ serverWs = "open"

(* The table it counts holds TCP streams too.                               *)
UserRequests(r) ==
  /\ srv[r] = "new" /\ ServerOnly
  /\ \E others \in 0..MaxOthers :
       IF Admits(others)
       THEN /\ srv' = Set(srv, r, "open")
            /\ outcome' = Set(outcome, r, "waiting")
            /\ ToClient(<<Msg("REQ_META", r)>>)
       ELSE /\ srv' = Set(srv, r, "closed")
            /\ outcome' = Set(outcome, r, "error")
            /\ UNCHANGED toClient
  /\ UNCHANGED <<requestVars, responseVars, got>>

HasMoreLate(r) == body[r] >= 0    \* mutant: one chunk too many
HasMore(r)     == body[r] > 0

BodyChunk(r) ==   \* requestWriter; its error handler tells the client nothing
  /\ srv[r] = "open" /\ HasMore(r) /\ ServerOnly
  /\ IF serverWs = "open"
     THEN /\ body' = Set(body, r, body[r] - 1)
          /\ ToClient(<<Msg("REQ_DATA", r)>>)
          /\ UNCHANGED <<srv, requestEnded, responseVars, userVars>>
     ELSE Abort(r, FALSE)

BodyEnds(r) ==
  /\ srv[r] = "open" /\ body[r] = 0 /\ ~requestEnded[r] /\ ServerOnly
  /\ requestEnded' = Set(requestEnded, r, TRUE)
  /\ ToClient(<<Msg("REQ_END", r)>>)
  /\ UNCHANGED <<srv, body, responseVars, userVars>>

RequestStalls(r) ==   \* waitDrain times out
  /\ May("drain_timeout") /\ srv[r] = "open" /\ HasMore(r)
  /\ Abort(r, FALSE) /\ ServerOnly

DrainedQuietly(r) == FALSE    \* mutant: no RESUME
Drained(r)        == res[r] = 1 /\ responsePaused[r] /\ ~responseEnded[r]

UserReads(r) ==   \* 'drain' when nothing is left to write, but not after the end
  /\ res[r] > 0 /\ outcome[r] \in {"started", "ending", "short"} /\ ServerOnly
  /\ res' = Set(res, r, res[r] - 1)
  /\ got' = Set(got, r, got[r] + 1)
  /\ IF Drained(r)
     THEN responsePaused' = Set(responsePaused, r, FALSE) /\ ToClient(<<Msg("RESUME", r)>>)
     ELSE UNCHANGED <<responsePaused, toClient>>
  /\ UNCHANGED <<srv, requestVars, responseStarted, responseEnded, outcome>>

ResponseFinishes(r) ==   \* 'finish'
  /\ outcome[r] = "ending" /\ res[r] = 0 /\ ServerOnly
  /\ Close(r, "whole")
  /\ UNCHANGED toClient

UserLeaves(r) ==   \* request and response emit 'close'; after the response's end
                   \* only a request that was still being read ends the stream
  /\ May("user_leaves") /\ outcome[r] \in {"waiting", "started", "ending"} /\ ServerOnly
  /\ IF srv[r] = "open" /\ (~responseEnded[r] \/ ~requestEnded[r])
     THEN Close(r, "left") /\ ToClient(<<Msg("REQ_ABORT", r)>>)
     ELSE /\ outcome' = Set(outcome, r, "left")
          /\ res' = Set(res, r, 0)
          /\ UNCHANGED <<srv, requestVars, responseStarted, responseEnded, responsePaused,
                         got, toClient>>

ServerIdle(r) ==
  May("server_idle") /\ srv[r] = "open" /\ Abort(r, TRUE) /\ ServerOnly

-----------------------------------------------------------------------------
(* Frames from the client: StreamManager.handleClientFrame.                 *)

ResMeta(r) ==
  IF responseStarted[r] THEN Abort(r, FALSE)
  ELSE \/ May("bad_headers") /\ Abort(r, FALSE)
       \/ /\ responseStarted' = Set(responseStarted, r, TRUE)
          /\ outcome' = Set(outcome, r, "started")
          /\ UNCHANGED <<srv, requestVars, responseEnded, responsePaused, res, got, toClient>>

NeverTooMuch(r) == FALSE  \* mutant: no limit on the response's buffer
TooMuch(r)      == res[r] > MaxDest

ResData(r) ==
  IF ~responseStarted[r] THEN Abort(r, FALSE)
  ELSE IF responseEnded[r] THEN UNCHANGED <<serverVars, toClient>>
  ELSE IF TooMuch(r) THEN Abort(r, TRUE)
  ELSE /\ res' = Set(res, r, res[r] + 1)
       /\ IF res'[r] >= ResMark /\ ~responsePaused[r]
          THEN responsePaused' = Set(responsePaused, r, TRUE) /\ ToClient(<<Msg("PAUSE", r)>>)
          ELSE UNCHANGED <<responsePaused, toClient>>
       /\ UNCHANGED <<srv, requestVars, responseStarted, responseEnded, userVars>>

ResEnd(r) ==
  IF ~responseStarted[r] THEN Abort(r, FALSE)
  ELSE /\ responseEnded' = Set(responseEnded, r, TRUE)
       /\ outcome' = IF responseEnded[r] THEN outcome ELSE Set(outcome, r, "ending")
       /\ UNCHANGED <<srv, requestVars, responseStarted, responsePaused, res, got, toClient>>

ResAbort(r) ==   \* a response that had started is ended as a complete one is
  LET o == IF ~responseStarted[r] THEN "error"
           ELSE IF ~responseEnded[r] THEN Left(r, "short") ELSE Left(r, outcome[r]) IN
  /\ Close(r, o)
  /\ UNCHANGED toClient

OnClientFrame(f) ==
  IF srv[f.id] # "open" THEN UNCHANGED <<serverVars, toClient>>
  ELSE \/ f.type = "RES_META"  /\ ResMeta(f.id)
       \/ f.type = "RES_DATA"  /\ ResData(f.id)
       \/ f.type = "RES_END"   /\ ResEnd(f.id)
       \/ f.type = "RES_ABORT" /\ ResAbort(f.id)

ServerHears ==
  /\ serverWs # "closed" /\ toServer # <<>>
  /\ toServer' = Tail(toServer)
  /\ OnClientFrame(Head(toServer))
  /\ UNCHANGED <<clientVars, links>>

-----------------------------------------------------------------------------
(* The client: handleServerFrame, the local request and its response.       *)

OpenAtClient == {r \in Requests : cli[r] \in {"requesting", "responding"}}

Forget(r) == cli' = Set(cli, r, "closed") /\ peerPaused' = Set(peerPaused, r, FALSE)

SendResAbort(r) ==
  /\ Forget(r)
  /\ ToServer(<<Msg("RES_ABORT", r)>>)
  /\ UNCHANGED <<asked, produced>>

Request(r) ==
  /\ cli' = Set(cli, r, "requesting")
  /\ asked' = Set(asked, r, TRUE)
  /\ UNCHANGED <<produced, peerPaused, toServer>>

AtLimit(others) == Cardinality(OpenAtClient) + others >= MaxLocal

ReqMetaUnanswered(r) ==  \* mutant: at the limit nothing is said
  \E others \in 0..MaxOthers :
    \/ AtLimit(others)  /\ UNCHANGED <<clientVars, toServer>>
    \/ ~AtLimit(others) /\ Request(r)

(* handleReqMeta.  This table, too, holds TCP streams, which come and go    *)
(* on their own.  bodyLength is in no REQ_META the server sends, so  *)
(* the local request is ended at once.                                      *)
ReqMeta(r) ==
  \E others \in 0..MaxOthers :
    \/ AtLimit(others)  /\ ToServer(<<Msg("RES_ABORT", r)>>) /\ UNCHANGED clientVars
    \/ ~AtLimit(others) /\ Request(r)

(* handleReqData: the write fails with 'write after end', but a request     *)
(* whose response has arrived whole is destroyed, and drops it in silence.  *)
ReqData(r) ==
  IF asked[r]
  THEN \/ SendResAbort(r)
       \/ cli[r] = "responding" /\ UNCHANGED <<clientVars, toServer>>
  ELSE UNCHANGED <<clientVars, toServer>>

ReqEnd(r) ==
  asked' = Set(asked, r, TRUE) /\ UNCHANGED <<cli, produced, peerPaused, toServer>>

PeerPaused(r, p) ==   \* there is a response writer
  /\ peerPaused' = Set(peerPaused, r, p /\ cli[r] = "responding")
  /\ UNCHANGED <<cli, asked, produced, toServer>>

OnServerFrame(f) ==
  IF f.type = "REQ_META" THEN ReqMeta(f.id)
  ELSE IF f.id \notin OpenAtClient THEN UNCHANGED <<clientVars, toServer>>
  ELSE \/ f.type = "REQ_DATA"  /\ ReqData(f.id)
       \/ f.type = "REQ_END"   /\ ReqEnd(f.id)
       \/ f.type = "REQ_ABORT" /\ Forget(f.id) /\ UNCHANGED <<asked, produced, toServer>>
       \/ f.type = "PAUSE"     /\ PeerPaused(f.id, TRUE)
       \/ f.type = "RESUME"    /\ PeerPaused(f.id, FALSE)

ClientHears ==
  /\ clientWs # "closed" /\ toClient # <<>>
  /\ toClient' = Tail(toClient)
  /\ OnServerFrame(Head(toClient))
  /\ UNCHANGED <<serverVars, links>>

LocalRespondsBare(r) ==  \* mutant: no RES_META
  /\ cli[r] = "requesting" /\ ClientOnly
  /\ cli' = Set(cli, r, "responding")
  /\ UNCHANGED <<asked, produced, peerPaused, toServer>>

LocalResponds(r) ==
  /\ cli[r] = "requesting" /\ ClientOnly
  /\ cli' = Set(cli, r, "responding")
  /\ ToServer(<<Msg("RES_META", r)>>)
  /\ UNCHANGED <<asked, produced, peerPaused>>

LocalData(r) ==   \* a chunk goes through the response writer
  /\ cli[r] = "responding" /\ produced[r] < ResponseLen[r] /\ ~peerPaused[r] /\ ClientOnly
  /\ IF clientWs = "open"
     THEN /\ produced' = Set(produced, r, produced[r] + 1)
          /\ ToServer(<<Msg("RES_DATA", r)>>)
          /\ UNCHANGED <<cli, asked, peerPaused>>
     ELSE SendResAbort(r)

LocalEndsEarly(r) ==     \* mutant: 'finish' with a chunk held back by PAUSE
  /\ cli[r] = "responding" /\ (produced[r] = ResponseLen[r] \/ peerPaused[r]) /\ ClientOnly
  /\ Forget(r)
  /\ ToServer(<<Msg("RES_END", r)>>)
  /\ UNCHANGED <<asked, produced>>

LocalEnds(r) ==   \* 'finish' of the response writer
  /\ cli[r] = "responding" /\ produced[r] = ResponseLen[r] /\ ClientOnly
  /\ Forget(r)
  /\ ToServer(<<Msg("RES_END", r)>>)
  /\ UNCHANGED <<asked, produced>>

LocalFails(r) ==  \* an error or timeout of the local request, its response or the writer
  May("local_fails") /\ r \in OpenAtClient /\ SendResAbort(r) /\ ClientOnly

ClientIdle(r) ==
  May("client_idle") /\ r \in OpenAtClient /\ SendResAbort(r) /\ ClientOnly

-----------------------------------------------------------------------------
(* The session.                                                             *)

ServerLeaves ==
  /\ serverWs = "open" /\ (May("link") \/ clientWs # "open")
  /\ serverWs' = "closing"
  /\ UNCHANGED <<serverVars, clientVars, clientWs, toClient, toServer>>

(* cleanupStreamsForWs: every stream is aborted without a word.             *)
ServerClosed ==
  /\ serverWs = "closing" /\ serverWs' = "closed"
  /\ srv' = [r \in Requests |-> IF r \in OpenStreams THEN "closed" ELSE srv[r]]
  /\ outcome' = [r \in Requests |-> IF r \in OpenStreams /\ outcome[r] # "left"
                                    THEN AbortedOutcome(r) ELSE outcome[r]]
  /\ res' = [r \in Requests |-> Kept(r, outcome'[r])]
  /\ responsePaused' = [r \in Requests |-> FALSE]
  /\ UNCHANGED <<requestVars, responseStarted, responseEnded, got, clientVars, clientWs,
                 toClient, toServer>>

ClientLeaves ==
  /\ clientWs = "open" /\ (May("link") \/ serverWs # "open")
  /\ clientWs' = "closing"
  /\ UNCHANGED <<serverVars, clientVars, serverWs, toClient, toServer>>

ClientClosed ==   \* cleanupAllStreams
  /\ clientWs = "closing" /\ clientWs' = "closed"
  /\ cli' = [r \in Requests |-> IF r \in OpenAtClient THEN "closed" ELSE cli[r]]
  /\ peerPaused' = [r \in Requests |-> FALSE]
  /\ UNCHANGED <<serverVars, asked, produced, serverWs, toClient, toServer>>

-----------------------------------------------------------------------------
Next ==
  \/ \E r \in Requests :
       \/ UserRequests(r) \/ BodyChunk(r) \/ BodyEnds(r) \/ RequestStalls(r) \/ UserReads(r)
       \/ ResponseFinishes(r) \/ UserLeaves(r) \/ ServerIdle(r)
       \/ LocalResponds(r) \/ LocalData(r) \/ LocalEnds(r) \/ LocalFails(r) \/ ClientIdle(r)
  \/ ServerHears \/ ClientHears
  \/ ServerLeaves \/ ServerClosed \/ ClientLeaves \/ ClientClosed

(* Frames are delivered, an end that was left is noticed, the user sends    *)
(* the body and reads the response, the local service responds and ends.    *)
Fairness ==
  /\ WF_vars(ServerHears) /\ WF_vars(ClientHears)
  /\ WF_vars(ServerLeaves /\ clientWs # "open") /\ WF_vars(ServerClosed)
  /\ WF_vars(ClientLeaves /\ serverWs # "open") /\ WF_vars(ClientClosed)
  /\ \A r \in Requests :
       /\ WF_vars(BodyChunk(r)) /\ WF_vars(BodyEnds(r)) /\ WF_vars(UserReads(r))
       /\ WF_vars(ResponseFinishes(r))
       /\ WF_vars(LocalResponds(r)) /\ WF_vars(LocalData(r)) /\ WF_vars(LocalEnds(r))

Spec == Init /\ [][Next]_vars
FairSpec == Spec /\ Fairness

-----------------------------------------------------------------------------
(* Properties.                                                              *)

(* The type invariant of both ends.                                         *)
TypeOK ==
  /\ srv \in [Requests -> {"new", "open", "closed"}]
  /\ cli \in [Requests -> {"none", "requesting", "responding", "closed"}]
  /\ outcome \in [Requests -> Outcome]
  /\ {requestEnded, responseStarted, responseEnded, responsePaused, asked, peerPaused}
       \subseteq [Requests -> BOOLEAN]
  /\ {body, res, got, produced} \subseteq [Requests -> Nat]
  /\ serverWs \in WsState /\ clientWs \in WsState
  /\ toClient \in Seq(HttpFrame) /\ toServer \in Seq(HttpFrame)

UnderWay(q, types, r) == {k \in DOMAIN q : q[k].type \in types /\ q[k].id = r}
Cut == serverWs # "open" \/ clientWs # "open"

(* The frames of a response arrive as the server expects them: RES_META     *)
(* first and once, nothing after RES_END or RES_ABORT.  None of the aborts  *)
(* for a frame out of place is ever taken.                                  *)
Orderly ==
  \A r \in OpenStreams : \A k \in DOMAIN toServer : toServer[k].id = r =>
    LET of    == {j \in DOMAIN toServer : toServer[j].id = r}
        first == ~responseStarted[r] /\ \A j \in of : k <= j
        last  == ~responseEnded[r] /\ \A j \in of : j <= k IN
    /\ toServer[k].type = "RES_META" => first
    /\ first => toServer[k].type \in {"RES_META", "RES_ABORT"}
    /\ toServer[k].type \in {"RES_END", "RES_ABORT"} => last

(* A response that ends as a complete one after RES_END is complete: every  *)
(* chunk the local service produced has reached the user, whatever PAUSE    *)
(* and RESUME did on the way.                                               *)
WholeIsWhole == \A r \in Requests : outcome[r] = "whole" => got[r] = ResponseLen[r]

(* The response's buffer at the server is bounded: the client hears PAUSE   *)
(* in time or the stream is aborted.                                        *)
ResponseBounded == \A r \in Requests : res[r] <= MaxDest + 1

(* The client learns of the end of every stream the server has given up,    *)
(* but for two it is not told of: a request whose body stalled half way,    *)
(* and a response whose head was refused, which goes on to its end unheard. *)
Untold(r) ==
  \/ May("drain_timeout") /\ srv[r] = "closed" /\ body[r] > 0 /\ outcome[r] \in {"error", "cut"}
  \/ May("bad_headers") /\ outcome[r] = "error" /\ cli[r] = "responding"

ClientLearns ==
  \A r \in OpenAtClient :
    srv[r] = "open" \/ Cut \/ Untold(r) \/ UnderWay(toClient, {"REQ_ABORT"}, r) # {}

(* And the server of every stream the client has given up or refused.       *)
ServerLearns ==
  \A r \in OpenStreams :
    \/ responseEnded[r] \/ Cut \/ r \in OpenAtClient
    \/ UnderWay(toClient, {"REQ_META"}, r) # {}
    \/ UnderWay(toServer, {"RES_END", "RES_ABORT"}, r) # {}

(* A response held back at the client is let go: the server still has       *)
(* chunks of it to write, whose 'drain' sends RESUME, or a RESUME or the    *)
(* end of the stream is under way.  The streams whose end the client is not *)
(* told of stay held back until its idle timer.                             *)
PauseLifted ==
  \A r \in Requests : peerPaused[r] =>
    \/ responsePaused[r] /\ res[r] > 0
    \/ Cut \/ Untold(r) \/ UnderWay(toClient, {"RESUME", "REQ_ABORT"}, r) # {}

(* Every request is answered: the user gets a response, an error or a       *)
(* closed connection, though no idle timer expires.                         *)
Answered ==
  \A r \in Requests :
    (outcome[r] \in {"waiting", "started", "ending"}) ~>
      (outcome[r] \notin {"waiting", "started", "ending"})

(* The body of a request is passed on: the local service sees the end of a  *)
(* request only when nothing of its body is still to come.                  *)
BodyDelivered ==
  \A r \in Requests : asked[r] => body[r] = 0 /\ UnderWay(toClient, {"REQ_DATA"}, r) = {}
=============================================================================

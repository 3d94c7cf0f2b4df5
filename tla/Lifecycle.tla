----------------------------- MODULE Lifecycle -----------------------------
(***************************************************************************)
(* The life of the processes and of the WebSocket sessions between them:   *)
(* serve/client.js and serve/tcp-agent.js connect, report that they are    *)
(* ready, reconnect and shut down; TunnelServer with ClientManager and     *)
(* TcpAgentServer admits or refuses sessions, finds dead ones by its       *)
(* heartbeat and shuts down by its own timers.                             *)
(*                                                                         *)
(* A process has a few links, one for each of its WebSockets that one end  *)
(* or the other still holds: own is its end, end the server's.  A link may *)
(* be cut silently: neither end hears of the other any more.  The handlers *)
(* of a WebSocket run as the events of its own link, while the variable ws *)
(* of the code (cur) already names the next one.                           *)
(*                                                                         *)
(* Delays are not modelled, but for the order of the server's five and ten *)
(* seconds.                                                                *)
(***************************************************************************)
EXTENDS Naturals, FiniteSets

CONSTANTS
  Clients, Agents,
  Ports,        \* the agents' listeners, requestedPorts
  Links,        \* the WebSockets of a process
  FirstLink,
  MaxClients,   \* MAX_TUNNEL_CLIENTS
  MaxFaults,    \* for each set of processes a run may start, the faults in it
  Faults        \* of "break", "cut", "crash", "stop", "unreachable", "listener", "credentials"

ASSUME LifecycleAssumption ==
  /\ IsFiniteSet(Clients) /\ IsFiniteSet(Agents) /\ Clients \cap Agents = {}
  /\ FirstLink \in Links
  /\ MaxClients \in Nat
  /\ DOMAIN MaxFaults \subseteq SUBSET (Clients \cup Agents)
  /\ MaxFaults \in [DOMAIN MaxFaults -> Nat]

Procs == Clients \cup Agents

VARIABLES
  proc,        \* running, stopping (shuttingDown) or exited
  timer,       \* reconnectTimer is pending
  authFailed,
  ready,       \* the ready file exists
  cur,         \* the link of the variable ws
  own,         \* readyState at the process, and before it is open
  listener,    \* the agent's listeners
  troubled,    \* history: a listener has failed in this session
  end,         \* the server's end
  cut,         \* links cut silently
  trusted,     \* the server accepts the process's credentials
  server,      \* up, closing, or how it ended
  fifth,       \* five seconds of the shutdown have passed
  draining,    \* TcpRouter.close waits for streams it has aborted
  user,        \* an end user's connection is open during the shutdown
  left         \* faults still to come

procVars   == <<proc, timer, authFailed, ready, cur, listener, troubled>>
serverVars == <<trusted, server, fifth, draining, user>>
vars       == <<procVars, own, end, cut, serverVars, left>>

Live     == {"connecting", "accepted", "open"}      \* accepted: 'open' is still to come
Own      == Live \cup {"none", "closing"}           \* closing: 'close' is still to come
End      == {"none", "registered", "turned", "leaving"}
Listener == {"binding", "listening", "closed"}
Down     == {"clean", "held", "forced", "crash"}

LiveOf(p) == {k \in Links : own[p][k] \in Live}
Held       == {h \in Procs \X Links : end[h[1]][h[2]] # "none"}
Registered == {h \in Clients \X Links : end[h[1]][h[2]] = "registered"}

Init ==
  /\ \E S \in DOMAIN MaxFaults :
       /\ left = MaxFaults[S]
       /\ proc = [p \in Procs |-> IF p \in S THEN "running" ELSE "exited"]
       /\ own = [p \in Procs |-> [k \in Links |->
                   IF p \in S /\ k = FirstLink THEN "connecting" ELSE "none"]]
  /\ timer = [p \in Procs |-> FALSE]
  /\ authFailed = [p \in Procs |-> FALSE] /\ ready = [p \in Procs |-> FALSE]
  /\ cur = [p \in Procs |-> FirstLink]
  /\ listener = [a \in Agents |-> [q \in Ports |-> "binding"]]
  /\ troubled = [p \in Procs |-> FALSE]
  /\ end = [p \in Procs |-> [k \in Links |-> "none"]] /\ cut = {}
  /\ trusted = [p \in Procs |-> TRUE]
  /\ server \in {"up", "clean"}
  /\ fifth = FALSE /\ draining = FALSE /\ user = FALSE

Fault(f) == f \in Faults /\ left > 0 /\ left' = left - 1
NoFault  == UNCHANGED left

-----------------------------------------------------------------------------
(* Readiness.                                                               *)

EligibleOpen(p) ==               \* mutant: the listeners are not looked at
  p \in Clients \/ (proc[p] = "running" /\ own'[p][cur[p]] = "open")

Eligible(p) ==                   \* markReadyIfEligible; a client looks at nothing
  \/ p \in Clients
  \/ proc[p] = "running" /\ own'[p][cur[p]] = "open" /\ \A q \in Ports : listener'[p][q] = "listening"

-----------------------------------------------------------------------------
(* The session at the process: connect and the events of a WebSocket.       *)

Schedule(p) ==                   \* scheduleReconnect
  timer' = [timer EXCEPT ![p] = @ \/ (proc[p] = "running" /\ ~authFailed'[p])]

(* 'close'.                                                                 *)
OnClose(p, k) ==
  /\ own' = [own EXCEPT ![p][k] = "none"]
  /\ ready' = [ready EXCEPT ![p] = FALSE]
  /\ Schedule(p)
  /\ UNCHANGED <<proc, cur, listener, troubled, cut, serverVars>>

Left(s) == IF s \in Live THEN "closing" ELSE s      \* ws.close()

Connect(p) ==
  \E k \in Links :
    /\ own[p][k] = "none" /\ end[p][k] = "none"
    /\ own' = [own EXCEPT ![p] = [j \in Links |-> IF j = k THEN "connecting"
                                                  ELSE IF j = cur[p] THEN Left(@[j]) ELSE @[j]]]
    /\ cur' = [cur EXCEPT ![p] = k]
    /\ cut' = cut \ {<<p, k>>}
    /\ timer' = [timer EXCEPT ![p] = FALSE]
    /\ UNCHANGED <<proc, authFailed, ready, listener, troubled, end, serverVars, left>>

TimerFires(p) == timer[p] /\ proc[p] # "exited" /\ Connect(p)

Opens(p, k) ==                   \* 'open'
  /\ own[p][k] = "accepted"
  /\ own' = [own EXCEPT ![p][k] = "open"]
  /\ authFailed' = [authFailed EXCEPT ![p] = FALSE]
  /\ troubled' = [troubled EXCEPT ![p] = FALSE]
  /\ UNCHANGED <<proc, timer, cur, listener, end, cut, serverVars, left>>
  /\ ready' = [ready EXCEPT ![p] = @ \/ Eligible(p)]

Unreachable(p, k) ==             \* 'error' and 'close': refused, 503 or handshakeTimeout
  /\ own[p][k] = "connecting"
  /\ IF server = "up" THEN Fault("unreachable") ELSE NoFault
  /\ UNCHANGED <<authFailed, end>>
  /\ OnClose(p, k)

Unauthorized(p, k) ==            \* 'error' with 401, and 'close'
  /\ own[p][k] = "connecting" /\ server = "up" /\ ~trusted[p]
  /\ authFailed' = [authFailed EXCEPT ![p] = TRUE]
  /\ OnClose(p, k)
  /\ UNCHANGED <<end, left>>

(* The WebSocket leaves OPEN: a close frame or the end of the connection    *)
(* arrives, or an own ping or frame finds the link dead.                    *)
Leaves(p, k) ==
  /\ own' = [own EXCEPT ![p][k] = "closing"]
  /\ UNCHANGED <<procVars, cut, serverVars>>

PeerLeaves(p, k) ==
  /\ own[p][k] = "open" /\ end[p][k] # "registered" /\ <<p, k>> \notin cut
  /\ Leaves(p, k) /\ UNCHANGED <<end, left>>

NoticesCut(p, k) ==
  /\ own[p][k] = "open" /\ <<p, k>> \in cut
  /\ Leaves(p, k) /\ UNCHANGED <<end, left>>

Closes(p, k) ==
  /\ own[p][k] = "closing"
  /\ UNCHANGED <<authFailed, end, left>>
  /\ OnClose(p, k)

-----------------------------------------------------------------------------
(* Shutdown of a process.                                                   *)

ShutdownLeavesTimer(p) ==        \* mutant: a pending reconnect is not cancelled
  /\ proc' = [proc EXCEPT ![p] = "stopping"]
  /\ ready' = [ready EXCEPT ![p] = FALSE]
  /\ own' = [own EXCEPT ![p][cur[p]] = Left(@)]
  /\ listener' = [a \in Agents |-> IF a = p THEN [q \in Ports |->
                    IF listener[a][q] = "binding" THEN "binding" ELSE "closed"] ELSE listener[a]]
  /\ UNCHANGED <<timer, authFailed, cur, troubled, end, cut, serverVars>>

Shutdown(p) ==
  /\ proc' = [proc EXCEPT ![p] = "stopping"]
  /\ ready' = [ready EXCEPT ![p] = FALSE]
  /\ timer' = [timer EXCEPT ![p] = FALSE]
  /\ own' = [own EXCEPT ![p][cur[p]] = Left(@)]
  /\ listener' = [a \in Agents |-> IF a = p THEN [q \in Ports |->
                    IF listener[a][q] = "binding" THEN "binding" ELSE "closed"] ELSE listener[a]]
  /\ UNCHANGED <<authFailed, cur, troubled, end, cut, serverVars>>

Signalled(p) == proc[p] = "running" /\ Shutdown(p) /\ NoFault     \* SIGTERM or SIGINT

(* After 50 ms; or a client that has failed to authenticate has nothing     *)
(* left to wait for.                                                        *)
Exits(p) ==
  /\ \/ proc[p] = "stopping"
     \/ proc[p] = "running" /\ p \in Clients /\ ~timer[p] /\ \A k \in Links : own[p][k] = "none"
  /\ proc' = [proc EXCEPT ![p] = "exited"]
  /\ own' = [own EXCEPT ![p] = [k \in Links |-> "none"]]
  /\ listener' = [a \in Agents |-> IF a = p THEN [q \in Ports |-> "closed"] ELSE listener[a]]
  /\ UNCHANGED <<timer, authFailed, ready, cur, troubled, end, cut, serverVars, left>>

-----------------------------------------------------------------------------
(* The agent's listeners.                                                   *)

ListenerUp(a, q) ==              \* 'listening', which may come after shutdown
  /\ proc[a] # "exited" /\ listener[a][q] = "binding"
  /\ listener' = [listener EXCEPT ![a][q] = "listening"]
  /\ UNCHANGED <<proc, timer, authFailed, cur, troubled, own, end, cut, serverVars, left>>
  /\ ready' = [ready EXCEPT ![a] = @ \/ Eligible(a)]

(* 'error': the port cannot be bound, or accepting a connection fails.  An  *)
(* agent that is not ready gives up, whatever it was before.                *)
ListenerFails(a, q) ==
  /\ proc[a] = "running" /\ listener[a][q] \in {"binding", "listening"} /\ Fault("listener")
  /\ IF ready[a]
     THEN /\ ready' = [ready EXCEPT ![a] = FALSE]
          /\ troubled' = [troubled EXCEPT ![a] = TRUE]
          /\ UNCHANGED <<proc, timer, authFailed, cur, listener, own, end, cut, serverVars>>
     ELSE Shutdown(a)

-----------------------------------------------------------------------------
(* The server: HttpRouter.handleUpgrade, addClient and handleConnection,    *)
(* heartbeats and 'close'.                                                  *)

FullLate == Cardinality(Registered) > MaxClients    \* mutant: off by one
Full     == Cardinality(Registered) >= MaxClients

Accepts(p, k) ==
  /\ own[p][k] = "connecting" /\ server = "up" /\ trusted[p]
  /\ own' = [own EXCEPT ![p][k] = "accepted"]
  /\ end' = [end EXCEPT ![p][k] = IF p \in Clients /\ Full THEN "turned" ELSE "registered"]
  /\ UNCHANGED <<procVars, cut, serverVars, left>>

EndGone(p, k) ==
  /\ end' = [end EXCEPT ![p][k] = "none"]
  /\ UNCHANGED <<procVars, own, cut, serverVars, left>>

EndLearns(p, k) ==               \* 'close'
  /\ end[p][k] # "none" /\ own[p][k] \in {"none", "closing"} /\ <<p, k>> \notin cut
  /\ EndGone(p, k)

HeartbeatPings(p, k) == FALSE    \* mutant: a WebSocket that is silent is not terminated
Heartbeat(p, k) ==               \* no pong since the last ping: terminate, 'close'
  /\ server = "up" /\ end[p][k] = "registered" /\ <<p, k>> \in cut
  /\ EndGone(p, k)

TurnedEnds(p, k) ==              \* ws gives up the closing handshake
  end[p][k] = "turned" /\ <<p, k>> \in cut /\ EndGone(p, k)

Breaks(p, k) ==                  \* the connection fails, one end notices first
  /\ own[p][k] = "open" /\ end[p][k] = "registered" /\ <<p, k>> \notin cut /\ Fault("break")
  /\ \/ Leaves(p, k) /\ UNCHANGED end
     \/ end' = [end EXCEPT ![p][k] = "none"] /\ UNCHANGED <<procVars, own, cut, serverVars>>

Cuts(p, k) ==
  /\ own[p][k] = "open" /\ end[p][k] # "none" /\ Fault("cut")
  /\ cut' = cut \cup {<<p, k>>}
  /\ UNCHANGED <<procVars, own, end, serverVars>>

-----------------------------------------------------------------------------
(* Shutdown of the server: close and _closeComponents.                      *)

ServerStops ==
  /\ server = "up" /\ Fault("stop")
  /\ server' = "closing" /\ fifth' = FALSE
  /\ draining' \in BOOLEAN /\ user' \in BOOLEAN
  /\ end' = [p \in Procs |-> [k \in Links |->
               IF end[p][k] = "registered" THEN "leaving" ELSE end[p][k]]]
  /\ UNCHANGED <<procVars, own, cut, trusted>>

(* The timers of closeClient and closeAgentWs, and the drain of streams.    *)
FifthSecondWaits ==              \* mutant: a peer that does not answer is waited for
  /\ server = "closing" /\ ~fifth
  /\ fifth' = TRUE /\ draining' = FALSE
  /\ UNCHANGED <<procVars, own, end, cut, trusted, server, user, left>>

FifthSecond ==
  /\ server = "closing" /\ ~fifth
  /\ fifth' = TRUE /\ draining' = FALSE
  /\ end' = [p \in Procs |-> [k \in Links |->
               IF end[p][k] = "leaving" THEN "none" ELSE end[p][k]]]
  /\ UNCHANGED <<procVars, own, cut, trusted, server, user, left>>

UserDone ==
  /\ server = "closing" /\ user /\ user' = FALSE
  /\ UNCHANGED <<procVars, own, end, cut, trusted, server, fifth, draining, left>>

Gone(how) ==                     \* the system closes what the process leaves
  /\ server' = how
  /\ end' = [p \in Procs |-> [k \in Links |-> "none"]]
  /\ fifth' = FALSE /\ draining' = FALSE /\ user' = FALSE
  /\ UNCHANGED <<procVars, own, cut, trusted>>

Settled == Held = {} /\ ~draining /\ ~user

ServerExits == server = "closing" /\ Settled /\ Gone("clean") /\ NoFault

(* GRACEFUL_TIMEOUT_MS.  What is settled by the fifth second is settled     *)
(* long before the tenth.                                                   *)
ServerGivesUp ==
  /\ server = "closing" /\ fifth /\ ~Settled
  /\ Gone(IF user \/ \E h \in Held : end[h[1]][h[2]] = "turned" THEN "held" ELSE "forced")
  /\ NoFault

ServerCrashes == server \notin Down /\ Fault("crash") /\ Gone("crash")

ServerStarts ==
  /\ server \in Down /\ server' = "up"
  /\ \/ UNCHANGED trusted /\ NoFault
     \/ Fault("credentials") /\ \E p \in Procs : trusted' = [trusted EXCEPT ![p] = ~@]
  /\ UNCHANGED <<procVars, own, end, cut, fifth, draining, user>>

-----------------------------------------------------------------------------
Next ==
  \/ \E p \in Procs :
       \/ TimerFires(p) \/ Signalled(p) \/ Exits(p)
       \/ \E k \in Links :
            \/ Opens(p, k) \/ Unreachable(p, k) \/ Unauthorized(p, k)
            \/ PeerLeaves(p, k) \/ NoticesCut(p, k) \/ Closes(p, k)
            \/ Accepts(p, k) \/ EndLearns(p, k) \/ Heartbeat(p, k) \/ TurnedEnds(p, k)
            \/ Breaks(p, k) \/ Cuts(p, k)
  \/ \E a \in Agents, q \in Ports : ListenerUp(a, q) \/ ListenerFails(a, q)
  \/ ServerStops \/ FifthSecond \/ UserDone \/ ServerExits \/ ServerGivesUp
  \/ ServerCrashes \/ ServerStarts

(* Timers fire, events are handled, the network delivers while it works and *)
(* an upgrade is answered.  Only clients ping, so only they are certain to  *)
(* notice that a link is cut.                                               *)
Fairness ==
  /\ \A p \in Procs :
       /\ WF_vars(TimerFires(p))
       /\ \A k \in Links :
            /\ WF_vars(Opens(p, k)) /\ WF_vars(PeerLeaves(p, k)) /\ WF_vars(Closes(p, k))
            /\ WF_vars(Accepts(p, k)) /\ WF_vars(Unauthorized(p, k))
            /\ WF_vars(Unreachable(p, k) /\ server # "up")
            /\ WF_vars(EndLearns(p, k)) /\ WF_vars(Heartbeat(p, k)) /\ WF_vars(TurnedEnds(p, k))
  /\ \A p \in Clients, k \in Links : WF_vars(NoticesCut(p, k))
  /\ WF_vars(FifthSecond) /\ WF_vars(ServerExits) /\ WF_vars(ServerGivesUp)

Spec == Init /\ [][Next]_vars
FairSpec == Spec /\ Fairness

-----------------------------------------------------------------------------
(* Properties.                                                              *)

(* The type invariant; the clients admitted are within MAX_TUNNEL_CLIENTS.  *)
TypeOK ==
  /\ proc \in [Procs -> {"running", "stopping", "exited"}]
  /\ {timer, authFailed, ready, troubled, trusted} \subseteq [Procs -> BOOLEAN]
  /\ cur \in [Procs -> Links]
  /\ own \in [Procs -> [Links -> Own]] /\ end \in [Procs -> [Links -> End]]
  /\ listener \in [Agents -> [Ports -> Listener]]
  /\ cut \subseteq Procs \X Links
  /\ server \in {"up", "closing"} \cup Down
  /\ fifth \in BOOLEAN /\ draining \in BOOLEAN /\ user \in BOOLEAN
  /\ left \in Nat
  /\ Cardinality(Registered) <= MaxClients

Listens(p) == p \in Agents => \A q \in Ports : listener[p][q] = "listening"

(* The ready file tells the truth, whatever the order in which session and  *)
(* listeners come up and fail, across reconnects and shutdown.  It exists   *)
(* only while the process runs, has its session (or the 'close' event of    *)
(* the session that ended is still to come) and listens on every port; and  *)
(* whoever has all that is ready.  The exception: an agent that was ready   *)
(* when accepting a connection failed says no more until its next session.  *)
ReadyExact ==
  \A p \in Procs :
    /\ ready[p] => proc[p] = "running" /\ own[p][cur[p]] \in {"open", "closing"} /\ Listens(p)
    /\ proc[p] = "running" /\ own[p][cur[p]] = "open" /\ Listens(p) => ready[p] \/ troubled[p]

(* A process has one session at a time, the one it sends on, and no         *)
(* reconnect pending beside it; it has none, and opens none, once it shuts  *)
(* down; and until then it always has one or is about to try, unless it     *)
(* failed to authenticate.                                                  *)
OneSession ==
  \A p \in Procs :
    /\ LiveOf(p) \subseteq {cur[p]}
    /\ LiveOf(p) # {} => proc[p] = "running" /\ ~timer[p]
    /\ proc[p] = "running" /\ ~authFailed[p] =>
         LiveOf(p) # {} \/ timer[p] \/ \E k \in Links : own[p][k] = "closing"

(* A session that is lost comes back, whoever lost it and however: while    *)
(* the server is up, every process that runs and is not refused its         *)
(* credentials gets a session that the server has admitted, even if the     *)
(* server still holds the dead one against its limit.  The exceptions: a    *)
(* client beyond the limit; and an agent whose link was cut silently, which *)
(* sends no pings and may not notice.                                       *)
Admitted(p) == /\ own[p][cur[p]] = "open" /\ end[p][cur[p]] = "registered"
               /\ <<p, cur[p]>> \notin cut
Deaf(p)     == p \in Agents /\ own[p][cur[p]] = "open" /\ <<p, cur[p]>> \in cut
NoRoom(p)   == p \in Clients /\ Cardinality({c \in Clients \ {p} : Admitted(c)}) >= MaxClients
Excused(p)  == proc[p] # "running" \/ authFailed[p] \/ server # "up" \/ Deaf(p) \/ NoRoom(p)

Restored == \A p \in Procs : ~Excused(p) ~> (Admitted(p) \/ Excused(p))

(* A shutdown of the server ends, and well: it is cut short by the timer of *)
(* ten seconds only if a connection is still open that no timer closes, an  *)
(* end user's or that of a client that was turned away.                     *)
StopsWell == (server = "closing") ~> (server \in Down \ {"forced"})
=============================================================================

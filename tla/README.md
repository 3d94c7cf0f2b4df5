# Formal model of the WebSocket tunnel

TLA+ modules, model-checked runs and machine-checked proofs about the tunnel in this
repository: a server that accepts HTTP requests and TCP connections, tunnel clients
that hold a WebSocket to it and reach local services on its behalf, and TCP agents
that accept local connections of an application and carry them through the server to a
tunnel client; and the installers that put client and agent on a host. Everything is
translated from the JavaScript under `src/src` and `src/serve` and the shell scripts
under `src/scripts`; paths below are relative to the repository (`src/...`), and
`PROJECT.json` names for every definition the lines it stands for.

## 1. Inventory

### Components, state, operations

| component | state | operations |
|---|---|---|
| `StreamManager` (`src/src/server/StreamManager.js`) | `streams` (id to stream, HTTP and TCP), `_nextStreamId`, an idle timer per stream | `allocateStreamId`, `createStream`, `createTcpStream`, `cleanupStream`, `cleanupTcpStream`, `abortTcpStream`, `cleanupStreamsForWs`, `handleClientFrame` |
| `TcpRouter` (`src/src/tcp/TcpRouter.js`) | listeners, direct sockets, `_connCountByPort` | `_handleConnection`, `_wireStream`, `createAgentStream`, `close` |
| `TcpAgentServer` (`src/src/tcp/TcpAgentServer.js`) | `_agentStreams`, `_connCountByPort`, heartbeat | `handleConnection`, `cleanupAgent`, `_handleFrame`, `_handleTcpConnect`, `close` |
| `VirtualSocket` (`src/src/tcp/VirtualSocket.js`) | paused flag, held chunks, destroyed flag | `pause`, `resume`, `pushInbound`, `endFromAgent`, `write`, `destroy`, `abort` |
| `TcpFlowControl` (`src/src/tcp/TcpFlowControl.js`) | the reasons to pause a socket or its peer, kept in the stream | `syncSocketReadState`, `syncTcpBackpressure` |
| `ClientManager` (`src/src/server/ClientManager.js`) | the set of clients, heartbeat | `getActiveClient`, `addClient`, `cleanupClient`, `startHeartbeat`, `close` |
| `HttpRouter`, `WsFrameWriter` (`src/src/server`) | one request and response per stream | `handleHttpRequest`, `handleUpgrade`, `waitDrain`, frame writes |
| `TunnelServer` (`src/src/server/TunnelServer.js`) | `_shuttingDown`, the HTTP server | `start`, `close`, `_closeComponents` |
| tunnel client (`src/serve/client.js`, `src/src/tcp/TcpClientHandler.js`) | `streams`, idle timers, local sockets and requests, the session and its backoff | `connect`, `handleServerFrame`, `handleTcpOpen`, `sendResAbort`, `cleanupStream`, `cleanupAllStreams` |
| TCP agent (`src/serve/tcp-agent.js`) | `pendingConnects`, `streamedSockets`, listeners, readiness, the session | `createLocalListener`, `registerStream`, `handleConnectAck`, `handleConnectReject`, `handleServerFrame`, `cleanupAll`, `connect`, `shutdown` |
| protocol (`src/src/shared/protocol.js`) | none | `buildFrame`, `parseFrame`, `sendFrame`, `sendJsonFrame` |
| host installers (`src/scripts/setup-service-host.sh`, `setup-application-host.sh`) | the lock, release directories, the links `current` and `previous`, pid and ready files, the running process | lock, stage, capture, stop, switch, start, wait, commit, roll back, prune |
| client installer (`src/serve/setup.sh`) | release directories and links | activate, verify, roll back |
| configuration, allowlists, logging, build and audit scripts | none at run time | parsing and output |

### Interactions

* Between processes there are only WebSocket frames `(version, type, stream id, payload)`:
  in order within a session, lost when it breaks, dropped by `sendFrame` when the
  session's `readyState` is not `OPEN`.
* An agent's connection goes: application connects (`pendingConnects`), `TCP_CONNECT`,
  the server makes a stream with a virtual socket and sends `TCP_OPEN` to a client,
  the client reaches the local service and sends `TCP_OPEN_ACK`, the server sends the
  deferred `TCP_CONNECT_ACK`, the agent bridges the oldest connection waiting for that
  port. A direct connection goes the same way without the agent, and is wired at once.
* Inside the server everything is calls and callbacks: every end of a stream runs
  `cleanupTcpStream`, whose `onCleanup` callback gives the port's count back and
  removes the id from the agent's set.
* Both the server and the client run idle timers for streams. The server pings clients
  and agents, clients ping the server, agents ping nobody.
* Between installer and process there are files and signals: the ready file, which the
  process writes and removes and the installer waits for, the pid file, and the links
  that name the release to run.

### What is hard here

Each of these is a row of "hazards" in `PROJECT.json`, at its line:
a stream ends in a dozen ways, each of which must undo the same bookkeeping once;
limits are compared with counters that callbacks keep; two timers and two ends race
over one stream; answers are matched to waiting connections by port and order while
connections give up; closing WebSockets still deliver frames; ids wrap around;
pause and resume travel as frames and are driven by a buffer all streams share;
shutdown happens in one turn but its frames do not; sessions end while timers for the
next are pending, and the server may still hold a session its peer has lost; installers
can be signalled or killed between any two steps.

### What makes each component correct

* stream table and counters: counts equal streams, owner sets equal streams, limits
  hold for streams that exist, ids are not reused while live, nothing survives its
  WebSockets, nothing after shutdown.
* agent, server and client together: a bridge joins the right ends; neither end of a
  stream is left behind; data waits for the acknowledgement; a waiting connection gets
  its answer; local sockets live as long as their stream.
* flow control: chunks arrive in order and complete, buffers are bounded, a paused
  stream is resumed.
* HTTP: request and response frames in order, one response per request, an abort at
  either end ends the other.
* lifecycle: an agent says it is ready only when it is; a process has one session, and
  a lost one comes back; shutdown ends.
* installation: one process of a role runs at a time, the links never dangle, and an
  installation that fails or is interrupted leaves the old release running.

## 2. Modules and the code

Node runs one callback at a time, so an action is one callback from its first line to
its last, with every synchronous call it makes; what is split into two actions is
split in the code by an event, a timer, a promise or a frame. A WebSocket or socket
that has been destroyed and whose `'close'` event has not yet run is a state of its
own ("closing", "dying"), because other callbacks run in between.

| module | models | state and actions |
|---|---|---|
| `Frames` | `protocol.js` | Frame types, ids, the port some payloads carry; `PostAll` is `sendFrame`, which drops what is sent on a WebSocket that is not `OPEN`. |
| `TcpServer` | the TCP side of the server: `StreamManager`, `TcpRouter`, `TcpAgentServer`, `ClientManager`, `VirtualSocket`'s ends, `TunnelServer.close` | `streams` is the stream table, a record for every id; `agentCount` and `routerCount` are the two `_connCountByPort`; `agentStreams` is `_agentStreams`. `EndStream` is `cleanupTcpStream` with the frames of the way it was reached; `OnClientFrame` is `handleClientFrame`, `OnAgentFrame` is `_handleFrame`, and every socket event, timer and WebSocket event is an action. |
| `PortSlots` | an abstract specification: what `TCP_MAX_CONNECTIONS_PER_PORT` promises | `Acquire` takes a slot of a port below its limit, `GiveBack` returns some. |
| `TcpAgent` | `src/serve/tcp-agent.js` | `pending` is `pendingConnects`, `streamed` is `streamedSockets`; actions are the application's events, `handleServerFrame` and the session's events. |
| `TcpClient` | `TcpClientHandler.js` and the stream map of `src/serve/client.js` | `opened` is the map's keys, `local` the sockets to the local service. |
| `TcpTunnel` | the three together | A FIFO channel each way on every WebSocket, each end with its own view of the session; `Faults` names what may go wrong in a run. |
| `TcpFlow` | flow control of agents' streams: `VirtualSocket`, `syncSocketReadState`, the `'data'` handler and send callbacks of `_wireStream`, PAUSE and RESUME at agent and client | Buffers in chunks; the server's WebSocket writes like Node's streams, in batches whose callbacks run in one turn after the next write has begun. |
| `HttpTunnel` | HTTP streams: `HttpRouter._proxyHttpRequest`, `WsFrameWriter`, the `RES_*` and `REQ_*` handlers of both ends | The stream's state and flags at each end, per request; `outcome` is what the user sees. |
| `Lifecycle` | the processes and their sessions: `connect`, `scheduleReconnect`, `shutdown` and readiness of `client.js` and `tcp-agent.js`; `handleUpgrade`, `addClient`, the heartbeats and `close` of the server | A process has a few links, its WebSockets that one end or the other still holds: `own` is its `readyState`, `end` the server's, `cur` the one the variable `ws` names, `timer` is `reconnectTimer`, `ready` the ready file. Every event of a WebSocket, timer, signal and listener is an action. |
| `HostInstall` | the transaction of `setup-application-host.sh` and `setup-service-host.sh`, which share it | `pc` is the place an installer has come to, `x` its shell variables; `owner` the pid `acquire_lock` has read; `dirs`, `current`, `previous`, `pidFile`, `readyFile`, `lock` are what it leaves in the file system; a step is what lies between two places where a signal, a kill or another installer makes a difference: finding the lock taken, reading its owner, judging it dead, removing it and taking it are steps of their own, and so is every release that is pruned. |
| `TcpServerProofs`, `TcpServerSafety` | proofs about `TcpServer` | see section 5 |
| `TcpTunnelProofs`, `TcpTunnelAnswers` | proofs about `TcpTunnel`: the agreement of the three ends; the answers that connections wait for | see section 5 |
| `TcpFlowProofs`, `HttpTunnelProofs`, `LifecycleProofs`, `HostInstallProofs` | proofs about the modules they are named for | see section 5 |
| `MCTcpServer`, `MCTcpTunnel`, `MCTcpFlow`, `MCHttpTunnel`, `MCLifecycle`, `MCHostInstall` | instances for TLC | |

`TcpTunnel` extends `TcpServer`, instantiates `TcpAgent` and `TcpClient` and composes their
actions: delivering a frame is the sender's channel losing its head and the receiver's
handler, in one step; its own initial states, steps and type invariant are `TunnelInit`,
`TunnelNext` (in `TunnelSpec`) and `TunnelTypeOK`. `TcpServer` alone (`Spec`) has the most general environment:
clients and agents that send any frame at any time. `TcpFlow` and `HttpTunnel` stand
alone; they look at streams one level deeper than `TcpServer`, where a chunk that is
held, relayed or over the limit is a choice. `Lifecycle` stands one level above: it has
the sessions the other modules begin and end as they please. `HostInstall` sees of a
process only what an installer sees, its pid and its ready file.

Definitions marked "mutant" in a comment are altered forms of the definition that
follows them; they take part in no behaviour and are there to show that a property
notices the alteration (`PROJECT.json`, "mutants").

### Abstractions

* Data is counted, not represented, except in `TcpFlow`, where chunks are numbered.
* Idle timers may expire at any moment their stream exists: their length against other
  delays is not modelled, so nothing that holds here depends on it.
* A heartbeat that goes unanswered is one more reason for a WebSocket to leave `OPEN`.
* `getActiveClient` takes the client with the least `bufferedAmount`: any open client.
* The order in which a loop over the table sends its aborts is insertion order, which
  after ids have wrapped is not id order: any order.
* In `TcpTunnel` a session is used once and ids are not reused; reuse of ids is checked
  and proved in `TcpServer`.
* `Lifecycle` has no delays but one order: the server's timers of five seconds run out
  before the ten of its exit timer. The length of the backoff is left out; that there is
  one timer at a time, and when it is cancelled, is not.
* A link that is cut silently stays `OPEN` at both ends until one of them looks; what the
  heartbeats count (one unanswered ping) is the action that finds it out.
* In `HostInstall` a step that fails under `set -e` before anything is stopped is
  `StageFails` or `CaptureFails`; file system operations inside the transaction succeed.
  Waiting for a process is the process's own step or the timeout, in either order. An
  installer may look at the lock as often as it finds it stale: the three attempts of
  `acquire_lock` are not counted.
* In `HttpTunnel` a chunk of a body that comes after the local request was ended may fail
  at once or go unnoticed: Node raises its error only while the request is not destroyed.
  The server's limit counts TCP streams, too: `UserRequests` takes any number of them.

## 3. What the runs check

Properties are defined, with the behaviour they are about, at the end of their module.

| run | instance | shows |
|---|---|---|
| `server` | 2 clients, 2 agents, 1 port both direct and for agents, ids 1..4, table of 3, 2 per port, 2 per agent | Counts and owner sets are exact, limits hold for streams that exist, ids in use are not given out, nothing outlives its WebSockets or shutdown; the table implements `PortSlots`. Clients send no `RES_ABORT` here: with it counts, limits and slots go wrong. |
| `server_leak` | as above, and clients also send `RES_ABORT` | finding 1 |
| `tunnel` | 1 connection of either kind, 3 chunks, every fault: links that break, no client, both idle timers, shutdown | No end of a bridge is left behind, the three ends agree on which streams live, local sockets go with their stream, an agent's data waits for `TCP_OPEN_ACK`. |
| `tunnel_live` | any 2 of 3 connections, two to one port and one to another, a client that takes one stream, a local service that may fail, applications that give up | Bridges join the right ends whatever the order of the answers; every waiting connection has an answer coming and, under fairness, gets it. |
| `tunnel_refused` | 1 connection to a port that is not allowed, no faults | finding 2 |
| `flow` | a stream of 3 chunks that closes and one of 1, WebSocket marks 1 and 0, held limit 1, local mark 1 | Order and completeness of the chunks, bounds of the buffers, PAUSE and RESUME stay paired. |
| `flow_lost` | 1 closing stream of 3 chunks | finding 3 |
| `flow_stall` | 2 streams of 2 chunks that never close | finding 4 |
| `http` | 1 request with a body of 1 chunk or none and a response of 3, marks of 1, every fault, a server and a client that take one stream and a stranger's stream that may take its place | Order of frames, completeness of responses, bounds, each end hears of the end at the other, and the user always gets an answer. |
| `http_body` | 1 request with a body, no faults | finding 5 |
| `sessions` | a client or an agent alone with 3 faults, two clients or a client and an agent with 1; 2 links each, 2 ports, `MAX_TUNNEL_CLIENTS` 1 | The ready file is true; one session at a time, and always one or the next on its way; a lost session comes back, admitted; a shutdown of the server ends without its exit timer unless someone keeps a connection open. |
| `install` | 2 installers on a fresh, an installed or a legacy work directory, up to 2 signals or kills, 3 releases kept | One installer at work, one process at a time, no dangling link, and what an installer reports at its end is so. |

### Bounds, and why they are enough

* *Table of 3 with ids 1..4, limits of 2*: each limit can be met and hit again, by
  streams of either kind, of both clients and both agents; with one id more than the
  table holds ids wrap while others stay in use, so the allocator skips. `MaxQueue = 1`
  only stops inputs while a channel is non-empty; what the server sends does not
  influence it, and `NetworkTakes` empties channels.
* *Two connections*: the order of answers to two connections of one port, and of two
  ports, is where matching by port and order can go wrong; a third adds no new pair.
* *Small marks*: with marks of 0 or 1 and up to 3 chunks each buffer (held, WebSocket,
  local socket) fills, stays full and drains at least once, and a chunk can arrive in
  each of those states.
* `MaxData`, `MaxDirect`, `MaxConns`, `MaxChunks`, `BodyLens`, `ResponseLen` bound a run's
  length; `MaxData = 3` lets a chunk be under way in both directions while a third is sent.
* *Two links, three faults*: with two links the old session lives on at one end while the
  next one opens, which is the case where limit, readiness and reconnect meet; a third
  would have to be lost before the first is noticed, which adds no new pair. Three faults
  are enough to lose a session, lose the next one while it opens, and stop the server;
  with two processes one fault is enough to have one wait for the place of the other.
  `MAX_TUNNEL_CLIENTS` is 1, so that a lost session's place is the only one.
* *Two installers, two faults*: two because the second finds what the first left behind,
  two faults because a rollback can then be interrupted itself, or the second installer
  after the first. Releases are kept up to 3, so that pruning has a choice. The race to
  remove a stale lock needs a third installer: one that had the lock and is gone when the
  second looks whether it lives, and one that has taken it since. It
  is in `InstallRace.cfg` (section 4, point 9) and cannot be in `install`, whose `TypeOK`
  would be false with it. The
  proofs go further: any number of faults and releases, and of installers up to that race.
* *One request*: requests meet only in the client's limit; the stranger's stream (`AtLimit`,
  `MaxOthers`) stands for the others, so one request sees each place refused and free. It
  may have a body or none: with one it meets finding 5, after which a stream that is
  still open ends by itself; without, it gets its answer only if RESUME, the drain and
  the local service come.
* Clients, agents, sessions, installers and application connections are interchangeable and are
  declared symmetric in the runs with no liveness property.
* `CHECK_DEADLOCK FALSE`: all systems may stop, because connections and requests are
  bounded, sessions end, and after shutdown nothing is left to do.

### Fairness

Weak fairness only, and only on what the runtime or the network owes: delivery of a
frame on an open connection, the `'close'` event of a WebSocket that left `OPEN`, the
end of a write and its callback, the end of an attempt to reach the local service
(connected, failed or timed out by the code's own connect timeout), and in the runs
that need them the local service that reads, responds and ends, and the user that
sends its body and reads. In `Lifecycle` the reconnect timer fires, an upgrade is answered
while the server is up, the events of a WebSocket are handled, the server's heartbeat
and a client's own find a cut link, and the timers of a shutdown run out; an agent is
given no such fairness, because it pings nobody. Nothing obliges a server that is down
to start again, a fault to happen, or an end user to leave. An application that gives up, links that break, faults and
idle timers have no fairness: `Answered` and `ConnectResolved` hold, and
`ResumesAfterDrain` fails, without the help of idle timers.

## 4. Findings

1. **A slot is leaked** (`server_leak`). When the client's idle timer for a TCP stream
   fires before the server's it sends `RES_ABORT` (`src/serve/client.js:222`), which
   `StreamManager.handleClientFrame` answers with the HTTP `cleanupStream`
   (`src/src/server/StreamManager.js:446`): the stream is deleted, its socket is not destroyed and
   `onCleanup` is not called. The port's count and the agent's set keep the slot.
   Everything about counters and limits is therefore checked and proved for clients
   that send no `RES_ABORT` on a TCP stream.
2. **A refused connection waits for ever** (`tunnel_refused`). Refusals of
   `_handleTcpConnect` carry no port; the agent looks for the waiting connection by port.
3. **The end of a transfer is lost** (`flow_lost`). `TCP_CLOSE` makes the server drop
   held chunks and the client destroy a local socket that has unwritten data.
4. **A paused stream is not resumed** (`flow_stall`). Only a send callback of the stream
   itself looks at `bufferedAmount`; if other streams' data keeps it above the low mark
   at that moment, nothing looks again.
5. **Request bodies are not forwarded** (`http_body`). The client waits for a body only
   if `meta.bodyLength > 0`, a field the server never sends.

The lines, and what the repository's comments and tests say, are quoted in
`PROJECT.json`.

### Further disagreements

Documents that say what the code does not do. Each is stated by a definition among the
properties of its module; `PROJECT.json` has no run for it, but TLC finds it violated at
once with the configuration named, in `MCTcpTunnel` and `MCHostInstall`.

6. **Direct data does not wait for the acknowledgement** (`DataAfterAck`; `TunnelDirect.cfg`).
   `docs/tcp-tunnel.md:50` says that the server relays data only after `TCP_OPEN_ACK`; a
   direct socket is wired as soon as `TCP_OPEN` is sent (`src/src/tcp/TcpRouter.js:129`). On
   agents' streams it is so, and `NoDataBeforeOpen` is about those.
7. **An accepted candidate is killed by a signal** (`AcceptedStays`; `InstallSignalled.cfg`).
   The comment at `setup-application-host.sh:985-986` says that signal handling must not
   roll it back. A signal between `NEW_RELEASE_READY=true` (987) and `TRANSACTION_DESTRUCTIVE=0` (989) does,
   in good order; one between that and `ACTIVE_PID=""` (990) makes `cleanup_on_exit` kill the
   candidate and puts nothing in its place.
8. **An interrupted migration restores nothing** (`LegacyTarget`; `InstallLegacy.cfg`). The guide
   (`docs/guide-external-app-to-tcp-services.md:148-150`) calls the release archived from
   a legacy layout the rollback target; it has become `previous`, there is no old
   `current`, and `rollback_after_interrupt` goes back to the old `current` (312).
9. **The lock admits two installers** (`OneInstaller`; `InstallRace.cfg`). The guide
   (lines 146-147) says a second one exits immediately. `acquire_lock` reads the owner's pid, looks whether it
   lives and removes the lock in three steps (243); if the owner exits after the first
   and a third installer takes the lock, its lock is removed.

### Exceptions the properties name

They are written into the properties, or left out of a run, by name. No document or
test that we know of contradicts them, but for two of the gaps of `HostInstall`, which are
among the disagreements above.

* `HttpTunnel`, `Untold`: the client is not told of the end of a request whose body stalls
  at the server (`'drain_timeout'`), nor that a response's head is refused
  (`'bad_headers'`). Without these two faults nothing is excepted.
* Run `tunnel` leaves out the fault `app_leaves`: an application that leaves between
  `TCP_CONNECT` and `TCP_CONNECT_ACK` leaves a stream that only the idle timer ends, and
  `AgentStreamsBridged` would not hold. `tunnel_live` has that fault.
* `Lifecycle`, `troubled`: after an error of a listener an agent that was ready stays not
  ready until its next session, though it may listen. An agent that is not ready, for
  this or because its session is down, exits at the next such error.
* `Lifecycle`, `Deaf`: an agent whose link is cut silently may not notice, and stays
  ready. `NoRoom`: a client beyond the limit gets `'open'`, and writes its ready file,
  before the server's 1013 arrives; while a dead session of its own is still counted,
  that is what happens to it until the heartbeat removes it.
* `Lifecycle`, `StopsWell`: an end user or a client that was turned away and does not close
  holds the shutdown until the exit timer.
* `HostInstall`, `spoiled`: four gaps in the way back, after which neither
  `OneInstance` nor `ServiceKept` is claimed, nor the part of `Whole` about processes (a
  process nobody recorded goes on while its release is pruned, which takes a third
  installer); that the links do not dangle holds all the same (lines of
  `setup-application-host.sh`):
  1. a signal between `TRANSACTION_DESTRUCTIVE=0` (989) and `ACTIVE_PID=""` (990):
     `cleanup_on_exit` kills the candidate that was just accepted, which the comment
     above those lines wants no signal to do (`LeavesCommitting`; point 7);
  2. a signal after `ROLLBACK_IN_PROGRESS=0` (1025), which ends only a rollback for a
     failure: a rollback that has succeeded is done again, beside the process it started (`Interrupted` at `"rolledback"`);
  3. `SIGKILL` between the spawn (683) and the pid file (690): the process is an orphan no
     later installer finds (`KilledDead` at `"spawned"`, `"respawned"`);
  4. an interruption over a legacy layout: the old bundle has become `previous`, there is
     no old `current`, and nothing is started again (`Interrupted`; point 8).

Seen while reading, and not stated by any property: a kill between the lock's `mkdir` and
its pid file locks every later installer out; a command that fails under `set -e` after the old process was stopped exits
without a rollback; and after a failed release has been kept, the next installation saves
it as `previous`, where `docs/guide-external-app-to-tcp-services.md:112` speaks of the last
known-good one.

## 5. What is proved

Everything here holds for all values of the constants, under one named assumption per
module that says only what kind of values they are: finite sets of processes, WebSockets,
streams or requests, natural numbers for limits and lengths. It is written in the module
that declares them (`ServerAssumption`, `FlowAssumption`, `HttpAssumption`,
`LifecycleAssumption`, `HostInstallAssumption`), and TLC evaluates it in every run.

### `TcpServer`

| theorem | states | argument |
|---|---|---|
| `TypeCorrect` | `Spec => []TypeOK` | one lemma per building block (`PostAllType`, `FreedType`, the aborts of a loop), one step per action |
| `SlotsAccounted`, `OwnersAccounted` | `Spec => [](CountsExact /\ OwnersExact)`, and its second half, if `"RES_ABORT" \notin ClientTypes` | `Exact`, the conjunction, is inductive with `TypeOK`. `Less` never goes below zero, so that counting down is exact needs counts that were exact before; that an agent's whole set can be deleted needs the set to be its streams. |
| `BindingsStable` | `Spec => BindingStable` | Every step is a `TableStep`: it frees slots, puts an admitted stream into a free slot, or clears one `awaiting`. The allocator's "not in use" is what makes the second kind safe. |
| `NothingLeftBehind`, `ShutdownEmpties` | `Spec => [](NoOrphanInTable /\ DownMeansNoStreams)`, and its second half | `Safe` adds that a stream's WebSockets are real, that an agent's stream is in its set (or its disconnect would miss it) and that after shutdown no client is open (or one could be given a stream). It holds with `RES_ABORT` too. |
| `WithinLimits` | `Spec => []LimitsHold`, if no `RES_ABORT` | The code compares limits with counters; `Exact` carries them over to streams. `ClientStep` shows that only `ClientJoin` adds a client. |
| `SlotsImplemented` | `Spec => SlotsKept`, if no `RES_ABORT` | Refinement to `PortSlots` under `holder[i] = <<kind, port>>`: a step that frees is `GiveBack`, one that admits is `Acquire` (its guard again by `Exact`), an acknowledgement stutters. |

The assumption without `RES_ABORT` is finding 1: with it the statements are false.
`SlotsAccountedInTunnel`, below, shows that in the whole tunnel a client sends one only when its
idle timer expires. `TcpServerProofs` has the first two rows, `TcpServerSafety` the others.

### `TcpTunnel` (in `TcpTunnelProofs`)

Here nothing is assumed about faults: `Faults` is any set of them, and so are the numbers
of sockets, WebSockets, ports and connections.

| theorem | states |
|---|---|
| `TunnelTypes` | `TunnelSpec => []TunnelTypeOK` |
| `TablesAgree` | `TunnelSpec => []EndsAgree`: what the server's table has and the client's map has not, or the other way round, is explained by a frame between them or a session that is over. |
| `LocalSocketsKept` | `TunnelSpec => []LocalSocketsOwned` |
| `NobodyStranded` | `TunnelSpec => []AgentNotStranded` |
| `DataAfterOpen` | `TunnelSpec => []NoDataBeforeOpen` |
| `BridgesHold` | `TunnelSpec => []BridgesRight` |

All are one invariant, `IInvTunnel == Typed /\ Joint`, because none of them can be
had alone: that a client's socket has an owner depends on the frames on their way to
it, those on what the server knows, and that on what it was told. `Joint` says of each
id `i` and each WebSocket (`AtClient`, `AtAgent`) which frames about `i` may be
under way in either direction and what both ends then know; `Owned` and `Confirmed`
what the server's slot says of the two; `Apart` that a connection is in one place;
`Blank` that channels are empty before a session; and `Unused` that an id is fresh
when it is given out, by counting the connections made against the `TCP_CONNECT`
under way. A channel is seen only as the set of the types it holds about `i` (`Kinds`), with
one fact of order (`Leads`: the opening frame comes first). The server's two dozen
actions are first summed up, each id by itself, as one of six things a turn may do about
it (`Calm`, `Flows`, `Strays`, `Acks`, `Ends`, `Opens`), so that the invariant is proved
against those six and not against every handler.

### `TcpTunnel` (in `TcpTunnelAnswers`)

These depend on what may go wrong, so each names the faults it excludes; everything else is
still any set and any number.

| theorem | states | excluded |
|---|---|---|
| `StreamsBridged` | `TunnelSpec => []AgentStreamsBridged` | `app_leaves` |
| `SlotsAccountedInTunnel` | `TunnelSpec => [](CountsExact /\ OwnersExact)` | `client_idle` |
| `AnswersComing` | `TunnelSpec => []AnswersDue`, if `Ample` | `client_link`, `client_idle`, `server_idle`, `no_client` |

The agent gives a connection that waits no id; an answer goes to the oldest one of its
port. What keeps the two ends right is a count: `Debt(a, p)`, the requests, unconfirmed
streams and answers of a port on a session, against `Waits(p)`, the connections that
wait. `TunnelSettles` says what any step of the tunnel, under any faults, does to the two
on an open session: it moves both by the same amount (`Even`), but a request or an
unconfirmed stream may end without an answer (`Writeoff`), which the state announces
(`Forfeiting`: a client's WebSocket is closing, its next frame ends a stream it has
not confirmed and is no `TCP_ABORT`, the next request will be refused, or a stream may
go idle at the server), and a connection may leave while it waits (`Desertion`; `Deserting`).
Each inequality between the two is then an invariant where one of the exceptions is
ruled out:

* `Debt <= Waits` (`Enough`) without `app_leaves`: every `TCP_CONNECT_ACK` finds a
  connection of its port. That it is still open is `Steady`, that a session's streams are
  those of a session that was open `Seen`; with them each confirmed stream comes to be
  bridged (`Linked`). When the application may leave, the code gives the answer to the
  next connection of the port, and a later answer finds nobody: this is what the
  assumption is about.
* `Waits <= Debt` (`Due`) when nothing can be forfeited. `Lasting`: a client's connection
  lasts until the shutdown, and then no agent's session is open. `Invited`: a
  `TCP_CONNECT` under way is for a port agents may use and finds a tunnel client.
  `Promised`: a client's `TCP_OPEN_ACK` for a stream comes before its `TCP_CLOSE`, so a
  stream that ends unconfirmed ends with `TCP_ABORT`, which the server answers with one
  that names the port. `Ample`: the limits are no smaller than the number of
  connections made, so that no request is refused, which needs the counts that
  `SlotsAccountedInTunnel` proves exact. The excluded cases are those in which the server
  ends a request or a stream by a frame that names no port, or by none (section 4, and
  the runs that expect a violation). The agent's session may break, the local service
  may fail, the application may leave and the server may stop.

The runs are within these hypotheses: `tunnel` checks the first with every fault but
`app_leaves`, and `tunnel_live` the third with two connections, limits of two and the
faults `agent_link`, `local_fails` and `app_leaves`.

### `TcpFlow` (in `TcpFlowProofs`)

| theorem | states | argument |
|---|---|---|
| `PausesHaveReasons` | `Spec => []PausedForReason` | Inductive with the types of the flags alone (`Reasoned`): only `Resume` can hand out chunks that make a reason hold again, and it looks again after them. |
| `FlowTypeCorrect` | `Spec => []TypeOK` | `Carried`, with `Reasoned`: every buffer and channel holds chunks and frames of streams that exist; lemmas for the parts of a step that move some. That what a paused socket holds stays within its limit is part of it. |
| `PausesLifted` | `Spec => []PauseLifted` | `Due`, of one stream: whoever is backpressured has something to write, and every PAUSE, heard or under way, has RESUME behind it (`Later`) unless the client is backpressured still. |
| `WebSocketBounded` | `Spec => []WsBounded` | `WsFilled`: the buffer holds no more than the high mark and a burst for each stream that has paused for it or is over; who is neither cannot have written above the mark. |
| `ChunksInOrder` | `Spec => []InOrder` | `Straight`: chunks of a stream lie in order along its way (agent's channel, held, WebSocket, client's channel, local socket), each place continuing where the next one ends. What a batch leaves of a buffer is described by positions, so the recursion of `SelectSeq` is not needed. |
| `AgentsResumed` | `Spec => []NotLeftPaused` | `Heard`, the property of one stream, is inductive with `Reasoned` and the types; here the server may pause a socket again while it resumes it; lemmas say what `Resume`, `Pause` and an end leave in the channel. |

### `HttpTunnel` (in `HttpTunnelProofs`)

| theorem | states | argument |
|---|---|---|
| `HttpTypeCorrect`, `BufferBounded` | `Spec => []TypeOK`, `[]ResponseBounded` | Inductive together (`Typed /\ Fits`): a chunk is taken only below the limit, so it can be passed by one. |
| `WholeResponses` | `Spec => []WholeIsWhole` | `Counted`: while the user listens, what he has, what waits at the server and the `RES_DATA` under way add up to what the service produced. |
| `ResponsesOrderly` | `Spec => []Orderly` | `Course`: which frames can be under way in each pair of states of the two ends; `RES_META` is before every other frame of its stream, `RES_END` and `RES_ABORT` behind. |
| `ClientIsTold`, `ServerIsTold` | `Spec => []ClientLearns`, `[]ServerLearns` | `ClientLearns` is without exception where `Faults` has neither of the two in `Untold`. `Told` and `Answering`: an end that is done while the other is not has its frame under way, which needs `Course` for streams of which one end has not heard yet. |
| `ResponsesLetGo` | `Spec => []PauseLifted` | `Freed`: every PAUSE under way has RESUME behind it, or the server has chunks to write, whose `'drain'` sends it. |

All but the first are the same inductive invariant: `Sound(r)`, the conjunction of
`Course`, `Counted`, `Told`, `Answering` and `Freed`, for each request. The frames of a
request are reached only through a few predicates of its channels (`Has`, `First`,
`Headed`, `Final`, `LetGo`, `Number`); `Appended` and `Taken` say how one frame sent or
heard changes each. `Elsewhere` shows that a step of another request changes none, so
every action has to be looked at for one request only.

### `Lifecycle` (in `LifecycleProofs`)

| theorem | states | argument |
|---|---|---|
| `ClientsLimited` | `Spec => []TypeOK` | with the cardinality of the sessions the server has admitted: `Accepts` adds one below the limit, every other step adds none. |
| `ReadyFileExact` | `Spec => []ReadyExact` | `Truthful(p)` of one process needs `Linked(p)`: only the current link can be live, so the events of an older one cannot speak for it. |
| `SessionsOneByOne` | `Spec => []OneSession` | `Linked(p)`: a pending timer means that no link is left, so the session it opens is the only one. |

The invariant is `IInv == Shape /\ ServerShape /\ Bounded /\ \A p : Good(p)`, with
`Good(p) == Linked(p) /\ Truthful(p)`.

### `HostInstall` (in `HostInstallProofs`)

For any number of installers, faults and releases kept.

| theorem | states | argument |
|---|---|---|
| `PairsNeverRace` | `Spec => []Unraced`, for at most two installers | `Outlived`: an owner whose pid was read is another installer that has had the lock, and a lock that is not its own any more is a third one's. |
| `TypesHold` | `Spec /\ []Unraced => []TypeOK` | `Types`, `Locks` and `Owners`: who is at work owns the lock, who took it has left it unnamed, and who is about to remove it has read the pid of one that is dead. |
| `LinksHold` | `Spec /\ []Unraced => []LinksWhole` | `Files`: what each place says of the releases. That a release is not deleted while a link names it needs to know where the installer is and whether the EXIT trap keeps it. |
| `OneProcess`, `NothingDangles`, `PromisesKept` | `Spec /\ []Unraced => []OneInstance`, `[]Whole`, `[]ServiceKept` | `Service`: what each place says of the processes (`Running`) and of the way back (`Undone`). It is inductive with the rest as long as no fault hits one of the gaps of section 4, and a gap once hit is never forgotten. |
| `PairsHold` | `Spec => [](TypeOK /\ OneInstance /\ Whole /\ ServiceKept)`, for at most two installers | the others together |

`Unraced` says that the lock an installer removes, or is about to find stale, is still that
of the dead owner whose pid it has read, or has gone. The code does not see to it (section
4, point 9), so it is a hypothesis on behaviours and not an assumption: with three installers it can
be false, and then `TypeOK` is, too.
`IInv == Types /\ Locks /\ Owners /\ Files /\ (~spoiled => Service)`.

### Only model-checked

* Liveness (`ConnectResolved`, `Answered`, `Restored`, `StopsWell`): it needs fairness and
  is out of this prover's reach.

## 6. What is not modelled

* Frames that do not parse, unknown types, and handlers that throw: the peers here are
  the repository's own. `TunnelServer` ends the process after an uncaught exception.
  Pages `HttpRouter` answers itself, and permanent misconfiguration: an upgrade refused
  with 501, 426 or 403 for ever. Address checks, which refuse before any state exists.
* Formatting, logging, configuration parsing, the byte layout of frames.
* Data from the local service towards the application in `TcpFlow` (`syncTcpBackpressure`,
  `VirtualSocket.write` and its `'drain'`).
* The lengths of backoffs and timers. A ready file that a killed process leaves behind:
  the installers compare it with the process that runs.
* File system failures inside the installers' transaction.
* `src/serve/setup.sh`, the client's own installer. It shares the idea of releases and links
  with the host installers but not their transaction, and what `HostInstall` checks is
  not so of it by reading: it takes no lock and sets no signal traps; its EXIT trap may
  delete the release that `current` names; a killed candidate is not waited for; a
  rollback that succeeds exits with 0; releases are never pruned. Its rollback starts the
  previous release with the new credentials and settings (`serve/setup.sh:156-168`), though
  `docs/tcp-tunnel.md:196` and `README.md:334` say that the previous runtime configuration
  is restored, and speak of its capture and of `ALLOW_CODE_ONLY_ROLLBACK`, which only the
  host installers have.
* `src/serve/build.js` and the audit scripts: tools of development.

## 7. Plan

Order of the work, most important behaviour first.

Done:

1. `Frames`, `TcpServer`, `PortSlots`: bookkeeping of streams, against any peers; proofs.
2. `TcpAgent`, `TcpClient`, `TcpTunnel`: agreement of the three ends, answers.
3. `TcpFlow`: order, bounds and pairing of PAUSE and RESUME; proofs of all its invariants.
4. `HttpTunnel`: requests and responses; proofs of all its invariants.
5. `Lifecycle`: sessions, readiness, reconnect, heartbeats and shutdown; proofs of all
   its invariants.
6. `HostInstall`: the installers' transaction; proofs of all its invariants.
7. Proofs that the three ends of `TcpTunnel` agree.
8. Proofs of `AgentStreamsBridged` and `AnswersDue`, under the faults they are meant to
   survive: every invariant of a run that passes is now a theorem.

Left:

9. `TcpFlow` in the other direction.
10. `src/serve/setup.sh`, if it takes over the host installers' transaction.

-------------------------- MODULE LifecycleProofs --------------------------
(***************************************************************************)
(* Proofs about Lifecycle for any number of clients, agents, ports and     *)
(* WebSockets, any limit of clients, and any faults: the type invariant    *)
(* with the limit, one session at a time, and the truth of ready files.    *)
(***************************************************************************)
EXTENDS Lifecycle, FiniteSetTheorems, TLAPS

-----------------------------------------------------------------------------
(* Sessions and ready files.  What holds of one process is a statement      *)
(* about its own variables, so a step of another process keeps it.          *)

(* A process has one WebSocket that is not gone, that of ws; none while its *)
(* timer is pending; and none that is live once it shuts down.              *)
Linked(p) ==
  /\ \A k \in Links : own[p][k] # "none" => k = cur[p]
  /\ timer[p] => proc[p] = "running" /\ own[p][cur[p]] = "none"
  /\ own[p][cur[p]] \in Live => proc[p] = "running"
  /\ proc[p] = "running" /\ ~authFailed[p] => own[p][cur[p]] # "none" \/ timer[p]

(* ReadyExact, of one process.                                              *)
Truthful(p) ==
  /\ ready[p] => proc[p] = "running" /\ own[p][cur[p]] \in {"open", "closing"} /\ Listens(p)
  /\ proc[p] = "running" /\ own[p][cur[p]] = "open" /\ Listens(p) => ready[p] \/ troubled[p]

Good(p) == Linked(p) /\ Truthful(p)

(* The variables Good(p) speaks of.                                         *)
Same(p) ==
  /\ proc'[p] = proc[p] /\ timer'[p] = timer[p] /\ authFailed'[p] = authFailed[p]
  /\ ready'[p] = ready[p] /\ cur'[p] = cur[p] /\ troubled'[p] = troubled[p]
  /\ own'[p] = own[p]
  /\ p \in Agents => listener'[p] = listener[p]

(* The domains of the variables, without which the rest means nothing.      *)
Shape ==
  /\ proc \in [Procs -> {"running", "stopping", "exited"}]
  /\ timer \in [Procs -> BOOLEAN] /\ authFailed \in [Procs -> BOOLEAN]
  /\ ready \in [Procs -> BOOLEAN] /\ troubled \in [Procs -> BOOLEAN]
  /\ cur \in [Procs -> Links]
  /\ own \in [Procs -> [Links -> Own]]
  /\ listener \in [Agents -> [Ports -> Listener]]

(* A step that leaves a process alone keeps what holds of it. *)
LEMMA SameGood ==
  ASSUME NEW p, Good(p), Same(p)
  PROVE  Good(p)'
  BY DEF Good, Same, Linked, Truthful, Listens

(* Initially no file exists and every process that runs is connecting. *)
LEMMA InitShape == Init => Shape
<1>1. FirstLink \in Links
  BY LifecycleAssumption
<1> QED
  BY <1>1 DEF Init, Shape, Own, Live, Listener

LEMMA InitGood == Init => \A p \in Procs : Good(p)
<1> SUFFICES ASSUME Init, NEW p \in Procs
             PROVE  Good(p)
  OBVIOUS
<1>1. FirstLink \in Links
  BY LifecycleAssumption
<1> QED
  BY <1>1 DEF Init, Good, Linked, Truthful, Live

-----------------------------------------------------------------------------
(* Shape, by action.                                                        *)

(* The 'close' event. *)
LEMMA OnCloseShape ==
  ASSUME Shape, NEW p \in Procs, NEW k \in Links, OnClose(p, k),
         authFailed' \in [Procs -> BOOLEAN]
  PROVE  Shape'
<1>1. own' \in [Procs -> [Links -> Own]]
  BY DEF Shape, OnClose, Own
<1>2. timer' \in [Procs -> BOOLEAN]
  BY DEF Shape, OnClose, Schedule
<1>3. ready' \in [Procs -> BOOLEAN]
  BY DEF Shape, OnClose
<1> QED
  BY <1>1, <1>2, <1>3 DEF Shape, OnClose

(* A process that shuts down. *)
LEMMA ShutdownShape ==
  ASSUME Shape, NEW p \in Procs, Shutdown(p)
  PROVE  Shape'
<1>1. own' \in [Procs -> [Links -> Own]]
  BY DEF Shape, Shutdown, Own, Left
<1>2. listener' \in [Agents -> [Ports -> Listener]]
  BY DEF Shape, Shutdown, Listener
<1> QED
  BY <1>1, <1>2 DEF Shape, Shutdown

LEMMA NextShape ==
  ASSUME Shape, [Next]_vars
  PROVE  Shape'
<1>1. CASE UNCHANGED vars
  BY <1>1 DEF vars, procVars, Shape
<1>2. ASSUME NEW p \in Procs, TimerFires(p) \/ Signalled(p) \/ Exits(p) PROVE Shape'
  <2>1. CASE TimerFires(p)
    <3>1. PICK k \in Links : own' = [own EXCEPT ![p] = [j \in Links |->
              IF j = k THEN "connecting" ELSE IF j = cur[p] THEN Left(@[j]) ELSE @[j]]]
            /\ cur' = [cur EXCEPT ![p] = k] /\ timer' = [timer EXCEPT ![p] = FALSE]
            /\ UNCHANGED <<proc, authFailed, ready, listener, troubled>>
      BY <2>1 DEF TimerFires, Connect
    <3>2. own' \in [Procs -> [Links -> Own]]
      BY <3>1 DEF Shape, Own, Live, Left
    <3> QED
      BY <3>1, <3>2 DEF Shape
  <2>2. CASE Signalled(p)
    BY <2>2, ShutdownShape DEF Signalled
  <2>3. CASE Exits(p)
    <3>1. own' \in [Procs -> [Links -> Own]]
      BY <2>3 DEF Shape, Exits, Own
    <3>2. listener' \in [Agents -> [Ports -> Listener]]
      BY <2>3 DEF Shape, Exits, Listener
    <3> QED
      BY <2>3, <3>1, <3>2 DEF Shape, Exits
  <2> QED
    BY <1>2, <2>1, <2>2, <2>3
<1>3. ASSUME NEW p \in Procs, NEW k \in Links,
             \/ Opens(p, k) \/ Unreachable(p, k) \/ Unauthorized(p, k)
             \/ PeerLeaves(p, k) \/ NoticesCut(p, k) \/ Closes(p, k)
             \/ Accepts(p, k) \/ EndLearns(p, k) \/ Heartbeat(p, k) \/ TurnedEnds(p, k)
             \/ Breaks(p, k) \/ Cuts(p, k)
      PROVE  Shape'
  <2>1. CASE Opens(p, k)
    <3>1. own' \in [Procs -> [Links -> Own]]
      BY <2>1 DEF Shape, Opens, Own, Live
    <3>2. ready' \in [Procs -> BOOLEAN]
      BY <2>1 DEF Shape, Opens, Eligible
    <3> QED
      BY <2>1, <3>1, <3>2 DEF Shape, Opens
  <2>2. CASE Unreachable(p, k)
    BY <2>2, OnCloseShape DEF Unreachable, Shape
  <2>3. CASE Unauthorized(p, k)
    <3>1. authFailed' \in [Procs -> BOOLEAN]
      BY <2>3 DEF Unauthorized, Shape
    <3> QED
      BY <2>3, <3>1, OnCloseShape DEF Unauthorized
  <2>4. CASE Closes(p, k)
    BY <2>4, OnCloseShape DEF Closes, Shape
  <2>5. CASE Accepts(p, k)
    BY <2>5 DEF Accepts, Shape, procVars, Own, Live
  <2>6. ASSUME Leaves(p, k) PROVE Shape'
    BY <2>6 DEF Leaves, Shape, procVars, Own
  <2>7. CASE PeerLeaves(p, k) \/ NoticesCut(p, k)
    BY <2>6, <2>7 DEF PeerLeaves, NoticesCut
  <2>8. CASE EndLearns(p, k) \/ Heartbeat(p, k) \/ TurnedEnds(p, k) \/ Cuts(p, k)
    BY <2>8 DEF EndLearns, Heartbeat, TurnedEnds, EndGone, Cuts, Shape, procVars
  <2>9. CASE Breaks(p, k)
    BY <2>6, <2>9 DEF Breaks, Shape, procVars
  <2> QED
    BY <1>3, <2>1, <2>2, <2>3, <2>4, <2>5, <2>7, <2>8, <2>9
<1>4. ASSUME NEW a \in Agents, NEW q \in Ports, ListenerUp(a, q) PROVE Shape'
  <2>1. listener' \in [Agents -> [Ports -> Listener]]
    BY <1>4 DEF Shape, ListenerUp, Listener
  <2>2. ready' \in [Procs -> BOOLEAN]
    BY <1>4 DEF Shape, ListenerUp, Eligible
  <2> QED
    BY <1>4, <2>1, <2>2 DEF Shape, ListenerUp
<1>5. ASSUME NEW a \in Agents, NEW q \in Ports, ListenerFails(a, q) PROVE Shape'
  <2>1. CASE ready[a]
    BY <1>5, <2>1 DEF ListenerFails, Shape
  <2>2. CASE ~ready[a]
    BY <1>5, <2>2, ShutdownShape DEF ListenerFails, Procs
  <2> QED
    BY <2>1, <2>2
<1>6. CASE ServerStops \/ FifthSecond \/ UserDone \/ ServerExits \/ ServerGivesUp
           \/ ServerCrashes \/ ServerStarts
  BY <1>6 DEF ServerStops, FifthSecond, UserDone, ServerExits, ServerGivesUp,
              ServerCrashes, ServerStarts, Gone, procVars, Shape
<1> QED
  BY <1>1, <1>2, <1>3, <1>4, <1>5, <1>6 DEF Next

-----------------------------------------------------------------------------
(* Good, by action.                                                         *)

(* The 'close' event: only ws can have one, so nothing is left of the       *)
(* session, and the next attempt is scheduled unless there is to be none.   *)
LEMMA OnCloseGood ==
  ASSUME Shape, NEW p \in Procs, NEW k \in Links, OnClose(p, k), own[p][k] # "none",
         authFailed' \in [Procs -> BOOLEAN],
         \A r \in Procs : r # p => authFailed'[r] = authFailed[r],
         NEW r \in Procs, Good(r)
  PROVE  Good(r)'
<1>1. CASE r # p
  <2>1. Same(r)
    BY <1>1 DEF Same, Shape, OnClose, Schedule
  <2> QED
    BY <2>1, SameGood
<1>2. CASE r = p
  <2>1. k = cur[p] /\ ~timer[p]
    BY <1>2 DEF Good, Linked
  <2>2. own'[p][cur[p]] = "none" /\ \A j \in Links : own'[p][j] = "none"
    BY <1>2, <2>1 DEF Good, Linked, OnClose, Shape
  <2>3. ~ready'[p] /\ cur'[p] = cur[p] /\ proc'[p] = proc[p]
    BY DEF OnClose, Shape
  <2>4. timer'[p] <=> (proc[p] = "running" /\ ~authFailed'[p])
    BY <2>1 DEF OnClose, Schedule, Shape
  <2> QED
    BY <1>2, <2>2, <2>3, <2>4 DEF Good, Linked, Truthful, Live
<1> QED
  BY <1>1, <1>2

(* Shutdown leaves no timer and nothing live. *)
LEMMA ShutdownGood ==
  ASSUME Shape, NEW p \in Procs, Shutdown(p), NEW r \in Procs, Good(r)
  PROVE  Good(r)'
<1>1. CASE r # p
  <2>1. Same(r)
    BY <1>1 DEF Same, Shape, Shutdown
  <2> QED
    BY <2>1, SameGood
<1>2. CASE r = p
  <2>1. proc'[p] = "stopping" /\ ~ready'[p] /\ ~timer'[p] /\ cur'[p] = cur[p]
    BY DEF Shutdown, Shape
  <2>2. own'[p][cur[p]] \notin Live
    BY DEF Shutdown, Shape, Left, Live
  <2>3. \A k \in Links : k # cur[p] => own'[p][k] = own[p][k]
    BY DEF Shutdown, Shape
  <2> QED
    BY <1>2, <2>1, <2>2, <2>3 DEF Good, Linked, Truthful
<1> QED
  BY <1>1, <1>2

(* A WebSocket that leaves OPEN is still that of ws. *)
LEMMA LeavesGood ==
  ASSUME Shape, NEW p \in Procs, NEW k \in Links, own[p][k] = "open", Leaves(p, k),
         NEW r \in Procs, Good(r)
  PROVE  Good(r)'
<1>1. CASE r # p
  <2>1. Same(r)
    BY <1>1 DEF Same, Shape, Leaves, procVars
  <2> QED
    BY <2>1, SameGood
<1>2. CASE r = p
  <2>1. k = cur[p]
    BY <1>2 DEF Good, Linked
  <2>2. own'[p][k] = "closing" /\ \A j \in Links : j # k => own'[p][j] = own[p][j]
    BY DEF Leaves, Shape
  <2> QED
    BY <1>2, <2>1, <2>2 DEF Good, Linked, Truthful, Leaves, procVars, Live, Listens
<1> QED
  BY <1>1, <1>2

(* The next attempt begins with nothing left of the last session. *)
LEMMA ConnectGood ==
  ASSUME Shape, NEW p \in Procs, TimerFires(p), NEW r \in Procs, Good(r)
  PROVE  Good(r)'
<1>1. PICK k \in Links : own' = [own EXCEPT ![p] = [j \in Links |->
            IF j = k THEN "connecting" ELSE IF j = cur[p] THEN Left(@[j]) ELSE @[j]]]
          /\ cur' = [cur EXCEPT ![p] = k] /\ timer' = [timer EXCEPT ![p] = FALSE]
          /\ UNCHANGED <<proc, authFailed, ready, listener, troubled>>
  BY DEF TimerFires, Connect
<1>2. CASE r # p
  <2>1. Same(r)
    BY <1>1, <1>2 DEF Same, Shape
  <2> QED
    BY <2>1, SameGood
<1>3. CASE r = p
  <2>1. proc[p] = "running" /\ own[p][cur[p]] = "none" /\ \A j \in Links : own[p][j] = "none"
    BY <1>3 DEF TimerFires, Good, Linked, Shape
  <2>2. ~ready[p]
    BY <1>3, <2>1 DEF Good, Truthful
  <2>3. own'[p] = [j \in Links |->
            IF j = k THEN "connecting" ELSE IF j = cur[p] THEN Left(own[p][j]) ELSE own[p][j]]
    BY <1>1 DEF Shape
  <2>4. own'[p][k] = "connecting" /\ \A j \in Links : j # k => own'[p][j] = "none"
    BY <2>1, <2>3 DEF Left, Live
  <2>5. cur'[p] = k /\ ~timer'[p] /\ proc'[p] = "running" /\ ~ready'[p]
    BY <1>1, <2>1, <2>2 DEF Shape
  <2> QED
    BY <1>3, <2>4, <2>5 DEF Good, Linked, Truthful
<1> QED
  BY <1>2, <1>3

(* 'open': whoever listens is ready now. *)
LEMMA OpensGood ==
  ASSUME Shape, NEW p \in Procs, NEW k \in Links, Opens(p, k), NEW r \in Procs, Good(r)
  PROVE  Good(r)'
<1>1. CASE r # p
  <2>1. Same(r)
    BY <1>1 DEF Same, Shape, Opens
  <2> QED
    BY <2>1, SameGood
<1>2. CASE r = p
  <2>1. k = cur[p] /\ proc[p] = "running" /\ ~timer[p] /\ ~ready[p]
    BY <1>2 DEF Opens, Good, Linked, Truthful, Live
  <2>2. own'[p][cur[p]] = "open" /\ \A j \in Links : j # k => own'[p][j] = own[p][j]
    BY <2>1 DEF Opens, Shape
  <2>3. UNCHANGED <<proc, timer, cur, listener>>
    BY DEF Opens
  <2>4. ready'[p] <=> Eligible(p)
    BY <2>1 DEF Opens, Shape
  <2>5. Eligible(p) <=> Listens(p)'
    BY <2>1, <2>2, <2>3, LifecycleAssumption DEF Eligible, Listens, Procs
  <2> QED
    BY <1>2, <2>1, <2>2, <2>3, <2>4, <2>5 DEF Good, Linked, Truthful, Live
<1> QED
  BY <1>1, <1>2

(* So is an agent that has its session when the last listener is up. *)
LEMMA ListenerUpGood ==
  ASSUME Shape, NEW a \in Agents, NEW q \in Ports, ListenerUp(a, q), NEW r \in Procs, Good(r)
  PROVE  Good(r)'
<1>1. CASE r # a
  <2>1. Same(r)
    BY <1>1 DEF Same, Shape, ListenerUp
  <2> QED
    BY <2>1, SameGood
<1>2. CASE r = a
  <2>1. UNCHANGED <<proc, timer, authFailed, cur, troubled, own>>
    BY DEF ListenerUp
  <2>2. ready'[a] <=> ready[a] \/ Eligible(a)
    BY <1>2 DEF ListenerUp, Shape
  <2>3. a \notin Clients
    BY LifecycleAssumption
  <2>4. Eligible(a) <=> proc'[a] = "running" /\ own'[a][cur'[a]] = "open" /\ Listens(a)'
    BY <2>1, <2>3 DEF Eligible, Listens
  <2>5. Listens(a) => Listens(a)'
    BY DEF Listens, ListenerUp, Shape
  <2> QED
    BY <1>2, <2>1, <2>2, <2>4, <2>5 DEF Good, Linked, Truthful
<1> QED
  BY <1>1, <1>2

LEMMA NextGood ==
  ASSUME Shape, [Next]_vars, \A r \in Procs : Good(r)
  PROVE  \A r \in Procs : Good(r)'
<1> SUFFICES ASSUME NEW r \in Procs
             PROVE  Good(r)'
  OBVIOUS
<1>1. Good(r)
  OBVIOUS
<1>2. ASSUME UNCHANGED <<procVars, own>> PROVE Good(r)'
  <2>1. Same(r)
    BY <1>2 DEF Same, procVars
  <2> QED
    BY <1>1, <2>1, SameGood
<1>3. CASE UNCHANGED vars
  BY <1>2, <1>3 DEF vars
<1>4. ASSUME NEW p \in Procs, TimerFires(p) \/ Signalled(p) PROVE Good(r)'
  BY <1>1, <1>4, ConnectGood, ShutdownGood DEF Signalled
<1>5. ASSUME NEW p \in Procs, Exits(p) PROVE Good(r)'
  <2>1. CASE r # p
    <3>1. Same(r)
      BY <1>5, <2>1 DEF Same, Shape, Exits
    <3> QED
      BY <1>1, <3>1, SameGood
  <2>2. CASE r = p
    <3>1. ~timer[p] /\ ~ready[p]
      BY <1>1, <1>5, <2>2 DEF Exits, Good, Linked, Truthful, Shape
    <3>2. proc'[p] = "exited" /\ ~timer'[p] /\ ~ready'[p] /\ \A k \in Links : own'[p][k] = "none"
      BY <1>5, <3>1 DEF Exits, Shape
    <3>3. cur'[p] \in Links
      BY <1>5 DEF Exits, Shape
    <3> QED
      BY <2>2, <3>2, <3>3 DEF Good, Linked, Truthful, Live
  <2> QED
    BY <2>1, <2>2
<1>6. ASSUME NEW p \in Procs, NEW k \in Links,
             \/ Opens(p, k) \/ Unreachable(p, k) \/ Unauthorized(p, k)
             \/ PeerLeaves(p, k) \/ NoticesCut(p, k) \/ Closes(p, k)
             \/ Accepts(p, k) \/ EndLearns(p, k) \/ Heartbeat(p, k) \/ TurnedEnds(p, k)
             \/ Breaks(p, k) \/ Cuts(p, k)
      PROVE  Good(r)'
  <2>1. CASE Opens(p, k)
    BY <1>1, <2>1, OpensGood
  <2>2. CASE Unreachable(p, k)
    BY <1>1, <2>2, OnCloseGood DEF Unreachable, Shape
  <2>3. CASE Unauthorized(p, k)
    <3>1. /\ authFailed' \in [Procs -> BOOLEAN]
          /\ \A s \in Procs : s # p => authFailed'[s] = authFailed[s]
      BY <2>3 DEF Unauthorized, Shape
    <3> QED
      BY <1>1, <2>3, <3>1, OnCloseGood DEF Unauthorized
  <2>4. CASE Closes(p, k)
    BY <1>1, <2>4, OnCloseGood DEF Closes, Shape
  <2>5. CASE Accepts(p, k)
    <3>1. CASE r # p
      <4>1. Same(r)
        BY <2>5, <3>1 DEF Same, Shape, Accepts, procVars
      <4> QED
        BY <1>1, <4>1, SameGood
    <3>2. CASE r = p
      <4>1. k = cur[p] /\ proc[p] = "running" /\ ~timer[p] /\ ~ready[p]
        BY <1>1, <2>5, <3>2 DEF Accepts, Good, Linked, Truthful, Live
      <4>2. own'[p][k] = "accepted" /\ \A j \in Links : j # k => own'[p][j] = own[p][j]
        BY <2>5 DEF Accepts, Shape
      <4>3. UNCHANGED procVars
        BY <2>5 DEF Accepts
      <4> QED
        BY <1>1, <3>2, <4>1, <4>2, <4>3 DEF Good, Linked, Truthful, procVars
    <3> QED
      BY <3>1, <3>2
  <2>6. CASE PeerLeaves(p, k) \/ NoticesCut(p, k)
    BY <1>1, <2>6, LeavesGood DEF PeerLeaves, NoticesCut
  <2>7. CASE EndLearns(p, k) \/ Heartbeat(p, k) \/ TurnedEnds(p, k) \/ Cuts(p, k)
    BY <1>2, <2>7 DEF EndLearns, Heartbeat, TurnedEnds, EndGone, Cuts
  <2>8. CASE Breaks(p, k)
    BY <1>1, <1>2, <2>8, LeavesGood DEF Breaks
  <2> QED
    BY <1>6, <2>1, <2>2, <2>3, <2>4, <2>5, <2>6, <2>7, <2>8
<1>7. ASSUME NEW a \in Agents, NEW q \in Ports, ListenerUp(a, q) PROVE Good(r)'
  BY <1>1, <1>7, ListenerUpGood
<1>8. ASSUME NEW a \in Agents, NEW q \in Ports, ListenerFails(a, q) PROVE Good(r)'
  <2>1. CASE ~ready[a]
    BY <1>1, <1>8, <2>1, ShutdownGood DEF ListenerFails, Procs
  <2>2. CASE ready[a] /\ r # a
    <3>1. Same(r)
      BY <1>8, <2>2 DEF Same, Shape, ListenerFails
    <3> QED
      BY <1>1, <3>1, SameGood
  <2>3. CASE ready[a] /\ r = a
    <3>1. ~ready'[a] /\ troubled'[a] /\ UNCHANGED <<proc, timer, authFailed, cur, listener, own>>
      BY <1>8, <2>3 DEF ListenerFails, Shape
    <3> QED
      BY <1>1, <2>3, <3>1 DEF Good, Linked, Truthful
  <2> QED
    BY <2>1, <2>2, <2>3
<1>9. CASE ServerStops \/ FifthSecond \/ UserDone \/ ServerExits \/ ServerGivesUp
           \/ ServerCrashes \/ ServerStarts
  BY <1>2, <1>9 DEF ServerStops, FifthSecond, UserDone, ServerExits, ServerGivesUp,
                    ServerCrashes, ServerStarts, Gone
<1> QED
  BY <1>3, <1>4, <1>5, <1>6, <1>7, <1>8, <1>9 DEF Next

-----------------------------------------------------------------------------
(* The server's side, and the limit of clients.                             *)

ServerShape ==
  /\ trusted \in [Procs -> BOOLEAN]
  /\ end \in [Procs -> [Links -> End]]
  /\ cut \subseteq Procs \X Links
  /\ server \in {"up", "closing"} \cup Down
  /\ fifth \in BOOLEAN /\ draining \in BOOLEAN /\ user \in BOOLEAN
  /\ left \in Nat

(* The set whose size the code compares with the limit can be counted.      *)
Bounded == IsFiniteSet(Registered) /\ Cardinality(Registered) <= MaxClients

(* Whoever leaves makes room. *)
LEMMA FewerBounded ==
  ASSUME Bounded, Registered' \subseteq Registered
  PROVE  Bounded'
<1>1. IsFiniteSet(Registered') /\ Cardinality(Registered') <= Cardinality(Registered)
  BY FS_Subset DEF Bounded
<1>2. Cardinality(Registered) \in Nat /\ Cardinality(Registered') \in Nat
  BY <1>1, FS_CardinalityType DEF Bounded
<1> QED
  BY <1>1, <1>2, LifecycleAssumption DEF Bounded

(* A step that makes no one registered keeps the limit. *)
LEMMA EndBounded ==
  ASSUME Bounded,
         \A p \in Procs, k \in Links : end'[p][k] = "registered" => end[p][k] = "registered"
  PROVE  Bounded'
<1>1. Registered' \subseteq Registered
  BY DEF Registered, Procs
<1> QED
  BY <1>1, FewerBounded

(* addClient admits one client at a time, and only below the limit. *)
LEMMA AcceptsBounded ==
  ASSUME ServerShape, Bounded, NEW p \in Procs, NEW k \in Links, Accepts(p, k)
  PROVE  Bounded'
<1>1. CASE p \in Clients /\ ~Full
  <2>1. Registered' \subseteq Registered \cup {<<p, k>>}
    BY DEF Accepts, Registered, ServerShape, Procs
  <2>2. /\ IsFiniteSet(Registered \cup {<<p, k>>})
        /\ Cardinality(Registered \cup {<<p, k>>}) <= Cardinality(Registered) + 1
    <3>1. IsFiniteSet(Registered)
      BY DEF Bounded
    <3>2. Cardinality(Registered) \in Nat
      BY <3>1, FS_CardinalityType
    <3>3. /\ IsFiniteSet(Registered \cup {<<p, k>>})
          /\ Cardinality(Registered \cup {<<p, k>>}) =
               IF <<p, k>> \in Registered THEN Cardinality(Registered) ELSE Cardinality(Registered) + 1
      BY <3>1, FS_AddElement
    <3> QED
      BY <3>2, <3>3
  <2>3. IsFiniteSet(Registered') /\ Cardinality(Registered') <= Cardinality(Registered \cup {<<p, k>>})
    BY <2>1, <2>2, FS_Subset
  <2>4. /\ Cardinality(Registered) \in Nat /\ Cardinality(Registered') \in Nat
        /\ Cardinality(Registered \cup {<<p, k>>}) \in Nat
    BY <2>2, <2>3, FS_CardinalityType DEF Bounded
  <2> QED
    BY <1>1, <2>2, <2>3, <2>4, LifecycleAssumption DEF Bounded, Full
<1>2. CASE p \in Clients /\ Full
  BY <1>2, EndBounded DEF Accepts, ServerShape
<1>3. CASE p \in Agents
  <2>1. Registered' \subseteq Registered
    BY <1>3, LifecycleAssumption DEF Accepts, Registered, ServerShape, Procs
  <2> QED
    BY <2>1, FewerBounded
<1> QED
  BY <1>1, <1>2, <1>3 DEF Procs

LEMMA InitServer == Init => ServerShape /\ Bounded
<1> SUFFICES ASSUME Init PROVE ServerShape /\ Bounded
  OBVIOUS
<1>1. left \in Nat
  BY LifecycleAssumption DEF Init
<1>2. ServerShape
  BY <1>1 DEF Init, ServerShape, End, Down
<1>3. Registered = {}
  BY DEF Init, Registered, Procs
<1> QED
  BY <1>2, <1>3, FS_EmptySet, LifecycleAssumption DEF Bounded

(* A fault leaves fewer of them. *)
LEMMA FaultType == ASSUME left \in Nat, NEW f, Fault(f) PROVE left' \in Nat
  BY DEF Fault

LEMMA NextServer ==
  ASSUME ServerShape, Bounded, [Next]_vars
  PROVE  ServerShape' /\ Bounded'
<1>1. ASSUME UNCHANGED <<end, cut, serverVars>>, left' \in Nat PROVE ServerShape' /\ Bounded'
  BY <1>1, EndBounded DEF ServerShape, serverVars
<1>2. ASSUME NEW p \in Procs, NEW k \in Links, EndGone(p, k) PROVE ServerShape' /\ Bounded'
  <2>1. Bounded'
    BY <1>2, EndBounded DEF EndGone, ServerShape
  <2> QED
    BY <1>2, <2>1 DEF EndGone, ServerShape, End, serverVars
<1>3. CASE UNCHANGED vars
  BY <1>1, <1>3 DEF vars, ServerShape
<1>4. ASSUME NEW p \in Procs, TimerFires(p) PROVE ServerShape' /\ Bounded'
  <2>1. UNCHANGED <<end, serverVars, left>> /\ cut' \subseteq cut
    BY <1>4 DEF TimerFires, Connect
  <2> QED
    BY <2>1, EndBounded DEF ServerShape, serverVars
<1>5. ASSUME NEW p \in Procs, Signalled(p) \/ Exits(p) PROVE ServerShape' /\ Bounded'
  BY <1>1, <1>5 DEF Signalled, Shutdown, NoFault, Exits, ServerShape
<1>6. ASSUME NEW p \in Procs, NEW k \in Links,
             \/ Opens(p, k) \/ Unreachable(p, k) \/ Unauthorized(p, k)
             \/ PeerLeaves(p, k) \/ NoticesCut(p, k) \/ Closes(p, k)
             \/ Accepts(p, k) \/ EndLearns(p, k) \/ Heartbeat(p, k) \/ TurnedEnds(p, k)
             \/ Breaks(p, k) \/ Cuts(p, k)
      PROVE  ServerShape' /\ Bounded'
  <2>1. CASE Opens(p, k) \/ Unauthorized(p, k) \/ PeerLeaves(p, k) \/ NoticesCut(p, k) \/ Closes(p, k)
    BY <1>1, <2>1 DEF Opens, Unauthorized, PeerLeaves, NoticesCut, Closes, OnClose, Leaves, ServerShape
  <2>2. CASE Unreachable(p, k)
    BY <1>1, <2>2, FaultType DEF Unreachable, OnClose, NoFault, ServerShape
  <2>3. CASE Accepts(p, k)
    <3>1. Bounded'
      BY <2>3, AcceptsBounded
    <3> QED
      BY <2>3, <3>1 DEF Accepts, ServerShape, End, serverVars
  <2>4. CASE EndLearns(p, k) \/ Heartbeat(p, k) \/ TurnedEnds(p, k)
    BY <1>2, <2>4 DEF EndLearns, Heartbeat, TurnedEnds
  <2>5. CASE Breaks(p, k)
    <3>1. left' \in Nat
      BY <2>5, FaultType DEF Breaks, ServerShape
    <3>2. CASE Leaves(p, k) /\ UNCHANGED end
      BY <1>1, <3>1, <3>2 DEF Leaves
    <3>3. CASE end' = [end EXCEPT ![p][k] = "none"] /\ UNCHANGED <<procVars, own, cut, serverVars>>
      <4>1. Bounded'
        BY <3>3, EndBounded DEF ServerShape
      <4> QED
        BY <3>1, <3>3, <4>1 DEF ServerShape, End, serverVars
    <3> QED
      BY <2>5, <3>2, <3>3 DEF Breaks
  <2>6. CASE Cuts(p, k)
    <3>1. left' \in Nat
      BY <2>6, FaultType DEF Cuts, ServerShape
    <3>2. Bounded'
      BY <2>6, EndBounded DEF Cuts
    <3> QED
      BY <2>6, <3>1, <3>2 DEF Cuts, ServerShape, serverVars
  <2> QED
    BY <1>6, <2>1, <2>2, <2>3, <2>4, <2>5, <2>6
<1>7. ASSUME NEW a \in Agents, NEW q \in Ports, ListenerUp(a, q) \/ ListenerFails(a, q)
      PROVE  ServerShape' /\ Bounded'
  <2>1. left' \in Nat
    BY <1>7, FaultType DEF ListenerUp, ListenerFails, ServerShape
  <2> QED
    BY <1>1, <1>7, <2>1 DEF ListenerUp, ListenerFails, Shutdown
<1>8. CASE ServerStops \/ FifthSecond
  <2>1. Bounded'
    BY <1>8, EndBounded DEF ServerStops, FifthSecond, ServerShape
  <2>2. left' \in Nat
    BY <1>8, FaultType DEF ServerStops, FifthSecond, ServerShape
  <2>3. end' \in [Procs -> [Links -> End]]
    BY <1>8 DEF ServerStops, FifthSecond, ServerShape, End
  <2> QED
    BY <1>8, <2>1, <2>2, <2>3 DEF ServerStops, FifthSecond, ServerShape
<1>9. CASE ServerExits \/ ServerGivesUp \/ ServerCrashes
  <2>1. left' \in Nat
    BY <1>9, FaultType DEF ServerExits, ServerGivesUp, ServerCrashes, NoFault, ServerShape
  <2>2. PICK how \in Down : Gone(how)
    BY <1>9 DEF ServerExits, ServerGivesUp, ServerCrashes, Down
  <2>3. Bounded'
    BY <2>2, EndBounded DEF Gone
  <2> QED
    BY <2>1, <2>2, <2>3 DEF Gone, ServerShape, End
<1>10. CASE UserDone
  BY <1>10, EndBounded DEF UserDone, ServerShape
<1>11. CASE ServerStarts
  <2>1. left' \in Nat
    BY <1>11, FaultType DEF ServerStarts, NoFault, ServerShape
  <2>2. Bounded'
    BY <1>11, EndBounded DEF ServerStarts
  <2>3. trusted' \in [Procs -> BOOLEAN]
    BY <1>11 DEF ServerStarts, ServerShape
  <2> QED
    BY <1>11, <2>1, <2>2, <2>3 DEF ServerStarts, ServerShape
<1> QED
  BY <1>3, <1>4, <1>5, <1>6, <1>7, <1>8, <1>9, <1>10, <1>11 DEF Next

-----------------------------------------------------------------------------
(* The theorems.                                                            *)

IInv == Shape /\ ServerShape /\ Bounded /\ \A p \in Procs : Good(p)

LEMMA Inductive == Spec => []IInv
<1>1. Init => IInv
  BY InitShape, InitGood, InitServer DEF IInv
<1>2. IInv /\ [Next]_vars => IInv'
  BY NextShape, NextGood, NextServer DEF IInv, Procs
<1> QED
  BY <1>1, <1>2, PTL DEF Spec

(* The variables are well typed, and the server never has more clients than *)
(* MAX_TUNNEL_CLIENTS, however sessions are lost, found dead and come back  *)
(* (ClientManager.addClient, startHeartbeat).                               *)
THEOREM ClientsLimited == Spec => []TypeOK
<1>1. IInv => TypeOK
  BY DEF IInv, Shape, ServerShape, Bounded, TypeOK
<1> QED
  BY <1>1, Inductive, PTL

(* A ready file exists exactly while its process has what it takes          *)
(* (markReadyIfEligible, clearReady and their callers).                     *)
THEOREM ReadyFileExact == Spec => []ReadyExact
<1>1. IInv => ReadyExact
  BY DEF IInv, Good, Truthful, ReadyExact
<1> QED
  BY <1>1, Inductive, PTL

(* A process has one session at a time, none once it shuts down, and until  *)
(* then one or a reason to expect one (connect, scheduleReconnect).         *)
THEOREM SessionsOneByOne == Spec => []OneSession
<1>1. ASSUME IInv PROVE OneSession
  <2> SUFFICES ASSUME NEW p \in Procs
               PROVE  /\ LiveOf(p) \subseteq {cur[p]}
                      /\ LiveOf(p) # {} => proc[p] = "running" /\ ~timer[p]
                      /\ proc[p] = "running" /\ ~authFailed[p] =>
                           LiveOf(p) # {} \/ timer[p] \/ \E k \in Links : own[p][k] = "closing"
    BY DEF OneSession
  <2>1. Linked(p) /\ cur[p] \in Links /\ own[p][cur[p]] \in Own
    BY <1>1 DEF IInv, Good, Shape
  <2>2. \A k \in LiveOf(p) : k = cur[p] /\ own[p][cur[p]] \in Live
    BY <2>1 DEF LiveOf, Linked, Live
  <2>3. own[p][cur[p]] \in Live => cur[p] \in LiveOf(p)
    BY <2>1 DEF LiveOf
  <2> QED
    BY <2>1, <2>2, <2>3 DEF Linked, Own, Live
<1> QED
  BY <1>1, Inductive, PTL
=============================================================================

---------------------------- MODULE HostInstall ----------------------------
(***************************************************************************)
(* The transaction of setup-application-host.sh and setup-service-host.sh, *)
(* which differ only in the settings they pass on: stage a release, stop   *)
(* the process that runs, switch the links current and previous, start the *)
(* candidate and wait for its ready file; roll back to the release and the *)
(* configuration of before if it does not become ready, or if the operator *)
(* interrupts.                                                             *)
(*                                                                         *)
(* Several installers may be started on one work directory; the lock       *)
(* admits one.  An installer may be signalled, and killed between any two  *)
(* of its steps; the processes it starts serve, are rejected, hang or      *)
(* crash as they please.  A step is what lies between two points where a   *)
(* signal or a kill would make a difference: switching both links back, or *)
(* archiving a legacy layout, is one.  Every release is named for the      *)
(* installer that stages it, and so is the configuration it brings.        *)
(***************************************************************************)
EXTENDS Naturals, Sequences, FiniteSets

CONSTANTS
  Installers,
  MaxFaults,    \* signals and kills in a run
  Keep,         \* INSTALL_RELEASES_KEEP
  None

ASSUME HostInstallAssumption ==
  /\ IsFiniteSet(Installers)
  /\ Installers \cap {"old", "older", "free", "unnamed"} = {}
  /\ None \notin Installers \cup {"old", "older"}
  /\ MaxFaults \in Nat
  /\ Keep \in Nat /\ Keep >= 2

VARIABLES
  dirs,         \* the releases that exist
  current, previous,
  legacy,       \* the bundle of a legacy layout is in the work directory
  procs,        \* the managed processes ever started; a pid is an index, 0 is none
  pidFile, readyFile,
  lock,         \* free, unnamed (its pid file is still to come) or an installer
  owner,        \* acquire_lock's local of that name: whose pid it has read
  pc,
  x,            \* the variables of an installer
  pending,      \* INTERRUPT_PENDING
  result,       \* how an installer ended
  last,         \* history: who last ended after it had stopped the old process
  spoiled,      \* history: a fault hit a gap, see Interrupted, LeavesCommitting, KilledDead
  left          \* faults still to come

fileVars == <<dirs, current, previous, legacy>>
pidVars  == <<procs, pidFile, readyFile>>
runVars  == <<lock, owner, pc, x, pending, result>>
vars     == <<fileVars, pidVars, runVars, last, spoiled, left>>

Release == {"old", "older"} \cup Installers
Config  == {"old"} \cup Installers
Status  == {"starting", "serving", "dying", "stopped", "crashed"}
Local   == [before : Release \cup {None},     \* PREVIOUS_BEFORE
            old    : Release \cup {None},     \* OLD_CURRENT
            pid    : 0..Len(procs),           \* OLD_PID
            mode   : {"current", "previous"}, \* ROLLBACK_CONFIG_MODE
            active : 0..Len(procs),           \* ACTIVE_PID
            goal   : Release \cup {None},     \* the release a rollback restores
            by     : {"failure", "signal"},   \* what the rollback is for
            keep   : BOOLEAN]                 \* KEEP_FAILED_RELEASE or NEW_RELEASE_READY

Fresh == [before |-> None, old |-> None, pid |-> 0, mode |-> "current", active |-> 0,
          goal |-> None, by |-> "failure", keep |-> FALSE]

Harmless   == {"staging", "staged"}                        \* TRANSACTION_DESTRUCTIVE=0
Deferred   == {"stop", "stopping", "spawned"}              \* stopping-old, candidate-starting
Immediate  == {"stopped", "saved", "activated", "running", "accepted", "rolledback"}
RollingBack == {"killing", "failed", "relinked", "respawned", "rewaiting", "unrestoring"}
Changing   == Deferred \cup Immediate \cup RollingBack \cup {"committing", "pruning"}
Working    == Harmless \cup Changing

Alive(p)    == p # 0 /\ procs[p].st \notin {"stopped", "crashed"}
Process(rel, cfg, st) == [rel |-> rel, cfg |-> cfg, st |-> st]

Init ==
  /\ \/ /\ dirs = {} /\ current = None /\ previous = None /\ legacy = FALSE      \* first install
        /\ procs = <<>> /\ pidFile = 0 /\ readyFile = 0
     \/ /\ \/ dirs = {"old"} /\ previous = None
           \/ dirs = {"old", "older"} /\ previous = "older"
        /\ current = "old" /\ legacy = FALSE                                     \* upgrade
        /\ \E st \in {"serving", "crashed"} : procs = <<Process("old", "old", st)>>
        /\ pidFile = 1 /\ readyFile = 1
     \/ /\ dirs = {} /\ current = None /\ previous = None /\ legacy = TRUE
        /\ procs = <<Process("old", "old", "serving")>> /\ pidFile = 1 /\ readyFile = 1
  /\ lock = "free" /\ owner = [i \in Installers |-> None]
  /\ pc = [i \in Installers |-> "off"]
  /\ x = [i \in Installers |-> Fresh]
  /\ pending = [i \in Installers |-> FALSE]
  /\ result = [i \in Installers |-> "none"]
  /\ last = None /\ spoiled = FALSE /\ left = MaxFaults

Goto(i, l) == pc' = [pc EXCEPT ![i] = l]
Quiet      == UNCHANGED <<lock, owner, pending, result, last, spoiled, left>>

-----------------------------------------------------------------------------
(* The processes: the ready file is written and removed by tcp-agent.js and *)
(* client.js.  A process that is rejected, or hangs, stays starting.        *)

Becomes(p, st) == procs' = [procs EXCEPT ![p].st = st]
Lives          == UNCHANGED <<fileVars, pidFile, runVars, last, spoiled, left>>

Serves(p)  == procs[p].st = "starting" /\ Becomes(p, "serving") /\ readyFile' = p /\ Lives
Crashes(p) == procs[p].st \in {"starting", "serving"} /\ Becomes(p, "crashed")
              /\ readyFile' \in {0, readyFile} /\ Lives
Dies(p)    == procs[p].st = "dying" /\ Becomes(p, "stopped") /\ readyFile' \in {0, readyFile} /\ Lives

Term(p) == procs' = IF Alive(p) THEN [procs EXCEPT ![p].st = "dying"] ELSE procs      \* kill
Gone(p) == procs' = IF Alive(p) THEN [procs EXCEPT ![p].st = "stopped"] ELSE procs    \* kill -9

-----------------------------------------------------------------------------
(* The lock: mkdir, then its pid file.  An installer that finds it taken    *)
(* reads whose pid is in it, keeping what it read at an earlier attempt     *)
(* while there is no file, and removes the lock if that one is dead; the    *)
(* lock may be another's by then.  The three attempts are not counted.      *)

Named(i, k) == owner' = [owner EXCEPT ![i] = k]

LockTaken(i) ==                  \* mkdir
  /\ pc[i] \in {"off", "retry"} /\ lock = "free"
  /\ lock' = "unnamed" /\ Named(i, None) /\ Goto(i, "locking")
  /\ UNCHANGED <<fileVars, pidVars, x, pending, result, last, spoiled, left>>

LockNamed(i) ==                  \* its pid file; then mktemp -d
  /\ pc[i] = "locking"
  /\ lock' = i /\ Goto(i, "staging")
  /\ dirs' = dirs \cup {i}
  /\ UNCHANGED <<current, previous, legacy, pidVars, owner, x, pending, result, last, spoiled, left>>

LockHeld(i) ==                   \* mkdir fails
  /\ pc[i] \in {"off", "retry"} /\ lock # "free" /\ Goto(i, "held") /\ Quiet
  /\ UNCHANGED <<fileVars, pidVars, x>>

LockRead(i) ==                   \* test -f, and cat, which fails if the file has gone
  /\ pc[i] = "held" /\ Goto(i, "judging")
  /\ IF lock \in Installers THEN Named(i, lock) ELSE Named(i, None) \/ UNCHANGED owner
  /\ UNCHANGED <<fileVars, pidVars, lock, x, pending, result, last, spoiled, left>>

StaleUnchecked(i) == owner[i] # None                   \* mutant: no kill -0
Stale(i) == owner[i] # None /\ pc[owner[i]] \in {"killed", "over"}

LockStale(i) ==                  \* held by a dead process
  /\ pc[i] = "judging" /\ Stale(i) /\ Goto(i, "removing") /\ Quiet
  /\ UNCHANGED <<fileVars, pidVars, x>>

LockRemoved(i) ==                \* rm -rf, and the next attempt
  /\ pc[i] = "removing" /\ lock' = "free" /\ Goto(i, "retry")
  /\ UNCHANGED <<fileVars, pidVars, owner, x, pending, result, last, spoiled, left>>

Refused(i) ==                    \* die; the EXIT trap is not set yet
  /\ pc[i] = "judging" /\ ~Stale(i)
  /\ Goto(i, "over") /\ result' = [result EXCEPT ![i] = "refused"] /\ Named(i, None)
  /\ UNCHANGED <<fileVars, pidVars, lock, x, pending, last, spoiled, left>>

-----------------------------------------------------------------------------
(* The end of an installer: cleanup_on_exit.                                *)

ExitsForgetting(i, how, D) ==    \* mutant: KEEP_FAILED_RELEASE is not looked at
  /\ Goto(i, "over") /\ result' = [result EXCEPT ![i] = how]
  /\ dirs' = IF how = "installed" THEN D ELSE D \ {i}
  /\ lock' = IF lock = i THEN "free" ELSE lock
  /\ last' = IF pc[i] \in Changing THEN i ELSE last
  /\ UNCHANGED <<owner, pending, spoiled>>

Exits(i, how, D) ==              \* D: the releases there are
  /\ Goto(i, "over") /\ result' = [result EXCEPT ![i] = how]
  /\ dirs' = IF x[i].keep THEN D ELSE D \ {i}
  /\ lock' = IF lock = i THEN "free" ELSE lock
  /\ last' = IF pc[i] \in Changing THEN i ELSE last
  /\ UNCHANGED <<owner, pending, spoiled>>

-----------------------------------------------------------------------------
(* From staging to the point of no return.                                  *)

StageFails(i) ==                 \* a download, node --check or npm install
  /\ pc[i] = "staging"
  /\ Exits(i, "failed", dirs)
  /\ UNCHANGED <<current, previous, legacy, pidVars, x, left>>

Staged(i) ==                     \* and migrate_legacy_layout, which may find the bundle invalid
  /\ pc[i] = "staging" /\ Goto(i, "staged") /\ Quiet
  /\ \/ /\ legacy /\ current = None
        /\ legacy' = FALSE /\ previous' = "old" /\ dirs' = dirs \cup {"old"}
     \/ UNCHANGED <<legacy, previous, dirs>>
  /\ UNCHANGED <<current, pidVars, x>>

Expected(p) ==                   \* is_expected_process
  current \in dirs => procs[p].rel = current

Found(i, pid, mode) ==
  /\ Goto(i, "stop") /\ Quiet
  /\ x' = [x EXCEPT ![i] = [Fresh EXCEPT !.before = previous, !.old = current,
                                         !.pid = pid, !.mode = mode]]

(* resolve_running_managed_pid and capture_previous_config.  The message    *)
(* about a stale pid file is taken for a pid, of which no configuration can *)
(* be captured; ALLOW_CODE_ONLY_ROLLBACK goes on without one.               *)
Captures(i) ==
  /\ pc[i] = "staged"
  /\ \/ pidFile = 0 /\ Found(i, 0, "current") /\ UNCHANGED pidFile
     \/ pidFile # 0 /\ ~Alive(pidFile) /\ pidFile' = 0 /\ Found(i, 0, "current")
     \/ /\ Alive(pidFile) /\ Expected(pidFile) /\ UNCHANGED pidFile
        /\ \E mode \in {"previous", "current"} : Found(i, pidFile, mode)
  /\ UNCHANGED <<fileVars, procs, readyFile>>

CaptureFails(i) ==               \* the same without ALLOW_CODE_ONLY_ROLLBACK, or not our process
  /\ pc[i] = "staged" /\ pidFile # 0
  /\ pidFile' = IF Alive(pidFile) THEN pidFile ELSE 0
  /\ Exits(i, "failed", dirs)
  /\ UNCHANGED <<current, previous, legacy, procs, readyFile, x, left>>

-----------------------------------------------------------------------------
(* The old process is stopped and the candidate started.                    *)

Stops(i) ==                      \* stop_old_process: kill, and wait for two seconds
  /\ pc[i] = "stop" /\ Goto(i, "stopping") /\ Quiet
  /\ Term(x[i].pid)
  /\ UNCHANGED <<fileVars, pidFile, readyFile, x>>

StoppedUnseen(i) ==              \* mutant: it is not waited for
  /\ pc[i] = "stopping" /\ Goto(i, "stopped") /\ Quiet
  /\ pidFile' = 0 /\ readyFile' = 0
  /\ UNCHANGED <<fileVars, procs, x>>

Stopped(i) ==                    \* it is gone, or killed
  /\ pc[i] = "stopping" /\ Goto(i, "stopped") /\ Quiet
  /\ Gone(x[i].pid)
  /\ pidFile' = 0 /\ readyFile' = 0
  /\ UNCHANGED <<fileVars, x>>

SavesPrevious(i) ==
  /\ pc[i] = "stopped" /\ ~pending[i] /\ Goto(i, "saved") /\ Quiet
  /\ previous' = IF x[i].old \in dirs THEN x[i].old ELSE previous
  /\ UNCHANGED <<dirs, current, legacy, pidVars, x>>

Activates(i) ==
  /\ pc[i] = "saved" /\ Goto(i, "activated") /\ Quiet
  /\ current' = i
  /\ UNCHANGED <<dirs, previous, legacy, pidVars, x>>

(* start_process, up to ACTIVE_PID.                                         *)
Starts(i, rel, cfg) ==
  /\ procs' = Append(procs, Process(rel, cfg, "starting"))
  /\ x' = [x EXCEPT ![i].active = Len(procs')]
  /\ readyFile' = 0
  /\ Quiet /\ UNCHANGED <<fileVars, pidFile>>

StartsCandidate(i) == pc[i] = "activated" /\ Starts(i, i, i) /\ Goto(i, "spawned")

Publishes(i) ==                  \* the pid file
  /\ pc[i] \in {"spawned", "respawned"}
  /\ Goto(i, IF pc[i] = "spawned" THEN "running" ELSE "rewaiting") /\ Quiet
  /\ pidFile' = x[i].active
  /\ UNCHANGED <<fileVars, procs, readyFile, x>>

(* wait_for_readiness.                                                      *)
Ready(p) == readyFile = p /\ Alive(p)

Accepted(i) ==                   \* NEW_RELEASE_READY
  /\ pc[i] = "running" /\ ~pending[i] /\ Ready(x[i].active)
  /\ x' = [x EXCEPT ![i].keep = TRUE]
  /\ Goto(i, "accepted") /\ Quiet
  /\ UNCHANGED <<fileVars, pidVars>>

Commits(i) ==                    \* TRANSACTION_DESTRUCTIVE=0
  /\ pc[i] = "accepted" /\ Goto(i, "committing") /\ Quiet
  /\ UNCHANGED <<fileVars, pidVars, x>>

Others == dirs \ {current, previous}

Settles(i) ==                    \* ACTIVE_PID, and the traps
  /\ pc[i] = "committing" /\ Goto(i, "pruning") /\ Quiet
  /\ x' = [x EXCEPT ![i].active = 0]
  /\ UNCHANGED <<fileVars, pidVars>>

Prunes(i) ==                     \* one release more than are kept; which is the oldest is left open
  /\ pc[i] = "pruning" /\ Cardinality(Others) > Keep - 2
  /\ \E d \in Others : dirs' = dirs \ {d}
  /\ UNCHANGED <<current, previous, legacy, pidVars, runVars, last, spoiled, left>>

Finishes(i) ==
  /\ pc[i] = "pruning" /\ Cardinality(Others) <= Keep - 2
  /\ Exits(i, "installed", dirs)
  /\ UNCHANGED <<current, previous, legacy, pidVars, x, left>>

-----------------------------------------------------------------------------
(* Rolling back.                                                            *)

(* The candidate is rejected, gone, or late: ROLLBACK_IN_PROGRESS, kill.    *)
Fails(i) ==
  /\ pc[i] = "running" /\ ~pending[i]
  /\ Goto(i, "killing") /\ Quiet
  /\ Term(x[i].active)
  /\ x' = [x EXCEPT ![i].by = "failure"]
  /\ UNCHANGED <<fileVars, pidFile, readyFile>>

Cleared(p, f) == IF p # 0 /\ f = p THEN 0 ELSE f       \* cleanup_stale_metadata

(* kill_candidate is done; after an interrupt its files are removed, too.   *)
Killed(i) ==
  /\ pc[i] = "killing" /\ Goto(i, "failed") /\ Quiet
  /\ Gone(x[i].active)
  /\ IF x[i].by = "signal"
     THEN pidFile' = Cleared(x[i].active, pidFile) /\ readyFile' = Cleared(x[i].active, readyFile)
     ELSE UNCHANGED <<pidFile, readyFile>>
  /\ x' = [x EXCEPT ![i].active = 0]
  /\ UNCHANGED fileVars

(* The target: the link previous, or the release that was current when the  *)
(* installer began.                                                         *)
Goal(i) == IF x[i].by = "failure" THEN previous ELSE x[i].old

Relinks(i) ==                    \* both links
  /\ pc[i] = "failed" /\ Goal(i) \in dirs /\ Goto(i, "relinked") /\ Quiet
  /\ current' = Goal(i)
  /\ previous' = IF x[i].before \in dirs THEN x[i].before
                 ELSE IF x[i].old \in dirs THEN x[i].old ELSE None
  /\ x' = [x EXCEPT ![i].goal = Goal(i)]
  /\ UNCHANGED <<dirs, legacy, pidVars>>

NothingToRestore(i) ==
  /\ pc[i] = "failed" /\ Goal(i) \notin dirs /\ Goto(i, "rolledback") /\ Quiet
  /\ x' = [x EXCEPT ![i].goal = None, ![i].keep = TRUE]
  /\ IF x[i].by = "failure"
     THEN /\ dirs' = dirs \ {i}                        \* cleanup_failed_activation, rm -rf
          /\ current' = IF current = i THEN None ELSE current
          /\ pidFile' = 0 /\ readyFile' = 0 /\ UNCHANGED previous
     ELSE /\ previous' = IF x[i].before \in dirs THEN x[i].before ELSE None
          /\ UNCHANGED <<dirs, current, pidFile, readyFile>>
  /\ UNCHANGED <<legacy, procs>>

CodeOnly(i)  == i                                      \* mutant: the captured one is not used
OldConfig(i) == IF x[i].mode = "previous" THEN procs[x[i].pid].cfg ELSE i

Restarts(i) == pc[i] = "relinked" /\ Starts(i, x[i].goal, OldConfig(i)) /\ Goto(i, "respawned")

Restored(i) ==                   \* the failed release is removed
  /\ pc[i] = "rewaiting" /\ Ready(x[i].active)
  /\ Goto(i, "rolledback") /\ Quiet
  /\ x' = [x EXCEPT ![i].active = 0]
  /\ dirs' = IF x[i].by = "failure" THEN dirs \ {i} ELSE dirs
  /\ UNCHANGED <<current, previous, legacy, pidVars>>

RestoreFails(i) ==
  /\ pc[i] = "rewaiting" /\ Goto(i, "unrestoring") /\ Quiet
  /\ Term(x[i].active)
  /\ UNCHANGED <<fileVars, pidFile, readyFile, x>>

Unrestored(i) ==
  /\ pc[i] = "unrestoring" /\ Goto(i, "rolledback") /\ Quiet
  /\ Gone(x[i].active)
  /\ pidFile' = Cleared(x[i].active, pidFile) /\ readyFile' = Cleared(x[i].active, readyFile)
  /\ x' = [x EXCEPT ![i].active = 0, ![i].keep = TRUE, ![i].goal = None]
  /\ UNCHANGED fileVars

GivesUp(i) ==                    \* nonzero, or 128 and the signal
  /\ pc[i] = "rolledback"
  /\ Exits(i, IF x[i].goal = None THEN "lost" ELSE "restored", dirs)
  /\ UNCHANGED <<current, previous, legacy, pidVars, x, left>>

-----------------------------------------------------------------------------
(* Signals and kills.                                                       *)

(* rollback_after_interrupt begins.  A legacy layout has no current release *)
(* to go back to.                                                           *)
Interrupted(i) ==
  /\ Goto(i, "killing")
  /\ Term(x[i].active)
  /\ x' = [x EXCEPT ![i].by = "signal"]
  /\ spoiled' = (spoiled \/ pc[i] = "rolledback" \/ (x[i].old = None /\ x[i].before # None))
  /\ UNCHANGED <<fileVars, pidFile, readyFile, lock, owner, pending, result, last>>

TakesPending(i) == pc[i] \in {"stopped", "running"} /\ pending[i] /\ Interrupted(i) /\ UNCHANGED left

Fault == left > 0 /\ left' = left - 1

(* handle_interrupt, by the phase.  ROLLBACK_IN_PROGRESS is reset only      *)
(* after a rollback for a failure.                                          *)
Defers(i) ==
  /\ pc[i] \in Deferred \cup RollingBack \cup {"rolledback"} /\ ~pending[i] /\ Fault
  /\ pending' = [pending EXCEPT ![i] = TRUE]
  /\ UNCHANGED <<fileVars, pidVars, lock, owner, pc, x, result, last, spoiled>>

RollsBack(i) ==
  /\ pc[i] \in Immediate /\ Fault
  /\ pc[i] = "running" => ~pending[i]
  /\ pc[i] = "rolledback" => x[i].by = "failure"
  /\ Interrupted(i)

Leaves(i) ==                     \* nothing has been changed yet, or all of it
  /\ pc[i] \in Harmless \cup {"pruning"} /\ Fault
  /\ Exits(i, "interrupted", dirs)
  /\ UNCHANGED <<current, previous, legacy, pidVars, x>>

LeavesCommitting(i) ==           \* cleanup_on_exit still finds ACTIVE_PID
  /\ pc[i] = "committing" /\ Fault
  /\ Goto(i, "over") /\ result' = [result EXCEPT ![i] = "interrupted"]
  /\ Gone(x[i].active)
  /\ lock' = IF lock = i THEN "free" ELSE lock
  /\ last' = i /\ spoiled' = TRUE
  /\ UNCHANGED <<fileVars, pidFile, readyFile, owner, x, pending>>

KilledDead(i) ==                 \* SIGKILL
  /\ pc[i] \in {"locking", "removing"} \cup Working /\ Fault
  /\ Goto(i, "killed") /\ result' = [result EXCEPT ![i] = "killed"]
  /\ x' = [x EXCEPT ![i] = Fresh] /\ Named(i, None)
  /\ last' = IF pc[i] \in Changing THEN i ELSE last
  /\ spoiled' = (spoiled \/ pc[i] \in {"spawned", "respawned"})
  /\ UNCHANGED <<fileVars, pidVars, lock, pending>>

-----------------------------------------------------------------------------
Next ==
  \/ \E p \in DOMAIN procs : Serves(p) \/ Crashes(p) \/ Dies(p)
  \/ \E i \in Installers :
       \/ LockTaken(i) \/ LockNamed(i) \/ LockHeld(i) \/ LockRead(i)
       \/ LockStale(i) \/ LockRemoved(i) \/ Refused(i)
       \/ StageFails(i) \/ Staged(i) \/ Captures(i) \/ CaptureFails(i)
       \/ Stops(i) \/ Stopped(i) \/ SavesPrevious(i) \/ Activates(i)
       \/ StartsCandidate(i) \/ Publishes(i) \/ Accepted(i) \/ Commits(i)
       \/ Settles(i) \/ Prunes(i) \/ Finishes(i)
       \/ Fails(i) \/ Killed(i) \/ Relinks(i) \/ NothingToRestore(i) \/ Restarts(i)
       \/ Restored(i) \/ RestoreFails(i) \/ Unrestored(i) \/ GivesUp(i)
       \/ TakesPending(i) \/ Defers(i) \/ RollsBack(i) \/ Leaves(i) \/ LeavesCommitting(i)
       \/ KilledDead(i)

Spec == Init /\ [][Next]_vars

-----------------------------------------------------------------------------
(* Properties.                                                              *)

(* The type invariant.  An installer at work holds the lock, so there is    *)
(* one; it may lose it only to others that race to remove a stale one.      *)
TypeOK ==
  /\ dirs \subseteq Release
  /\ current \in Release \cup {None} /\ previous \in Release \cup {None}
  /\ legacy \in BOOLEAN /\ spoiled \in BOOLEAN /\ left \in Nat
  /\ procs \in Seq([rel : Release, cfg : Config, st : Status])
  /\ pidFile \in 0..Len(procs) /\ readyFile \in 0..Len(procs)
  /\ lock \in {"free", "unnamed"} \cup Installers /\ owner \in [Installers -> Installers \cup {None}]
  /\ x \in [Installers -> Local]
  /\ \A i \in Installers : pc[i] \in Working => lock = i

(* Two processes of a role never run at once: the old one is gone before    *)
(* the candidate starts, and the candidate before the old one comes back.   *)
OneInstance == ~spoiled => Cardinality({p \in DOMAIN procs : Alive(p)}) <= 1

(* Neither link ever dangles, wherever an installation failed, was          *)
(* interrupted or died, and whatever is pruned after it; and no process     *)
(* runs from a release that has been deleted, one that an installer started *)
(* and did not live to record aside.                                        *)
LinksWhole == {current, previous} \subseteq dirs \cup {None}

Whole ==
  /\ LinksWhole
  /\ ~spoiled => \A p \in DOMAIN procs : Alive(p) => procs[p].rel \in dirs \/ legacy

(* What an installer says when it ends is so, until another one stops the   *)
(* process: either the new release is current and runs with the new         *)
(* configuration; or the old release does, with the configuration it had    *)
(* (the new one, if it could not be captured), and the links are back; or   *)
(* nothing runs, though the old release, if there was one, has been tried,  *)
(* and the failed one is there to be inspected, unless it was the first.    *)
(* An installer that ends before it stops anything leaves the process       *)
(* alone.  After a kill nothing is said until the next installer has ended, *)
(* and then all of it again.                                                *)
Runs(rel, cfg) ==
  LET p == Len(procs) IN
    /\ current = rel /\ p > 0 /\ procs[p].rel = rel /\ procs[p].cfg = cfg
    /\ procs[p].st = "crashed" \/ (procs[p].st = "serving" /\ pidFile = p)

Before(i) == IF x[i].old # None THEN x[i].old ELSE x[i].before

Promise(i) ==
  CASE result[i] \in {"installed", "interrupted"} -> Runs(i, i)
    [] result[i] = "restored"  ->
         /\ Runs(Before(i), IF x[i].mode = "previous" THEN procs[x[i].pid].cfg ELSE i)
         /\ x[i].before \in dirs => previous = x[i].before
    [] result[i] = "lost"      ->
         /\ \A p \in DOMAIN procs : ~Alive(p)
         /\ Before(i) # None => procs[Len(procs)].rel = Before(i)
         /\ i \in dirs \/ Before(i) = None
    [] OTHER -> result[i] = "killed"

ServiceKept ==
  (\A i \in Installers : pc[i] \notin Changing) /\ ~spoiled =>
    IF last = None THEN \A p \in DOMAIN procs : procs[p].st # "stopped" ELSE Promise(last)

(* What the documents and comments say beyond that, and the code does not.  *)

(* Once the candidate is accepted, signal handling does not roll it back    *)
(* (the comment in front of the commit): no step of the installer ends the  *)
(* process it has accepted.                                                 *)
AcceptedStays ==
  [][\A i \in Installers :
       pc[i] \in {"accepted", "committing"} /\ Alive(x[i].active)
         => procs'[x[i].active].st \notin {"dying", "stopped"}]_vars

(* The release archived from a legacy layout is the rollback target (the    *)
(* guide): an installer that migrated one, stopped its process and did not  *)
(* install has put it back, or has tried to.                                *)
LegacyTarget ==
  \A i \in Installers :
    x[i].old = None /\ x[i].before = "old" /\ result[i] \in {"restored", "lost"} /\ last = i
      => current = "old" \/ \E j \in Installers : pc[j] \in Changing

(* The lock makes a second installer exit (the guide): no two are at work.  *)
OneInstaller == Cardinality({i \in Installers : pc[i] \in Working}) <= 1
=============================================================================

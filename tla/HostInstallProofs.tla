------------------------- MODULE HostInstallProofs -------------------------
(***************************************************************************)
(* Proofs about the installers' transaction, for any number of installers, *)
(* of signals and kills, and of releases kept: the lock admits one at a    *)
(* time, the links never dangle, one process runs at a time, and what an   *)
(* installer reports at its end is so.                                     *)
(*                                                                         *)
(* The invariant has four parts: Types; Locks, of who may be where; Files, *)
(* of what each place in the transaction says of releases and links; and   *)
(* Service, of what it says of the processes and of the way back, which is *)
(* claimed only while no fault has hit one of the gaps HostInstall names   *)
(* (spoiled).                                                              *)
(*                                                                         *)
(* They need the lock to work.  acquire_lock reads whose it is, looks      *)
(* whether that one is dead and removes the lock in separate steps, so an  *)
(* installer may remove the lock that another one has just taken.  Unraced *)
(* says that none ever is about to.  PairsNeverRace shows that for two     *)
(* installers it is so, as the dead owner is a third: for two, as in the   *)
(* run, nothing is assumed (PairsHold).                                    *)
(***************************************************************************)
EXTENDS HostInstall, FiniteSetTheorems, TLAPS

-----------------------------------------------------------------------------
(* The places before an installer has the lock, and after its end. *)
Early == {"off", "locking", "held", "judging", "removing", "retry"}
Ended == {"over", "killed"}
Place == Early \cup Working \cup Ended
Result == {"none", "refused", "failed", "installed", "restored", "lost", "interrupted", "killed"}
Managed == [rel : Release, cfg : Config, st : Status]

(* TypeOK, and the types of the variables it does not speak of.           *)
Types ==
  /\ dirs \subseteq Release
  /\ current \in Release \cup {None} /\ previous \in Release \cup {None}
  /\ legacy \in BOOLEAN /\ spoiled \in BOOLEAN /\ left \in Nat
  /\ procs \in Seq(Managed)
  /\ pidFile \in 0..Len(procs) /\ readyFile \in 0..Len(procs)
  /\ lock \in {"free", "unnamed"} \cup Installers
  /\ x \in [Installers -> Local]
  /\ pc \in [Installers -> Place]
  /\ pending \in [Installers -> BOOLEAN]
  /\ result \in [Installers -> Result]
  /\ last \in Installers \cup {None}
  /\ \A i \in Installers : x[i].mode = "previous" => x[i].pid # 0
  /\ \A i \in Installers : pc[i] = "relinked" => x[i].goal \in Release

(* Who is at work owns the lock, and who has just taken it has left it    *)
(* unnamed.                                                               *)
Locks ==
  /\ \A i \in Installers : pc[i] \in Working => lock = i
  /\ \A i \in Installers : pc[i] = "locking" => lock = "unnamed"
  /\ \A i, j \in Installers : pc[i] = "locking" /\ pc[j] = "locking" => i = j

(* Who is about to remove the lock as stale has read the pid of one that  *)
(* is dead.                                                               *)
Owners ==
  /\ owner \in [Installers -> Installers \cup {None}]
  /\ \A i \in Installers : pc[i] = "removing" => Stale(i)

(* The lock an installer removes, or is about to find stale, is still the *)
(* dead owner's, or has gone.                                             *)
Removes(i) == pc[i] = "removing" \/ (pc[i] = "judging" /\ Stale(i))
Unraced == \A i \in Installers : Removes(i) => lock \in {owner[i], "free"}

-----------------------------------------------------------------------------
(* The list of processes.  A step changes the status of one, or adds one. *)

Restated ==
  /\ procs' \in Seq(Managed) /\ Len(procs') = Len(procs)
  /\ \A p \in 1..Len(procs) : procs'[p].rel = procs[p].rel /\ procs'[p].cfg = procs[p].cfg

Dead == {"stopped", "crashed"}

(* A process that serves, crashes or dies, one that is told to end and    *)
(* one that is killed: the list keeps its length, releases and            *)
(* configurations.                                                        *)
LEMMA BecomesRestates ==
  ASSUME procs \in Seq(Managed), NEW q \in 1..Len(procs), NEW s \in Status, Becomes(q, s)
  PROVE  /\ Restated
         /\ \A p \in 1..Len(procs) : procs'[p].st = IF p = q THEN s ELSE procs[p].st
<1> DEFINE r == [procs[q] EXCEPT !.st = s]
<1>0. procs[q] \in Managed
  OBVIOUS
<1>1. r \in Managed /\ r.st = s /\ r.rel = procs[q].rel /\ r.cfg = procs[q].cfg
  BY <1>0 DEF Managed
<1>2. procs' = [procs EXCEPT ![q] = r]
  BY Zenon DEF Becomes
<1> HIDE DEF r
<1>3. /\ procs' \in Seq(Managed) /\ Len(procs') = Len(procs)
      /\ \A p \in 1..Len(procs) : procs'[p] = IF p = q THEN r ELSE procs[p]
  BY <1>1, <1>2
<1>4. Restated
  BY <1>1, <1>3 DEF Restated
<1> QED
  BY <1>1, <1>3, <1>4

LEMMA TermRestates ==
  ASSUME procs \in Seq(Managed), NEW q \in 0..Len(procs), Term(q)
  PROVE  /\ Restated
         /\ \A p \in 1..Len(procs) :
              procs'[p].st = IF p = q /\ procs[p].st \notin Dead THEN "dying" ELSE procs[p].st
<1>1. "dying" \in Status
  BY DEF Status
<1>2. CASE Alive(q)
  <2>1. q \in 1..Len(procs) /\ Becomes(q, "dying")
    BY <1>2 DEF Alive, Term, Becomes
  <2> QED
    BY <1>1, <1>2, <2>1, BecomesRestates DEF Alive, Dead
<1>3. CASE ~Alive(q)
  BY <1>3 DEF Alive, Term, Restated, Dead
<1> QED
  BY <1>2, <1>3

LEMMA GoneRestates ==
  ASSUME procs \in Seq(Managed), NEW q \in 0..Len(procs), Gone(q)
  PROVE  /\ Restated
         /\ \A p \in 1..Len(procs) :
              procs'[p].st = IF p = q /\ procs[p].st \notin Dead THEN "stopped" ELSE procs[p].st
<1>1. "stopped" \in Status
  BY DEF Status
<1>2. CASE Alive(q)
  <2>1. q \in 1..Len(procs) /\ Becomes(q, "stopped")
    BY <1>2 DEF Alive, Gone, Becomes
  <2> QED
    BY <1>1, <1>2, <2>1, BecomesRestates DEF Alive, Dead
<1>3. CASE ~Alive(q)
  BY <1>3 DEF Alive, Gone, Restated, Dead
<1> QED
  BY <1>2, <1>3

(* A process that is started is the last of the list. *)
LEMMA AppendGrows ==
  ASSUME procs \in Seq(Managed), NEW rel \in Release, NEW cfg \in Config,
         procs' = Append(procs, Process(rel, cfg, "starting"))
  PROVE  /\ procs' \in Seq(Managed) /\ Len(procs') = Len(procs) + 1
         /\ \A p \in 1..Len(procs) : procs'[p] = procs[p]
         /\ procs'[Len(procs')] = Process(rel, cfg, "starting")
  BY DEF Managed, Process, Status

-----------------------------------------------------------------------------
(* Types, by action. *)

(* The places an installer can come to, one by one. *)
LEMMA Places ==
  Place = {"off", "locking", "held", "judging", "removing", "retry", "staging", "staged", "stop", "stopping", "spawned",
           "stopped", "saved", "activated", "running", "accepted", "rolledback", "killing", "failed",
           "relinked", "respawned", "rewaiting", "unrestoring", "committing", "pruning", "over", "killed"}
  BY DEF Place, Early, Ended, Working, Harmless, Changing, Deferred, Immediate, RollingBack

LEMMA FreshLocal == Fresh \in Local
  BY DEF Fresh, Local, Types

LEMMA InitTypes == Init => Types
<1> SUFFICES ASSUME Init PROVE Types
  OBVIOUS
<1>1. /\ dirs \subseteq Release
      /\ current \in Release \cup {None} /\ previous \in Release \cup {None}
      /\ legacy \in BOOLEAN /\ spoiled \in BOOLEAN /\ left \in Nat
  BY HostInstallAssumption DEF Init, Release
<1>2. /\ procs \in Seq(Managed)
      /\ pidFile \in 0..Len(procs) /\ readyFile \in 0..Len(procs)
  <2>1. CASE procs = <<>> /\ pidFile = 0 /\ readyFile = 0
    BY <2>1
  <2>2. CASE (\E st \in {"serving", "crashed"} : procs = <<Process("old", "old", st)>>) /\ pidFile = 1 /\ readyFile = 1
    <3> PICK st \in {"serving", "crashed"} : procs = <<Process("old", "old", st)>>
      BY <2>2
    <3>1. Process("old", "old", st) \in Managed
      BY DEF Process, Managed, Release, Config, Status
    <3> QED
      BY <2>2, <3>1
  <2> QED
    BY <2>1, <2>2 DEF Init
<1>3. x \in [Installers -> Local]
  BY <1>2, FreshLocal DEF Init
<1> QED
  BY <1>1, <1>2, <1>3, Places DEF Init, Types, Result, Fresh

(* What a step leaves alone while the list keeps its length. *)
SameLength == Len(procs') = Len(procs)

LEMMA SameLocal == ASSUME SameLength PROVE Local' = Local
  BY DEF SameLength, Local

LEMMA MoreLocal == ASSUME procs \in Seq(Managed), procs' \in Seq(Managed), Len(procs') >= Len(procs) PROVE Local \subseteq Local'
  BY DEF Local

(* The records a step puts in the place of an installer's. *)
LEMMA LocalKinds ==
  ASSUME Types, NEW i \in Installers
  PROVE  /\ x[i] \in Local /\ x = [x EXCEPT ![i] = x[i]]
         /\ x[i].old \in Release \cup {None} /\ x[i].before \in Release \cup {None}
         /\ x[i].pid \in 0..Len(procs) /\ x[i].active \in 0..Len(procs)
         /\ \A by \in {"failure", "signal"} : [x[i] EXCEPT !.by = by] \in Local
         /\ [x[i] EXCEPT !.keep = TRUE] \in Local
         /\ [x[i] EXCEPT !.active = 0] \in Local
         /\ [x[i] EXCEPT !.goal = None, !.keep = TRUE] \in Local
         /\ [x[i] EXCEPT !.active = 0, !.keep = TRUE, !.goal = None] \in Local
         /\ \A goal \in Release : [x[i] EXCEPT !.goal = goal] \in Local
<1>1. x[i] \in Local /\ x = [x EXCEPT ![i] = x[i]]
  BY DEF Types
<1>2. /\ x[i].old \in Release \cup {None} /\ x[i].before \in Release \cup {None}
      /\ x[i].pid \in 0..Len(procs) /\ x[i].active \in 0..Len(procs)
  BY <1>1 DEF Local
<1>3. \A by \in {"failure", "signal"} : [x[i] EXCEPT !.by = by] \in Local
  BY <1>1 DEF Local
<1>4. [x[i] EXCEPT !.keep = TRUE] \in Local
  BY <1>1 DEF Local
<1>5. Len(procs) \in Nat
  BY DEF Types
<1>6. [x[i] EXCEPT !.active = 0] \in Local
  BY <1>1, <1>5 DEF Local
<1>7. [x[i] EXCEPT !.goal = None, !.keep = TRUE] \in Local
  BY <1>1 DEF Local
<1>8. [x[i] EXCEPT !.active = 0, !.keep = TRUE, !.goal = None] \in Local
  <2>1. \A f \in Local : [f EXCEPT !.goal = None, !.keep = TRUE] \in Local
    BY DEF Local
  <2>2. [[x[i] EXCEPT !.active = 0] EXCEPT !.goal = None, !.keep = TRUE] \in Local
    BY <1>6, <2>1
  <2>3. [x[i] EXCEPT !.active = 0, !.keep = TRUE, !.goal = None]
          = [[x[i] EXCEPT !.active = 0] EXCEPT !.goal = None, !.keep = TRUE]
    OBVIOUS
  <2> QED
    BY <2>2, <2>3
<1>9. \A goal \in Release : [x[i] EXCEPT !.goal = goal] \in Local
  BY <1>1 DEF Local
<1> QED
  BY <1>1, <1>2, <1>3, <1>4, <1>6, <1>7, <1>8, <1>9

(* A step of one installer, of which only its record and its place change. *)
LEMMA MoveTypes ==
  ASSUME Types, NEW i \in Installers, NEW l \in Place, NEW r \in Local',
         dirs' \subseteq Release,
         current' \in Release \cup {None}, previous' \in Release \cup {None},
         legacy' \in BOOLEAN, spoiled' \in BOOLEAN, left' \in Nat,
         procs' \in Seq(Managed), Len(procs') >= Len(procs),
         pidFile' \in 0..Len(procs'), readyFile' \in 0..Len(procs'),
         lock' \in {"free", "unnamed"} \cup Installers,
         r.mode = "previous" => r.pid # 0, l = "relinked" => r.goal \in Release,
         x' = [x EXCEPT ![i] = r], Goto(i, l),
         pending' \in [Installers -> BOOLEAN],
         result' \in [Installers -> Result],
         last' \in Installers \cup {None}
  PROVE  Types'
<1>1. Local \subseteq Local'
  BY MoreLocal DEF Types
<1>2. \A k \in Installers : x'[k] = (IF k = i THEN r ELSE x[k]) /\ pc'[k] = (IF k = i THEN l ELSE pc[k])
  BY DEF Types, Goto
<1>3. x' \in [Installers -> Local'] /\ pc' \in [Installers -> Place]
  BY <1>1 DEF Types, Goto
<1>4. \A k \in Installers : x'[k].mode = "previous" => x'[k].pid # 0
  BY <1>2 DEF Types
<1>5. \A k \in Installers : pc'[k] = "relinked" => x'[k].goal \in Release
  BY <1>2 DEF Types
<1> QED
  BY <1>3, <1>4, <1>5 DEF Types

(* What there is of a step that starts or ends no process. *)
LEMMA SameTypes ==
  ASSUME Types, SameLength, procs' \in Seq(Managed),
         pidFile' \in {0, pidFile}, readyFile' \in {0, readyFile}
  PROVE  /\ Local' = Local /\ Len(procs') >= Len(procs)
         /\ pidFile' \in 0..Len(procs') /\ readyFile' \in 0..Len(procs')
  BY SameLocal DEF Types, SameLength

(* Every step keeps the types. *)
LEMMA TypesStep == ASSUME Types, [Next]_vars PROVE Types'
<1>1. ASSUME UNCHANGED vars PROVE Types'
  BY <1>1 DEF vars, fileVars, pidVars, runVars, Types, Local
<1>2. ASSUME NEW p \in DOMAIN procs, Serves(p) \/ Crashes(p) \/ Dies(p) PROVE Types'
  <2>1. PICK s \in Status : Becomes(p, s) /\ readyFile' \in {0, readyFile, p} /\ Lives
    BY <1>2 DEF Serves, Crashes, Dies, Status
  <2>2. p \in 1..Len(procs) /\ Restated
    BY <2>1, BecomesRestates DEF Types
  <2>3. Local' = Local
    BY <2>2, SameLocal DEF Restated, SameLength
  <2> QED
    BY <2>1, <2>2, <2>3 DEF Lives, fileVars, runVars, Types, Restated
<1>3. ASSUME NEW i \in Installers, \/ LockTaken(i) \/ LockNamed(i) \/ LockHeld(i) \/ LockRead(i)
                                   \/ LockStale(i) \/ LockRemoved(i) \/ Refused(i)
      PROVE  Types'
  <2>1. /\ UNCHANGED <<current, previous, legacy, procs, pidFile, readyFile, x, pending, last, spoiled, left>>
        /\ SameLength
    BY <1>3 DEF LockTaken, LockNamed, LockHeld, LockRead, LockStale, LockRemoved, Refused, Quiet, fileVars, pidVars, SameLength
  <2>2. dirs' \subseteq Release /\ lock' \in {"free", "unnamed"} \cup Installers /\ result' \in [Installers -> Result]
    BY <1>3 DEF LockTaken, LockNamed, LockHeld, LockRead, LockStale, LockRemoved, Refused, Quiet, fileVars, Types, Release, Result
  <2>3. PICK l \in Place : Goto(i, l) /\ l # "relinked"
    BY <1>3, Places DEF LockTaken, LockNamed, LockHeld, LockRead, LockStale, LockRemoved, Refused
  <2>4. x[i].mode = "previous" => x[i].pid # 0
    BY DEF Types
  <2>5. procs' \in Seq(Managed) /\ Len(procs') >= Len(procs) /\ Local' = Local
        /\ pidFile' \in 0..Len(procs') /\ readyFile' \in 0..Len(procs')
    BY <2>1, SameTypes DEF Types
  <2>6. x' = [x EXCEPT ![i] = x[i]] /\ x[i] \in Local'
    BY <2>1, <2>5, LocalKinds
  <2>7. /\ current' \in Release \cup {None} /\ previous' \in Release \cup {None}
        /\ legacy' \in BOOLEAN /\ spoiled' \in BOOLEAN /\ left' \in Nat
        /\ pending' \in [Installers -> BOOLEAN] /\ last' \in Installers \cup {None}
    BY <2>1 DEF Types
  <2> QED
    BY <2>2, <2>3, <2>4, <2>5, <2>6, <2>7, MoveTypes
<1>4. ASSUME NEW i \in Installers, StageFails(i) \/ CaptureFails(i) \/ Finishes(i) \/ GivesUp(i) \/ Leaves(i)
      PROVE  Types'
  <2>1. /\ UNCHANGED <<current, previous, legacy, procs, readyFile, x, pending, spoiled>>
        /\ pidFile' \in {0, pidFile} /\ SameLength
    BY <1>4 DEF StageFails, CaptureFails, Finishes, GivesUp, Leaves, Exits, pidVars, SameLength
  <2>2. dirs' \subseteq Release /\ lock' \in {"free", "unnamed"} \cup Installers /\ left' \in Nat
        /\ result' \in [Installers -> Result] /\ last' \in Installers \cup {None}
    BY <1>4 DEF StageFails, CaptureFails, Finishes, GivesUp, Leaves, Exits, Types, Fault, Result
  <2>3. Goto(i, "over") /\ "over" \in Place /\ "over" # "relinked"
    BY <1>4, Places DEF StageFails, CaptureFails, Finishes, GivesUp, Leaves, Exits
  <2>4. x[i].mode = "previous" => x[i].pid # 0
    BY DEF Types
  <2>5. procs' \in Seq(Managed) /\ Len(procs') >= Len(procs) /\ Local' = Local
        /\ pidFile' \in 0..Len(procs') /\ readyFile' \in 0..Len(procs')
    BY <2>1, SameTypes DEF Types
  <2>6. x' = [x EXCEPT ![i] = x[i]] /\ x[i] \in Local'
    BY <2>1, <2>5, LocalKinds
  <2>7. /\ current' \in Release \cup {None} /\ previous' \in Release \cup {None}
        /\ legacy' \in BOOLEAN /\ spoiled' \in BOOLEAN /\ pending' \in [Installers -> BOOLEAN]
    BY <2>1 DEF Types
  <2> QED
    BY <2>2, <2>3, <2>4, <2>5, <2>6, <2>7, MoveTypes
<1>5. ASSUME NEW i \in Installers, Staged(i) \/ SavesPrevious(i) \/ Activates(i) \/ Publishes(i) \/ Commits(i)
      PROVE  Types'
  <2>1. UNCHANGED <<procs, readyFile, x>> /\ Quiet /\ SameLength
    BY <1>5 DEF Staged, SavesPrevious, Activates, Publishes, Commits, fileVars, pidVars, SameLength
  <2>2. pidFile' \in {pidFile, x[i].active} /\ x[i].active \in 0..Len(procs) /\ pidFile \in 0..Len(procs)
    BY <1>5, LocalKinds DEF Staged, SavesPrevious, Activates, Publishes, Commits, fileVars, pidVars, Types
  <2>3. pidFile' \in 0..Len(procs)
    BY <2>2
  <2>4. dirs' \subseteq Release /\ current' \in Release \cup {None} /\ previous' \in Release \cup {None} /\ legacy' \in BOOLEAN
    BY <1>5, LocalKinds DEF Staged, SavesPrevious, Activates, Publishes, Commits, fileVars, Types, Release
  <2>5. PICK l \in Place : Goto(i, l) /\ l # "relinked"
    BY <1>5, Places DEF Staged, SavesPrevious, Activates, Publishes, Commits
  <2>6. x[i].mode = "previous" => x[i].pid # 0
    BY DEF Types
  <2>7. procs' \in Seq(Managed) /\ Len(procs') >= Len(procs) /\ Local' = Local
        /\ pidFile' \in 0..Len(procs') /\ readyFile' \in 0..Len(procs')
    BY <2>1, <2>3, SameLocal DEF Types, SameLength
  <2>8. x' = [x EXCEPT ![i] = x[i]] /\ x[i] \in Local'
    BY <2>1, <2>7, LocalKinds
  <2>9. /\ spoiled' \in BOOLEAN /\ left' \in Nat /\ pending' \in [Installers -> BOOLEAN]
        /\ lock' \in {"free", "unnamed"} \cup Installers
        /\ result' \in [Installers -> Result] /\ last' \in Installers \cup {None}
    BY <2>1 DEF Types, Quiet
  <2> QED
    BY <2>4, <2>5, <2>6, <2>7, <2>8, <2>9, MoveTypes
<1>6. ASSUME NEW i \in Installers, Captures(i) PROVE Types'
  <2>1. /\ UNCHANGED <<fileVars, procs, readyFile>> /\ pidFile' \in {0, pidFile} /\ Quiet /\ SameLength
        /\ Goto(i, "stop")
    BY <1>6 DEF Captures, Found, SameLength
  <2>2. PICK pid \in {0, pidFile}, mode \in {"previous", "current"} :
           Found(i, pid, mode) /\ (mode = "previous" => pid # 0)
    BY <1>6 DEF Captures, Alive
  <2> DEFINE r == [Fresh EXCEPT !.before = previous, !.old = current, !.pid = pid, !.mode = mode]
  <2>3. pid \in 0..Len(procs) /\ previous \in Release \cup {None} /\ current \in Release \cup {None}
    BY DEF Types
  <2>4. r \in Local /\ (r.mode = "previous" => r.pid # 0)
    <3>1. \A f \in Local : [f EXCEPT !.before = previous, !.old = current, !.pid = pid, !.mode = mode] \in Local
      BY <2>3 DEF Local
    <3>2. r \in Local
      BY <3>1, FreshLocal
    <3>3. r.mode = mode /\ r.pid = pid
      BY DEF Fresh
    <3> QED
      BY <2>2, <3>2, <3>3
  <2>5. x' = [x EXCEPT ![i] = r]
    BY <2>2 DEF Found
  <2> HIDE DEF r
  <2>6. procs' \in Seq(Managed) /\ Len(procs') >= Len(procs) /\ Local' = Local
        /\ pidFile' \in 0..Len(procs') /\ readyFile' \in 0..Len(procs')
    BY <2>1, SameTypes DEF Types
  <2>7. /\ dirs' \subseteq Release /\ current' \in Release \cup {None} /\ previous' \in Release \cup {None}
        /\ legacy' \in BOOLEAN /\ spoiled' \in BOOLEAN /\ left' \in Nat /\ pending' \in [Installers -> BOOLEAN]
        /\ lock' \in {"free", "unnamed"} \cup Installers
        /\ result' \in [Installers -> Result] /\ last' \in Installers \cup {None}
    BY <2>1 DEF Types, Quiet, fileVars
  <2>8. "stop" \in Place /\ "stop" # "relinked"
    BY Places
  <2> QED
    BY <2>1, <2>4, <2>5, <2>6, <2>7, <2>8, MoveTypes
<1>7. ASSUME NEW i \in Installers, \/ Stops(i) \/ Stopped(i) \/ Fails(i) \/ Killed(i) \/ RestoreFails(i) \/ Unrestored(i)
                                   \/ TakesPending(i) \/ RollsBack(i) \/ LeavesCommitting(i)
      PROVE  Types'
  <2>1. UNCHANGED <<fileVars, pending>>
    BY <1>7 DEF Stops, Stopped, Fails, Killed, RestoreFails, Unrestored, TakesPending, RollsBack, Interrupted,
                LeavesCommitting, Quiet
  <2>0. spoiled' \in BOOLEAN
    BY <1>7 DEF Stops, Stopped, Fails, Killed, RestoreFails, Unrestored, TakesPending, RollsBack, Interrupted,
                LeavesCommitting, Quiet, Types
  <2>11. left' \in Nat
    BY <1>7 DEF Stops, Stopped, Fails, Killed, RestoreFails, Unrestored, TakesPending, RollsBack, Interrupted,
                LeavesCommitting, Quiet, Types, Fault
  <2>2. /\ lock' \in {"free", "unnamed"} \cup Installers /\ result' \in [Installers -> Result]
        /\ last' \in Installers \cup {None}
    BY <1>7 DEF Stops, Stopped, Fails, Killed, RestoreFails, Unrestored, TakesPending, RollsBack, Interrupted,
                LeavesCommitting, Quiet, Types, Result
  <2>3. PICK l \in Place : Goto(i, l) /\ l # "relinked"
    BY <1>7, Places DEF Stops, Stopped, Fails, Killed, RestoreFails, Unrestored, TakesPending, RollsBack, Interrupted,
                LeavesCommitting
  <2>4. Term(x[i].pid) \/ Gone(x[i].pid) \/ Term(x[i].active) \/ Gone(x[i].active)
    BY <1>7 DEF Stops, Stopped, Fails, Killed, RestoreFails, Unrestored, TakesPending, RollsBack, Interrupted,
                LeavesCommitting
  <2>5. Restated /\ SameLength
    BY <2>4, LocalKinds, TermRestates, GoneRestates DEF Types, Restated, SameLength
  <2>6. pidFile' \in {0, pidFile} /\ readyFile' \in {0, readyFile}
    BY <1>7 DEF Stops, Stopped, Fails, Killed, RestoreFails, Unrestored, TakesPending, RollsBack, Interrupted,
                LeavesCommitting, Cleared
  <2>7. procs' \in Seq(Managed) /\ Len(procs') >= Len(procs) /\ Local' = Local
        /\ pidFile' \in 0..Len(procs') /\ readyFile' \in 0..Len(procs')
    BY <2>5, <2>6, SameTypes DEF Restated
  <2>8. x[i].mode = "previous" => x[i].pid # 0
    BY DEF Types
  <2>9. PICK r \in Local : x' = [x EXCEPT ![i] = r] /\ (r.mode = "previous" => r.pid # 0)
    <3>1. \/ x' = x
          \/ \E by \in {"failure", "signal"} : x' = [x EXCEPT ![i] = [x[i] EXCEPT !.by = by]]
          \/ x' = [x EXCEPT ![i] = [x[i] EXCEPT !.active = 0]]
          \/ x' = [x EXCEPT ![i] = [x[i] EXCEPT !.active = 0, !.keep = TRUE, !.goal = None]]
      BY <1>7 DEF Stops, Stopped, Fails, Killed, RestoreFails, Unrestored, TakesPending, RollsBack, Interrupted,
                  LeavesCommitting
    <3>2. \A by : LET r == [x[i] EXCEPT !.by = by] IN r.mode = x[i].mode /\ r.pid = x[i].pid
      BY LocalKinds DEF Local
    <3>3. LET r == [x[i] EXCEPT !.active = 0] IN r.mode = x[i].mode /\ r.pid = x[i].pid
      BY LocalKinds DEF Local
    <3>4. LET r == [x[i] EXCEPT !.active = 0, !.keep = TRUE, !.goal = None] IN r.mode = x[i].mode /\ r.pid = x[i].pid
      BY LocalKinds DEF Local
    <3> QED
      BY <2>8, <3>1, <3>2, <3>3, <3>4, LocalKinds
  <2>10. dirs' \subseteq Release /\ current' \in Release \cup {None} /\ previous' \in Release \cup {None}
         /\ legacy' \in BOOLEAN /\ pending' \in [Installers -> BOOLEAN]
    BY <2>1 DEF Types, fileVars
  <2> QED
    BY <2>0, <2>1, <2>2, <2>3, <2>7, <2>9, <2>10, <2>11, MoveTypes
<1>8. ASSUME NEW i \in Installers, StartsCandidate(i) \/ Restarts(i) PROVE Types'
  <2>1. x[i] \in Local /\ x[i].pid \in 0..Len(procs) /\ (x[i].mode = "previous" => x[i].pid # 0)
    BY LocalKinds DEF Types
  <2>2. OldConfig(i) \in Config
    <3>1. x[i].pid # 0 => procs[x[i].pid] \in Managed
      BY <2>1 DEF Types
    <3> QED
      BY <2>1, <3>1 DEF OldConfig, Config, Managed
  <2>3. PICK rel \in Release, cfg \in Config : Starts(i, rel, cfg)
    BY <1>8, <2>2 DEF StartsCandidate, Restarts, Release, Config, Types
  <2>4. PICK l \in {"spawned", "respawned"} : Goto(i, l)
    BY <1>8 DEF StartsCandidate, Restarts
  <2>5. procs' \in Seq(Managed) /\ Len(procs') = Len(procs) + 1 /\ Len(procs) \in Nat
    BY <2>3, AppendGrows DEF Starts, Types
  <2>6. x[i] \in Local' /\ Len(procs') \in 0..Len(procs')
    BY <2>1, <2>5, MoreLocal DEF Types
  <2> DEFINE r == [x[i] EXCEPT !.active = Len(procs')]
  <2>7. x' = [x EXCEPT ![i] = r]
    BY <2>3 DEF Starts
  <2>8. r \in Local' /\ r.mode = x[i].mode /\ r.pid = x[i].pid
    BY <2>6 DEF Local
  <2> HIDE DEF r
  <2>9. UNCHANGED <<fileVars, pidFile>> /\ readyFile' = 0 /\ Quiet
    BY <2>3 DEF Starts
  <2>10. /\ dirs' \subseteq Release /\ current' \in Release \cup {None} /\ previous' \in Release \cup {None}
         /\ legacy' \in BOOLEAN /\ spoiled' \in BOOLEAN /\ left' \in Nat /\ pending' \in [Installers -> BOOLEAN]
         /\ lock' \in {"free", "unnamed"} \cup Installers
         /\ result' \in [Installers -> Result] /\ last' \in Installers \cup {None}
    BY <2>9 DEF Types, Quiet, fileVars
  <2>11. pidFile' \in 0..Len(procs') /\ readyFile' \in 0..Len(procs') /\ Len(procs') >= Len(procs)
    BY <2>5, <2>9 DEF Types
  <2>12. l \in Place /\ l # "relinked"
    BY Places
  <2> QED
    BY <2>1, <2>4, <2>5, <2>7, <2>8, <2>10, <2>11, <2>12, MoveTypes
<1>9. ASSUME NEW i \in Installers,
             \/ Accepted(i) \/ Settles(i) \/ Relinks(i) \/ NothingToRestore(i) \/ Restored(i) \/ Defers(i)
             \/ KilledDead(i)
      PROVE  Types'
  <2>1. procs' = procs /\ SameLength
    BY <1>9 DEF Accepted, Settles, Relinks, NothingToRestore, Restored, Defers, KilledDead, pidVars, SameLength
  <2>2. dirs' \subseteq Release /\ legacy' = legacy /\ left' \in Nat
    BY <1>9 DEF Accepted, Settles, Relinks, NothingToRestore, Restored, Defers, KilledDead, fileVars, Types,
                Quiet, Fault
  <2>3. Goal(i) \in Release \cup {None}
    BY LocalKinds DEF Goal, Types
  <2>4. current' \in Release \cup {None} /\ previous' \in Release \cup {None}
    BY <1>9, <2>3, LocalKinds
       DEF Accepted, Settles, Relinks, NothingToRestore, Restored, Defers, KilledDead, fileVars, Types
  <2>5. pidFile' \in {0, pidFile} /\ readyFile' \in {0, readyFile}
    BY <1>9 DEF Accepted, Settles, Relinks, NothingToRestore, Restored, Defers, KilledDead, pidVars
  <2>6. pending' \in [Installers -> BOOLEAN] /\ spoiled' \in BOOLEAN
    BY <1>9 DEF Accepted, Settles, Relinks, NothingToRestore, Restored, Defers, KilledDead, Quiet, Types
  <2>7. lock' \in {"free", "unnamed"} \cup Installers /\ result' \in [Installers -> Result] /\ last' \in Installers \cup {None}
    BY <1>9 DEF Accepted, Settles, Relinks, NothingToRestore, Restored, Defers, KilledDead, Quiet, Types, Result
  <2>8. procs' \in Seq(Managed) /\ Len(procs') >= Len(procs) /\ Local' = Local
        /\ pidFile' \in 0..Len(procs') /\ readyFile' \in 0..Len(procs')
    BY <2>1, <2>5, SameTypes DEF Types
  <2>9. /\ x[i].mode = "previous" => x[i].pid # 0
        /\ pc[i] = "relinked" => x[i].goal \in Release
        /\ pc[i] \in Place /\ pc = [pc EXCEPT ![i] = pc[i]]
    BY DEF Types
  <2>10. CASE Relinks(i)
    <3> DEFINE r == [x[i] EXCEPT !.goal = Goal(i)]
    <3>1. Goal(i) \in Release /\ Goto(i, "relinked") /\ x' = [x EXCEPT ![i] = r]
      BY <2>10 DEF Relinks, Types
    <3>2. r \in Local /\ r.mode = x[i].mode /\ r.pid = x[i].pid /\ r.goal = Goal(i)
      <4>1. r \in Local
        BY <3>1, LocalKinds
      <4>2. x[i] \in [before : Release \cup {None}, old : Release \cup {None}, pid : 0..Len(procs),
                      mode : {"current", "previous"}, active : 0..Len(procs), goal : Release \cup {None},
                      by : {"failure", "signal"}, keep : BOOLEAN]
        BY LocalKinds DEF Local
      <4> QED
        BY <4>1, <4>2
    <3> HIDE DEF r
    <3>3. "relinked" \in Place /\ legacy' \in BOOLEAN
      BY <2>2, Places DEF Types
    <3>4. r.mode = "previous" => r.pid # 0
      BY <2>9, <3>2
    <3>5. r \in Local' /\ r.goal \in Release
      BY <2>8, <3>1, <3>2
    <3> QED
      BY <2>2, <2>4, <2>6, <2>7, <2>8, <3>1, <3>3, <3>4, <3>5, MoveTypes
  <2>11. CASE Defers(i)
    <3>1. x' = [x EXCEPT ![i] = x[i]] /\ Goto(i, pc[i])
      BY <2>9, <2>11, LocalKinds DEF Defers, Goto
    <3> QED
      BY <2>2, <2>4, <2>6, <2>7, <2>8, <2>9, <3>1, LocalKinds, MoveTypes DEF Types
  <2>12. CASE ~Relinks(i) /\ ~Defers(i)
    <3>1. PICK l \in Place : Goto(i, l) /\ l # "relinked"
      BY <1>9, <2>12, Places DEF Accepted, Settles, NothingToRestore, Restored, KilledDead
    <3>2. \/ x' = [x EXCEPT ![i] = Fresh]
          \/ x' = [x EXCEPT ![i] = [x[i] EXCEPT !.active = 0]]
          \/ x' = [x EXCEPT ![i] = [x[i] EXCEPT !.keep = TRUE]]
          \/ x' = [x EXCEPT ![i] = [x[i] EXCEPT !.goal = None, !.keep = TRUE]]
      BY <1>9, <2>12 DEF Accepted, Settles, NothingToRestore, Restored, KilledDead
    <3>3. LET r == [x[i] EXCEPT !.keep = TRUE] IN r.mode = x[i].mode /\ r.pid = x[i].pid
      BY LocalKinds DEF Local
    <3>4. LET r == [x[i] EXCEPT !.active = 0] IN r.mode = x[i].mode /\ r.pid = x[i].pid
      BY LocalKinds DEF Local
    <3>5. LET r == [x[i] EXCEPT !.goal = None, !.keep = TRUE] IN r.mode = x[i].mode /\ r.pid = x[i].pid
      BY LocalKinds DEF Local
    <3>6. Fresh \in Local /\ Fresh.mode # "previous"
      BY FreshLocal DEF Fresh
    <3>7. PICK r \in Local : x' = [x EXCEPT ![i] = r] /\ (r.mode = "previous" => r.pid # 0)
      BY <2>9, <3>2, <3>3, <3>4, <3>5, <3>6, LocalKinds
    <3> QED
      BY <2>2, <2>4, <2>6, <2>7, <2>8, <3>1, <3>7, MoveTypes DEF Types
  <2> QED
    BY <1>9, <2>10, <2>11, <2>12
<1>10. ASSUME NEW i \in Installers, Prunes(i) PROVE Types'
  <2>1. UNCHANGED <<current, previous, legacy, pidVars, runVars, last, spoiled, left>> /\ dirs' \subseteq dirs
    BY <1>10 DEF Prunes
  <2>2. Local' = Local
    BY <2>1, SameLocal DEF SameLength, pidVars
  <2> QED
    BY <2>1, <2>2 DEF Types, pidVars, runVars
<1> QED
  BY <1>1, <1>2, <1>3, <1>4, <1>5, <1>6, <1>7, <1>8, <1>9, <1>10 DEF Next

-----------------------------------------------------------------------------
(* The lock.                                                                *)

(* Where a step of the installer i leaves the others. *)
Alone(i) == \A k \in Installers : k # i => pc'[k] = pc[k] /\ x'[k] = x[k]

(* A step of an installer that holds the lock. *)
Works(i) ==
  \/ StageFails(i) \/ Staged(i) \/ Captures(i) \/ CaptureFails(i)
  \/ Stops(i) \/ Stopped(i) \/ SavesPrevious(i) \/ Activates(i)
  \/ StartsCandidate(i) \/ Publishes(i) \/ Accepted(i) \/ Commits(i)
  \/ Settles(i) \/ Prunes(i) \/ Finishes(i)
  \/ Fails(i) \/ Killed(i) \/ Relinks(i) \/ NothingToRestore(i) \/ Restarts(i)
  \/ Restored(i) \/ RestoreFails(i) \/ Unrestored(i) \/ GivesUp(i)
  \/ TakesPending(i) \/ Defers(i) \/ RollsBack(i) \/ Leaves(i) \/ LeavesCommitting(i)

(* A step of an installer that holds the lock, and keeps or frees it. *)
LEMMA WorkAlone ==
  ASSUME Types, NEW i \in Installers, Works(i)
  PROVE  /\ pc[i] \in Working /\ pc'[i] \in Working \cup {"over"}
         /\ pc'[i] \in Working => lock' = lock
         /\ lock' \in {lock, "free"}
         /\ Alone(i) /\ owner' = owner
<1>1. pc[i] \in Working
  BY DEF Works, StageFails, Staged, Captures, CaptureFails, Stops, Stopped, SavesPrevious, Activates, StartsCandidate,
         Publishes, Accepted, Commits, Settles, Prunes, Finishes, Fails, Killed, Relinks, NothingToRestore, Restarts, Restored,
         RestoreFails, Unrestored, GivesUp, TakesPending, Defers, RollsBack, Leaves, LeavesCommitting,
         Working, Harmless, Changing, Deferred, Immediate, RollingBack
<1>2. PICK l \in Working \cup {"over"} : pc' = [pc EXCEPT ![i] = l]
  <2>1. CASE Defers(i) \/ Prunes(i)
    BY <1>1, <2>1 DEF Defers, Prunes, runVars, Types
  <2>2. CASE ~Defers(i) /\ ~Prunes(i)
    BY <2>2
       DEF Works, StageFails, Staged, Captures, Found, CaptureFails, Stops, Stopped, SavesPrevious, Activates, StartsCandidate,
         Publishes, Accepted, Commits, Settles, Prunes, Finishes, Fails, Killed, Relinks, NothingToRestore, Restarts, Restored,
         RestoreFails, Unrestored, GivesUp, TakesPending, RollsBack, Leaves, LeavesCommitting, Interrupted,
         Exits, Goto, Working, Harmless, Changing, Deferred, Immediate, RollingBack
  <2> QED
    BY <2>1, <2>2
<1>3. lock' = lock \/ pc' = [pc EXCEPT ![i] = "over"]
  BY DEF Works, StageFails, Staged, Captures, Found, CaptureFails, Stops, Stopped, SavesPrevious, Activates, StartsCandidate,
         Publishes, Accepted, Commits, Settles, Prunes, Finishes, Fails, Killed, Relinks, NothingToRestore, Restarts, Restored,
         RestoreFails, Unrestored, GivesUp, TakesPending, Defers, RollsBack, Leaves, LeavesCommitting, Interrupted,
         Exits, Quiet, Starts, Goto, runVars
<1>4. \A k \in Installers : k # i => x'[k] = x[k]
  BY DEF Works, StageFails, Staged, Captures, Found, CaptureFails, Stops, Stopped, SavesPrevious, Activates, StartsCandidate,
         Publishes, Accepted, Commits, Settles, Prunes, Finishes, Fails, Killed, Relinks, NothingToRestore, Restarts, Restored,
         RestoreFails, Unrestored, GivesUp, TakesPending, Defers, RollsBack, Leaves, LeavesCommitting, Interrupted,
         Starts, Types, runVars
<1>6. owner' = owner /\ lock' \in {lock, "free"}
  BY DEF Works, StageFails, Staged, Captures, Found, CaptureFails, Stops, Stopped, SavesPrevious, Activates, StartsCandidate,
         Publishes, Accepted, Commits, Settles, Prunes, Finishes, Fails, Killed, Relinks, NothingToRestore, Restarts, Restored,
         RestoreFails, Unrestored, GivesUp, TakesPending, Defers, RollsBack, Leaves, LeavesCommitting, Interrupted,
         Exits, Quiet, Starts, runVars
<1>5. "over" \notin Working
  BY DEF Working, Harmless, Changing, Deferred, Immediate, RollingBack
<1> QED
  BY <1>1, <1>2, <1>3, <1>4, <1>5, <1>6 DEF Types, Alone

(* A step of an installer that has no lock yet, or is killed. *)
Locking(i) ==
  \/ LockTaken(i) \/ LockNamed(i) \/ LockHeld(i) \/ LockRead(i)
  \/ LockStale(i) \/ LockRemoved(i) \/ Refused(i) \/ KilledDead(i)

LEMMA LockingAlone ==
  ASSUME Types, NEW i \in Installers, Locking(i)
  PROVE  /\ pc[i] \in Working \cup Early
         /\ \A k \in Installers : k # i => pc'[k] = pc[k]
<1>1. pc[i] \in Working \cup Early
  BY DEF Locking, LockTaken, LockNamed, LockHeld, LockRead, LockStale, LockRemoved, Refused, KilledDead, Early
<1>2. \A k \in Installers : k # i => pc'[k] = pc[k]
  BY DEF Locking, LockTaken, LockNamed, LockHeld, LockRead, LockStale, LockRemoved, Refused, KilledDead, Goto, Types
<1> QED
  BY <1>1, <1>2

(* One that is dead does nothing. *)
LEMMA DeadStay ==
  ASSUME Types, [Next]_vars, NEW j \in Installers, pc[j] \in Ended
  PROVE  pc'[j] = pc[j]
<1>1. pc[j] \notin Working \cup Early
  BY DEF Ended, Early, Working, Harmless, Changing, Deferred, Immediate, RollingBack
<1>2. CASE UNCHANGED vars
  BY <1>2 DEF vars, runVars
<1>3. ASSUME NEW p \in DOMAIN procs, Serves(p) \/ Crashes(p) \/ Dies(p) PROVE pc' = pc
  BY <1>3 DEF Serves, Crashes, Dies, Lives, runVars
<1>4. ASSUME NEW i \in Installers, Locking(i) PROVE pc'[j] = pc[j]
  BY <1>1, <1>4, LockingAlone
<1>5. ASSUME NEW i \in Installers, Works(i)
      PROVE  pc'[j] = pc[j]
  <2>1. pc[i] \in Working /\ Alone(i)
    BY <1>5, WorkAlone
  <2> QED
    BY <1>1, <2>1 DEF Alone
<1> QED
  BY <1>2, <1>3, <1>4, <1>5 DEF Next, Works, Locking

(* What a step does to one installer's place and to the owner it has read:*)
(* it forgets the owner when it takes the lock or ends, reads one when it  *)
(* finds the lock held, and finds one stale; no other step brings it to    *)
(* where it will remove a lock.                                            *)
LEMMA OwnerStep ==
  ASSUME Types, Owners, [Next]_vars, NEW i \in Installers
  PROVE  /\ owner' \in [Installers -> Installers \cup {None}]
         /\ owner'[i] # owner[i] => \/ owner'[i] = None
                                    \/ pc[i] = "held" /\ lock \in Installers /\ owner'[i] = lock
         /\ pc'[i] = "removing" => /\ owner'[i] = owner[i]
                                   /\ pc[i] = "removing" \/ Stale(i)
         /\ pc'[i] = "judging" => owner'[i] = owner[i] \/ pc[i] = "held"
<1>1. CASE UNCHANGED vars
  BY <1>1 DEF vars, runVars, Owners
<1>2. ASSUME NEW p \in DOMAIN procs, Serves(p) \/ Crashes(p) \/ Dies(p) PROVE UNCHANGED <<pc, owner>>
  BY <1>2 DEF Serves, Crashes, Dies, Lives, runVars
<1>3. ASSUME NEW k \in Installers, Works(k) PROVE owner' = owner /\ (pc'[i] \in Early => pc'[i] = pc[i])
  <2>1. owner' = owner /\ pc'[k] \in Working \cup {"over"} /\ Alone(k)
    BY <1>3, WorkAlone
  <2> QED
    BY <2>1 DEF Alone, Early, Working, Harmless, Changing, Deferred, Immediate, RollingBack
<1>4. ASSUME NEW k \in Installers, LockTaken(k) \/ LockNamed(k) \/ LockHeld(k) \/ LockRemoved(k) \/ Refused(k) \/ KilledDead(k)
      PROVE  /\ \/ owner' = owner
                \/ owner' = [owner EXCEPT ![k] = None] /\ pc'[k] \in {"locking", "over", "killed"}
             /\ pc'[i] \in {"removing", "judging"} => pc'[i] = pc[i]
  <2>1. \/ owner' = owner
        \/ owner' = [owner EXCEPT ![k] = None] /\ pc' \in {[pc EXCEPT ![k] = l] : l \in {"locking", "over", "killed"}}
    BY <1>4 DEF LockTaken, LockNamed, LockHeld, LockRemoved, Refused, KilledDead, Named, Quiet, Goto
  <2>2. PICK l \in {"locking", "staging", "held", "retry", "over", "killed"} : pc' = [pc EXCEPT ![k] = l]
    BY <1>4 DEF LockTaken, LockNamed, LockHeld, LockRemoved, Refused, KilledDead, Goto
  <2> QED
    BY <2>1, <2>2 DEF Types
<1>5. ASSUME NEW k \in Installers, LockRead(k)
      PROVE  /\ pc[k] = "held" /\ pc' = [pc EXCEPT ![k] = "judging"]
             /\ \/ owner' = owner
                \/ owner' = [owner EXCEPT ![k] = None]
                \/ lock \in Installers /\ owner' = [owner EXCEPT ![k] = lock]
  BY <1>5, Zenon DEF LockRead, Named, Goto
<1>6. ASSUME NEW k \in Installers, LockStale(k)
      PROVE  owner' = owner /\ Stale(k) /\ pc' = [pc EXCEPT ![k] = "removing"]
  BY <1>6 DEF LockStale, Quiet, Goto
<1>7. "removing" \in Early /\ "judging" \in Early
  BY DEF Early
<1>8. owner \in [Installers -> Installers \cup {None}] /\ pc \in [Installers -> Place]
  BY DEF Owners, Types
<1>9. ASSUME NEW k \in Installers, LockTaken(k) \/ LockNamed(k) \/ LockHeld(k) \/ LockRemoved(k) \/ Refused(k) \/ KilledDead(k)
      PROVE  /\ owner' \in [Installers -> Installers \cup {None}]
             /\ owner'[i] # owner[i] => owner'[i] = None
             /\ pc'[i] \in {"removing", "judging"} => pc'[i] = pc[i] /\ owner'[i] = owner[i]
  BY <1>4, <1>8, <1>9
<1>10. ASSUME NEW k \in Installers, LockRead(k)
       PROVE  /\ owner' \in [Installers -> Installers \cup {None}]
              /\ owner'[i] # owner[i] => i = k /\ pc[i] = "held" /\ (owner'[i] = None \/ (lock \in Installers /\ owner'[i] = lock))
              /\ pc'[i] = "removing" => i # k /\ pc[i] = "removing"
  BY <1>5, <1>8, <1>10
<1>11. ASSUME NEW k \in Installers, LockStale(k)
       PROVE  /\ owner' = owner /\ (pc'[i] = "removing" => pc[i] = "removing" \/ Stale(i))
              /\ pc'[i] = "judging" => pc[i] = "judging"
  BY <1>6, <1>8, <1>11
<1> QED
  BY <1>1, <1>2, <1>3, <1>7, <1>8, <1>9, <1>10, <1>11 DEF Next, Works

LEMMA OwnersStep == ASSUME Types, Owners, [Next]_vars PROVE Owners'
<1>1. owner' \in [Installers -> Installers \cup {None}]
  <2>1. CASE Installers = {}
    <3>1. UNCHANGED owner
      BY <2>1 DEF Next, vars, runVars, Serves, Crashes, Dies, Lives
    <3> QED
      BY <3>1 DEF Owners
  <2>2. CASE Installers # {}
    BY <2>2, OwnerStep
  <2> QED
    BY <2>1, <2>2
<1>2. ASSUME NEW i \in Installers, pc'[i] = "removing" PROVE Stale(i)'
  <2>1. owner'[i] = owner[i] /\ Stale(i)
    BY <1>2, OwnerStep DEF Owners
  <2>2. owner[i] \in Installers /\ pc[owner[i]] \in Ended
    BY <2>1 DEF Stale, Owners, Ended
  <2>3. pc'[owner[i]] = pc[owner[i]]
    BY <2>2, DeadStay
  <2> QED
    BY <2>1, <2>3 DEF Stale
<1> QED
  BY <1>1, <1>2 DEF Owners

(* Every step keeps the lock's part, while nobody is about to remove a    *)
(* lock that was taken since.                                             *)
LEMMA LocksStep == ASSUME Types, Locks, Owners, Unraced, [Next]_vars PROVE Locks'
<1>1. CASE UNCHANGED vars
  BY <1>1 DEF vars, runVars, Locks
<1>2. ASSUME NEW p \in DOMAIN procs, Serves(p) \/ Crashes(p) \/ Dies(p) PROVE Locks'
  BY <1>2 DEF Serves, Crashes, Dies, Lives, runVars, Locks
<1>3. ASSUME NEW i \in Installers, LockTaken(i) PROVE Locks'
  BY <1>3, HostInstallAssumption DEF LockTaken, Goto, Locks, Types, Working, Harmless, Changing, Deferred, Immediate, RollingBack
<1>4. ASSUME NEW i \in Installers, LockNamed(i) PROVE Locks'
  <2>1. \A k \in Installers : k # i => pc'[k] = pc[k] /\ pc[k] \notin Working \cup {"locking"}
    BY <1>4, HostInstallAssumption DEF LockNamed, Goto, Locks, Types
  <2>2. lock' = i /\ pc'[i] = "staging" /\ "locking" \notin Working
    BY <1>4 DEF LockNamed, Goto, Types, Working, Harmless, Changing, Deferred, Immediate, RollingBack
  <2> QED
    BY <2>1, <2>2 DEF Locks
<1>5. ASSUME NEW i \in Installers, LockHeld(i) \/ LockRead(i) \/ LockStale(i) \/ Refused(i) PROVE Locks'
  BY <1>5 DEF LockHeld, LockRead, LockStale, Refused, Quiet, Goto, Locks, Types, Working, Harmless, Changing, Deferred, Immediate, RollingBack
<1>6. ASSUME NEW i \in Installers, LockRemoved(i) PROVE Locks'
  <2>1. lock \in {owner[i], "free"} /\ owner[i] \in Installers /\ pc[owner[i]] \in Ended
    BY <1>6 DEF LockRemoved, Unraced, Removes, Owners, Stale, Ended
  <2>2. \A k \in Installers : pc[k] \notin Working \cup {"locking"}
    BY <2>1, HostInstallAssumption DEF Locks, Ended, Working, Harmless, Changing, Deferred, Immediate, RollingBack
  <2>3. \A k \in Installers : pc'[k] \in {pc[k], "retry"}
    BY <1>6 DEF LockRemoved, Goto, Types
  <2>4. "retry" \notin Working \cup {"locking"}
    BY DEF Working, Harmless, Changing, Deferred, Immediate, RollingBack
  <2> QED
    BY <2>2, <2>3, <2>4 DEF Locks
<1>8. ASSUME NEW i \in Installers, KilledDead(i) PROVE Locks'
  BY <1>8 DEF KilledDead, Goto, Locks, Types, Working, Harmless, Changing, Deferred, Immediate, RollingBack
<1>9. ASSUME NEW i \in Installers, Works(i)
      PROVE  Locks'
  <2>1. /\ pc[i] \in Working /\ pc'[i] \in Working \cup {"over"}
        /\ pc'[i] \in Working => lock' = lock
        /\ Alone(i)
    BY <1>9, WorkAlone
  <2>2. lock = i /\ i \notin {"free", "unnamed"}
    BY <2>1, HostInstallAssumption DEF Locks
  <2>3. \A k \in Installers : k # i => pc[k] \notin Working \cup {"locking"}
    BY <2>1, <2>2 DEF Locks
  <2>4. {"over", "locking"} \cap Working = {}
    BY DEF Working, Harmless, Changing, Deferred, Immediate, RollingBack
  <2>5. \A k \in Installers : k # i => pc'[k] \notin Working \cup {"locking"}
    BY <2>1, <2>3 DEF Alone
  <2>6. pc'[i] # "locking"
    BY <2>1, <2>4
  <2> QED
    BY <2>1, <2>2, <2>4, <2>5, <2>6 DEF Locks
<1> QED
  BY <1>1, <1>2, <1>3, <1>4, <1>5, <1>6, <1>8, <1>9 DEF Next, Works

(* Nobody else is at work, or about to be. *)
LEMMA OneAtWork ==
  ASSUME Locks, NEW i \in Installers, pc[i] \in Working
  PROVE  \A k \in Installers : k # i => pc[k] \notin Working
  BY DEF Locks

LEMMA InitLocks == Init => Locks /\ Owners
  BY DEF Init, Locks, Owners, Working, Harmless, Changing, Deferred, Immediate, RollingBack

(* The types hold, and an installer at work holds the lock, so there is   *)
(* one: as long as none of them removes, for a stale lock, one that was   *)
(* taken since (acquire_lock).                                            *)
THEOREM TypesHold == Spec /\ []Unraced => []TypeOK
<1>1. Init => Types /\ Locks /\ Owners
  BY InitTypes, InitLocks
<1>2. Types /\ Locks /\ Owners /\ Unraced /\ [Next]_vars => (Types /\ Locks /\ Owners)'
  BY TypesStep, LocksStep, OwnersStep
<1>3. Types /\ Locks /\ Owners => TypeOK
  BY DEF Types, Locks, Owners, TypeOK, Managed
<1> QED
  BY <1>1, <1>2, <1>3, PTL DEF Spec

(* The lock bears the name of one that has had it.  An owner that was read*)
(* is another installer, and has had the lock; when the lock has no name  *)
(* while that owner is remembered, a third one has taken it.              *)
Outlived ==
  \A i \in Installers :
    /\ lock = i => pc[i] \notin Early
    /\ owner[i] # None =>
         /\ pc[i] \in Early \ {"locking"}
         /\ owner[i] # i /\ pc[owner[i]] \notin Early
         /\ lock = "unnamed" => \E m \in Installers \ {i, owner[i]} : pc[m] \in {"locking", "killed"}

(* Every step keeps it. *)
LEMMA OutlivedStep == ASSUME Types, Owners, Outlived, [Next]_vars PROVE Outlived'
<1>0. /\ Early \cap (Working \cup Ended) = {} /\ "locking" \notin Ended
      /\ Installers \cap {"free", "unnamed", None} = {} /\ "free" # "unnamed"
  BY HostInstallAssumption DEF Early, Ended, Working, Harmless, Changing, Deferred, Immediate, RollingBack
<1>1. CASE UNCHANGED vars
  BY <1>1 DEF vars, runVars, Outlived
<1>2. ASSUME NEW p \in DOMAIN procs, Serves(p) \/ Crashes(p) \/ Dies(p) PROVE Outlived'
  BY <1>2 DEF Serves, Crashes, Dies, Lives, runVars, Outlived
<1>t. pc \in [Installers -> Place] /\ owner \in [Installers -> Installers \cup {None}]
  BY DEF Types, Owners
<1>3. ASSUME NEW k \in Installers, LockTaken(k) PROVE Outlived'
  <2>1. /\ pc[k] \in Early /\ pc' = [pc EXCEPT ![k] = "locking"]
        /\ owner' = [owner EXCEPT ![k] = None] /\ lock' = "unnamed"
    BY <1>3 DEF LockTaken, Named, Goto, Early
  <2>2. ASSUME NEW i \in Installers, owner'[i] # None
        PROVE  /\ pc'[i] \in Early \ {"locking"} /\ owner'[i] # i /\ pc'[owner'[i]] \notin Early
               /\ \E m \in Installers \ {i, owner'[i]} : pc'[m] \in {"locking", "killed"}
    <3>1. i # k /\ owner'[i] = owner[i] /\ pc'[i] = pc[i]
      BY <1>t, <2>1, <2>2
    <3>2. owner[i] \in Installers /\ owner[i] # i /\ pc[owner[i]] \notin Early /\ pc[i] \in Early \ {"locking"}
      BY <1>t, <2>2, <3>1 DEF Outlived
    <3>3. owner[i] # k /\ pc'[owner[i]] = pc[owner[i]] /\ pc'[k] = "locking"
      BY <1>t, <2>1, <3>2
    <3> QED
      BY <3>1, <3>2, <3>3
  <2> QED
    BY <1>0, <2>1, <2>2 DEF Outlived
<1>4. ASSUME NEW k \in Installers, LockNamed(k) PROVE Outlived'
  <2>1. /\ pc[k] = "locking" /\ pc' = [pc EXCEPT ![k] = "staging"] /\ "staging" \notin Early
        /\ owner' = owner /\ lock' = k
    BY <1>4 DEF LockNamed, Goto, Early
  <2> QED
    BY <1>0, <1>t, <2>1 DEF Outlived
<1>5. ASSUME NEW k \in Installers, NEW l \in {"held", "removing"}, pc[k] \in Early \ {"locking"}, pc' = [pc EXCEPT ![k] = l],
             UNCHANGED <<owner, lock>>
      PROVE  Outlived'
  <2>1. l \in Early \ {"locking"}
    BY <1>5 DEF Early
  <2>2. \A m \in Installers : /\ pc'[m] \in Early <=> pc[m] \in Early
                              /\ pc'[m] \in {"locking", "killed"} <=> pc[m] \in {"locking", "killed"}
    BY <1>0, <1>t, <1>5, <2>1 DEF Ended
  <2> QED
    BY <1>t, <1>5, <2>1, <2>2 DEF Outlived
<1>6. ASSUME NEW k \in Installers, LockRead(k) PROVE Outlived'
  <2>1. pc[k] \in Early \ {"locking"} /\ pc' = [pc EXCEPT ![k] = "judging"] /\ "judging" \in Early \ {"locking"} /\ lock' = lock
    BY <1>6 DEF LockRead, Goto, Early
  <2>2. \A m \in Installers : /\ pc'[m] \in Early <=> pc[m] \in Early
                              /\ pc'[m] \in {"locking", "killed"} <=> pc[m] \in {"locking", "killed"}
    BY <1>0, <1>t, <2>1 DEF Ended
  <2>3. \A i \in Installers : lock' = i => pc'[i] \notin Early
    BY <2>1, <2>2 DEF Outlived
  <2>4. ASSUME NEW i \in Installers, owner'[i] # None, owner'[i] = owner[i]
        PROVE  /\ pc'[i] \in Early \ {"locking"} /\ owner'[i] # i /\ pc'[owner'[i]] \notin Early
               /\ lock' = "unnamed" => \E m \in Installers \ {i, owner'[i]} : pc'[m] \in {"locking", "killed"}
    BY <1>t, <2>1, <2>2, <2>4 DEF Outlived
  <2>5. ASSUME NEW i \in Installers, owner'[i] # None, owner'[i] # owner[i]
        PROVE  /\ pc'[i] \in Early \ {"locking"} /\ owner'[i] # i /\ pc'[owner'[i]] \notin Early
               /\ lock' # "unnamed"
    <3>1. i = k /\ lock \in Installers /\ owner'[i] = lock
      BY <1>6, <1>t, <2>5 DEF LockRead, Named
    <3>2. lock # i /\ pc[lock] \notin Early
      BY <2>1, <3>1 DEF Outlived
    <3> QED
      BY <1>0, <1>t, <2>1, <2>2, <3>1, <3>2
  <2> QED
    BY <2>3, <2>4, <2>5 DEF Outlived
<1>7. ASSUME NEW k \in Installers, LockRemoved(k) PROVE Outlived'
  <2>1. /\ pc[k] \in Early \ {"locking"} /\ pc' = [pc EXCEPT ![k] = "retry"] /\ "retry" \in Early \ {"locking"}
        /\ owner' = owner /\ lock' = "free"
    BY <1>7 DEF LockRemoved, Goto, Early
  <2>2. \A m \in Installers : pc'[m] \in Early <=> pc[m] \in Early
    BY <1>t, <2>1
  <2> QED
    BY <1>0, <1>t, <2>1, <2>2 DEF Outlived
<1>8. ASSUME NEW k \in Installers, Refused(k) \/ KilledDead(k) PROVE Outlived'
  <2>1. PICK l \in Ended : /\ pc' = [pc EXCEPT ![k] = l] /\ owner' = [owner EXCEPT ![k] = None] /\ lock' = lock
                           /\ pc[k] = "locking" => l = "killed"
    BY <1>8 DEF Refused, KilledDead, Named, Goto, Ended
  <2>2. pc[k] # "killed"
    BY <1>8 DEF Refused, KilledDead, Working, Harmless, Changing, Deferred, Immediate, RollingBack
  <2>3. \A m \in Installers : /\ pc[m] \notin Early => pc'[m] \notin Early
                              /\ pc[m] \in {"locking", "killed"} => pc'[m] \in {"locking", "killed"}
    BY <1>0, <1>t, <2>1, <2>2
  <2>4. ASSUME NEW i \in Installers, owner'[i] # None PROVE owner'[i] = owner[i] /\ pc'[i] = pc[i]
    BY <1>t, <2>1, <2>4
  <2> QED
    BY <1>t, <2>1, <2>3, <2>4 DEF Outlived
<1>9. ASSUME NEW k \in Installers, Works(k) PROVE Outlived'
  <2>1. /\ pc[k] \in Working /\ pc'[k] \in Working \cup {"over"} /\ owner' = owner
        /\ lock' \in {lock, "free"}
        /\ \A m \in Installers : m # k => pc'[m] = pc[m]
    BY <1>9, WorkAlone DEF Alone
  <2>2. pc[k] \notin Early /\ pc'[k] \notin Early /\ pc[k] \notin {"locking", "killed"}
    BY <1>0, <2>1 DEF Ended, Early, Working, Harmless, Changing, Deferred, Immediate, RollingBack
  <2>3. owner[k] = None
    BY <2>2 DEF Outlived
  <2> QED
    BY <1>0, <1>t, <2>1, <2>2, <2>3 DEF Outlived
<1>10. ASSUME NEW k \in Installers, LockHeld(k) \/ LockStale(k) PROVE Outlived'
  <2>1. PICK l \in {"held", "removing"} :
          pc[k] \in Early \ {"locking"} /\ pc' = [pc EXCEPT ![k] = l] /\ UNCHANGED <<owner, lock>>
    BY <1>10 DEF LockHeld, LockStale, Goto, Quiet, Early
  <2> QED
    BY <1>5, <2>1
<1> QED
  BY <1>1, <1>2, <1>3, <1>4, <1>6, <1>7, <1>8, <1>9, <1>10 DEF Next, Works

(* Two installers never race to remove a stale lock: the one that has     *)
(* taken it since would have to be a third, beside the one that removes   *)
(* it and the dead one.                                                   *)
THEOREM PairsNeverRace == ASSUME Cardinality(Installers) <= 2 PROVE Spec => []Unraced
<1>1. ASSUME Types, Owners, Outlived PROVE Unraced
  <2> SUFFICES ASSUME NEW i \in Installers, Removes(i), lock \notin {owner[i], "free"}
               PROVE  FALSE
    BY DEF Unraced
  <2> DEFINE j == owner[i]
  <2>1. Stale(i) /\ pc[i] \in Early
    BY <1>1 DEF Removes, Owners, Early
  <2>2. j \in Installers /\ j # i /\ pc[j] \in Ended
    BY <1>1, <2>1 DEF Stale, Owners, Outlived, Ended
  <2>3. PICK k \in Installers : k \notin {i, j}
    <3>1. CASE lock = "unnamed"
      BY <1>1, <2>2, <3>1, HostInstallAssumption DEF Outlived
    <3>2. CASE lock # "unnamed"
      <4>1. lock \in Installers /\ lock # i /\ lock # j
        BY <1>1, <2>1, <3>2 DEF Types, Outlived
      <4> QED
        BY <4>1
    <3> QED
      BY <3>1, <3>2
  <2>4. Cardinality({i, j, k}) = 3
    <3>1. IsFiniteSet({i}) /\ Cardinality({i}) = 1
      BY FS_Singleton
    <3>2. IsFiniteSet({i} \cup {j}) /\ Cardinality({i} \cup {j}) = 2
      <4>1. j \notin {i}
        BY <2>2
      <4>2. /\ IsFiniteSet({i} \cup {j})
            /\ Cardinality({i} \cup {j}) = IF j \in {i} THEN Cardinality({i}) ELSE Cardinality({i}) + 1
        BY <3>1, FS_AddElement, ZenonT(30)
      <4> QED
        BY <3>1, <4>1, <4>2
    <3>3. k \notin {i} \cup {j}
      BY <2>3
    <3>4. Cardinality(({i} \cup {j}) \cup {k}) = 3
      BY <3>2, <3>3, FS_AddElement
    <3>5. ({i} \cup {j}) \cup {k} = {i, j, k}
      OBVIOUS
    <3> QED
      BY <3>4, <3>5
  <2>5. Cardinality({i, j, k}) <= Cardinality(Installers)
    BY <2>2, FS_Subset, HostInstallAssumption
  <2>6. Cardinality(Installers) \in Nat
    BY FS_CardinalityType, HostInstallAssumption
  <2> QED
    BY <2>4, <2>5, <2>6
<1>2. Init => Types /\ Owners /\ Outlived
  BY InitTypes, InitLocks, HostInstallAssumption DEF Init, Outlived
<1>3. Types /\ Owners /\ Outlived /\ [Next]_vars => (Types /\ Owners /\ Outlived)'
  BY TypesStep, OwnersStep, OutlivedStep
<1> QED
  BY <1>1, <1>2, <1>3, PTL DEF Spec

-----------------------------------------------------------------------------
(* The releases and the links.                                            *)

Unstarted == Early \cup Harmless
Unswitched == Harmless \cup Deferred \cup {"stopped", "saved", "activated"}
Back == {"relinked", "respawned", "rewaiting", "unrestoring"}

(* Of a release that is not there yet, or has been staged, nobody knows. *)
Unknown(i) ==
  pc[i] \in Unstarted =>
    /\ current # i /\ previous # i /\ x[i] = Fresh
    /\ \A k \in Installers : x[k].old # i /\ x[k].before # i

(* What a place says of the releases: while the transaction is under way  *)
(* previous is never the new one and the two saved ones exist; the new    *)
(* one is there until it is given up; keep says whether the EXIT trap may *)
(* delete it, and it may not while current names it.                      *)
Switch(i) ==
  /\ pc[i] \in Changing \ {"pruning"} => previous # i /\ {x[i].old, x[i].before} \subseteq (dirs \ {i}) \cup {None}
  /\ pc[i] \in Unswitched => i \in dirs
  /\ pc[i] \in Unswitched \cup {"running"} => ~x[i].keep
  /\ pc[i] \in {"accepted", "committing", "pruning"} => x[i].keep
  /\ pc[i] \in Back => current # i
  /\ pc[i] = "rolledback" => current # i \/ x[i].keep

Files ==
  /\ LinksWhole
  /\ \A i \in Installers : Unknown(i) /\ Switch(i)

(* The places, sorted by what Files says of them. *)
LEMMA Steps ==
  /\ Working = Unswitched \cup RollingBack \cup {"running", "accepted", "committing", "pruning", "rolledback"}
  /\ Working = Harmless \cup Changing
  /\ Back \subseteq RollingBack
  /\ Working \cap (Early \cup Ended) = {} /\ Early \cap Ended = {} /\ Harmless \cap Changing = {}
  BY DEF Unswitched, Back, Early, Ended, Working, Harmless, Changing, Deferred, Immediate, RollingBack

(* What is left to show of a step of the installer at work. *)
LEMMA WorkFiles ==
  ASSUME Types, Locks, Files, NEW i \in Installers, Works(i),
         current' \in {current, previous, x[i].old, i, None},
         previous' \in {previous, x[i].old, x[i].before, "old", None},
         x'[i].old \in {x[i].old, current}, x'[i].before \in {x[i].before, previous},
         pc'[i] \in Unstarted => pc[i] \in Unstarted /\ current' # i /\ x'[i] = x[i],
         LinksWhole', Switch(i)'
  PROVE  Files'
<1>1. pc[i] \in Working /\ Alone(i)
  BY WorkAlone
<1>2. \A k \in Installers : k # i => pc[k] \notin Working
  BY <1>1, OneAtWork
<1>3. ASSUME NEW k \in Installers, k # i PROVE Switch(k)'
  <2>1. pc'[k] \notin Working
    BY <1>1, <1>2, <1>3 DEF Alone
  <2> QED
    BY <2>1, Steps DEF Switch
<1>4. ASSUME NEW k \in Installers, k # i PROVE Unknown(k)'
  <2> SUFFICES ASSUME pc'[k] \in Unstarted
               PROVE  /\ current' # k /\ previous' # k /\ x'[k] = Fresh
                      /\ \A j \in Installers : x'[j].old # k /\ x'[j].before # k
    BY DEF Unknown
  <2>1. pc[k] \in Unstarted /\ x'[k] = x[k]
    BY <1>1, <1>4 DEF Alone
  <2>2. /\ current # k /\ previous # k /\ x[k] = Fresh
        /\ \A j \in Installers : x[j].old # k /\ x[j].before # k
    BY <2>1 DEF Files, Unknown
  <2>3. k \notin {"old", None}
    BY HostInstallAssumption
  <2>4. \A j \in Installers : j # i => x'[j] = x[j]
    BY <1>1 DEF Alone
  <2> QED
    BY <1>4, <2>1, <2>2, <2>3, <2>4
<1>5. Unknown(i)'
  <2> SUFFICES ASSUME pc'[i] \in Unstarted
               PROVE  /\ current' # i /\ previous' # i /\ x'[i] = Fresh
                      /\ \A j \in Installers : x'[j].old # i /\ x'[j].before # i
    BY DEF Unknown
  <2>1. /\ current # i /\ previous # i /\ x[i] = Fresh
        /\ \A j \in Installers : x[j].old # i /\ x[j].before # i
    BY DEF Files, Unknown
  <2>2. i \notin {"old", None}
    BY HostInstallAssumption
  <2>3. \A j \in Installers : x'[j] = x[j]
    BY <1>1 DEF Alone
  <2> QED
    BY <2>1, <2>2, <2>3
<1> QED
  BY <1>3, <1>4, <1>5 DEF Files

(* Every step keeps the releases' part: the links are switched to         *)
(* releases that exist, and what is deleted, by prune_releases, the EXIT  *)
(* trap or a rollback, is not named by a link.                            *)
LEMMA FilesStep == ASSUME Types, Types', Locks, Files, [Next]_vars PROVE Files'
<1>1. CASE UNCHANGED vars
  BY <1>1 DEF vars, fileVars, runVars, Files, LinksWhole, Unknown, Switch
<1>2. ASSUME NEW p \in DOMAIN procs, Serves(p) \/ Crashes(p) \/ Dies(p) PROVE Files'
  BY <1>2 DEF Serves, Crashes, Dies, Lives, fileVars, runVars, Files, LinksWhole, Unknown, Switch
<1>3. ASSUME NEW i \in Installers, \/ LockTaken(i) \/ LockHeld(i) \/ LockRead(i)
                                   \/ LockStale(i) \/ LockRemoved(i) \/ Refused(i)
      PROVE  Files'
  <2>1. UNCHANGED <<fileVars, x>>
    BY <1>3 DEF LockTaken, LockHeld, LockRead, LockStale, LockRemoved, Refused
  <2>2. pc[i] \in Early /\ pc'[i] \in Early \cup Ended /\ \A k \in Installers : k # i => pc'[k] = pc[k]
    BY <1>3 DEF LockTaken, LockHeld, LockRead, LockStale, LockRemoved, Refused, Goto, Types, Early, Ended
  <2>3. \A k \in Installers : pc'[k] \in Unstarted => pc[k] \in Unstarted
    BY <2>2, Steps DEF Unstarted
  <2>4. \A k \in Installers : pc'[k] \in Working => pc'[k] = pc[k]
    BY <2>2, Steps
  <2>5. \A k \in Installers : Unknown(k)'
    BY <2>1, <2>3 DEF Unknown, Files, fileVars
  <2>6. ASSUME NEW k \in Installers PROVE Switch(k)'
    <3>1. CASE pc'[k] \in Working
      BY <2>1, <2>4, <3>1 DEF Switch, Files, fileVars
    <3>2. CASE pc'[k] \notin Working
      BY <3>2, Steps DEF Switch
    <3> QED
      BY <3>1, <3>2
  <2> QED
    BY <2>1, <2>5, <2>6 DEF Files, LinksWhole, fileVars
<1>4. ASSUME NEW i \in Installers, LockNamed(i) PROVE Files'
  <2>1. UNCHANGED <<current, previous, x>> /\ dirs' = dirs \cup {i} /\ pc[i] = "locking"
    BY <1>4 DEF LockNamed
  <2>2. pc'[i] = "staging" /\ \A k \in Installers : k # i => pc'[k] = pc[k]
    BY <1>4 DEF LockNamed, Goto, Types
  <2>3. pc[i] \in Unstarted
    BY <2>1 DEF Unstarted, Early
  <2>4. \A k \in Installers : Unknown(k)'
    BY <2>1, <2>2, <2>3 DEF Unknown, Files
  <2>5. \A k \in Installers : k # i => pc[k] \notin Working
    <3>1. lock = "unnamed" /\ "unnamed" \notin Installers
      BY <2>1, HostInstallAssumption DEF Locks
    <3> QED
      BY <3>1 DEF Locks
  <2>6. ASSUME NEW k \in Installers, k # i PROVE Switch(k)'
    BY <2>2, <2>5, <2>6, Steps DEF Switch
  <2>7. Switch(i)'
    <3>1. ~x[i].keep
      BY <2>3 DEF Files, Unknown, Fresh
    <3> QED
      BY <2>1, <2>2, <3>1 DEF Switch, Changing, Deferred, Immediate, RollingBack, Back
  <2> QED
    BY <2>1, <2>4, <2>6, <2>7 DEF Files, LinksWhole
<1>5. ASSUME NEW i \in Installers, KilledDead(i) PROVE Files'
  <2>1. UNCHANGED fileVars /\ x' = [x EXCEPT ![i] = Fresh] /\ pc' = [pc EXCEPT ![i] = "killed"]
    BY <1>5 DEF KilledDead, Goto
  <2>2. x'[i] = Fresh /\ pc'[i] = "killed" /\ \A k \in Installers : k # i => pc'[k] = pc[k] /\ x'[k] = x[k]
    BY <2>1 DEF Types
  <2>3. ASSUME NEW k \in Installers PROVE Unknown(k)'
    <3>1. Fresh.old = None /\ Fresh.before = None /\ k # None
      BY HostInstallAssumption DEF Fresh
    <3>2. "killed" \notin Unstarted
      BY DEF Unstarted, Early, Harmless
    <3> QED
      BY <2>1, <2>2, <3>1, <3>2 DEF Unknown, Files, fileVars
  <2>4. ASSUME NEW k \in Installers PROVE Switch(k)'
    <3>1. CASE k = i
      <4>1. "killed" \notin Working
        BY Steps DEF Ended
      <4> QED
        BY <2>2, <3>1, <4>1, Steps DEF Switch
    <3>2. CASE k # i
      BY <2>1, <2>2, <3>2 DEF Switch, Files, fileVars
    <3> QED
      BY <3>1, <3>2
  <2> QED
    BY <2>1, <2>3, <2>4 DEF Files, LinksWhole, fileVars
<1>6. ASSUME NEW i \in Installers, Works(i) PROVE Files'
  <2>0. Switch(i) /\ Unknown(i) /\ LinksWhole /\ i # None /\ x[i] \in Local
    BY HostInstallAssumption, LocalKinds DEF Files
  <2>a. pc[i] \in Working /\ Alone(i)
    BY <1>6, WorkAlone
  <2>1. CASE Stops(i)
    <3>1. UNCHANGED fileVars /\ pc'[i] = "stopping" /\ x'[i].old = x[i].old /\ x'[i].before = x[i].before
          /\ x'[i].keep = x[i].keep
      BY <2>1, <2>0 DEF Stops, Goto, Types, Local
    <3>2. pc[i] = "stop"
      BY <2>1 DEF Stops
    <3>3. Switch(i)'
      BY <2>0, <3>1, <3>2 DEF Switch, fileVars, Unswitched, Back, Harmless, Changing, Deferred, Immediate, RollingBack
    <3>4. pc'[i] \notin Unstarted
      BY <3>1 DEF Unstarted, Early, Harmless
    <3> QED
      BY <1>6, <2>0, <3>1, <3>3, <3>4, WorkFiles DEF fileVars, LinksWhole
  <2>2. CASE Stopped(i)
    <3>1. UNCHANGED fileVars /\ pc'[i] = "stopped" /\ x'[i].old = x[i].old /\ x'[i].before = x[i].before
          /\ x'[i].keep = x[i].keep
      BY <2>2, <2>0 DEF Stopped, Goto, Types, Local
    <3>2. pc[i] = "stopping"
      BY <2>2 DEF Stopped
    <3>3. Switch(i)'
      BY <2>0, <3>1, <3>2 DEF Switch, fileVars, Unswitched, Back, Harmless, Changing, Deferred, Immediate, RollingBack
    <3>4. pc'[i] \notin Unstarted
      BY <3>1 DEF Unstarted, Early, Harmless
    <3> QED
      BY <1>6, <2>0, <3>1, <3>3, <3>4, WorkFiles DEF fileVars, LinksWhole
  <2>3. CASE StartsCandidate(i)
    <3>1. UNCHANGED fileVars /\ pc'[i] = "spawned" /\ x'[i].old = x[i].old /\ x'[i].before = x[i].before
          /\ x'[i].keep = x[i].keep
      BY <2>3, <2>0 DEF StartsCandidate, Starts, Goto, Types, Local
    <3>2. pc[i] = "activated"
      BY <2>3 DEF StartsCandidate
    <3>3. Switch(i)'
      BY <2>0, <3>1, <3>2 DEF Switch, fileVars, Unswitched, Back, Harmless, Changing, Deferred, Immediate, RollingBack
    <3>4. pc'[i] \notin Unstarted
      BY <3>1 DEF Unstarted, Early, Harmless
    <3> QED
      BY <1>6, <2>0, <3>1, <3>3, <3>4, WorkFiles DEF fileVars, LinksWhole
  <2>4. CASE Publishes(i)
    <3>1. UNCHANGED fileVars /\ pc'[i] = (IF pc[i] = "spawned" THEN "running" ELSE "rewaiting") /\ x'[i].old = x[i].old /\ x'[i].before = x[i].before
          /\ x'[i].keep = x[i].keep
      BY <2>4, <2>0 DEF Publishes, Goto, Types, Local
    <3>2. pc[i] \in {"spawned", "respawned"}
      BY <2>4 DEF Publishes
    <3>3. Switch(i)'
      BY <2>0, <3>1, <3>2 DEF Switch, fileVars, Unswitched, Back, Harmless, Changing, Deferred, Immediate, RollingBack
    <3>4. pc'[i] \notin Unstarted
      BY <3>1 DEF Unstarted, Early, Harmless
    <3> QED
      BY <1>6, <2>0, <3>1, <3>3, <3>4, WorkFiles DEF fileVars, LinksWhole
  <2>5. CASE Accepted(i)
    <3>1. UNCHANGED fileVars /\ pc'[i] = "accepted" /\ x'[i].old = x[i].old /\ x'[i].before = x[i].before
          /\ x'[i].keep
      BY <2>5, <2>0 DEF Accepted, Goto, Types, Local
    <3>2. pc[i] = "running"
      BY <2>5 DEF Accepted
    <3>3. Switch(i)'
      BY <2>0, <3>1, <3>2 DEF Switch, fileVars, Unswitched, Back, Harmless, Changing, Deferred, Immediate, RollingBack
    <3>4. pc'[i] \notin Unstarted
      BY <3>1 DEF Unstarted, Early, Harmless
    <3> QED
      BY <1>6, <2>0, <3>1, <3>3, <3>4, WorkFiles DEF fileVars, LinksWhole
  <2>6. CASE Commits(i)
    <3>1. UNCHANGED fileVars /\ pc'[i] = "committing" /\ x'[i].old = x[i].old /\ x'[i].before = x[i].before
          /\ x'[i].keep = x[i].keep
      BY <2>6, <2>0 DEF Commits, Goto, Types, Local
    <3>2. pc[i] = "accepted"
      BY <2>6 DEF Commits
    <3>3. Switch(i)'
      BY <2>0, <3>1, <3>2 DEF Switch, fileVars, Unswitched, Back, Harmless, Changing, Deferred, Immediate, RollingBack
    <3>4. pc'[i] \notin Unstarted
      BY <3>1 DEF Unstarted, Early, Harmless
    <3> QED
      BY <1>6, <2>0, <3>1, <3>3, <3>4, WorkFiles DEF fileVars, LinksWhole
  <2>7. CASE Fails(i)
    <3>1. UNCHANGED fileVars /\ pc'[i] = "killing" /\ x'[i].old = x[i].old /\ x'[i].before = x[i].before
          /\ x'[i].keep = x[i].keep
      BY <2>7, <2>0 DEF Fails, Goto, Types, Local
    <3>2. pc[i] = "running"
      BY <2>7 DEF Fails
    <3>3. Switch(i)'
      BY <2>0, <3>1, <3>2 DEF Switch, fileVars, Unswitched, Back, Harmless, Changing, Deferred, Immediate, RollingBack
    <3>4. pc'[i] \notin Unstarted
      BY <3>1 DEF Unstarted, Early, Harmless
    <3> QED
      BY <1>6, <2>0, <3>1, <3>3, <3>4, WorkFiles DEF fileVars, LinksWhole
  <2>8. CASE Killed(i)
    <3>1. UNCHANGED fileVars /\ pc'[i] = "failed" /\ x'[i].old = x[i].old /\ x'[i].before = x[i].before
          /\ x'[i].keep = x[i].keep
      BY <2>8, <2>0 DEF Killed, Goto, Types, Local
    <3>2. pc[i] = "killing"
      BY <2>8 DEF Killed
    <3>3. Switch(i)'
      BY <2>0, <3>1, <3>2 DEF Switch, fileVars, Unswitched, Back, Harmless, Changing, Deferred, Immediate, RollingBack
    <3>4. pc'[i] \notin Unstarted
      BY <3>1 DEF Unstarted, Early, Harmless
    <3> QED
      BY <1>6, <2>0, <3>1, <3>3, <3>4, WorkFiles DEF fileVars, LinksWhole
  <2>9. CASE Restarts(i)
    <3>1. UNCHANGED fileVars /\ pc'[i] = "respawned" /\ x'[i].old = x[i].old /\ x'[i].before = x[i].before
          /\ x'[i].keep = x[i].keep
      BY <2>9, <2>0 DEF Restarts, Starts, Goto, Types, Local
    <3>2. pc[i] = "relinked"
      BY <2>9 DEF Restarts
    <3>3. Switch(i)'
      BY <2>0, <3>1, <3>2 DEF Switch, fileVars, Unswitched, Back, Harmless, Changing, Deferred, Immediate, RollingBack
    <3>4. pc'[i] \notin Unstarted
      BY <3>1 DEF Unstarted, Early, Harmless
    <3> QED
      BY <1>6, <2>0, <3>1, <3>3, <3>4, WorkFiles DEF fileVars, LinksWhole
  <2>10. CASE RestoreFails(i)
    <3>1. UNCHANGED fileVars /\ pc'[i] = "unrestoring" /\ x'[i].old = x[i].old /\ x'[i].before = x[i].before
          /\ x'[i].keep = x[i].keep
      BY <2>10, <2>0 DEF RestoreFails, Goto, Types, Local
    <3>2. pc[i] = "rewaiting"
      BY <2>10 DEF RestoreFails
    <3>3. Switch(i)'
      BY <2>0, <3>1, <3>2 DEF Switch, fileVars, Unswitched, Back, Harmless, Changing, Deferred, Immediate, RollingBack
    <3>4. pc'[i] \notin Unstarted
      BY <3>1 DEF Unstarted, Early, Harmless
    <3> QED
      BY <1>6, <2>0, <3>1, <3>3, <3>4, WorkFiles DEF fileVars, LinksWhole
  <2>11. CASE Unrestored(i)
    <3>1. UNCHANGED fileVars /\ pc'[i] = "rolledback" /\ x'[i].old = x[i].old /\ x'[i].before = x[i].before
          /\ x'[i].keep
      BY <2>11, <2>0 DEF Unrestored, Goto, Types, Local
    <3>2. pc[i] = "unrestoring"
      BY <2>11 DEF Unrestored
    <3>3. Switch(i)'
      BY <2>0, <3>1, <3>2 DEF Switch, fileVars, Unswitched, Back, Harmless, Changing, Deferred, Immediate, RollingBack
    <3>4. pc'[i] \notin Unstarted
      BY <3>1 DEF Unstarted, Early, Harmless
    <3> QED
      BY <1>6, <2>0, <3>1, <3>3, <3>4, WorkFiles DEF fileVars, LinksWhole
  <2>12. CASE TakesPending(i)
    <3>1. UNCHANGED fileVars /\ pc'[i] = "killing" /\ x'[i].old = x[i].old /\ x'[i].before = x[i].before
          /\ x'[i].keep = x[i].keep
      BY <2>12, <2>0 DEF TakesPending, Interrupted, Goto, Types, Local
    <3>2. pc[i] \in Changing \ {"pruning"}
      BY <2>12 DEF TakesPending, Changing, Immediate
    <3>3. Switch(i)'
      BY <2>0, <3>1, <3>2 DEF Switch, fileVars, Unswitched, Back, Harmless, Changing, Deferred, Immediate, RollingBack
    <3>4. pc'[i] \notin Unstarted
      BY <3>1 DEF Unstarted, Early, Harmless
    <3> QED
      BY <1>6, <2>0, <3>1, <3>3, <3>4, WorkFiles DEF fileVars, LinksWhole
  <2>13. CASE RollsBack(i)
    <3>1. UNCHANGED fileVars /\ pc'[i] = "killing" /\ x'[i].old = x[i].old /\ x'[i].before = x[i].before
          /\ x'[i].keep = x[i].keep
      BY <2>13, <2>0 DEF RollsBack, Interrupted, Goto, Types, Local
    <3>2. pc[i] \in Changing \ {"pruning"}
      BY <2>13 DEF RollsBack, Changing, Immediate
    <3>3. Switch(i)'
      BY <2>0, <3>1, <3>2 DEF Switch, fileVars, Unswitched, Back, Harmless, Changing, Deferred, Immediate, RollingBack
    <3>4. pc'[i] \notin Unstarted
      BY <3>1 DEF Unstarted, Early, Harmless
    <3> QED
      BY <1>6, <2>0, <3>1, <3>3, <3>4, WorkFiles DEF fileVars, LinksWhole
  <2>14. CASE Defers(i)
    <3>1. UNCHANGED fileVars /\ pc'[i] = pc[i] /\ x'[i].old = x[i].old /\ x'[i].before = x[i].before
          /\ x'[i].keep = x[i].keep
      BY <2>14, <2>0 DEF Defers, Goto, Types, Local
    <3>2. pc[i] \in Deferred \cup RollingBack \cup {"rolledback"}
      BY <2>14 DEF Defers
    <3>3. Switch(i)'
      BY <2>0, <3>1, <3>2 DEF Switch, fileVars, Unswitched, Back, Harmless, Changing, Deferred, Immediate, RollingBack
    <3>4. pc'[i] \notin Unstarted
      BY <3>1, <3>2 DEF Unstarted, Early, Harmless, Deferred, RollingBack
    <3> QED
      BY <1>6, <2>0, <3>1, <3>3, <3>4, WorkFiles DEF fileVars, LinksWhole
  <2>15. CASE LeavesCommitting(i)
    <3>1. UNCHANGED fileVars /\ pc'[i] = "over" /\ x'[i].old = x[i].old /\ x'[i].before = x[i].before
          /\ x'[i].keep = x[i].keep
      BY <2>15, <2>0 DEF LeavesCommitting, Goto, Types, Local
    <3>2. pc[i] = "committing"
      BY <2>15 DEF LeavesCommitting
    <3>3. Switch(i)'
      BY <2>0, <3>1, <3>2 DEF Switch, fileVars, Unswitched, Back, Harmless, Changing, Deferred, Immediate, RollingBack
    <3>4. pc'[i] \notin Unstarted
      BY <3>1 DEF Unstarted, Early, Harmless
    <3> QED
      BY <1>6, <2>0, <3>1, <3>3, <3>4, WorkFiles DEF fileVars, LinksWhole
  <2>16. CASE StageFails(i)
    <3>1. UNCHANGED <<current, previous, x>> /\ dirs' = dirs \ {i} /\ pc'[i] = "over"
      <4>1. pc[i] \in Harmless
        BY <2>16 DEF StageFails, Harmless
      <4>2. ~x[i].keep
        BY <2>0, <4>1 DEF Switch, Unswitched
      <4> QED
        BY <2>16, <4>2 DEF StageFails, Exits, Goto, Types
    <3>2. current # i /\ previous # i
      BY <2>0, <2>16 DEF Unknown, Unstarted, Harmless, StageFails
    <3>3. pc'[i] \notin Unstarted \cup Working
      BY <3>1, Steps DEF Unstarted, Ended
    <3>4. Switch(i)'
      BY <3>3, Steps DEF Switch
    <3>5. LinksWhole'
      BY <2>0, <3>1, <3>2 DEF LinksWhole
    <3> QED
      BY <1>6, <3>1, <3>3, <3>4, <3>5, WorkFiles
  <2>17. CASE CaptureFails(i)
    <3>1. UNCHANGED <<current, previous, x>> /\ dirs' = dirs \ {i} /\ pc'[i] = "over"
      <4>1. pc[i] \in Harmless
        BY <2>17 DEF CaptureFails, Harmless
      <4>2. ~x[i].keep
        BY <2>0, <4>1 DEF Switch, Unswitched
      <4> QED
        BY <2>17, <4>2 DEF CaptureFails, Exits, Goto, Types
    <3>2. current # i /\ previous # i
      BY <2>0, <2>17 DEF Unknown, Unstarted, Harmless, CaptureFails
    <3>3. pc'[i] \notin Unstarted \cup Working
      BY <3>1, Steps DEF Unstarted, Ended
    <3>4. Switch(i)'
      BY <3>3, Steps DEF Switch
    <3>5. LinksWhole'
      BY <2>0, <3>1, <3>2 DEF LinksWhole
    <3> QED
      BY <1>6, <3>1, <3>3, <3>4, <3>5, WorkFiles
  <2>18. CASE Leaves(i)
    <3>1. UNCHANGED <<current, previous, x>> /\ dirs' = (IF x[i].keep THEN dirs ELSE dirs \ {i}) /\ pc'[i] = "over"
      BY <2>18 DEF Leaves, Exits, Goto, Types
    <3>2. (current # i /\ previous # i) \/ x[i].keep
      <4>1. CASE pc[i] = "pruning"
        BY <2>0, <4>1 DEF Switch
      <4>2. CASE pc[i] \in Harmless
        BY <2>0, <4>2 DEF Unknown, Unstarted
      <4> QED
        BY <2>18, <4>1, <4>2 DEF Leaves
    <3>3. pc'[i] \notin Unstarted \cup Working
      BY <3>1, Steps DEF Unstarted, Ended
    <3>4. Switch(i)'
      BY <3>3, Steps DEF Switch
    <3>5. LinksWhole'
      BY <2>0, <3>1, <3>2 DEF LinksWhole
    <3> QED
      BY <1>6, <3>1, <3>3, <3>4, <3>5, WorkFiles
  <2>19. CASE GivesUp(i)
    <3>1. UNCHANGED <<current, previous, x>> /\ dirs' = (IF x[i].keep THEN dirs ELSE dirs \ {i}) /\ pc'[i] = "over"
      BY <2>19 DEF GivesUp, Exits, Goto, Types
    <3>2. previous # i /\ (current # i \/ x[i].keep)
      BY <2>0, <2>19 DEF Switch, GivesUp, Changing, Immediate
    <3>3. pc'[i] \notin Unstarted \cup Working
      BY <3>1, Steps DEF Unstarted, Ended
    <3>4. Switch(i)'
      BY <3>3, Steps DEF Switch
    <3>5. LinksWhole'
      BY <2>0, <3>1, <3>2 DEF LinksWhole
    <3> QED
      BY <1>6, <3>1, <3>3, <3>4, <3>5, WorkFiles
  <2>20. CASE Finishes(i)
    <3>1. UNCHANGED <<current, previous, dirs, x>> /\ pc'[i] = "over"
      <4>1. x[i].keep
        BY <2>0, <2>20 DEF Switch, Finishes
      <4> QED
        BY <2>20, <4>1 DEF Finishes, Exits, Goto, Types
    <3>3. pc'[i] \notin Unstarted \cup Working
      BY <3>1, Steps DEF Unstarted, Ended
    <3>4. Switch(i)'
      BY <3>3, Steps DEF Switch
    <3>5. LinksWhole'
      BY <2>0, <3>1 DEF LinksWhole
    <3> QED
      BY <1>6, <3>1, <3>3, <3>4, <3>5, WorkFiles
  <2>21. CASE Staged(i)
    <3>1. UNCHANGED <<current, x>> /\ pc'[i] = "staged" /\ pc[i] = "staging"
          /\ \/ previous' = "old" /\ dirs' = dirs \cup {"old"}
             \/ UNCHANGED <<previous, dirs>>
      BY <2>21 DEF Staged, Goto, Types
    <3>2. current # i /\ x[i] = Fresh /\ ~x[i].keep /\ i \in dirs
      BY <2>0, <3>1 DEF Unknown, Unstarted, Harmless, Switch, Unswitched
    <3>3. pc'[i] \in Unstarted /\ pc[i] \in Unstarted
      BY <3>1 DEF Unstarted, Harmless
    <3>4. Switch(i)'
      BY <3>1, <3>2 DEF Switch, Unswitched, Back, Harmless, Changing, Deferred, Immediate, RollingBack
    <3>5. LinksWhole'
      BY <2>0, <3>1 DEF LinksWhole
    <3> QED
      BY <1>6, <3>1, <3>2, <3>3, <3>4, <3>5, WorkFiles
  <2>22. CASE Captures(i)
    <3>1. UNCHANGED fileVars /\ pc'[i] = "stop" /\ pc[i] = "staged"
          /\ x'[i].old = current /\ x'[i].before = previous /\ ~x'[i].keep
      <4>1. PICK pid, mode : Found(i, pid, mode)
        BY <2>22 DEF Captures
      <4>2. x'[i] = [Fresh EXCEPT !.before = previous, !.old = current, !.pid = pid, !.mode = mode]
        BY <4>1 DEF Found, Types
      <4>3. LET r == [Fresh EXCEPT !.before = previous, !.old = current, !.pid = pid, !.mode = mode]
            IN  r.old = current /\ r.before = previous /\ ~r.keep
        BY DEF Fresh
      <4> QED
        BY <2>22, <4>1, <4>2, <4>3 DEF Captures, Found, Goto, Types
    <3>2. current # i /\ previous # i /\ i \in dirs
      BY <2>0, <3>1 DEF Unknown, Unstarted, Harmless, Switch, Unswitched
    <3>3. pc'[i] \notin Unstarted
      BY <3>1 DEF Unstarted, Early, Harmless
    <3>4. Switch(i)'
      BY <2>0, <3>1, <3>2 DEF Switch, LinksWhole, fileVars, Unswitched, Back, Harmless, Changing, Deferred, Immediate, RollingBack
    <3> QED
      BY <1>6, <2>0, <3>1, <3>3, <3>4, WorkFiles DEF fileVars, LinksWhole
  <2>23. CASE SavesPrevious(i)
    <3>1. UNCHANGED <<dirs, current, x>> /\ pc'[i] = "saved" /\ pc[i] = "stopped"
          /\ previous' = (IF x[i].old \in dirs THEN x[i].old ELSE previous)
      BY <2>23 DEF SavesPrevious, Goto, Types
    <3>2. previous # i /\ i \in dirs /\ ~x[i].keep /\ {x[i].old, x[i].before} \subseteq (dirs \ {i}) \cup {None}
      BY <2>0, <3>1 DEF Switch, Unswitched, Changing, Immediate
    <3>3. pc'[i] \notin Unstarted
      BY <3>1 DEF Unstarted, Early, Harmless
    <3>4. Switch(i)'
      BY <2>0, <3>1, <3>2 DEF Switch, Unswitched, Back, Harmless, Changing, Deferred, Immediate, RollingBack
    <3>5. LinksWhole'
      BY <2>0, <3>1 DEF LinksWhole
    <3> QED
      BY <1>6, <3>1, <3>3, <3>4, <3>5, WorkFiles
  <2>24. CASE Activates(i)
    <3>1. UNCHANGED <<dirs, previous, x>> /\ pc'[i] = "activated" /\ pc[i] = "saved" /\ current' = i
      BY <2>24 DEF Activates, Goto, Types
    <3>2. previous # i /\ i \in dirs /\ ~x[i].keep /\ {x[i].old, x[i].before} \subseteq (dirs \ {i}) \cup {None}
      BY <2>0, <3>1 DEF Switch, Unswitched, Changing, Immediate
    <3>3. pc'[i] \notin Unstarted
      BY <3>1 DEF Unstarted, Early, Harmless
    <3>4. Switch(i)'
      BY <2>0, <3>1, <3>2 DEF Switch, Unswitched, Back, Harmless, Changing, Deferred, Immediate, RollingBack
    <3>5. LinksWhole'
      BY <2>0, <3>1, <3>2 DEF LinksWhole
    <3> QED
      BY <1>6, <3>1, <3>3, <3>4, <3>5, WorkFiles
  <2>25. CASE Relinks(i)
    <3>1. UNCHANGED dirs /\ pc'[i] = "relinked" /\ pc[i] = "failed" /\ current' = Goal(i) /\ Goal(i) \in dirs
          /\ x'[i].old = x[i].old /\ x'[i].before = x[i].before
      BY <2>25, <2>0 DEF Relinks, Goto, Types, Local
    <3>2. previous' = (IF x[i].before \in dirs THEN x[i].before ELSE IF x[i].old \in dirs THEN x[i].old ELSE None)
      BY <2>25 DEF Relinks
    <3>3. previous # i /\ {x[i].old, x[i].before} \subseteq (dirs \ {i}) \cup {None}
      BY <2>0, <3>1 DEF Switch, Changing, RollingBack
    <3>4. Goal(i) # i /\ Goal(i) \in {previous, x[i].old} /\ previous' # i
      BY <2>0, <3>2, <3>3 DEF Goal
    <3>5. pc'[i] \notin Unstarted
      BY <3>1 DEF Unstarted, Early, Harmless
    <3>6. Switch(i)'
      BY <3>1, <3>3, <3>4 DEF Switch, Unswitched, Back, Harmless, Changing, Deferred, Immediate, RollingBack
    <3>7. LinksWhole'
      BY <3>1, <3>2 DEF LinksWhole
    <3> QED
      BY <1>6, <3>1, <3>2, <3>4, <3>5, <3>6, <3>7, WorkFiles
  <2>26. CASE NothingToRestore(i)
    <3>1. pc'[i] = "rolledback" /\ pc[i] = "failed" /\ x'[i].old = x[i].old /\ x'[i].before = x[i].before /\ x'[i].keep
      BY <2>26, <2>0 DEF NothingToRestore, Goto, Types, Local
    <3>2. \/ dirs' = dirs \ {i} /\ current' = (IF current = i THEN None ELSE current) /\ previous' = previous
          \/ dirs' = dirs /\ current' = current /\ previous' = (IF x[i].before \in dirs THEN x[i].before ELSE None)
      BY <2>26 DEF NothingToRestore
    <3>3. previous # i /\ {x[i].old, x[i].before} \subseteq (dirs \ {i}) \cup {None}
      BY <2>0, <3>1 DEF Switch, Changing, RollingBack
    <3>5. pc'[i] \notin Unstarted
      BY <3>1 DEF Unstarted, Early, Harmless
    <3>6. Switch(i)'
      BY <2>0, <3>1, <3>2, <3>3 DEF Switch, Unswitched, Back, Harmless, Changing, Deferred, Immediate, RollingBack
    <3>7. LinksWhole'
      BY <2>0, <3>2, <3>3 DEF LinksWhole
    <3> QED
      BY <1>6, <3>1, <3>2, <3>5, <3>6, <3>7, WorkFiles
  <2>27. CASE Restored(i)
    <3>1. UNCHANGED <<current, previous>> /\ pc'[i] = "rolledback" /\ pc[i] = "rewaiting" /\ dirs' \in {dirs, dirs \ {i}}
          /\ x'[i].old = x[i].old /\ x'[i].before = x[i].before
      BY <2>27, <2>0 DEF Restored, Goto, Types, Local
    <3>2. current # i /\ previous # i /\ {x[i].old, x[i].before} \subseteq (dirs \ {i}) \cup {None}
      BY <2>0, <3>1 DEF Switch, Changing, RollingBack, Back
    <3>3. pc'[i] \notin Unstarted
      BY <3>1 DEF Unstarted, Early, Harmless
    <3>4. Switch(i)'
      BY <3>1, <3>2 DEF Switch, Unswitched, Back, Harmless, Changing, Deferred, Immediate, RollingBack
    <3>5. LinksWhole'
      BY <2>0, <3>1, <3>2 DEF LinksWhole
    <3> QED
      BY <1>6, <3>1, <3>3, <3>4, <3>5, WorkFiles
  <2>28. CASE Settles(i)
    <3>1. UNCHANGED fileVars /\ pc'[i] = "pruning" /\ x'[i].old = x[i].old /\ x'[i].before = x[i].before
          /\ x'[i].keep = x[i].keep
      BY <2>28, <2>0 DEF Settles, Goto, Types, Local
    <3>2. pc[i] = "committing"
      BY <2>28 DEF Settles
    <3>3. Switch(i)'
      BY <2>0, <3>1, <3>2 DEF Switch, fileVars, Unswitched, Back, Harmless, Changing, Deferred, Immediate, RollingBack
    <3>4. pc'[i] \notin Unstarted
      BY <3>1 DEF Unstarted, Early, Harmless
    <3> QED
      BY <1>6, <2>0, <3>1, <3>3, <3>4, WorkFiles DEF fileVars, LinksWhole
  <2>29. CASE Prunes(i)
    <3>1. UNCHANGED <<current, previous, x, pc>> /\ dirs \cap {current, previous} \subseteq dirs' /\ pc[i] = "pruning"
      BY <2>29 DEF Prunes, Others, runVars
    <3>2. pc'[i] \notin Unstarted
      BY <3>1 DEF Unstarted, Early, Harmless
    <3>3. Switch(i)'
      BY <2>0, <3>1 DEF Switch, Unswitched, Back, Harmless, Changing, Deferred, Immediate, RollingBack
    <3>4. LinksWhole'
      BY <2>0, <3>1 DEF LinksWhole
    <3> QED
      BY <1>6, <3>1, <3>2, <3>3, <3>4, WorkFiles
  <2> QED
    BY <1>6, <2>1, <2>2, <2>3, <2>4, <2>5, <2>6, <2>7, <2>8, <2>9, <2>10, <2>11, <2>12, <2>13, <2>14, <2>15, <2>16, <2>17, <2>18, <2>19, <2>20, <2>21, <2>22, <2>23, <2>24, <2>25, <2>26, <2>27, <2>28, <2>29 DEF Works
<1> QED
  BY <1>1, <1>2, <1>3, <1>4, <1>5, <1>6 DEF Next, Works

LEMMA InitFiles == Init => Files
<1> SUFFICES ASSUME Init
             PROVE  Files
  OBVIOUS
<1>1. LinksWhole
  BY DEF Init, LinksWhole
<1>2. ASSUME NEW i \in Installers PROVE Unknown(i) /\ Switch(i)
  <2>1. pc[i] = "off" /\ \A k \in Installers : x[k] = Fresh
    BY DEF Init
  <2>2. Switch(i)
    BY <2>1, Steps DEF Switch, Early
  <2>3. Unknown(i)
    BY <2>1, HostInstallAssumption DEF Unknown, Fresh, Init
  <2> QED
    BY <2>2, <2>3
<1> QED
  BY <1>1, <1>2 DEF Files

(* Neither link ever dangles, wherever an installation failed, was        *)
(* interrupted or was killed, gaps included: activation, rollback, the    *)
(* EXIT trap and prune_releases (setup-application-host.sh).              *)
THEOREM LinksHold == Spec /\ []Unraced => []LinksWhole
<1>1. Init => Types /\ Locks /\ Owners /\ Files
  BY InitTypes, InitLocks, InitFiles
<1>2. Types /\ Locks /\ Owners /\ Files /\ Unraced /\ [Next]_vars => (Types /\ Locks /\ Owners /\ Files)'
  BY TypesStep, LocksStep, OwnersStep, FilesStep
<1>3. Files => LinksWhole
  BY DEF Files
<1> QED
  BY <1>1, <1>2, <1>3, PTL DEF Spec

-----------------------------------------------------------------------------
(* The processes and the way back.                                        *)

Living == {p \in DOMAIN procs : Alive(p)}
Newest == procs[Len(procs)]

Candidate == {"spawned", "running", "accepted", "committing"}
Unseen    == {"spawned", "respawned"}                       \* a process, and no pid file

(* What a place says of the processes: who may be alive, that the last    *)
(* one started is the one ACTIVE_PID names, and what it runs.             *)
Running(i) ==
  /\ pc[i] \in {"stop", "stopping"} => Living \subseteq {x[i].pid}
  /\ pc[i] \in {"stop", "stopping", "stopped", "saved", "activated", "failed", "relinked"} => x[i].active = 0
  /\ pc[i] \in {"stopped", "saved", "activated", "failed", "relinked"} => Living = {}
  /\ pc[i] \in Candidate \cup {"respawned", "rewaiting", "unrestoring"} => x[i].active = Len(procs) /\ Len(procs) # 0
  /\ pc[i] = "killing" => Living \subseteq {x[i].active} /\ x[i].active \in {0, Len(procs)}
  /\ pc[i] \in Candidate => Newest.rel = i /\ Newest.cfg = i
  /\ pc[i] \in {"spawned", "running", "respawned", "rewaiting"} => Newest.st \in {"starting", "serving", "crashed"}
  /\ pc[i] \in {"accepted", "committing"} => Newest.st \in {"serving", "crashed"}
  /\ pc[i] \in {"running", "accepted", "committing", "rewaiting", "unrestoring"} => pidFile = x[i].active
  /\ pc[i] = "killing" /\ x[i].active # 0 => pidFile = x[i].active
  /\ pc[i] \in {"respawned", "rewaiting", "unrestoring"} => Newest.rel = x[i].goal /\ Newest.cfg = OldConfig(i)
  /\ pc[i] = "pruning" => /\ current = i /\ Len(procs) # 0 /\ pidFile = Len(procs)
                          /\ Newest.rel = i /\ Newest.cfg = i /\ Newest.st \in {"serving", "crashed"}

(* A rollback is over: nothing to go back to, or the old release is back. *)
Rolled(i) ==
  IF x[i].goal = None
  THEN /\ Living = {} /\ x[i].keep
       /\ Before(i) # None => i \in dirs /\ Len(procs) # 0 /\ Newest.rel = Before(i)
  ELSE /\ Before(i) # None /\ Runs(Before(i), OldConfig(i))
       /\ x[i].before # None => previous = x[i].before

(* What a place says of the way back: where the links are, and that the   *)
(* release to go back to is the one of before.                            *)
Undone(i) ==
  /\ pc[i] \in Changing /\ pc[i] # "rolledback" => i \in dirs
  /\ pc[i] \in {"stop", "stopping", "stopped"} => previous = x[i].before
  /\ pc[i] \in {"saved", "activated"} \cup Candidate => previous = Before(i)
  /\ pc[i] \in {"activated"} \cup Candidate => current = i
  /\ pc[i] \in {"killing", "failed"} =>
       IF x[i].by = "failure" THEN previous = Before(i) ELSE x[i].old = None => x[i].before = None
  /\ pc[i] \in Back => /\ x[i].goal = Before(i) /\ x[i].goal # None /\ current = x[i].goal
                       /\ x[i].before # None => previous = x[i].before
  /\ pc[i] = "rolledback" => Rolled(i)

(* The ready file is of a process that has started; only the process of   *)
(* the pid file is alive, but for the moment it is still to be written; a *)
(* process runs from a release that exists; and none from one not staged  *)
(* yet.                                                                   *)
ReadyServed == readyFile # 0 => procs[readyFile].st # "starting"
Published   == (\A i \in Installers : pc[i] \notin Unseen) => Living \subseteq {pidFile}
Housed      == \A p \in Living : procs[p].rel \in dirs \/ (legacy /\ procs[p].rel = "old")
Unborn      == \A i \in Installers : pc[i] \in Unstarted => \A p \in DOMAIN procs : procs[p].rel # i

(* The four endings, and what keeps the promise of who ended last. *)
Ending(l) ==
  \/ result[l] \in {"installed", "interrupted"} /\ Runs(l, l)
  \/ result[l] = "restored" /\ Before(l) # None /\ Runs(Before(l), OldConfig(l))
     /\ (x[l].before # None => previous = x[l].before)
  \/ result[l] = "lost" /\ Living = {} /\ (Before(l) # None => l \in dirs /\ Newest.rel = Before(l))
  \/ result[l] = "killed"

Kept(l) == pc[l] \in Ended /\ Ending(l)

(* The promise of the one who ended last holds when nobody is changing things. *)
Given ==
  (\A i \in Installers : pc[i] \notin Changing) =>
    IF last = None THEN \A p \in DOMAIN procs : procs[p].st \notin {"stopped", "dying"} ELSE Kept(last)

(* All of it, the whole of what spoiled takes away. *)
Service ==
  /\ Living \subseteq {Len(procs)}
  /\ ReadyServed /\ Published /\ Housed /\ Unborn
  /\ \A i \in Installers : Running(i) /\ Undone(i)
  /\ Given

Honest == ~spoiled => Service

(* Steps that start no process and bring none back to life. *)
Calmer ==
  /\ Restated
  /\ Living' \subseteq Living
  /\ \A p \in 1..Len(procs) : procs'[p].st = "starting" => procs[p].st = "starting"

(* No change of the list, a process told to end, and one that is killed, are such. *)
LEMMA SameCalmer == ASSUME Types, procs' = procs PROVE Calmer /\ Living' = Living /\ Newest' = Newest
  BY DEF Calmer, Restated, Living, Alive, Newest, Types

LEMMA TermCalmer ==
  ASSUME Types, NEW q \in 0..Len(procs), Term(q)
  PROVE  Calmer
<1>1. /\ Restated
      /\ \A p \in 1..Len(procs) :
           procs'[p].st = IF p = q /\ procs[p].st \notin Dead THEN "dying" ELSE procs[p].st
  BY TermRestates DEF Types
<1>2. DOMAIN procs = 1..Len(procs) /\ DOMAIN procs' = 1..Len(procs)
  BY <1>1 DEF Types, Restated
<1> QED
  BY <1>1, <1>2 DEF Calmer, Living, Alive, Dead

LEMMA GoneCalmer ==
  ASSUME Types, NEW q \in 0..Len(procs), Gone(q)
  PROVE  Calmer /\ q \notin Living'
<1>1. /\ Restated
      /\ \A p \in 1..Len(procs) :
           procs'[p].st = IF p = q /\ procs[p].st \notin Dead THEN "stopped" ELSE procs[p].st
  BY GoneRestates DEF Types
<1>2. DOMAIN procs = 1..Len(procs) /\ DOMAIN procs' = 1..Len(procs)
  BY <1>1 DEF Types, Restated
<1> QED
  BY <1>1, <1>2 DEF Calmer, Living, Alive, Dead

(* They keep what is said of every installer that does nothing. *)
LEMMA CalmerKeeps ==
  ASSUME Types, Service, Calmer, readyFile' \in {0, readyFile}
  PROVE  /\ Living' \subseteq {Len(procs')} /\ Len(procs') = Len(procs) /\ ReadyServed'
         /\ (dirs \subseteq dirs' /\ legacy' = legacy) \/ Living' = {} => Housed'
         /\ Len(procs) # 0 => Newest'.rel = Newest.rel /\ Newest'.cfg = Newest.cfg
         /\ \A p \in DOMAIN procs' : p \in DOMAIN procs /\ procs'[p].rel = procs[p].rel
<1>1. Len(procs') = Len(procs) /\ DOMAIN procs = 1..Len(procs) /\ DOMAIN procs' = 1..Len(procs)
      /\ Len(procs) \in Nat
  BY DEF Types, Calmer, Restated
<1>2. \A p \in 1..Len(procs) : procs'[p].rel = procs[p].rel /\ procs'[p].cfg = procs[p].cfg
  BY DEF Calmer, Restated
<1>3. Living' \subseteq Living /\ Living \subseteq 1..Len(procs)
  BY <1>1 DEF Calmer, Living
<1>4. ReadyServed'
  BY DEF Service, ReadyServed, Calmer, Types
<1>5. (dirs \subseteq dirs' /\ legacy' = legacy) \/ Living' = {} => Housed'
  BY <1>2, <1>3 DEF Service, Housed
<1>6. Len(procs) # 0 => Newest'.rel = Newest.rel /\ Newest'.cfg = Newest.cfg
  BY <1>1, <1>2 DEF Newest
<1> QED
  BY <1>1, <1>2, <1>3, <1>4, <1>5, <1>6 DEF Service

(* The captured configuration is that of a process that stays in the list. *)
LEMMA ConfigKept ==
  ASSUME Types, NEW i \in Installers, x'[i].mode = x[i].mode, x'[i].pid = x[i].pid,
         \A p \in 1..Len(procs) : procs'[p].cfg = procs[p].cfg
  PROVE  OldConfig(i)' = OldConfig(i)
<1>1. x[i].pid \in 0..Len(procs)
  BY LocalKinds
<1>2. x[i].mode = "previous" => x[i].pid # 0
  BY DEF Types
<1> QED
  BY <1>1, <1>2 DEF OldConfig

(* The process of the pid file, once there is one. *)
LEMMA PublishedAt ==
  ASSUME Locks, Service, NEW i \in Installers, pc[i] \in Working \ Unseen
  PROVE  Living \subseteq {pidFile}
<1>1. \A k \in Installers : k # i => pc[k] \notin Working
  BY OneAtWork
<1>2. Unseen \subseteq Working
  BY DEF Unseen, Working, Changing, Deferred, RollingBack
<1> QED
  BY <1>1, <1>2 DEF Service, Published

(* What is left to show of a step of the installer at work. *)
LEMMA WorkService ==
  ASSUME Types, Types', Locks, Files, Service, NEW i \in Installers, Works(i),
         Living' \subseteq {Len(procs')}, ReadyServed', Housed',
         pc'[i] \in Unseen \/ Living' \subseteq {pidFile'},
         \A p \in DOMAIN procs' : \/ p \in DOMAIN procs /\ procs'[p].rel = procs[p].rel
                                  \/ procs'[p].rel \in {i, Before(i)} /\ pc[i] \notin Unstarted,
         pc'[i] \in Unstarted => pc[i] \in Unstarted,
         Running(i)', Undone(i)',
         pc'[i] \in Changing \/ Given'
  PROVE  Service'
<1>1. pc[i] \in Working /\ Alone(i)
  BY WorkAlone
<1>2. \A k \in Installers : k # i => pc'[k] = pc[k] /\ pc'[k] \notin Working
  BY <1>1, OneAtWork DEF Alone
<1>3. ASSUME NEW k \in Installers, k # i PROVE Running(k)' /\ Undone(k)'
  <2>1. pc'[k] \notin Working
    BY <1>2, <1>3
  <2>2. pc'[k] \notin Changing \cup Back \cup Candidate
    BY <2>1, Steps DEF Candidate, Unswitched, Deferred, RollingBack, Back
  <2>3. /\ pc'[k] \notin {"stop", "stopping", "stopped", "saved", "activated", "failed", "relinked", "respawned", "rewaiting",
                      "unrestoring", "killing", "running", "accepted", "committing", "pruning", "spawned", "rolledback"}
    BY <2>1 DEF Working, Changing, Deferred, Immediate, RollingBack
  <2> QED
    BY <2>2, <2>3 DEF Running, Undone, Candidate
<1>4. Published'
  BY DEF Published
<1>5. Unborn'
  <2> SUFFICES ASSUME NEW k \in Installers, pc'[k] \in Unstarted, NEW p \in DOMAIN procs'
               PROVE  procs'[p].rel # k
    BY DEF Unborn
  <2>1. pc[k] \in Unstarted
    BY <1>2
  <2>2. CASE p \in DOMAIN procs /\ procs'[p].rel = procs[p].rel
    BY <2>1, <2>2 DEF Service, Unborn
  <2>3. CASE procs'[p].rel \in {i, Before(i)} /\ pc[i] \notin Unstarted
    BY <2>1, <2>3 DEF Before, Files, Unknown
  <2> QED
    BY <2>2, <2>3
<1>6. Given'
  BY DEF Given
<1> QED
  BY <1>3, <1>4, <1>5, <1>6 DEF Service

(* What a step of a process leaves of the promises. *)
Ages(p) ==
  /\ Calmer
  /\ p \in DOMAIN procs /\ Alive(p)
  /\ \A q \in DOMAIN procs : q # p => procs'[q].st = procs[q].st
  /\ \/ procs[p].st \in {"starting", "serving"} /\ procs'[p].st \in {"serving", "crashed"}
     \/ procs[p].st = "dying" /\ procs'[p].st = "stopped"

(* A process ages by its own steps. *)
LEMMA ProcessAges ==
  ASSUME Types, NEW p \in DOMAIN procs, Serves(p) \/ Crashes(p) \/ Dies(p)
  PROVE  Ages(p)
<1>1. PICK s \in Status : Becomes(p, s) /\ \/ s \in {"serving", "crashed"} /\ procs[p].st \in {"starting", "serving"}
                                           \/ s = "stopped" /\ procs[p].st = "dying"
  BY DEF Serves, Crashes, Dies, Status
<1>2. p \in 1..Len(procs) /\ DOMAIN procs = 1..Len(procs)
  BY DEF Types
<1>3. Restated /\ \A q \in 1..Len(procs) : procs'[q].st = IF q = p THEN s ELSE procs[q].st
  BY <1>1, <1>2, BecomesRestates DEF Types
<1>4. DOMAIN procs' = 1..Len(procs)
  BY <1>3 DEF Restated
<1>5. Alive(p)
  BY <1>1, <1>2 DEF Alive
<1>6. Living' \subseteq Living
  BY <1>1, <1>2, <1>3, <1>4, <1>5 DEF Living, Alive
<1> QED
  BY <1>1, <1>2, <1>3, <1>5, <1>6 DEF Ages, Calmer

(* What a place says survives that. *)
LEMMA AgesKeeps ==
  ASSUME Types, NEW p, Ages(p), UNCHANGED <<fileVars, pidFile, runVars, last>>
  PROVE  /\ \A i \in Installers : OldConfig(i)' = OldConfig(i) /\ Before(i)' = Before(i)
         /\ \A rel, cfg : Runs(rel, cfg) => Runs(rel, cfg)'
         /\ Living' \subseteq Living /\ Len(procs') = Len(procs)
         /\ Len(procs) # 0 => /\ Newest'.rel = Newest.rel /\ Newest'.cfg = Newest.cfg
                              /\ Newest.st \in {"starting", "serving", "crashed"}
                                   => Newest'.st \in {"starting", "serving", "crashed"}
                              /\ Newest.st \in {"serving", "crashed"} => Newest'.st \in {"serving", "crashed"}
<1>1. Len(procs') = Len(procs) /\ Len(procs) \in Nat /\ DOMAIN procs = 1..Len(procs)
      /\ \A q \in 1..Len(procs) : procs'[q].rel = procs[q].rel /\ procs'[q].cfg = procs[q].cfg
  BY DEF Types, Ages, Calmer, Restated
<1>2. ASSUME NEW i \in Installers PROVE OldConfig(i)' = OldConfig(i) /\ Before(i)' = Before(i)
  BY <1>1, ConfigKept DEF Before, runVars
<1>3. Living' \subseteq Living
  BY DEF Ages, Calmer
<1>4. \A q \in 1..Len(procs) : /\ procs[q].st \in {"serving", "crashed"} => procs'[q].st \in {"serving", "crashed"}
                               /\ procs[q].st = "crashed" => procs'[q].st = "crashed"
                               /\ procs[q].st \in {"starting", "serving", "crashed"}
                                    => procs'[q].st \in {"starting", "serving", "crashed"}
  BY <1>1 DEF Ages, Alive
<1>5. Len(procs) # 0 => Len(procs) \in 1..Len(procs)
  BY <1>1
<1>6. ASSUME NEW rel, NEW cfg, Runs(rel, cfg) PROVE Runs(rel, cfg)'
  <2>1. current = rel /\ Len(procs) > 0 /\ procs[Len(procs)].rel = rel /\ procs[Len(procs)].cfg = cfg
        /\ (procs[Len(procs)].st = "crashed" \/ (procs[Len(procs)].st = "serving" /\ pidFile = Len(procs)))
    BY <1>6 DEF Runs
  <2>2. Len(procs) \in 1..Len(procs)
    BY <1>1, <2>1
  <2>3. current' = current /\ pidFile' = pidFile
    BY DEF fileVars
  <2>4. procs'[Len(procs)].st = "crashed" \/ (procs'[Len(procs)].st = "serving" /\ pidFile = Len(procs))
    BY <1>4, <2>1, <2>2
  <2> QED
    BY <1>1, <2>1, <2>2, <2>3, <2>4 DEF Runs
<1> QED
  BY <1>1, <1>2, <1>3, <1>4, <1>5, <1>6 DEF Newest

(* Service, by kind of step: of a process, of the lock, a kill, and of the transaction. *)
LEMMA ProcessService ==
  ASSUME Types, Service, NEW p \in DOMAIN procs, Serves(p) \/ Crashes(p) \/ Dies(p)
  PROVE  Service'
<1>1. Ages(p) /\ UNCHANGED <<fileVars, pidFile, runVars, last>>
  BY ProcessAges DEF Serves, Crashes, Dies, Lives
<1>2. /\ \A i \in Installers : OldConfig(i)' = OldConfig(i) /\ Before(i)' = Before(i)
      /\ \A rel, cfg : Runs(rel, cfg) => Runs(rel, cfg)'
      /\ Living' \subseteq Living /\ Len(procs') = Len(procs)
      /\ Len(procs) # 0 => /\ Newest'.rel = Newest.rel /\ Newest'.cfg = Newest.cfg
                           /\ Newest.st \in {"starting", "serving", "crashed"}
                                => Newest'.st \in {"starting", "serving", "crashed"}
                           /\ Newest.st \in {"serving", "crashed"} => Newest'.st \in {"serving", "crashed"}
  BY <1>1, AgesKeeps
<1>3. UNCHANGED <<dirs, current, previous, legacy, pidFile, pc, x, result, last>>
  BY <1>1 DEF fileVars, runVars
<1>4. p \in Living /\ \A q \in DOMAIN procs' : q \in DOMAIN procs /\ procs'[q].rel = procs[q].rel
  BY <1>1 DEF Ages, Living, Calmer, Restated, Types
<1>5. Living' \subseteq {Len(procs')}
  BY <1>2 DEF Service
<1>6. ReadyServed'
  <2>1. readyFile' \in {0, readyFile, p}
    BY DEF Serves, Crashes, Dies
  <2>2. readyFile # 0 => procs[readyFile].st # "starting" /\ readyFile \in 1..Len(procs)
    BY DEF Service, ReadyServed, Types
  <2>3. p \in 1..Len(procs) /\ procs'[p].st # "starting"
    BY <1>1 DEF Ages, Types
  <2> QED
    BY <1>1, <2>1, <2>2, <2>3 DEF ReadyServed, Ages, Calmer
<1>7. Published'
  BY <1>2, <1>3 DEF Service, Published
<1>8. Housed'
  BY <1>2, <1>3, <1>4 DEF Service, Housed, Living
<1>9. Unborn'
  BY <1>3, <1>4 DEF Service, Unborn
<1>10. ASSUME NEW i \in Installers PROVE Running(i)'
  <2>1. Running(i)
    BY DEF Service
  <2> QED
    BY <1>2, <1>3, <2>1 DEF Running, Candidate
<1>11. ASSUME NEW i \in Installers PROVE Undone(i)'
  <2>1. Undone(i)
    BY DEF Service
  <2>2. Rolled(i) => Rolled(i)'
    <3>1. CASE x[i].goal = None
      BY <1>2, <1>3, <3>1 DEF Rolled
    <3>2. CASE x[i].goal # None
      BY <1>2, <1>3, <3>2 DEF Rolled
    <3> QED
      BY <3>1, <3>2
  <2> QED
    BY <1>2, <1>3, <2>1, <2>2 DEF Undone
<1>12. Given'
  <2> SUFFICES ASSUME \A i \in Installers : pc[i] \notin Changing
               PROVE  IF last = None THEN \A q \in DOMAIN procs' : procs'[q].st \notin {"stopped", "dying"} ELSE Kept(last)'
    BY <1>3 DEF Given
  <2>1. CASE last = None
    <3>1. \A q \in DOMAIN procs : procs[q].st \notin {"stopped", "dying"}
      BY <2>1 DEF Service, Given
    <3> QED
      BY <1>1, <1>4, <2>1, <3>1 DEF Ages
  <2>2. CASE last # None
    <3>1. Kept(last) /\ last \in Installers
      BY <2>2 DEF Service, Given, Types
    <3>2. Ending(last)'
      <4>1. Ending(last) /\ Living # {}
        BY <1>4, <3>1 DEF Kept
      <4> QED
        BY <1>2, <1>3, <3>1, <4>1 DEF Ending
    <3> QED
      BY <1>3, <2>2, <3>1, <3>2 DEF Kept
  <2> QED
    BY <2>1, <2>2
<1> QED
  BY <1>5, <1>6, <1>7, <1>8, <1>9, <1>10, <1>11, <1>12 DEF Service

(* A promise is kept while nobody touches what it is about. *)
LEMMA KeptStays ==
  ASSUME Types, NEW l \in Installers, Kept(l),
         pc'[l] = pc[l], result'[l] = result[l], x'[l] = x[l], l \in dirs => l \in dirs',
         current' = current, previous' = previous, procs' = procs,
         pidFile' = pidFile \/ ~Alive(pidFile)
  PROVE  Kept(l)'
<1>1. OldConfig(l)' = OldConfig(l) /\ Before(l)' = Before(l) /\ Living' = Living /\ Newest' = Newest
  BY SameCalmer, ConfigKept DEF Before
<1>2. ASSUME NEW rel, NEW cfg, Runs(rel, cfg) PROVE Runs(rel, cfg)'
  <2>1. procs[Len(procs)].st = "serving" /\ pidFile = Len(procs) /\ Len(procs) > 0 => Alive(pidFile)
    BY DEF Alive
  <2> QED
    BY <1>2, <2>1 DEF Runs
<1> QED
  BY <1>1, <1>2 DEF Kept, Ending

LEMMA LockService ==
  ASSUME Types, Service, NEW i \in Installers,
         \/ LockTaken(i) \/ LockNamed(i) \/ LockHeld(i) \/ LockRead(i)
         \/ LockStale(i) \/ LockRemoved(i) \/ Refused(i)
  PROVE  Service'
<1>1. /\ UNCHANGED <<current, previous, legacy, procs, pidFile, readyFile, x, last>>
      /\ dirs \subseteq dirs'
  BY DEF LockTaken, LockNamed, LockHeld, LockRead, LockStale, LockRemoved, Refused, Quiet, fileVars, pidVars
<1>2. /\ pc[i] \in Early /\ pc'[i] \in Early \cup {"over", "staging"}
      /\ \A k \in Installers : k # i => pc'[k] = pc[k] /\ result'[k] = result[k]
  BY DEF LockTaken, LockNamed, LockHeld, LockRead, LockStale, LockRemoved, Refused, Quiet, Goto, Types, Early
<1>3. Calmer /\ Living' = Living /\ Newest' = Newest
  BY <1>1, SameCalmer
<1>4. \A k \in Installers : OldConfig(k)' = OldConfig(k) /\ Before(k)' = Before(k)
  BY <1>1, ConfigKept DEF Before
<1>5. Living' \subseteq {Len(procs')} /\ ReadyServed' /\ Housed'
  BY <1>1, <1>3, CalmerKeeps
<1>6. Published'
  BY <1>1, <1>2, <1>3 DEF Service, Published, Unseen, Early
<1>7. Unborn'
  BY <1>1, <1>2 DEF Service, Unborn, Unstarted, Early, Harmless
<1>8. ASSUME NEW k \in Installers PROVE Running(k)' /\ Undone(k)'
  <2>1. CASE k = i
    BY <1>2, <2>1 DEF Running, Undone, Candidate, Early, Changing, Deferred, Immediate, RollingBack, Back
  <2>2. CASE k # i
    <3>1. Running(k) /\ Undone(k) /\ pc'[k] = pc[k]
      BY <1>2, <2>2 DEF Service
    <3>2. Running(k)'
      BY <1>1, <1>3, <1>4, <3>1 DEF Running
    <3>3. Rolled(k) => Rolled(k)'
      BY <1>1, <1>3, <1>4 DEF Rolled, Runs
    <3> QED
      BY <1>1, <1>4, <3>1, <3>2, <3>3 DEF Undone
  <2> QED
    BY <2>1, <2>2
<1>9. Given'
  <2>1. \A k \in Installers : pc'[k] \notin Changing => pc[k] \notin Changing
    BY <1>2, Steps
  <2>2. ASSUME \A k \in Installers : pc[k] \notin Changing, last # None PROVE Kept(last)'
    <3>1. Kept(last) /\ last \in Installers
      BY <2>2 DEF Service, Given, Types
    <3>2. last # i
      BY <1>2, <3>1, Steps DEF Kept
    <3> QED
      BY <1>1, <1>2, <3>1, <3>2, KeptStays
  <2> QED
    BY <1>1, <2>1, <2>2 DEF Service, Given
<1> QED
  BY <1>5, <1>6, <1>7, <1>8, <1>9 DEF Service

LEMMA KillService ==
  ASSUME Types, Service, NEW i \in Installers, KilledDead(i), ~spoiled'
  PROVE  Service'
<1>1. /\ UNCHANGED <<dirs, current, previous, legacy, procs, pidFile, readyFile>>
      /\ x' = [x EXCEPT ![i] = Fresh] /\ last' = (IF pc[i] \in Changing THEN i ELSE last)
      /\ pc[i] \notin Unseen
  BY DEF KilledDead, fileVars, pidVars, Unseen
<1>2. /\ pc[i] \in {"locking", "removing"} \cup Working /\ pc'[i] = "killed" /\ result'[i] = "killed"
      /\ \A k \in Installers : k # i => pc'[k] = pc[k] /\ result'[k] = result[k] /\ x'[k] = x[k]
  BY DEF KilledDead, Goto, Types
<1>3. Calmer /\ Living' = Living /\ Newest' = Newest
  BY <1>1, SameCalmer
<1>4. \A k \in Installers : k # i => OldConfig(k)' = OldConfig(k) /\ Before(k)' = Before(k)
  BY <1>1, <1>2, ConfigKept DEF Before
<1>5. Living' \subseteq {Len(procs')} /\ ReadyServed' /\ Housed'
  BY <1>1, <1>3, CalmerKeeps
<1>6. Published'
  BY <1>1, <1>2, <1>3 DEF Service, Published
<1>7. Unborn'
  BY <1>1, <1>2 DEF Service, Unborn, Unstarted, Early, Harmless
<1>8. ASSUME NEW k \in Installers PROVE Running(k)' /\ Undone(k)'
  <2>1. CASE k = i
    BY <1>2, <2>1 DEF Running, Undone, Candidate, Changing, Deferred, Immediate, RollingBack, Back
  <2>2. CASE k # i
    <3>1. Running(k) /\ Undone(k) /\ pc'[k] = pc[k] /\ x'[k] = x[k]
      BY <1>2, <2>2 DEF Service
    <3>2. OldConfig(k)' = OldConfig(k) /\ Before(k)' = Before(k)
      BY <1>4, <2>2
    <3>3. Running(k)'
      BY <1>1, <1>3, <3>1, <3>2 DEF Running
    <3>4. Rolled(k) => Rolled(k)'
      BY <1>1, <1>3, <3>1, <3>2 DEF Rolled, Runs
    <3> QED
      BY <1>1, <3>1, <3>2, <3>3, <3>4 DEF Undone
  <2> QED
    BY <2>1, <2>2
<1>9. Given'
  <2>1. CASE pc[i] \in Changing
    <3>1. last' = i /\ i # None
      BY <1>1, <2>1, HostInstallAssumption
    <3> QED
      BY <1>2, <3>1 DEF Given, Kept, Ending, Ended
  <2>2. CASE pc[i] \notin Changing
    <3>1. \A k \in Installers : pc'[k] \notin Changing => pc[k] \notin Changing
      BY <1>2, <2>2
    <3>2. last' = last
      BY <1>1, <2>2
    <3>3. ASSUME \A k \in Installers : pc[k] \notin Changing, last # None PROVE Kept(last)'
      <4>1. Kept(last) /\ last \in Installers
        BY <3>3 DEF Service, Given, Types
      <4>2. last # i
        BY <1>2, <4>1, Steps DEF Kept, Ended
      <4> QED
        BY <1>1, <1>2, <3>2, <4>1, <4>2, KeptStays
    <3> QED
      BY <1>1, <3>1, <3>2, <3>3 DEF Service, Given
  <2> QED
    BY <2>1, <2>2
<1> QED
  BY <1>5, <1>6, <1>7, <1>8, <1>9 DEF Service

(* A step of the installer at work, action by action. *)
LEMMA WorksService ==
  ASSUME Types, Types', Locks, Files, Files', Service, NEW i \in Installers, Works(i), ~spoiled'
  PROVE  Service'
<1>w. pc[i] \in Working /\ Alone(i) /\ x[i] \in Local /\ i # None
  BY WorkAlone, LocalKinds, HostInstallAssumption
<1>r. Len(procs) \in Nat
  BY DEF Types
<1>s. None \notin dirs
  BY HostInstallAssumption DEF Types, Release
<1>0. /\ pc[i] \in Working /\ Alone(i) /\ x[i] \in Local /\ i # None
      /\ Running(i) /\ Undone(i) /\ Switch(i) /\ LinksWhole /\ Unknown(i)
      /\ Living \subseteq {Len(procs)} /\ ReadyServed /\ Len(procs) \in Nat /\ None \notin dirs
  BY <1>w, <1>r, <1>s DEF Service, Files
<1>l. /\ x[i].pid \in 0..Len(procs) /\ x[i].active \in 0..Len(procs)
      /\ \A k \in Installers : k # i => pc'[k] = pc[k] /\ x'[k] = x[k]
  BY <1>0, LocalKinds DEF Alone
<1>1. CASE SavesPrevious(i)
  <2>1. pc[i] = "stopped" /\ pc'[i] = "saved" /\ UNCHANGED <<dirs, current, legacy, procs, pidFile, readyFile, x>>
        /\ previous' = (IF x[i].old \in dirs THEN x[i].old ELSE previous)
    BY <1>1, <1>0 DEF SavesPrevious, Goto, Types, pidVars
  <2>2. Calmer /\ Living' = Living /\ Newest' = Newest
    BY <2>1, SameCalmer
  <2>3. Living' \subseteq {Len(procs')} /\ ReadyServed' /\ Housed'
        /\ \A p \in DOMAIN procs' : p \in DOMAIN procs /\ procs'[p].rel = procs[p].rel
    BY <2>1, <2>2, CalmerKeeps
  <2>4. Living \subseteq {pidFile}
    BY <1>0, <2>1, PublishedAt DEF Unseen
  <2>5. pc'[i] \notin Unstarted /\ pc'[i] \in Changing /\ Living' \subseteq {pidFile'}
    BY <2>1, <2>2, <2>4 DEF Unstarted, Early, Harmless, Changing, Deferred, Immediate, RollingBack
  <2>6. Running(i)'
    BY <1>0, <1>l, <2>1, <2>2 DEF Running, Candidate
  <2>7. Undone(i)'
    BY <1>0, <1>l, <2>1, <2>2 DEF Undone, Candidate, Back, Changing, Deferred, Immediate, RollingBack, Before, Switch
  <2> QED
    BY <2>3, <2>5, <2>6, <2>7, WorkService
<1>2. CASE Activates(i)
  <2>1. pc[i] = "saved" /\ pc'[i] = "activated" /\ UNCHANGED <<dirs, previous, legacy, procs, pidFile, readyFile, x>> /\ current' = i
    BY <1>2, <1>0 DEF Activates, Goto, Types, pidVars
  <2>2. Calmer /\ Living' = Living /\ Newest' = Newest
    BY <2>1, SameCalmer
  <2>3. Living' \subseteq {Len(procs')} /\ ReadyServed' /\ Housed'
        /\ \A p \in DOMAIN procs' : p \in DOMAIN procs /\ procs'[p].rel = procs[p].rel
    BY <2>1, <2>2, CalmerKeeps
  <2>4. Living \subseteq {pidFile}
    BY <1>0, <2>1, PublishedAt DEF Unseen
  <2>5. pc'[i] \notin Unstarted /\ pc'[i] \in Changing /\ Living' \subseteq {pidFile'}
    BY <2>1, <2>2, <2>4 DEF Unstarted, Early, Harmless, Changing, Deferred, Immediate, RollingBack
  <2>6. Running(i)'
    BY <1>0, <1>l, <2>1, <2>2 DEF Running, Candidate
  <2>7. Undone(i)'
    BY <1>0, <1>l, <2>1, <2>2 DEF Undone, Candidate, Back, Changing, Deferred, Immediate, RollingBack, Before
  <2> QED
    BY <2>3, <2>5, <2>6, <2>7, WorkService
<1>3. CASE Commits(i)
  <2>1. pc[i] = "accepted" /\ pc'[i] = "committing" /\ UNCHANGED <<dirs, current, previous, legacy, procs, pidFile, readyFile, x>>
    BY <1>3, <1>0 DEF Commits, Goto, Types, fileVars, pidVars
  <2>2. Calmer /\ Living' = Living /\ Newest' = Newest
    BY <2>1, SameCalmer
  <2>3. Living' \subseteq {Len(procs')} /\ ReadyServed' /\ Housed'
        /\ \A p \in DOMAIN procs' : p \in DOMAIN procs /\ procs'[p].rel = procs[p].rel
    BY <2>1, <2>2, CalmerKeeps
  <2>4. Living \subseteq {pidFile}
    BY <1>0, <2>1, PublishedAt DEF Unseen
  <2>5. pc'[i] \notin Unstarted /\ pc'[i] \in Changing /\ Living' \subseteq {pidFile'}
    BY <2>1, <2>2, <2>4 DEF Unstarted, Early, Harmless, Changing, Deferred, Immediate, RollingBack
  <2>6. Running(i)'
    BY <1>0, <1>l, <2>1, <2>2 DEF Running, Candidate
  <2>7. Undone(i)'
    BY <1>0, <1>l, <2>1, <2>2 DEF Undone, Candidate, Back, Changing, Deferred, Immediate, RollingBack, Before
  <2> QED
    BY <2>3, <2>5, <2>6, <2>7, WorkService
<1>4. CASE Accepted(i)
  <2>1. pc[i] = "running" /\ pc'[i] = "accepted" /\ UNCHANGED <<dirs, current, previous, legacy, procs, pidFile, readyFile>>
        /\ x'[i].old = x[i].old /\ x'[i].before = x[i].before /\ x'[i].pid = x[i].pid
        /\ x'[i].mode = x[i].mode /\ x'[i].active = x[i].active /\ Ready(x[i].active)
    BY <1>4, <1>0 DEF Accepted, Goto, Types, Local, fileVars, pidVars
  <2>a. Newest.st \in {"serving", "crashed"}
    BY <1>0, <2>1 DEF Running, Candidate, Newest, Ready, ReadyServed
  <2>2. Calmer /\ Living' = Living /\ Newest' = Newest
    BY <2>1, SameCalmer
  <2>3. Living' \subseteq {Len(procs')} /\ ReadyServed' /\ Housed'
        /\ \A p \in DOMAIN procs' : p \in DOMAIN procs /\ procs'[p].rel = procs[p].rel
    BY <2>1, <2>2, CalmerKeeps
  <2>4. Living \subseteq {pidFile}
    BY <1>0, <2>1, PublishedAt DEF Unseen
  <2>5. pc'[i] \notin Unstarted /\ pc'[i] \in Changing /\ Living' \subseteq {pidFile'}
    BY <2>1, <2>2, <2>4 DEF Unstarted, Early, Harmless, Changing, Deferred, Immediate, RollingBack
  <2>6. Running(i)'
    BY <1>0, <1>l, <2>1, <2>2, <2>a DEF Running, Candidate
  <2>7. Undone(i)'
    BY <1>0, <1>l, <2>1, <2>2 DEF Undone, Candidate, Back, Changing, Deferred, Immediate, RollingBack, Before
  <2> QED
    BY <2>3, <2>5, <2>6, <2>7, WorkService
<1>5. CASE Relinks(i)
  <2>1. pc[i] = "failed" /\ pc'[i] = "relinked" /\ UNCHANGED <<dirs, legacy, procs, pidFile, readyFile>>
        /\ x'[i].old = x[i].old /\ x'[i].before = x[i].before /\ x'[i].pid = x[i].pid
        /\ x'[i].mode = x[i].mode /\ x'[i].active = x[i].active /\ x'[i].goal = Goal(i)
        /\ Goal(i) \in dirs /\ current' = Goal(i) /\ x[i].by \in {"failure", "signal"}
        /\ previous' = (IF x[i].before \in dirs THEN x[i].before ELSE IF x[i].old \in dirs THEN x[i].old ELSE None)
    BY <1>5, <1>0 DEF Relinks, Goto, Types, Local, pidVars
  <2>b. Goal(i) = Before(i) /\ Goal(i) # None /\ (x[i].before # None => x[i].before \in dirs)
    <3>1. None \notin dirs
      BY HostInstallAssumption DEF Types, Release
    <3>2. Goal(i) = Before(i)
      BY <1>0, <2>1, <3>1 DEF Undone, Goal, Before
    <3> QED
      BY <1>0, <2>1, <3>1, <3>2 DEF Switch, Changing, RollingBack
  <2>2. Calmer /\ Living' = Living /\ Newest' = Newest
    BY <2>1, SameCalmer
  <2>3. Living' \subseteq {Len(procs')} /\ ReadyServed' /\ Housed'
        /\ \A p \in DOMAIN procs' : p \in DOMAIN procs /\ procs'[p].rel = procs[p].rel
    BY <2>1, <2>2, CalmerKeeps
  <2>4. Living \subseteq {pidFile}
    BY <1>0, <2>1, PublishedAt DEF Unseen
  <2>5. pc'[i] \notin Unstarted /\ pc'[i] \in Changing /\ Living' \subseteq {pidFile'}
    BY <2>1, <2>2, <2>4 DEF Unstarted, Early, Harmless, Changing, Deferred, Immediate, RollingBack
  <2>6. Running(i)'
    BY <1>0, <1>l, <2>1, <2>2 DEF Running, Candidate
  <2>7. Undone(i)'
    BY <1>0, <1>l, <2>1, <2>2, <2>b DEF Undone, Candidate, Back, Changing, Deferred, Immediate, RollingBack, Before
  <2> QED
    BY <2>3, <2>5, <2>6, <2>7, WorkService
<1>6. CASE Defers(i)
  <2>1. UNCHANGED <<dirs, current, previous, legacy, procs, pidFile, readyFile, pc, x>> /\ pc[i] \in Changing
    BY <1>6 DEF Defers, fileVars, pidVars, Changing, Deferred, Immediate, RollingBack
  <2>2. Calmer /\ Living' = Living /\ Newest' = Newest
    BY <2>1, SameCalmer
  <2>3. OldConfig(i)' = OldConfig(i) /\ Before(i)' = Before(i)
    BY <2>1 DEF OldConfig, Before
  <2>4. Living' \subseteq {Len(procs')} /\ ReadyServed' /\ Housed'
        /\ \A p \in DOMAIN procs' : p \in DOMAIN procs /\ procs'[p].rel = procs[p].rel
    BY <2>1, <2>2, CalmerKeeps
  <2>5. pc'[i] \in Unseen \/ Living' \subseteq {pidFile'}
    BY <1>0, <2>1, <2>2, PublishedAt
  <2>6. Running(i)'
    BY <1>0, <2>1, <2>2, <2>3 DEF Running
  <2>7. Undone(i)'
    <3>1. Rolled(i) => Rolled(i)'
      BY <2>1, <2>2, <2>3 DEF Rolled, Runs
    <3> QED
      BY <1>0, <2>1, <2>3, <3>1 DEF Undone
  <2> QED
    BY <2>1, <2>4, <2>5, <2>6, <2>7, WorkService
<1>7. CASE Publishes(i)
  <2>1. UNCHANGED <<dirs, current, previous, legacy, procs, readyFile, x>> /\ pc[i] \in Unseen /\ pidFile' = x[i].active
        /\ pc'[i] = (IF pc[i] = "spawned" THEN "running" ELSE "rewaiting")
    BY <1>7 DEF Publishes, Goto, Types, fileVars, Unseen
  <2>2. Calmer /\ Living' = Living /\ Newest' = Newest
    BY <2>1, SameCalmer
  <2>3. OldConfig(i)' = OldConfig(i) /\ Before(i)' = Before(i)
    BY <2>1 DEF OldConfig, Before
  <2>4. Living' \subseteq {Len(procs')} /\ ReadyServed' /\ Housed'
        /\ \A p \in DOMAIN procs' : p \in DOMAIN procs /\ procs'[p].rel = procs[p].rel
    BY <2>1, <2>2, CalmerKeeps
  <2>5. Living' \subseteq {pidFile'}
    BY <1>0, <2>1, <2>2 DEF Running, Candidate, Unseen
  <2>6. Running(i)'
    BY <1>0, <2>1, <2>2, <2>3 DEF Running, Candidate, Unseen
  <2>7. Undone(i)'
    BY <1>0, <2>1, <2>3 DEF Undone, Candidate, Unseen, Back, Changing, Deferred, Immediate, RollingBack
  <2>8. pc'[i] \in Changing \ Unstarted
    BY <2>1 DEF Changing, Unstarted, Early, Harmless, Immediate, RollingBack
  <2> QED
    BY <2>1, <2>4, <2>5, <2>6, <2>7, <2>8, WorkService
<1>8. CASE StartsCandidate(i)
  <2>1. UNCHANGED <<dirs, current, previous, legacy, pidFile>> /\ readyFile' = 0 /\ pc[i] = "activated" /\ pc'[i] = "spawned"
        /\ procs' = Append(procs, Process(i, i, "starting"))
        /\ x'[i] = [x[i] EXCEPT !.active = Len(procs')]
    BY <1>8 DEF StartsCandidate, Starts, Goto, Types, fileVars
  <2>2. /\ Len(procs') = Len(procs) + 1 /\ (\A p \in 1..Len(procs) : procs'[p] = procs[p])
        /\ procs'[Len(procs')] = Process(i, i, "starting") /\ DOMAIN procs' = 1..Len(procs')
    BY <2>1, AppendGrows DEF Release, Config, Types
  <2>3. Living' \subseteq {Len(procs')}
    BY <1>0, <2>1, <2>2 DEF Running, Living, Alive, Types
  <2>4. x'[i].old = x[i].old /\ x'[i].before = x[i].before /\ x'[i].active = Len(procs')
    BY <1>0, <2>1 DEF Local
  <2>5. Newest'.rel = i /\ Newest'.cfg = i /\ Newest'.st = "starting"
    BY <2>2 DEF Newest, Process
  <2>6. ReadyServed'
    BY <2>1 DEF ReadyServed
  <2>7. Housed'
    BY <1>0, <2>1, <2>3, <2>5 DEF Housed, Newest, Undone, Changing, Immediate
  <2>8. Running(i)'
    BY <1>0, <2>1, <2>2, <2>4, <2>5 DEF Running, Candidate
  <2>9. Undone(i)'
    BY <1>0, <2>1, <2>4 DEF Undone, Before, Candidate, Back, Changing, Deferred, Immediate, RollingBack
  <2>10. \A p \in DOMAIN procs' : \/ p \in DOMAIN procs /\ procs'[p].rel = procs[p].rel
                                  \/ procs'[p].rel = i
    BY <2>2, <2>5 DEF Newest, Types
  <2>11. pc'[i] \in Unseen /\ pc'[i] \in Changing \ Unstarted /\ pc[i] \notin Unstarted
    BY <2>1 DEF Unseen, Changing, Unstarted, Early, Harmless, Deferred
  <2> QED
    BY <2>3, <2>6, <2>7, <2>8, <2>9, <2>10, <2>11, WorkService
<1>9. CASE Restarts(i)
  <2>1. UNCHANGED <<dirs, current, previous, legacy, pidFile>> /\ readyFile' = 0 /\ pc[i] = "relinked" /\ pc'[i] = "respawned"
        /\ procs' = Append(procs, Process(x[i].goal, OldConfig(i), "starting"))
        /\ x'[i] = [x[i] EXCEPT !.active = Len(procs')]
    BY <1>9 DEF Restarts, Starts, Goto, Types, fileVars
  <2>c. OldConfig(i) \in Config
    <3>1. x[i].mode = "previous" => x[i].pid # 0
      BY DEF Types
    <3>2. x[i].pid # 0 => procs[x[i].pid] \in Managed
      BY <1>l DEF Types
    <3> QED
      BY <3>1, <3>2 DEF OldConfig, Config, Managed
  <2>d. x[i].goal \in Release /\ x[i].goal \in dirs /\ x[i].goal = Before(i)
    BY <1>0, <2>1 DEF Undone, Back, LinksWhole, Types
  <2>2. /\ Len(procs') = Len(procs) + 1 /\ (\A p \in 1..Len(procs) : procs'[p] = procs[p])
        /\ procs'[Len(procs')] = Process(x[i].goal, OldConfig(i), "starting") /\ DOMAIN procs' = 1..Len(procs')
    BY <2>1, <2>c, <2>d, AppendGrows DEF Types
  <2>3. Living' \subseteq {Len(procs')}
    BY <1>0, <2>1, <2>2 DEF Running, Living, Alive, Types
  <2>4. x'[i].old = x[i].old /\ x'[i].before = x[i].before /\ x'[i].active = Len(procs') /\ x'[i].goal = x[i].goal
        /\ x'[i].mode = x[i].mode /\ x'[i].pid = x[i].pid
    BY <1>0, <2>1 DEF Local
  <2>e. OldConfig(i)' = OldConfig(i) /\ Before(i)' = Before(i)
    BY <2>2, <2>4, ConfigKept DEF Before
  <2>5. Newest'.rel = x[i].goal /\ Newest'.cfg = OldConfig(i) /\ Newest'.st = "starting"
    BY <2>2 DEF Newest, Process
  <2>6. ReadyServed'
    BY <2>1 DEF ReadyServed
  <2>7. Housed'
    BY <2>1, <2>3, <2>5, <2>d DEF Housed, Newest
  <2>8. Running(i)'
    BY <1>0, <2>1, <2>2, <2>4, <2>5, <2>e DEF Running, Candidate
  <2>9. Undone(i)'
    BY <1>0, <2>1, <2>4, <2>e DEF Undone, Candidate, Back, Changing, Deferred, Immediate, RollingBack
  <2>10. \A p \in DOMAIN procs' : \/ p \in DOMAIN procs /\ procs'[p].rel = procs[p].rel
                                  \/ procs'[p].rel = Before(i)
    BY <2>2, <2>5, <2>d DEF Newest, Types
  <2>11. pc'[i] \in Unseen /\ pc'[i] \in Changing \ Unstarted /\ pc[i] \notin Unstarted
    BY <2>1 DEF Unseen, Changing, Unstarted, Early, Harmless, RollingBack
  <2> QED
    BY <2>3, <2>6, <2>7, <2>8, <2>9, <2>10, <2>11, WorkService
<1>10. CASE Stops(i)
  <2>1. pc[i] = "stop" /\ pc'[i] = "stopping" /\ UNCHANGED <<dirs, current, previous, legacy>>
        /\ readyFile' \in {0, readyFile} /\ Term(x[i].pid)
        /\ x'[i].old = x[i].old /\ x'[i].before = x[i].before /\ x'[i].pid = x[i].pid
        /\ x'[i].mode = x[i].mode
        /\ x'[i].active = x[i].active /\ pidFile' = pidFile
    BY <1>10, <1>0 DEF Stops, Goto, Types, Local, fileVars, Cleared
  <2>2. Calmer
    BY <1>l, <2>1, TermCalmer
  <2>3. /\ Living' \subseteq {Len(procs')} /\ Len(procs') = Len(procs) /\ ReadyServed' /\ Housed'
        /\ Len(procs) # 0 => Newest'.rel = Newest.rel /\ Newest'.cfg = Newest.cfg
        /\ \A p \in DOMAIN procs' : p \in DOMAIN procs /\ procs'[p].rel = procs[p].rel
    BY <2>1, <2>2, CalmerKeeps
  <2>4. OldConfig(i)' = OldConfig(i) /\ Before(i)' = Before(i) /\ Living' \subseteq Living
    BY <2>1, <2>2, ConfigKept DEF Before, Calmer, Restated
  <2>5. Living' \subseteq {pidFile'}
    BY <1>0, <2>1, <2>4, PublishedAt DEF Unseen
  <2>6. pc'[i] \notin Unstarted /\ pc'[i] \in Changing
    BY <2>1 DEF Unstarted, Early, Harmless, Changing, Deferred, Immediate, RollingBack
  <2>7. Running(i)'
    BY <1>0, <1>l, <2>1, <2>2, <2>3, <2>4, <2>5 DEF Running, Candidate
  <2>8. Undone(i)'
    BY <1>0, <1>l, <2>1, <2>2, <2>3, <2>4, <2>5 DEF Undone, Candidate, Back, Changing, Deferred, Immediate, RollingBack
  <2> QED
    BY <2>3, <2>5, <2>6, <2>7, <2>8, WorkService
<1>11. CASE Stopped(i)
  <2>1. pc[i] = "stopping" /\ pc'[i] = "stopped" /\ UNCHANGED <<dirs, current, previous, legacy>>
        /\ readyFile' \in {0, readyFile} /\ Gone(x[i].pid)
        /\ x'[i].old = x[i].old /\ x'[i].before = x[i].before /\ x'[i].pid = x[i].pid
        /\ x'[i].mode = x[i].mode
        /\ x'[i].active = x[i].active
    BY <1>11, <1>0 DEF Stopped, Goto, Types, Local, fileVars, Cleared
  <2>2. Calmer /\ x[i].pid \notin Living'
    BY <1>l, <2>1, GoneCalmer
  <2>3. /\ Living' \subseteq {Len(procs')} /\ Len(procs') = Len(procs) /\ ReadyServed' /\ Housed'
        /\ Len(procs) # 0 => Newest'.rel = Newest.rel /\ Newest'.cfg = Newest.cfg
        /\ \A p \in DOMAIN procs' : p \in DOMAIN procs /\ procs'[p].rel = procs[p].rel
    BY <2>1, <2>2, CalmerKeeps
  <2>4. OldConfig(i)' = OldConfig(i) /\ Before(i)' = Before(i) /\ Living' \subseteq Living
    BY <2>1, <2>2, ConfigKept DEF Before, Calmer, Restated
  <2>5. Living' = {} /\ Living' \subseteq {pidFile'}
    BY <1>0, <2>1, <2>2, <2>4 DEF Running
  <2>6. pc'[i] \notin Unstarted /\ pc'[i] \in Changing
    BY <2>1 DEF Unstarted, Early, Harmless, Changing, Deferred, Immediate, RollingBack
  <2>7. Running(i)'
    BY <1>0, <1>l, <2>1, <2>2, <2>3, <2>4, <2>5 DEF Running, Candidate
  <2>8. Undone(i)'
    BY <1>0, <1>l, <2>1, <2>2, <2>3, <2>4, <2>5 DEF Undone, Candidate, Back, Changing, Deferred, Immediate, RollingBack
  <2> QED
    BY <2>3, <2>5, <2>6, <2>7, <2>8, WorkService
<1>12. CASE Fails(i)
  <2>1. pc[i] = "running" /\ pc'[i] = "killing" /\ UNCHANGED <<dirs, current, previous, legacy>>
        /\ readyFile' \in {0, readyFile} /\ Term(x[i].active)
        /\ x'[i].old = x[i].old /\ x'[i].before = x[i].before /\ x'[i].pid = x[i].pid
        /\ x'[i].mode = x[i].mode
        /\ x'[i].active = x[i].active /\ pidFile' = pidFile /\ x'[i].by = "failure"
    BY <1>12, <1>0 DEF Fails, Goto, Types, Local, fileVars, Cleared
  <2>2. Calmer
    BY <1>l, <2>1, TermCalmer
  <2>3. /\ Living' \subseteq {Len(procs')} /\ Len(procs') = Len(procs) /\ ReadyServed' /\ Housed'
        /\ Len(procs) # 0 => Newest'.rel = Newest.rel /\ Newest'.cfg = Newest.cfg
        /\ \A p \in DOMAIN procs' : p \in DOMAIN procs /\ procs'[p].rel = procs[p].rel
    BY <2>1, <2>2, CalmerKeeps
  <2>4. OldConfig(i)' = OldConfig(i) /\ Before(i)' = Before(i) /\ Living' \subseteq Living
    BY <2>1, <2>2, ConfigKept DEF Before, Calmer, Restated
  <2>5. Living' \subseteq {pidFile'}
    BY <1>0, <2>1, <2>4, PublishedAt DEF Unseen
  <2>6. pc'[i] \notin Unstarted /\ pc'[i] \in Changing
    BY <2>1 DEF Unstarted, Early, Harmless, Changing, Deferred, Immediate, RollingBack
  <2>7. Running(i)'
    BY <1>0, <1>l, <2>1, <2>2, <2>3, <2>4, <2>5 DEF Running, Candidate
  <2>8. Undone(i)'
    BY <1>0, <1>l, <2>1, <2>2, <2>3, <2>4, <2>5 DEF Undone, Candidate, Back, Changing, Deferred, Immediate, RollingBack
  <2> QED
    BY <2>3, <2>5, <2>6, <2>7, <2>8, WorkService
<1>13. CASE Killed(i)
  <2>1. pc[i] = "killing" /\ pc'[i] = "failed" /\ UNCHANGED <<dirs, current, previous, legacy>>
        /\ readyFile' \in {0, readyFile} /\ Gone(x[i].active)
        /\ x'[i].old = x[i].old /\ x'[i].before = x[i].before /\ x'[i].pid = x[i].pid
        /\ x'[i].mode = x[i].mode
        /\ x'[i].active = 0 /\ x'[i].by = x[i].by
    BY <1>13, <1>0 DEF Killed, Goto, Types, Local, fileVars, Cleared
  <2>2. Calmer /\ x[i].active \notin Living'
    BY <1>l, <2>1, GoneCalmer
  <2>3. /\ Living' \subseteq {Len(procs')} /\ Len(procs') = Len(procs) /\ ReadyServed' /\ Housed'
        /\ Len(procs) # 0 => Newest'.rel = Newest.rel /\ Newest'.cfg = Newest.cfg
        /\ \A p \in DOMAIN procs' : p \in DOMAIN procs /\ procs'[p].rel = procs[p].rel
    BY <2>1, <2>2, CalmerKeeps
  <2>4. OldConfig(i)' = OldConfig(i) /\ Before(i)' = Before(i) /\ Living' \subseteq Living
    BY <2>1, <2>2, ConfigKept DEF Before, Calmer, Restated
  <2>5. Living' = {} /\ Living' \subseteq {pidFile'}
    BY <1>0, <2>1, <2>2, <2>4 DEF Running
  <2>6. pc'[i] \notin Unstarted /\ pc'[i] \in Changing
    BY <2>1 DEF Unstarted, Early, Harmless, Changing, Deferred, Immediate, RollingBack
  <2>7. Running(i)'
    BY <1>0, <1>l, <2>1, <2>2, <2>3, <2>4, <2>5 DEF Running, Candidate
  <2>8. Undone(i)'
    BY <1>0, <1>l, <2>1, <2>2, <2>3, <2>4, <2>5 DEF Undone, Candidate, Back, Changing, Deferred, Immediate, RollingBack
  <2> QED
    BY <2>3, <2>5, <2>6, <2>7, <2>8, WorkService
<1>14. CASE RestoreFails(i)
  <2>1. pc[i] = "rewaiting" /\ pc'[i] = "unrestoring" /\ UNCHANGED <<dirs, current, previous, legacy>>
        /\ readyFile' \in {0, readyFile} /\ Term(x[i].active)
        /\ x'[i].old = x[i].old /\ x'[i].before = x[i].before /\ x'[i].pid = x[i].pid
        /\ x'[i].mode = x[i].mode
        /\ x'[i].active = x[i].active /\ pidFile' = pidFile /\ x'[i].goal = x[i].goal
    BY <1>14, <1>0 DEF RestoreFails, Goto, Types, Local, fileVars, Cleared
  <2>2. Calmer
    BY <1>l, <2>1, TermCalmer
  <2>3. /\ Living' \subseteq {Len(procs')} /\ Len(procs') = Len(procs) /\ ReadyServed' /\ Housed'
        /\ Len(procs) # 0 => Newest'.rel = Newest.rel /\ Newest'.cfg = Newest.cfg
        /\ \A p \in DOMAIN procs' : p \in DOMAIN procs /\ procs'[p].rel = procs[p].rel
    BY <2>1, <2>2, CalmerKeeps
  <2>4. OldConfig(i)' = OldConfig(i) /\ Before(i)' = Before(i) /\ Living' \subseteq Living
    BY <2>1, <2>2, ConfigKept DEF Before, Calmer, Restated
  <2>5. Living' \subseteq {pidFile'}
    BY <1>0, <2>1, <2>4, PublishedAt DEF Unseen
  <2>6. pc'[i] \notin Unstarted /\ pc'[i] \in Changing
    BY <2>1 DEF Unstarted, Early, Harmless, Changing, Deferred, Immediate, RollingBack
  <2>7. Running(i)'
    BY <1>0, <1>l, <2>1, <2>2, <2>3, <2>4, <2>5 DEF Running, Candidate
  <2>8. Undone(i)'
    BY <1>0, <1>l, <2>1, <2>2, <2>3, <2>4, <2>5 DEF Undone, Candidate, Back, Changing, Deferred, Immediate, RollingBack
  <2> QED
    BY <2>3, <2>5, <2>6, <2>7, <2>8, WorkService
<1>15. CASE Unrestored(i)
  <2>1. pc[i] = "unrestoring" /\ pc'[i] = "rolledback" /\ UNCHANGED <<dirs, current, previous, legacy>>
        /\ readyFile' \in {0, readyFile} /\ Gone(x[i].active)
        /\ x'[i].old = x[i].old /\ x'[i].before = x[i].before /\ x'[i].pid = x[i].pid
        /\ x'[i].mode = x[i].mode
        /\ x'[i].active = 0 /\ x'[i].goal = None /\ x'[i].keep
    BY <1>15, <1>0 DEF Unrestored, Goto, Types, Local, fileVars, Cleared
  <2>2. Calmer /\ x[i].active \notin Living'
    BY <1>l, <2>1, GoneCalmer
  <2>3. /\ Living' \subseteq {Len(procs')} /\ Len(procs') = Len(procs) /\ ReadyServed' /\ Housed'
        /\ Len(procs) # 0 => Newest'.rel = Newest.rel /\ Newest'.cfg = Newest.cfg
        /\ \A p \in DOMAIN procs' : p \in DOMAIN procs /\ procs'[p].rel = procs[p].rel
    BY <2>1, <2>2, CalmerKeeps
  <2>4. OldConfig(i)' = OldConfig(i) /\ Before(i)' = Before(i) /\ Living' \subseteq Living
    BY <2>1, <2>2, ConfigKept DEF Before, Calmer, Restated
  <2>5. Living' = {} /\ Living' \subseteq {pidFile'}
    BY <1>0, <2>1, <2>2, <2>4 DEF Running, Candidate
  <2>6. pc'[i] \notin Unstarted /\ pc'[i] \in Changing
    BY <2>1 DEF Unstarted, Early, Harmless, Changing, Deferred, Immediate, RollingBack
  <2>7. Running(i)'
    BY <1>0, <1>l, <2>1, <2>2, <2>3, <2>4, <2>5 DEF Running, Candidate
  <2>8. Undone(i)'
    BY <1>0, <1>l, <2>1, <2>2, <2>3, <2>4, <2>5 DEF Undone, Candidate, Back, Changing, Deferred, Immediate, RollingBack, Rolled, Running
  <2> QED
    BY <2>3, <2>5, <2>6, <2>7, <2>8, WorkService
<1>16. CASE TakesPending(i)
  <2>1. pc[i] \in {"stopped", "saved", "activated", "running", "accepted"} /\ pc'[i] = "killing" /\ UNCHANGED <<dirs, current, previous, legacy>>
        /\ readyFile' \in {0, readyFile} /\ Term(x[i].active)
        /\ x'[i].old = x[i].old /\ x'[i].before = x[i].before /\ x'[i].pid = x[i].pid
        /\ x'[i].mode = x[i].mode
        /\ x'[i].active = x[i].active /\ pidFile' = pidFile /\ x'[i].by = "signal"
        /\ (x[i].old = None => x[i].before = None)
    BY <1>16, <1>0 DEF TakesPending, Interrupted, Immediate, Goto, Types, Local, fileVars, Cleared
  <2>2. Calmer
    BY <1>l, <2>1, TermCalmer
  <2>3. /\ Living' \subseteq {Len(procs')} /\ Len(procs') = Len(procs) /\ ReadyServed' /\ Housed'
        /\ Len(procs) # 0 => Newest'.rel = Newest.rel /\ Newest'.cfg = Newest.cfg
        /\ \A p \in DOMAIN procs' : p \in DOMAIN procs /\ procs'[p].rel = procs[p].rel
    BY <2>1, <2>2, CalmerKeeps
  <2>4. OldConfig(i)' = OldConfig(i) /\ Before(i)' = Before(i) /\ Living' \subseteq Living
    BY <2>1, <2>2, ConfigKept DEF Before, Calmer, Restated
  <2>5. Living' \subseteq {pidFile'}
    BY <1>0, <2>1, <2>4, PublishedAt DEF Unseen
  <2>6. pc'[i] \notin Unstarted /\ pc'[i] \in Changing
    BY <2>1 DEF Unstarted, Early, Harmless, Changing, Deferred, Immediate, RollingBack
  <2>7. Running(i)'
    BY <1>0, <1>l, <2>1, <2>2, <2>3, <2>4, <2>5 DEF Running, Candidate
  <2>8. Undone(i)'
    BY <1>0, <1>l, <2>1, <2>2, <2>3, <2>4, <2>5 DEF Undone, Candidate, Back, Changing, Deferred, Immediate, RollingBack
  <2> QED
    BY <2>3, <2>5, <2>6, <2>7, <2>8, WorkService
<1>17. CASE RollsBack(i)
  <2>1. pc[i] \in {"stopped", "saved", "activated", "running", "accepted"} /\ pc'[i] = "killing" /\ UNCHANGED <<dirs, current, previous, legacy>>
        /\ readyFile' \in {0, readyFile} /\ Term(x[i].active)
        /\ x'[i].old = x[i].old /\ x'[i].before = x[i].before /\ x'[i].pid = x[i].pid
        /\ x'[i].mode = x[i].mode
        /\ x'[i].active = x[i].active /\ pidFile' = pidFile /\ x'[i].by = "signal"
        /\ (x[i].old = None => x[i].before = None)
    BY <1>17, <1>0 DEF RollsBack, Interrupted, Immediate, Goto, Types, Local, fileVars, Cleared
  <2>2. Calmer
    BY <1>l, <2>1, TermCalmer
  <2>3. /\ Living' \subseteq {Len(procs')} /\ Len(procs') = Len(procs) /\ ReadyServed' /\ Housed'
        /\ Len(procs) # 0 => Newest'.rel = Newest.rel /\ Newest'.cfg = Newest.cfg
        /\ \A p \in DOMAIN procs' : p \in DOMAIN procs /\ procs'[p].rel = procs[p].rel
    BY <2>1, <2>2, CalmerKeeps
  <2>4. OldConfig(i)' = OldConfig(i) /\ Before(i)' = Before(i) /\ Living' \subseteq Living
    BY <2>1, <2>2, ConfigKept DEF Before, Calmer, Restated
  <2>5. Living' \subseteq {pidFile'}
    BY <1>0, <2>1, <2>4, PublishedAt DEF Unseen
  <2>6. pc'[i] \notin Unstarted /\ pc'[i] \in Changing
    BY <2>1 DEF Unstarted, Early, Harmless, Changing, Deferred, Immediate, RollingBack
  <2>7. Running(i)'
    BY <1>0, <1>l, <2>1, <2>2, <2>3, <2>4, <2>5 DEF Running, Candidate
  <2>8. Undone(i)'
    BY <1>0, <1>l, <2>1, <2>2, <2>3, <2>4, <2>5 DEF Undone, Candidate, Back, Changing, Deferred, Immediate, RollingBack
  <2> QED
    BY <2>3, <2>5, <2>6, <2>7, <2>8, WorkService
<1>18. CASE Restored(i)
  <2>1. pc[i] = "rewaiting" /\ pc'[i] = "rolledback" /\ UNCHANGED <<current, previous, legacy, procs, pidFile, readyFile>>
        /\ Ready(x[i].active) /\ dirs' \in {dirs, dirs \ {i}} /\ x'[i].goal = x[i].goal
        /\ x'[i].old = x[i].old /\ x'[i].before = x[i].before /\ x'[i].pid = x[i].pid
        /\ x'[i].mode = x[i].mode
    BY <1>18, <1>0 DEF Restored, Goto, Types, Local, pidVars
  <2>2. Calmer /\ Living' = Living /\ Newest' = Newest
    BY <2>1, SameCalmer
  <2>3. OldConfig(i)' = OldConfig(i) /\ Before(i)' = Before(i)
    BY <2>1, ConfigKept DEF Before
  <2>4. Living' \subseteq {Len(procs')} /\ ReadyServed'
        /\ \A p \in DOMAIN procs' : p \in DOMAIN procs /\ procs'[p].rel = procs[p].rel
    BY <2>1, <2>2, CalmerKeeps
  <2>5. x[i].goal = Before(i) /\ Before(i) # None /\ Before(i) # i /\ current = Before(i)
    BY <1>0, <2>1 DEF Undone, Back, Before, Switch, Changing, RollingBack
  <2>6. Housed'
    BY <1>0, <2>1, <2>2, <2>5 DEF Service, Housed, Running, Newest, Living
  <2>7. Runs(Before(i), OldConfig(i))
    BY <1>0, <2>1, <2>5 DEF Runs, Running, Candidate, Newest, Ready, Service, ReadyServed
  <2>8. Living' \subseteq {pidFile'}
    BY <1>0, <2>1, <2>2, PublishedAt DEF Unseen
  <2>9. Running(i)'
    BY <2>1 DEF Running, Candidate
  <2>10. Undone(i)'
    <3>1. Runs(Before(i), OldConfig(i))'
      BY <2>1, <2>3, <2>7 DEF Runs
    <3>2. Rolled(i)'
      BY <1>0, <2>1, <2>3, <2>5, <3>1 DEF Rolled, Undone, Back
    <3> QED
      BY <2>1, <3>2 DEF Undone, Candidate, Back
  <2>11. pc'[i] \in Changing \ Unstarted
    BY <2>1 DEF Changing, Unstarted, Early, Harmless, Immediate
  <2> QED
    BY <2>4, <2>6, <2>8, <2>9, <2>10, <2>11, WorkService
<1>19. CASE NothingToRestore(i)
  <2>1. pc[i] = "failed" /\ pc'[i] = "rolledback" /\ legacy' = legacy /\ procs' = procs /\ readyFile' \in {0, readyFile}
        /\ Goal(i) \notin dirs /\ (x[i].by # "failure" => dirs' = dirs) /\ x'[i].goal = None /\ x'[i].keep
        /\ x'[i].old = x[i].old /\ x'[i].before = x[i].before /\ x'[i].pid = x[i].pid
        /\ x'[i].mode = x[i].mode
    BY <1>19, <1>0 DEF NothingToRestore, Goto, Types, Local
  <2>2. Calmer /\ Living' = Living /\ Newest' = Newest /\ Living = {}
    BY <1>0, <2>1, SameCalmer DEF Running
  <2>3. Before(i)' = Before(i)
    BY <2>1 DEF Before
  <2>4. Living' \subseteq {Len(procs')} /\ ReadyServed' /\ Housed'
        /\ \A p \in DOMAIN procs' : p \in DOMAIN procs /\ procs'[p].rel = procs[p].rel
    BY <2>1, <2>2, CalmerKeeps
  <2>5. Before(i) = None
    <3>1. CASE x[i].by = "failure"
      BY <1>0, <2>1, <3>1 DEF Undone, Goal, LinksWhole
    <3>2. CASE x[i].by # "failure"
      <4>1. x[i].old = None
        BY <1>0, <2>1, <3>2 DEF Goal, Switch, Changing, RollingBack
      <4> QED
        BY <1>0, <2>1, <3>2, <4>1 DEF Undone, Before
    <3> QED
      BY <3>1, <3>2
  <2>6. Running(i)'
    BY <2>1 DEF Running, Candidate
  <2>7. Undone(i)'
    <3>1. Rolled(i)'
      BY <2>1, <2>2, <2>3, <2>5 DEF Rolled
    <3> QED
      BY <2>1, <3>1 DEF Undone, Candidate, Back
  <2>8. pc'[i] \in Changing \ Unstarted
    BY <2>1 DEF Changing, Unstarted, Early, Harmless, Immediate
  <2> QED
    BY <2>2, <2>4, <2>6, <2>7, <2>8, WorkService
<1>20. CASE Captures(i)
  <2>1. PICK pid, mode : Found(i, pid, mode) /\ pid \in {0, pidFile} /\ (pid = 0 => pidFile = 0 \/ ~Alive(pidFile))
    BY <1>20 DEF Captures
  <2>2. UNCHANGED <<dirs, current, previous, legacy, procs, readyFile>> /\ pc[i] = "staged" /\ pc'[i] = "stop"
        /\ pidFile' \in {0, pidFile} /\ (pidFile' = 0 => pidFile = 0 \/ ~Alive(pidFile))
    BY <1>20, <2>1 DEF Captures, Found, Goto, Types, fileVars
  <2>3. x'[i].old = current /\ x'[i].before = previous /\ x'[i].pid = pid /\ x'[i].active = 0
    <3>1. x'[i] = [Fresh EXCEPT !.before = previous, !.old = current, !.pid = pid, !.mode = mode]
      BY <2>1 DEF Found, Types
    <3>2. LET r == [Fresh EXCEPT !.before = previous, !.old = current, !.pid = pid, !.mode = mode]
          IN  r.old = current /\ r.before = previous /\ r.pid = pid /\ r.active = 0
      BY DEF Fresh
    <3> QED
      BY <3>1, <3>2
  <2>4. Calmer /\ Living' = Living /\ Newest' = Newest
    BY <2>2, SameCalmer
  <2>5. Living' \subseteq {Len(procs')} /\ ReadyServed' /\ Housed'
        /\ \A p \in DOMAIN procs' : p \in DOMAIN procs /\ procs'[p].rel = procs[p].rel
    BY <2>2, <2>4, CalmerKeeps
  <2>6. Living \subseteq {pidFile} /\ (pidFile = 0 \/ ~Alive(pidFile) => Living = {})
    <3>1. Living \subseteq {pidFile}
      BY <1>0, <2>2, PublishedAt DEF Unseen
    <3> QED
      BY <3>1 DEF Living, Alive, Types
  <2>7. Running(i)'
    BY <2>1, <2>2, <2>3, <2>4, <2>6 DEF Running, Candidate
  <2>8. Undone(i)'
    BY <1>0, <2>2, <2>3 DEF Undone, Candidate, Back, Switch, Unswitched, Harmless
  <2>9. pc'[i] \in Changing \ Unstarted
    BY <2>2 DEF Changing, Unstarted, Early, Harmless, Deferred
  <2> QED
    BY <2>2, <2>4, <2>5, <2>6, <2>7, <2>8, <2>9, WorkService
<1>21. CASE StageFails(i)
  <2>1. UNCHANGED <<current, previous, legacy, procs, readyFile, x>> /\ dirs' = dirs \ {i} /\ pc'[i] = "over" /\ pc[i] \in Harmless
        /\ pidFile' \in {0, pidFile} /\ (pidFile' = pidFile \/ ~Alive(pidFile))
    <3>1. pc[i] \in Harmless
      BY <1>21 DEF StageFails, Harmless
    <3>2. ~x[i].keep
      BY <1>0, <3>1 DEF Switch, Unswitched
    <3> QED
      BY <1>21, <3>1, <3>2 DEF StageFails, Exits, Goto, Types, pidVars
  <2>2. Calmer /\ Living' = Living /\ Newest' = Newest
    BY <2>1, SameCalmer
  <2>3. Living' \subseteq {Len(procs')} /\ ReadyServed'
        /\ \A p \in DOMAIN procs' : p \in DOMAIN procs /\ procs'[p].rel = procs[p].rel
    BY <2>1, <2>2, CalmerKeeps
  <2>4. Living \subseteq {pidFile} /\ (~Alive(pidFile) => Living = {})
    <3>1. Living \subseteq {pidFile}
      BY <1>0, <2>1, PublishedAt DEF Unseen, Harmless
    <3> QED
      BY <3>1 DEF Living
  <2>5. Housed'
    BY <2>1, <2>2 DEF Service, Housed, Unborn, Unstarted, Living
  <2>6. pc'[i] \notin Unstarted /\ pc'[i] \notin Working
    BY <2>1, Steps DEF Unstarted, Ended
  <2>7. Running(i)' /\ Undone(i)'
    BY <2>1 DEF Running, Undone, Candidate, Back, Changing, Deferred, Immediate, RollingBack
  <2>8. Given'
    <3>1. \A k \in Installers : pc[k] \notin Changing
      BY <1>0, <2>1, OneAtWork, Steps
    <3>2. last' = last
      BY <1>21, <2>1, Steps DEF StageFails, Exits
    <3>3. ASSUME last # None PROVE Kept(last)'
      <4>1. Kept(last) /\ last \in Installers
        BY <3>1, <3>3 DEF Service, Given, Types
      <4>2. last # i
        BY <1>0, <4>1, Steps DEF Kept
      <4>3. pc'[last] = pc[last] /\ x'[last] = x[last] /\ result'[last] = result[last] /\ (last \in dirs => last \in dirs')
        BY <1>l, <1>21, <2>1, <4>1, <4>2 DEF StageFails, Exits, Types
      <4> QED
        BY <2>1, <3>2, <4>1, <4>3, KeptStays
    <3> QED
      BY <2>1, <3>1, <3>2, <3>3 DEF Service, Given
  <2> QED
    BY <2>1, <2>2, <2>3, <2>4, <2>5, <2>6, <2>7, <2>8, WorkService
<1>22. CASE CaptureFails(i)
  <2>1. UNCHANGED <<current, previous, legacy, procs, readyFile, x>> /\ dirs' = dirs \ {i} /\ pc'[i] = "over" /\ pc[i] \in Harmless
        /\ pidFile' \in {0, pidFile} /\ (pidFile' = pidFile \/ ~Alive(pidFile))
    <3>1. pc[i] \in Harmless
      BY <1>22 DEF CaptureFails, Harmless
    <3>2. ~x[i].keep
      BY <1>0, <3>1 DEF Switch, Unswitched
    <3> QED
      BY <1>22, <3>1, <3>2 DEF CaptureFails, Exits, Goto, Types, pidVars
  <2>2. Calmer /\ Living' = Living /\ Newest' = Newest
    BY <2>1, SameCalmer
  <2>3. Living' \subseteq {Len(procs')} /\ ReadyServed'
        /\ \A p \in DOMAIN procs' : p \in DOMAIN procs /\ procs'[p].rel = procs[p].rel
    BY <2>1, <2>2, CalmerKeeps
  <2>4. Living \subseteq {pidFile} /\ (~Alive(pidFile) => Living = {})
    <3>1. Living \subseteq {pidFile}
      BY <1>0, <2>1, PublishedAt DEF Unseen, Harmless
    <3> QED
      BY <3>1 DEF Living
  <2>5. Housed'
    BY <2>1, <2>2 DEF Service, Housed, Unborn, Unstarted, Living
  <2>6. pc'[i] \notin Unstarted /\ pc'[i] \notin Working
    BY <2>1, Steps DEF Unstarted, Ended
  <2>7. Running(i)' /\ Undone(i)'
    BY <2>1 DEF Running, Undone, Candidate, Back, Changing, Deferred, Immediate, RollingBack
  <2>8. Given'
    <3>1. \A k \in Installers : pc[k] \notin Changing
      BY <1>0, <2>1, OneAtWork, Steps
    <3>2. last' = last
      BY <1>22, <2>1, Steps DEF CaptureFails, Exits
    <3>3. ASSUME last # None PROVE Kept(last)'
      <4>1. Kept(last) /\ last \in Installers
        BY <3>1, <3>3 DEF Service, Given, Types
      <4>2. last # i
        BY <1>0, <4>1, Steps DEF Kept
      <4>3. pc'[last] = pc[last] /\ x'[last] = x[last] /\ result'[last] = result[last] /\ (last \in dirs => last \in dirs')
        BY <1>l, <1>22, <2>1, <4>1, <4>2 DEF CaptureFails, Exits, Types
      <4> QED
        BY <2>1, <3>2, <4>1, <4>3, KeptStays
    <3> QED
      BY <2>1, <3>1, <3>2, <3>3 DEF Service, Given
  <2> QED
    BY <2>1, <2>2, <2>3, <2>4, <2>5, <2>6, <2>7, <2>8, WorkService
<1>23. CASE Leaves(i) /\ pc[i] \in Harmless
  <2>1. UNCHANGED <<current, previous, legacy, procs, readyFile, x>> /\ dirs' = dirs \ {i} /\ pc'[i] = "over" /\ pc[i] \in Harmless
        /\ pidFile' \in {0, pidFile} /\ (pidFile' = pidFile \/ ~Alive(pidFile))
    <3>1. pc[i] \in Harmless
      BY <1>23
    <3>2. ~x[i].keep
      BY <1>0, <3>1 DEF Switch, Unswitched
    <3> QED
      BY <1>23, <3>1, <3>2 DEF Leaves, Exits, Goto, Types, pidVars
  <2>2. Calmer /\ Living' = Living /\ Newest' = Newest
    BY <2>1, SameCalmer
  <2>3. Living' \subseteq {Len(procs')} /\ ReadyServed'
        /\ \A p \in DOMAIN procs' : p \in DOMAIN procs /\ procs'[p].rel = procs[p].rel
    BY <2>1, <2>2, CalmerKeeps
  <2>4. Living \subseteq {pidFile} /\ (~Alive(pidFile) => Living = {})
    <3>1. Living \subseteq {pidFile}
      BY <1>0, <2>1, PublishedAt DEF Unseen, Harmless
    <3> QED
      BY <3>1 DEF Living
  <2>5. Housed'
    BY <2>1, <2>2 DEF Service, Housed, Unborn, Unstarted, Living
  <2>6. pc'[i] \notin Unstarted /\ pc'[i] \notin Working
    BY <2>1, Steps DEF Unstarted, Ended
  <2>7. Running(i)' /\ Undone(i)'
    BY <2>1 DEF Running, Undone, Candidate, Back, Changing, Deferred, Immediate, RollingBack
  <2>8. Given'
    <3>1. \A k \in Installers : pc[k] \notin Changing
      BY <1>0, <2>1, OneAtWork, Steps
    <3>2. last' = last
      BY <1>23, <2>1, Steps DEF Leaves, Exits
    <3>3. ASSUME last # None PROVE Kept(last)'
      <4>1. Kept(last) /\ last \in Installers
        BY <3>1, <3>3 DEF Service, Given, Types
      <4>2. last # i
        BY <1>0, <4>1, Steps DEF Kept
      <4>3. pc'[last] = pc[last] /\ x'[last] = x[last] /\ result'[last] = result[last] /\ (last \in dirs => last \in dirs')
        BY <1>l, <1>23, <2>1, <4>1, <4>2 DEF Leaves, Exits, Types
      <4> QED
        BY <2>1, <3>2, <4>1, <4>3, KeptStays
    <3> QED
      BY <2>1, <3>1, <3>2, <3>3 DEF Service, Given
  <2> QED
    BY <2>1, <2>2, <2>3, <2>4, <2>5, <2>6, <2>7, <2>8, WorkService
<1>24. CASE Staged(i)
  <2>1. UNCHANGED <<current, procs, pidFile, readyFile, x>> /\ pc'[i] = "staged" /\ pc[i] = "staging" /\ pc[i] \in Harmless
        /\ dirs \subseteq dirs'
        /\ \/ legacy /\ current = None /\ ~legacy' /\ dirs' = dirs \cup {"old"}
           \/ UNCHANGED <<legacy, previous, dirs>>
    BY <1>24 DEF Staged, Goto, Types, pidVars, Harmless
  <2>2. Calmer /\ Living' = Living /\ Newest' = Newest
    BY <2>1, SameCalmer
  <2>3. Living' \subseteq {Len(procs')} /\ ReadyServed'
        /\ \A p \in DOMAIN procs' : p \in DOMAIN procs /\ procs'[p].rel = procs[p].rel
    BY <2>1, <2>2, CalmerKeeps
  <2>4. Living \subseteq {pidFile}
    BY <1>0, <2>1, PublishedAt DEF Unseen
  <2>5. Housed'
    BY <2>1, <2>2 DEF Service, Housed
  <2>6. pc[i] \in Unstarted
    BY <2>1 DEF Unstarted
  <2>7. Running(i)' /\ Undone(i)'
    BY <2>1 DEF Running, Undone, Candidate, Back, Changing, Deferred, Immediate, RollingBack
  <2>8. Given'
    <3>1. \A k \in Installers : pc[k] \notin Changing
      BY <1>0, <2>1, OneAtWork, Steps
    <3>2. last' = last
      BY <1>24, <2>1, Steps DEF Staged, Quiet
    <3>3. ASSUME last # None PROVE Kept(last)'
      <4>1. Kept(last) /\ last \in Installers
        BY <3>1, <3>3 DEF Service, Given, Types
      <4>2. last # i
        BY <1>0, <4>1, Steps DEF Kept
      <4>3. pc'[last] = pc[last] /\ x'[last] = x[last] /\ result'[last] = result[last] /\ (last \in dirs => last \in dirs')
        BY <1>l, <1>24, <2>1, <4>1, <4>2 DEF Staged, Quiet
      <4>4. CASE previous' = previous
        BY <2>1, <3>2, <4>1, <4>3, <4>4, KeptStays
      <4>5. CASE previous' # previous
        <5>1. current = None /\ last # None
          BY <2>1, <3>3, <4>5
        <5>2. Ending(last) /\ result[last] \notin {"installed", "interrupted", "restored"}
          BY <4>1, <5>1, HostInstallAssumption DEF Kept, Ending, Runs
        <5>3. Before(last)' = Before(last)
          BY <3>2, <4>3 DEF Before
        <5>4. Ending(last)'
          BY <2>1, <2>2, <3>2, <4>3, <5>2, <5>3 DEF Ending
        <5> QED
          BY <3>2, <4>1, <4>3, <5>4 DEF Kept
      <4> QED
        BY <4>4, <4>5
    <3> QED
      BY <2>1, <3>1, <3>2, <3>3 DEF Service, Given
  <2> QED
    BY <2>1, <2>2, <2>3, <2>4, <2>5, <2>6, <2>7, <2>8, WorkService
<1>25. CASE Finishes(i)
  <2>1. UNCHANGED <<dirs, current, previous, legacy, procs, pidFile, readyFile>> /\ pc[i] = "pruning" /\ pc'[i] = "over"
        /\ last' = i /\ result'[i] = "installed"
    <3>1. x[i].keep /\ pc[i] = "pruning"
      BY <1>0, <1>25 DEF Switch, Finishes
    <3> QED
      BY <1>25, <3>1 DEF Finishes, Exits, Goto, Types, pidVars, Changing
  <2>2. Calmer /\ Living' = Living /\ Newest' = Newest
    BY <2>1, SameCalmer
  <2>3. Living' \subseteq {Len(procs')} /\ ReadyServed' /\ Housed'
        /\ \A p \in DOMAIN procs' : p \in DOMAIN procs /\ procs'[p].rel = procs[p].rel
    BY <2>1, <2>2, CalmerKeeps
  <2>4. Living' \subseteq {pidFile'}
    BY <1>0, <2>1, <2>2, PublishedAt DEF Unseen
  <2>5. pc'[i] \notin Unstarted
    BY <2>1 DEF Unstarted, Early, Harmless
  <2>6. Running(i)' /\ Undone(i)'
    BY <2>1 DEF Running, Undone, Candidate, Back, Changing, Deferred, Immediate, RollingBack
  <2>7. Given'
    <3>1. Runs(i, i)'
      BY <1>0, <2>1 DEF Running, Runs, Newest
    <3> QED
      BY <1>0, <2>1, <3>1 DEF Given, Kept, Ending, Ended
  <2> QED
    BY <2>2, <2>3, <2>4, <2>5, <2>6, <2>7, WorkService
<1>26. CASE GivesUp(i)
  <2>1. UNCHANGED <<current, previous, legacy, procs, pidFile, readyFile, x>> /\ pc[i] = "rolledback" /\ pc'[i] = "over"
        /\ dirs' = (IF x[i].keep THEN dirs ELSE dirs \ {i}) /\ last' = i
        /\ result'[i] = (IF x[i].goal = None THEN "lost" ELSE "restored")
    BY <1>26 DEF GivesUp, Exits, Goto, Types, pidVars, Changing, Immediate
  <2>2. Calmer /\ Living' = Living /\ Newest' = Newest
    BY <2>1, SameCalmer
  <2>3. Living' \subseteq {Len(procs')} /\ ReadyServed'
        /\ \A p \in DOMAIN procs' : p \in DOMAIN procs /\ procs'[p].rel = procs[p].rel
    BY <2>1, <2>2, CalmerKeeps
  <2>4. Living \subseteq {pidFile}
    BY <1>0, <2>1, PublishedAt DEF Unseen
  <2>5. Rolled(i) /\ Before(i) # i
    BY <1>0, <2>1 DEF Undone, Before, Switch, Changing, Immediate
  <2>6. Housed'
    <3>1. CASE x[i].goal = None
      BY <2>2, <2>5, <3>1 DEF Rolled, Housed
    <3>2. CASE x[i].goal # None
      <4>1. \A p \in Living : procs[p].rel # i
        BY <1>0, <2>5, <3>2 DEF Rolled, Runs
      <4> QED
        BY <2>1, <2>2, <4>1 DEF Service, Housed
    <3> QED
      BY <3>1, <3>2
  <2>7. pc'[i] \notin Unstarted
    BY <2>1 DEF Unstarted, Early, Harmless
  <2>8. Running(i)' /\ Undone(i)'
    BY <2>1 DEF Running, Undone, Candidate, Back, Changing, Deferred, Immediate, RollingBack
  <2>9. Given'
    <3>0. Before(i)' = Before(i) /\ OldConfig(i)' = OldConfig(i)
      BY <2>1 DEF Before, OldConfig
    <3>1. CASE x[i].goal = None
      <4>1. Ending(i)'
        BY <2>1, <2>2, <2>5, <3>0, <3>1 DEF Ending, Rolled
      <4> QED
        BY <1>0, <2>1, <4>1 DEF Given, Kept, Ended
    <3>2. CASE x[i].goal # None
      <4>1. Runs(Before(i), OldConfig(i))'
        BY <2>1, <2>5, <3>0, <3>2 DEF Runs, Rolled
      <4>2. Ending(i)'
        BY <2>1, <2>5, <3>0, <3>2, <4>1 DEF Ending, Rolled
      <4> QED
        BY <1>0, <2>1, <4>2 DEF Given, Kept, Ended
    <3> QED
      BY <3>1, <3>2
  <2> QED
    BY <2>1, <2>2, <2>3, <2>4, <2>6, <2>7, <2>8, <2>9, WorkService
<1>27. CASE LeavesCommitting(i)
  BY <1>27 DEF LeavesCommitting
<1>28. CASE Leaves(i) /\ pc[i] = "pruning"
  <2>1. UNCHANGED <<dirs, current, previous, legacy, procs, pidFile, readyFile>> /\ pc[i] = "pruning" /\ pc'[i] = "over"
        /\ last' = i /\ result'[i] = "interrupted"
    <3>1. x[i].keep /\ pc[i] = "pruning"
      BY <1>0, <1>28 DEF Switch, Leaves
    <3> QED
      BY <1>28, <3>1 DEF Leaves, Exits, Goto, Types, pidVars, Changing
  <2>2. Calmer /\ Living' = Living /\ Newest' = Newest
    BY <2>1, SameCalmer
  <2>3. Living' \subseteq {Len(procs')} /\ ReadyServed' /\ Housed'
        /\ \A p \in DOMAIN procs' : p \in DOMAIN procs /\ procs'[p].rel = procs[p].rel
    BY <2>1, <2>2, CalmerKeeps
  <2>4. Living' \subseteq {pidFile'}
    BY <1>0, <2>1, <2>2, PublishedAt DEF Unseen
  <2>5. pc'[i] \notin Unstarted
    BY <2>1 DEF Unstarted, Early, Harmless
  <2>6. Running(i)' /\ Undone(i)'
    BY <2>1 DEF Running, Undone, Candidate, Back, Changing, Deferred, Immediate, RollingBack
  <2>7. Given'
    <3>1. Runs(i, i)'
      BY <1>0, <2>1 DEF Running, Runs, Newest
    <3> QED
      BY <1>0, <2>1, <3>1 DEF Given, Kept, Ending, Ended
  <2> QED
    BY <2>2, <2>3, <2>4, <2>5, <2>6, <2>7, WorkService
<1>29. CASE Settles(i)
  <2>1. UNCHANGED <<dirs, current, previous, legacy, procs, pidFile, readyFile>> /\ pc[i] = "committing" /\ pc'[i] = "pruning"
    BY <1>29, <1>0 DEF Settles, Goto, Types, fileVars, pidVars
  <2>2. Calmer /\ Living' = Living /\ Newest' = Newest
    BY <2>1, SameCalmer
  <2>3. Living' \subseteq {Len(procs')} /\ ReadyServed' /\ Housed'
        /\ \A p \in DOMAIN procs' : p \in DOMAIN procs /\ procs'[p].rel = procs[p].rel
    BY <2>1, <2>2, CalmerKeeps
  <2>4. Living' \subseteq {pidFile'}
    BY <1>0, <2>1, <2>2, PublishedAt DEF Unseen
  <2>5. pc'[i] \notin Unstarted /\ pc'[i] \in Changing
    BY <2>1 DEF Unstarted, Early, Harmless, Changing
  <2>6. Running(i)'
    <3>1. current = i /\ Len(procs) # 0 /\ pidFile = Len(procs)
          /\ Newest.rel = i /\ Newest.cfg = i /\ Newest.st \in {"serving", "crashed"}
      BY <1>0, <2>1 DEF Running, Undone, Candidate
    <3> QED
      BY <2>1, <2>2, <3>1 DEF Running, Candidate
  <2>7. Undone(i)'
    BY <1>0, <2>1 DEF Undone, Candidate, Back, Changing
  <2> QED
    BY <2>2, <2>3, <2>4, <2>5, <2>6, <2>7, WorkService
<1>30. CASE Prunes(i)
  <2>1. UNCHANGED <<current, previous, legacy, procs, pidFile, readyFile, pc, x>> /\ pc[i] = "pruning"
        /\ dirs \cap {current} \subseteq dirs'
    BY <1>30 DEF Prunes, Others, pidVars, runVars
  <2>2. Calmer /\ Living' = Living /\ Newest' = Newest
    BY <2>1, SameCalmer
  <2>3. Living' \subseteq {Len(procs')} /\ ReadyServed'
        /\ \A p \in DOMAIN procs' : p \in DOMAIN procs /\ procs'[p].rel = procs[p].rel
    BY <2>1, <2>2, CalmerKeeps
  <2>4. Living' \subseteq {pidFile'}
    BY <1>0, <2>1, <2>2, PublishedAt DEF Unseen
  <2>5. pc'[i] \notin Unstarted /\ pc'[i] \in Changing
    BY <2>1 DEF Unstarted, Early, Harmless, Changing
  <2>6. current = i /\ Newest.rel = i /\ i \in dirs /\ i \in dirs'
    BY <1>0, <2>1 DEF Running, Undone, Changing
  <2>7. Housed'
    BY <1>0, <2>1, <2>2, <2>6 DEF Housed, Newest
  <2>8. Running(i)'
    BY <1>0, <2>1, <2>2 DEF Running, Candidate
  <2>9. Undone(i)'
    BY <1>0, <2>1, <2>6 DEF Undone, Candidate, Back, Changing
  <2> QED
    BY <2>2, <2>3, <2>4, <2>5, <2>7, <2>8, <2>9, WorkService
<1>31. Leaves(i) => pc[i] \in Harmless \/ pc[i] = "pruning"
  BY DEF Leaves
<1> QED
  BY <1>1, <1>2, <1>3, <1>4, <1>5, <1>6, <1>7, <1>8, <1>9, <1>10, <1>11, <1>12, <1>13, <1>14, <1>15, <1>16, <1>17, <1>18, <1>19, <1>20, <1>21, <1>22, <1>23, <1>24, <1>25, <1>26, <1>27, <1>28, <1>29, <1>30, <1>31 DEF Works

(* What earlier installations left is a good beginning. *)
LEMMA InitService == Init => Service
<1> SUFFICES ASSUME Init PROVE Service
  OBVIOUS
<1>1. \/ procs = <<>> /\ pidFile = 0 /\ readyFile = 0
      \/ /\ \E st \in {"serving", "crashed"} : procs = <<Process("old", "old", st)>>
         /\ pidFile = 1 /\ readyFile = 1 /\ ("old" \in dirs \/ legacy)
  BY DEF Init
<1>2. Len(procs) \in {0, 1} /\ pidFile = Len(procs) /\ readyFile = Len(procs) /\ DOMAIN procs = 1..Len(procs)
      /\ \A p \in DOMAIN procs : procs[p].rel = "old" /\ procs[p].st \in {"serving", "crashed"}
  <2>1. CASE procs = <<>> /\ pidFile = 0 /\ readyFile = 0
    BY <2>1
  <2>2. CASE (\E st \in {"serving", "crashed"} : procs = <<Process("old", "old", st)>>) /\ pidFile = 1 /\ readyFile = 1
    <3> PICK st \in {"serving", "crashed"} : procs = <<Process("old", "old", st)>>
      BY <2>2
    <3> QED
      BY <2>2 DEF Process
  <2> QED
    BY <1>1, <2>1, <2>2
<1>3. Living \subseteq {Len(procs)}
  BY <1>2 DEF Living
<1>4. ReadyServed
  BY <1>2 DEF ReadyServed
<1>5. Published
  BY <1>2, <1>3 DEF Published
<1>6. Housed
  BY <1>1, <1>2 DEF Housed, Living
<1>7. Unborn
  BY <1>2, HostInstallAssumption DEF Unborn
<1>8. \A i \in Installers : pc[i] = "off" /\ last = None
  BY DEF Init
<1>9. ASSUME NEW i \in Installers PROVE Running(i) /\ Undone(i)
  BY <1>8 DEF Running, Undone, Candidate, Back, Changing, Deferred, Immediate, RollingBack
<1>10. Given
  BY <1>2, <1>8 DEF Given, Init
<1> QED
  BY <1>3, <1>4, <1>5, <1>6, <1>7, <1>9, <1>10 DEF Service

(* Every step that leaves no gap behind keeps all of it. *)
LEMMA ServiceStep ==
  ASSUME Types, Types', Locks, Files, Files', Service, [Next]_vars, ~spoiled'
  PROVE  Service'
<1>1. CASE UNCHANGED vars
  <2>1. UNCHANGED <<dirs, current, previous, legacy, procs, pidFile, readyFile, pc, x, result, last>>
    BY <1>1 DEF vars, fileVars, pidVars, runVars
  <2>2. Calmer /\ Living' = Living /\ Newest' = Newest
    BY <2>1, SameCalmer
  <2>3. \A i \in Installers : OldConfig(i)' = OldConfig(i) /\ Before(i)' = Before(i)
    BY <2>1 DEF OldConfig, Before
  <2>4. ASSUME NEW i \in Installers PROVE Running(i)' /\ Undone(i)'
    <3>1. Running(i) /\ Undone(i)
      BY DEF Service
    <3>2. Running(i)'
      BY <2>1, <2>2, <2>3, <3>1 DEF Running
    <3>3. Rolled(i) => Rolled(i)'
      BY <2>1, <2>2, <2>3 DEF Rolled, Runs
    <3> QED
      BY <2>1, <2>3, <3>1, <3>2, <3>3 DEF Undone
  <2>5. Living' \subseteq {Len(procs')} /\ ReadyServed' /\ Housed' /\ Published' /\ Unborn'
    BY <2>1, <2>2 DEF Service, ReadyServed, Housed, Published, Unborn
  <2>6. Given'
    <3>1. ASSUME last # None, Kept(last) PROVE Kept(last)'
      <4>1. last \in Installers
        BY <3>1 DEF Types
      <4> QED
        BY <2>1, <3>1, <4>1, KeptStays
    <3> QED
      BY <2>1, <3>1 DEF Service, Given
  <2> QED
    BY <2>4, <2>5, <2>6 DEF Service
<1>2. ASSUME NEW p \in DOMAIN procs, Serves(p) \/ Crashes(p) \/ Dies(p) PROVE Service'
  BY <1>2, ProcessService
<1>3. ASSUME NEW i \in Installers,
             \/ LockTaken(i) \/ LockNamed(i) \/ LockHeld(i) \/ LockRead(i)
             \/ LockStale(i) \/ LockRemoved(i) \/ Refused(i)
      PROVE  Service'
  BY <1>3, LockService
<1>4. ASSUME NEW i \in Installers, KilledDead(i) PROVE Service'
  BY <1>4, KillService
<1>5. ASSUME NEW i \in Installers, Works(i) PROVE Service'
  BY <1>5, WorksService
<1> QED
  BY <1>1, <1>2, <1>3, <1>4, <1>5 DEF Next, Works

(* A gap once hit is never forgotten. *)
LEMMA SpoiledStays == ASSUME Types, [Next]_vars, ~spoiled' PROVE ~spoiled
<1>1. CASE UNCHANGED vars
  BY <1>1 DEF vars
<1>2. ASSUME NEW p \in DOMAIN procs, Serves(p) \/ Crashes(p) \/ Dies(p) PROVE ~spoiled
  BY <1>2 DEF Serves, Crashes, Dies, Lives
<1>3. ASSUME NEW i \in Installers,
             \/ LockTaken(i) \/ LockNamed(i) \/ LockHeld(i) \/ LockRead(i)
             \/ LockStale(i) \/ LockRemoved(i) \/ Refused(i) \/ KilledDead(i)
      PROVE  ~spoiled
  BY <1>3 DEF LockTaken, LockNamed, LockHeld, LockRead, LockStale, LockRemoved, Refused, KilledDead, Quiet
<1>4. ASSUME NEW i \in Installers, Works(i) PROVE ~spoiled
  BY <1>4 DEF Works, StageFails, Staged, Captures, Found, CaptureFails, Stops, Stopped, SavesPrevious, Activates,
         StartsCandidate, Publishes, Accepted, Commits, Settles, Prunes, Finishes, Fails, Killed, Relinks, NothingToRestore, Restarts,
         Restored, RestoreFails, Unrestored, GivesUp, TakesPending, Defers, RollsBack, Leaves, LeavesCommitting,
         Interrupted, Exits, Quiet, Starts
<1> QED
  BY <1>1, <1>2, <1>3, <1>4 DEF Next, Works

(* The inductive invariant. *)
IInv == Types /\ Locks /\ Owners /\ Files /\ Honest

LEMMA InstallInvariant == Spec /\ []Unraced => []IInv
<1>1. Init => IInv
  BY InitTypes, InitLocks, InitFiles, InitService DEF IInv, Honest
<1>2. IInv /\ Unraced /\ [Next]_vars => IInv'
  <2> SUFFICES ASSUME IInv, Unraced, [Next]_vars
               PROVE  IInv'
    OBVIOUS
  <2>1. Types /\ Locks /\ Owners /\ Files /\ Honest
    BY DEF IInv
  <2>2. Types' /\ Locks' /\ Owners'
    BY <2>1, TypesStep, LocksStep, OwnersStep
  <2>3. Files'
    BY <2>1, <2>2, FilesStep
  <2>4. ASSUME ~spoiled' PROVE Service'
    <3>1. Service
      BY <2>1, <2>4, SpoiledStays DEF Honest
    <3> QED
      BY <2>1, <2>2, <2>3, <2>4, <3>1, ServiceStep
  <2> QED
    BY <2>2, <2>3, <2>4 DEF IInv, Honest
<1> QED
  BY <1>1, <1>2, PTL DEF Spec

-----------------------------------------------------------------------------
(* Two processes of a role never run at once, unless a fault hit a gap:   *)
(* stop_old_process is done before start_process, and kill_candidate      *)
(* before the old release is started again.                               *)
THEOREM OneProcess == Spec /\ []Unraced => []OneInstance
<1>1. IInv => OneInstance
  <2> SUFFICES ASSUME IInv, ~spoiled
               PROVE  Cardinality(Living) <= 1
    BY DEF OneInstance, Living
  <2>1. Living \subseteq {Len(procs)}
    BY DEF IInv, Honest, Service
  <2>2. IsFiniteSet({Len(procs)}) /\ Cardinality({Len(procs)}) = 1
    BY FS_Singleton
  <2> QED
    BY <2>1, <2>2, FS_Subset
<1> QED
  BY <1>1, InstallInvariant, PTL

(* Neither link dangles, and no process runs from a release that          *)
(* prune_releases, the EXIT trap or a rollback has deleted, unless a      *)
(* fault hit a gap.                                                       *)
THEOREM NothingDangles == Spec /\ []Unraced => []Whole
<1>1. IInv => Whole
  <2> SUFFICES ASSUME IInv
               PROVE  Whole
    OBVIOUS
  <2>1. LinksWhole
    BY DEF IInv, Files
  <2>2. ASSUME ~spoiled, NEW p \in DOMAIN procs, Alive(p) PROVE procs[p].rel \in dirs \/ legacy
    BY <2>2 DEF IInv, Honest, Service, Housed, Living
  <2> QED
    BY <2>1, <2>2 DEF Whole
<1> QED
  BY <1>1, InstallInvariant, PTL

(* What an installer reports when it ends is so until another one stops   *)
(* the process: installed, restored with links and configuration of       *)
(* before, or lost and the failed release kept; one that ends before it   *)
(* stops anything leaves the process alone (main, rollback_to_previous,   *)
(* rollback_after_interrupt, cleanup_on_exit).                            *)
THEOREM PromisesKept == Spec /\ []Unraced => []ServiceKept
<1>1. IInv => ServiceKept
  <2> SUFFICES ASSUME IInv, \A i \in Installers : pc[i] \notin Changing, ~spoiled
               PROVE  IF last = None THEN \A p \in DOMAIN procs : procs[p].st # "stopped" ELSE Promise(last)
    BY DEF ServiceKept
  <2>1. Given /\ Types /\ Files
    BY DEF IInv, Honest, Service
  <2>2. CASE last = None
    BY <2>1, <2>2 DEF Given
  <2>3. CASE last # None
    <3>1. Ending(last) /\ last \in Installers
      BY <2>1, <2>3 DEF Given, Kept, Types
    <3>2. result[last] = "lost" => \A p \in DOMAIN procs : ~Alive(p)
      BY <3>1 DEF Ending, Living
    <3>3. x[last].before \in dirs => x[last].before # None
      BY <2>1, HostInstallAssumption DEF Types, Release
    <3> QED
      BY <2>3, <3>1, <3>2, <3>3 DEF Ending, Promise, Newest, OldConfig
  <2> QED
    BY <2>2, <2>3
<1> QED
  BY <1>1, InstallInvariant, PTL

(* All of it for two installers on one work directory, with no hypothesis *)
(* about the lock: what the run checks with two faults holds for any      *)
(* number of them, and any number of releases kept.                       *)
COROLLARY PairsHold ==
  ASSUME Cardinality(Installers) <= 2
  PROVE  Spec => [](TypeOK /\ OneInstance /\ Whole /\ ServiceKept)
  BY PairsNeverRace, TypesHold, OneProcess, NothingDangles, PromisesKept, PTL

=============================================================================

------------------------------- MODULE AwsLease --------------------------------
(***************************************************************************)
(* The process lease of the AWS role (plugins/action/aws_lock.py, and the  *)
(* acquire / block / always-release plays of roles/aws).                   *)
(*                                                                         *)
(* A controller is a long-lived ansible-playbook process.  Each task runs  *)
(* in a worker it forks, and the lease names the worker's parent, so it    *)
(* lasts from task to task.  A flock on a guard file serialises changes of *)
(* the lease file; whether a recorded holder is alive is read from /proc.  *)
(* A controller may die while its worker runs on.                          *)
(***************************************************************************)
EXTENDS Integers

CONSTANTS
  Controllers,  \* ansible-playbook invocations on one ephemeral directory
  Spaces,       \* PID namespaces
  SpaceOf,      \* where a controller runs
  Pids, InitPid,\* process ids of a namespace; the one that adopts orphans
  Starts,       \* process start times
  ForeignPids,  \* pids that unrelated programs get
  CrashPoints,  \* <<task, pc>> at which a controller may die
  WorkerPoints, \* pcs at which an orphaned worker may die
  MaxFaults,    \* bound: deaths of controllers, unrelated processes
  NoStart,      \* no process has the pid
  NoOne, Absent, Empty

Lease == [pid : Pids, start : Starts \cup {NoStart}, space : Spaces]
Tasks == {"held", "released"}
PCs == {"idle", "task", "flock", "write", "dump", "block"}
Control == [pc : PCs, task : Tasks, live : BOOLEAN, pid : Pids,
            start : Starts \cup {NoStart}, as : Pids, own : Lease \cup {Absent}]

ASSUME LeaseAssumption ==
  /\ SpaceOf \in [Controllers -> Spaces]
  /\ InitPid \in Pids /\ ForeignPids \subseteq Pids /\ Starts # {}
  /\ MaxFaults \in Nat
  /\ NoStart \notin Starts
  /\ NoOne \notin Controllers
  /\ Absent \notin Lease /\ Empty \notin Lease /\ Absent # Empty

\* A controller does not die between os.getppid() and the reading of its start
\* time: an orphaned worker would sign with its parent's pid, dead or recycled.
IdentityAssumption == \A t \in Tasks : <<t, "flock">> \notin CrashPoints

VARIABLES
  proc,   \* start time of the process that has a pid, per namespace
  file,   \* .aws-lock
  guard,  \* holder of the flock on .aws-lock-guard
  ctl,    \* each controller: its process, its running task, that task's worker
  faults

vars == <<proc, file, guard, ctl, faults>>

Identity(space, pid) == proc[space][pid]

\* The lease of the controller itself, and what its worker signs.
LeaseOf(c) == [pid |-> ctl[c].pid, start |-> ctl[c].start, space |-> SpaceOf[c]]
Mine(c) == [pid |-> ctl[c].as, start |-> Identity(SpaceOf[c], ctl[c].as), space |-> SpaceOf[c]]

\* Mutant: any process with the recorded pid counts.
ActiveByPid(l) == Identity(l.space, l.pid) # NoStart

Active(l) == Identity(l.space, l.pid) = l.start

\* Mutants: no namespace check; the holder matters to an acquire only.
RefusedInSpace(c) ==
  \/ file = Empty
  \/ /\ file \in Lease /\ file # Mine(c)
     /\ Identity(SpaceOf[c], file.pid) = file.start
RefusedHeld(c) ==
  \/ file = Empty
  \/ /\ file \in Lease /\ ctl[c].task = "held"
     /\ file.space # SpaceOf[c] \/ (file # Mine(c) /\ Active(file))

\* lease() raises: the file is not JSON, or belongs to another namespace, or to a
\* live controller.
Refused(c) ==
  \/ file = Empty
  \/ /\ file \in Lease
     /\ file.space # SpaceOf[c] \/ (file # Mine(c) /\ Active(file))

-------------------------------------------------------------------------------
NotRunning == [pc |-> "idle", task |-> "held", live |-> FALSE, pid |-> InitPid,
               start |-> NoStart, as |-> InitPid, own |-> Absent]

Init ==
  /\ proc = [s \in Spaces |-> [p \in Pids |->
               IF p = InitPid THEN CHOOSE t \in Starts : TRUE ELSE NoStart]]
  /\ file = Absent
  /\ guard = NoOne
  /\ ctl = [c \in Controllers |-> NotRunning]
  /\ faults = 0

At(c, pc) == ctl[c].pc = pc
Become(c, x) == ctl' = [ctl EXCEPT ![c] = x]
Fault == faults < MaxFaults /\ faults' = faults + 1

Exit(space, pid) == [proc EXCEPT ![space][pid] = NoStart]

\* The worker is done; what is left of its play ends too.
Ended(c) ==
  /\ Become(c, NotRunning)
  /\ proc' = IF ctl[c].live THEN Exit(SpaceOf[c], ctl[c].pid) ELSE proc

\* A start time is never seen twice with the same pid; one that nothing
\* remembers stands for a new one.
Fresh(space, pid, start) ==
  LET id == [pid |-> pid, start |-> start, space |-> space] IN
  file # id /\ \A d \in Controllers : ctl[d].own # id

\* ansible-playbook starts and comes to "Acquire the controller lease".
Run(c) ==
  /\ At(c, "idle")
  /\ \E p \in Pids, s \in Starts :
       /\ proc[SpaceOf[c]][p] = NoStart /\ Fresh(SpaceOf[c], p, s)
       /\ proc' = [proc EXCEPT ![SpaceOf[c]][p] = s]
       /\ Become(c, [NotRunning EXCEPT !.pc = "task", !.live = TRUE, !.pid = p, !.start = s])
  /\ UNCHANGED <<file, guard, faults>>

\* The worker asks for its parent: init, when the controller is dead.
GetParent(c) ==
  /\ At(c, "task")
  /\ Become(c, [ctl[c] EXCEPT !.pc = "flock", !.as = IF ctl[c].live THEN ctl[c].pid ELSE InitPid])
  /\ UNCHANGED <<proc, file, guard, faults>>

Refuse(c) ==
  /\ At(c, "flock") /\ guard = NoOne
  /\ Refused(c)
  /\ Ended(c)
  /\ UNCHANGED <<file, guard, faults>>

Acquire(c) ==
  /\ At(c, "flock") /\ guard = NoOne
  /\ ctl[c].task = "held" /\ ~Refused(c)
  /\ guard' = c
  /\ Become(c, [ctl[c] EXCEPT !.pc = "write", !.own = Mine(c)])
  /\ UNCHANGED <<proc, file, faults>>

\* os.open(..., O_TRUNC)
Truncate(c) ==
  /\ At(c, "write")
  /\ file' = Empty
  /\ Become(c, [ctl[c] EXCEPT !.pc = "dump"])
  /\ UNCHANGED <<proc, guard, faults>>

\* json.dump; the worker leaves the guard and the play enters its block.
Dump(c) ==
  /\ At(c, "dump")
  /\ file' = ctl[c].own
  /\ guard' = NoOne
  /\ IF ctl[c].live THEN Become(c, [ctl[c] EXCEPT !.pc = "block"]) /\ UNCHANGED proc
     ELSE Ended(c)
  /\ UNCHANGED faults

\* The block succeeds or fails; `always` releases.  An orphaned task just ends.
EndBlock(c) ==
  /\ At(c, "block")
  /\ IF ctl[c].live
     THEN Become(c, [ctl[c] EXCEPT !.pc = "task", !.task = "released"]) /\ UNCHANGED proc
     ELSE Ended(c)
  /\ UNCHANGED <<file, guard, faults>>

Release(c) ==
  /\ At(c, "flock") /\ guard = NoOne
  /\ ctl[c].task = "released" /\ ~Refused(c)
  /\ file' = Absent
  /\ Ended(c)
  /\ UNCHANGED <<guard, faults>>

-------------------------------------------------------------------------------
\* The controller dies; the worker of its task, if any, runs on.
Crash(c) ==
  /\ ctl[c].live /\ <<ctl[c].task, ctl[c].pc>> \in CrashPoints
  /\ Fault
  /\ Become(c, [ctl[c] EXCEPT !.live = FALSE])
  /\ proc' = Exit(SpaceOf[c], ctl[c].pid)
  /\ UNCHANGED <<file, guard>>

\* ... or dies with it, and the kernel drops its flock.
WorkerDies(c) ==
  /\ ~At(c, "idle") /\ ~ctl[c].live /\ ctl[c].pc \in WorkerPoints
  /\ Become(c, NotRunning)
  /\ guard' = IF guard = c THEN NoOne ELSE guard
  /\ UNCHANGED <<proc, file, faults>>

\* An unrelated program gets a free pid.
ForeignStart(space, p) ==
  /\ proc[space][p] = NoStart
  /\ Fault
  /\ \E s \in Starts : Fresh(space, p, s) /\ proc' = [proc EXCEPT ![space][p] = s]
  /\ UNCHANGED <<file, guard, ctl>>

\* "First verify that the old controller stopped, then remove only .aws-lock."
RemoveByHand ==
  /\ file \in Lease
  /\ \A c \in Controllers : SpaceOf[c] = file.space => At(c, "idle")
  /\ \E c \in Controllers : SpaceOf[c] # file.space
  /\ file' = Absent
  /\ UNCHANGED <<proc, guard, ctl, faults>>

Call(c) ==
  \/ GetParent(c) \/ Refuse(c) \/ Acquire(c) \/ Truncate(c) \/ Dump(c)
  \/ EndBlock(c) \/ Release(c)

Next ==
  \/ \E c \in Controllers : Run(c) \/ Call(c) \/ Crash(c) \/ WorkerDies(c)
  \/ \E s \in Spaces, p \in ForeignPids : ForeignStart(s, p)
  \/ RemoveByHand

Spec == Init /\ [][Next]_vars

\* Tasks end, flock() is granted to who keeps asking, and users run their plays
\* again and clear the leases of other namespaces as the README tells them.
Fairness ==
  /\ \A c \in Controllers : SF_vars(Call(c) \/ Run(c))
  /\ SF_vars(RemoveByHand)

FairSpec == Spec /\ Fairness

-------------------------------------------------------------------------------
\* Every variable stays in its range (aws_lock.py:13-45).
TypeOK ==
  /\ proc \in [Spaces -> [Pids -> Starts \cup {NoStart}]]
  /\ file \in Lease \cup {Absent, Empty}
  /\ guard \in Controllers \cup {NoOne}
  /\ ctl \in [Controllers -> Control]
  /\ faults \in 0..MaxFaults

\* From its acquire to its release a controller that is alive holds the lease.
Holding(c) ==
  ctl[c].live /\ (At(c, "block") \/ (ctl[c].task = "released" /\ ~At(c, "idle")))

\* "A local process lease prevents concurrent controllers from operating on the
\* same directory" (roles/aws/README.md:202-203; aws_lock.py:21-45).
MutualExclusion ==
  \A c, d \in Controllers : (Holding(c) /\ Holding(d)) => c = d

\* "Preserve a live controller's lifecycle lease": whatever dead controllers'
\* workers, recycled pids and other namespaces do, the file names the holder
\* until it releases it (aws_lock.py:22, 30-45).
LeasePreserved == \A c \in Controllers : Holding(c) => file = LeaseOf(c)

\* "A dead controller in the same Linux PID namespace is recoverable": plays that
\* are run again keep getting the lease, whoever died (roles/aws/README.md:203-205).
LeaseRecoverable == []<>(\E c \in Controllers : Holding(c))
===============================================================================

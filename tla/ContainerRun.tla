------------------------------ MODULE ContainerRun ------------------------------
(***************************************************************************)
(* The Podman and Docker roles (roles/{podman,docker}/tasks/{create,      *)
(* destroy}.yml) and playbooks/reset.yml: containers and their network     *)
(* are known by name only, no state is saved.  Creation and removal run    *)
(* in asynchronous jobs (async, poll: 0) that the play waits for, and that *)
(* outlive it when the wait fails or the play is killed.                   *)
(***************************************************************************)
EXTENDS Naturals, FiniteSets

CONSTANTS
  Hosts,       \* hosts of the scenario, one container each
  Overridden,  \* hosts whose labels replace owner=molecule (podman/README.md:116)
  MaxCreates,  \* bound: creates that a user asks for
  MaxFaults    \* bound: interruptions and jobs that fail

VARIABLES
  engine,     \* "podman" or "docker"
  container,  \* container[h]: "none", "running" or "exited"
  network,    \* does the network of the scenario exist?
  jobs,       \* jobs in flight, and those of the play that have ended
  play,       \* where the play is
  creates, faults

contVars == <<engine, container, network, jobs, play, creates, faults>>

\* mine says that the play waits for the job; jobs that plays have left behind for
\* one host, doing the same, count as one.
Job == [host : Hosts, for : {"create", "remove"}, mine : BOOLEAN,
        at : {"look", "make", "start", "remove", "ok", "failed"}]
Ended(j) == j.at \in {"ok", "failed"}
NoneInFlight(for) == \A j \in jobs : j.for = for => Ended(j)

PCs == {"idle", "network", "launch", "wait", "verify", "inventory", "removals",
        "removed", "unlink", "reset"}
\* done is the play that ended last, if it succeeded; clean says that no job against
\* it was in flight when it began.
Idle == [pc |-> "idle", todo |-> {}, done |-> "none", clean |-> FALSE]

Nothing ==
  /\ container = [h \in Hosts |-> "none"] /\ network = FALSE
  /\ jobs = {} /\ play = Idle
  /\ creates = 0

Init == engine \in {"podman", "docker"} /\ Nothing /\ faults = 0

-------------------------------------------------------------------------------
(* Helpers                                                                 *)

At(pc) == play.pc = pc
Go(pc, todo) == play' = [play EXCEPT !.pc = pc, !.todo = todo]
Did(h, pc) == IF play.todo = {h} THEN Go(pc, Hosts) ELSE Go(play.pc, play.todo \ {h})
Starts(pc, todo, against) ==
  /\ At("idle")
  /\ play' = [pc |-> pc, todo |-> todo, done |-> "none", clean |-> NoneInFlight(against)]
Fault == faults < MaxFaults /\ faults' = faults + 1
engineState == <<engine, container, network>>
bounds == <<creates, faults>>

\* The play ends: nobody waits for its jobs any more.
LeftBehind == {[j EXCEPT !.mine = FALSE] : j \in {k \in jobs : ~Ended(k)}}
Succeeds(done) == jobs' = LeftBehind /\ play' = [Idle EXCEPT !.done = done, !.clean = play.clean]
Fails == jobs' = LeftBehind /\ play' = Idle

\* A loop with poll: 0 starts the jobs, another one waits for each of them.
Launched(for, pc) ==
  \E h \in play.todo :
    /\ jobs' = jobs \cup {[host |-> h, for |-> for, mine |-> TRUE, at |-> "look"]}
    /\ Did(h, pc)
    /\ UNCHANGED <<engineState, bounds>>
AnsweredAny(j) == Ended(j)
Answered(j) == j.at = "ok"
Waited(for, pc) ==
  \E j \in jobs :
    /\ j.mine /\ j.for = for /\ Answered(j) /\ j.host \in play.todo
    /\ Did(j.host, pc)
    /\ UNCHANGED <<engineState, jobs, bounds>>
WaitFails ==
  /\ \E j \in jobs : j.mine /\ j.at = "failed" /\ j.host \in play.todo
  /\ Fails /\ UNCHANGED <<engineState, bounds>>

-------------------------------------------------------------------------------
(* create.yml                                                              *)

Create ==
  /\ Starts("network", {}, "remove")
  /\ creates < MaxCreates /\ creates' = creates + 1
  /\ UNCHANGED <<engineState, jobs, faults>>

CreateNetwork ==
  /\ At("network") /\ network' = TRUE /\ Go("launch", Hosts)
  /\ UNCHANGED <<engine, container, jobs, bounds>>

LaunchCreation == At("launch") /\ Launched("create", "wait")

AfterWait == IF engine = "podman" THEN "verify" ELSE "inventory"
WaitCreation == At("wait") /\ (Waited("create", AfterWait) \/ WaitFails)

\* podman/_check_running.yml, after a pause.
Verify ==
  \E h \in play.todo :
    /\ At("verify") /\ container[h] = "running" /\ Did(h, "inventory")
    /\ UNCHANGED <<engineState, jobs, bounds>>
VerifyFails ==
  /\ At("verify") /\ \E h \in play.todo : container[h] # "running"
  /\ Fails /\ UNCHANGED <<engineState, bounds>>

WriteInventory == At("inventory") /\ Succeeds("create") /\ UNCHANGED <<engineState, bounds>>

-------------------------------------------------------------------------------
(* destroy.yml                                                             *)

Destroy == Starts("removals", Hosts, "create") /\ UNCHANGED <<engineState, jobs, bounds>>

AfterLaunchUnlink == "unlink"
AfterLaunch == "removed"
LaunchRemoval == At("removals") /\ Launched("remove", AfterLaunch)
WaitRemoval == At("removed") /\ (Waited("remove", "unlink") \/ WaitFails)

\* Podman refuses to remove a network in use and the play fails; Docker disconnects
\* what uses it, and its failures are ignored.
InUse == \E h \in Hosts : container[h] # "none"
DeleteNetwork ==
  /\ At("unlink") /\ (engine = "podman" => ~InUse)
  /\ network' = FALSE /\ Succeeds("destroy") /\ UNCHANGED <<engine, container, bounds>>
NetworkBusy ==
  /\ At("unlink") /\ engine = "podman" /\ network /\ InUse
  /\ Fails /\ UNCHANGED <<engineState, bounds>>
NetworkIgnored ==
  /\ At("unlink") /\ engine = "docker" /\ network /\ Fault
  /\ Succeeds("destroy") /\ UNCHANGED <<engineState, creates>>

-------------------------------------------------------------------------------
(* playbooks/reset.yml, for Podman                                         *)

Labelled == {h \in Hosts : container[h] # "none" /\ h \notin Overridden}
Reset ==
  /\ engine = "podman" /\ Starts("reset", Labelled, "create")
  /\ UNCHANGED <<engineState, jobs, bounds>>
ResetRemove ==
  \E h \in play.todo :
    /\ At("reset") /\ container' = [container EXCEPT ![h] = "none"]
    /\ Go("reset", play.todo \ {h})
    /\ UNCHANGED <<engine, network, jobs, bounds>>
ResetDone ==
  At("reset") /\ play.todo = {} /\ Succeeds("reset") /\ UNCHANGED <<engineState, bounds>>

-------------------------------------------------------------------------------
(* Jobs (external), containers, failures                                   *)

\* A job goes on; one that nobody waits for leaves no result.
Becomes(j, at) ==
  LET k == [j EXCEPT !.at = at]
  IN jobs' = (jobs \ {j}) \cup (IF Ended(k) /\ ~j.mine THEN {} ELSE {k})
Goes(j, at) == Becomes(j, at) /\ UNCHANGED <<engineState, play, bounds>>
Leaves(j, state) ==
  /\ container' = [container EXCEPT ![j.host] = state] /\ Becomes(j, "ok")
  /\ UNCHANGED <<engine, network, play, bounds>>

\* state: started, recreate: false.  The image is pulled between the look and the making.
Look(j) ==
  /\ j.at = "look" /\ j.for = "create"
  /\ Goes(j, CASE container[j.host] = "none" -> "make"
               [] container[j.host] = "running" -> "ok"
               [] container[j.host] = "exited" -> "start")
Made(j) == j.at = "make" /\ container[j.host] = "none" /\ network /\ Leaves(j, "running")
NotMade(j) == j.at = "make" /\ (container[j.host] # "none" \/ ~network) /\ Goes(j, "failed")
Started(j) == j.at = "start" /\ container[j.host] # "none" /\ Leaves(j, "running")
NotStarted(j) == j.at = "start" /\ container[j.host] = "none" /\ Goes(j, "failed")

\* state: absent, whatever the container does.
RemovableRunning(h) == container[h] = "running"
Removable(h) == container[h] # "none"
Seek(j) ==
  /\ j.at = "look" /\ j.for = "remove"
  /\ Goes(j, IF Removable(j.host) THEN "remove" ELSE "ok")
Removed(j) == j.at = "remove" /\ Leaves(j, "none")

\* The registry, the engine or the limit of async ends a job early.
JobFails(j) ==
  /\ ~Ended(j) /\ Becomes(j, "failed") /\ Fault
  /\ UNCHANGED <<engineState, play, creates>>
Exits(h) ==
  /\ container[h] = "running" /\ container' = [container EXCEPT ![h] = "exited"]
  /\ UNCHANGED <<engine, network, jobs, play, bounds>>
\* A task fails, the retries of a wait run out, the play is killed.
Interrupted == ~At("idle") /\ Fails /\ Fault /\ UNCHANGED <<engineState, creates>>

Tasks == \/ CreateNetwork \/ LaunchCreation \/ WaitCreation \/ Verify \/ VerifyFails
         \/ WriteInventory \/ LaunchRemoval \/ WaitRemoval \/ DeleteNetwork
         \/ NetworkBusy \/ NetworkIgnored \/ ResetRemove \/ ResetDone
Works(j) == \/ Look(j) \/ Made(j) \/ NotMade(j) \/ Started(j) \/ NotStarted(j)
            \/ Seek(j) \/ Removed(j)
Jobs == \E j \in jobs : Works(j)

Next == \/ Create \/ Destroy \/ Reset \/ Tasks \/ Jobs \/ Interrupted
        \/ \E j \in jobs : JobFails(j)
        \/ \E h \in Hosts : Exits(h)

Spec == Init /\ [][Next]_contVars

\* Plays and jobs go on, and a user repeats destroy.
Fairness == WF_contVars(Tasks) /\ WF_contVars(Jobs) /\ SF_contVars(Destroy)

FairSpec == Spec /\ Fairness

-------------------------------------------------------------------------------
(* Properties                                                              *)

\* Types.
ContainerTypeOK ==
  /\ engine \in {"podman", "docker"} /\ network \in BOOLEAN
  /\ container \in [Hosts -> {"none", "running", "exited"}]
  /\ jobs \subseteq Job
  /\ play \in [pc : PCs, todo : SUBSET Hosts, done : {"none", "create", "destroy", "reset"},
               clean : BOOLEAN]
  /\ creates \in 0..MaxCreates /\ faults \in 0..MaxFaults

\* A create that succeeds leaves every container and their network there, unless a
\* removal was in flight when it began (create.yml).
CreateComplete ==
  play.done = "create" /\ play.clean => network /\ \A h \in Hosts : container[h] # "none"

\* A destroy that succeeds leaves no container and, with Podman, no network, and a
\* reset no labelled container, unless a creation was in flight (destroy.yml, reset.yml).
CleanupComplete ==
  /\ play.done = "destroy" /\ play.clean => ~InUse /\ (engine = "podman" => ~network)
  /\ play.done = "reset" /\ play.clean => Labelled = {}

\* What interrupted plays and their jobs in flight leave is gone for good once destroy
\* has been repeated often enough (podman/tasks/create.yml:25-27).
DestroyConverges == <>[](~InUse /\ ~network)
================================================================================

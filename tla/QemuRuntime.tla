------------------------------ MODULE QemuRuntime ------------------------------
(***************************************************************************)
(* Ownership of QEMU guests and controller ports                           *)
(* (plugins/module_utils/qemu_runtime.py, plugins/modules/qemu_process.py  *)
(* and the create and destroy plays of roles/qemu).                        *)
(*                                                                         *)
(* Several controllers run plays over ephemeral directories ("runs").  A   *)
(* play makes module calls; each call holds one shared flock while it      *)
(* reads the run's manifest and the shared reservations, works on its      *)
(* in-memory copies, and saves them with two atomic file replacements, the *)
(* manifest first.  QEMU processes, unrelated processes and crashes of the *)
(* controllers interleave with every step of a call.                       *)
(***************************************************************************)
EXTENDS Integers, FiniteSets

CONSTANTS
  Runs,              \* ephemeral directories, each holding one manifest path
  Hosts,             \* guests of a run
  Endpoints,         \* endpoints of a guest: SSH and application ports
  Controllers,       \* Ansible controllers (one play at a time each)
  RunOf,             \* the run a controller works on
  Protocols, Addresses, Wildcard, Ports,
  AutoPort,          \* the request for an automatic port
  Request,           \* what each endpoint asks for
  Pids,              \* process ids of the controller's host, reused
  ForeignKeys,       \* endpoints an unrelated program may bind
  CrashPoints,       \* program counters at which a controller may die
  CrashBeforePidfile,\* may it die before its QEMU child has written the pidfile?
  MaxGen,            \* bound: fresh run_uuids per run
  MaxStarts,         \* bound: processes started
  MaxFaults,         \* bound: crashes, kills, timeouts, foreign activity
  NoManifest, NoOne, NoProc, Foreign

Key == [proto : Protocols, addr : Addresses, port : Ports]
Owner == [run : Runs, gen : 1..MaxGen]
VM == [run : Runs, gen : 1..MaxGen, host : Hosts]
Statuses == {"reserved", "launching", "running", "stopped", "removed"}
Record == [status : Statuses, pid : Pids \cup {NoOne}, start : 0..MaxStarts,
           keys : [Endpoints -> Key]]
Manifest == [gen : 1..MaxGen, destroying : BOOLEAN, rec : [Hosts -> Record]]
Reservations == [Key -> Owner \cup {NoOne}]
Process == [vm : VM \cup {Foreign}, start : 1..MaxStarts,
            stage : {"starting", "booting", "ready", "terminating", "killed"},
            keys : SUBSET Key]

PlayPCs == {"idle", "reserve_call", "media", "status_call", "launch_call",
            "destroy_call"}
CallPCs == {"reserve", "launch", "l_owned", "l_unlink", "l_mark", "l_spawn",
            "l_wait", "l_rc0", "l_in_use", "l_failed", "l_verify",
            "destroy", "d_next", "d_recover", "d_check", "d_pidfd", "d_reown",
            "d_term", "d_wait", "d_kill_wait", "d_files", "d_disk", "d_unlink",
            "d_release"}
SavePCs == {"save", "publish"}
\* Where control goes when a save is complete; "media" ends the call of reserve.
AfterSave == CallPCs \cup {"media"}
LockedPCs == CallPCs \cup SavePCs

Control == [pc : PlayPCs \cup LockedPCs, then : AfterSave,
            play : {"create", "destroy"}, host : Hosts, todo : SUBSET Hosts,
            failed : BOOLEAN, tries : 0..2, child : 0..MaxStarts,
            argv : SUBSET Key]

ASSUME SetsAssumption ==
  /\ IsFiniteSet(Hosts) /\ Hosts # {}
  /\ RunOf \in [Controllers -> Runs]
  /\ Wildcard \in Addresses /\ ForeignKeys \subseteq Key
  /\ MaxGen \in Nat /\ MaxStarts \in Nat /\ MaxFaults \in Nat
  /\ CrashBeforePidfile \in BOOLEAN

ASSUME SentinelAssumption ==
  /\ NoManifest \notin Manifest
  /\ NoOne \notin Controllers /\ NoOne \notin Owner /\ NoOne \notin Pids
  /\ NoProc \notin Process
  /\ Foreign \notin VM /\ NoOne \notin VM

ASSUME RequestAssumption ==
  Request \in [Runs -> [Hosts -> [Endpoints ->
     [proto : Protocols, addr : Addresses, port : Ports \cup {AutoPort}]]]]

VARIABLES
  manifest,     \* qemu-state.json of each run
  reservations, \* qemu-reservations.json of the shared cache directory
  lock,         \* holder of qemu-runtime.lock
  mem, res,     \* Runtime.state and Runtime.reservations of each controller
  ctl,          \* where each controller's play is
  pidfile, sock, disk, \* files of each guest in the run's directory
  procs,        \* process table of the controller's host
  clock,        \* processes started so far: the start time of /proc/<pid>/stat
  foreign,      \* endpoints unrelated programs have bound
  gens,         \* run_uuids drawn so far
  faults

store == <<manifest, reservations>>
copies == <<mem, res>>
files == <<pidfile, sock, disk>>
os == <<procs, clock, foreign>>
vars == <<store, lock, copies, ctl, files, os, gens, faults>>

-------------------------------------------------------------------------------
(* Ports                                                                   *)

\* Would the key k, already allocated, stand in the way of the new key?
Conflicts(new, k) ==
  /\ new.proto = k.proto
  /\ new.port = k.port
  /\ new.addr = Wildcard \/ k.addr \in {new.addr, Wildcard}

BoundKeys == foreign \cup
  UNION {procs[p].keys : p \in {q \in Pids : /\ procs[q] # NoProc
                                             /\ procs[q].stage \notin {"starting", "booting"}}}

\* The bind probe: the kernel refuses an address in use.
Bindable(k) == \A b \in BoundKeys : ~Conflicts(k, b)

\* Mutant: an explicit port that cannot be had is replaced.
MatchesAnyPort(k, want) == k.proto = want.proto /\ k.addr = want.addr

Matches(k, want) ==
  /\ k.proto = want.proto /\ k.addr = want.addr
  /\ want.port # AutoPort => k.port = want.port

\* Mutant: only the very same key stands in the way.
AllocatableSameKey(k, table) == Bindable(k) /\ table[k] = NoOne

\* allocate() accepts k while `table` holds the reservations.
Allocatable(k, table) ==
  /\ Bindable(k)
  /\ \A b \in Key : table[b] # NoOne => ~Conflicts(k, b)

PairwiseFree(chosen) ==
  \A i, j \in DOMAIN chosen : i # j => ~Conflicts(chosen[i], chosen[j])

\* Allocating one key after the other, each reserved before the next.
Allocations(r, slots, table) ==
  {chosen \in [slots -> Key] :
     /\ \A s \in slots : /\ Matches(chosen[s], Request[r][s[1]][s[2]])
                         /\ Allocatable(chosen[s], table)
     /\ PairwiseFree(chosen)}

\* Mutant: a removed guest keeps its reservations until the manifest goes.
ActiveKeysOfAll(m) ==
  IF m = NoManifest THEN {} ELSE {m.rec[h].keys[e] : h \in Hosts, e \in Endpoints}

ActiveKeys(m) ==
  IF m = NoManifest THEN {}
  ELSE UNION {{m.rec[h].keys[e] : e \in Endpoints} :
                h \in {g \in Hosts : m.rec[g].status # "removed"}}

\* release_unused(): drop this run's reservations that nothing active uses.
Released(table, owner, m) ==
  [k \in Key |-> IF table[k] = owner /\ k \notin ActiveKeys(m) THEN NoOne ELSE table[k]]

-------------------------------------------------------------------------------
(* Process identity                                                        *)

Guest(r, m, h) == [run |-> r, gen |-> m.gen, host |-> h]

\* The VM whose UUID answers on the guest's QMP socket path, if any does.
QmpUuid(r, h) ==
  LET live == {p \in Pids : /\ procs[p] # NoProc
                            /\ procs[p].start = sock[r][h]
                            /\ procs[p].stage \in {"ready", "terminating"}}
  IN IF live = {} THEN NoOne ELSE procs[CHOOSE p \in live : TRUE].vm

\* owned(): PID and start time of the process, then the UUID over QMP.
Owned(r, m, h) ==
  LET rec == m.rec[h] IN
  IF rec.pid = NoOne \/ (rec.pid \in Pids /\ procs[rec.pid] = NoProc) THEN "no"
  ELSE IF procs[rec.pid].start = rec.start /\ QmpUuid(r, h) = Guest(r, m, h) THEN "yes"
  ELSE "error"

\* Mutants: no recovery; none of the QMP identity; none of a dead process.
RecoveryNever(r, m, h) == "unchanged"
RecoveryByPid(r, m, h) ==
  IF m.rec[h].status # "launching" \/ pidfile[r][h] = NoOne THEN "unchanged"
  ELSE IF procs[pidfile[r][h]] = NoProc THEN "stopped"
  ELSE IF procs[pidfile[r][h]].vm # Foreign THEN "running" ELSE "error"
RecoveryOfLive(r, m, h) ==
  IF m.rec[h].status # "launching" \/ pidfile[r][h] = NoOne THEN "unchanged"
  ELSE IF procs[pidfile[r][h]] = NoProc THEN "unchanged"
  ELSE IF QmpUuid(r, h) = Guest(r, m, h) THEN "running" ELSE "error"

\* recover_launch(): what an interrupted launch left behind.
Recovery(r, m, h) ==
  IF m.rec[h].status # "launching" \/ pidfile[r][h] = NoOne THEN "unchanged"
  ELSE IF procs[pidfile[r][h]] = NoProc THEN "stopped"
  ELSE IF procs[pidfile[r][h]].vm # Foreign /\ QmpUuid(r, h) = Guest(r, m, h) THEN "running"
  ELSE "error"

Recovered(r, m, h) ==
  CASE Recovery(r, m, h) = "stopped" ->
         [m EXCEPT !.rec[h].status = "stopped", !.rec[h].pid = NoOne, !.rec[h].start = 0]
    [] Recovery(r, m, h) = "running" ->
         [m EXCEPT !.rec[h].status = "running", !.rec[h].pid = pidfile[r][h],
                   !.rec[h].start = procs[pidfile[r][h]].start]
    [] OTHER -> m

-------------------------------------------------------------------------------
\* What a controller that runs no play remembers.
IdleControl ==
  [pc |-> "idle", then |-> "media", play |-> "create",
   host |-> CHOOSE h \in Hosts : TRUE, todo |-> {}, failed |-> FALSE,
   tries |-> 0, child |-> 0, argv |-> {}]

Init ==
  /\ manifest = [r \in Runs |-> NoManifest]
  /\ reservations = [k \in Key |-> NoOne]
  /\ lock = NoOne
  /\ mem = [c \in Controllers |-> NoManifest]
  /\ res = [c \in Controllers |-> [k \in Key |-> NoOne]]
  /\ ctl = [c \in Controllers |-> IdleControl]
  /\ pidfile = [r \in Runs |-> [h \in Hosts |-> NoOne]]
  /\ sock = [r \in Runs |-> [h \in Hosts |-> 0]]
  /\ disk = [r \in Runs |-> [h \in Hosts |-> FALSE]]
  /\ procs = [p \in Pids |-> NoProc]
  /\ clock = 0
  /\ foreign = {}
  /\ gens = [r \in Runs |-> 0]
  /\ faults = 0

-------------------------------------------------------------------------------
(* Steps shared by the calls                                               *)

At(c, pc) == ctl[c].pc = pc

Become(c, x) == ctl' = [ctl EXCEPT ![c] = x]

Goto(c, pc) == Become(c, [ctl[c] EXCEPT !.pc = pc])

\* A step that only moves the controller on.
Local(c, x) == Become(c, x) /\ UNCHANGED <<store, lock, copies, files, os, gens, faults>>
Move(c, pc) == Local(c, [ctl[c] EXCEPT !.pc = pc])

\* What the surroundings do to the plays is bounded by MaxFaults.
Fault == faults < MaxFaults /\ faults' = faults + 1

\* Leaving locked(): the Runtime object and its copies are gone.
Unlock(c) ==
  /\ lock' = NoOne
  /\ mem' = [mem EXCEPT ![c] = NoManifest]
  /\ res' = [res EXCEPT ![c] = [k \in Key |-> NoOne]]

\* The call returns and the play goes on at pc.
Return(c, x) == Unlock(c) /\ Become(c, x) /\ UNCHANGED <<store, files, os, gens>>

\* fail_json: the call ends, what was not saved is lost, the play stops.
Fail(c) == Return(c, IdleControl) /\ UNCHANGED faults

\* self.save() with the copies m and t, continuing at ctl[c].then of x.
BeginSave(c, x, m, t) ==
  /\ mem' = [mem EXCEPT ![c] = m]
  /\ res' = [res EXCEPT ![c] = t]
  /\ Become(c, [x EXCEPT !.pc = "save"])
  /\ UNCHANGED <<store, lock, pidfile, disk, os, faults>>

SaveManifest(c) ==
  /\ At(c, "save")
  /\ manifest' = [manifest EXCEPT ![RunOf[c]] = mem[c]]
  /\ Goto(c, "publish")
  /\ UNCHANGED <<reservations, lock, copies, files, os, gens, faults>>

SaveReservations(c) ==
  /\ At(c, "publish")
  /\ reservations' = res[c]
  /\ Become(c, [ctl[c] EXCEPT !.pc = ctl[c].then])
  /\ IF ctl[c].then = "media" THEN Unlock(c) ELSE UNCHANGED <<lock, copies>>
  /\ UNCHANGED <<manifest, files, os, gens, faults>>

-------------------------------------------------------------------------------
(* Plays                                                                   *)

Start(c, play) ==
  /\ At(c, "idle")
  /\ Local(c, [IdleControl EXCEPT
       !.pc = IF play = "create" THEN "reserve_call" ELSE "destroy_call",
       !.play = play, !.todo = Hosts])

\* with runtime.locked(): both files are read once the lock is held.
Enter(c) ==
  /\ lock = NoOne
  /\ ctl[c].pc \in {"reserve_call", "launch_call", "destroy_call"}
  /\ lock' = c
  /\ mem' = [mem EXCEPT ![c] = manifest[RunOf[c]]]
  /\ res' = [res EXCEPT ![c] = reservations]
  /\ Goto(c, CASE At(c, "reserve_call") -> "reserve"
               [] At(c, "launch_call") -> "launch"
               [] At(c, "destroy_call") -> "destroy")
  /\ UNCHANGED <<store, files, os, gens, faults>>

\* qemu-img create, with `creates`: an overlay is made once.
Media(c) ==
  /\ At(c, "media")
  /\ \E h \in ctl[c].todo :
       /\ disk' = [disk EXCEPT ![RunOf[c]][h] = TRUE]
       /\ LET left == ctl[c].todo \ {h} IN
          Become(c, IF left # {} THEN [ctl[c] EXCEPT !.todo = left]
                    ELSE [ctl[c] EXCEPT !.todo = Hosts, !.pc = "status_call"])
  /\ UNCHANGED <<store, lock, copies, pidfile, sock, os, gens, faults>>

\* The status call reads the allocations the next launch puts in its argv.
Status(c) ==
  /\ At(c, "status_call")
  /\ lock = NoOne
  /\ LET m == manifest[RunOf[c]] IN
     IF m = NoManifest THEN Local(c, IdleControl)
     ELSE \E h \in ctl[c].todo :
            Local(c, [ctl[c] EXCEPT !.pc = "launch_call", !.host = h, !.tries = 0,
                        !.child = 0, !.argv = {m.rec[h].keys[e] : e \in Endpoints}])

-------------------------------------------------------------------------------
(* reserve                                                                 *)

Slots(hosts) == hosts \X Endpoints

FreshRecord(r, chosen, h) ==
  [status |-> "reserved", pid |-> NoOne, start |-> 0,
   keys |-> [e \in Endpoints |-> chosen[<<h, e>>]]]

\* Mutants: a run being destroyed is created again; allocations are renewed.
ReserveAnyExisting(c) ==
  /\ At(c, "reserve") /\ mem[c] # NoManifest
  /\ Return(c, [ctl[c] EXCEPT !.pc = "media"]) /\ UNCHANGED faults
ReserveAgain(c) ==
  /\ At(c, "reserve") /\ mem[c] # NoManifest /\ ~mem[c].destroying
  /\ \E chosen \in Allocations(RunOf[c], Slots(Hosts), [k \in Key |-> NoOne]) :
       BeginSave(c, [ctl[c] EXCEPT !.then = "media"],
         [mem[c] EXCEPT !.rec = [h \in Hosts |->
            [@[h] EXCEPT !.keys = [e \in Endpoints |-> chosen[<<h, e>>]]]]], res[c])
  /\ UNCHANGED <<sock, gens>>

\* An existing run keeps its allocations; only its diagnostics may have changed.
ReserveExisting(c) ==
  /\ At(c, "reserve")
  /\ mem[c] # NoManifest /\ ~mem[c].destroying
  /\ \/ Return(c, [ctl[c] EXCEPT !.pc = "media"]) /\ UNCHANGED faults
     \/ /\ BeginSave(c, [ctl[c] EXCEPT !.then = "media"], mem[c], res[c])
        /\ UNCHANGED <<sock, gens>>

\* Pidfiles without a manifest belong to guests this code did not start.
LegacyGuests(r) == \E h \in Hosts : pidfile[r][h] # NoOne

ReserveFresh(c) ==
  LET r == RunOf[c] IN
  /\ At(c, "reserve")
  /\ mem[c] = NoManifest
  /\ ~LegacyGuests(r)
  /\ gens[r] < MaxGen
  /\ gens' = [gens EXCEPT ![r] = @ + 1]
  /\ \E chosen \in Allocations(r, Slots(Hosts), res[c]) :
       BeginSave(c, [ctl[c] EXCEPT !.then = "media"],
         [gen |-> gens[r] + 1, destroying |-> FALSE,
          rec |-> [h \in Hosts |-> FreshRecord(r, chosen, h)]],
         [k \in Key |-> IF k \in {chosen[s] : s \in Slots(Hosts)}
                        THEN [run |-> r, gen |-> gens[r] + 1] ELSE res[c][k]])
  /\ UNCHANGED sock

\* A run being destroyed, or whose port policy, guests or boot configuration have
\* changed, is refused.
ReserveConflict(c) == At(c, "reserve") /\ mem[c] # NoManifest /\ Fail(c)

\* Legacy guests, an endpoint that cannot be had, or the bound on run_uuids.
ReserveRefused(c) ==
  /\ At(c, "reserve")
  /\ mem[c] = NoManifest
  /\ \/ LegacyGuests(RunOf[c])
     \/ gens[RunOf[c]] = MaxGen
     \/ Allocations(RunOf[c], Slots(Hosts), res[c]) = {}
  /\ Fail(c)

-------------------------------------------------------------------------------
(* launch                                                                  *)

Rec(c) == mem[c].rec[ctl[c].host]
SetStatus(c, status) == [mem[c] EXCEPT !.rec[ctl[c].host].status = status]
Own(c) == [run |-> RunOf[c], gen |-> mem[c].gen]
OwnedBy(c) == Owned(RunOf[c], mem[c], ctl[c].host)
RecoveryBy(c) == Recovery(RunOf[c], mem[c], ctl[c].host)

\* recover_launch() at pc `from`, saving what it found, then going on at `to`.
RecoverAt(c, from, to) ==
  /\ At(c, from)
  /\ \/ RecoveryBy(c) = "unchanged" /\ Move(c, to)
     \/ /\ RecoveryBy(c) \in {"stopped", "running"}
        /\ BeginSave(c, [ctl[c] EXCEPT !.then = to],
                     Recovered(RunOf[c], mem[c], ctl[c].host), res[c])
        /\ UNCHANGED <<sock, gens>>

\* The play's next host, or its end when every guest is up.
Launched(c) ==
  LET left == ctl[c].todo \ {ctl[c].host} IN
  /\ Return(c, IF left = {} THEN IdleControl
               ELSE [ctl[c] EXCEPT !.pc = "status_call", !.todo = left])
  /\ UNCHANGED faults

Launch(c) ==
  /\ mem[c] # NoManifest
  /\ RecoverAt(c, "launch", "l_owned")

\* No allocated host, or an interrupted launch whose owner cannot be told.
LaunchRefused(c) ==
  /\ At(c, "launch")
  /\ mem[c] # NoManifest => RecoveryBy(c) = "error"
  /\ Fail(c)

LaunchOwned(c) ==
  /\ At(c, "l_owned")
  /\ CASE OwnedBy(c) = "yes" -> Launched(c)
       [] OwnedBy(c) = "error" -> Fail(c)
       [] OwnedBy(c) = "no" -> Move(c, "l_unlink")

UnlinkPidfile(c) ==
  /\ At(c, "l_unlink")
  /\ pidfile' = [pidfile EXCEPT ![RunOf[c]][ctl[c].host] = NoOne]
  /\ Goto(c, "l_mark")
  /\ UNCHANGED <<store, lock, copies, sock, disk, os, gens, faults>>

\* The old socket goes, and the intent to launch is saved before the launch.
MarkLaunching(c) ==
  /\ At(c, "l_mark")
  /\ sock' = [sock EXCEPT ![RunOf[c]][ctl[c].host] = 0]
  /\ BeginSave(c, [ctl[c] EXCEPT !.then = "l_spawn"], SetStatus(c, "launching"), res[c])
  /\ UNCHANGED gens

\* subprocess.run(argv): the controller waits for the QEMU it forked.
Spawn(c) ==
  /\ At(c, "l_spawn")
  /\ clock < MaxStarts
  /\ \E p \in Pids :
       /\ procs[p] = NoProc
       /\ procs' = [procs EXCEPT ![p] =
            [vm |-> Guest(RunOf[c], mem[c], ctl[c].host), start |-> clock + 1,
             stage |-> "starting", keys |-> ctl[c].argv]]
  /\ clock' = clock + 1
  /\ Become(c, [ctl[c] EXCEPT !.pc = "l_wait", !.child = clock + 1])
  /\ UNCHANGED <<store, lock, copies, files, foreign, gens, faults>>

\* No process can be started: an OSError, the record stays "launching".
SpawnRefused(c) ==
  /\ At(c, "l_spawn")
  /\ clock = MaxStarts \/ \A p \in Pids : procs[p] # NoProc
  /\ Fail(c)

\* Exit code 0: chmod of the QMP socket, then the identity is recorded.
Daemonized(c) ==
  /\ sock[RunOf[c]][ctl[c].host] # 0
  /\ RecoverAt(c, "l_rc0", "l_verify")

\* The socket is gone, or the recorded identity cannot be verified.
DaemonizedUnverified(c) ==
  /\ At(c, "l_rc0")
  /\ sock[RunOf[c]][ctl[c].host] = 0 \/ RecoveryBy(c) = "error"
  /\ Fail(c)

LaunchVerify(c) ==
  /\ At(c, "l_verify")
  /\ IF OwnedBy(c) = "yes" THEN Launched(c) ELSE Fail(c)

AutoSlots(c) ==
  {s \in Slots({ctl[c].host}) : Request[RunOf[c]][s[1]][s[2]].port = AutoPort}

ExplicitBindable(c) ==
  \A s \in Slots({ctl[c].host}) \ AutoSlots(c) : Bindable(Rec(c).keys[s[2]])

\* Mutant: one attempt too many.
MayRetryOnce(c) == ctl[c].tries < 3

MayRetry(c) == ctl[c].tries < 2

\* Every replaced endpoint is replaced in the argv as well.
RetriedArgv(argv, Old, New) ==
  {k \in argv : \A e \in Endpoints : k = Old[e] => New[e] = k}
    \cup {New[e] : e \in {x \in Endpoints : Old[x] \in argv}}

\* retry_ports(): after a lost bind race every automatic endpoint of the guest
\* is allocated again, the old ones being released only once the new are held.
RetryPorts(c) ==
  /\ At(c, "l_in_use")
  /\ MayRetry(c)
  /\ AutoSlots(c) # {} /\ ExplicitBindable(c)
  /\ \E chosen \in Allocations(RunOf[c], AutoSlots(c), res[c]) :
       LET h == ctl[c].host
           Old == Rec(c).keys
           New == [e \in Endpoints |-> IF <<h, e>> \in AutoSlots(c)
                                       THEN chosen[<<h, e>>] ELSE Old[e]]
           m == [mem[c] EXCEPT !.rec[h].keys = New]
           taken == {chosen[s] : s \in AutoSlots(c)}
       IN BeginSave(c,
            [ctl[c] EXCEPT !.then = "l_spawn", !.tries = @ + 1,
               !.argv = RetriedArgv(@, Old, New)],
            m,
            Released([k \in Key |-> IF k \in taken THEN Own(c) ELSE res[c][k]], Own(c), m))
  /\ UNCHANGED <<sock, gens>>

\* The third bind race, nothing to replace, or a replacement not to be had.
RetryRefused(c) ==
  /\ At(c, "l_in_use")
  /\ \/ ~MayRetry(c)
     \/ AutoSlots(c) = {} \/ ~ExplicitBindable(c)
     \/ Allocations(RunOf[c], AutoSlots(c), res[c]) = {}
  /\ Fail(c)

\* Any other failure of QEMU: the record stays "launching".
LaunchFailed(c) == At(c, "l_failed") /\ Fail(c)

\* The log is only ever appended to, and destroy keeps it by default: the bind error
\* of an earlier attempt, launch or run is taken for one of this failure.
OldBindError(c) == At(c, "l_failed") /\ Move(c, "l_in_use")

-------------------------------------------------------------------------------
(* destroy                                                                 *)

\* A run without a manifest has nothing this code may remove.
DestroyNothing(c) == At(c, "destroy") /\ mem[c] = NoManifest /\ Fail(c)

DestroyBegin(c) ==
  /\ At(c, "destroy")
  /\ mem[c] # NoManifest
  /\ BeginSave(c, [ctl[c] EXCEPT !.then = "d_next", !.todo = Hosts, !.failed = FALSE],
               [mem[c] EXCEPT !.destroying = TRUE], res[c])
  /\ UNCHANGED <<sock, gens>>

DestroyNext(c) ==
  /\ At(c, "d_next")
  /\ \E h \in ctl[c].todo : Local(c, [ctl[c] EXCEPT !.pc = "d_recover", !.host = h])

\* "Cleanup incomplete; state retained for retry."
DestroyIncomplete(c) ==
  /\ At(c, "d_next") /\ ctl[c].todo = {} /\ ctl[c].failed
  /\ Fail(c)

\* The exception of one guest is collected; the next guest is taken up.
Collected(c) == [ctl[c] EXCEPT !.pc = "d_next", !.failed = TRUE, !.child = 0,
                              !.todo = @ \ {ctl[c].host}]
Collect(c) == Local(c, Collected(c))

DestroyRecover(c) == RecoverAt(c, "d_recover", "d_check")

DestroyUncertain(c) ==
  /\ At(c, "d_recover") /\ RecoveryBy(c) = "error" /\ Collect(c)

\* An interrupted launch that left files but no verifiable process.
Unverified(c) ==
  /\ Rec(c).status = "launching"
  /\ \/ pidfile[RunOf[c]][ctl[c].host] # NoOne
     \/ sock[RunOf[c]][ctl[c].host] # 0

DestroyCheck(c) ==
  /\ At(c, "d_check")
  /\ IF OwnedBy(c) = "error" \/ (OwnedBy(c) = "no" /\ Unverified(c))
     THEN Collect(c)
     ELSE Move(c, IF OwnedBy(c) = "yes" THEN "d_pidfd" ELSE "d_files")

\* pidfd_open: from here on `child` names one process, whatever its pid becomes.
OpenPidfd(c) ==
  /\ At(c, "d_pidfd")
  /\ IF procs[Rec(c).pid] = NoProc THEN Collect(c)
     ELSE Local(c, [ctl[c] EXCEPT !.pc = "d_reown", !.child = procs[Rec(c).pid].start])

CheckAgain(c) ==
  /\ At(c, "d_reown")
  /\ IF OwnedBy(c) = "yes" THEN Move(c, "d_term") ELSE Collect(c)

\* Mutant: os.kill(pid) instead of the pidfd.
PidTarget(c) == {p \in {Rec(c).pid} : procs[p] # NoProc}

\* The processes a signal sent through the pidfd reaches: one, or none.
PidfdTarget(c) == {p \in Pids : procs[p] # NoProc /\ procs[p].start = ctl[c].child}

\* The send fails when the process is gone.
Signal(c, stage, pc) ==
  IF PidfdTarget(c) = {} THEN Collect(c)
  ELSE /\ procs' = [p \in Pids |-> IF p \in PidfdTarget(c)
                     THEN [procs[p] EXCEPT !.stage = stage] ELSE procs[p]]
       /\ Goto(c, pc)
       /\ UNCHANGED <<store, lock, copies, files, clock, foreign, gens, faults>>

Terminate(c) == At(c, "d_term") /\ Signal(c, "terminating", "d_wait")

\* Mutant: the exit of the guest is not waited for.
ExitedAtOnce(c) == ctl[c].pc \in {"d_wait", "d_kill_wait"} /\ Move(c, "d_files")

\* process(pid) is polled: whatever process has the pid now counts.
Exited(c) ==
  /\ ctl[c].pc \in {"d_wait", "d_kill_wait"}
  /\ procs[Rec(c).pid] = NoProc
  /\ Move(c, "d_files")

\* Mutant: a guest that ignores SIGTERM is waited for without end.
TimeoutNever(c) == FALSE /\ UNCHANGED vars

\* cleanup_timeout: SIGKILL through the same pidfd.
TimeoutKill(c) ==
  /\ At(c, "d_wait")
  /\ procs[Rec(c).pid] # NoProc
  /\ Signal(c, "killed", "d_kill_wait")

\* "Guest has not exited; resources retained."
KillTimeout(c) ==
  /\ At(c, "d_kill_wait")
  /\ procs[Rec(c).pid] # NoProc
  /\ Become(c, Collected(c)) /\ Fault
  /\ UNCHANGED <<store, lock, copies, files, os, gens>>

RemoveFiles(c) ==
  /\ At(c, "d_files")
  /\ pidfile' = [pidfile EXCEPT ![RunOf[c]][ctl[c].host] = NoOne]
  /\ sock' = [sock EXCEPT ![RunOf[c]][ctl[c].host] = 0]
  /\ Goto(c, "d_disk")
  /\ UNCHANGED <<store, lock, copies, disk, os, gens, faults>>

RemoveDisk(c) ==
  /\ At(c, "d_disk")
  /\ disk' = [disk EXCEPT ![RunOf[c]][ctl[c].host] = FALSE]
  /\ LET m == SetStatus(c, "removed") IN
     /\ mem' = [mem EXCEPT ![c] = m]
     /\ res' = [res EXCEPT ![c] = Released(res[c], Own(c), m)]
  /\ Become(c, [ctl[c] EXCEPT !.pc = "save", !.then = "d_next", !.child = 0,
                              !.todo = @ \ {ctl[c].host}])
  /\ UNCHANGED <<store, lock, pidfile, sock, os, gens, faults>>

\* An artifact cannot be removed: the manifest and the ports stay for the retry.
ArtifactRetained(c) ==
  /\ ctl[c].pc \in {"d_files", "d_disk"}
  /\ Become(c, Collected(c)) /\ Fault
  /\ UNCHANGED <<store, lock, copies, files, os, gens>>

\* Mutant: the manifest goes although the cleanup of a guest failed.
RemoveManifestAnyway(c) ==
  /\ At(c, "d_next") /\ ctl[c].todo = {}
  /\ manifest' = [manifest EXCEPT ![RunOf[c]] = NoManifest]
  /\ Goto(c, "d_release")
  /\ UNCHANGED <<reservations, lock, copies, files, os, gens, faults>>

\* Every guest is removed: the manifest goes, then what reservations remain.
RemoveManifest(c) ==
  /\ At(c, "d_next") /\ ctl[c].todo = {} /\ ~ctl[c].failed
  /\ manifest' = [manifest EXCEPT ![RunOf[c]] = NoManifest]
  /\ Goto(c, "d_release")
  /\ UNCHANGED <<reservations, lock, copies, files, os, gens, faults>>

ReleaseAll(c) ==
  /\ At(c, "d_release")
  /\ reservations' = Released(res[c], Own(c), NoManifest)
  /\ Unlock(c)
  /\ Become(c, IdleControl)
  /\ UNCHANGED <<manifest, files, os, gens, faults>>

-------------------------------------------------------------------------------
(* QEMU, unrelated programs and crashes                                    *)

\* The controller waiting for process s learns how it ended.
Report(s, pc) ==
  ctl' = [c \in Controllers |-> IF At(c, "l_wait") /\ ctl[c].child = s
                                THEN [ctl[c] EXCEPT !.pc = pc] ELSE ctl[c]]

IsQemu(p) == procs[p] # NoProc /\ procs[p].vm # Foreign

\* QEMU locks its pidfile: a second instance of the guest cannot start.
PidfileHeld(p) ==
  \E q \in Pids \ {p} : /\ IsQemu(q) /\ procs[q].vm.run = procs[p].vm.run
                        /\ procs[q].vm.host = procs[p].vm.host
                        /\ pidfile[procs[p].vm.run][procs[p].vm.host] = q

QemuPidfile(p) ==
  /\ IsQemu(p) /\ procs[p].stage = "starting" /\ ~PidfileHeld(p)
  /\ pidfile' = [pidfile EXCEPT ![procs[p].vm.run][procs[p].vm.host] = p]
  /\ procs' = [procs EXCEPT ![p].stage = "booting"]
  /\ UNCHANGED <<store, lock, copies, ctl, sock, disk, clock, foreign, gens, faults>>

\* Disks opened, ports bound, QMP listening: the parent exits with 0.
QemuReady(p) ==
  /\ IsQemu(p) /\ procs[p].stage = "booting"
  /\ disk[procs[p].vm.run][procs[p].vm.host]
  /\ \A k \in procs[p].keys : Bindable(k)
  /\ procs' = [procs EXCEPT ![p].stage = "ready"]
  /\ sock' = [sock EXCEPT ![procs[p].vm.run][procs[p].vm.host] = procs[p].start]
  /\ Report(procs[p].start, "l_rc0")
  /\ UNCHANGED <<store, lock, copies, pidfile, disk, clock, foreign, gens, faults>>

\* The process is gone; its pidfile and socket too if it could clean up.
Gone(p, tidy, socket) ==
  LET r == procs[p].vm.run  h == procs[p].vm.host IN
  /\ procs' = [procs EXCEPT ![p] = NoProc]
  /\ pidfile' = [pidfile EXCEPT ![r][h] = IF tidy /\ @ = p THEN NoOne ELSE @]
  /\ sock' = [sock EXCEPT ![r][h] = socket]
  /\ UNCHANGED <<store, lock, copies, disk, clock, foreign, gens>>

\* A QEMU that fails once it holds its pidfile leaves its QMP socket behind.
FailedSocket(p) ==
  IF procs[p].stage = "booting" THEN procs[p].start
  ELSE sock[procs[p].vm.run][procs[p].vm.host]

\* "Address already in use" or "host forwarding".
QemuInUse(p) ==
  /\ IsQemu(p) /\ procs[p].stage = "booting"
  /\ \E k \in procs[p].keys : ~Bindable(k)
  /\ Gone(p, TRUE, FailedSocket(p))
  /\ Report(procs[p].start, "l_in_use")
  /\ UNCHANGED faults

\* No overlay, or the pidfile is locked.
QemuBroken(p) ==
  /\ IsQemu(p)
  /\ \/ procs[p].stage = "booting" /\ ~disk[procs[p].vm.run][procs[p].vm.host]
     \/ procs[p].stage = "starting" /\ PidfileHeld(p)
  /\ Gone(p, TRUE, FailedSocket(p))
  /\ Report(procs[p].start, "l_failed")
  /\ UNCHANGED faults

\* The guest powers off by itself (a fault) or obeys SIGTERM.
QemuExit(p) ==
  /\ IsQemu(p)
  /\ Gone(p, TRUE, IF sock[procs[p].vm.run][procs[p].vm.host] = procs[p].start
                   THEN 0 ELSE sock[procs[p].vm.run][procs[p].vm.host])
  /\ \/ procs[p].stage = "terminating" /\ UNCHANGED faults
     \/ procs[p].stage = "ready" /\ Fault
  /\ UNCHANGED ctl

\* SIGKILL, from destroy or from elsewhere: the files stay.
QemuKilled(p) ==
  /\ IsQemu(p)
  /\ \/ procs[p].stage = "killed" /\ UNCHANGED faults
     \/ procs[p].stage # "killed" /\ Fault
  /\ Gone(p, FALSE, sock[procs[p].vm.run][procs[p].vm.host])
  /\ Report(procs[p].start, "l_failed")

\* An unrelated program gets a pid, perhaps one a manifest still names.
ForeignStart(p) ==
  /\ procs[p] = NoProc /\ clock < MaxStarts
  /\ Fault
  /\ procs' = [procs EXCEPT ![p] = [vm |-> Foreign, start |-> clock + 1,
                                    stage |-> "ready", keys |-> {}]]
  /\ clock' = clock + 1
  /\ UNCHANGED <<store, lock, copies, ctl, files, foreign, gens>>

ForeignExit(p) ==
  /\ procs[p] # NoProc /\ procs[p].vm = Foreign
  /\ procs' = [procs EXCEPT ![p] = NoProc]
  /\ UNCHANGED <<store, lock, copies, ctl, files, clock, foreign, gens, faults>>

ForeignBind(k) ==
  /\ k \in ForeignKeys \ foreign /\ Bindable(k)
  /\ Fault
  /\ foreign' = foreign \cup {k}
  /\ UNCHANGED <<store, lock, copies, ctl, files, procs, clock, gens>>

ForeignUnbind(k) ==
  /\ k \in foreign
  /\ foreign' = foreign \ {k}
  /\ UNCHANGED <<store, lock, copies, ctl, files, procs, clock, gens, faults>>

\* "Inspect the process before retrying": destroy has refused a launch that left no
\* pidfile, nothing answers on its socket, and the user removes the socket.
Inspect(r, h) ==
  /\ manifest[r] # NoManifest /\ manifest[r].destroying
  /\ manifest[r].rec[h].status = "launching"
  /\ sock[r][h] # 0 /\ pidfile[r][h] = NoOne
  /\ \A p \in Pids : IsQemu(p) => <<procs[p].vm.run, procs[p].vm.host>> # <<r, h>>
  /\ \A c \in Controllers : RunOf[c] = r => At(c, "idle")
  /\ sock' = [sock EXCEPT ![r][h] = 0]
  /\ UNCHANGED <<store, lock, copies, ctl, pidfile, disk, os, gens, faults>>

\* QMP does not answer in time: owned() and recover_launch() raise OSError.
QmpTimeout(c) ==
  /\ \/ ctl[c].pc \in {"l_owned", "l_verify", "d_check", "d_reown"} /\ OwnedBy(c) = "yes"
     \/ ctl[c].pc \in {"launch", "l_rc0", "d_recover"} /\ mem[c] # NoManifest
                                                     /\ RecoveryBy(c) = "running"
  /\ Fault
  /\ IF ctl[c].play = "create" THEN Return(c, IdleControl)
     ELSE Become(c, Collected(c)) /\ UNCHANGED <<store, lock, copies, files, os, gens>>

\* The controller dies; the kernel drops its flock, its QEMU child lives on.
Crash(c) ==
  /\ ctl[c].pc \in CrashPoints
  /\ CrashBeforePidfile \/ ~(At(c, "l_wait") /\ \E p \in Pids :
       procs[p] # NoProc /\ procs[p].start = ctl[c].child /\ procs[p].stage = "starting")
  /\ Fault
  /\ Become(c, IdleControl)
  /\ mem' = [mem EXCEPT ![c] = NoManifest]
  /\ res' = [res EXCEPT ![c] = [k \in Key |-> NoOne]]
  /\ lock' = IF lock = c THEN NoOne ELSE lock
  /\ UNCHANGED <<store, files, os, gens>>

-------------------------------------------------------------------------------
Play(c) ==
  \/ \E play \in {"create", "destroy"} : Start(c, play)
  \/ Enter(c) \/ Media(c) \/ Status(c)

Call(c) ==
  \/ SaveManifest(c) \/ SaveReservations(c)
  \/ ReserveExisting(c) \/ ReserveConflict(c) \/ ReserveFresh(c) \/ ReserveRefused(c)
  \/ Launch(c) \/ LaunchRefused(c) \/ LaunchOwned(c) \/ UnlinkPidfile(c)
  \/ MarkLaunching(c) \/ Spawn(c) \/ SpawnRefused(c)
  \/ Daemonized(c) \/ DaemonizedUnverified(c) \/ LaunchVerify(c)
  \/ RetryPorts(c) \/ RetryRefused(c) \/ LaunchFailed(c) \/ OldBindError(c)
  \/ DestroyNothing(c) \/ DestroyBegin(c) \/ DestroyNext(c) \/ DestroyIncomplete(c)
  \/ DestroyRecover(c) \/ DestroyUncertain(c) \/ DestroyCheck(c)
  \/ OpenPidfd(c) \/ CheckAgain(c) \/ Terminate(c) \/ Exited(c)
  \/ TimeoutKill(c) \/ KillTimeout(c) \/ RemoveFiles(c) \/ RemoveDisk(c)
  \/ ArtifactRetained(c)
  \/ RemoveManifest(c) \/ ReleaseAll(c)

QemuStep(p) ==
  QemuPidfile(p) \/ QemuReady(p) \/ QemuInUse(p) \/ QemuBroken(p) \/ QemuExit(p) \/ QemuKilled(p)

World ==
  \/ \E p \in Pids : ForeignStart(p) \/ ForeignExit(p)
  \/ \E k \in ForeignKeys : ForeignBind(k) \/ ForeignUnbind(k)
  \/ \E r \in Runs, h \in Hosts : Inspect(r, h)
  \/ \E c \in Controllers : QmpTimeout(c) \/ Crash(c)

Next ==
  \/ \E c \in Controllers : Play(c) \/ Call(c)
  \/ \E p \in Pids : QemuStep(p)
  \/ World

Spec == Init /\ [][Next]_vars

\* A module call runs on; a QEMU that was started either comes up or fails, and
\* dies of SIGKILL; flock() is granted to who keeps asking; the user repeats
\* destroy, and between two of them inspects what it refuses (roles/qemu/README.md:76);
\* the unrelated program that holds a recycled pid ends some day.
Fairness ==
  /\ \A c \in Controllers : /\ WF_vars(Call(c))
                            /\ SF_vars(Enter(c))
                            /\ SF_vars(Start(c, "destroy"))
  /\ \A p \in Pids : /\ WF_vars(QemuPidfile(p)) /\ WF_vars(QemuReady(p))
                     /\ WF_vars(QemuInUse(p)) /\ WF_vars(QemuBroken(p))
                     /\ WF_vars(procs[p] # NoProc /\ procs[p].stage = "killed" /\ QemuKilled(p))
                     /\ WF_vars(ForeignExit(p))
  /\ \A r \in Runs, h \in Hosts : SF_vars(Inspect(r, h))

FairSpec == Spec /\ Fairness

-------------------------------------------------------------------------------
(* Properties                                                              *)

\* Every variable stays in its range (the shapes read_json and save exchange).
TypeOK ==
  /\ manifest \in [Runs -> Manifest \cup {NoManifest}]
  /\ reservations \in Reservations
  /\ lock \in Controllers \cup {NoOne}
  /\ mem \in [Controllers -> Manifest \cup {NoManifest}]
  /\ res \in [Controllers -> Reservations]
  /\ ctl \in [Controllers -> Control]
  /\ pidfile \in [Runs -> [Hosts -> Pids \cup {NoOne}]]
  /\ sock \in [Runs -> [Hosts -> 0..MaxStarts]]
  /\ disk \in [Runs -> [Hosts -> BOOLEAN]]
  /\ procs \in [Pids -> Process \cup {NoProc}]
  /\ clock \in 0..MaxStarts
  /\ foreign \subseteq Key
  /\ gens \in [Runs -> 0..MaxGen]
  /\ faults \in 0..MaxFaults

\* save() "persists the manifest before publishing global reservations": a
\* published reservation always has the manifest that can release it, whatever
\* dies between two writes (qemu_runtime.py:124-127, 398-418, 488-561).
ReservationsHaveManifest ==
  \A k \in Key : reservations[k] # NoOne =>
    /\ manifest[reservations[k].run] # NoManifest
    /\ manifest[reservations[k].run].gen = reservations[k].gen

\* Two reservations never stand in each other's way, wildcard addresses
\* included, across all runs (allocate, qemu_runtime.py:146-158).
ReservationsCompatible ==
  \A k, l \in Key :
    (k # l /\ reservations[k] # NoOne /\ reservations[l] # NoOne) => ~Conflicts(k, l)

\* Guests that the manifests on disk still own never share an endpoint, be they
\* of one run or of two (qemu_runtime.py:129-160, 325-396).
EndpointsExclusive ==
  \A r1, r2 \in Runs : (manifest[r1] # NoManifest /\ manifest[r2] # NoManifest) =>
    \A h1, h2 \in Hosts : \A e1, e2 \in Endpoints :
      (/\ <<r1, h1, e1>> # <<r2, h2, e2>>
       /\ manifest[r1].rec[h1].status # "removed"
       /\ manifest[r2].rec[h2].status # "removed")
      => ~Conflicts(manifest[r1].rec[h1].keys[e1], manifest[r2].rec[h2].keys[e2])

\* "Occupied explicit ports fail; they are never silently replaced": what a
\* manifest records for an explicit request is that request
\* (roles/qemu/README.md:60-61; qemu_runtime.py:129-160, 325-352).
ExplicitPortsKept ==
  \A r \in Runs : manifest[r] # NoManifest =>
    \A h \in Hosts, e \in Endpoints : Request[r][h][e].port # AutoPort =>
      manifest[r].rec[h].keys[e] = Request[r][h][e]

\* The process of a guest whose pidfile has been written.
Alive(p) == IsQemu(p) /\ procs[p].stage # "starting"

\* "It waits for exit before removing disks or releasing ports": while a guest's
\* process lives, its manifest, its overlay and its reservations do too
\* (roles/qemu/README.md:74; qemu_runtime.py:488-561).
LiveGuestsKeepResources ==
  \A p \in Pids : Alive(p) =>
    LET vm == procs[p].vm IN
    /\ manifest[vm.run] # NoManifest
    /\ manifest[vm.run].gen = vm.gen
    /\ manifest[vm.run].rec[vm.host].status # "removed"
    /\ procs[p].stage = "ready" => disk[vm.run][vm.host]
    /\ \A k \in procs[p].keys : reservations[k] = [run |-> vm.run, gen |-> vm.gen]

\* A guest has at most one process, however launches are interrupted and
\* repeated (recover_launch and launch, qemu_runtime.py:303-323, 420-430).
OneProcessPerGuest ==
  \A p, q \in Pids : (Alive(p) /\ Alive(q) /\ procs[p].vm = procs[q].vm) => p = q

\* Only a guest of a run that is being destroyed is signalled: never an unrelated
\* process that inherited its pid, nor another run's guest (test_qemu.py:169;
\* qemu_runtime.py:83-92, 498-519).
OnlyOwnGuestsSignalled ==
  \A p \in Pids : (procs[p] # NoProc /\ procs[p].stage \in {"terminating", "killed"}) =>
    /\ procs[p].vm # Foreign
    /\ manifest[procs[p].vm.run] # NoManifest
    /\ manifest[procs[p].vm.run].gen = procs[p].vm.gen
    /\ manifest[procs[p].vm.run].destroying

\* A pid and start time that a manifest records as running belong to that very
\* guest: an interrupted launch never adopts another process
\* (qemu_runtime.py:303-323).
NoAdoptedProcess ==
  \A r \in Runs : manifest[r] # NoManifest =>
    \A h \in Hosts : LET rec == manifest[r].rec[h] IN
      (/\ rec.status = "running" /\ rec.pid # NoOne
       /\ procs[rec.pid] # NoProc /\ procs[rec.pid].start = rec.start)
      => procs[rec.pid].vm = Guest(r, manifest[r], h)

\* "Management ports are allocated, recorded, and reused until destroy": the
\* endpoints of a guest never change while its process lives
\* (roles/qemu/README.md:58-59; qemu_runtime.py:325-396).
EndpointsStable ==
  [][\A p \in Pids : (Alive(p) /\ Alive(p)' /\ procs'[p].vm = procs[p].vm) =>
       LET vm == procs[p].vm IN
       (manifest[vm.run] # NoManifest /\ manifest'[vm.run] # NoManifest)
       => manifest'[vm.run].rec[vm.host].keys = manifest[vm.run].rec[vm.host].keys]_vars

\* The manifest is given up only when nothing of the run is left: no process, no
\* file, no reservation (roles/qemu/README.md:81-83; qemu_runtime.py:551-561).
DestroyLeavesNothing ==
  [][\A r \in Runs : (manifest[r] # NoManifest /\ manifest'[r] = NoManifest) =>
       /\ \A p \in Pids : ~(Alive(p) /\ procs[p].vm.run = r)
       /\ \A h \in Hosts : pidfile[r][h] = NoOne /\ sock[r][h] = 0 /\ ~disk[r][h]
       /\ \A k \in Key : reservations[k] # NoOne => reservations[k].run # r]_vars

\* reserve() answers "Cleanup is incomplete; retry destroy before creating this
\* run again": no guest is started once a run is being destroyed
\* (qemu_runtime.py:188-191, 420-436).
NoLaunchWhileDestroying ==
  \A c \in Controllers : At(c, "l_spawn") => ~mem[c].destroying

\* "Cleanup incomplete; state retained for retry": destroy, repeated, gets to the
\* end whatever interrupted it (qemu_runtime.py:549-561), with the user's help in one
\* case: a launch that failed once QEMU listened leaves a socket and no pidfile, which
\* destroy refuses every time (519-522) until the user has removed it (Inspect).
DestroyCompletes ==
  \A r \in Runs : (manifest[r] # NoManifest /\ manifest[r].destroying)
                  ~> (manifest[r] = NoManifest)

\* The lock that every run on the controller needs does not stay taken: no call
\* waits for ever (qemu_runtime.py:109-122, 433-437, 506-517).
LockReleased == (lock # NoOne) ~> (lock = NoOne)
===============================================================================

--------------------------- MODULE QemuGuestProofs ---------------------------
(***************************************************************************)
(* Proofs about the guests of the QEMU runtime and their processes, for    *)
(* any runs, guests and pids, with one controller per run and no death of  *)
(* a controller before its QEMU has written its pidfile:                   *)
(*   - a guest has at most one process,                                    *)
(*   - no manifest adopts a process that is not its guest's,               *)
(*   - only guests of a run that is being destroyed are signalled,         *)
(*   - the endpoints of a guest stay while its process lives,              *)
(*   - destroy gives the manifest up only when nothing is left,            *)
(*   - a live guest keeps its manifest, overlay and reservations, if       *)
(*     moreover none dies between the two files of a save.                 *)
(* The invariant GuestInv says how processes, files and manifests fit      *)
(* each other at every step of a play; it builds on IInv and PlanInv.      *)
(***************************************************************************)
EXTENDS QemuRuntimeProofs

-------------------------------------------------------------------------------
(* Guests and their processes                                              *)

OfSlot(p, r, h) == IsQemu(p) /\ procs[p].vm.run = r /\ procs[p].vm.host = h
Vacant(r, h) == \A p \in Pids : ~OfSlot(p, r, h)
KeysOf(m, h) == {m.rec[h].keys[e] : e \in Endpoints}

\* Start times tell processes apart; unrelated ones are never signalled.
StartsKnown ==
  /\ \A p \in Pids : procs[p] # NoProc => procs[p].start <= clock
  /\ \A p, q \in Pids :
       (procs[p] # NoProc /\ procs[q] # NoProc /\ procs[p].start = procs[q].start) => p = q
  /\ \A p \in Pids : (procs[p] # NoProc /\ procs[p].vm = Foreign) => procs[p].stage = "ready"

\* A guest's process is the one its pidfile names, or one its launch waits for.
AliveKnown == \A p \in Pids : Alive(p) =>
  /\ pidfile[procs[p].vm.run][procs[p].vm.host] = p
  /\ manifest[procs[p].vm.run] # NoManifest

WaitsFor(c, p) ==
  /\ At(c, "l_wait") /\ ctl[c].child = procs[p].start
  /\ procs[p].vm = Guest(RunOf[c], mem[c], ctl[c].host)
StartingKnown == \A p \in Pids : (IsQemu(p) /\ procs[p].stage = "starting") =>
  \E c \in Controllers : WaitsFor(c, p)

\* What a manifest of run r must say of a guest's process ...
AliveFits(p, r, m) ==
  LET rec == m.rec[procs[p].vm.host] IN
  /\ procs[p].vm.gen = m.gen
  /\ rec.status \in {"launching", "running"}
  /\ rec.status = "running" => rec.pid = p /\ rec.start = procs[p].start
  /\ procs[p].keys \subseteq KeysOf(m, procs[p].vm.host)
  /\ procs[p].stage = "ready" => disk[r][procs[p].vm.host]
  /\ procs[p].stage \in {"terminating", "killed"} => m.destroying

\* ... of the process that a record identifies ...
RecordFits(h, r, m) ==
  LET rec == m.rec[h] IN
  /\ rec.start <= clock
  /\ (rec.pid # NoOne /\ procs[rec.pid] # NoProc /\ procs[rec.pid].start = rec.start) =>
       rec.status = "running" /\ procs[rec.pid].vm = Guest(r, m, h)

\* ... and of a guest that is gone.
RemovedFits(h, r, m) ==
  m.rec[h].status = "removed" => pidfile[r][h] = NoOne /\ sock[r][h] = 0 /\ ~disk[r][h]

Fits(r, m) ==
  /\ \A p \in Pids : (Alive(p) /\ procs[p].vm.run = r) => AliveFits(p, r, m)
  /\ \A h \in Hosts : RecordFits(h, r, m) /\ RemovedFits(h, r, m)

\* The manifest on disk, and the one that is about to replace it.
Judged(r, m) ==
  \/ m = manifest[r] /\ m # NoManifest
  \/ \E c \in Controllers : RunOf[c] = r /\ At(c, "save") /\ m = mem[c]

Saving(c, pc) == ctl[c].pc \in SavePCs /\ ctl[c].then = pc

\* Nothing runs in the slot whose files a call takes or gives up.
Emptied(c) ==
  (\/ ctl[c].pc \in {"l_unlink", "l_mark", "l_spawn", "l_in_use", "l_failed", "d_files", "d_disk"}
   \/ Saving(c, "l_spawn"))
    => Vacant(RunOf[c], ctl[c].host)

\* A launch goes on only when an earlier one has been accounted for.
Accounted(c) ==
  ((At(c, "l_owned") \/ Saving(c, "l_owned")) /\ Rec(c).status = "launching")
    => pidfile[RunOf[c]][ctl[c].host] = NoOne

Launching(c) ==
  (ctl[c].pc \in {"l_spawn", "l_wait", "l_in_use", "l_failed", "l_rc0"} \/ Saving(c, "l_spawn"))
    => Rec(c).status = "launching"

\* The process a launch waits for is the only one of its guest.
Waiting(c) == At(c, "l_wait") =>
  /\ ctl[c].child <= clock
  /\ \A p \in Pids : OfSlot(p, RunOf[c], ctl[c].host) => procs[p].start = ctl[c].child
  /\ \A p \in Pids : (procs[p] # NoProc /\ procs[p].start = ctl[c].child) =>
       /\ procs[p].vm = Guest(RunOf[c], mem[c], ctl[c].host)
       /\ procs[p].keys \subseteq KeysOf(mem[c], ctl[c].host)

\* The argv names the endpoints that are recorded.
Called(c) == At(c, "launch_call") => ctl[c].argv = KeysOf(manifest[RunOf[c]], ctl[c].host)
ArgvFits(c) ==
  (\/ ctl[c].pc \in {"launch", "l_owned", "l_unlink", "l_mark", "l_spawn", "l_wait", "l_in_use",
                      "l_failed"}
   \/ Saving(c, "l_owned") \/ Saving(c, "l_spawn"))
    => ctl[c].argv = KeysOf(mem[c], ctl[c].host)

\* What a pidfd names is the guest, or what has nothing to do with its record.
SignalPCs == {"d_term", "d_wait", "d_kill_wait"}
PidfdPCs == {"d_pidfd", "d_reown"} \cup SignalPCs
Opened(c) ==
  /\ ctl[c].pc \in PidfdPCs => Rec(c).status = "running" /\ Rec(c).pid \in Pids
  /\ (At(c, "d_reown") /\ procs[Rec(c).pid] # NoProc /\ procs[Rec(c).pid].start = Rec(c).start) =>
       ctl[c].child = Rec(c).start
  /\ ctl[c].pc \in SignalPCs =>
       /\ ctl[c].child <= clock
       /\ \A p \in Pids : (procs[p] # NoProc /\ procs[p].start = ctl[c].child) =>
            procs[p].vm = Guest(RunOf[c], mem[c], ctl[c].host)

Cleared(c) == At(c, "d_disk") =>
  pidfile[RunOf[c]][ctl[c].host] = NoOne /\ sock[RunOf[c]][ctl[c].host] = 0

\* Endpoints are replaced only where nothing runs.
Replaces(c) == (At(c, "save") /\ manifest[RunOf[c]] # NoManifest) =>
  \A h \in Hosts : mem[c].rec[h].keys # manifest[RunOf[c]].rec[h].keys => Vacant(RunOf[c], h)

SlotInv(c) ==
  /\ Emptied(c) /\ Accounted(c) /\ Launching(c) /\ Waiting(c) /\ Called(c) /\ ArgvFits(c)
  /\ Opened(c) /\ Cleared(c) /\ Replaces(c)

GuestInv ==
  /\ StartsKnown /\ AliveKnown /\ StartingKnown
  /\ \A r \in Runs : \A m : Judged(r, m) => Fits(r, m)
  /\ \A c \in Controllers : SlotInv(c)

\* Program counters at which nothing is known of the slot.
PlainPCs == {"idle", "reserve_call", "destroy_call", "media", "status_call", "reserve", "destroy",
             "d_next", "d_recover", "d_check", "l_verify", "d_release"}

LEMMA PlainSlot ==
  ASSUME NEW c \in Controllers
  PROVE  /\ ctl[c].pc \in PlainPCs => SlotInv(c)
         /\ ctl'[c].pc \in PlainPCs => SlotInv(c)'
<1>1. ctl[c].pc \in PlainPCs => SlotInv(c)
  BY DEF PlainPCs, SlotInv, Emptied, Accounted, Launching, Waiting, Called, ArgvFits, Opened, Cleared,
         Replaces, At, Saving, SavePCs, PidfdPCs, SignalPCs
<1>2. ctl'[c].pc \in PlainPCs => SlotInv(c)'
  BY DEF PlainPCs, SlotInv, Emptied, Accounted, Launching, Waiting, Called, ArgvFits, Opened, Cleared,
         Replaces, At, Saving, SavePCs, PidfdPCs, SignalPCs
<1>. QED  BY <1>1, <1>2

\* Outside a call, only what the status call has read is known.
LEMMA IdleSlot ==
  ASSUME NEW c \in Controllers, SlotInv(c), ~Calling(c), ctl'[c] = ctl[c],
         manifest'[RunOf[c]] = manifest[RunOf[c]]
  PROVE  SlotInv(c)'
<1>1. ctl[c].pc \notin LockedPCs  BY DEF Calling
<1>2. Called(c)'  BY DEF SlotInv, Called, At, KeysOf
<1>3. (Emptied(c) /\ Accounted(c) /\ Launching(c) /\ Waiting(c) /\ ArgvFits(c) /\ Opened(c) /\ Cleared(c)
       /\ Replaces(c))'
  BY <1>1 DEF Emptied, Accounted, Launching, Waiting, ArgvFits, Opened, Cleared,
         Replaces, At, Saving, PidfdPCs, SignalPCs, LockedPCs, CallPCs, SavePCs
<1>. QED  BY <1>2, <1>3 DEF SlotInv

LEMMA GuestOf ==
  ASSUME NEW r \in Runs, NEW m \in Manifest, NEW h \in Hosts
  PROVE  /\ Guest(r, m, h) # Foreign /\ Guest(r, m, h).run = r /\ Guest(r, m, h).gen = m.gen
         /\ Guest(r, m, h).host = h
<1>1. Guest(r, m, h) \in VM  BY DEF Guest, VM, Manifest
<1>. QED  BY <1>1, SentinelAssumption DEF Guest

\* What is judged is a manifest.
LEMMA JudgedType ==
  ASSUME IInv, NEW r \in Runs, NEW m, Judged(r, m)
  PROVE  m \in Manifest
<1>1. CASE m = manifest[r] /\ m # NoManifest  BY <1>1 DEF IInv, TypeOK
<1>2. ASSUME NEW c \in Controllers, At(c, "save"), m = mem[c] PROVE m \in Manifest
  BY <1>2 DEF At, IInv, TypeOK, CallInv, CallReady, Calling, LockedPCs, SavePCs
<1>. QED  BY <1>1, <1>2 DEF Judged

\* A call that waits for its launch is the only call.
LEMMA Waiter ==
  ASSUME IInv, PlanInv, NEW c \in Controllers, At(c, "l_wait")
  PROVE  /\ Calling(c) /\ mem[c] \in Manifest /\ mem[c] = manifest[RunOf[c]] /\ RunOf[c] \in Runs
         /\ ctl[c] \in Control /\ ctl[c].host \in Hosts
         /\ \A d \in Controllers : Calling(d) => d = c
<1>1. Calling(c) /\ mem[c] # NoManifest /\ PlanOf(c) /\ ctl[c] \in Control
  BY DEF At, IInv, TypeOK, CallInv, CallReady, Calling, LockedPCs, CallPCs, PlanInv
<1>2. mem[c] = manifest[RunOf[c]]  BY <1>1 DEF At, PlanOf, Remembered
<1>3. ctl[c].host \in Hosts  BY <1>1 DEF Control
<1>. QED  BY <1>1, <1>2, <1>3, OneCalls, OwnType, SetsAssumption

LEMMA StartingWaiter ==
  ASSUME IInv, PlanInv, GuestInv, NEW p \in Pids, IsQemu(p), procs[p].stage = "starting"
  PROVE  \E c \in Controllers :
           /\ WaitsFor(c, p) /\ SlotInv(c)
           /\ procs[p].vm.run = RunOf[c] /\ procs[p].vm.host = ctl[c].host
           /\ procs[p].vm.gen = mem[c].gen
<1>1. PICK c \in Controllers : WaitsFor(c, p)  BY DEF GuestInv, StartingKnown
<1>2. mem[c] \in Manifest /\ RunOf[c] \in Runs /\ ctl[c].host \in Hosts
  BY <1>1, Waiter DEF WaitsFor
<1>. QED  BY <1>1, <1>2, GuestOf DEF WaitsFor, GuestInv

\* A guest with a process is recorded as launched.
LEMMA Occupied ==
  ASSUME OneControllerPerRun, IInv, PlanInv, GuestInv, NEW p \in Pids, IsQemu(p),
         NEW m, Judged(procs[p].vm.run, m)
  PROVE  m.rec[procs[p].vm.host].status \in {"launching", "running"}
<1>1. procs[p].vm.run \in Runs  BY QemuType, TypeHalves DEF IInv
<1>2. CASE Alive(p)
  BY <1>1, <1>2 DEF GuestInv, Fits, AliveFits
<1>3. CASE procs[p].stage = "starting"
  <2>1. PICK c \in Controllers :
          /\ WaitsFor(c, p) /\ SlotInv(c)
          /\ procs[p].vm.run = RunOf[c] /\ procs[p].vm.host = ctl[c].host
    BY <1>3, StartingWaiter
  <2>2. At(c, "l_wait") /\ Rec(c).status = "launching"
    BY <2>1 DEF WaitsFor, SlotInv, Launching, At
  <2>3. mem[c] = manifest[RunOf[c]] /\ \A d \in Controllers : Calling(d) => d = c  BY <2>2, Waiter
  <2>4. m = manifest[RunOf[c]]
    <3>1. \A d \in Controllers : ~At(d, "save")
      BY <2>2, <2>3 DEF At, Calling, LockedPCs, SavePCs
    <3>. QED  BY <2>1, <3>1 DEF Judged
  <2>. QED  BY <2>1, <2>2, <2>3, <2>4 DEF Rec
<1>. QED  BY <1>2, <1>3 DEF Alive

-------------------------------------------------------------------------------
(* Steps of processes                                                      *)

\* Processes come to an end or change their stage.
ProcsKept ==
  /\ clock' = clock
  /\ \A q \in Pids : procs'[q] # NoProc =>
       /\ procs[q] # NoProc /\ procs'[q].vm = procs[q].vm /\ procs'[q].start = procs[q].start
       /\ procs'[q].keys = procs[q].keys

LEMMA KeptSlots ==
  ASSUME ProcsKept, NEW r, NEW h
  PROVE  /\ \A p \in Pids : OfSlot(p, r, h)' => OfSlot(p, r, h)
         /\ Vacant(r, h) => Vacant(r, h)'
BY DEF ProcsKept, OfSlot, Vacant, IsQemu

LEMMA KeptRecord ==
  ASSUME ProcsKept, NEW r, NEW m \in Manifest, NEW h \in Hosts, RecordFits(h, r, m)
  PROVE  RecordFits(h, r, m)'
<1>1. m.rec[h].pid \in Pids \cup {NoOne}  BY DEF Manifest, Record
<1>. QED  BY <1>1 DEF ProcsKept, RecordFits, Guest

\* A controller that takes no part, when processes end or change their stage.
LEMMA KeptSlot ==
  ASSUME ProcsKept, NEW d \in Controllers, SlotInv(d), ctl'[d] = ctl[d], mem' = mem, manifest' = manifest,
         Accounted(d)', Cleared(d)'
  PROVE  SlotInv(d)'
<1>1. /\ Emptied(d) /\ Launching(d) /\ Waiting(d) /\ Called(d) /\ ArgvFits(d) /\ Opened(d) /\ Replaces(d)
  BY DEF SlotInv
<1>2. Emptied(d)'  BY <1>1, KeptSlots DEF Emptied, Saving
<1>3. Launching(d)' /\ Called(d)' /\ ArgvFits(d)'
  BY <1>1 DEF Launching, Called, ArgvFits, Saving, At, Rec, KeysOf
<1>4. PICK h, rec, vm, keys :
        /\ ctl[d].host = h /\ mem[d].rec[h] = rec /\ Guest(RunOf[d], mem[d], h) = vm /\ KeysOf(mem[d], h) = keys
  OBVIOUS
<1>5. /\ Rec(d) = rec /\ Rec(d)' = rec /\ ctl'[d].host = h
      /\ Guest(RunOf[d], mem[d], ctl[d].host)' = vm /\ KeysOf(mem[d], ctl[d].host)' = keys
  BY <1>4 DEF Rec, Guest, KeysOf
<1>6. Waiting(d)'
  <2>1. \A p \in Pids : OfSlot(p, RunOf[d], h)' => OfSlot(p, RunOf[d], h) /\ procs'[p] # NoProc
    BY KeptSlots DEF OfSlot, IsQemu
  <2>2. \A p \in Pids : (OfSlot(p, RunOf[d], h)' /\ At(d, "l_wait")) => procs'[p].start = ctl[d].child
    BY <1>1, <1>4, <2>1 DEF Waiting, ProcsKept
  <2>3. \A p \in Pids : OfSlot(p, RunOf[d], ctl[d].host)' <=> OfSlot(p, RunOf[d], h)'
    BY <1>5 DEF OfSlot
  <2>4. At(d, "l_wait") => \A p \in Pids : (procs'[p] # NoProc /\ procs'[p].start = ctl[d].child) =>
          procs'[p].vm = vm /\ procs'[p].keys \subseteq keys
    BY <1>1, <1>4 DEF Waiting, ProcsKept
  <2>. QED  BY <1>1, <1>5, <2>2, <2>3, <2>4 DEF Waiting, At, ProcsKept
<1>7. Opened(d)'
  <2>1. At(d, "d_reown") => ctl[d].pc \in PidfdPCs  BY DEF At, PidfdPCs
  <2>2. (ctl[d].pc \in PidfdPCs => rec.status = "running" /\ rec.pid \in Pids)
    BY <1>1, <1>5 DEF Opened
  <2>3. (At(d, "d_reown") /\ procs'[rec.pid] # NoProc /\ procs'[rec.pid].start = rec.start) =>
          ctl[d].child = rec.start
    BY <1>1, <1>5, <2>1, <2>2 DEF Opened, ProcsKept
  <2>4. ctl[d].pc \in SignalPCs =>
          /\ ctl[d].child <= clock'
          /\ \A p \in Pids : (procs'[p] # NoProc /\ procs'[p].start = ctl[d].child) => procs'[p].vm = vm
    BY <1>1, <1>4 DEF Opened, ProcsKept
  <2>. QED  BY <1>5, <2>2, <2>3, <2>4 DEF Opened, At
<1>8. Replaces(d)'  BY <1>1, KeptSlots DEF Replaces, At
<1>. QED  BY <1>2, <1>3, <1>6, <1>7, <1>8 DEF SlotInv

\* What a step of the guest's process p may do to it and to its files.
ProcessStep(p) ==
  /\ IsQemu(p)
  /\ clock' = clock /\ manifest' = manifest /\ mem' = mem /\ disk' = disk
  /\ \A q \in Pids \ {p} : procs'[q] = procs[q]
  /\ procs'[p] # NoProc => /\ procs'[p].vm = procs[p].vm /\ procs'[p].start = procs[p].start
                           /\ procs'[p].keys = procs[p].keys
  /\ \A r \in Runs, h \in Hosts : ~OfSlot(p, r, h) =>
       pidfile'[r][h] = pidfile[r][h] /\ sock'[r][h] = sock[r][h]
  /\ \A q \in Pids \ {p} : pidfile[procs[p].vm.run][procs[p].vm.host] = q /\ Alive(q)
                           /\ procs[q].vm.run = procs[p].vm.run /\ procs[q].vm.host = procs[p].vm.host
       => pidfile'[procs[p].vm.run][procs[p].vm.host] = q
  /\ \/ procs[p].stage = "starting"
     \/ pidfile'[procs[p].vm.run][procs[p].vm.host] \in {NoOne, pidfile[procs[p].vm.run][procs[p].vm.host]}

LEMMA ProcessGuests ==
  ASSUME OneControllerPerRun, IInv, IInv', PlanInv, GuestInv, NEW p \in Pids, ProcessStep(p),
         Alive(p)' => /\ pidfile'[procs[p].vm.run][procs[p].vm.host] = p
                      /\ manifest[procs[p].vm.run] # NoManifest,
         \A m : (Alive(p)' /\ Judged(procs[p].vm.run, m)) => AliveFits(p, procs[p].vm.run, m)',
         procs'[p] # NoProc => procs'[p].stage # "starting",
         \A d \in Controllers :
           \/ ctl'[d] = ctl[d]
           \/ /\ SlotInv(d)' /\ ctl[d].pc # "save" /\ ctl'[d].pc # "save"
              /\ At(d, "l_wait") => ctl[d].child = procs[p].start
  PROVE  GuestInv'
<1>1. /\ procs[p] \in Process /\ procs[p].vm.run \in Runs /\ procs[p].vm.host \in Hosts
      /\ procs[p].vm # Foreign /\ procs[p] # NoProc
  BY QemuType, TypeHalves DEF IInv, ProcessStep, IsQemu
<1>2. ProcsKept  BY <1>1 DEF ProcessStep, ProcsKept
<1>3. StartsKnown'
  <2>1. \A q \in Pids : (procs'[q] # NoProc /\ procs'[q].vm = Foreign) => q # p /\ procs'[q] = procs[q]
    BY <1>1 DEF ProcessStep
  <2>. QED  BY <1>2, <2>1 DEF GuestInv, StartsKnown, ProcsKept
<1>4. AliveKnown'
  <2>. SUFFICES ASSUME NEW q \in Pids, Alive(q)'
                PROVE  /\ pidfile'[procs'[q].vm.run][procs'[q].vm.host] = q
                       /\ manifest'[procs'[q].vm.run] # NoManifest
    BY DEF AliveKnown
  <2>1. CASE q = p
    <3>1. procs'[p] # NoProc  BY <2>1 DEF Alive, IsQemu
    <3>. QED  BY <2>1, <3>1 DEF ProcessStep
  <2>2. CASE q # p
    <3>1. procs'[q] = procs[q] /\ Alive(q)  BY <2>2 DEF ProcessStep, Alive, IsQemu
    <3>2. /\ pidfile[procs[q].vm.run][procs[q].vm.host] = q /\ manifest[procs[q].vm.run] # NoManifest
          /\ procs[q].vm.run \in Runs /\ procs[q].vm.host \in Hosts
      BY <3>1, QemuType, TypeHalves DEF GuestInv, AliveKnown, Alive, IInv
    <3>3. CASE OfSlot(p, procs[q].vm.run, procs[q].vm.host)
      BY <2>2, <3>1, <3>2, <3>3 DEF ProcessStep, OfSlot
    <3>4. CASE ~OfSlot(p, procs[q].vm.run, procs[q].vm.host)
      BY <3>1, <3>2, <3>4 DEF ProcessStep
    <3>. QED  BY <3>1, <3>2, <3>3, <3>4 DEF ProcessStep
  <2>. QED  BY <2>1, <2>2
<1>5. StartingKnown'
  <2>. SUFFICES ASSUME NEW q \in Pids, IsQemu(q)', procs'[q].stage = "starting"
                PROVE  \E c \in Controllers : WaitsFor(c, q)'
    BY DEF StartingKnown
  <2>1. q # p /\ procs'[q] = procs[q] /\ IsQemu(q) /\ procs[q].stage = "starting"
    BY DEF ProcessStep, IsQemu
  <2>2. PICK c \in Controllers : WaitsFor(c, q)  BY <2>1 DEF GuestInv, StartingKnown
  <2>3. procs[q].start # procs[p].start
    BY <1>1, <2>1 DEF GuestInv, StartsKnown, IsQemu
  <2>4. ctl'[c] = ctl[c]  BY <2>2, <2>3 DEF WaitsFor
  <2>. QED  BY <2>1, <2>2, <2>4 DEF WaitsFor, At, Guest, ProcessStep
<1>6. ASSUME NEW r \in Runs, NEW m, Judged(r, m)' PROVE Fits(r, m)'
  <2>1. Judged(r, m)
    <3>1. ASSUME NEW c \in Controllers, RunOf[c] = r, At(c, "save")', m = mem'[c]
          PROVE  Judged(r, m)
      <4>1. ctl'[c] = ctl[c] /\ mem' = mem  BY <3>1 DEF At, ProcessStep
      <4>. QED  BY <3>1, <4>1 DEF Judged, At
    <3>2. CASE m = manifest'[r] /\ m # NoManifest  BY <3>2 DEF Judged, ProcessStep
    <3>. QED  BY <1>6, <3>1, <3>2 DEF Judged
  <2>2. m \in Manifest /\ Fits(r, m)  BY <2>1, JudgedType DEF GuestInv
  <2>3. ASSUME NEW q \in Pids, Alive(q)', procs'[q].vm.run = r PROVE AliveFits(q, r, m)'
    <3>1. CASE q = p
      <4>1. procs[p].vm.run = r  BY <2>3, <3>1 DEF ProcessStep, Alive, IsQemu
      <4>. QED  BY <2>1, <2>3, <3>1, <4>1
    <3>2. CASE q # p
      <4>1. procs'[q] = procs[q] /\ Alive(q) /\ disk' = disk
        BY <2>3, <3>2 DEF ProcessStep, Alive, IsQemu
      <4>2. AliveFits(q, r, m)  BY <2>2, <2>3, <4>1 DEF Fits
      <4>. QED  BY <4>1, <4>2 DEF AliveFits, KeysOf
    <3>. QED  BY <3>1, <3>2
  <2>4. ASSUME NEW h \in Hosts PROVE RecordFits(h, r, m)'
    BY <1>2, <2>2, KeptRecord DEF Fits
  <2>5. ASSUME NEW h \in Hosts PROVE RemovedFits(h, r, m)'
    <3>1. RemovedFits(h, r, m)  BY <2>2 DEF Fits
    <3>2. CASE OfSlot(p, r, h)
      <4>1. m.rec[h].status # "removed"  BY <2>1, <3>2, Occupied DEF OfSlot
      <4>. QED  BY <4>1 DEF RemovedFits
    <3>3. CASE ~OfSlot(p, r, h)
      BY <3>1, <3>3 DEF ProcessStep, RemovedFits
    <3>. QED  BY <3>2, <3>3
  <2>. QED  BY <2>3, <2>4, <2>5 DEF Fits
<1>7. ASSUME NEW d \in Controllers PROVE SlotInv(d)'
  <2>1. CASE ctl'[d] = ctl[d]
    <3>1. SlotInv(d) /\ RunOf[d] \in Runs /\ ctl[d].host \in Hosts
      BY SetsAssumption DEF GuestInv, IInv, TypeOK, Control
    <3>2. Accounted(d)'
      <4>. DEFINE r == RunOf[d]
                  h == ctl[d].host
      <4>1. Accounted(d)  BY <3>1 DEF SlotInv
      <4>2. CASE ~OfSlot(p, r, h)
        BY <2>1, <3>1, <4>1, <4>2 DEF Accounted, At, Saving, Rec, ProcessStep
      <4>3. CASE OfSlot(p, r, h) /\ pidfile'[r][h] \in {NoOne, pidfile[r][h]}
        BY <2>1, <3>1, <4>1, <4>3 DEF Accounted, At, Saving, Rec, ProcessStep
      <4>4. CASE procs[p].stage = "starting"
        <5>1. PICK c \in Controllers : At(c, "l_wait")
          BY <4>4, StartingWaiter DEF WaitsFor, ProcessStep
        <5>2. Calling(d) => d = c  BY <5>1, Waiter
        <5>3. ~(At(d, "l_owned") \/ Saving(d, "l_owned"))
          BY <5>1, <5>2 DEF At, Saving, Calling, LockedPCs, CallPCs, SavePCs
        <5>. QED  BY <2>1, <5>3 DEF Accounted, At, Saving
      <4>. QED  BY <4>2, <4>3, <4>4 DEF ProcessStep, OfSlot
    <3>3. Cleared(d)'
      <4>1. At(d, "d_disk") => ~OfSlot(p, RunOf[d], ctl[d].host)
        BY <3>1 DEF SlotInv, Emptied, At, Vacant
      <4>. QED  BY <2>1, <3>1, <4>1 DEF SlotInv, Cleared, At, ProcessStep
    <3>. QED  BY <1>2, <2>1, <3>1, <3>2, <3>3, KeptSlot DEF ProcessStep
  <2>. QED  BY <2>1
<1>. QED  BY <1>3, <1>4, <1>5, <1>6, <1>7 DEF GuestInv

\* A launch whose process p comes up or ends learns it.
LEMMA ReportedSlot ==
  ASSUME IInv, GuestInv, NEW p \in Pids, IsQemu(p), ProcsKept, mem' = mem,
         NEW pc \in {"l_rc0", "l_in_use", "l_failed"}, Report(procs[p].start, pc),
         pc # "l_rc0" => procs'[p] = NoProc
  PROVE  \A d \in Controllers :
           \/ ctl'[d] = ctl[d]
           \/ /\ SlotInv(d)' /\ ctl[d].pc # "save" /\ ctl'[d].pc # "save"
              /\ At(d, "l_wait") => ctl[d].child = procs[p].start
<1>. SUFFICES ASSUME NEW d \in Controllers, ctl'[d] # ctl[d]
              PROVE  /\ SlotInv(d)' /\ ctl[d].pc # "save" /\ ctl'[d].pc # "save"
                     /\ At(d, "l_wait") => ctl[d].child = procs[p].start
  OBVIOUS
<1>1. /\ ctl[d].pc = "l_wait" /\ ctl[d].child = procs[p].start
      /\ ctl'[d] = [ctl[d] EXCEPT !.pc = pc] /\ ctl[d] \in Control
  BY DEF Report, At, IInv, TypeOK
<1>2. ctl'[d].pc = pc /\ ctl'[d].host = ctl[d].host /\ ctl'[d].argv = ctl[d].argv
  BY <1>1 DEF Control
<1>3. Launching(d) /\ Waiting(d) /\ ArgvFits(d)  BY DEF GuestInv, SlotInv
<1>4. Launching(d)' /\ ArgvFits(d)' /\ Emptied(d)' /\ Accounted(d)'
  <2>1. Launching(d)'
    BY <1>1, <1>2, <1>3 DEF Launching, Rec
  <2>2. ArgvFits(d)'
    BY <1>1, <1>2, <1>3 DEF ArgvFits, KeysOf, Saving, SavePCs
  <2>3. Emptied(d)'
    <3>1. CASE pc # "l_rc0"
      <4>1. \A q \in Pids : ~OfSlot(q, RunOf[d], ctl[d].host)'
        <5>1. \A q \in Pids : OfSlot(q, RunOf[d], ctl[d].host) => procs[q].start = procs[p].start /\ procs[q] # NoProc
          BY <1>1, <1>3 DEF Waiting, At, OfSlot, IsQemu
        <5>2. \A q \in Pids : OfSlot(q, RunOf[d], ctl[d].host) => q = p
          BY <5>1 DEF GuestInv, StartsKnown, IsQemu
        <5>3. PICK h : h = ctl[d].host  OBVIOUS
        <5>4. \A q \in Pids : OfSlot(q, RunOf[d], h)' => q = p /\ procs'[q] # NoProc
          BY <5>2, <5>3, KeptSlots DEF OfSlot, IsQemu
        <5>5. \A q \in Pids : ~OfSlot(q, RunOf[d], h)'  BY <3>1, <5>4
        <5>. QED  BY <1>2, <5>3, <5>5 DEF OfSlot
      <4>. QED  BY <1>2, <4>1 DEF Emptied, Vacant
    <3>2. CASE pc = "l_rc0"  BY <1>2, <3>2 DEF Emptied, Saving, SavePCs
    <3>. QED  BY <3>1, <3>2
  <2>4. Accounted(d)'  BY <1>2 DEF Accounted, At, Saving, SavePCs
  <2>. QED  BY <2>1, <2>2, <2>3, <2>4
<1>5. (Waiting(d) /\ Called(d) /\ Opened(d) /\ Cleared(d) /\ Replaces(d))'
  BY <1>2 DEF Waiting, Called, Opened, Cleared, Replaces, At, PidfdPCs, SignalPCs
<1>. QED  BY <1>1, <1>2, <1>4, <1>5 DEF SlotInv

\* The end of the process p, however it comes about.
LEMMA GoneGuests ==
  ASSUME OneControllerPerRun, IInv, IInv', PlanInv, GuestInv, NEW p \in Pids, IsQemu(p),
         NEW tidy, NEW socket, Gone(p, tidy, socket),
         \/ ctl' = ctl
         \/ \E pc \in {"l_in_use", "l_failed"} : Report(procs[p].start, pc)
  PROVE  GuestInv'
<1>1. procs[p] \in Process /\ procs[p].vm.run \in Runs /\ procs[p].vm.host \in Hosts
  BY QemuType, TypeHalves DEF IInv, IsQemu
<1>2. /\ procs'[p] = NoProc /\ \A q \in Pids \ {p} : procs'[q] = procs[q]
      /\ clock' = clock /\ manifest' = manifest /\ mem' = mem /\ disk' = disk
  BY DEF Gone, IInv, TypeOK, store, copies
<1>3. /\ \A r \in Runs, h \in Hosts : ~OfSlot(p, r, h) =>
           pidfile'[r][h] = pidfile[r][h] /\ sock'[r][h] = sock[r][h]
      /\ LET f == pidfile[procs[p].vm.run][procs[p].vm.host] IN
         pidfile'[procs[p].vm.run][procs[p].vm.host] = IF tidy /\ f = p THEN NoOne ELSE f
  BY <1>1 DEF Gone, IInv, TypeOK, OfSlot
<1>4. ProcessStep(p)  BY <1>2, <1>3 DEF ProcessStep
<1>5. ~Alive(p)'  BY <1>2 DEF Alive, IsQemu
<1>6. ProcsKept  BY <1>2 DEF ProcsKept
<1>7. \A d \in Controllers :
        \/ ctl'[d] = ctl[d]
        \/ /\ SlotInv(d)' /\ ctl[d].pc # "save" /\ ctl'[d].pc # "save"
           /\ At(d, "l_wait") => ctl[d].child = procs[p].start
  BY <1>2, <1>6, ReportedSlot
<1>. QED  BY <1>2, <1>4, <1>5, <1>7, ProcessGuests

LEMMA QemuEndGuests ==
  ASSUME OneControllerPerRun, IInv, IInv', PlanInv, GuestInv, NEW p \in Pids,
         QemuInUse(p) \/ QemuBroken(p) \/ QemuExit(p) \/ QemuKilled(p)
  PROVE  GuestInv'
<1>1. IsQemu(p)  BY DEF QemuInUse, QemuBroken, QemuExit, QemuKilled
<1>2. CASE QemuInUse(p)  BY <1>1, <1>2, GoneGuests DEF QemuInUse
<1>3. CASE QemuBroken(p)  BY <1>1, <1>3, GoneGuests DEF QemuBroken
<1>4. CASE QemuExit(p)  BY <1>1, <1>4, GoneGuests DEF QemuExit
<1>5. CASE QemuKilled(p)  BY <1>1, <1>5, GoneGuests DEF QemuKilled
<1>. QED  BY <1>2, <1>3, <1>4, <1>5

\* The guest's process enters another stage.
LEMMA Staged ==
  ASSUME IInv, NEW p \in Pids, IsQemu(p), NEW stage, procs' = [procs EXCEPT ![p].stage = stage]
  PROVE  /\ \A q \in Pids \ {p} : procs'[q] = procs[q]
         /\ procs'[p].vm = procs[p].vm /\ procs'[p].start = procs[p].start
         /\ procs'[p].keys = procs[p].keys /\ procs'[p].stage = stage
<1>1. procs \in [Pids -> Process \cup {NoProc}] /\ procs[p] \in Process
  BY DEF IInv, TypeOK, IsQemu
<1>2. procs[p] \in [vm : VM \cup {Foreign}, start : 1..MaxStarts,
           stage : {"starting", "booting", "ready", "terminating", "killed"}, keys : SUBSET Key]
  BY <1>1 DEF Process
<1>. QED  BY <1>1, <1>2

LEMMA QemuReadyGuests ==
  ASSUME OneControllerPerRun, IInv, IInv', PlanInv, GuestInv, NEW p \in Pids, QemuReady(p)
  PROVE  GuestInv'
<1>0. IsQemu(p) /\ procs[p].stage = "booting" /\ Alive(p)  BY DEF QemuReady, Alive
<1>1. procs[p] \in Process /\ procs[p].vm.run \in Runs /\ procs[p].vm.host \in Hosts
  BY <1>0, QemuType, TypeHalves DEF IInv, IsQemu
<1>2. /\ \A q \in Pids \ {p} : procs'[q] = procs[q]
      /\ procs'[p].vm = procs[p].vm /\ procs'[p].start = procs[p].start
      /\ procs'[p].keys = procs[p].keys /\ procs'[p].stage = "ready"
  BY <1>0, Staged DEF QemuReady
<1>3. /\ clock' = clock /\ manifest' = manifest /\ mem' = mem /\ disk' = disk /\ pidfile' = pidfile
      /\ disk[procs[p].vm.run][procs[p].vm.host]
  BY DEF QemuReady, store, copies
<1>4. \A r \in Runs, h \in Hosts : ~OfSlot(p, r, h) => sock'[r][h] = sock[r][h]
  BY <1>0, <1>1 DEF QemuReady, IInv, TypeOK, OfSlot
<1>5. ProcessStep(p)  BY <1>0, <1>2, <1>3, <1>4 DEF ProcessStep
<1>6. pidfile[procs[p].vm.run][procs[p].vm.host] = p /\ manifest[procs[p].vm.run] # NoManifest
  BY <1>0 DEF GuestInv, AliveKnown
<1>7. ASSUME NEW m, Judged(procs[p].vm.run, m) PROVE AliveFits(p, procs[p].vm.run, m)'
  <2>1. AliveFits(p, procs[p].vm.run, m)  BY <1>0, <1>1, <1>7 DEF GuestInv, Fits
  <2>. QED  BY <1>2, <1>3, <2>1 DEF AliveFits, KeysOf
<1>8. ProcsKept
  <2>1. \A q \in Pids : q # p => procs'[q] = procs[q]  BY <1>2
  <2>. QED  BY <1>0, <1>2, <1>3, <2>1 DEF ProcsKept, IsQemu
<1>9. \A d \in Controllers :
        \/ ctl'[d] = ctl[d]
        \/ /\ SlotInv(d)' /\ ctl[d].pc # "save" /\ ctl'[d].pc # "save"
           /\ At(d, "l_wait") => ctl[d].child = procs[p].start
  BY <1>0, <1>3, <1>8, ReportedSlot DEF QemuReady
<1>. QED  BY <1>2, <1>3, <1>5, <1>6, <1>7, <1>9, ProcessGuests

LEMMA QemuPidfileGuests ==
  ASSUME OneControllerPerRun, IInv, IInv', PlanInv, GuestInv, NEW p \in Pids, QemuPidfile(p)
  PROVE  GuestInv'
<1>0. IsQemu(p) /\ procs[p].stage = "starting" /\ ~PidfileHeld(p)  BY DEF QemuPidfile
<1>1. procs[p] \in Process /\ procs[p].vm.run \in Runs /\ procs[p].vm.host \in Hosts
  BY <1>0, QemuType, TypeHalves DEF IInv, IsQemu
<1>2. /\ \A q \in Pids \ {p} : procs'[q] = procs[q]
      /\ procs'[p].vm = procs[p].vm /\ procs'[p].start = procs[p].start
      /\ procs'[p].keys = procs[p].keys /\ procs'[p].stage = "booting"
  BY <1>0, Staged DEF QemuPidfile
<1>3. /\ clock' = clock /\ manifest' = manifest /\ mem' = mem /\ disk' = disk /\ sock' = sock
      /\ ctl' = ctl
  BY DEF QemuPidfile, store, copies
<1>4. /\ \A r \in Runs, h \in Hosts : ~OfSlot(p, r, h) => pidfile'[r][h] = pidfile[r][h]
      /\ pidfile'[procs[p].vm.run][procs[p].vm.host] = p
  BY <1>0, <1>1 DEF QemuPidfile, IInv, TypeOK, OfSlot
<1>5. \A q \in Pids \ {p} : ~(/\ pidfile[procs[p].vm.run][procs[p].vm.host] = q /\ Alive(q)
                               /\ procs[q].vm.run = procs[p].vm.run /\ procs[q].vm.host = procs[p].vm.host)
  BY <1>0 DEF PidfileHeld, Alive
<1>6. ProcessStep(p)  BY <1>0, <1>2, <1>3, <1>4, <1>5 DEF ProcessStep
<1>7. PICK c \in Controllers :
        /\ WaitsFor(c, p) /\ SlotInv(c)
        /\ procs[p].vm.run = RunOf[c] /\ procs[p].vm.host = ctl[c].host
        /\ procs[p].vm.gen = mem[c].gen
  BY <1>0, StartingWaiter
<1>8. /\ At(c, "l_wait") /\ ctl[c].child = procs[p].start /\ Rec(c).status = "launching"
      /\ mem[c] = manifest[RunOf[c]] /\ mem[c] \in Manifest
      /\ \A d \in Controllers : Calling(d) => d = c
  BY <1>7, Waiter DEF WaitsFor, SlotInv, Launching, At
<1>9. procs[p].keys \subseteq KeysOf(mem[c], ctl[c].host)
  BY <1>0, <1>7, <1>8 DEF SlotInv, Waiting, IsQemu
<1>10. manifest[procs[p].vm.run] # NoManifest
  BY <1>7, <1>8, SentinelAssumption
<1>11. ASSUME NEW m, Judged(procs[p].vm.run, m) PROVE AliveFits(p, procs[p].vm.run, m)'
  <2>1. \A d \in Controllers : ~At(d, "save")
    BY <1>8 DEF At, Calling, LockedPCs, SavePCs
  <2>2. m = mem[c]  BY <1>7, <1>8, <1>11, <2>1 DEF Judged
  <2>. QED  BY <1>2, <1>7, <1>8, <1>9, <2>2 DEF AliveFits, KeysOf, Rec
<1>12. \A d \in Controllers : ctl'[d] = ctl[d]  BY <1>3
<1>. QED  BY <1>2, <1>4, <1>6, <1>10, <1>11, <1>12, ProcessGuests

\* A signal reaches the guest whose record the pidfd was opened for.
LEMMA SignalGuests ==
  ASSUME OneControllerPerRun, IInv, IInv', PlanInv, GuestInv, NEW c \in Controllers,
         ctl[c].pc \in SignalPCs, PidfdTarget(c) # {},
         NEW stage \in {"terminating", "killed"}, NEW pc \in {"d_wait", "d_kill_wait"},
         Signal(c, stage, pc)
  PROVE  GuestInv'
<1>1. PICK p \in Pids : procs[p] # NoProc /\ procs[p].start = ctl[c].child  BY DEF PidfdTarget
<1>2. \A q \in Pids : q \in PidfdTarget(c) <=> q = p
  BY <1>1 DEF PidfdTarget, GuestInv, StartsKnown
<1>3. SlotInv(c) /\ Opened(c)  BY DEF GuestInv, SlotInv
<1>4. Calling(c) /\ Cleaning(ctl[c]) /\ ctl[c] \in Control /\ ctl[c].pc \notin {"save", "d_release", "l_wait"}
      /\ mem[c] # NoManifest /\ mem[c] \in Manifest /\ RunOf[c] \in Runs /\ ctl[c].host \in Hosts
  BY SetsAssumption DEF SignalPCs, Calling, Cleaning, LockedPCs, CallPCs, CleanupPCs, IInv, TypeOK, CallInv,
                        CallReady, Control
<1>5. mem[c] = manifest[RunOf[c]] /\ mem[c].destroying
  BY <1>4 DEF PlanInv, PlanOf, Remembered, DestroyMarked
<1>6. procs[p].vm = Guest(RunOf[c], mem[c], ctl[c].host) /\ procs[p].vm.run = RunOf[c]
      /\ IsQemu(p) /\ procs[p].vm.host = ctl[c].host
  BY <1>1, <1>3, <1>4, GuestOf DEF Opened, IsQemu
<1>7. \A d \in Controllers : Calling(d) => d = c  BY <1>4, OneCalls
<1>8. Alive(p)
  <2>1. ASSUME procs[p].stage = "starting" PROVE FALSE
    <3>1. PICK d \in Controllers : At(d, "l_wait")
      BY <1>6, <2>1, StartingWaiter DEF WaitsFor
    <3>. QED  BY <1>4, <1>7, <3>1 DEF At, Calling, LockedPCs, CallPCs
  <2>. QED  BY <1>6, <2>1 DEF Alive
<1>9. /\ procs' = [procs EXCEPT ![p].stage = stage] /\ Goto(c, pc)
      /\ UNCHANGED <<store, lock, copies, files, clock, foreign, gens, faults>>
  <2>1. /\ procs' = [q \in Pids |-> IF q \in PidfdTarget(c) THEN [procs[q] EXCEPT !.stage = stage] ELSE procs[q]]
        /\ Goto(c, pc) /\ UNCHANGED <<store, lock, copies, files, clock, foreign, gens, faults>>
    BY DEF Signal
  <2>2. procs \in [Pids -> Process \cup {NoProc}]  BY DEF IInv, TypeOK
  <2>. QED  BY <1>2, <2>1, <2>2
<1>10. /\ \A q \in Pids \ {p} : procs'[q] = procs[q]
       /\ procs'[p].vm = procs[p].vm /\ procs'[p].start = procs[p].start
       /\ procs'[p].keys = procs[p].keys /\ procs'[p].stage = stage
  BY <1>6, <1>9, Staged
<1>11. /\ clock' = clock /\ manifest' = manifest /\ mem' = mem /\ disk' = disk /\ pidfile' = pidfile
       /\ sock' = sock
  BY <1>9 DEF store, copies, files
<1>12. ProcessStep(p)  BY <1>6, <1>10, <1>11 DEF ProcessStep
<1>13. pidfile[procs[p].vm.run][procs[p].vm.host] = p /\ manifest[procs[p].vm.run] # NoManifest
  BY <1>8 DEF GuestInv, AliveKnown
<1>14. ASSUME NEW m, Judged(procs[p].vm.run, m) PROVE AliveFits(p, procs[p].vm.run, m)'
  <2>1. AliveFits(p, procs[p].vm.run, m)  BY <1>4, <1>6, <1>8, <1>14 DEF GuestInv, Fits
  <2>2. \A d \in Controllers : ~At(d, "save")
    BY <1>4, <1>7 DEF At, Calling, LockedPCs, SavePCs
  <2>3. m.destroying  BY <1>5, <1>6, <1>14, <2>2 DEF Judged
  <2>. QED  BY <1>10, <1>11, <2>1, <2>3 DEF AliveFits, KeysOf
<1>15. /\ ctl'[c] = [ctl[c] EXCEPT !.pc = pc] /\ \A d \in Controllers \ {c} : ctl'[d] = ctl[d]
  BY <1>9 DEF Goto, Become, IInv, TypeOK
<1>16. ctl'[c].pc = pc /\ ctl'[c].host = ctl[c].host /\ ctl'[c].child = ctl[c].child
  BY <1>4, <1>15 DEF Control
<1>17. SlotInv(c)'
  <2>1. PICK h, rec, vm : /\ ctl[c].host = h /\ mem[c].rec[h] = rec /\ Guest(RunOf[c], mem[c], h) = vm
    OBVIOUS
  <2>2. /\ Rec(c) = rec /\ Rec(c)' = rec /\ Guest(RunOf[c], mem[c], ctl[c].host)' = vm
    BY <1>11, <1>16, <2>1 DEF Rec, Guest
  <2>3. rec.status = "running" /\ rec.pid \in Pids /\ ctl[c].child <= clock
    BY <1>3, <2>2 DEF Opened, PidfdPCs
  <2>4. \A q \in Pids : (procs'[q] # NoProc /\ procs'[q].start = ctl[c].child) => procs'[q].vm = vm
    BY <1>2, <1>6, <1>10, <2>1 DEF PidfdTarget
  <2>5. Opened(c)'
    BY <1>11, <1>16, <2>2, <2>3, <2>4 DEF Opened, At
  <2>6. (Emptied(c) /\ Accounted(c) /\ Launching(c) /\ Waiting(c) /\ Called(c) /\ ArgvFits(c) /\ Cleared(c)
         /\ Replaces(c))'
    BY <1>16 DEF Emptied, Accounted, Launching, Waiting, Called, ArgvFits, Cleared, Replaces, At, Saving,
                 SavePCs
  <2>. QED  BY <2>5, <2>6 DEF SlotInv
<1>18. \A d \in Controllers :
        \/ ctl'[d] = ctl[d]
        \/ /\ SlotInv(d)' /\ ctl[d].pc # "save" /\ ctl'[d].pc # "save"
           /\ At(d, "l_wait") => ctl[d].child = procs[p].start
  BY <1>4, <1>15, <1>16, <1>17 DEF At
<1>. QED  BY <1>10, <1>11, <1>12, <1>13, <1>14, <1>18, ProcessGuests

\* Processes that are nobody's guests come to an end, sockets nobody listens on are
\* removed, or nothing happens at all.
LEMMA BystanderGuests ==
  ASSUME IInv, GuestInv, clock' = clock,
         \A q \in Pids : procs'[q] = procs[q] \/ (procs[q].vm = Foreign /\ procs'[q] = NoProc),
         \A r \in Runs, h \in Hosts : sock'[r][h] \in {sock[r][h], 0},
         UNCHANGED <<store, copies, ctl, pidfile, disk>>
  PROVE  GuestInv'
<1>1. manifest' = manifest /\ mem' = mem /\ ctl' = ctl /\ pidfile' = pidfile /\ disk' = disk
  BY DEF store, copies
<1>2. ProcsKept /\ \A q \in Pids : IsQemu(q)' => procs'[q] = procs[q] /\ IsQemu(q)
  BY DEF ProcsKept, IsQemu
<1>3. StartsKnown'  BY <1>2 DEF GuestInv, StartsKnown, ProcsKept
<1>4. AliveKnown'
  <2>1. \A q \in Pids : Alive(q)' => Alive(q) /\ procs'[q] = procs[q]  BY <1>2 DEF Alive
  <2>. QED  BY <1>1, <2>1 DEF GuestInv, AliveKnown
<1>5. StartingKnown'
  <2>. SUFFICES ASSUME NEW q \in Pids, IsQemu(q)', procs'[q].stage = "starting"
                PROVE  \E c \in Controllers : WaitsFor(c, q)'
    BY DEF StartingKnown
  <2>1. procs'[q] = procs[q] /\ \E c \in Controllers : WaitsFor(c, q)
    BY <1>2 DEF GuestInv, StartingKnown
  <2>. QED  BY <1>1, <2>1 DEF WaitsFor, At, Guest
<1>6. ASSUME NEW r \in Runs, NEW m, Judged(r, m)' PROVE Fits(r, m)'
  <2>1. Judged(r, m)  BY <1>1, <1>6 DEF Judged, At
  <2>2. m \in Manifest /\ Fits(r, m)  BY <2>1, JudgedType DEF GuestInv
  <2>3. ASSUME NEW q \in Pids, Alive(q)', procs'[q].vm.run = r PROVE AliveFits(q, r, m)'
    <3>1. Alive(q) /\ procs'[q] = procs[q]  BY <1>2, <2>3 DEF Alive
    <3>2. AliveFits(q, r, m)  BY <2>2, <2>3, <3>1 DEF Fits
    <3>. QED  BY <1>1, <3>1, <3>2 DEF AliveFits, KeysOf
  <2>4. \A h \in Hosts : RecordFits(h, r, m)'  BY <1>2, <2>2, KeptRecord DEF Fits
  <2>5. \A h \in Hosts : RemovedFits(h, r, m)'  BY <1>1, <2>2 DEF Fits, RemovedFits
  <2>. QED  BY <2>3, <2>4, <2>5 DEF Fits
<1>7. ASSUME NEW d \in Controllers PROVE SlotInv(d)'
  <2>1. SlotInv(d)  BY DEF GuestInv
  <2>2. Accounted(d)' /\ Cleared(d)'
    <3>1. RunOf[d] \in Runs /\ ctl[d].host \in Hosts
      BY SetsAssumption DEF IInv, TypeOK, Control
    <3>. QED  BY <1>1, <2>1, <3>1 DEF SlotInv, Accounted, Cleared, At, Saving, Rec
  <2>. QED  BY <1>1, <1>2, <2>1, <2>2, KeptSlot
<1>. QED  BY <1>3, <1>4, <1>5, <1>6, <1>7 DEF GuestInv

\* A process starts: an unrelated one, or the QEMU that a call waits for.
NewProcess(p, vm, stage, keys) ==
  /\ procs[p] = NoProc /\ clock' = clock + 1
  /\ procs' = [procs EXCEPT ![p] = [vm |-> vm, start |-> clock + 1, stage |-> stage, keys |-> keys]]

LEMMA NewGuests ==
  ASSUME IInv, GuestInv, NEW p \in Pids, NEW vm, NEW stage, NEW keys, NewProcess(p, vm, stage, keys),
         UNCHANGED <<store, copies, files>>,
         \A d \in Controllers : At(d, "save")' <=> At(d, "save"),
         vm = Foreign => stage = "ready",
         vm # Foreign => stage = "starting",
         StartingKnown', \A d \in Controllers : SlotInv(d)'
  PROVE  GuestInv'
<1>1. /\ manifest' = manifest /\ mem' = mem /\ pidfile' = pidfile /\ sock' = sock /\ disk' = disk
      /\ clock' = clock + 1 /\ clock \in Nat
  BY SetsAssumption DEF store, copies, files, NewProcess, IInv, TypeOK
<1>2. /\ procs'[p].vm = vm /\ procs'[p].start = clock + 1 /\ procs'[p].stage = stage /\ procs'[p].keys = keys
      /\ \A q \in Pids \ {p} : procs'[q] = procs[q] /\ procs[p] = NoProc
  BY DEF NewProcess, IInv, TypeOK
<1>3. \A q \in Pids : procs[q] # NoProc => procs[q].start \in Nat /\ procs[q].start <= clock
  BY SetsAssumption DEF GuestInv, StartsKnown, IInv, TypeOK, Process
<1>4. StartsKnown'
  <2>1. \A q \in Pids : procs'[q] # NoProc => procs'[q].start <= clock'
    BY <1>1, <1>2, <1>3
  <2>2. \A q, s \in Pids :
          (procs'[q] # NoProc /\ procs'[s] # NoProc /\ procs'[q].start = procs'[s].start) => q = s
    <3>1. \A q \in Pids \ {p} : procs'[q] # NoProc => procs'[q].start # clock + 1
      BY <1>1, <1>2, <1>3
    <3>. QED  BY <1>2, <3>1 DEF GuestInv, StartsKnown
  <2>3. \A q \in Pids : (procs'[q] # NoProc /\ procs'[q].vm = Foreign) => procs'[q].stage = "ready"
    BY <1>2 DEF GuestInv, StartsKnown
  <2>. QED  BY <2>1, <2>2, <2>3 DEF StartsKnown
<1>5. \A q \in Pids : Alive(q)' => Alive(q) /\ procs'[q] = procs[q]
  BY <1>2 DEF Alive, IsQemu
<1>6. AliveKnown'  BY <1>1, <1>5 DEF GuestInv, AliveKnown
<1>7. ASSUME NEW r \in Runs, NEW m, Judged(r, m)' PROVE Fits(r, m)'
  <2>1. Judged(r, m)  BY <1>1, <1>7 DEF Judged
  <2>2. m \in Manifest /\ Fits(r, m)  BY <2>1, JudgedType DEF GuestInv
  <2>3. ASSUME NEW q \in Pids, Alive(q)', procs'[q].vm.run = r PROVE AliveFits(q, r, m)'
    <3>1. Alive(q) /\ procs'[q] = procs[q]  BY <1>5, <2>3
    <3>2. AliveFits(q, r, m)  BY <2>2, <2>3, <3>1 DEF Fits
    <3>. QED  BY <1>1, <3>1, <3>2 DEF AliveFits, KeysOf
  <2>4. ASSUME NEW h \in Hosts PROVE RecordFits(h, r, m)'
    <3>1. m.rec[h].pid \in Pids \cup {NoOne} /\ m.rec[h].start \in Nat
      BY <2>2, SetsAssumption DEF Manifest, Record
    <3>2. RecordFits(h, r, m)  BY <2>2 DEF Fits
    <3>3. m.rec[h].start <= clock /\ m.rec[h].start <= clock' /\ m.rec[h].start # clock + 1
      BY <1>1, <3>1, <3>2 DEF RecordFits
    <3>. QED  BY <1>2, <3>1, <3>2, <3>3 DEF RecordFits, Guest
  <2>5. \A h \in Hosts : RemovedFits(h, r, m)'  BY <1>1, <2>2 DEF Fits, RemovedFits
  <2>. QED  BY <2>3, <2>4, <2>5 DEF Fits
<1>. QED  BY <1>4, <1>6, <1>7 DEF GuestInv

\* What a slot's controller knows, when an unrelated program starts.
LEMMA ForeignSlot ==
  ASSUME IInv, PlanInv, GuestInv, NEW p \in Pids, NewProcess(p, Foreign, "ready", {}), NEW d \in Controllers,
         UNCHANGED <<store, copies, files, ctl>>
  PROVE  SlotInv(d)'
<1>1. /\ manifest' = manifest /\ mem' = mem /\ pidfile' = pidfile /\ sock' = sock /\ ctl' = ctl
      /\ clock' = clock + 1 /\ clock \in Nat
  BY SetsAssumption DEF store, copies, files, NewProcess, IInv, TypeOK
<1>2. /\ procs'[p].vm = Foreign /\ procs'[p].start = clock + 1
      /\ \A q \in Pids \ {p} : procs'[q] = procs[q]
  BY DEF NewProcess, IInv, TypeOK
<1>3. /\ Emptied(d) /\ Accounted(d) /\ Launching(d) /\ Waiting(d) /\ Called(d) /\ ArgvFits(d) /\ Opened(d)
      /\ Cleared(d) /\ Replaces(d)
  BY DEF GuestInv, SlotInv
<1>4. \A r, h : \A q \in Pids : OfSlot(q, r, h)' => OfSlot(q, r, h) /\ procs'[q] = procs[q]
  BY <1>2 DEF OfSlot, IsQemu
<1>5. PICK h, rec, vm, keys :
        /\ ctl[d].host = h /\ mem[d].rec[h] = rec /\ Guest(RunOf[d], mem[d], h) = vm /\ KeysOf(mem[d], h) = keys
  OBVIOUS
<1>6. /\ Rec(d) = rec /\ Rec(d)' = rec /\ ctl'[d].host = h
      /\ Guest(RunOf[d], mem[d], ctl[d].host)' = vm /\ KeysOf(mem[d], ctl[d].host)' = keys
  BY <1>1, <1>5 DEF Rec, Guest, KeysOf
<1>7. ctl[d].child \in Nat  BY SetsAssumption DEF IInv, TypeOK, Control
<1>8. Emptied(d)' /\ Replaces(d)'
  <2>1. \A g : Vacant(RunOf[d], g) => Vacant(RunOf[d], g)'  BY <1>4 DEF Vacant
  <2>. QED  BY <1>1, <1>3, <2>1 DEF Emptied, Replaces, Saving, At
<1>9. (Accounted(d) /\ Launching(d) /\ Called(d) /\ ArgvFits(d) /\ Cleared(d))'
  BY <1>1, <1>3 DEF Accounted, Launching, Called, ArgvFits, Cleared, Saving, At, Rec, KeysOf
<1>10. Waiting(d)'
  <2>1. \A q \in Pids : OfSlot(q, RunOf[d], ctl[d].host)' <=> OfSlot(q, RunOf[d], h)'
    BY <1>6 DEF OfSlot
  <2>2. At(d, "l_wait") => /\ ctl[d].child <= clock' /\ ctl[d].child # clock + 1
                           /\ \A q \in Pids : OfSlot(q, RunOf[d], h) => procs[q].start = ctl[d].child
                           /\ \A q \in Pids : (procs[q] # NoProc /\ procs[q].start = ctl[d].child) =>
                                procs[q].vm = vm /\ procs[q].keys \subseteq keys
    BY <1>1, <1>3, <1>5, <1>7 DEF Waiting
  <2>. QED  BY <1>1, <1>2, <1>4, <1>6, <2>1, <2>2 DEF Waiting, At
<1>11. Opened(d)'
  <2>1. ctl[d].pc \in PidfdPCs => rec.status = "running" /\ rec.pid \in Pids  BY <1>3, <1>6 DEF Opened
  <2>2. At(d, "d_reown") => rec.start <= clock /\ rec.start \in Nat
    <3>. SUFFICES ASSUME At(d, "d_reown") PROVE rec.start <= clock /\ rec.start \in Nat
      OBVIOUS
    <3>1. Calling(d) /\ mem[d] \in Manifest /\ mem[d] # NoManifest /\ ctl[d].host \in Hosts
          /\ RunOf[d] \in Runs /\ ctl[d].pc \notin {"save", "d_release"}
      BY SetsAssumption, SentinelAssumption DEF At, Calling, LockedPCs, CallPCs, IInv, TypeOK, CallInv, CallReady, Control
    <3>2. mem[d] = manifest[RunOf[d]]  BY <3>1 DEF PlanInv, PlanOf, Remembered
    <3>3. Fits(RunOf[d], mem[d])  BY <3>1, <3>2 DEF GuestInv, Judged
    <3>. QED  BY <1>5, <3>1, <3>3, SetsAssumption DEF Fits, RecordFits, Manifest, Record
  <2>3. (At(d, "d_reown") /\ procs'[rec.pid] # NoProc /\ procs'[rec.pid].start = rec.start) =>
          ctl[d].child = rec.start
    <3>1. At(d, "d_reown") => ctl[d].pc \in PidfdPCs /\ rec.start # clock + 1
      BY <1>1, <2>2 DEF At, PidfdPCs
    <3>. QED  BY <1>2, <1>3, <1>6, <2>1, <3>1 DEF Opened
  <2>4. ctl[d].pc \in SignalPCs =>
          /\ ctl[d].child <= clock' /\ ctl[d].child # clock + 1
          /\ \A q \in Pids : (procs[q] # NoProc /\ procs[q].start = ctl[d].child) => procs[q].vm = vm
    BY <1>1, <1>3, <1>5, <1>7 DEF Opened
  <2>5. ctl[d].pc \in SignalPCs =>
          \A q \in Pids : (procs'[q] # NoProc /\ procs'[q].start = ctl[d].child) => procs'[q].vm = vm
    BY <1>2, <2>4
  <2>. QED  BY <1>1, <1>6, <2>1, <2>3, <2>4, <2>5 DEF Opened, At
<1>. QED  BY <1>8, <1>9, <1>10, <1>11 DEF SlotInv

LEMMA ForeignGuests ==
  ASSUME IInv, PlanInv, GuestInv, NEW p \in Pids, ForeignStart(p) \/ ForeignExit(p)
  PROVE  GuestInv'
<1>1. CASE ForeignExit(p)
  <2>1. \A q \in Pids : procs'[q] = procs[q] \/ (procs[q].vm = Foreign /\ procs'[q] = NoProc)
    BY <1>1 DEF ForeignExit, IInv, TypeOK
  <2>. QED  BY <1>1, <2>1, BystanderGuests DEF ForeignExit, files
<1>2. CASE ForeignStart(p)
  <2>1. NewProcess(p, Foreign, "ready", {}) /\ UNCHANGED <<store, copies, files, ctl>>
    BY <1>2 DEF ForeignStart, NewProcess
  <2>2. \A d \in Controllers : SlotInv(d)'  BY <2>1, ForeignSlot
  <2>3. StartingKnown'
    <3>1. mem' = mem /\ ctl' = ctl  BY <2>1 DEF copies
    <3>2. \A q \in Pids : IsQemu(q)' => procs'[q] = procs[q] /\ IsQemu(q)
      BY <2>1 DEF NewProcess, IsQemu, IInv, TypeOK
    <3>. SUFFICES ASSUME NEW q \in Pids, IsQemu(q)', procs'[q].stage = "starting"
                  PROVE  \E c \in Controllers : WaitsFor(c, q)'
      BY DEF StartingKnown
    <3>3. procs'[q] = procs[q] /\ \E c \in Controllers : WaitsFor(c, q)
      BY <3>2 DEF GuestInv, StartingKnown
    <3>. QED  BY <3>1, <3>3 DEF WaitsFor, At, Guest
  <2>4. \A d \in Controllers : At(d, "save")' <=> At(d, "save")  BY <2>1 DEF At
  <2>. QED  BY <2>1, <2>2, <2>3, <2>4, NewGuests
<1>. QED  BY <1>1, <1>2

LEMMA SpawnGuests ==
  ASSUME OneControllerPerRun, IInv, PlanInv, GuestInv, NEW c \in Controllers, Spawn(c)
  PROVE  GuestInv'
<1>1. PICK p \in Pids :
        /\ procs[p] = NoProc
        /\ procs' = [procs EXCEPT ![p] = [vm |-> Guest(RunOf[c], mem[c], ctl[c].host), start |-> clock + 1,
                                          stage |-> "starting", keys |-> ctl[c].argv]]
  BY DEF Spawn
<1>2. /\ ctl[c].pc = "l_spawn" /\ ctl' = [ctl EXCEPT ![c] = [ctl[c] EXCEPT !.pc = "l_wait", !.child = clock + 1]]
      /\ manifest' = manifest /\ mem' = mem /\ pidfile' = pidfile /\ sock' = sock /\ clock' = clock + 1
      /\ UNCHANGED <<store, copies, files>>
  BY DEF Spawn, At, Become, store, copies, files
<1>3. NewProcess(p, Guest(RunOf[c], mem[c], ctl[c].host), "starting", ctl[c].argv)
  BY <1>1, <1>2 DEF NewProcess
<1>4. /\ Calling(c) /\ mem[c] \in Manifest /\ ctl[c] \in Control /\ ctl[c].host \in Hosts /\ RunOf[c] \in Runs
  BY <1>2, SetsAssumption, OwnType DEF IInv, TypeOK, CallInv, CallReady, Calling, LockedPCs, CallPCs, Control
<1>5. /\ ctl'[c].pc = "l_wait" /\ ctl'[c].child = clock + 1 /\ ctl'[c].host = ctl[c].host
      /\ ctl'[c].argv = ctl[c].argv /\ \A d \in Controllers \ {c} : ctl'[d] = ctl[d]
  BY <1>2, <1>4 DEF IInv, TypeOK, Control
<1>6. PICK h, rec, vm, keys :
        /\ ctl[c].host = h /\ mem[c].rec[h] = rec /\ Guest(RunOf[c], mem[c], h) = vm /\ KeysOf(mem[c], h) = keys
  OBVIOUS
<1>7. /\ Rec(c) = rec /\ Rec(c)' = rec /\ ctl'[c].host = h
      /\ Guest(RunOf[c], mem[c], ctl[c].host)' = vm /\ KeysOf(mem[c], ctl[c].host)' = keys
  BY <1>2, <1>5, <1>6 DEF Rec, Guest, KeysOf
<1>8. /\ Vacant(RunOf[c], h) /\ rec.status = "launching" /\ ctl[c].argv = keys
  BY <1>2, <1>6, <1>7 DEF GuestInv, SlotInv, Emptied, Launching, ArgvFits
<1>9. /\ procs'[p].vm = vm /\ procs'[p].start = clock + 1 /\ procs'[p].keys = keys /\ procs'[p].stage = "starting"
      /\ procs'[p] # NoProc
      /\ \A q \in Pids \ {p} : procs'[q] = procs[q]
  <2>1. procs' \in [Pids -> Process \cup {NoProc}] /\ procs'[p].start = clock + 1
        /\ procs'[p] = [vm |-> vm, start |-> clock + 1, stage |-> "starting", keys |-> keys]
    <3>1. TypeOK'  BY SpawnKeeps DEF IInv
    <3>. QED  BY <1>1, <1>6, <1>8, <3>1 DEF IInv, TypeOK
  <2>2. procs'[p] # NoProc
    <3>1. [vm |-> vm, start |-> clock + 1, stage |-> "starting", keys |-> keys] \in Process
      <4>1. vm \in VM  BY <1>4, <1>6 DEF Guest, VM, Manifest
      <4>2. clock + 1 \in 1..MaxStarts  BY SetsAssumption DEF Spawn, IInv, TypeOK
      <4>3. keys \subseteq Key  BY <1>4, <1>8 DEF Control
      <4>. QED  BY <4>1, <4>2, <4>3 DEF Process
    <3>. QED  BY <2>1, <3>1, SentinelAssumption
  <2>. QED  BY <1>1, <2>1, <2>2
<1>10. \A q \in Pids : procs[q] # NoProc => procs[q].start # clock + 1
  BY SetsAssumption DEF GuestInv, StartsKnown, IInv, TypeOK, Process
<1>11. \A q \in Pids : OfSlot(q, RunOf[c], h)' => q = p
  BY <1>8, <1>9 DEF OfSlot, Vacant, IsQemu
<1>12. SlotInv(c)'
  <2>1. \A q \in Pids : OfSlot(q, RunOf[c], ctl[c].host)' <=> OfSlot(q, RunOf[c], h)'
    BY <1>7 DEF OfSlot
  <2>2. \A q \in Pids : (procs'[q] # NoProc /\ procs'[q].start = clock + 1) => q = p
    BY <1>9, <1>10
  <2>3. clock + 1 <= clock'  BY <1>2, SetsAssumption DEF IInv, TypeOK
  <2>4. Waiting(c)'
    BY <1>5, <1>7, <1>9, <1>11, <2>1, <2>2, <2>3 DEF Waiting
  <2>5. Launching(c)' /\ ArgvFits(c)'
    BY <1>5, <1>7, <1>8 DEF Launching, ArgvFits, At, Saving, SavePCs
  <2>6. (Emptied(c) /\ Accounted(c) /\ Called(c) /\ Opened(c) /\ Cleared(c) /\ Replaces(c))'
    BY <1>5 DEF Emptied, Accounted, Called, Opened, Cleared, Replaces, At, Saving, SavePCs, PidfdPCs,
                SignalPCs
  <2>. QED  BY <2>4, <2>5, <2>6 DEF SlotInv
<1>13. ASSUME NEW d \in Controllers, d # c PROVE SlotInv(d)'
  <2>1. ~Calling(d)  BY <1>4, <1>13, OneCalls
  <2>. QED  BY <1>2, <1>5, <1>13, <2>1, IdleSlot DEF GuestInv
<1>14. StartingKnown'
  <2>. SUFFICES ASSUME NEW q \in Pids, IsQemu(q)', procs'[q].stage = "starting"
                PROVE  \E d \in Controllers : WaitsFor(d, q)'
    BY DEF StartingKnown
  <2>1. CASE q = p  BY <1>5, <1>7, <1>9, <2>1 DEF WaitsFor, At
  <2>2. CASE q # p
    <3>1. IsQemu(q) /\ procs[q].stage = "starting"  BY <1>9, <2>2 DEF IsQemu
    <3>2. PICK d \in Controllers : At(d, "l_wait")  BY <3>1, StartingWaiter DEF WaitsFor
    <3>. QED  BY <1>2, <1>4, <3>2, Waiter DEF At
  <2>. QED  BY <2>1, <2>2
<1>15. \A d \in Controllers : At(d, "save")' <=> At(d, "save")
  BY <1>2, <1>5 DEF At
<1>16. Guest(RunOf[c], mem[c], ctl[c].host) # Foreign  BY <1>4, GuestOf
<1>. QED  BY <1>2, <1>3, <1>12, <1>13, <1>14, <1>15, <1>16, NewGuests

-------------------------------------------------------------------------------
(* Steps of controllers                                                    *)

\* A step of c leaves the processes, the other controllers and the other runs alone.
Alone(c) ==
  /\ procs' = procs /\ clock' = clock
  /\ \A d \in Controllers \ {c} : ctl'[d] = ctl[d] /\ mem'[d] = mem[d]
  /\ \A r \in Runs \ {RunOf[c]} : /\ manifest'[r] = manifest[r] /\ pidfile'[r] = pidfile[r]
                                  /\ sock'[r] = sock[r] /\ disk'[r] = disk[r]

\* The QEMU that c waits for, if any, has written its pidfile.
Awaited(c) == At(c, "l_wait") => \A p \in Pids :
  ~(procs[p] # NoProc /\ procs[p].start = ctl[c].child /\ procs[p].stage = "starting")

LEMMA OtherSlot ==
  ASSUME NEW c \in Controllers, NEW d \in Controllers, d # c, Alone(c), SlotInv(d), RunOf[d] # RunOf[c]
  PROVE  SlotInv(d)'
<1>1. /\ ctl'[d] = ctl[d] /\ mem'[d] = mem[d] /\ manifest'[RunOf[d]] = manifest[RunOf[d]]
      /\ pidfile'[RunOf[d]] = pidfile[RunOf[d]] /\ sock'[RunOf[d]] = sock[RunOf[d]]
      /\ procs' = procs /\ clock' = clock
  BY SetsAssumption DEF Alone
<1>2. \A r, h : Vacant(r, h)' <=> Vacant(r, h)  BY <1>1 DEF Vacant, OfSlot, IsQemu
<1>3. (Emptied(d) /\ Accounted(d) /\ Launching(d) /\ Called(d) /\ ArgvFits(d) /\ Cleared(d) /\ Replaces(d))'
  BY <1>1, <1>2 DEF SlotInv, Emptied, Accounted, Launching, Called, ArgvFits, Cleared, Replaces, At, Saving,
                    Rec, KeysOf
<1>4. Waiting(d)'  BY <1>1 DEF SlotInv, Waiting, At, OfSlot, IsQemu, Guest, KeysOf
<1>5. Opened(d)'  BY <1>1 DEF SlotInv, Opened, At, Rec, Guest
<1>. QED  BY <1>3, <1>4, <1>5 DEF SlotInv

LEMMA StepGuests ==
  ASSUME OneControllerPerRun, IInv, PlanInv, GuestInv, NEW c \in Controllers, Alone(c), Awaited(c),
         \A p \in Pids : (Alive(p) /\ procs[p].vm.run = RunOf[c]) =>
           pidfile'[RunOf[c]][procs[p].vm.host] = p /\ manifest'[RunOf[c]] # NoManifest,
         \A m : (m = manifest'[RunOf[c]] /\ m # NoManifest) => Fits(RunOf[c], m)',
         \A m : (ctl'[c].pc = "save" /\ m = mem'[c]) => Fits(RunOf[c], m)',
         SlotInv(c)'
  PROVE  GuestInv'
<1>1. procs' = procs /\ clock' = clock  BY DEF Alone
<1>2. StartsKnown'  BY <1>1 DEF GuestInv, StartsKnown
<1>3. \A d \in Controllers \ {c} : RunOf[d] # RunOf[c]  BY DEF OneControllerPerRun
<1>4. \A p \in Pids : Alive(p)' <=> Alive(p)  BY <1>1 DEF Alive, IsQemu
<1>5. AliveKnown'
  <2>. SUFFICES ASSUME NEW p \in Pids, Alive(p)
                PROVE  /\ pidfile'[procs[p].vm.run][procs[p].vm.host] = p
                       /\ manifest'[procs[p].vm.run] # NoManifest
    BY <1>1, <1>4 DEF AliveKnown
  <2>1. procs[p].vm.run \in Runs  BY QemuType, TypeHalves DEF IInv, Alive
  <2>2. CASE procs[p].vm.run = RunOf[c]  BY <2>2
  <2>3. CASE procs[p].vm.run # RunOf[c]
    BY <2>1, <2>3 DEF GuestInv, AliveKnown, Alone
  <2>. QED  BY <2>2, <2>3
<1>6. StartingKnown'
  <2>. SUFFICES ASSUME NEW p \in Pids, IsQemu(p), procs[p].stage = "starting"
                PROVE  \E d \in Controllers : WaitsFor(d, p)'
    BY <1>1 DEF StartingKnown, IsQemu
  <2>1. PICK d \in Controllers : WaitsFor(d, p)  BY DEF GuestInv, StartingKnown
  <2>2. d # c  BY <2>1 DEF Awaited, WaitsFor, IsQemu
  <2>3. ctl'[d] = ctl[d] /\ mem'[d] = mem[d]  BY <2>2 DEF Alone
  <2>. QED  BY <1>1, <2>1, <2>3 DEF WaitsFor, At, Guest
<1>7. ASSUME NEW r \in Runs, NEW m, Judged(r, m)' PROVE Fits(r, m)'
  <2>1. CASE r = RunOf[c]
    <3>1. \A d \in Controllers : RunOf[d] = r => d = c  BY <1>3, <2>1
    <3>. QED  BY <1>7, <2>1, <3>1 DEF Judged, At
  <2>2. CASE r # RunOf[c]
    <3>1. manifest'[r] = manifest[r] /\ pidfile'[r] = pidfile[r] /\ sock'[r] = sock[r] /\ disk'[r] = disk[r]
      BY <2>2 DEF Alone
    <3>2. \A d \in Controllers : RunOf[d] = r => ctl'[d] = ctl[d] /\ mem'[d] = mem[d]
      BY <2>2 DEF Alone
    <3>3. Judged(r, m)  BY <1>7, <3>1, <3>2 DEF Judged, At
    <3>4. Fits(r, m)  BY <3>3 DEF GuestInv
    <3>5. \A p \in Pids : AliveFits(p, r, m) => AliveFits(p, r, m)'
      BY <1>1, <3>1 DEF AliveFits, KeysOf
    <3>6. \A h \in Hosts : RecordFits(h, r, m) /\ RemovedFits(h, r, m) => (RecordFits(h, r, m) /\ RemovedFits(h, r, m))'
      BY <1>1, <3>1 DEF RecordFits, RemovedFits, Guest
    <3>. QED  BY <1>1, <1>4, <3>4, <3>5, <3>6 DEF Fits
  <2>. QED  BY <2>1, <2>2
<1>8. ASSUME NEW d \in Controllers PROVE SlotInv(d)'
  BY <1>3, OtherSlot DEF GuestInv
<1>. QED  BY <1>2, <1>5, <1>6, <1>7, <1>8 DEF GuestInv

\* Nothing of what a manifest is judged by changes.
Undisturbed == UNCHANGED <<procs, clock, files>>

LEMMA FitsSame == Undisturbed => \A r, m : Fits(r, m) => Fits(r, m)'
<1>. SUFFICES ASSUME Undisturbed, NEW r, NEW m, Fits(r, m) PROVE Fits(r, m)'  OBVIOUS
<1>1. procs' = procs /\ clock' = clock /\ pidfile' = pidfile /\ sock' = sock /\ disk' = disk
  BY DEF Undisturbed, files
<1>2. \A p \in Pids : /\ Alive(p)' <=> Alive(p)
                      /\ AliveFits(p, r, m) => AliveFits(p, r, m)'
  BY <1>1 DEF Alive, IsQemu, AliveFits, KeysOf
<1>3. \A h \in Hosts : RecordFits(h, r, m) /\ RemovedFits(h, r, m) => (RecordFits(h, r, m) /\ RemovedFits(h, r, m))'
  BY <1>1 DEF RecordFits, RemovedFits, Guest
<1>. QED  BY <1>1, <1>2, <1>3 DEF Fits

LEMMA UndisturbedAlone ==
  ASSUME IInv, NEW c \in Controllers, Undisturbed, manifest' = manifest, NEW x, Become(c, x),
         mem' = mem \/ \E n : mem' = [mem EXCEPT ![c] = n]
  PROVE  /\ Alone(c) /\ ctl'[c] = x
         /\ \A p \in Pids : (GuestInv /\ Alive(p) /\ procs[p].vm.run = RunOf[c]) =>
              pidfile'[RunOf[c]][procs[p].vm.host] = p /\ manifest'[RunOf[c]] # NoManifest
BY DEF Undisturbed, files, Alone, Become, IInv, TypeOK, GuestInv, AliveKnown

\* A controller goes on, or its call ends.
LEMMA MovingGuests ==
  ASSUME OneControllerPerRun, IInv, PlanInv, GuestInv, NEW c \in Controllers, Awaited(c), Undisturbed,
         manifest' = manifest, NEW x, Become(c, x), mem' = mem \/ \E n : mem' = [mem EXCEPT ![c] = n],
         x.pc # "save", SlotInv(c)'
  PROVE  GuestInv'
<1>1. /\ Alone(c) /\ ctl'[c] = x
      /\ \A p \in Pids : (Alive(p) /\ procs[p].vm.run = RunOf[c]) =>
           pidfile'[RunOf[c]][procs[p].vm.host] = p /\ manifest'[RunOf[c]] # NoManifest
  BY UndisturbedAlone
<1>2. \A m : (m = manifest'[RunOf[c]] /\ m # NoManifest) => Fits(RunOf[c], m)'
  <2>1. \A m : (m = manifest[RunOf[c]] /\ m # NoManifest) => Fits(RunOf[c], m)
    BY SetsAssumption DEF GuestInv, Judged
  <2>. QED  BY <2>1, FitsSame
<1>. QED  BY <1>1, <1>2, StepGuests

\* ... and nothing is known of its slot.
LEMMA PlainGuests ==
  ASSUME OneControllerPerRun, IInv, PlanInv, GuestInv, NEW c \in Controllers, Awaited(c), Undisturbed,
         manifest' = manifest, NEW x, Become(c, x), mem' = mem \/ \E n : mem' = [mem EXCEPT ![c] = n],
         x.pc \in PlainPCs
  PROVE  GuestInv'
<1>1. ctl'[c] = x  BY UndisturbedAlone
<1>2. SlotInv(c)'  BY <1>1, PlainSlot
<1>3. x.pc # "save"  BY DEF PlainPCs
<1>. QED  BY <1>2, <1>3, MovingGuests

\* A call begins to save n.
LEMMA SavingGuests ==
  ASSUME OneControllerPerRun, IInv, PlanInv, GuestInv, NEW c \in Controllers, ctl[c].pc # "l_wait", Undisturbed,
         manifest' = manifest, NEW x, Become(c, x), NEW n, mem' = [mem EXCEPT ![c] = n],
         Fits(RunOf[c], n), SlotInv(c)'
  PROVE  GuestInv'
<1>1. /\ Alone(c) /\ ctl'[c] = x
      /\ \A p \in Pids : (Alive(p) /\ procs[p].vm.run = RunOf[c]) =>
           pidfile'[RunOf[c]][procs[p].vm.host] = p /\ manifest'[RunOf[c]] # NoManifest
  BY UndisturbedAlone
<1>2. Awaited(c) /\ mem'[c] = n  BY DEF Awaited, At, IInv, TypeOK
<1>3. \A m : (m = manifest'[RunOf[c]] /\ m # NoManifest) => Fits(RunOf[c], m)'
  <2>1. \A m : (m = manifest[RunOf[c]] /\ m # NoManifest) => Fits(RunOf[c], m)
    BY SetsAssumption DEF GuestInv, Judged
  <2>. QED  BY <2>1, FitsSame
<1>4. \A m : (ctl'[c].pc = "save" /\ m = mem'[c]) => Fits(RunOf[c], m)'
  BY <1>2, FitsSame
<1>. QED  BY <1>1, <1>2, <1>3, <1>4, StepGuests

\* What is known while a save runs, when it does not return to a launch.
LEMMA SavedSlot ==
  ASSUME NEW c \in Controllers, ctl'[c].pc = "save", ctl'[c].then \notin {"l_owned", "l_spawn"}, Replaces(c)'
  PROVE  SlotInv(c)'
BY DEF SlotInv, Emptied, Accounted, Launching, Waiting, Called, ArgvFits, Opened, Cleared, At, Saving, SavePCs,
       PidfdPCs, SignalPCs

\* A copy with the endpoints of the manifest.
LEMMA SameReplaces ==
  ASSUME NEW c \in Controllers, manifest' = manifest, mem[c] = manifest[RunOf[c]],
         \A h \in Hosts : mem'[c].rec[h].keys = mem[c].rec[h].keys
  PROVE  Replaces(c)'
BY DEF Replaces

\* What a call knows while it saves nothing.
LEMMA Caller ==
  ASSUME IInv, PlanInv, GuestInv, NEW c \in Controllers, ctl[c].pc \in CallPCs \ {"d_release"},
         mem[c] # NoManifest
  PROVE  /\ Calling(c) /\ ctl[c] \in Control /\ ctl[c].host \in Hosts /\ RunOf[c] \in Runs
         /\ mem[c] \in Manifest /\ mem[c] = manifest[RunOf[c]] /\ manifest[RunOf[c]] # NoManifest
         /\ mem[c].rec[ctl[c].host] \in Record
         /\ Fits(RunOf[c], mem[c]) /\ SlotInv(c)
         /\ ctl[c].pc # "l_wait" => Awaited(c) /\ \A p \in Pids : IsQemu(p) => Alive(p)
<1>1. /\ Calling(c) /\ ctl[c] \in Control /\ RunOf[c] \in Runs /\ mem[c] \in Manifest
      /\ ctl[c].pc \notin {"save", "d_release"}
  BY SetsAssumption DEF Calling, LockedPCs, CallPCs, SavePCs, IInv, TypeOK
<1>2. mem[c] = manifest[RunOf[c]]  BY <1>1 DEF PlanInv, PlanOf, Remembered
<1>3. Fits(RunOf[c], mem[c]) /\ SlotInv(c)  BY <1>1, <1>2 DEF GuestInv, Judged
<1>4. ctl[c].host \in Hosts /\ mem[c].rec[ctl[c].host] \in Record  BY <1>1 DEF Control, Manifest
<1>5. ASSUME ctl[c].pc # "l_wait" PROVE Awaited(c) /\ \A p \in Pids : IsQemu(p) => Alive(p)
  <2>1. ASSUME NEW p \in Pids, IsQemu(p), procs[p].stage = "starting" PROVE FALSE
    <3>1. PICK d \in Controllers : At(d, "l_wait")  BY <2>1, StartingWaiter DEF WaitsFor
    <3>. QED  BY <1>1, <1>5, <3>1, Waiter DEF At
  <2>. QED  BY <1>5, <2>1 DEF Awaited, At, Alive
<1>. QED  BY <1>1, <1>2, <1>3, <1>4, <1>5

LEMMA ReturnGuests ==
  ASSUME OneControllerPerRun, IInv, PlanInv, GuestInv, NEW c \in Controllers, NEW x, Return(c, x),
         x.pc \in PlainPCs, ctl[c].pc # "l_wait"
  PROVE  GuestInv'
<1>1. /\ Undisturbed /\ manifest' = manifest /\ Become(c, x) /\ mem' = [mem EXCEPT ![c] = NoManifest]
  BY DEF Return, Unlock, Undisturbed, store, os, files
<1>2. Awaited(c)  BY DEF Awaited, At
<1>. QED  BY <1>1, <1>2, PlainGuests

LEMMA FailGuests ==
  ASSUME OneControllerPerRun, IInv, PlanInv, GuestInv, NEW c \in Controllers, Fail(c), ctl[c].pc # "l_wait"
  PROVE  GuestInv'
BY ReturnGuests, IdleFits DEF Fail, PlainPCs

LEMMA LaunchedGuests ==
  ASSUME OneControllerPerRun, IInv, PlanInv, GuestInv, NEW c \in Controllers, Launched(c), ctl[c].pc # "l_wait"
  PROVE  GuestInv'
<1>. DEFINE left == ctl[c].todo \ {ctl[c].host}
            x == IF left = {} THEN IdleControl ELSE [ctl[c] EXCEPT !.pc = "status_call", !.todo = left]
<1>1. x.pc \in PlainPCs  BY IdleFits DEF PlainPCs, IInv, TypeOK, Control
<1>2. Return(c, x)  BY DEF Launched
<1>. HIDE DEF x
<1>. QED  BY <1>1, <1>2, ReturnGuests

LEMMA LocalGuests ==
  ASSUME OneControllerPerRun, IInv, PlanInv, GuestInv, NEW c \in Controllers, NEW x, Become(c, x),
         UNCHANGED <<store, copies, files, procs, clock>>, x.pc \in PlainPCs, ctl[c].pc # "l_wait"
  PROVE  GuestInv'
<1>1. Undisturbed /\ manifest' = manifest /\ mem' = mem  BY DEF Undisturbed, store, copies
<1>2. Awaited(c)  BY DEF Awaited, At
<1>. QED  BY <1>1, <1>2, PlainGuests

LEMMA CollectedGuests ==
  ASSUME OneControllerPerRun, IInv, PlanInv, GuestInv, NEW c \in Controllers, Become(c, Collected(c)),
         UNCHANGED <<store, copies, files, procs, clock>>, ctl[c].pc # "l_wait"
  PROVE  GuestInv'
<1>1. Collected(c).pc \in PlainPCs  BY DEF Collected, PlainPCs, IInv, TypeOK, Control
<1>. QED  BY <1>1, LocalGuests

LEMMA CollectGuests ==
  ASSUME OneControllerPerRun, IInv, PlanInv, GuestInv, NEW c \in Controllers, Collect(c), ctl[c].pc # "l_wait"
  PROVE  GuestInv'
BY CollectedGuests DEF Collect, Local, os

\* A call goes on at another program counter.
LEMMA MovedGuests ==
  ASSUME OneControllerPerRun, IInv, PlanInv, GuestInv, NEW c \in Controllers, NEW pc, Move(c, pc),
         pc # "save", ctl[c].pc # "l_wait",
         (ctl'[c].pc = pc /\ ctl'[c].host = ctl[c].host /\ ctl'[c].child = ctl[c].child
          /\ ctl'[c].argv = ctl[c].argv /\ mem' = mem /\ manifest' = manifest /\ procs' = procs
          /\ pidfile' = pidfile /\ sock' = sock /\ clock' = clock) => SlotInv(c)'
  PROVE  GuestInv'
<1>. DEFINE x == [ctl[c] EXCEPT !.pc = pc]
<1>1. ctl[c] \in Control  BY DEF IInv, TypeOK
<1>2. /\ x.pc = pc /\ x.host = ctl[c].host /\ x.child = ctl[c].child /\ x.argv = ctl[c].argv
  BY <1>1 DEF Control
<1>3. /\ Become(c, x) /\ Undisturbed /\ manifest' = manifest /\ mem' = mem
      /\ procs' = procs /\ pidfile' = pidfile /\ sock' = sock /\ clock' = clock
  BY DEF Move, Local, Undisturbed, store, copies, os, files
<1>. HIDE DEF x
<1>4. ctl'[c] = x /\ Awaited(c)  BY <1>3, UndisturbedAlone DEF Awaited, At
<1>5. SlotInv(c)'  BY <1>2, <1>3, <1>4
<1>. QED  BY <1>2, <1>3, <1>4, <1>5, MovingGuests

LEMMA MovedPlain ==
  ASSUME OneControllerPerRun, IInv, PlanInv, GuestInv, NEW c \in Controllers, NEW pc \in PlainPCs, Move(c, pc),
         ctl[c].pc # "l_wait"
  PROVE  GuestInv'
<1>1. pc # "save"  BY DEF PlainPCs
<1>2. ctl'[c].pc = pc => SlotInv(c)'  BY PlainSlot
<1>. QED  BY <1>1, <1>2, MovedGuests

LEMMA PlayGuests ==
  ASSUME OneControllerPerRun, IInv, PlanInv, GuestInv, NEW c \in Controllers,
         (\E play \in {"create", "destroy"} : Start(c, play)) \/ Status(c) \/ Enter(c)
  PROVE  GuestInv'
<1>1. ctl[c] \in Control  BY DEF IInv, TypeOK
<1>2. ASSUME NEW play \in {"create", "destroy"}, Start(c, play) PROVE GuestInv'
  <2>. DEFINE x == [IdleControl EXCEPT
                      !.pc = IF play = "create" THEN "reserve_call" ELSE "destroy_call",
                      !.play = play, !.todo = Hosts]
  <2>1. x.pc \in PlainPCs  BY DEF IdleControl, PlainPCs
  <2>2. Become(c, x) /\ UNCHANGED <<store, copies, files, procs, clock>> /\ ctl[c].pc = "idle"
    BY <1>2 DEF Start, Local, At, os
  <2>. HIDE DEF x
  <2>. QED  BY <2>1, <2>2, LocalGuests
<1>3. CASE Status(c)
  <2>1. ctl[c].pc = "status_call"  BY <1>3 DEF Status, At
  <2>2. CASE Local(c, IdleControl)
    BY <2>1, <2>2, IdleFits, LocalGuests DEF Local, os, PlainPCs
  <2>3. ASSUME NEW h \in ctl[c].todo,
               Local(c, [ctl[c] EXCEPT !.pc = "launch_call", !.host = h, !.tries = 0, !.child = 0,
                           !.argv = {manifest[RunOf[c]].rec[h].keys[e] : e \in Endpoints}])
        PROVE  GuestInv'
    <3>. DEFINE x == [ctl[c] EXCEPT !.pc = "launch_call", !.host = h, !.tries = 0, !.child = 0,
                        !.argv = {manifest[RunOf[c]].rec[h].keys[e] : e \in Endpoints}]
    <3>1. x.pc = "launch_call" /\ x.host = h /\ x.argv = KeysOf(manifest[RunOf[c]], h)
      BY <1>1 DEF Control, KeysOf
    <3>2. Become(c, x) /\ Undisturbed /\ manifest' = manifest /\ mem' = mem
      BY <2>3 DEF Local, Undisturbed, os, store, copies
    <3>. HIDE DEF x
    <3>3. ctl'[c] = x /\ Awaited(c)  BY <2>1, <3>2, UndisturbedAlone DEF Awaited, At
    <3>4. SlotInv(c)'
      <4>1. Called(c)'
        <5>1. KeysOf(manifest[RunOf[c]], h)' = KeysOf(manifest[RunOf[c]], h)
          BY <3>2 DEF KeysOf
        <5>. QED  BY <3>1, <3>2, <3>3, <5>1 DEF Called, KeysOf
      <4>. QED
        BY <3>1, <3>3, <4>1 DEF SlotInv, Emptied, Accounted, Launching, Waiting, ArgvFits, Opened, Cleared, Replaces,
                           At, Saving, SavePCs, PidfdPCs, SignalPCs
    <3>. QED  BY <3>1, <3>2, <3>3, <3>4, MovingGuests
  <2>. QED  BY <1>3, <2>2, <2>3 DEF Status
<1>4. CASE Enter(c)
  <2>. DEFINE pc == CASE At(c, "reserve_call") -> "reserve"
                      [] At(c, "launch_call") -> "launch"
                      [] At(c, "destroy_call") -> "destroy"
              x == [ctl[c] EXCEPT !.pc = pc]
  <2>1. /\ ctl[c].pc \in {"reserve_call", "launch_call", "destroy_call"}
        /\ Become(c, x) /\ Undisturbed /\ manifest' = manifest
        /\ mem' = [mem EXCEPT ![c] = manifest[RunOf[c]]]
    BY <1>4 DEF Enter, Goto, Undisturbed, os, store
  <2>2. x.pc = pc /\ x.host = ctl[c].host /\ x.argv = ctl[c].argv  BY <1>1 DEF Control
  <2>3. /\ At(c, "launch_call") => pc = "launch"
        /\ ~At(c, "launch_call") => pc \in {"reserve", "destroy"}
    BY <2>1 DEF At
  <2>. HIDE DEF x, pc
  <2>4. ctl'[c] = x /\ Awaited(c) /\ mem'[c] = manifest[RunOf[c]]
    BY <2>1, UndisturbedAlone DEF Awaited, At, IInv, TypeOK
  <2>5. CASE ~At(c, "launch_call")
    BY <2>1, <2>2, <2>3, <2>4, <2>5, PlainGuests DEF PlainPCs
  <2>6. CASE At(c, "launch_call")
    <3>1. ctl[c].argv = KeysOf(manifest[RunOf[c]], ctl[c].host)
      BY <2>6 DEF GuestInv, SlotInv, Called
    <3>2. ArgvFits(c)'  BY <2>2, <2>4, <3>1 DEF ArgvFits, KeysOf
    <3>3. SlotInv(c)'
      BY <2>2, <2>3, <2>4, <2>6, <3>2 DEF SlotInv, Emptied, Accounted, Launching, Waiting, Called, Opened, Cleared,
                         Replaces, At, Saving, SavePCs, PidfdPCs, SignalPCs
    <3>. QED  BY <2>1, <2>2, <2>3, <2>4, <2>6, <3>3, MovingGuests
  <2>. QED  BY <2>5, <2>6
<1>. QED  BY <1>2, <1>3, <1>4

-------------------------------------------------------------------------------
(* What a call finds out about a guest                                     *)

\* Who the guest's record identifies, if anybody.
LEMMA OwnedGuest ==
  ASSUME IInv, NEW r \in Runs, NEW m \in Manifest, NEW h \in Hosts, Fits(r, m), Owned(r, m, h) = "yes"
  PROVE  LET rec == m.rec[h] IN
         /\ rec.pid \in Pids /\ procs[rec.pid] # NoProc /\ procs[rec.pid].start = rec.start
         /\ rec.status = "running" /\ procs[rec.pid].vm = Guest(r, m, h)
<1>1. m.rec[h].pid \in Pids \cup {NoOne}  BY DEF Manifest, Record
<1>2. RecordFits(h, r, m)  BY DEF Fits
<1>. QED  BY <1>1, <1>2 DEF Owned, RecordFits

\* A guest without a recorded process has none, unless it was being launched.
LEMMA NotOwned ==
  ASSUME IInv, GuestInv, NEW r \in Runs, NEW m \in Manifest, NEW h \in Hosts, Fits(r, m),
         Owned(r, m, h) = "no", \A p \in Pids : IsQemu(p) => Alive(p),
         m.rec[h].status = "launching" => pidfile[r][h] = NoOne
  PROVE  Vacant(r, h)
<1>. SUFFICES ASSUME NEW p \in Pids, OfSlot(p, r, h) PROVE FALSE  BY DEF Vacant
<1>1. Alive(p) /\ procs[p].vm.run = r /\ procs[p].vm.host = h /\ procs[p] # NoProc
  BY DEF OfSlot, IsQemu
<1>2. AliveFits(p, r, m)  BY <1>1 DEF Fits
<1>3. pidfile[r][h] = p  BY <1>1 DEF GuestInv, AliveKnown
<1>4. m.rec[h].status = "running" /\ m.rec[h].pid = p
  BY <1>1, <1>2, <1>3, SentinelAssumption DEF AliveFits
<1>. QED  BY <1>1, <1>4, SentinelAssumption DEF Owned

\* A recovered launch is the guest's own process, or nobody's.
LEMMA RecoveredGuest ==
  ASSUME IInv, GuestInv, NEW r \in Runs, NEW m \in Manifest, NEW h \in Hosts
  PROVE  /\ Recovery(r, m, h) = "running" =>
              /\ pidfile[r][h] \in Pids /\ procs[pidfile[r][h]] # NoProc
              /\ procs[pidfile[r][h]].vm = Guest(r, m, h)
         /\ Recovery(r, m, h) = "stopped" =>
              \A p \in Pids : ~(Alive(p) /\ procs[p].vm.run = r /\ procs[p].vm.host = h)
         /\ (Recovery(r, m, h) = "unchanged" /\ m.rec[h].status = "launching") => pidfile[r][h] = NoOne
<1>1. pidfile[r][h] \in Pids \cup {NoOne}  BY DEF IInv, TypeOK
<1>2. ASSUME Recovery(r, m, h) = "running"
      PROVE  /\ pidfile[r][h] \in Pids /\ procs[pidfile[r][h]] # NoProc
             /\ procs[pidfile[r][h]].vm = Guest(r, m, h)
  <2>1. QmpUuid(r, h) = Guest(r, m, h)  BY <1>2 DEF Recovery
  <2>2. Guest(r, m, h) \in VM  BY DEF Guest, VM, Manifest
  <2>3. PICK q \in Pids : /\ procs[q] # NoProc /\ procs[q].stage \in {"ready", "terminating"}
                          /\ procs[q].vm = Guest(r, m, h)
    BY <2>1, <2>2, SentinelAssumption DEF QmpUuid
  <2>4. Alive(q) /\ procs[q].vm.run = r /\ procs[q].vm.host = h
    BY <2>3, GuestOf DEF Alive, IsQemu
  <2>5. pidfile[r][h] = q  BY <2>4 DEF GuestInv, AliveKnown
  <2>. QED  BY <2>3, <2>5
<1>3. ASSUME Recovery(r, m, h) = "stopped", NEW p \in Pids, Alive(p), procs[p].vm.run = r, procs[p].vm.host = h
      PROVE  FALSE
  <2>1. pidfile[r][h] = p  BY <1>3 DEF GuestInv, AliveKnown
  <2>2. procs[p] = NoProc  BY <1>3, <2>1 DEF Recovery
  <2>. QED  BY <1>3, <2>2 DEF Alive, IsQemu
<1>4. ASSUME Recovery(r, m, h) = "unchanged", m.rec[h].status = "launching"
      PROVE  pidfile[r][h] = NoOne
  BY <1>4 DEF Recovery
<1>. QED  BY <1>2, <1>3, <1>4

\* What the recovered record says holds of the processes there are.
LEMMA RecoveredFits ==
  ASSUME IInv, GuestInv, NEW r \in Runs, NEW m \in Manifest, NEW h \in Hosts, Fits(r, m),
         Recovery(r, m, h) \in {"stopped", "running"}
  PROVE  Fits(r, Recovered(r, m, h))
<1>. DEFINE n == Recovered(r, m, h)
            f == pidfile[r][h]
<1>1. /\ n \in Manifest /\ n.gen = m.gen /\ n.destroying = m.destroying
      /\ \A g \in Hosts \ {h} : n.rec[g] = m.rec[g]
      /\ m.rec[h].status = "launching" /\ n.rec[h].keys = m.rec[h].keys
      /\ \/ Recovery(r, m, h) = "stopped"
            /\ n.rec[h].status = "stopped" /\ n.rec[h].pid = NoOne /\ n.rec[h].start = 0
         \/ Recovery(r, m, h) = "running"
            /\ n.rec[h].status = "running" /\ n.rec[h].pid = f /\ n.rec[h].start = procs[f].start
  BY RecoveredManifest DEF IInv
<1>. HIDE DEF n
<1>2. \A g \in Hosts : Guest(r, n, g) = Guest(r, m, g)  BY <1>1 DEF Guest
<1>3. ASSUME NEW p \in Pids, Alive(p), procs[p].vm.run = r PROVE AliveFits(p, r, n)
  <2>1. AliveFits(p, r, m)  BY <1>3 DEF Fits
  <2>2. procs[p].vm.host \in Hosts  BY <1>3, QemuType, TypeHalves DEF IInv, Alive
  <2>3. CASE procs[p].vm.host # h
    BY <1>1, <2>1, <2>2, <2>3 DEF AliveFits, KeysOf
  <2>4. CASE procs[p].vm.host = h
    <3>1. Recovery(r, m, h) = "running"  BY <1>1, <1>3, <2>4, RecoveredGuest
    <3>2. f = p  BY <1>3, <2>4 DEF GuestInv, AliveKnown
    <3>3. n.rec[h].status = "running" /\ n.rec[h].pid = p /\ n.rec[h].start = procs[p].start
      BY <1>1, <3>1, <3>2
    <3>4. KeysOf(n, h) = KeysOf(m, h)  BY <1>1 DEF KeysOf
    <3>. QED  BY <1>1, <2>1, <2>4, <3>3, <3>4 DEF AliveFits
  <2>. QED  BY <2>3, <2>4
<1>4. ASSUME NEW g \in Hosts PROVE RecordFits(g, r, n) /\ RemovedFits(g, r, n)
  <2>1. RecordFits(g, r, m) /\ RemovedFits(g, r, m)  BY DEF Fits
  <2>2. CASE g # h
    BY <1>1, <1>2, <2>1, <2>2 DEF RecordFits, RemovedFits
  <2>3. CASE g = h /\ Recovery(r, m, h) = "stopped"
    <3>1. 0 <= clock  BY SetsAssumption DEF IInv, TypeOK
    <3>. QED  BY <1>1, <2>3, <3>1 DEF RecordFits, RemovedFits
  <2>4. CASE g = h /\ Recovery(r, m, h) = "running"
    <3>1. f \in Pids /\ procs[f] # NoProc /\ procs[f].vm = Guest(r, n, h)
      BY <1>2, <2>4, RecoveredGuest
    <3>2. procs[f].start <= clock  BY <3>1 DEF GuestInv, StartsKnown
    <3>. QED  BY <1>1, <2>4, <3>1, <3>2 DEF RecordFits, RemovedFits
  <2>. QED  BY <1>1, <2>2, <2>3, <2>4
<1>. QED  BY <1>3, <1>4 DEF Fits, n

LEMMA RecoverGuests ==
  ASSUME OneControllerPerRun, IInv, PlanInv, GuestInv, NEW c \in Controllers, NEW from, NEW to,
         RecoverAt(c, from, to), mem[c] # NoManifest,
         <<from, to>> \in {<<"launch", "l_owned">>, <<"l_rc0", "l_verify">>, <<"d_recover", "d_check">>}
  PROVE  GuestInv'
<1>1. /\ ctl[c].pc = from /\ from \in {"launch", "l_rc0", "d_recover"}
      /\ to \in {"l_owned", "l_verify", "d_check"}
      /\ to = "l_owned" => from = "launch"
  BY DEF RecoverAt, At
<1>2. /\ ctl[c] \in Control /\ ctl[c].host \in Hosts /\ RunOf[c] \in Runs
      /\ mem[c] \in Manifest /\ mem[c] = manifest[RunOf[c]]
      /\ Fits(RunOf[c], mem[c]) /\ SlotInv(c)
  BY <1>1, Caller DEF CallPCs
<1>3. to = "l_owned" => ctl[c].argv = KeysOf(mem[c], ctl[c].host)
  BY <1>1, <1>2 DEF SlotInv, ArgvFits
<1>4. CASE RecoveryBy(c) = "unchanged" /\ Move(c, to)
  <2>1. Rec(c).status = "launching" => pidfile[RunOf[c]][ctl[c].host] = NoOne
    BY <1>2, <1>4, RecoveredGuest DEF RecoveryBy, Rec
  <2>2. CASE to # "l_owned"
    BY <1>1, <1>4, <2>2, MovedPlain DEF PlainPCs
  <2>3. CASE to = "l_owned"
    <3>1. ASSUME ctl'[c].pc = to, ctl'[c].host = ctl[c].host, ctl'[c].argv = ctl[c].argv,
                 mem' = mem, pidfile' = pidfile
          PROVE  SlotInv(c)'
      <4>1. Accounted(c)' /\ ArgvFits(c)'
        BY <1>3, <2>1, <2>3, <3>1 DEF Accounted, ArgvFits, Rec, KeysOf
      <4>. QED
        BY <2>3, <3>1, <4>1 DEF SlotInv, Emptied, Launching, Waiting, Called, Opened, Cleared, Replaces,
                               At, Saving, SavePCs, PidfdPCs, SignalPCs
    <3>. QED  BY <1>1, <1>4, <2>3, <3>1, MovedGuests
  <2>. QED  BY <2>2, <2>3
<1>5. CASE /\ RecoveryBy(c) \in {"stopped", "running"}
           /\ BeginSave(c, [ctl[c] EXCEPT !.then = to], Recovered(RunOf[c], mem[c], ctl[c].host), res[c])
           /\ UNCHANGED <<sock, gens>>
  <2>. DEFINE x == [[ctl[c] EXCEPT !.then = to] EXCEPT !.pc = "save"]
              n == Recovered(RunOf[c], mem[c], ctl[c].host)
  <2>1. /\ Become(c, x) /\ Undisturbed /\ manifest' = manifest /\ mem' = [mem EXCEPT ![c] = n]
    BY <1>5 DEF BeginSave, Undisturbed, store, os, files
  <2>2. /\ n.gen = mem[c].gen /\ \A g \in Hosts : n.rec[g].keys = mem[c].rec[g].keys
        /\ n.rec[ctl[c].host].status \in {"stopped", "running"}
    BY <1>2, <1>5, RecoveredManifest DEF RecoveryBy, IInv
  <2>3. Fits(RunOf[c], n)  BY <1>2, <1>5, RecoveredFits DEF RecoveryBy
  <2>4. x.pc = "save" /\ x.then = to /\ x.host = ctl[c].host /\ x.argv = ctl[c].argv
    BY <1>2 DEF Control
  <2>. HIDE DEF x, n
  <2>5. ctl'[c] = x /\ mem'[c] = n  BY <2>1, UndisturbedAlone DEF IInv, TypeOK
  <2>6. Replaces(c)'  BY <1>2, <2>1, <2>2, <2>5, SameReplaces
  <2>7. SlotInv(c)'
    <3>1. CASE to # "l_owned"  BY <1>1, <2>4, <2>5, <2>6, <3>1, SavedSlot
    <3>2. CASE to = "l_owned"
      <4>1. KeysOf(n, ctl[c].host) = KeysOf(mem[c], ctl[c].host)  BY <1>2, <2>2 DEF KeysOf
      <4>2. ArgvFits(c)'  BY <1>3, <2>4, <2>5, <3>2, <4>1 DEF ArgvFits, KeysOf
      <4>3. Accounted(c)'  BY <2>2, <2>4, <2>5 DEF Accounted, Rec
      <4>. QED
        BY <2>4, <2>5, <2>6, <3>2, <4>2, <4>3 DEF SlotInv, Emptied, Launching, Waiting, Called, Opened, Cleared,
                               At, Saving, SavePCs, PidfdPCs, SignalPCs
    <3>. QED  BY <3>1, <3>2
  <2>8. ctl[c].pc # "l_wait"  BY <1>1
  <2>. QED  BY <2>1, <2>3, <2>7, <2>8, SavingGuests
<1>. QED  BY <1>4, <1>5 DEF RecoverAt

-------------------------------------------------------------------------------
(* Work in a slot in which nothing runs                                    *)

\* The step removes at most files of the slot that c works on.
Clears(c) ==
  /\ pidfile' \in {pidfile, [pidfile EXCEPT ![RunOf[c]][ctl[c].host] = NoOne]}
  /\ sock' \in {sock, [sock EXCEPT ![RunOf[c]][ctl[c].host] = 0]}
  /\ disk' \in {disk, [disk EXCEPT ![RunOf[c]][ctl[c].host] = FALSE]}

LEMMA ClearedFiles ==
  ASSUME IInv, NEW c \in Controllers, Clears(c), RunOf[c] \in Runs, ctl[c].host \in Hosts
  PROVE  /\ \A r \in Runs \ {RunOf[c]} : /\ pidfile'[r] = pidfile[r]
                                         /\ sock'[r] = sock[r] /\ disk'[r] = disk[r]
         /\ \A g \in Hosts \ {ctl[c].host} : /\ pidfile'[RunOf[c]][g] = pidfile[RunOf[c]][g]
                                             /\ sock'[RunOf[c]][g] = sock[RunOf[c]][g]
                                             /\ disk'[RunOf[c]][g] <=> disk[RunOf[c]][g]
         /\ pidfile'[RunOf[c]][ctl[c].host] \in {pidfile[RunOf[c]][ctl[c].host], NoOne}
         /\ sock'[RunOf[c]][ctl[c].host] \in {sock[RunOf[c]][ctl[c].host], 0}
         /\ disk'[RunOf[c]][ctl[c].host] => disk[RunOf[c]][ctl[c].host]
<1>1. /\ pidfile \in [Runs -> [Hosts -> Pids \cup {NoOne}]] /\ sock \in [Runs -> [Hosts -> 0..MaxStarts]]
      /\ disk \in [Runs -> [Hosts -> BOOLEAN]]
  BY DEF IInv, TypeOK
<1>2. /\ \A r \in Runs \ {RunOf[c]} : pidfile'[r] = pidfile[r]
      /\ \A g \in Hosts \ {ctl[c].host} : pidfile'[RunOf[c]][g] = pidfile[RunOf[c]][g]
      /\ pidfile'[RunOf[c]][ctl[c].host] \in {pidfile[RunOf[c]][ctl[c].host], NoOne}
  BY <1>1 DEF Clears
<1>3. /\ \A r \in Runs \ {RunOf[c]} : sock'[r] = sock[r]
      /\ \A g \in Hosts \ {ctl[c].host} : sock'[RunOf[c]][g] = sock[RunOf[c]][g]
      /\ sock'[RunOf[c]][ctl[c].host] \in {sock[RunOf[c]][ctl[c].host], 0}
  BY <1>1 DEF Clears
<1>4. /\ \A r \in Runs \ {RunOf[c]} : disk'[r] = disk[r]
      /\ \A g \in Hosts \ {ctl[c].host} : disk'[RunOf[c]][g] <=> disk[RunOf[c]][g]
      /\ disk'[RunOf[c]][ctl[c].host] => disk[RunOf[c]][ctl[c].host]
  <2>1. CASE disk' = disk  BY <2>1
  <2>2. CASE disk' = [disk EXCEPT ![RunOf[c]][ctl[c].host] = FALSE]
    <3>1. disk[RunOf[c]] \in [Hosts -> BOOLEAN]  BY <1>1
    <3>2. disk' = [disk EXCEPT ![RunOf[c]] = [disk[RunOf[c]] EXCEPT ![ctl[c].host] = FALSE]]
      BY <1>1, <2>2
    <3>3. disk'[RunOf[c]] = [disk[RunOf[c]] EXCEPT ![ctl[c].host] = FALSE]
          /\ \A r \in Runs \ {RunOf[c]} : disk'[r] = disk[r]
      BY <1>1, <3>2
    <3>. QED  BY <3>1, <3>3
  <2>. QED  BY <2>1, <2>2 DEF Clears
<1>. QED  BY <1>2, <1>3, <1>4

\* In such a slot the record may be rewritten and the files may go.
LEMMA VacantFits ==
  ASSUME IInv, NEW c \in Controllers, RunOf[c] \in Runs, ctl[c].host \in Hosts,
         Vacant(RunOf[c], ctl[c].host), Clears(c), procs' = procs, clock' = clock,
         NEW m \in Manifest, Fits(RunOf[c], m), NEW n \in Manifest,
         n.gen = m.gen, n.destroying = m.destroying,
         \A g \in Hosts \ {ctl[c].host} : n.rec[g] = m.rec[g],
         n.rec[ctl[c].host].pid = m.rec[ctl[c].host].pid,
         n.rec[ctl[c].host].start = m.rec[ctl[c].host].start,
         n.rec[ctl[c].host].status = "removed" =>
           \/ m.rec[ctl[c].host].status = "removed"
           \/ /\ pidfile'[RunOf[c]][ctl[c].host] = NoOne /\ sock'[RunOf[c]][ctl[c].host] = 0
              /\ ~disk'[RunOf[c]][ctl[c].host]
  PROVE  Fits(RunOf[c], n)'
<1>1. PICK r, h : r = RunOf[c] /\ h = ctl[c].host  OBVIOUS
<1>2. /\ \A g \in Hosts \ {h} : /\ pidfile'[r][g] = pidfile[r][g] /\ sock'[r][g] = sock[r][g]
                                /\ disk'[r][g] <=> disk[r][g]
      /\ pidfile'[r][h] \in {pidfile[r][h], NoOne} /\ sock'[r][h] \in {sock[r][h], 0}
      /\ disk'[r][h] => disk[r][h]
  BY <1>1, ClearedFiles
<1>3. /\ r \in Runs /\ h \in Hosts /\ Vacant(r, h) /\ Fits(r, m)
      /\ \A g \in Hosts \ {h} : n.rec[g] = m.rec[g]
      /\ n.rec[h].pid = m.rec[h].pid /\ n.rec[h].start = m.rec[h].start
      /\ n.rec[h].status = "removed" =>
           \/ m.rec[h].status = "removed"
           \/ pidfile'[r][h] = NoOne /\ sock'[r][h] = 0 /\ ~disk'[r][h]
  BY <1>1
<1>4. \A g \in Hosts : Guest(r, n, g) = Guest(r, m, g)  BY DEF Guest
<1>5. ASSUME NEW p \in Pids, Alive(p), procs[p].vm.run = r PROVE AliveFits(p, r, n)'
  <2>1. procs[p].vm.host \in Hosts /\ AliveFits(p, r, m)
    BY <1>3, <1>5, QemuType, TypeHalves DEF IInv, Alive, Fits
  <2>2. procs[p].vm.host # h  BY <1>3, <1>5 DEF Vacant, OfSlot, Alive
  <2>3. n.rec[procs[p].vm.host] = m.rec[procs[p].vm.host] /\ (disk'[r][procs[p].vm.host] <=> disk[r][procs[p].vm.host])
    BY <1>2, <1>3, <2>1, <2>2
  <2>4. PICK g, rec : g = procs[p].vm.host /\ rec = m.rec[g]  OBVIOUS
  <2>5. n.rec[g] = rec /\ KeysOf(m, g) = KeysOf(n, g)  BY <2>3, <2>4 DEF KeysOf
  <2>6. /\ procs[p].vm.gen = n.gen /\ rec.status \in {"launching", "running"}
        /\ rec.status = "running" => rec.pid = p /\ rec.start = procs[p].start
        /\ procs[p].keys \subseteq KeysOf(n, g)
        /\ procs[p].stage = "ready" => disk'[r][g]
        /\ procs[p].stage \in {"terminating", "killed"} => n.destroying
    BY <2>1, <2>3, <2>4, <2>5 DEF AliveFits
  <2>. QED  BY <2>4, <2>5, <2>6 DEF AliveFits, KeysOf
<1>6. ASSUME NEW g \in Hosts PROVE RecordFits(g, r, n)' /\ RemovedFits(g, r, n)'
  <2>1. RecordFits(g, r, m) /\ RemovedFits(g, r, m)  BY <1>3 DEF Fits
  <2>2. CASE g # h
    BY <1>2, <1>3, <1>4, <2>1, <2>2 DEF RecordFits, RemovedFits, Guest
  <2>3. CASE g = h
    <3>1. m.rec[h].pid \in Pids \cup {NoOne}  BY <1>3 DEF Manifest, Record
    <3>2. ~(m.rec[h].pid # NoOne /\ procs[m.rec[h].pid] # NoProc /\ procs[m.rec[h].pid].start = m.rec[h].start)
      <4>. SUFFICES ASSUME m.rec[h].pid # NoOne, procs[m.rec[h].pid] # NoProc,
                           procs[m.rec[h].pid].start = m.rec[h].start
                    PROVE  FALSE
        OBVIOUS
      <4>1. procs[m.rec[h].pid].vm = Guest(r, m, h)  BY <2>1, <2>3 DEF RecordFits
      <4>2. OfSlot(m.rec[h].pid, r, h)  BY <1>3, <4>1, GuestOf DEF OfSlot, IsQemu
      <4>. QED  BY <1>3, <3>1, <4>2 DEF Vacant
    <3>3. RecordFits(h, r, n)'  BY <1>3, <2>1, <2>3, <3>2 DEF RecordFits
    <3>4. RemovedFits(h, r, n)'  BY <1>2, <1>3, <2>1, <2>3 DEF RemovedFits
    <3>. QED  BY <2>3, <3>3, <3>4
  <2>. QED  BY <2>2, <2>3
<1>7. Fits(r, n)'  BY <1>5, <1>6 DEF Fits, Alive, IsQemu
<1>. QED  BY <1>1, <1>7

LEMMA VacantGuests ==
  ASSUME OneControllerPerRun, IInv, PlanInv, GuestInv, NEW c \in Controllers,
         ctl[c].pc \in CallPCs \ {"d_release", "l_wait"}, mem[c] # NoManifest,
         Vacant(RunOf[c], ctl[c].host), Clears(c), UNCHANGED <<manifest, procs, clock>>,
         NEW x, Become(c, x), NEW n \in Manifest, mem' = [mem EXCEPT ![c] = n],
         n.gen = mem[c].gen, n.destroying = mem[c].destroying,
         \A g \in Hosts \ {ctl[c].host} : n.rec[g] = mem[c].rec[g],
         n.rec[ctl[c].host].pid = mem[c].rec[ctl[c].host].pid,
         n.rec[ctl[c].host].start = mem[c].rec[ctl[c].host].start,
         n.rec[ctl[c].host].status = "removed" =>
           \/ mem[c].rec[ctl[c].host].status = "removed"
           \/ /\ pidfile'[RunOf[c]][ctl[c].host] = NoOne /\ sock'[RunOf[c]][ctl[c].host] = 0
              /\ ~disk'[RunOf[c]][ctl[c].host],
         SlotInv(c)'
  PROVE  GuestInv'
<1>1. /\ ctl[c].host \in Hosts /\ RunOf[c] \in Runs
      /\ mem[c] \in Manifest /\ mem[c] = manifest[RunOf[c]] /\ manifest[RunOf[c]] # NoManifest
      /\ Fits(RunOf[c], mem[c]) /\ Awaited(c)
  BY Caller
<1>2. /\ ctl'[c] = x /\ mem'[c] = n /\ manifest' = manifest
      /\ \A d \in Controllers \ {c} : ctl'[d] = ctl[d] /\ mem'[d] = mem[d]
  BY DEF Become, IInv, TypeOK
<1>3. /\ \A r \in Runs \ {RunOf[c]} : pidfile'[r] = pidfile[r] /\ sock'[r] = sock[r] /\ disk'[r] = disk[r]
      /\ \A g \in Hosts \ {ctl[c].host} : pidfile'[RunOf[c]][g] = pidfile[RunOf[c]][g]
  BY <1>1, ClearedFiles
<1>4. Alone(c)  BY <1>2, <1>3 DEF Alone
<1>5. \A p \in Pids : (Alive(p) /\ procs[p].vm.run = RunOf[c]) =>
        pidfile'[RunOf[c]][procs[p].vm.host] = p /\ manifest'[RunOf[c]] # NoManifest
  <2>. SUFFICES ASSUME NEW p \in Pids, Alive(p), procs[p].vm.run = RunOf[c]
                PROVE  pidfile'[RunOf[c]][procs[p].vm.host] = p /\ manifest'[RunOf[c]] # NoManifest
    OBVIOUS
  <2>1. procs[p].vm.host \in Hosts  BY QemuType, TypeHalves DEF IInv, Alive
  <2>2. procs[p].vm.host # ctl[c].host  BY DEF Vacant, OfSlot, Alive
  <2>3. pidfile[RunOf[c]][procs[p].vm.host] = p  BY DEF GuestInv, AliveKnown
  <2>. QED  BY <1>1, <1>2, <1>3, <2>1, <2>2, <2>3
<1>6. Fits(RunOf[c], n)'  BY <1>1, VacantFits
<1>7. \A m : (m = manifest'[RunOf[c]] /\ m # NoManifest) => Fits(RunOf[c], m)'
  <2>. SUFFICES ASSUME NEW m, m = manifest'[RunOf[c]] PROVE Fits(RunOf[c], m)'  OBVIOUS
  <2>1. m \in Manifest /\ Fits(RunOf[c], m)  BY <1>1, <1>2
  <2>. QED  BY <1>1, <2>1, VacantFits
<1>8. \A m : (ctl'[c].pc = "save" /\ m = mem'[c]) => Fits(RunOf[c], m)'
  BY <1>2, <1>6
<1>. QED  BY <1>1, <1>4, <1>5, <1>7, <1>8, StepGuests

-------------------------------------------------------------------------------
(* launch                                                                  *)

LEMMA LaunchOwnedGuests ==
  ASSUME OneControllerPerRun, IInv, PlanInv, GuestInv, NEW c \in Controllers, LaunchOwned(c)
  PROVE  GuestInv'
<1>1. ctl[c].pc = "l_owned" /\ ctl[c].pc \in CallPCs \ {"d_release"}
  BY DEF LaunchOwned, At, CallPCs
<1>2. mem[c] # NoManifest
  BY <1>1 DEF IInv, CallInv, CallReady, Calling, LockedPCs
<1>3. /\ ctl[c].host \in Hosts /\ RunOf[c] \in Runs /\ mem[c] \in Manifest
      /\ Fits(RunOf[c], mem[c]) /\ SlotInv(c) /\ \A p \in Pids : IsQemu(p) => Alive(p)
  BY <1>1, <1>2, Caller
<1>4. CASE Launched(c)  BY <1>1, <1>4, LaunchedGuests
<1>5. CASE Fail(c)  BY <1>1, <1>5, FailGuests
<1>6. CASE OwnedBy(c) = "no" /\ Move(c, "l_unlink")
  <2>1. mem[c].rec[ctl[c].host].status = "launching" => pidfile[RunOf[c]][ctl[c].host] = NoOne
    BY <1>1, <1>3 DEF SlotInv, Accounted, At, Rec
  <2>2. Vacant(RunOf[c], ctl[c].host)  BY <1>3, <1>6, <2>1, NotOwned DEF OwnedBy
  <2>3. ctl[c].argv = KeysOf(mem[c], ctl[c].host)  BY <1>1, <1>3 DEF SlotInv, ArgvFits
  <2>4. ASSUME ctl'[c].pc = "l_unlink", ctl'[c].host = ctl[c].host, ctl'[c].argv = ctl[c].argv,
               mem' = mem, procs' = procs
        PROVE  SlotInv(c)'
    <3>1. Emptied(c)'  BY <2>2, <2>4 DEF Emptied, Vacant, OfSlot, IsQemu
    <3>2. ArgvFits(c)'  BY <2>3, <2>4 DEF ArgvFits, KeysOf
    <3>. QED
      BY <2>4, <3>1, <3>2 DEF SlotInv, Accounted, Launching, Waiting, Called, Opened, Cleared, Replaces,
                             At, Saving, SavePCs, PidfdPCs, SignalPCs
  <2>. QED  BY <1>1, <1>6, <2>4, MovedGuests
<1>. QED  BY <1>4, <1>5, <1>6 DEF LaunchOwned, OwnedBy, Owned

LEMMA UnlinkPidfileGuests ==
  ASSUME OneControllerPerRun, IInv, PlanInv, GuestInv, NEW c \in Controllers, UnlinkPidfile(c)
  PROVE  GuestInv'
<1>1. ctl[c].pc = "l_unlink" /\ ctl[c].pc \in CallPCs \ {"d_release", "l_wait"}
  BY DEF UnlinkPidfile, At, CallPCs
<1>2. mem[c] # NoManifest
  BY <1>1 DEF IInv, CallInv, CallReady, Calling, LockedPCs
<1>3. ctl[c] \in Control /\ mem[c] \in Manifest /\ SlotInv(c)
  BY <1>1, <1>2, Caller
<1>. DEFINE x == [ctl[c] EXCEPT !.pc = "l_mark"]
<1>4. /\ Become(c, x) /\ UNCHANGED <<manifest, procs, clock>> /\ mem' = mem
  BY DEF UnlinkPidfile, Goto, store, copies, os
<1>5. x.pc = "l_mark" /\ x.host = ctl[c].host /\ x.argv = ctl[c].argv  BY <1>3 DEF Control
<1>. HIDE DEF x
<1>6. ctl'[c] = x  BY <1>4 DEF Become, IInv, TypeOK
<1>7. Clears(c)  BY DEF UnlinkPidfile, Clears
<1>8. Vacant(RunOf[c], ctl[c].host) /\ ctl[c].argv = KeysOf(mem[c], ctl[c].host)
  BY <1>1, <1>3 DEF SlotInv, Emptied, ArgvFits
<1>9. SlotInv(c)'
  <2>1. Emptied(c)'  BY <1>4, <1>5, <1>6, <1>8 DEF Emptied, Vacant, OfSlot, IsQemu
  <2>2. ArgvFits(c)'  BY <1>4, <1>5, <1>6, <1>8 DEF ArgvFits, KeysOf
  <2>. QED
    BY <1>5, <1>6, <2>1, <2>2 DEF SlotInv, Accounted, Launching, Waiting, Called, Opened, Cleared, Replaces,
                           At, Saving, SavePCs, PidfdPCs, SignalPCs
<1>10. PICK n : n = mem[c]  OBVIOUS
<1>11. n \in Manifest /\ mem' = [mem EXCEPT ![c] = n]  BY <1>3, <1>4, <1>10 DEF IInv, TypeOK
<1>. QED  BY <1>1, <1>2, <1>4, <1>7, <1>8, <1>9, <1>10, <1>11, VacantGuests

LEMMA MarkLaunchingGuests ==
  ASSUME OneControllerPerRun, IInv, PlanInv, GuestInv, NEW c \in Controllers, MarkLaunching(c)
  PROVE  GuestInv'
<1>1. ctl[c].pc = "l_mark" /\ ctl[c].pc \in CallPCs \ {"d_release", "l_wait"}
  BY DEF MarkLaunching, At, CallPCs
<1>2. mem[c] # NoManifest
  BY <1>1 DEF IInv, CallInv, CallReady, Calling, LockedPCs
<1>3. /\ ctl[c] \in Control /\ mem[c] \in Manifest /\ SlotInv(c) /\ ctl[c].host \in Hosts
      /\ mem[c] = manifest[RunOf[c]]
  BY <1>1, <1>2, Caller
<1>. DEFINE h == ctl[c].host
            x == [[ctl[c] EXCEPT !.then = "l_spawn"] EXCEPT !.pc = "save"]
            n == SetStatus(c, "launching")
<1>4. /\ Become(c, x) /\ UNCHANGED <<manifest, procs, clock>> /\ mem' = [mem EXCEPT ![c] = n]
  BY DEF MarkLaunching, BeginSave, store, os
<1>5. x.pc = "save" /\ x.then = "l_spawn" /\ x.host = h /\ x.argv = ctl[c].argv  BY <1>3 DEF Control
<1>6. /\ n \in Manifest /\ n.gen = mem[c].gen /\ n.destroying = mem[c].destroying
      /\ \A g \in Hosts \ {h} : n.rec[g] = mem[c].rec[g]
      /\ n.rec[h].keys = mem[c].rec[h].keys /\ n.rec[h].status = "launching"
      /\ n.rec[h].pid = mem[c].rec[h].pid /\ n.rec[h].start = mem[c].rec[h].start
  <2>1. "launching" \in Statuses  BY DEF Statuses
  <2>2. n = [mem[c] EXCEPT !.rec[h].status = "launching"]  BY DEF SetStatus
  <2>3. PICK m, g : m = mem[c] /\ g = h  OBVIOUS
  <2>. HIDE DEF n, h
  <2>4. n = [m EXCEPT !.rec[g].status = "launching"]  BY <2>2, <2>3
  <2>5. m \in Manifest /\ g \in Hosts  BY <1>3, <2>3 DEF h
  <2>6. /\ n \in Manifest /\ n.gen = m.gen /\ n.destroying = m.destroying
        /\ \A f \in Hosts \ {g} : n.rec[f] = m.rec[f]
        /\ n.rec[g].status = "launching" /\ n.rec[g].keys = m.rec[g].keys
        /\ n.rec[g].pid = m.rec[g].pid /\ n.rec[g].start = m.rec[g].start
    BY <2>1, <2>4, <2>5, StatusSet
  <2>. QED  BY <2>3, <2>6
<1>. HIDE DEF x, n
<1>7. ctl'[c] = x /\ mem'[c] = n  BY <1>4 DEF Become, IInv, TypeOK
<1>8. Clears(c)  BY DEF MarkLaunching, BeginSave, Clears
<1>9. Vacant(RunOf[c], h) /\ ctl[c].argv = KeysOf(mem[c], h) /\ KeysOf(n, h) = KeysOf(mem[c], h)
  <2>1. KeysOf(n, h) = KeysOf(mem[c], h)  BY <1>6 DEF KeysOf
  <2>. QED  BY <1>1, <1>3, <2>1 DEF SlotInv, Emptied, ArgvFits
<1>10. SlotInv(c)'
  <2>1. Emptied(c)'  BY <1>4, <1>5, <1>7, <1>9 DEF Emptied, Vacant, OfSlot, IsQemu
  <2>2. ArgvFits(c)'  BY <1>5, <1>7, <1>9 DEF ArgvFits, KeysOf
  <2>3. Launching(c)'  BY <1>5, <1>6, <1>7 DEF Launching, Rec
  <2>4. Replaces(c)'  BY <1>3, <1>4, <1>6, <1>7, SameReplaces
  <2>. QED
    BY <1>5, <1>7, <2>1, <2>2, <2>3, <2>4 DEF SlotInv, Accounted, Waiting, Called, Opened, Cleared,
                           At, Saving, SavePCs, PidfdPCs, SignalPCs
<1>11. n.rec[h].status # "removed"  BY <1>6
<1>. QED  BY <1>1, <1>2, <1>4, <1>6, <1>8, <1>9, <1>10, <1>11, VacantGuests

\* retry_ports() leaves the argv with the endpoints that it records.
LEMMA Retried ==
  ASSUME NEW Old, NEW New
  PROVE  RetriedArgv({Old[e] : e \in Endpoints}, Old, New) = {New[e] : e \in Endpoints}
BY DEF RetriedArgv

LEMMA RetryPortsGuests ==
  ASSUME OneControllerPerRun, IInv, IInv', PlanInv, GuestInv, NEW c \in Controllers, RetryPorts(c)
  PROVE  GuestInv'
<1>1. ctl[c].pc = "l_in_use" /\ ctl[c].pc \in CallPCs \ {"d_release", "l_wait"}
  BY DEF RetryPorts, At, CallPCs
<1>2. mem[c] # NoManifest
  BY <1>1 DEF IInv, CallInv, CallReady, Calling, LockedPCs
<1>3. /\ ctl[c] \in Control /\ mem[c] \in Manifest /\ SlotInv(c) /\ ctl[c].host \in Hosts
      /\ mem[c] = manifest[RunOf[c]]
  BY <1>1, <1>2, Caller
<1>. DEFINE h == ctl[c].host
            Old == Rec(c).keys
<1>4. PICK chosen :
        LET New == [e \in Endpoints |-> IF <<h, e>> \in AutoSlots(c) THEN chosen[<<h, e>>] ELSE Old[e]]
            m == [mem[c] EXCEPT !.rec[h].keys = New]
            taken == {chosen[s] : s \in AutoSlots(c)}
        IN BeginSave(c,
             [ctl[c] EXCEPT !.then = "l_spawn", !.tries = @ + 1, !.argv = RetriedArgv(@, Old, New)],
             m,
             Released([k \in Key |-> IF k \in taken THEN Own(c) ELSE res[c][k]], Own(c), m))
  BY DEF RetryPorts
<1>. DEFINE New == [e \in Endpoints |-> IF <<h, e>> \in AutoSlots(c) THEN chosen[<<h, e>>] ELSE Old[e]]
            n == [mem[c] EXCEPT !.rec[h].keys = New]
            y == [ctl[c] EXCEPT !.then = "l_spawn", !.tries = @ + 1, !.argv = RetriedArgv(@, Old, New)]
            x == [y EXCEPT !.pc = "save"]
<1>5. /\ Become(c, x) /\ UNCHANGED <<manifest, procs, clock>> /\ mem' = [mem EXCEPT ![c] = n]
  BY <1>4 DEF BeginSave, store, os
<1>6. x.pc = "save" /\ x.then = "l_spawn" /\ x.host = h /\ x.argv = RetriedArgv(ctl[c].argv, Old, New)
  <2>. HIDE DEF New
  <2>. QED  BY <1>3 DEF Control
<1>7. /\ n.gen = mem[c].gen /\ n.destroying = mem[c].destroying
      /\ \A g \in Hosts \ {h} : n.rec[g] = mem[c].rec[g]
      /\ n.rec[h].status = mem[c].rec[h].status /\ n.rec[h].keys = New
      /\ n.rec[h].pid = mem[c].rec[h].pid /\ n.rec[h].start = mem[c].rec[h].start
  <2>. HIDE DEF New
  <2>. QED  BY <1>3 DEF Manifest, Record
<1>. HIDE DEF x, n, New
<1>8. KeysOf(n, h) = {New[e] : e \in Endpoints}  BY <1>7 DEF KeysOf
<1>9. ctl'[c] = x /\ mem'[c] = n  BY <1>5 DEF Become, IInv, TypeOK
<1>10. n \in Manifest
  <2>1. Calling(c)' /\ ctl'[c].pc \notin {"reserve", "launch", "destroy"}
    BY <1>6, <1>9 DEF Calling, LockedPCs, SavePCs
  <2>2. mem'[c] # NoManifest  BY <2>1 DEF IInv, CallInv, CallReady
  <2>3. mem'[c] \in Manifest \cup {NoManifest}  BY DEF IInv, TypeOK
  <2>. QED  BY <1>9, <2>2, <2>3
<1>11. Clears(c)  BY <1>4 DEF RetryPorts, BeginSave, Clears
<1>12. Vacant(RunOf[c], h) /\ ctl[c].argv = {Old[e] : e \in Endpoints} /\ mem[c].rec[h].status = "launching"
  BY <1>1, <1>3 DEF SlotInv, Emptied, ArgvFits, KeysOf, Launching, Rec
<1>13. x.argv = KeysOf(n, h)  BY <1>6, <1>8, <1>12, Retried
<1>14. SlotInv(c)'
  <2>1. Emptied(c)'  BY <1>5, <1>6, <1>9, <1>12 DEF Emptied, Vacant, OfSlot, IsQemu
  <2>2. ArgvFits(c)'  BY <1>6, <1>9, <1>13 DEF ArgvFits, KeysOf
  <2>3. Launching(c)'  BY <1>6, <1>7, <1>9, <1>12 DEF Launching, Rec
  <2>4. Replaces(c)'
    <3>1. \A g \in Hosts : mem'[c].rec[g].keys # manifest'[RunOf[c]].rec[g].keys => g = h
      BY <1>3, <1>5, <1>7, <1>9
    <3>2. \A g : Vacant(RunOf[c], g)' <=> Vacant(RunOf[c], g)  BY <1>5 DEF Vacant, OfSlot, IsQemu
    <3>. QED  BY <1>12, <3>1, <3>2 DEF Replaces
  <2>. QED
    BY <1>6, <1>9, <2>1, <2>2, <2>3, <2>4 DEF SlotInv, Accounted, Waiting, Called, Opened, Cleared,
                           At, Saving, SavePCs, PidfdPCs, SignalPCs
<1>15. n.rec[h].status # "removed"  BY <1>7, <1>12
<1>. QED  BY <1>1, <1>2, <1>5, <1>7, <1>10, <1>11, <1>12, <1>14, <1>15, VacantGuests

-------------------------------------------------------------------------------
(* reserve, save() and the overlays                                        *)

LEMMA ReserveExistingGuests ==
  ASSUME OneControllerPerRun, IInv, PlanInv, GuestInv, NEW c \in Controllers, ReserveExisting(c)
  PROVE  GuestInv'
<1>1. ctl[c].pc = "reserve" /\ ctl[c].pc \in CallPCs \ {"d_release"} /\ mem[c] # NoManifest
  BY DEF ReserveExisting, At, CallPCs
<1>2. ctl[c] \in Control /\ Fits(RunOf[c], mem[c]) /\ mem[c] = manifest[RunOf[c]]  BY <1>1, Caller
<1>3. CASE Return(c, [ctl[c] EXCEPT !.pc = "media"])
  <2>1. [ctl[c] EXCEPT !.pc = "media"].pc \in PlainPCs  BY <1>2 DEF Control, PlainPCs
  <2>. QED  BY <1>1, <1>3, <2>1, ReturnGuests
<1>4. CASE BeginSave(c, [ctl[c] EXCEPT !.then = "media"], mem[c], res[c]) /\ UNCHANGED <<sock, gens>>
  <2>. DEFINE x == [[ctl[c] EXCEPT !.then = "media"] EXCEPT !.pc = "save"]
  <2>1. /\ Become(c, x) /\ Undisturbed /\ manifest' = manifest /\ mem' = [mem EXCEPT ![c] = mem[c]]
    BY <1>4 DEF BeginSave, Undisturbed, store, os, files
  <2>2. x.pc = "save" /\ x.then = "media"  BY <1>2 DEF Control
  <2>. HIDE DEF x
  <2>3. ctl'[c] = x  BY <2>1, UndisturbedAlone
  <2>4. mem' = mem  BY <2>1 DEF IInv, TypeOK
  <2>5. Replaces(c)'  BY <1>2, <2>1, <2>4, SameReplaces
  <2>6. SlotInv(c)'  BY <2>2, <2>3, <2>5, SavedSlot
  <2>7. PICK n : n = mem[c]  OBVIOUS
  <2>8. Fits(RunOf[c], n) /\ mem' = [mem EXCEPT ![c] = n] /\ ctl[c].pc # "l_wait"
    BY <1>1, <1>2, <2>1, <2>7
  <2>. QED  BY <2>1, <2>6, <2>8, SavingGuests
<1>. QED  BY <1>3, <1>4 DEF ReserveExisting

LEMMA ReserveFreshGuests ==
  ASSUME OneControllerPerRun, IInv, PlanInv, GuestInv, NEW c \in Controllers, ReserveFresh(c)
  PROVE  GuestInv'
<1>. DEFINE r == RunOf[c]
<1>1. ctl[c].pc = "reserve" /\ mem[c] = NoManifest /\ ctl[c] \in Control
  BY DEF ReserveFresh, At, IInv, TypeOK
<1>2. manifest[r] = NoManifest
  BY <1>1 DEF PlanInv, PlanOf, Remembered, Calling, LockedPCs, CallPCs
<1>3. PICK chosen, t :
        BeginSave(c, [ctl[c] EXCEPT !.then = "media"],
                  [gen |-> gens[r] + 1, destroying |-> FALSE,
                   rec |-> [h \in Hosts |-> FreshRecord(r, chosen, h)]], t)
  BY DEF ReserveFresh
<1>. DEFINE x == [[ctl[c] EXCEPT !.then = "media"] EXCEPT !.pc = "save"]
            n == [gen |-> gens[r] + 1, destroying |-> FALSE,
                  rec |-> [h \in Hosts |-> FreshRecord(r, chosen, h)]]
<1>4. /\ Become(c, x) /\ Undisturbed /\ manifest' = manifest /\ mem' = [mem EXCEPT ![c] = n]
  BY <1>3 DEF ReserveFresh, BeginSave, Undisturbed, store, os, files
<1>5. x.pc = "save" /\ x.then = "media"  BY <1>1 DEF Control
<1>6. \A h \in Hosts : n.rec[h].status = "reserved" /\ n.rec[h].pid = NoOne /\ n.rec[h].start = 0
  BY DEF FreshRecord
<1>. HIDE DEF x, n
<1>7. ctl'[c] = x  BY <1>4, UndisturbedAlone
<1>8. Replaces(c)'  BY <1>2, <1>4 DEF Replaces
<1>9. SlotInv(c)'  BY <1>5, <1>7, <1>8, SavedSlot
<1>10. Fits(r, n)
  <2>1. \A p \in Pids : ~(Alive(p) /\ procs[p].vm.run = r)
    BY <1>2 DEF GuestInv, AliveKnown
  <2>2. 0 <= clock  BY SetsAssumption DEF IInv, TypeOK
  <2>3. \A h \in Hosts : RecordFits(h, r, n) /\ RemovedFits(h, r, n)
    BY <1>6, <2>2 DEF RecordFits, RemovedFits
  <2>. QED  BY <2>1, <2>3 DEF Fits
<1>11. ctl[c].pc # "l_wait"  BY <1>1
<1>. QED  BY <1>4, <1>9, <1>10, <1>11, SavingGuests

LEMMA SaveManifestGuests ==
  ASSUME OneControllerPerRun, IInv, PlanInv, GuestInv, NEW c \in Controllers, SaveManifest(c)
  PROVE  GuestInv'
<1>1. /\ ctl[c].pc = "save" /\ ctl[c] \in Control /\ RunOf[c] \in Runs /\ SlotInv(c)
      /\ mem[c] # NoManifest
  BY SetsAssumption DEF SaveManifest, At, GuestInv, IInv, TypeOK, CallInv, CallReady, Calling, LockedPCs, SavePCs
<1>. DEFINE x == [ctl[c] EXCEPT !.pc = "publish"]
<1>2. /\ Become(c, x) /\ Undisturbed /\ manifest' = [manifest EXCEPT ![RunOf[c]] = mem[c]] /\ mem' = mem
  BY DEF SaveManifest, Goto, Undisturbed, copies, os
<1>3. x.pc = "publish" /\ x.then = ctl[c].then /\ x.host = ctl[c].host /\ x.argv = ctl[c].argv
  BY <1>1 DEF Control
<1>. HIDE DEF x
<1>4. /\ ctl'[c] = x /\ \A d \in Controllers \ {c} : ctl'[d] = ctl[d]
      /\ manifest'[RunOf[c]] = mem[c] /\ \A r \in Runs \ {RunOf[c]} : manifest'[r] = manifest[r]
      /\ procs' = procs /\ clock' = clock /\ pidfile' = pidfile /\ sock' = sock /\ disk' = disk
  BY <1>1, <1>2 DEF Become, IInv, TypeOK, Undisturbed, files
<1>5. Alone(c) /\ Awaited(c)  BY <1>1, <1>2, <1>4 DEF Alone, Awaited, At
<1>6. \A p \in Pids : (Alive(p) /\ procs[p].vm.run = RunOf[c]) =>
        pidfile'[RunOf[c]][procs[p].vm.host] = p /\ manifest'[RunOf[c]] # NoManifest
  BY <1>1, <1>4 DEF GuestInv, AliveKnown
<1>7. \A m : m = manifest'[RunOf[c]] => Fits(RunOf[c], m)'
  <2>1. \A m : m = mem[c] => Fits(RunOf[c], m)  BY <1>1 DEF GuestInv, Judged, At
  <2>. QED  BY <1>2, <1>4, <2>1, FitsSame
<1>8. ctl'[c].pc # "save"  BY <1>3, <1>4
<1>9. SlotInv(c)'
  <2>1. \A pc : Saving(c, pc)' <=> Saving(c, pc)  BY <1>1, <1>3, <1>4 DEF Saving, SavePCs
  <2>2. ~At(c, "l_owned")' /\ ctl'[c].pc = "publish"  BY <1>3, <1>4 DEF At
  <2>3. Emptied(c)'  BY <1>1, <1>3, <1>4, <2>1, <2>2 DEF SlotInv, Emptied, Vacant, OfSlot, IsQemu
  <2>4. Accounted(c)'  BY <1>1, <1>2, <1>3, <1>4, <2>1, <2>2 DEF SlotInv, Accounted, Rec
  <2>5. Launching(c)'  BY <1>1, <1>2, <1>3, <1>4, <2>1, <2>2 DEF SlotInv, Launching, Rec
  <2>6. ArgvFits(c)'  BY <1>1, <1>2, <1>3, <1>4, <2>1, <2>2 DEF SlotInv, ArgvFits, KeysOf
  <2>. QED
    BY <2>2, <2>3, <2>4, <2>5, <2>6 DEF SlotInv, Waiting, Called, Opened, Cleared, Replaces, At, PidfdPCs, SignalPCs
<1>. QED  BY <1>5, <1>6, <1>7, <1>8, <1>9, StepGuests

LEMMA SaveReservationsGuests ==
  ASSUME OneControllerPerRun, IInv, PlanInv, GuestInv, NEW c \in Controllers, SaveReservations(c)
  PROVE  GuestInv'
<1>1. /\ ctl[c].pc = "publish" /\ ctl[c] \in Control /\ SlotInv(c)
      /\ ctl[c].then \in {"media", "l_owned", "l_spawn", "l_verify", "d_next", "d_check"}
  BY DEF SaveReservations, At, GuestInv, IInv, TypeOK, CallInv, PlayFits, SavePCs
<1>. DEFINE x == [ctl[c] EXCEPT !.pc = ctl[c].then]
<1>2. /\ Become(c, x) /\ Undisturbed /\ manifest' = manifest /\ Awaited(c)
      /\ ctl[c].then = "media" => mem' = [mem EXCEPT ![c] = NoManifest]
      /\ ctl[c].then # "media" => mem' = mem
  BY <1>1 DEF SaveReservations, Unlock, Undisturbed, copies, os, files, Awaited, At
<1>3. x.pc = ctl[c].then /\ x.host = ctl[c].host /\ x.argv = ctl[c].argv
  BY <1>1 DEF Control
<1>. HIDE DEF x
<1>4. ctl'[c] = x /\ procs' = procs /\ pidfile' = pidfile
  BY <1>2, UndisturbedAlone DEF Undisturbed, files
<1>5. CASE ctl[c].then \notin {"l_owned", "l_spawn"}
  BY <1>1, <1>2, <1>3, <1>5, PlainGuests DEF PlainPCs
<1>6. CASE ctl[c].then = "l_owned"
  <2>1. Saving(c, "l_owned") /\ mem' = mem  BY <1>1, <1>2, <1>6 DEF Saving, SavePCs
  <2>2. Accounted(c)'  BY <1>1, <1>3, <1>4, <2>1 DEF SlotInv, Accounted, Rec
  <2>3. ArgvFits(c)'  BY <1>1, <1>3, <1>4, <2>1 DEF SlotInv, ArgvFits, KeysOf
  <2>4. SlotInv(c)'
    BY <1>3, <1>4, <1>6, <2>2, <2>3 DEF SlotInv, Emptied, Launching, Waiting, Called, Opened, Cleared, Replaces,
                           At, Saving, SavePCs, PidfdPCs, SignalPCs
  <2>5. x.pc # "save"  BY <1>3, <1>6
  <2>. QED  BY <1>2, <2>1, <2>4, <2>5, MovingGuests
<1>7. CASE ctl[c].then = "l_spawn"
  <2>1. Saving(c, "l_spawn") /\ mem' = mem  BY <1>1, <1>2, <1>7 DEF Saving, SavePCs
  <2>2. Emptied(c)'  BY <1>1, <1>3, <1>4, <2>1 DEF SlotInv, Emptied, Vacant, OfSlot, IsQemu
  <2>3. Launching(c)'  BY <1>1, <1>3, <1>4, <2>1 DEF SlotInv, Launching, Rec
  <2>4. ArgvFits(c)'  BY <1>1, <1>3, <1>4, <2>1 DEF SlotInv, ArgvFits, KeysOf
  <2>5. SlotInv(c)'
    BY <1>3, <1>4, <1>7, <2>2, <2>3, <2>4 DEF SlotInv, Accounted, Waiting, Called, Opened, Cleared, Replaces,
                           At, Saving, SavePCs, PidfdPCs, SignalPCs
  <2>6. x.pc # "save"  BY <1>3, <1>7
  <2>. QED  BY <1>2, <2>1, <2>5, <2>6, MovingGuests
<1>. QED  BY <1>5, <1>6, <1>7

LEMMA MediaGuests ==
  ASSUME OneControllerPerRun, IInv, IInv', PlanInv, GuestInv, NEW c \in Controllers, Media(c)
  PROVE  GuestInv'
<1>1. /\ ctl[c].pc = "media" /\ ctl[c] \in Control /\ RunOf[c] \in Runs
      /\ disk \in [Runs -> [Hosts -> BOOLEAN]]
  BY SetsAssumption DEF Media, At, IInv, TypeOK
<1>2. /\ manifest[RunOf[c]] # NoManifest
      /\ \A h \in Hosts : manifest[RunOf[c]].rec[h].status # "removed"
  <2>1. manifest[RunOf[c]] # NoManifest /\ ~manifest[RunOf[c]].destroying
    BY <1>1 DEF PlanInv, PlanOf, Creating, BetweenCalls
  <2>2. Sound(RunOf[c], manifest[RunOf[c]])  BY <1>1 DEF PlanInv
  <2>. QED  BY <2>1, <2>2 DEF Sound
<1>3. PICK h \in ctl[c].todo :
        /\ disk' = [disk EXCEPT ![RunOf[c]][h] = TRUE]
        /\ LET left == ctl[c].todo \ {h} IN
           Become(c, IF left # {} THEN [ctl[c] EXCEPT !.todo = left]
                     ELSE [ctl[c] EXCEPT !.todo = Hosts, !.pc = "status_call"])
  BY DEF Media
<1>. DEFINE left == ctl[c].todo \ {h}
            x == IF left # {} THEN [ctl[c] EXCEPT !.todo = left]
                 ELSE [ctl[c] EXCEPT !.todo = Hosts, !.pc = "status_call"]
<1>4. x.pc \in {"media", "status_call"}  BY <1>1 DEF Control
<1>5. Become(c, x)  BY <1>3
<1>. HIDE DEF x, left
<1>6. /\ procs' = procs /\ clock' = clock /\ manifest' = manifest /\ mem' = mem /\ pidfile' = pidfile /\ sock' = sock
      /\ ctl'[c] = x /\ \A d \in Controllers \ {c} : ctl'[d] = ctl[d]
  BY <1>5 DEF Media, store, copies, os, Become, IInv, TypeOK
<1>7. /\ \A r \in Runs \ {RunOf[c]} : disk'[r] = disk[r]
      /\ \A g \in Hosts : disk[RunOf[c]][g] => disk'[RunOf[c]][g]
  <2>1. disk[RunOf[c]] \in [Hosts -> BOOLEAN]  BY <1>1
  <2>2. disk' = [disk EXCEPT ![RunOf[c]] = [disk[RunOf[c]] EXCEPT ![h] = TRUE]]  BY <1>1, <1>3
  <2>3. disk'[RunOf[c]] = [disk[RunOf[c]] EXCEPT ![h] = TRUE]
        /\ \A r \in Runs \ {RunOf[c]} : disk'[r] = disk[r]
    BY <1>1, <2>2
  <2>. QED  BY <2>1, <2>3
<1>8. Alone(c) /\ Awaited(c)  BY <1>1, <1>6, <1>7 DEF Alone, Awaited, At
<1>9. \A p \in Pids : (Alive(p) /\ procs[p].vm.run = RunOf[c]) =>
        pidfile'[RunOf[c]][procs[p].vm.host] = p /\ manifest'[RunOf[c]] # NoManifest
  BY <1>2, <1>6 DEF GuestInv, AliveKnown
<1>10. \A m : (m = manifest'[RunOf[c]] /\ m # NoManifest) => Fits(RunOf[c], m)'
  <2>. SUFFICES ASSUME NEW m, m = manifest[RunOf[c]] PROVE Fits(RunOf[c], m)'  BY <1>6
  <2>1. Fits(RunOf[c], m)  BY <1>1, <1>2 DEF GuestInv, Judged
  <2>2. ASSUME NEW p \in Pids, Alive(p), procs[p].vm.run = RunOf[c] PROVE AliveFits(p, RunOf[c], m)'
    <3>1. AliveFits(p, RunOf[c], m)  BY <2>1, <2>2 DEF Fits
    <3>2. procs[p].vm.host \in Hosts  BY <2>2, QemuType, TypeHalves DEF IInv, Alive
    <3>3. procs[p].stage = "ready" => disk'[RunOf[c]][procs[p].vm.host]
      BY <1>7, <3>1, <3>2 DEF AliveFits
    <3>4. PICK g, rec : g = procs[p].vm.host /\ rec = m.rec[g]  OBVIOUS
    <3>5. /\ procs[p].vm.gen = m.gen /\ rec.status \in {"launching", "running"}
          /\ rec.status = "running" => rec.pid = p /\ rec.start = procs[p].start
          /\ procs[p].keys \subseteq KeysOf(m, g)
          /\ procs[p].stage \in {"terminating", "killed"} => m.destroying
      BY <3>1, <3>4 DEF AliveFits
    <3>6. procs[p].stage = "ready" => disk'[RunOf[c]][g]  BY <3>3, <3>4
    <3>7. procs'[p] = procs[p] /\ g = procs'[p].vm.host  BY <1>6, <3>4
    <3>. QED  BY <3>4, <3>5, <3>6, <3>7 DEF AliveFits, KeysOf
  <2>3. ASSUME NEW g \in Hosts PROVE RecordFits(g, RunOf[c], m)' /\ RemovedFits(g, RunOf[c], m)'
    <3>1. RecordFits(g, RunOf[c], m)  BY <2>1 DEF Fits
    <3>2. RecordFits(g, RunOf[c], m)'  BY <1>6, <3>1 DEF RecordFits, Guest
    <3>3. RemovedFits(g, RunOf[c], m)'  BY <1>2 DEF RemovedFits
    <3>. QED  BY <3>2, <3>3
  <2>. QED  BY <1>6, <2>2, <2>3 DEF Fits, Alive, IsQemu
<1>11. SlotInv(c)' /\ ctl'[c].pc # "save"  BY <1>4, <1>6, PlainSlot DEF PlainPCs
<1>. QED  BY <1>8, <1>9, <1>10, <1>11, StepGuests

-------------------------------------------------------------------------------
(* destroy                                                                 *)

LEMMA DestroyBeginGuests ==
  ASSUME OneControllerPerRun, IInv, PlanInv, GuestInv, NEW c \in Controllers, DestroyBegin(c)
  PROVE  GuestInv'
<1>1. ctl[c].pc = "destroy" /\ ctl[c].pc \in CallPCs \ {"d_release"} /\ mem[c] # NoManifest
  BY DEF DestroyBegin, At, CallPCs
<1>2. ctl[c] \in Control /\ mem[c] \in Manifest /\ Fits(RunOf[c], mem[c]) /\ mem[c] = manifest[RunOf[c]]
  BY <1>1, Caller
<1>. DEFINE x == [[ctl[c] EXCEPT !.then = "d_next", !.todo = Hosts, !.failed = FALSE] EXCEPT !.pc = "save"]
            n == [mem[c] EXCEPT !.destroying = TRUE]
<1>3. /\ Become(c, x) /\ Undisturbed /\ manifest' = manifest /\ mem' = [mem EXCEPT ![c] = n]
  BY DEF DestroyBegin, BeginSave, Undisturbed, store, os, files
<1>4. x.pc = "save" /\ x.then = "d_next"  BY <1>2 DEF Control
<1>5. n.gen = mem[c].gen /\ n.destroying /\ n.rec = mem[c].rec  BY <1>2 DEF Manifest
<1>. HIDE DEF x, n
<1>6. ctl'[c] = x /\ mem'[c] = n  BY <1>3, UndisturbedAlone DEF IInv, TypeOK
<1>7. Replaces(c)'  BY <1>2, <1>3, <1>5, <1>6, SameReplaces
<1>8. SlotInv(c)'  BY <1>4, <1>6, <1>7, SavedSlot
<1>9. Fits(RunOf[c], n)
  <2>1. ASSUME NEW p \in Pids, AliveFits(p, RunOf[c], mem[c]) PROVE AliveFits(p, RunOf[c], n)
    <3>1. PICK g, rec : g = procs[p].vm.host /\ rec = mem[c].rec[g] /\ rec = n.rec[g]  BY <1>5
    <3>2. KeysOf(n, g) = KeysOf(mem[c], g)  BY <1>5 DEF KeysOf
    <3>. QED  BY <1>5, <2>1, <3>1, <3>2 DEF AliveFits
  <2>2. \A h \in Hosts : /\ RecordFits(h, RunOf[c], mem[c]) => RecordFits(h, RunOf[c], n)
                         /\ RemovedFits(h, RunOf[c], mem[c]) => RemovedFits(h, RunOf[c], n)
    BY <1>5 DEF RecordFits, RemovedFits, Guest
  <2>. QED  BY <1>2, <2>1, <2>2 DEF Fits
<1>10. ctl[c].pc # "l_wait"  BY <1>1
<1>. QED  BY <1>3, <1>8, <1>9, <1>10, SavingGuests

LEMMA DestroyCheckGuests ==
  ASSUME OneControllerPerRun, IInv, PlanInv, GuestInv, NEW c \in Controllers, DestroyCheck(c)
  PROVE  GuestInv'
<1>1. ctl[c].pc = "d_check" /\ ctl[c].pc \in CallPCs \ {"d_release"}
  BY DEF DestroyCheck, At, CallPCs
<1>2. mem[c] # NoManifest
  BY <1>1 DEF IInv, CallInv, CallReady, Calling, LockedPCs
<1>3. /\ ctl[c].host \in Hosts /\ RunOf[c] \in Runs /\ mem[c] \in Manifest
      /\ Fits(RunOf[c], mem[c]) /\ SlotInv(c) /\ \A p \in Pids : IsQemu(p) => Alive(p)
  BY <1>1, <1>2, Caller
<1>4. CASE Collect(c)  BY <1>1, <1>4, CollectGuests
<1>5. CASE OwnedBy(c) = "yes" /\ Move(c, "d_pidfd")
  <2>1. Rec(c).status = "running" /\ Rec(c).pid \in Pids
    BY <1>3, <1>5, OwnedGuest DEF OwnedBy, Rec
  <2>2. ASSUME ctl'[c].pc = "d_pidfd", ctl'[c].host = ctl[c].host, mem' = mem
        PROVE  SlotInv(c)'
    <3>1. Opened(c)'  BY <2>1, <2>2 DEF Opened, At, SignalPCs, Rec
    <3>. QED
      BY <2>2, <3>1 DEF SlotInv, Emptied, Accounted, Launching, Waiting, Called, ArgvFits, Cleared, Replaces,
                       At, Saving, SavePCs
  <2>. QED  BY <1>1, <1>5, <2>2, MovedGuests
<1>6. CASE OwnedBy(c) = "no" /\ ~Unverified(c) /\ Move(c, "d_files")
  <2>1. mem[c].rec[ctl[c].host].status = "launching" => pidfile[RunOf[c]][ctl[c].host] = NoOne
    BY <1>6 DEF Unverified, Rec
  <2>2. Vacant(RunOf[c], ctl[c].host)  BY <1>3, <1>6, <2>1, NotOwned DEF OwnedBy
  <2>3. ASSUME ctl'[c].pc = "d_files", ctl'[c].host = ctl[c].host, procs' = procs
        PROVE  SlotInv(c)'
    <3>1. Emptied(c)'  BY <2>2, <2>3 DEF Emptied, Vacant, OfSlot, IsQemu
    <3>. QED
      BY <2>3, <3>1 DEF SlotInv, Accounted, Launching, Waiting, Called, ArgvFits, Opened, Cleared, Replaces,
                       At, Saving, SavePCs, PidfdPCs, SignalPCs
  <2>. QED  BY <1>1, <1>6, <2>3, MovedGuests
<1>7. OwnedBy(c) \in {"yes", "no", "error"}  BY DEF OwnedBy, Owned
<1>. QED  BY <1>4, <1>5, <1>6, <1>7 DEF DestroyCheck

LEMMA OpenPidfdGuests ==
  ASSUME OneControllerPerRun, IInv, PlanInv, GuestInv, NEW c \in Controllers, OpenPidfd(c)
  PROVE  GuestInv'
<1>1. ctl[c].pc = "d_pidfd" /\ ctl[c].pc \in CallPCs \ {"d_release"}
  BY DEF OpenPidfd, At, CallPCs
<1>2. mem[c] # NoManifest
  BY <1>1 DEF IInv, CallInv, CallReady, Calling, LockedPCs
<1>3. ctl[c] \in Control /\ SlotInv(c) /\ Awaited(c)  BY <1>1, <1>2, Caller
<1>4. CASE Collect(c)  BY <1>1, <1>4, CollectGuests
<1>5. CASE Local(c, [ctl[c] EXCEPT !.pc = "d_reown", !.child = procs[Rec(c).pid].start])
  <2>. DEFINE x == [ctl[c] EXCEPT !.pc = "d_reown", !.child = procs[Rec(c).pid].start]
  <2>1. Become(c, x) /\ Undisturbed /\ manifest' = manifest /\ mem' = mem
    BY <1>5 DEF Local, Undisturbed, store, copies, os
  <2>2. x.pc = "d_reown" /\ x.host = ctl[c].host /\ x.child = procs[Rec(c).pid].start
    BY <1>3 DEF Control
  <2>. HIDE DEF x
  <2>3. ctl'[c] = x /\ procs' = procs  BY <2>1, UndisturbedAlone DEF Undisturbed
  <2>4. Rec(c)' = Rec(c)  BY <2>1, <2>2, <2>3 DEF Rec
  <2>5. Rec(c).status = "running" /\ Rec(c).pid \in Pids
    BY <1>1, <1>3 DEF SlotInv, Opened, PidfdPCs
  <2>6. Opened(c)'  BY <2>2, <2>3, <2>4, <2>5 DEF Opened, At, SignalPCs
  <2>7. SlotInv(c)'
    BY <2>2, <2>3, <2>6 DEF SlotInv, Emptied, Accounted, Launching, Waiting, Called, ArgvFits, Cleared, Replaces,
                     At, Saving, SavePCs
  <2>8. x.pc # "save"  BY <2>2
  <2>. QED  BY <1>3, <2>1, <2>7, <2>8, MovingGuests
<1>. QED  BY <1>4, <1>5 DEF OpenPidfd

LEMMA CheckAgainGuests ==
  ASSUME OneControllerPerRun, IInv, PlanInv, GuestInv, NEW c \in Controllers, CheckAgain(c)
  PROVE  GuestInv'
<1>1. ctl[c].pc = "d_reown" /\ ctl[c].pc \in CallPCs \ {"d_release"}
  BY DEF CheckAgain, At, CallPCs
<1>2. mem[c] # NoManifest
  BY <1>1 DEF IInv, CallInv, CallReady, Calling, LockedPCs
<1>3. /\ ctl[c].host \in Hosts /\ RunOf[c] \in Runs /\ mem[c] \in Manifest
      /\ Fits(RunOf[c], mem[c]) /\ SlotInv(c)
  BY <1>1, <1>2, Caller
<1>4. CASE Collect(c)  BY <1>1, <1>4, CollectGuests
<1>5. CASE OwnedBy(c) = "yes" /\ Move(c, "d_term")
  <2>1. /\ Rec(c).pid \in Pids /\ procs[Rec(c).pid] # NoProc /\ procs[Rec(c).pid].start = Rec(c).start
        /\ Rec(c).status = "running" /\ procs[Rec(c).pid].vm = Guest(RunOf[c], mem[c], ctl[c].host)
    BY <1>3, <1>5, OwnedGuest DEF OwnedBy, Rec
  <2>2. ctl[c].child = Rec(c).start  BY <1>1, <1>3, <2>1 DEF SlotInv, Opened, At
  <2>3. /\ ctl[c].child <= clock
        /\ \A p \in Pids : (procs[p] # NoProc /\ procs[p].start = ctl[c].child) => p = Rec(c).pid
    BY <2>1, <2>2 DEF GuestInv, StartsKnown
  <2>4. PICK vm, rec : vm = Guest(RunOf[c], mem[c], ctl[c].host) /\ rec = Rec(c)  OBVIOUS
  <2>5. ASSUME ctl'[c].pc = "d_term", ctl'[c].host = ctl[c].host, ctl'[c].child = ctl[c].child,
               mem' = mem, procs' = procs, clock' = clock
        PROVE  SlotInv(c)'
    <3>1. Rec(c)' = rec /\ Guest(RunOf[c], mem[c], ctl[c].host)' = vm
      BY <2>4, <2>5 DEF Rec, Guest
    <3>2. \A p \in Pids : (procs[p] # NoProc /\ procs[p].start = ctl[c].child) => procs[p].vm = vm
      BY <2>1, <2>3, <2>4
    <3>3. Opened(c)'  BY <2>1, <2>3, <2>4, <2>5, <3>1, <3>2 DEF Opened, At
    <3>. QED
      BY <2>5, <3>3 DEF SlotInv, Emptied, Accounted, Launching, Waiting, Called, ArgvFits, Cleared, Replaces,
                       At, Saving, SavePCs
  <2>. QED  BY <1>1, <1>5, <2>5, MovedGuests
<1>. QED  BY <1>4, <1>5 DEF CheckAgain

LEMMA ExitedGuests ==
  ASSUME OneControllerPerRun, IInv, PlanInv, GuestInv, NEW c \in Controllers, Exited(c)
  PROVE  GuestInv'
<1>1. ctl[c].pc \in {"d_wait", "d_kill_wait"} /\ ctl[c].pc \in CallPCs \ {"d_release"}
  BY DEF Exited, CallPCs
<1>2. mem[c] # NoManifest
  BY <1>1 DEF IInv, CallInv, CallReady, Calling, LockedPCs
<1>3. /\ ctl[c].host \in Hosts /\ RunOf[c] \in Runs /\ mem[c] \in Manifest
      /\ Fits(RunOf[c], mem[c]) /\ SlotInv(c) /\ \A p \in Pids : IsQemu(p) => Alive(p)
  BY <1>1, <1>2, Caller
<1>4. Rec(c).status = "running" /\ procs[Rec(c).pid] = NoProc
  BY <1>1, <1>3 DEF SlotInv, Opened, PidfdPCs, SignalPCs, Exited
<1>5. Vacant(RunOf[c], ctl[c].host)
  <2>. SUFFICES ASSUME NEW p \in Pids, OfSlot(p, RunOf[c], ctl[c].host) PROVE FALSE  BY DEF Vacant
  <2>1. /\ Alive(p) /\ procs[p] # NoProc /\ procs[p].vm.run = RunOf[c] /\ procs[p].vm.host = ctl[c].host
    BY <1>3 DEF OfSlot, IsQemu
  <2>2. AliveFits(p, RunOf[c], mem[c])  BY <1>3, <2>1 DEF Fits
  <2>3. Rec(c).pid = p  BY <1>4, <2>1, <2>2 DEF AliveFits, Rec
  <2>. QED  BY <1>4, <2>1, <2>3
<1>6. Move(c, "d_files")  BY DEF Exited
<1>7. ASSUME ctl'[c].pc = "d_files", ctl'[c].host = ctl[c].host, procs' = procs
      PROVE  SlotInv(c)'
  <2>1. Emptied(c)'  BY <1>5, <1>7 DEF Emptied, Vacant, OfSlot, IsQemu
  <2>. QED
    BY <1>7, <2>1 DEF SlotInv, Accounted, Launching, Waiting, Called, ArgvFits, Opened, Cleared, Replaces,
                     At, Saving, SavePCs, PidfdPCs, SignalPCs
<1>8. ctl[c].pc # "l_wait"  BY <1>1
<1>. QED  BY <1>6, <1>7, <1>8, MovedGuests

LEMMA SendGuests ==
  ASSUME OneControllerPerRun, IInv, IInv', PlanInv, GuestInv, NEW c \in Controllers,
         Terminate(c) \/ TimeoutKill(c)
  PROVE  GuestInv'
<1>1. ctl[c].pc \in SignalPCs /\ ctl[c].pc # "l_wait"  BY DEF Terminate, TimeoutKill, At, SignalPCs
<1>2. PICK stage \in {"terminating", "killed"}, pc \in {"d_wait", "d_kill_wait"} : Signal(c, stage, pc)
  BY DEF Terminate, TimeoutKill
<1>3. CASE PidfdTarget(c) = {}
  <2>1. Collect(c)  BY <1>2, <1>3 DEF Signal
  <2>. QED  BY <1>1, <2>1, CollectGuests
<1>4. CASE PidfdTarget(c) # {}  BY <1>1, <1>2, <1>4, SignalGuests
<1>. QED  BY <1>3, <1>4

LEMMA RemoveFilesGuests ==
  ASSUME OneControllerPerRun, IInv, PlanInv, GuestInv, NEW c \in Controllers, RemoveFiles(c)
  PROVE  GuestInv'
<1>1. ctl[c].pc = "d_files" /\ ctl[c].pc \in CallPCs \ {"d_release", "l_wait"}
  BY DEF RemoveFiles, At, CallPCs
<1>2. mem[c] # NoManifest
  BY <1>1 DEF IInv, CallInv, CallReady, Calling, LockedPCs
<1>3. ctl[c] \in Control /\ mem[c] \in Manifest /\ SlotInv(c) /\ RunOf[c] \in Runs /\ ctl[c].host \in Hosts
  BY <1>1, <1>2, Caller
<1>. DEFINE x == [ctl[c] EXCEPT !.pc = "d_disk"]
<1>4. /\ Become(c, x) /\ UNCHANGED <<manifest, procs, clock>> /\ mem' = mem
  BY DEF RemoveFiles, Goto, store, copies, os
<1>5. x.pc = "d_disk" /\ x.host = ctl[c].host  BY <1>3 DEF Control
<1>. HIDE DEF x
<1>6. ctl'[c] = x  BY <1>4 DEF Become, IInv, TypeOK
<1>7. Clears(c)  BY DEF RemoveFiles, Clears
<1>8. Vacant(RunOf[c], ctl[c].host)  BY <1>1, <1>3 DEF SlotInv, Emptied
<1>9. SlotInv(c)'
  <2>1. Emptied(c)'  BY <1>4, <1>5, <1>6, <1>8 DEF Emptied, Vacant, OfSlot, IsQemu
  <2>2. pidfile'[RunOf[c]][ctl[c].host] = NoOne /\ sock'[RunOf[c]][ctl[c].host] = 0
    BY <1>3 DEF RemoveFiles, IInv, TypeOK
  <2>3. Cleared(c)'  BY <1>5, <1>6, <2>2 DEF Cleared
  <2>. QED
    BY <1>5, <1>6, <2>1, <2>3 DEF SlotInv, Accounted, Launching, Waiting, Called, ArgvFits, Opened, Replaces,
                           At, Saving, SavePCs, PidfdPCs, SignalPCs
<1>10. PICK n : n = mem[c]  OBVIOUS
<1>11. n \in Manifest /\ mem' = [mem EXCEPT ![c] = n]  BY <1>3, <1>4, <1>10 DEF IInv, TypeOK
<1>. QED  BY <1>1, <1>2, <1>4, <1>7, <1>8, <1>9, <1>10, <1>11, VacantGuests

LEMMA RemoveDiskGuests ==
  ASSUME OneControllerPerRun, IInv, PlanInv, GuestInv, NEW c \in Controllers, RemoveDisk(c)
  PROVE  GuestInv'
<1>1. ctl[c].pc = "d_disk" /\ ctl[c].pc \in CallPCs \ {"d_release", "l_wait"}
  BY DEF RemoveDisk, At, CallPCs
<1>2. mem[c] # NoManifest
  BY <1>1 DEF IInv, CallInv, CallReady, Calling, LockedPCs
<1>3. /\ ctl[c] \in Control /\ mem[c] \in Manifest /\ SlotInv(c) /\ ctl[c].host \in Hosts
      /\ mem[c] = manifest[RunOf[c]] /\ RunOf[c] \in Runs
  BY <1>1, <1>2, Caller
<1>. DEFINE h == ctl[c].host
            x == [ctl[c] EXCEPT !.pc = "save", !.then = "d_next", !.child = 0,
                                !.todo = @ \ {ctl[c].host}]
            n == SetStatus(c, "removed")
<1>4. /\ Become(c, x) /\ UNCHANGED <<manifest, procs, clock>> /\ mem' = [mem EXCEPT ![c] = n]
      /\ pidfile' = pidfile /\ sock' = sock
  BY DEF RemoveDisk, store, os
<1>5. x.pc = "save" /\ x.then = "d_next"  BY <1>3 DEF Control
<1>6. PICK m, g : m = mem[c] /\ g = h  OBVIOUS
<1>7. n = [m EXCEPT !.rec[g].status = "removed"]  BY <1>6 DEF SetStatus
<1>. HIDE DEF x, n, h
<1>8. m \in Manifest /\ g \in Hosts /\ h = ctl[c].host  BY <1>3, <1>6 DEF h
<1>9. /\ n \in Manifest /\ n.gen = m.gen /\ n.destroying = m.destroying
      /\ \A f \in Hosts \ {g} : n.rec[f] = m.rec[f]
      /\ n.rec[g].keys = m.rec[g].keys
      /\ n.rec[g].pid = m.rec[g].pid /\ n.rec[g].start = m.rec[g].start
  <2>1. "removed" \in Statuses  BY DEF Statuses
  <2>. QED  BY <1>7, <1>8, <2>1, StatusSet
<1>10. ctl'[c] = x /\ mem'[c] = n  BY <1>4 DEF Become, IInv, TypeOK
<1>11. Clears(c)  BY DEF RemoveDisk, Clears
<1>12. /\ Vacant(RunOf[c], ctl[c].host)
       /\ pidfile[RunOf[c]][ctl[c].host] = NoOne /\ sock[RunOf[c]][ctl[c].host] = 0
  BY <1>1, <1>3 DEF SlotInv, Emptied, Cleared, At
<1>13. ~disk'[RunOf[c]][ctl[c].host]
  <2>1. disk[RunOf[c]] \in [Hosts -> BOOLEAN] /\ disk \in [Runs -> [Hosts -> BOOLEAN]]
    BY <1>3 DEF IInv, TypeOK
  <2>2. disk' = [disk EXCEPT ![RunOf[c]] = [disk[RunOf[c]] EXCEPT ![ctl[c].host] = FALSE]]
    BY <1>3, <2>1 DEF RemoveDisk
  <2>3. disk'[RunOf[c]] = [disk[RunOf[c]] EXCEPT ![ctl[c].host] = FALSE]  BY <1>3, <2>1, <2>2
  <2>. QED  BY <1>3, <2>1, <2>3
<1>14. SlotInv(c)'
  <2>1. \A f \in Hosts : mem'[c].rec[f].keys = mem[c].rec[f].keys  BY <1>6, <1>9, <1>10
  <2>2. Replaces(c)'  BY <1>3, <1>4, <2>1, SameReplaces
  <2>. QED  BY <1>5, <1>10, <2>2, SavedSlot
<1>. QED
  BY <1>1, <1>2, <1>4, <1>6, <1>8, <1>9, <1>11, <1>12, <1>13, <1>14, VacantGuests

LEMMA RemoveManifestGuests ==
  ASSUME OneControllerPerRun, IInv, PlanInv, GuestInv, NEW c \in Controllers, RemoveManifest(c)
  PROVE  /\ GuestInv'
         /\ \A h \in Hosts : mem[c].rec[h].status = "removed"
         /\ \A p \in Pids : ~(Alive(p) /\ procs[p].vm.run = RunOf[c])
         /\ mem[c] = manifest[RunOf[c]] /\ Fits(RunOf[c], mem[c])
<1>1. ctl[c].pc = "d_next" /\ ctl[c].pc \in CallPCs \ {"d_release"} /\ ctl[c].todo = {} /\ ~ctl[c].failed
  BY DEF RemoveManifest, At, CallPCs
<1>2. mem[c] # NoManifest
  BY <1>1 DEF IInv, CallInv, CallReady, Calling, LockedPCs
<1>3. /\ ctl[c] \in Control /\ RunOf[c] \in Runs /\ Fits(RunOf[c], mem[c]) /\ Awaited(c)
      /\ mem[c] = manifest[RunOf[c]]
  BY <1>1, <1>2, Caller
<1>4. \A h \in Hosts : mem[c].rec[h].status = "removed"
  <2>1. Dealt(c, ctl[c], mem[c], res[c])
    BY <1>1 DEF IInv, CallInv, CleanedUp, Cleaning, CleanupPCs
  <2>. QED  BY <1>1, <2>1 DEF Dealt
<1>5. ASSUME NEW p \in Pids, Alive(p), procs[p].vm.run = RunOf[c] PROVE FALSE
  <2>1. AliveFits(p, RunOf[c], mem[c])  BY <1>3, <1>5 DEF Fits
  <2>2. procs[p].vm.host \in Hosts  BY <1>5, QemuType, TypeHalves DEF IInv, Alive
  <2>. QED  BY <1>4, <2>1, <2>2 DEF AliveFits
<1>. DEFINE x == [ctl[c] EXCEPT !.pc = "d_release"]
<1>6. /\ Become(c, x) /\ manifest' = [manifest EXCEPT ![RunOf[c]] = NoManifest] /\ mem' = mem
      /\ procs' = procs /\ clock' = clock /\ pidfile' = pidfile /\ sock' = sock /\ disk' = disk
  BY DEF RemoveManifest, Goto, copies, os, files
<1>7. x.pc = "d_release"  BY <1>3 DEF Control
<1>. HIDE DEF x
<1>8. /\ ctl'[c] = x /\ \A d \in Controllers \ {c} : ctl'[d] = ctl[d]
      /\ manifest'[RunOf[c]] = NoManifest /\ \A r \in Runs \ {RunOf[c]} : manifest'[r] = manifest[r]
  BY <1>3, <1>6 DEF Become, IInv, TypeOK
<1>9. Alone(c)  BY <1>6, <1>8 DEF Alone
<1>10. SlotInv(c)' /\ ctl'[c].pc # "save"  BY <1>7, <1>8, PlainSlot DEF PlainPCs
<1>11. GuestInv'  BY <1>3, <1>5, <1>8, <1>9, <1>10, StepGuests
<1>. QED  BY <1>3, <1>4, <1>5, <1>11

LEMMA ReleaseAllGuests ==
  ASSUME OneControllerPerRun, IInv, PlanInv, GuestInv, NEW c \in Controllers, ReleaseAll(c)
  PROVE  GuestInv'
<1>1. /\ Undisturbed /\ manifest' = manifest /\ Become(c, IdleControl)
      /\ mem' = [mem EXCEPT ![c] = NoManifest]
  BY DEF ReleaseAll, Unlock, Undisturbed, os, files
<1>2. Awaited(c)  BY DEF ReleaseAll, Awaited, At
<1>. QED  BY <1>1, <1>2, IdleFits, PlainGuests DEF PlainPCs

-------------------------------------------------------------------------------
(* All steps                                                               *)

LEMMA CallGuests ==
  ASSUME OneControllerPerRun, IInv, IInv', PlanInv, GuestInv, NEW c \in Controllers, Call(c)
  PROVE  GuestInv'
<1>1. Calling(c) /\ ctl[c].pc \notin {"reserve", "launch", "destroy"} => mem[c] # NoManifest
  BY DEF IInv, CallInv, CallReady
<1>2. CASE \/ ReserveConflict(c) \/ ReserveRefused(c) \/ LaunchRefused(c) \/ SpawnRefused(c)
           \/ DaemonizedUnverified(c) \/ RetryRefused(c) \/ LaunchFailed(c) \/ DestroyNothing(c)
           \/ DestroyIncomplete(c)
  <2>1. Fail(c) /\ ctl[c].pc # "l_wait"
    BY <1>2 DEF ReserveConflict, ReserveRefused, LaunchRefused, SpawnRefused, DaemonizedUnverified,
                RetryRefused, LaunchFailed, DestroyNothing, DestroyIncomplete, At
  <2>. QED  BY <2>1, FailGuests
<1>3. CASE Launch(c)  BY <1>3, RecoverGuests DEF Launch
<1>4. CASE Daemonized(c)
  <2>1. RecoverAt(c, "l_rc0", "l_verify")  BY <1>4 DEF Daemonized
  <2>2. mem[c] # NoManifest  BY <1>1, <2>1 DEF RecoverAt, At, Calling, LockedPCs, CallPCs
  <2>. QED  BY <2>1, <2>2, RecoverGuests
<1>5. CASE DestroyRecover(c)
  <2>1. RecoverAt(c, "d_recover", "d_check")  BY <1>5 DEF DestroyRecover
  <2>2. mem[c] # NoManifest  BY <1>1, <2>1 DEF RecoverAt, At, Calling, LockedPCs, CallPCs
  <2>. QED  BY <2>1, <2>2, RecoverGuests
<1>6. CASE LaunchVerify(c)
  <2>1. ctl[c].pc # "l_wait" /\ (Launched(c) \/ Fail(c))  BY <1>6 DEF LaunchVerify, At
  <2>. QED  BY <2>1, LaunchedGuests, FailGuests
<1>7. CASE DestroyNext(c)
  <2>1. PICK h \in ctl[c].todo : Local(c, [ctl[c] EXCEPT !.pc = "d_recover", !.host = h])
    BY <1>7 DEF DestroyNext
  <2>2. [ctl[c] EXCEPT !.pc = "d_recover", !.host = h].pc \in PlainPCs
    BY DEF IInv, TypeOK, Control, PlainPCs
  <2>3. ctl[c].pc # "l_wait"  BY <1>7 DEF DestroyNext, At
  <2>. QED  BY <2>1, <2>2, <2>3, LocalGuests DEF Local, os
<1>8. CASE DestroyUncertain(c)  BY <1>8, CollectGuests DEF DestroyUncertain, At
<1>9. CASE KillTimeout(c)  BY <1>9, CollectedGuests DEF KillTimeout, At, os
<1>10. CASE ArtifactRetained(c)  BY <1>10, CollectedGuests DEF ArtifactRetained, os
<1>11. CASE RemoveManifest(c)  BY <1>11, RemoveManifestGuests
<1>12. CASE OldBindError(c)
  <2>1. ctl[c].pc = "l_failed" /\ Move(c, "l_in_use")  BY <1>12 DEF OldBindError, At
  <2>2. SlotInv(c)  BY DEF GuestInv
  <2>3. ASSUME ctl'[c].pc = "l_in_use", ctl'[c].host = ctl[c].host, ctl'[c].argv = ctl[c].argv,
               mem' = mem, procs' = procs
        PROVE  SlotInv(c)'
    <3>1. Emptied(c)' /\ Launching(c)' /\ ArgvFits(c)'
      BY <2>1, <2>2, <2>3 DEF SlotInv, Emptied, Launching, ArgvFits, Vacant, OfSlot, IsQemu, Rec, KeysOf
    <3>2. (Accounted(c) /\ Waiting(c) /\ Called(c) /\ Opened(c) /\ Cleared(c) /\ Replaces(c))'
      BY <2>3 DEF Accounted, Waiting, Called, Opened, Cleared, Replaces, At, Saving, SavePCs,
                  PidfdPCs, SignalPCs
    <3>. QED  BY <3>1, <3>2 DEF SlotInv
  <2>. QED  BY <2>1, <2>3, MovedGuests
<1>. QED
  BY <1>2, <1>3, <1>4, <1>5, <1>6, <1>7, <1>8, <1>9, <1>10, <1>11, <1>12,
     SaveManifestGuests, SaveReservationsGuests, ReserveExistingGuests, ReserveFreshGuests,
     LaunchOwnedGuests, UnlinkPidfileGuests, MarkLaunchingGuests, SpawnGuests, RetryPortsGuests,
     DestroyBeginGuests, DestroyCheckGuests, OpenPidfdGuests, CheckAgainGuests, SendGuests,
     ExitedGuests, RemoveFilesGuests, RemoveDiskGuests, ReleaseAllGuests
  DEF Call

LEMMA QmpTimeoutGuests ==
  ASSUME OneControllerPerRun, IInv, PlanInv, GuestInv, NEW c \in Controllers, QmpTimeout(c)
  PROVE  GuestInv'
<1>1. ctl[c].pc # "l_wait"  BY DEF QmpTimeout
<1>2. CASE Return(c, IdleControl)  BY <1>1, <1>2, IdleFits, ReturnGuests DEF PlainPCs
<1>3. CASE Become(c, Collected(c)) /\ UNCHANGED <<store, lock, copies, files, os, gens>>
  BY <1>1, <1>3, CollectedGuests DEF os
<1>. QED  BY <1>2, <1>3 DEF QmpTimeout

\* A controller dies: while its QEMU has yet to write its pidfile it does not.
LEMMA CrashGuests ==
  ASSUME OneControllerPerRun, ~CrashBeforePidfile, IInv, PlanInv, GuestInv, NEW c \in Controllers, Crash(c)
  PROVE  GuestInv'
<1>1. Awaited(c)  BY DEF Crash, Awaited
<1>2. /\ Undisturbed /\ manifest' = manifest /\ Become(c, IdleControl)
      /\ mem' = [mem EXCEPT ![c] = NoManifest]
  BY DEF Crash, Undisturbed, store, os, files
<1>. QED  BY <1>1, <1>2, IdleFits, PlainGuests DEF PlainPCs

LEMMA ForeignPortGuests ==
  ASSUME IInv, GuestInv,
         (\E k \in ForeignKeys : ForeignBind(k) \/ ForeignUnbind(k)) \/ UNCHANGED vars
  PROVE  GuestInv'
<1>1. clock' = clock /\ procs' = procs /\ UNCHANGED <<store, copies, ctl, files>>
  BY DEF ForeignBind, ForeignUnbind, vars, os
<1>. QED  BY <1>1, BystanderGuests DEF files

\* The user removes a socket that nobody listens on.
LEMMA InspectGuests ==
  ASSUME IInv, GuestInv, NEW r \in Runs, NEW h \in Hosts, Inspect(r, h)
  PROVE  GuestInv'
<1>1. /\ clock' = clock /\ procs' = procs /\ UNCHANGED <<store, copies, ctl, pidfile, disk>>
      /\ sock' = [sock EXCEPT ![r][h] = 0]
  BY DEF Inspect, os
<1>2. \A s \in Runs, g \in Hosts : sock'[s][g] \in {sock[s][g], 0}
  BY <1>1 DEF IInv, TypeOK
<1>. QED  BY <1>1, <1>2, BystanderGuests

LEMMA NextGuests ==
  OneControllerPerRun /\ ~CrashBeforePidfile =>
    (IInv /\ PlanInv /\ GuestInv /\ IInv' /\ [Next]_vars => GuestInv')
<1>. SUFFICES ASSUME OneControllerPerRun, ~CrashBeforePidfile, IInv, PlanInv, GuestInv, IInv', [Next]_vars
              PROVE  GuestInv'
  OBVIOUS
<1>1. ASSUME NEW c \in Controllers, Play(c) PROVE GuestInv'
  BY <1>1, PlayGuests, MediaGuests DEF Play
<1>2. ASSUME NEW c \in Controllers, Call(c) PROVE GuestInv'  BY <1>2, CallGuests
<1>3. ASSUME NEW p \in Pids, QemuStep(p) PROVE GuestInv'
  BY <1>3, QemuPidfileGuests, QemuReadyGuests, QemuEndGuests DEF QemuStep
<1>4. CASE World
  BY <1>4, ForeignGuests, ForeignPortGuests, InspectGuests, QmpTimeoutGuests, CrashGuests DEF World
<1>5. CASE UNCHANGED vars  BY <1>5, ForeignPortGuests
<1>. QED  BY <1>1, <1>2, <1>3, <1>4, <1>5 DEF Next

LEMMA InitGuests == Init => GuestInv
<1>. SUFFICES ASSUME Init PROVE GuestInv  OBVIOUS
<1>1. \A p \in Pids : procs[p] = NoProc  BY DEF Init
<1>2. \A c \in Controllers : ctl[c].pc = "idle"  BY IdleFits DEF Init
<1>3. \A r \in Runs : manifest[r] = NoManifest  BY DEF Init
<1>4. StartsKnown /\ AliveKnown /\ StartingKnown
  BY <1>1 DEF StartsKnown, AliveKnown, StartingKnown, Alive, IsQemu
<1>5. \A r \in Runs : \A m : ~Judged(r, m)  BY <1>2, <1>3 DEF Judged, At
<1>6. \A c \in Controllers : SlotInv(c)  BY <1>2, PlainSlot DEF PlainPCs
<1>. QED  BY <1>4, <1>5, <1>6 DEF GuestInv

\* Where no two controllers work on one run and none dies before its QEMU has
\* written its pidfile, manifests and guests fit each other.
THEOREM GuestsFit ==
  OneControllerPerRun /\ ~CrashBeforePidfile => (Spec => [](IInv /\ PlanInv /\ GuestInv))
<1>. SUFFICES ASSUME OneControllerPerRun, ~CrashBeforePidfile PROVE Spec => [](IInv /\ PlanInv /\ GuestInv)
  OBVIOUS
<1>1. Init => IInv /\ PlanInv /\ GuestInv  BY InitIInv, InitPlan, InitGuests
<1>2. IInv /\ PlanInv /\ GuestInv /\ [Next]_vars => (IInv /\ PlanInv /\ GuestInv)'
  BY NextIInv, NextPlan, NextGuests
<1>. QED  BY <1>1, <1>2, PTL DEF Spec

-------------------------------------------------------------------------------
(* What follows for the guests                                             *)

\* A guest has at most one process, however launches are interrupted and repeated
\* (qemu_runtime.py:303-323, 420-430).
THEOREM OneProcess ==
  OneControllerPerRun /\ ~CrashBeforePidfile => (Spec => []OneProcessPerGuest)
<1>1. IInv /\ PlanInv /\ GuestInv => OneProcessPerGuest
  BY DEF GuestInv, AliveKnown, OneProcessPerGuest
<1>. QED  BY <1>1, GuestsFit, PTL

\* The pid and start time a manifest records as running are that guest's: an
\* interrupted launch adopts no other process (qemu_runtime.py:303-323).
THEOREM NothingAdopted ==
  OneControllerPerRun /\ ~CrashBeforePidfile => (Spec => []NoAdoptedProcess)
<1>1. IInv /\ PlanInv /\ GuestInv => NoAdoptedProcess
  <2>. SUFFICES ASSUME IInv, GuestInv, NEW r \in Runs, manifest[r] # NoManifest, NEW h \in Hosts
                PROVE  RecordFits(h, r, manifest[r])
    BY DEF NoAdoptedProcess, RecordFits
  <2>. QED  BY DEF GuestInv, Judged, Fits
<1>. QED  BY <1>1, GuestsFit, PTL

\* Only guests of a run that is being destroyed are signalled: no process that
\* inherited a pid, and no other run's guest (qemu_runtime.py:83-92, 498-519).
THEOREM OwnGuestsSignalled ==
  OneControllerPerRun /\ ~CrashBeforePidfile => (Spec => []OnlyOwnGuestsSignalled)
<1>1. IInv /\ PlanInv /\ GuestInv => OnlyOwnGuestsSignalled
  <2>. SUFFICES ASSUME IInv, GuestInv, NEW p \in Pids, procs[p] # NoProc,
                       procs[p].stage \in {"terminating", "killed"}
                PROVE  /\ procs[p].vm # Foreign
                       /\ manifest[procs[p].vm.run] # NoManifest
                       /\ manifest[procs[p].vm.run].gen = procs[p].vm.gen
                       /\ manifest[procs[p].vm.run].destroying
    BY DEF OnlyOwnGuestsSignalled
  <2>1. procs[p].vm # Foreign  BY DEF GuestInv, StartsKnown
  <2>2. Alive(p)  BY <2>1 DEF Alive, IsQemu
  <2>3. procs[p].vm.run \in Runs  BY <2>2, QemuType, TypeHalves DEF IInv, Alive
  <2>4. manifest[procs[p].vm.run] # NoManifest  BY <2>2 DEF GuestInv, AliveKnown
  <2>5. AliveFits(p, procs[p].vm.run, manifest[procs[p].vm.run])
    BY <2>2, <2>3, <2>4 DEF GuestInv, Judged, Fits
  <2>. QED  BY <2>1, <2>4, <2>5 DEF AliveFits
<1>. QED  BY <1>1, GuestsFit, PTL

\* A manifest changes only when a save writes it or destroy gives it up.
LEMMA ManifestSteps ==
  ASSUME IInv, PlanInv, IInv', [Next]_vars
  PROVE  \/ manifest' = manifest
         \/ \E c \in Controllers : SaveManifest(c) \/ RemoveManifest(c)
<1>1. CASE UNCHANGED vars  BY <1>1 DEF vars, store
<1>2. CASE Quiet  BY <1>2 DEF Quiet, store
<1>3. ASSUME NEW c \in Controllers, StepOf(c)
      PROVE  manifest' = manifest \/ SaveManifest(c) \/ RemoveManifest(c)
  <2>1. CASE Quiet  BY <2>1 DEF Quiet, store
  <2>2. ASSUME NEW x, Moves(c, x) \/ Leaves(c, x) PROVE manifest' = manifest
    BY <2>2 DEF Moves, Leaves, store
  <2>3. ASSUME NEW x, NEW m, NEW t, SavesSoundly(c, x, m, t) PROVE manifest' = manifest
    BY <2>3 DEF SavesSoundly, Saves, store
  <2>4. CASE SaveReservations(c) \/ ReleaseAll(c) \/ Enter(c)
    BY <2>4 DEF SaveReservations, ReleaseAll, Enter, store
  <2>. QED  BY <1>3, <2>1, <2>2, <2>3, <2>4 DEF StepOf
<1>. QED  BY <1>1, <1>2, <1>3, NextSteps

\* What a save writes over a manifest.
LEMMA SavedManifest ==
  ASSUME IInv, NEW c \in Controllers, SaveManifest(c)
  PROVE  /\ RunOf[c] \in Runs /\ manifest'[RunOf[c]] = mem[c] /\ mem[c] # NoManifest
         /\ \A r \in Runs \ {RunOf[c]} : manifest'[r] = manifest[r]
BY SetsAssumption DEF SaveManifest, At, IInv, TypeOK, CallInv, CallReady, Calling, LockedPCs, SavePCs

\* The endpoints of a guest never change while its process lives
\* (roles/qemu/README.md:58-59; qemu_runtime.py:325-396).
THEOREM EndpointsKept ==
  OneControllerPerRun /\ ~CrashBeforePidfile => (Spec => EndpointsStable)
<1>. DEFINE Stable == \A p \in Pids : (Alive(p) /\ Alive(p)' /\ procs'[p].vm = procs[p].vm) =>
                        LET vm == procs[p].vm IN
                        (manifest[vm.run] # NoManifest /\ manifest'[vm.run] # NoManifest)
                        => manifest'[vm.run].rec[vm.host].keys = manifest[vm.run].rec[vm.host].keys
<1>1. IInv /\ PlanInv /\ GuestInv /\ (IInv /\ PlanInv /\ GuestInv)' /\ [Next]_vars => [Stable]_vars
  <2>. SUFFICES ASSUME IInv, PlanInv, GuestInv, IInv', [Next]_vars, NEW p \in Pids, Alive(p),
                       manifest[procs[p].vm.run] # NoManifest, manifest'[procs[p].vm.run] # NoManifest
                PROVE  manifest'[procs[p].vm.run].rec[procs[p].vm.host].keys
                         = manifest[procs[p].vm.run].rec[procs[p].vm.host].keys
    OBVIOUS
  <2>1. procs[p].vm.run \in Runs /\ procs[p].vm.host \in Hosts
    BY QemuType, TypeHalves DEF IInv, Alive
  <2>2. CASE manifest' = manifest  BY <2>2
  <2>3. ASSUME NEW c \in Controllers, SaveManifest(c)
        PROVE  manifest'[procs[p].vm.run].rec[procs[p].vm.host].keys
                 = manifest[procs[p].vm.run].rec[procs[p].vm.host].keys
    <3>1. CASE RunOf[c] # procs[p].vm.run  BY <2>1, <2>3, <3>1, SavedManifest
    <3>2. CASE RunOf[c] = procs[p].vm.run
      <4>1. ~Vacant(RunOf[c], procs[p].vm.host)  BY <3>2 DEF Vacant, OfSlot, Alive
      <4>2. Replaces(c) /\ At(c, "save")  BY <2>3 DEF GuestInv, SlotInv, SaveManifest
      <4>3. mem[c].rec[procs[p].vm.host].keys = manifest[RunOf[c]].rec[procs[p].vm.host].keys
        BY <2>1, <3>2, <4>1, <4>2 DEF Replaces
      <4>4. manifest'[RunOf[c]] = mem[c]  BY <2>3, SavedManifest
      <4>. QED  BY <3>2, <4>3, <4>4
    <3>. QED  BY <3>1, <3>2
  <2>4. ASSUME NEW c \in Controllers, RemoveManifest(c)
        PROVE  manifest'[procs[p].vm.run] = manifest[procs[p].vm.run]
    BY <2>1, <2>4, SetsAssumption DEF RemoveManifest, IInv, TypeOK
  <2>. QED  BY <2>2, <2>3, <2>4, ManifestSteps
<1>2. Stable <=> \A p \in Pids : (Alive(p) /\ Alive(p)' /\ procs'[p].vm = procs[p].vm) =>
                   LET vm == procs[p].vm IN
                   (manifest[vm.run] # NoManifest /\ manifest'[vm.run] # NoManifest)
                   => manifest'[vm.run].rec[vm.host].keys = manifest[vm.run].rec[vm.host].keys
  OBVIOUS
<1>. HIDE DEF Stable
<1>3. OneControllerPerRun /\ ~CrashBeforePidfile => (Spec => [][Stable]_vars)
  BY <1>1, GuestsFit, PTL DEF Spec
<1>. QED  BY <1>3 DEF EndpointsStable, Stable

\* The manifest is given up when no process, no file and no reservation of the run
\* is left (roles/qemu/README.md:81-83; qemu_runtime.py:551-561).
THEOREM NothingLeft ==
  OneControllerPerRun /\ ~CrashBeforePidfile => (Spec => DestroyLeavesNothing)
<1>. SUFFICES ASSUME OneControllerPerRun, ~CrashBeforePidfile PROVE Spec => DestroyLeavesNothing
  OBVIOUS
<1>. DEFINE Left(r) ==
       /\ \A p \in Pids : ~(Alive(p) /\ procs[p].vm.run = r)
       /\ \A h \in Hosts : pidfile[r][h] = NoOne /\ sock[r][h] = 0 /\ ~disk[r][h]
       /\ \A k \in Key : reservations[k] # NoOne => reservations[k].run # r
            GivenUp == \A r \in Runs : (manifest[r] # NoManifest /\ manifest'[r] = NoManifest) => Left(r)
<1>1. IInv /\ PlanInv /\ GuestInv /\ (IInv /\ PlanInv /\ GuestInv)' /\ [Next]_vars => [GivenUp]_vars
  <2>. SUFFICES ASSUME IInv, PlanInv, GuestInv, IInv', [Next]_vars, NEW r \in Runs,
                       manifest[r] # NoManifest, manifest'[r] = NoManifest
                PROVE  Left(r)
    OBVIOUS
  <2>1. PICK c \in Controllers : SaveManifest(c) \/ RemoveManifest(c)  BY ManifestSteps
  <2>2. ~SaveManifest(c)  BY SavedManifest
  <2>3. RemoveManifest(c) /\ r = RunOf[c]
    BY <2>1, <2>2, SetsAssumption DEF RemoveManifest, IInv, TypeOK
  <2>4. /\ \A h \in Hosts : mem[c].rec[h].status = "removed"
        /\ \A p \in Pids : ~(Alive(p) /\ procs[p].vm.run = r)
        /\ mem[c] = manifest[r] /\ Fits(r, mem[c])
    BY <2>3, RemoveManifestGuests
  <2>5. \A h \in Hosts : pidfile[r][h] = NoOne /\ sock[r][h] = 0 /\ ~disk[r][h]
    BY <2>4 DEF Fits, RemovedFits
  <2>6. ASSUME NEW k \in Key, reservations[k] # NoOne, reservations[k].run = r PROVE FALSE
    <3>1. ctl[c].pc = "d_next" /\ Calling(c) /\ ctl[c].pc \notin SavePCs /\ Cleaning(ctl[c])
          /\ ctl[c].todo = {} /\ ~ctl[c].failed
      BY <2>3 DEF RemoveManifest, At, Calling, LockedPCs, CallPCs, SavePCs, Cleaning, CleanupPCs
    <3>2. res[c] = reservations  BY <3>1 DEF IInv, CallInv, Synced
    <3>3. reservations[k] = [run |-> r, gen |-> mem[c].gen]
      BY <2>3, <2>6, <3>1, <3>2 DEF IInv, CallInv, CopiesNamed, NamedBy
    <3>4. k \in ActiveKeys(mem[c])
      BY <2>3, <3>1, <3>2, <3>3, SetsAssumption DEF IInv, CallInv, CleanedUp, Dealt
    <3>. QED  BY <2>4, <3>4 DEF ActiveKeys
  <2>. QED  BY <2>4, <2>5, <2>6
<1>2. GivenUp <=> \A r \in Runs : (manifest[r] # NoManifest /\ manifest'[r] = NoManifest) =>
       /\ \A p \in Pids : ~(Alive(p) /\ procs[p].vm.run = r)
       /\ \A h \in Hosts : pidfile[r][h] = NoOne /\ sock[r][h] = 0 /\ ~disk[r][h]
       /\ \A k \in Key : reservations[k] # NoOne => reservations[k].run # r
  OBVIOUS
<1>. HIDE DEF GivenUp
<1>3. Spec => [][GivenUp]_vars
  BY <1>1, GuestsFit, PTL DEF Spec
<1>. QED  BY <1>3 DEF DestroyLeavesNothing, GivenUp

-------------------------------------------------------------------------------
(* The reservations of live guests                                         *)

\* The endpoints of the live guests of run r are reserved for it.
LiveHeld(r) == \A p \in Pids : (Alive(p) /\ procs[p].vm.run = r) =>
  \A k \in procs[p].keys : reservations[k] = [run |-> r, gen |-> procs[p].vm.gen]

\* They stay so while a save has replaced the manifest and not yet the
\* reservations; otherwise the manifest tells.
LiveInv == \A r \in Runs : Publishing(r) => LiveHeld(r)

LEMMA HeldLive ==
  ASSUME IInv, GuestInv, HeldInv, LiveInv, NEW r \in Runs
  PROVE  LiveHeld(r)
<1>. SUFFICES ASSUME ~Publishing(r), NEW p \in Pids, Alive(p), procs[p].vm.run = r,
                     NEW k \in procs[p].keys
              PROVE  reservations[k] = [run |-> r, gen |-> procs[p].vm.gen]
  BY DEF LiveInv, LiveHeld
<1>1. PICK h : h = procs[p].vm.host  OBVIOUS
<1>2. h \in Hosts  BY <1>1, QemuType, TypeHalves DEF IInv, Alive
<1>3. manifest[r] # NoManifest  BY DEF GuestInv, AliveKnown
<1>4. AliveFits(p, r, manifest[r])  BY <1>3 DEF GuestInv, Judged, Fits
<1>5. /\ procs[p].vm.gen = manifest[r].gen /\ manifest[r].rec[h].status # "removed"
      /\ procs[p].keys \subseteq KeysOf(manifest[r], h)
  BY <1>1, <1>4 DEF AliveFits
<1>6. PICK e \in Endpoints : k = manifest[r].rec[h].keys[e]  BY <1>5 DEF KeysOf
<1>7. Held(r, manifest[r], reservations)  BY <1>3 DEF HeldInv, StoreHeld
<1>. QED  BY <1>2, <1>5, <1>6, <1>7 DEF Held

\* A step of a call is taken with the lock held, and between the two files of a
\* save only the second is written.
LEMMA CallAt ==
  ASSUME NEW c \in Controllers, Call(c)
  PROVE  ctl[c].pc \in LockedPCs /\ (At(c, "publish") => SaveReservations(c))
<1>1. CASE SaveManifest(c) \/ SaveReservations(c) \/ RemoveManifest(c) \/ ReleaseAll(c)
  BY <1>1 DEF SaveManifest, SaveReservations, RemoveManifest, ReleaseAll, At, LockedPCs, SavePCs, CallPCs
<1>2. CASE ReserveExisting(c) \/ ReserveConflict(c) \/ ReserveFresh(c) \/ ReserveRefused(c)
  BY <1>2 DEF ReserveExisting, ReserveConflict, ReserveFresh, ReserveRefused, At, LockedPCs, CallPCs
<1>3. CASE Launch(c) \/ LaunchRefused(c) \/ LaunchOwned(c) \/ UnlinkPidfile(c) \/ MarkLaunching(c)
  BY <1>3 DEF Launch, RecoverAt, LaunchRefused, LaunchOwned, UnlinkPidfile, MarkLaunching, At,
              LockedPCs, CallPCs
<1>4. CASE Spawn(c) \/ SpawnRefused(c) \/ Daemonized(c) \/ DaemonizedUnverified(c) \/ LaunchVerify(c)
  BY <1>4 DEF Spawn, SpawnRefused, Daemonized, RecoverAt, DaemonizedUnverified, LaunchVerify, At,
              LockedPCs, CallPCs
<1>5. CASE RetryPorts(c) \/ RetryRefused(c) \/ LaunchFailed(c) \/ OldBindError(c)
  BY <1>5 DEF RetryPorts, RetryRefused, LaunchFailed, OldBindError, At, LockedPCs, CallPCs
<1>6. CASE DestroyNothing(c) \/ DestroyBegin(c) \/ DestroyNext(c) \/ DestroyIncomplete(c)
           \/ DestroyRecover(c) \/ DestroyUncertain(c) \/ DestroyCheck(c)
  BY <1>6 DEF DestroyNothing, DestroyBegin, DestroyNext, DestroyIncomplete, DestroyRecover, RecoverAt,
              DestroyUncertain, DestroyCheck, At, LockedPCs, CallPCs
<1>7. CASE OpenPidfd(c) \/ CheckAgain(c) \/ Terminate(c) \/ Exited(c) \/ TimeoutKill(c) \/ KillTimeout(c)
           \/ RemoveFiles(c) \/ RemoveDisk(c) \/ ArtifactRetained(c)
  BY <1>7 DEF OpenPidfd, CheckAgain, Terminate, Exited, TimeoutKill, KillTimeout, RemoveFiles,
              RemoveDisk, ArtifactRetained, At, LockedPCs, CallPCs
<1>. QED  BY <1>1, <1>2, <1>3, <1>4, <1>5, <1>6, <1>7 DEF Call

\* How a call comes to be between the two files, and what the tables do then.
LEMMA PublishSteps ==
  ASSUME IInv, PlanInv, IInv', [Next]_vars, NEW c \in Controllers, ctl'[c].pc = "publish"
  PROVE  SaveManifest(c) \/ (ctl[c].pc = "publish" /\ reservations' = reservations)
<1>. ctl \in [Controllers -> Control]  BY DEF IInv, TypeOK
<1>1. CASE UNCHANGED vars  BY <1>1 DEF vars, store
<1>2. CASE Quiet  BY <1>2 DEF Quiet, store
<1>3. ASSUME NEW d \in Controllers, StepOf(d)
      PROVE  SaveManifest(c) \/ (ctl[c].pc = "publish" /\ reservations' = reservations)
  <2>1. CASE Quiet  BY <2>1 DEF Quiet, store
  <2>2. ASSUME NEW x, Moves(d, x)
        PROVE  ctl[c].pc = "publish" /\ reservations' = reservations
    BY <2>2 DEF Moves, Become, store, BetweenCalls, LaunchPCs, CreateCalls, CleanupPCs
  <2>3. ASSUME NEW x, Leaves(d, x)
        PROVE  ctl[c].pc = "publish" /\ reservations' = reservations
    BY <2>3 DEF Leaves, Become, store
  <2>4. ASSUME NEW x, NEW m, NEW t, SavesSoundly(d, x, m, t)
        PROVE  ctl[c].pc = "publish" /\ reservations' = reservations
    BY <2>4 DEF SavesSoundly, Saves, Become, store
  <2>5. CASE SaveManifest(d)
    BY <2>5 DEF SaveManifest, Goto, Become
  <2>6. CASE SaveReservations(d)
    <3>1. ctl[d].then # "publish"  BY DEF Control, AfterSave, CallPCs
    <3>2. ctl[c].pc = "publish" /\ c # d  BY <2>6, <3>1 DEF SaveReservations, Become
    <3>. QED  BY <2>6, <3>2, OneCalls DEF SaveReservations, At, Calling, LockedPCs, SavePCs
  <2>7. CASE RemoveManifest(d)
    BY <2>7 DEF RemoveManifest, Goto, Become
  <2>8. CASE ReleaseAll(d)
    <3>1. ctl[c].pc = "publish" /\ c # d  BY <2>8, IdleFits DEF ReleaseAll, Become
    <3>. QED  BY <2>8, <3>1, OneCalls DEF ReleaseAll, At, Calling, LockedPCs, SavePCs, CallPCs
  <2>9. CASE Enter(d)
    BY <2>9 DEF Enter, Goto, Become, At, store
  <2>. QED  BY <1>3, <2>1, <2>2, <2>3, <2>4, <2>5, <2>6, <2>7, <2>8, <2>9 DEF StepOf
<1>. QED  BY <1>1, <1>2, <1>3, NextSteps

\* Between the two files of a save, no process becomes a guest's.
LEMMA PublishProcs ==
  ASSUME IInv, PlanInv, GuestInv, [Next]_vars, NEW c \in Controllers, ctl[c].pc = "publish",
         reservations' = reservations, ctl'[c].pc = "publish",
         NEW p \in Pids, Alive(p)'
  PROVE  Alive(p) /\ procs'[p].vm = procs[p].vm /\ procs'[p].keys = procs[p].keys
<1>. ctl \in [Controllers -> Control] /\ procs \in [Pids -> Process \cup {NoProc}]
  BY DEF IInv, TypeOK
<1>1. CASE procs' = procs  BY <1>1 DEF Alive, IsQemu
<1>2. Calling(c)  BY DEF Calling, LockedPCs, SavePCs
<1>3. ASSUME NEW d \in Controllers, Play(d) PROVE procs' = procs
  BY <1>3 DEF Play, Start, Local, Enter, Media, Status, os
<1>4. ASSUME NEW d \in Controllers, Call(d) PROVE procs' = procs
  <2>1. d = c  BY <1>2, <1>4, CallAt, OneCalls DEF Calling
  <2>2. SaveReservations(c)  BY <1>4, <2>1, CallAt DEF At
  <2>. QED  BY <2>2 DEF SaveReservations, os
<1>5. ASSUME NEW q \in Pids, QemuStep(q)
      PROVE  Alive(p) /\ procs'[p].vm = procs[p].vm /\ procs'[p].keys = procs[p].keys
  <2>1. CASE QemuPidfile(q)
    <3>1. PICK w \in Controllers : WaitsFor(w, q)  BY <2>1, StartingWaiter DEF QemuPidfile
    <3>2. ctl[w].pc = "l_wait" /\ Calling(w)  BY <3>1 DEF WaitsFor, At, Calling, LockedPCs, CallPCs
    <3>. QED  BY <1>2, <3>2, OneCalls
  <2>2. CASE QemuReady(q)  BY <2>2 DEF QemuReady, Alive, IsQemu
  <2>3. CASE QemuInUse(q) \/ QemuBroken(q) \/ QemuExit(q) \/ QemuKilled(q)
    <3>1. procs' = [procs EXCEPT ![q] = NoProc]
      BY <2>3 DEF QemuInUse, QemuBroken, QemuExit, QemuKilled, Gone
    <3>. QED  BY <3>1 DEF Alive, IsQemu
  <2>. QED  BY <1>5, <2>1, <2>2, <2>3 DEF QemuStep
<1>6. CASE World
  <2>1. ASSUME NEW q \in Pids, ForeignStart(q) \/ ForeignExit(q)
        PROVE  Alive(p) /\ procs'[p].vm = procs[p].vm /\ procs'[p].keys = procs[p].keys
    BY <2>1 DEF ForeignStart, ForeignExit, Alive, IsQemu
  <2>2. ASSUME NEW k \in ForeignKeys, ForeignBind(k) \/ ForeignUnbind(k) PROVE procs' = procs
    BY <2>2 DEF ForeignBind, ForeignUnbind
  <2>3. ASSUME NEW d \in Controllers, QmpTimeout(d) PROVE procs' = procs
    BY <2>3 DEF QmpTimeout, Return, os
  <2>4. ASSUME NEW d \in Controllers, Crash(d) PROVE procs' = procs
    BY <2>4 DEF Crash, os
  <2>5. ASSUME NEW r \in Runs, NEW h \in Hosts, Inspect(r, h) PROVE procs' = procs
    BY <2>5 DEF Inspect, os
  <2>. QED  BY <1>1, <1>6, <2>1, <2>2, <2>3, <2>4, <2>5 DEF World
<1>7. CASE UNCHANGED vars  BY <1>1, <1>7 DEF vars, os
<1>. QED  BY <1>1, <1>3, <1>4, <1>5, <1>6, <1>7 DEF Next

LEMMA NextLive ==
  IInv /\ PlanInv /\ GuestInv /\ HeldInv /\ LiveInv /\ IInv' /\ [Next]_vars => LiveInv'
<1>. SUFFICES ASSUME IInv, PlanInv, GuestInv, HeldInv, LiveInv, IInv', [Next]_vars,
                     NEW r \in Runs, Publishing(r)'
              PROVE  LiveHeld(r)'
  BY DEF LiveInv
<1>1. PICK c \in Controllers : RunOf[c] = r /\ ctl'[c].pc = "publish"  BY DEF Publishing
<1>2. LiveHeld(r)  BY HeldLive
<1>3. CASE SaveManifest(c)
  BY <1>2, <1>3 DEF SaveManifest, LiveHeld, Alive, IsQemu, os
<1>4. CASE ctl[c].pc = "publish" /\ reservations' = reservations
  BY <1>1, <1>2, <1>4, PublishProcs DEF LiveHeld
<1>. QED  BY <1>1, <1>3, <1>4, PublishSteps

\* While a guest's process lives, its manifest, its overlay and its reservations do
\* too (roles/qemu/README.md:74; qemu_runtime.py:488-561).
THEOREM LiveGuestsProvided ==
  OneControllerPerRun /\ SavesWhole /\ ~CrashBeforePidfile => (Spec => []LiveGuestsKeepResources)
<1>. SUFFICES ASSUME OneControllerPerRun, SavesWhole, ~CrashBeforePidfile
              PROVE  Spec => []LiveGuestsKeepResources
  OBVIOUS
<1>. DEFINE Inv == IInv /\ PlanInv /\ GuestInv /\ HeldInv /\ LiveInv
<1>1. Init => Inv
  <2>1. Init => LiveInv
    <3>. SUFFICES ASSUME Init PROVE LiveInv  OBVIOUS
    <3>1. \A c \in Controllers : ctl[c].pc = "idle"  BY IdleFits DEF Init
    <3>. QED  BY <3>1 DEF LiveInv, Publishing
  <2>. QED  BY <2>1, InitIInv, InitPlan, InitGuests, InitHeld
<1>2. Inv /\ [Next]_vars => Inv'  BY NextIInv, NextPlan, NextGuests, NextHeld, NextLive
<1>3. Inv => LiveGuestsKeepResources
  <2>. SUFFICES ASSUME Inv, NEW p \in Pids, Alive(p)
                PROVE  LET vm == procs[p].vm IN
                       /\ manifest[vm.run] # NoManifest
                       /\ manifest[vm.run].gen = vm.gen
                       /\ manifest[vm.run].rec[vm.host].status # "removed"
                       /\ procs[p].stage = "ready" => disk[vm.run][vm.host]
                       /\ \A k \in procs[p].keys : reservations[k] = [run |-> vm.run, gen |-> vm.gen]
    BY DEF LiveGuestsKeepResources
  <2>1. procs[p].vm.run \in Runs  BY QemuType, TypeHalves DEF IInv, Alive
  <2>2. manifest[procs[p].vm.run] # NoManifest  BY DEF GuestInv, AliveKnown
  <2>3. AliveFits(p, procs[p].vm.run, manifest[procs[p].vm.run])
    BY <2>1, <2>2 DEF GuestInv, Judged, Fits
  <2>4. LiveHeld(procs[p].vm.run)  BY <2>1, HeldLive
  <2>. QED  BY <2>2, <2>3, <2>4 DEF AliveFits, LiveHeld
<1>. QED  BY <1>1, <1>2, <1>3, PTL DEF Spec
===============================================================================

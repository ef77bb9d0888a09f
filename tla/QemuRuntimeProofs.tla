-------------------------- MODULE QemuRuntimeProofs --------------------------
(***************************************************************************)
(* Proofs about the QEMU runtime's tables, for any runs, guests, endpoints *)
(* and controllers.  With several controllers on one run and deaths at     *)
(* every step:                                                             *)
(*   - the types of what is persisted and remembered are kept,             *)
(*   - a published reservation has the manifest that can release it, and   *)
(*     published reservations never stand in each other's way,             *)
(*   - explicit ports are kept.                                            *)
(* With one controller per run (OneControllerPerRun):                      *)
(*   - no guest is started once its run is being destroyed,                *)
(*   - guests never share an endpoint, if moreover no controller dies      *)
(*     between the two files of a save (SavesWhole).                       *)
(* The invariants are IInv (copies and files), PlanInv (what the plays of  *)
(* a run agree on) and HeldInv (the reservations of guests).               *)
(***************************************************************************)
EXTENDS QemuRuntime, TLAPS

CreateCalls == {"reserve", "launch", "l_owned", "l_unlink", "l_mark", "l_spawn", "l_wait",
                "l_rc0", "l_in_use", "l_failed", "l_verify"}
CreatePCs == {"reserve_call", "media", "status_call", "launch_call"} \cup CreateCalls
CleanupPCs == {"d_next", "d_recover", "d_check", "d_pidfd", "d_reown", "d_term", "d_wait",
               "d_kill_wait", "d_files", "d_disk"}
DestroyPCs == {"destroy_call", "destroy", "d_release"} \cup CleanupPCs

Calling(c) == ctl[c].pc \in LockedPCs

\* A play is where its calls are, and a save returns to where it left off.
PlayFits(x) ==
  /\ x.pc \in CreatePCs => x.play = "create"
  /\ x.pc \in DestroyPCs => x.play = "destroy"
  /\ x.pc \in SavePCs =>
       \/ x.play = "create" /\ x.then \in {"media", "l_owned", "l_spawn", "l_verify"}
       \/ x.play = "destroy" /\ x.then \in {"d_next", "d_check"}

\* Who works inside locked() holds the lock, past its first step works on a
\* manifest, and opens a pidfd only for a recorded pid.
CallReady(c) == Calling(c) =>
  /\ lock = c
  /\ ctl[c].pc \notin {"reserve", "launch", "destroy"} => mem[c] # NoManifest
  /\ ctl[c].pc = "d_pidfd" => Rec(c).pid \in Pids

\* The manifest on disk and the one in memory are of one generation.
SameGeneration(c) ==
  (Calling(c) /\ ctl[c].pc # "d_release" /\ manifest[RunOf[c]] # NoManifest) =>
    mem[c] # NoManifest /\ mem[c].gen = manifest[RunOf[c]].gen

\* What save() has written, and what it has yet to write.
Synced(c) ==
  /\ Calling(c) /\ ctl[c].pc \notin SavePCs => res[c] = reservations
  /\ ctl[c].pc = "publish" => manifest[RunOf[c]] = mem[c]

Named(owner) == manifest[owner.run] # NoManifest /\ manifest[owner.run].gen = owner.gen

\* Every reservation a call works with is its own or another run's.
NamedBy(c, m, t) ==
  \A k \in Key : t[k] # NoOne =>
    \/ t[k].run # RunOf[c] /\ Named(t[k])
    \/ m # NoManifest /\ t[k] = [run |-> RunOf[c], gen |-> m.gen]
CopiesNamed(c) == Calling(c) => NamedBy(c, mem[c], res[c])

\* No two keys of a table stand in each other's way.
Compatible(table) ==
  \A k, l \in Key : (k # l /\ table[k] # NoOne /\ table[l] # NoOne) => ~Conflicts(k, l)
CopiesCompatible(c) == Calling(c) => Compatible(res[c])

\* The guests destroy has dealt with are removed unless one has failed, and after
\* the first of them the run's only reservations are those of the active guests.
Dealt(c, x, m, t) == ~x.failed =>
  /\ \A h \in Hosts \ x.todo : m.rec[h].status = "removed"
  /\ x.todo # Hosts =>
       \A k \in Key : t[k] = [run |-> RunOf[c], gen |-> m.gen] => k \in ActiveKeys(m)
Cleaning(x) == x.pc \in CleanupPCs \/ (x.pc \in SavePCs /\ x.play = "destroy")
CleanedUp(c) == Cleaning(ctl[c]) => Dealt(c, ctl[c], mem[c], res[c])

CallInv(c) ==
  /\ PlayFits(ctl[c]) /\ CallReady(c) /\ SameGeneration(c) /\ Synced(c)
  /\ CopiesNamed(c) /\ CopiesCompatible(c) /\ CleanedUp(c)

IInv ==
  /\ TypeOK /\ ReservationsHaveManifest /\ ReservationsCompatible
  /\ \A c \in Controllers : CallInv(c)

-------------------------------------------------------------------------------
(* Types                                                                   *)

\* The two halves of TypeOK: what the plays work on, and what surrounds them.
TypeCalls ==
  /\ manifest \in [Runs -> Manifest \cup {NoManifest}] /\ reservations \in Reservations
  /\ lock \in Controllers \cup {NoOne}
  /\ mem \in [Controllers -> Manifest \cup {NoManifest}] /\ res \in [Controllers -> Reservations]
  /\ ctl \in [Controllers -> Control]

TypeOS ==
  /\ pidfile \in [Runs -> [Hosts -> Pids \cup {NoOne}]]
  /\ sock \in [Runs -> [Hosts -> 0..MaxStarts]]
  /\ disk \in [Runs -> [Hosts -> BOOLEAN]]
  /\ procs \in [Pids -> Process \cup {NoProc}] /\ clock \in 0..MaxStarts
  /\ foreign \subseteq Key
  /\ gens \in [Runs -> 0..MaxGen] /\ faults \in 0..MaxFaults

LEMMA TypeHalves ==
  /\ TypeOK <=> TypeCalls /\ TypeOS
  /\ TypeOK' <=> TypeCalls' /\ TypeOS'
BY DEF TypeOK, TypeCalls, TypeOS

\* A step that does not touch the surroundings keeps their types.
LEMMA OSKept == TypeOS /\ UNCHANGED <<files, os, gens, faults>> => TypeOS'
BY DEF TypeOS, files, os

LEMMA FaultType == faults \in 0..MaxFaults /\ Fault => faults' \in 0..MaxFaults
BY SetsAssumption DEF Fault

LEMMA IdleType == IdleControl \in Control
<1>1. (CHOOSE h \in Hosts : TRUE) \in Hosts  BY SetsAssumption
<1>. QED  BY <1>1, SetsAssumption DEF IdleControl, Control, PlayPCs, LockedPCs, CallPCs, AfterSave

LEMMA Zero == 0 \in 0..MaxStarts /\ 0 \in 0..2 /\ 0 \in 0..MaxGen
BY SetsAssumption

LEMMA PCs ==
  /\ CallPCs \subseteq PlayPCs \cup LockedPCs /\ SavePCs \subseteq PlayPCs \cup LockedPCs
  /\ CreateCalls \subseteq CallPCs /\ CleanupPCs \subseteq CallPCs
BY DEF LockedPCs, CallPCs, CreateCalls, CleanupPCs

LEMMA IdleFits == /\ PlayFits(IdleControl)
                  /\ IdleControl.pc = "idle"
BY DEF PlayFits, IdleControl, CreatePCs, CreateCalls, DestroyPCs, CleanupPCs, SavePCs

-------------------------------------------------------------------------------
(* The kinds of steps a controller takes                                   *)

\* Another controller's step: what it may write is protected by the lock.
LEMMA OthersKeep ==
  ASSUME NEW d \in Controllers, CallInv(d),
         ctl'[d] = ctl[d], mem'[d] = mem[d], res'[d] = res[d],
         Calling(d) => lock' = lock /\ manifest' = manifest /\ reservations' = reservations
  PROVE  CallInv(d)'
<1>1. (PlayFits(ctl[d]))'  BY DEF CallInv, PlayFits
<1>2. CASE Calling(d)
  <2>1. CallReady(d)' /\ SameGeneration(d)' /\ Synced(d)'
    BY <1>2 DEF CallInv, CallReady, Rec, SameGeneration, Synced, Calling
  <2>2. CopiesNamed(d)'
    BY <1>2 DEF CallInv, CopiesNamed, NamedBy, Named, Calling
  <2>3. CopiesCompatible(d)'
    BY <1>2 DEF CallInv, CopiesCompatible, Compatible, Calling
  <2>4. CleanedUp(d)'
    BY <1>2 DEF CallInv, CleanedUp, Cleaning, Dealt, ActiveKeys
  <2>. QED  BY <1>1, <2>1, <2>2, <2>3, <2>4 DEF CallInv
<1>3. CASE ~Calling(d)
  <2>1. ~Calling(d)' /\ ctl'[d].pc \notin SavePCs /\ ctl'[d].pc # "publish" /\ ~Cleaning(ctl[d])'
    BY <1>3 DEF Calling, Cleaning, LockedPCs, CallPCs, SavePCs, CleanupPCs
  <2>. QED
    BY <1>1, <2>1 DEF CallInv, CallReady, SameGeneration, Synced, CopiesNamed,
                      CopiesCompatible, CleanedUp
<1>. QED  BY <1>2, <1>3

\* What is published stays as it is when nothing is written.
LEMMA StoreKept ==
  ReservationsHaveManifest /\ ReservationsCompatible /\ UNCHANGED store
    => ReservationsHaveManifest' /\ ReservationsCompatible'
BY DEF ReservationsHaveManifest, ReservationsCompatible, store, Conflicts

\* A step of a call, or of the play between two calls, that reads and decides.
LEMMA MoveKeeps ==
  ASSUME IInv, NEW c \in Controllers, NEW x \in Control, Become(c, x), PlayFits(x),
         UNCHANGED <<store, lock, copies>>, TypeOS',
         \/ ctl[c].pc \notin LockedPCs /\ x.pc \notin LockedPCs
         \/ mem[c] # NoManifest /\ ctl[c].pc \in CreateCalls /\ x.pc \in CreateCalls
         \/ /\ ctl[c].pc \in CleanupPCs /\ x.pc \in CleanupPCs
            /\ x.failed \/ (x.todo = ctl[c].todo /\ x.failed = ctl[c].failed)
            /\ x.pc = "d_pidfd" => mem[c].rec[x.host].pid \in Pids
  PROVE  IInv'
<1>. USE DEF IInv, Become
<1>1. ctl'[c] = x /\ \A d \in Controllers \ {c} : ctl'[d] = ctl[d]
  BY DEF TypeOK
<1>2. /\ manifest' = manifest /\ reservations' = reservations /\ lock' = lock
      /\ mem' = mem /\ res' = res
  BY DEF store, copies
<1>3. TypeOK'
  <2>1. TypeCalls'  BY <1>1, <1>2 DEF TypeCalls, TypeOK
  <2>. QED  BY <2>1, TypeHalves
<1>4. ASSUME NEW d \in Controllers, d # c PROVE CallInv(d)'
  BY <1>1, <1>2, <1>4, OthersKeep
<1>5. CallInv(c)'
  <2>1. PlayFits(ctl[c])'  BY <1>1 DEF PlayFits
  <2>2. CASE ctl[c].pc \notin LockedPCs /\ x.pc \notin LockedPCs
    <3>1. ~Calling(c)' /\ ctl'[c].pc # "publish" /\ ctl'[c].pc \notin SavePCs /\ ~Cleaning(ctl[c])'
      BY <1>1, <2>2 DEF Calling, Cleaning, LockedPCs, CallPCs, SavePCs, CleanupPCs
    <3>. QED
      BY <2>1, <3>1 DEF CallInv, CallReady, SameGeneration, Synced, CopiesNamed,
                        CopiesCompatible, CleanedUp
  <2>3. CASE ctl[c].pc \in LockedPCs \ SavePCs /\ mem[c] # NoManifest /\ ctl[c].pc # "d_release"
             /\ x.pc \in LockedPCs \ SavePCs
             /\ (Cleaning(x) => Cleaning(ctl[c]) /\ (x.failed \/ (x.todo = ctl[c].todo /\ x.failed = ctl[c].failed)))
             /\ (x.pc = "d_pidfd" => mem[c].rec[x.host].pid \in Pids)
    <3>1. Calling(c) /\ ctl[c].pc # "publish" /\ ctl'[c].pc # "publish"
      BY <1>1, <2>3 DEF Calling, SavePCs
    <3>2. CallReady(c)' /\ SameGeneration(c)' /\ Synced(c)'
      BY <1>1, <1>2, <2>3, <3>1 DEF CallInv, CallReady, Rec, SameGeneration, Synced, Calling
    <3>3. CopiesNamed(c)' /\ CopiesCompatible(c)'
      BY <1>2, <3>1 DEF CallInv, CopiesNamed, NamedBy, Named, CopiesCompatible, Compatible, Conflicts
    <3>4. CleanedUp(c)'
      BY <1>1, <1>2, <2>3 DEF CallInv, CleanedUp, Dealt, ActiveKeys, Cleaning
    <3>. QED  BY <2>1, <3>2, <3>3, <3>4 DEF CallInv
  <2>4. ctl[c].pc \in CleanupPCs => mem[c] # NoManifest
    BY DEF CallInv, CallReady, Calling, LockedPCs, CallPCs, CleanupPCs
  <2>. QED
    BY <2>2, <2>3, <2>4 DEF Cleaning, CreateCalls, CleanupPCs, LockedPCs, CallPCs, SavePCs
<1>6. ReservationsHaveManifest' /\ ReservationsCompatible'
  BY StoreKept
<1>. QED  BY <1>3, <1>4, <1>5, <1>6

\* The end of a call, or the death of a controller: its copies are gone.
LEMMA LeaveKeeps ==
  ASSUME IInv, NEW c \in Controllers, NEW x \in Control, Become(c, x), PlayFits(x),
         x.pc \notin LockedPCs, UNCHANGED store, TypeOS',
         mem' = [mem EXCEPT ![c] = NoManifest],
         res' = [res EXCEPT ![c] = [k \in Key |-> NoOne]],
         lock' = lock \/ (lock = c /\ lock' = NoOne) \/ (Calling(c) /\ lock' = NoOne)
  PROVE  IInv'
<1>. USE DEF IInv, Become
<1>1. /\ ctl'[c] = x
      /\ \A d \in Controllers \ {c} : ctl'[d] = ctl[d] /\ mem'[d] = mem[d] /\ res'[d] = res[d]
  BY DEF TypeOK
<1>2. manifest' = manifest /\ reservations' = reservations
  BY DEF store
<1>3. TypeOK'
  <2>1. TypeCalls'  BY <1>2, SentinelAssumption DEF TypeOK, TypeCalls, Reservations
  <2>. QED  BY <2>1, TypeHalves
<1>4. ASSUME NEW d \in Controllers, d # c PROVE CallInv(d)'
  <2>1. Calling(d) => lock = d  BY DEF CallInv, CallReady
  <2>2. Calling(c) => lock = c  BY DEF CallInv, CallReady
  <2>3. Calling(d) => lock' = lock  BY <1>4, <2>1, <2>2
  <2>. QED  BY <1>1, <1>2, <1>4, <2>3, OthersKeep
<1>5. CallInv(c)'
  <2>1. ~Calling(c)' /\ ctl'[c].pc # "publish" /\ ctl'[c].pc \notin SavePCs /\ ~Cleaning(ctl[c])'
    BY <1>1 DEF Calling, Cleaning, LockedPCs, CallPCs, SavePCs, CleanupPCs
  <2>2. PlayFits(ctl[c])'  BY <1>1 DEF PlayFits
  <2>. QED
    BY <2>1, <2>2 DEF CallInv, CallReady, SameGeneration, Synced, CopiesNamed,
                      CopiesCompatible, CleanedUp
<1>6. ReservationsHaveManifest' /\ ReservationsCompatible'
  BY StoreKept
<1>. QED  BY <1>3, <1>4, <1>5, <1>6

LEMMA ReturnKeeps ==
  ASSUME IInv, NEW c \in Controllers, NEW x \in Control, Return(c, x), PlayFits(x),
         x.pc \notin LockedPCs, Calling(c), TypeOS'
  PROVE  IInv'
BY LeaveKeeps DEF Return, Unlock

LEMMA FailKeeps ==
  ASSUME IInv, NEW c \in Controllers, Fail(c), Calling(c)
  PROVE  IInv'
<1>1. IdleControl.pc \notin LockedPCs
  BY IdleFits DEF LockedPCs, CallPCs, SavePCs
<1>2. TypeOS'  BY OSKept, TypeHalves DEF IInv, Fail, Return, files, os
<1>. QED  BY <1>1, <1>2, ReturnKeeps, IdleFits, IdleType DEF Fail

\* save() begins, or destroy's removal of a disk with the save that follows: what
\* is to be saved must be publishable.
LEMMA SavingKeeps ==
  ASSUME IInv, NEW c \in Controllers, NEW x \in Control, NEW m \in Manifest, NEW t \in Reservations,
         mem' = [mem EXCEPT ![c] = m], res' = [res EXCEPT ![c] = t],
         Become(c, [x EXCEPT !.pc = "save"]), UNCHANGED <<store, lock>>, TypeOS',
         Calling(c), ctl[c].pc # "d_release",
         PlayFits([x EXCEPT !.pc = "save"]),
         manifest[RunOf[c]] # NoManifest => m.gen = manifest[RunOf[c]].gen,
         NamedBy(c, m, t), Compatible(t),
         x.play = "destroy" => Dealt(c, x, m, t)
  PROVE  IInv'
<1>. USE DEF IInv, Become
<1>0. [x EXCEPT !.pc = "save"] \in Control
  BY DEF Control, LockedPCs, SavePCs
<1>1. /\ ctl'[c] = [x EXCEPT !.pc = "save"] /\ mem'[c] = m /\ res'[c] = t
      /\ \A d \in Controllers \ {c} : ctl'[d] = ctl[d] /\ mem'[d] = mem[d] /\ res'[d] = res[d]
  BY DEF TypeOK
<1>2. manifest' = manifest /\ reservations' = reservations /\ lock' = lock
  BY DEF store
<1>3. TypeOK'
  <2>1. TypeCalls'  BY <1>0, <1>2 DEF TypeOK, TypeCalls
  <2>. QED  BY <2>1, TypeHalves
<1>4. ASSUME NEW d \in Controllers, d # c PROVE CallInv(d)'
  BY <1>1, <1>2, <1>4, OthersKeep
<1>5. CallInv(c)'
  <2>1. PlayFits(ctl[c])'  BY <1>1 DEF PlayFits
  <2>2. lock = c /\ m # NoManifest
    BY SentinelAssumption DEF CallInv, CallReady
  <2>3. ctl'[c].pc = "save" /\ ctl'[c].play = x.play /\ ctl'[c].failed = x.failed /\ ctl'[c].todo = x.todo
    BY <1>1 DEF Control
  <2>4. CallReady(c)' /\ SameGeneration(c)' /\ Synced(c)'
    BY <1>1, <1>2, <2>2, <2>3 DEF CallReady, SameGeneration, Synced, SavePCs
  <2>5. CopiesNamed(c)' /\ CopiesCompatible(c)'
    BY <1>1, <1>2 DEF CopiesNamed, NamedBy, Named, CopiesCompatible, Compatible, Conflicts
  <2>6. CleanedUp(c)'
    BY <1>1, <2>3 DEF CleanedUp, Cleaning, Dealt, ActiveKeys, CleanupPCs
  <2>. QED  BY <2>1, <2>4, <2>5, <2>6 DEF CallInv
<1>6. ReservationsHaveManifest' /\ ReservationsCompatible'
  BY StoreKept
<1>. QED  BY <1>3, <1>4, <1>5, <1>6

LEMMA BeginSaveKeeps ==
  ASSUME IInv, NEW c \in Controllers, NEW x \in Control, NEW m \in Manifest, NEW t \in Reservations,
         BeginSave(c, x, m, t), TypeOS',
         Calling(c), ctl[c].pc # "d_release",
         PlayFits([x EXCEPT !.pc = "save"]),
         manifest[RunOf[c]] # NoManifest => m.gen = manifest[RunOf[c]].gen,
         NamedBy(c, m, t), Compatible(t),
         x.play = "destroy" => Dealt(c, x, m, t)
  PROVE  IInv'
BY SavingKeeps DEF BeginSave

\* QEMU and unrelated programs: at most the outcome of a launch becomes known.
LEMMA WorldKeeps ==
  ASSUME IInv, UNCHANGED <<store, lock, copies>>, TypeOS', ctl' \in [Controllers -> Control],
         \A c \in Controllers :
           \/ ctl'[c] = ctl[c]
           \/ /\ ctl[c].pc = "l_wait" /\ ctl'[c].pc \in {"l_rc0", "l_in_use", "l_failed"}
              /\ ctl'[c].play = ctl[c].play
  PROVE  IInv'
<1>. USE DEF IInv
<1>1. /\ manifest' = manifest /\ reservations' = reservations /\ lock' = lock
      /\ mem' = mem /\ res' = res
  BY DEF store, copies
<1>2. TypeOK'
  <2>1. TypeCalls'  BY <1>1 DEF TypeCalls, TypeOK
  <2>. QED  BY <2>1, TypeHalves
<1>3. ASSUME NEW c \in Controllers PROVE CallInv(c)'
  <2>1. CASE ctl'[c] = ctl[c]  BY <1>1, <2>1, OthersKeep
  <2>2. CASE /\ ctl[c].pc = "l_wait" /\ ctl'[c].pc \in {"l_rc0", "l_in_use", "l_failed"}
             /\ ctl'[c].play = ctl[c].play
    <3>1. /\ Calling(c) /\ ctl[c].pc \notin SavePCs \cup {"reserve", "launch", "destroy", "d_release"}
          /\ ctl'[c].pc \notin SavePCs \cup CleanupPCs \cup DestroyPCs \cup {"reserve", "launch", "destroy", "d_release"}
      BY <2>2 DEF Calling, LockedPCs, CallPCs, SavePCs, CleanupPCs, DestroyPCs
    <3>2. ctl[c].play = "create" /\ ~Cleaning(ctl[c])'
      BY <2>2, <3>1 DEF CallInv, PlayFits, CreatePCs, CreateCalls, Cleaning
    <3>3. PlayFits(ctl[c])'  BY <2>2, <3>1, <3>2 DEF PlayFits
    <3>4. CallReady(c)' /\ SameGeneration(c)' /\ Synced(c)'
      BY <1>1, <2>2, <3>1 DEF CallInv, CallReady, SameGeneration, Synced, SavePCs
    <3>5. CopiesNamed(c)' /\ CopiesCompatible(c)'
      BY <1>1, <3>1 DEF CallInv, CopiesNamed, NamedBy, Named, CopiesCompatible, Compatible, Conflicts
    <3>. QED  BY <3>2, <3>3, <3>4, <3>5 DEF CallInv, CleanedUp
  <2>. QED  BY <2>1, <2>2
<1>4. ReservationsHaveManifest' /\ ReservationsCompatible'
  BY StoreKept
<1>. QED  BY <1>2, <1>3, <1>4

-------------------------------------------------------------------------------
(* Moves                                                                   *)

\* Within a create call with a manifest, or within destroy's loop.
LEMMA GotoKeeps ==
  ASSUME IInv, NEW c \in Controllers, NEW pc, Goto(c, pc), UNCHANGED <<store, lock, copies>>, TypeOS',
         \/ ctl[c].pc \in CreateCalls /\ pc \in CreateCalls /\ mem[c] # NoManifest
         \/ ctl[c].pc \in CleanupPCs /\ pc \in CleanupPCs /\ (pc = "d_pidfd" => Rec(c).pid \in Pids)
  PROVE  IInv'
<1>. DEFINE x == [ctl[c] EXCEPT !.pc = pc]
<1>1. ctl[c] \in Control /\ PlayFits(ctl[c])  BY DEF IInv, TypeOK, CallInv
<1>2. x \in Control
  BY <1>1 DEF Control, LockedPCs, CallPCs, CreateCalls, CleanupPCs
<1>3. x.pc = pc /\ x.play = ctl[c].play /\ x.todo = ctl[c].todo /\ x.failed = ctl[c].failed
      /\ x.host = ctl[c].host
  BY <1>1 DEF Control
<1>4. PlayFits(x)
  BY <1>1, <1>3 DEF PlayFits, CreatePCs, CreateCalls, DestroyPCs, CleanupPCs, SavePCs
<1>5. Become(c, x)  BY DEF Goto
<1>6. pc = "d_pidfd" => mem[c].rec[x.host].pid \in Pids
  BY <1>3 DEF Rec, CreateCalls
<1>. HIDE DEF x
<1>. QED  BY <1>2, <1>3, <1>4, <1>5, <1>6, MoveKeeps

LEMMA MoveOnKeeps ==
  ASSUME IInv, NEW c \in Controllers, NEW pc, Move(c, pc),
         \/ ctl[c].pc \in CreateCalls /\ pc \in CreateCalls /\ mem[c] # NoManifest
         \/ ctl[c].pc \in CleanupPCs /\ pc \in CleanupPCs /\ (pc = "d_pidfd" => Rec(c).pid \in Pids)
  PROVE  IInv'
<1>1. TypeOS'  BY TypeHalves, OSKept DEF IInv, Move, Local, files, os
<1>. QED  BY <1>1, GotoKeeps DEF Move, Local, Goto

\* The exception of one guest is collected.
LEMMA CollectedKeeps ==
  ASSUME IInv, NEW c \in Controllers, Become(c, Collected(c)), UNCHANGED <<store, lock, copies>>,
         TypeOS', ctl[c].pc \in CleanupPCs
  PROVE  IInv'
<1>1. ctl[c] \in Control /\ PlayFits(ctl[c])  BY DEF IInv, TypeOK, CallInv
<1>2. Collected(c) \in Control
  <2>1. "d_next" \in PlayPCs \cup LockedPCs  BY PCs DEF CallPCs
  <2>. QED  BY <1>1, <2>1, Zero DEF Collected, Control
<1>3. Collected(c).pc = "d_next" /\ Collected(c).play = ctl[c].play /\ Collected(c).failed
  BY <1>1 DEF Collected, Control
<1>4. PlayFits(Collected(c))
  BY <1>1, <1>3 DEF PlayFits, CreatePCs, CreateCalls, DestroyPCs, CleanupPCs, SavePCs
<1>. QED  BY <1>2, <1>3, <1>4, MoveKeeps DEF CleanupPCs

LEMMA CollectKeeps ==
  ASSUME IInv, NEW c \in Controllers, Collect(c), ctl[c].pc \in CleanupPCs
  PROVE  IInv'
<1>1. TypeOS'  BY TypeHalves, OSKept DEF IInv, Collect, Local, files, os
<1>. QED  BY <1>1, CollectedKeeps DEF Collect, Local

-------------------------------------------------------------------------------
(* The plays, and the two halves of save()                                 *)

LEMMA StartKeeps ==
  ASSUME IInv, NEW c \in Controllers, NEW play \in {"create", "destroy"}, Start(c, play)
  PROVE  IInv'
<1>. DEFINE x == [IdleControl EXCEPT
                    !.pc = IF play = "create" THEN "reserve_call" ELSE "destroy_call",
                    !.play = play, !.todo = Hosts]
<1>1. x \in Control  BY IdleType DEF Control, PlayPCs
<1>2. x.pc \in {"reserve_call", "destroy_call"} /\ x.play = play
      /\ (x.pc = "reserve_call" <=> play = "create")
  BY IdleType DEF Control
<1>3. PlayFits(x) /\ x.pc \notin LockedPCs
  BY <1>2 DEF PlayFits, CreatePCs, CreateCalls, DestroyPCs, CleanupPCs, SavePCs, LockedPCs, CallPCs
<1>4. ctl[c].pc \notin LockedPCs  BY DEF Start, At, LockedPCs, CallPCs, SavePCs
<1>5. TypeOS'  BY TypeHalves, OSKept DEF IInv, Start, Local, files, os
<1>6. Become(c, x) /\ UNCHANGED <<store, lock, copies>>  BY DEF Start, Local
<1>. HIDE DEF x
<1>. QED  BY <1>1, <1>3, <1>4, <1>5, <1>6, MoveKeeps

LEMMA EnterKeeps ==
  ASSUME IInv, NEW c \in Controllers, Enter(c)
  PROVE  IInv'
<1>. USE DEF IInv, Become, Goto
<1>. DEFINE pc == CASE At(c, "reserve_call") -> "reserve"
                    [] At(c, "launch_call") -> "launch"
                    [] At(c, "destroy_call") -> "destroy"
<1>1. /\ ctl[c].pc \in {"reserve_call", "launch_call", "destroy_call"}
      /\ pc \in {"reserve", "launch", "destroy"}
      /\ pc \in {"reserve", "launch"} => ctl[c].pc \in CreatePCs
      /\ pc = "destroy" => ctl[c].pc \in DestroyPCs
  BY DEF Enter, At, CreatePCs, DestroyPCs
<1>2. /\ manifest' = manifest /\ reservations' = reservations /\ lock = NoOne /\ lock' = c
      /\ mem' = [mem EXCEPT ![c] = manifest[RunOf[c]]] /\ res' = [res EXCEPT ![c] = reservations]
      /\ ctl' = [ctl EXCEPT ![c] = [ctl[c] EXCEPT !.pc = pc]]
  BY DEF Enter, store
<1>. HIDE DEF pc
<1>3. [ctl[c] EXCEPT !.pc = pc] \in Control
  <2>1. pc \in PlayPCs \cup LockedPCs  BY <1>1, PCs DEF CallPCs
  <2>2. ctl[c] \in Control  BY DEF TypeOK
  <2>. QED  BY <2>1, <2>2 DEF Control
<1>4. /\ ctl'[c].pc = pc /\ ctl'[c].play = ctl[c].play
      /\ mem'[c] = manifest[RunOf[c]] /\ res'[c] = reservations
      /\ \A d \in Controllers \ {c} : ctl'[d] = ctl[d] /\ mem'[d] = mem[d] /\ res'[d] = res[d]
  BY <1>2 DEF TypeOK, Control
<1>5. TypeOK'
  <2>1. TypeCalls'  BY <1>2, <1>3, SetsAssumption DEF TypeOK, TypeCalls
  <2>2. TypeOS'  BY TypeHalves, OSKept DEF Enter, files, os
  <2>. QED  BY <2>1, <2>2, TypeHalves
<1>6. ASSUME NEW d \in Controllers, d # c PROVE CallInv(d)'
  <2>1. ~Calling(d)  BY <1>2, SentinelAssumption DEF CallInv, CallReady
  <2>. QED  BY <1>4, <1>6, <2>1, OthersKeep
<1>7. CallInv(c)'
  <2>1. PlayFits(ctl[c])'
    BY <1>1, <1>4 DEF CallInv, PlayFits, CreatePCs, CreateCalls, DestroyPCs, CleanupPCs, SavePCs
  <2>2. CallReady(c)' /\ SameGeneration(c)' /\ Synced(c)'
    BY <1>1, <1>2, <1>4 DEF CallReady, SameGeneration, Synced, SavePCs
  <2>3. CopiesNamed(c)'
    <3>. SUFFICES ASSUME NEW k \in Key, reservations[k] # NoOne, reservations[k].run = RunOf[c]
                  PROVE  /\ manifest[RunOf[c]] # NoManifest
                         /\ reservations[k] = [run |-> RunOf[c], gen |-> manifest[RunOf[c]].gen]
      BY <1>2, <1>4 DEF CopiesNamed, NamedBy, Named, ReservationsHaveManifest
    <3>1. manifest[RunOf[c]] # NoManifest /\ manifest[RunOf[c]].gen = reservations[k].gen
      BY DEF ReservationsHaveManifest
    <3>2. reservations[k] \in Owner  BY DEF TypeOK, Reservations
    <3>. QED  BY <3>1, <3>2 DEF Owner
  <2>4. CopiesCompatible(c)' /\ CleanedUp(c)'
    BY <1>1, <1>4 DEF CopiesCompatible, Compatible, Conflicts, ReservationsCompatible,
                      CleanedUp, Cleaning, CleanupPCs, SavePCs
  <2>. QED  BY <2>1, <2>2, <2>3, <2>4 DEF CallInv
<1>8. ReservationsHaveManifest' /\ ReservationsCompatible'
  BY StoreKept DEF Enter
<1>. QED  BY <1>5, <1>6, <1>7, <1>8

LEMMA MediaKeeps ==
  ASSUME IInv, NEW c \in Controllers, Media(c)
  PROVE  IInv'
<1>1. ctl[c] \in Control /\ PlayFits(ctl[c])  BY DEF IInv, TypeOK, CallInv
<1>2. PICK h \in ctl[c].todo :
        /\ disk' = [disk EXCEPT ![RunOf[c]][h] = TRUE]
        /\ LET left == ctl[c].todo \ {h} IN
           Become(c, IF left # {} THEN [ctl[c] EXCEPT !.todo = left]
                     ELSE [ctl[c] EXCEPT !.todo = Hosts, !.pc = "status_call"])
  BY DEF Media
<1>. DEFINE x == IF ctl[c].todo \ {h} # {} THEN [ctl[c] EXCEPT !.todo = ctl[c].todo \ {h}]
                 ELSE [ctl[c] EXCEPT !.todo = Hosts, !.pc = "status_call"]
<1>3. x \in Control  BY <1>1 DEF Control, PlayPCs
<1>4. ctl[c].pc = "media" /\ x.pc \in {"media", "status_call"} /\ x.play = ctl[c].play
  BY <1>1 DEF Media, At, Control
<1>5. PlayFits(x) /\ x.pc \notin LockedPCs /\ ctl[c].pc \notin LockedPCs
  BY <1>1, <1>4 DEF PlayFits, CreatePCs, CreateCalls, DestroyPCs, CleanupPCs, SavePCs, LockedPCs, CallPCs
<1>6. Become(c, x) /\ UNCHANGED <<store, lock, copies>>  BY <1>2 DEF Media
<1>7. TypeOS'
  <2>1. h \in Hosts /\ RunOf[c] \in Runs  BY <1>1, SetsAssumption DEF Control
  <2>. QED  BY <1>2, <2>1 DEF IInv, TypeOK, TypeOS, Media, os
<1>. HIDE DEF x
<1>. QED  BY <1>3, <1>5, <1>6, <1>7, MoveKeeps

LEMMA StatusKeeps ==
  ASSUME IInv, NEW c \in Controllers, Status(c)
  PROVE  IInv'
<1>1. ctl[c] \in Control /\ PlayFits(ctl[c]) /\ ctl[c].pc = "status_call"
  BY DEF IInv, TypeOK, CallInv, Status, At
<1>2. ctl[c].pc \notin LockedPCs
  BY <1>1 DEF LockedPCs, CallPCs, SavePCs
<1>3. TypeOS'  BY TypeHalves, OSKept DEF IInv, Status, Local, files, os
<1>4. CASE Local(c, IdleControl)
  <2>1. IdleControl.pc \notin LockedPCs  BY IdleFits DEF LockedPCs, CallPCs, SavePCs
  <2>. QED  BY <1>2, <1>3, <1>4, <2>1, IdleType, IdleFits, MoveKeeps DEF Local
<1>5. ASSUME NEW h \in ctl[c].todo, manifest[RunOf[c]] # NoManifest,
             Local(c, [ctl[c] EXCEPT !.pc = "launch_call", !.host = h, !.tries = 0, !.child = 0,
                         !.argv = {manifest[RunOf[c]].rec[h].keys[e] : e \in Endpoints}])
      PROVE  IInv'
  <2>. DEFINE argv == {manifest[RunOf[c]].rec[h].keys[e] : e \in Endpoints}
              x == [ctl[c] EXCEPT !.pc = "launch_call", !.host = h, !.tries = 0, !.child = 0,
                                  !.argv = argv]
  <2>1. h \in Hosts  BY <1>1 DEF Control
  <2>2. argv \subseteq Key
    <3>1. manifest[RunOf[c]] \in Manifest  BY <1>5, SetsAssumption DEF IInv, TypeOK
    <3>2. manifest[RunOf[c]].rec[h].keys \in [Endpoints -> Key]
      BY <2>1, <3>1 DEF Manifest, Record
    <3>. QED  BY <3>2
  <2>. HIDE DEF argv
  <2>3. x \in Control
    <3>1. "launch_call" \in PlayPCs \cup LockedPCs  BY DEF PlayPCs
    <3>. QED  BY <1>1, <2>1, <2>2, <3>1, Zero DEF Control
  <2>4. x.pc = "launch_call" /\ x.play = ctl[c].play  BY <1>1 DEF Control
  <2>5. PlayFits(x) /\ x.pc \notin LockedPCs
    BY <1>1, <2>4 DEF PlayFits, CreatePCs, DestroyPCs, CleanupPCs, SavePCs, LockedPCs, CallPCs
  <2>6. Become(c, x) /\ UNCHANGED <<store, lock, copies>>  BY <1>5 DEF Local, argv
  <2>. HIDE DEF x
  <2>. QED  BY <1>2, <1>3, <2>3, <2>5, <2>6, MoveKeeps
<1>. QED  BY <1>4, <1>5 DEF Status

\* The manifest is replaced while what is published belongs to the old one.
LEMMA SaveManifestKeeps ==
  ASSUME IInv, NEW c \in Controllers, SaveManifest(c)
  PROVE  IInv'
<1>. USE DEF IInv, Goto, Become
<1>. DEFINE x == [ctl[c] EXCEPT !.pc = "publish"]
<1>1. ctl[c] \in Control /\ ctl[c].pc = "save" /\ RunOf[c] \in Runs
  BY SetsAssumption DEF TypeOK, SaveManifest, At
<1>2. x \in Control
  <2>1. "publish" \in PlayPCs \cup LockedPCs  BY PCs DEF SavePCs
  <2>. QED  BY <1>1, <2>1 DEF Control
<1>3. x.pc = "publish" /\ x.play = ctl[c].play /\ x.then = ctl[c].then
      /\ x.todo = ctl[c].todo /\ x.failed = ctl[c].failed
  BY <1>1 DEF Control
<1>4. ctl' = [ctl EXCEPT ![c] = x]  BY DEF SaveManifest
<1>. HIDE DEF x
<1>5. ctl'[c] = x /\ \A d \in Controllers \ {c} : ctl'[d] = ctl[d]
  BY <1>4 DEF TypeOK
<1>6. /\ reservations' = reservations /\ lock' = lock /\ mem' = mem /\ res' = res
      /\ manifest' = [manifest EXCEPT ![RunOf[c]] = mem[c]]
  BY DEF SaveManifest, copies
<1>7. manifest'[RunOf[c]] = mem[c] /\ \A r \in Runs \ {RunOf[c]} : manifest'[r] = manifest[r]
  BY <1>1, <1>6 DEF TypeOK
<1>8. Calling(c) /\ lock = c /\ mem[c] # NoManifest
  BY <1>1, PCs DEF CallInv, CallReady, Calling, LockedPCs, SavePCs
<1>9. TypeOK'
  <2>1. TypeCalls'  BY <1>1, <1>2, <1>4, <1>6 DEF TypeOK, TypeCalls
  <2>2. TypeOS'  BY TypeHalves, OSKept DEF SaveManifest, files, os
  <2>. QED  BY <2>1, <2>2, TypeHalves
<1>10. ASSUME NEW d \in Controllers, d # c PROVE CallInv(d)'
  <2>1. ~Calling(d)  BY <1>8, <1>10 DEF CallInv, CallReady
  <2>. QED  BY <1>5, <1>6, <1>10, <2>1, OthersKeep
<1>11. \A k \in Key : reservations[k] \in Owner \cup {NoOne} /\ res[c][k] \in Owner \cup {NoOne}
  BY DEF TypeOK, Reservations
<1>12. ReservationsHaveManifest'
  <2>. SUFFICES ASSUME NEW k \in Key, reservations[k] # NoOne
                PROVE  /\ manifest'[reservations[k].run] # NoManifest
                       /\ manifest'[reservations[k].run].gen = reservations[k].gen
    BY <1>6 DEF ReservationsHaveManifest
  <2>1. /\ manifest[reservations[k].run] # NoManifest
        /\ manifest[reservations[k].run].gen = reservations[k].gen
    BY DEF ReservationsHaveManifest
  <2>2. CASE reservations[k].run = RunOf[c]
    <3>1. mem[c].gen = manifest[RunOf[c]].gen
      BY <1>1, <1>8, <2>1, <2>2 DEF CallInv, SameGeneration
    <3>. QED  BY <1>7, <1>8, <2>1, <2>2, <3>1
  <2>3. CASE reservations[k].run # RunOf[c]
    <3>1. reservations[k].run \in Runs  BY <1>11 DEF Owner
    <3>. QED  BY <1>7, <2>1, <2>3, <3>1
  <2>. QED  BY <2>2, <2>3
<1>13. CallInv(c)'
  <2>1. PlayFits(ctl[c])'
    BY <1>1, <1>3, <1>5 DEF CallInv, PlayFits, CreatePCs, CreateCalls, DestroyPCs, CleanupPCs, SavePCs
  <2>2. CallReady(c)' /\ SameGeneration(c)' /\ Synced(c)'
    BY <1>3, <1>5, <1>6, <1>7, <1>8 DEF CallReady, SameGeneration, Synced, SavePCs
  <2>3. CopiesNamed(c)'
    <3>. SUFFICES ASSUME NEW k \in Key, res[c][k] # NoOne
                  PROVE  \/ res[c][k].run # RunOf[c] /\ manifest'[res[c][k].run] # NoManifest
                            /\ manifest'[res[c][k].run].gen = res[c][k].gen
                         \/ mem[c] # NoManifest /\ res[c][k] = [run |-> RunOf[c], gen |-> mem[c].gen]
      BY <1>6 DEF CopiesNamed, NamedBy, Named
    <3>1. res[c][k].run \in Runs  BY <1>11 DEF Owner
    <3>. QED  BY <1>7, <1>8, <3>1 DEF CallInv, CopiesNamed, NamedBy, Named
  <2>4. CopiesCompatible(c)'
    BY <1>6, <1>8 DEF CallInv, CopiesCompatible, Compatible, Conflicts
  <2>5. CleanedUp(c)'
    BY <1>1, <1>3, <1>5, <1>6 DEF CallInv, CleanedUp, Cleaning, Dealt, ActiveKeys, SavePCs, CleanupPCs
  <2>. QED  BY <2>1, <2>2, <2>3, <2>4, <2>5 DEF CallInv
<1>14. ReservationsCompatible'  BY <1>6 DEF ReservationsCompatible, Conflicts
<1>. QED  BY <1>9, <1>10, <1>12, <1>13, <1>14

\* The reservations are published under the manifest that has been written.
LEMMA SaveReservationsKeeps ==
  ASSUME IInv, NEW c \in Controllers, SaveReservations(c)
  PROVE  IInv'
<1>. USE DEF IInv, Become
<1>. DEFINE x == [ctl[c] EXCEPT !.pc = ctl[c].then]
<1>1. /\ ctl[c] \in Control /\ PlayFits(ctl[c]) /\ ctl[c].pc = "publish"
  BY DEF TypeOK, SaveReservations, At, CallInv
<1>2. x \in Control
  <2>1. ctl[c].then \in PlayPCs \cup LockedPCs
    BY <1>1 DEF Control, AfterSave, LockedPCs, PlayPCs
  <2>. QED  BY <1>1, <2>1 DEF Control
<1>3. x.pc = ctl[c].then /\ x.play = ctl[c].play /\ x.then = ctl[c].then
      /\ x.todo = ctl[c].todo /\ x.failed = ctl[c].failed
  BY <1>1 DEF Control
<1>4. \/ x.play = "create" /\ x.pc \in {"media", "l_owned", "l_spawn", "l_verify"}
      \/ x.play = "destroy" /\ x.pc \in {"d_next", "d_check"}
  BY <1>1, <1>3 DEF PlayFits, SavePCs
<1>5. ctl' = [ctl EXCEPT ![c] = x] /\ manifest' = manifest /\ reservations' = res[c]
  BY DEF SaveReservations
<1>. HIDE DEF x
<1>6. ctl'[c] = x /\ \A d \in Controllers \ {c} : ctl'[d] = ctl[d]
  BY <1>5 DEF TypeOK
<1>7. Calling(c) /\ lock = c /\ mem[c] # NoManifest /\ manifest[RunOf[c]] = mem[c]
  BY <1>1, PCs DEF CallInv, CallReady, Calling, LockedPCs, SavePCs, Synced
<1>8. \/ x.pc = "media" /\ Unlock(c)
      \/ x.pc # "media" /\ lock' = lock /\ mem' = mem /\ res' = res
  BY <1>3 DEF SaveReservations, copies
<1>9. \A d \in Controllers \ {c} : mem'[d] = mem[d] /\ res'[d] = res[d]
  BY <1>8 DEF Unlock, TypeOK
<1>10. TypeOK'
  <2>0. /\ lock' \in Controllers \cup {NoOne}
        /\ mem' \in [Controllers -> Manifest \cup {NoManifest}] /\ res' \in [Controllers -> Reservations]
    <3>1. [k \in Key |-> NoOne] \in Reservations  BY DEF Reservations
    <3>. QED  BY <1>8, <3>1 DEF TypeOK, Unlock
  <2>1. TypeCalls'  BY <1>2, <1>5, <2>0 DEF TypeOK, TypeCalls
  <2>2. TypeOS'  BY TypeHalves, OSKept DEF SaveReservations, files, os
  <2>. QED  BY <2>1, <2>2, TypeHalves
<1>11. ASSUME NEW d \in Controllers, d # c PROVE CallInv(d)'
  <2>1. ~Calling(d)  BY <1>7, <1>11 DEF CallInv, CallReady
  <2>. QED  BY <1>6, <1>9, <1>11, <2>1, OthersKeep
<1>12. ReservationsHaveManifest'
  <2>. SUFFICES ASSUME NEW k \in Key, res[c][k] # NoOne PROVE Named(res[c][k])
    BY <1>5 DEF ReservationsHaveManifest, Named
  <2>1. CASE res[c][k] = [run |-> RunOf[c], gen |-> mem[c].gen]
    BY <1>7, <2>1 DEF Named
  <2>. QED  BY <1>7, <2>1 DEF CallInv, CopiesNamed, NamedBy
<1>13. ReservationsCompatible'
  BY <1>5, <1>7 DEF ReservationsCompatible, CallInv, CopiesCompatible, Compatible, Conflicts
<1>14. CallInv(c)'
  <2>1. PlayFits(ctl[c])'
    BY <1>4, <1>6 DEF PlayFits, CreatePCs, CreateCalls, DestroyPCs, CleanupPCs, SavePCs
  <2>2. CASE x.pc = "media"
    <3>1. ~Calling(c)' /\ ctl'[c].pc # "publish" /\ ctl'[c].pc \notin SavePCs /\ ~Cleaning(ctl[c])'
      BY <1>6, <2>2 DEF Calling, Cleaning, LockedPCs, CallPCs, SavePCs, CleanupPCs
    <3>. QED
      BY <2>1, <3>1 DEF CallInv, CallReady, SameGeneration, Synced, CopiesNamed,
                        CopiesCompatible, CleanedUp
  <2>3. CASE x.pc # "media"
    <3>1. lock' = lock /\ mem' = mem /\ res' = res  BY <1>8, <2>3
    <3>2. CallReady(c)' /\ SameGeneration(c)' /\ Synced(c)'
      BY <1>4, <1>5, <1>6, <1>7, <2>3, <3>1 DEF CallReady, SameGeneration, Synced, SavePCs
    <3>3. CopiesNamed(c)' /\ CopiesCompatible(c)'
      BY <1>5, <1>7, <3>1 DEF CallInv, CopiesNamed, NamedBy, Named, CopiesCompatible, Compatible, Conflicts
    <3>4. CleanedUp(c)'
      BY <1>1, <1>3, <1>4, <1>6, <3>1 DEF CallInv, CleanedUp, Cleaning, Dealt, ActiveKeys, SavePCs, CleanupPCs
    <3>. QED  BY <2>1, <3>2, <3>3, <3>4 DEF CallInv
  <2>. QED  BY <2>2, <2>3
<1>. QED  BY <1>10, <1>11, <1>12, <1>13, <1>14

-------------------------------------------------------------------------------
(* Ports                                                                   *)

LEMMA ConflictsSymmetric ==
  ASSUME NEW k, NEW l PROVE Conflicts(k, l) <=> Conflicts(l, k)
BY DEF Conflicts

\* Keys allocated together, next to a table none of them conflicts with, keep the
\* table free of conflicts (allocate, qemu_runtime.py:146-158).
LEMMA AllocatedCompatible ==
  ASSUME NEW r, NEW slots, NEW table, Compatible(table),
         NEW chosen \in Allocations(r, slots, table), NEW owner
  PROVE  Compatible([k \in Key |-> IF k \in {chosen[s] : s \in slots} THEN owner ELSE table[k]])
<1>. DEFINE new == {chosen[s] : s \in slots}
            after == [k \in Key |-> IF k \in new THEN owner ELSE table[k]]
<1>1. /\ DOMAIN chosen = slots /\ PairwiseFree(chosen)
      /\ \A s \in slots : Allocatable(chosen[s], table)
  BY DEF Allocations
<1>2. ASSUME NEW k \in Key, NEW l \in Key, k # l, after[k] # NoOne, after[l] # NoOne
      PROVE  ~Conflicts(k, l)
  <2>1. CASE k \in new /\ l \in new  BY <1>1, <1>2, <2>1 DEF PairwiseFree
  <2>2. CASE k \in new /\ l \notin new
    BY <1>1, <1>2, <2>2 DEF Allocatable
  <2>3. CASE k \notin new /\ l \in new
    <3>1. ~Conflicts(l, k)  BY <1>1, <1>2, <2>3 DEF Allocatable
    <3>. QED  BY <3>1, ConflictsSymmetric
  <2>4. CASE k \notin new /\ l \notin new  BY <1>2, <2>4 DEF Compatible
  <2>. QED  BY <2>1, <2>2, <2>3, <2>4
<1>. QED  BY <1>2 DEF Compatible

\* release_unused() only takes away, and leaves the owner its active keys.
LEMMA ReleasedTable ==
  ASSUME NEW table \in Reservations, NEW owner \in Owner, NEW m
  PROVE  /\ Released(table, owner, m) \in Reservations
         /\ \A k \in Key : Released(table, owner, m)[k] # NoOne =>
              /\ Released(table, owner, m)[k] = table[k]
              /\ table[k] = owner => k \in ActiveKeys(m)
         /\ Compatible(table) => Compatible(Released(table, owner, m))
BY SentinelAssumption DEF Released, Reservations, Compatible

LEMMA ActiveKey ==
  ASSUME NEW m, m # NoManifest
  PROVE  \A k : k \in ActiveKeys(m) <=>
           \E h \in Hosts, e \in Endpoints : m.rec[h].status # "removed" /\ k = m.rec[h].keys[e]
BY DEF ActiveKeys

\* What is chosen are keys.
LEMMA AllocationsType ==
  ASSUME NEW r, NEW slots, NEW table, NEW chosen \in Allocations(r, slots, table)
  PROVE  chosen \in [slots -> Key]
BY DEF Allocations

-------------------------------------------------------------------------------
(* reserve                                                                 *)

\* A call knows its run's generation.
LEMMA OwnType ==
  ASSUME IInv, NEW c \in Controllers, mem[c] # NoManifest
  PROVE  mem[c] \in Manifest /\ Own(c) \in Owner /\ Own(c).run = RunOf[c] /\ Own(c).gen = mem[c].gen
BY SetsAssumption DEF IInv, TypeOK, Own, Owner, Manifest

LEMMA ReserveExistingKeeps ==
  ASSUME IInv, NEW c \in Controllers, ReserveExisting(c)
  PROVE  IInv'
<1>1. /\ ctl[c] \in Control /\ PlayFits(ctl[c]) /\ ctl[c].pc = "reserve" /\ Calling(c)
      /\ mem[c] # NoManifest /\ CallInv(c)
  BY DEF IInv, TypeOK, CallInv, ReserveExisting, At, Calling, LockedPCs, CallPCs
<1>2. ctl[c].play = "create"  BY <1>1 DEF PlayFits, CreatePCs, CreateCalls
<1>3. TypeOS'
  BY TypeHalves, OSKept DEF IInv, ReserveExisting, Return, BeginSave, files, os
<1>4. CASE Return(c, [ctl[c] EXCEPT !.pc = "media"])
  <2>. DEFINE x == [ctl[c] EXCEPT !.pc = "media"]
  <2>1. x \in Control
    <3>1. "media" \in PlayPCs \cup LockedPCs  BY DEF PlayPCs
    <3>. QED  BY <1>1, <3>1 DEF Control
  <2>2. x.pc = "media" /\ x.play = "create"  BY <1>1, <1>2 DEF Control
  <2>3. PlayFits(x) /\ x.pc \notin LockedPCs
    BY <2>2 DEF PlayFits, CreatePCs, DestroyPCs, CleanupPCs, SavePCs, LockedPCs, CallPCs
  <2>. HIDE DEF x
  <2>. QED  BY <1>1, <1>3, <1>4, <2>1, <2>3, ReturnKeeps DEF x
<1>5. CASE BeginSave(c, [ctl[c] EXCEPT !.then = "media"], mem[c], res[c])
  <2>. DEFINE x == [ctl[c] EXCEPT !.then = "media"]
  <2>1. x \in Control
    <3>1. "media" \in AfterSave  BY DEF AfterSave
    <3>. QED  BY <1>1, <3>1 DEF Control
  <2>2. x.play = "create" /\ x.then = "media"  BY <1>1, <1>2 DEF Control
  <2>. HIDE DEF x
  <2>3. [x EXCEPT !.pc = "save"].pc = "save" /\ [x EXCEPT !.pc = "save"].play = "create"
        /\ [x EXCEPT !.pc = "save"].then = "media"
    BY <2>1, <2>2 DEF Control
  <2>4. PlayFits([x EXCEPT !.pc = "save"])
    BY <2>3 DEF PlayFits, CreatePCs, CreateCalls, DestroyPCs, CleanupPCs, SavePCs
  <2>5. mem[c] \in Manifest /\ res[c] \in Reservations  BY <1>1, OwnType DEF IInv, TypeOK
  <2>6. /\ manifest[RunOf[c]] # NoManifest => mem[c].gen = manifest[RunOf[c]].gen
        /\ NamedBy(c, mem[c], res[c]) /\ Compatible(res[c])
    BY <1>1 DEF CallInv, SameGeneration, CopiesNamed, CopiesCompatible
  <2>7. BeginSave(c, x, mem[c], res[c])  BY <1>5 DEF x
  <2>. QED  BY <1>1, <1>3, <2>1, <2>2, <2>4, <2>5, <2>6, <2>7, BeginSaveKeeps
<1>. QED  BY <1>4, <1>5 DEF ReserveExisting

\* A fresh run's allocations are published under its new generation.
LEMMA ReserveFreshKeeps ==
  ASSUME IInv, NEW c \in Controllers, ReserveFresh(c)
  PROVE  IInv'
<1>. DEFINE r == RunOf[c]
            x == [ctl[c] EXCEPT !.then = "media"]
            g == gens[r] + 1
<1>1. /\ ctl[c] \in Control /\ PlayFits(ctl[c]) /\ ctl[c].pc = "reserve" /\ Calling(c)
      /\ mem[c] = NoManifest /\ CallInv(c) /\ r \in Runs
  BY SetsAssumption DEF IInv, TypeOK, CallInv, ReserveFresh, At, Calling, LockedPCs, CallPCs
<1>2. ctl[c].play = "create"  BY <1>1 DEF PlayFits, CreatePCs, CreateCalls
<1>3. g \in 1..MaxGen /\ gens' = [gens EXCEPT ![r] = g]
  BY <1>1, SetsAssumption DEF ReserveFresh, IInv, TypeOK
<1>. HIDE DEF g
<1>4. PICK chosen \in Allocations(r, Slots(Hosts), res[c]) :
        BeginSave(c, x,
          [gen |-> g, destroying |-> FALSE, rec |-> [h \in Hosts |-> FreshRecord(r, chosen, h)]],
          [k \in Key |-> IF k \in {chosen[s] : s \in Slots(Hosts)}
                         THEN [run |-> r, gen |-> g] ELSE res[c][k]])
  BY DEF ReserveFresh, g
<1>. DEFINE m == [gen |-> g, destroying |-> FALSE, rec |-> [h \in Hosts |-> FreshRecord(r, chosen, h)]]
            own == [run |-> r, gen |-> g]
            t == [k \in Key |-> IF k \in {chosen[s] : s \in Slots(Hosts)} THEN own ELSE res[c][k]]
<1>5. x \in Control
  <2>1. "media" \in AfterSave  BY DEF AfterSave
  <2>. QED  BY <1>1, <2>1 DEF Control
<1>6. x.play = "create" /\ x.then = "media"  BY <1>1, <1>2 DEF Control
<1>. HIDE DEF x
<1>7. PlayFits([x EXCEPT !.pc = "save"])
  <2>1. [x EXCEPT !.pc = "save"].pc = "save" /\ [x EXCEPT !.pc = "save"].play = "create"
        /\ [x EXCEPT !.pc = "save"].then = "media"
    BY <1>5, <1>6 DEF Control
  <2>. QED  BY <2>1 DEF PlayFits, CreatePCs, CreateCalls, DestroyPCs, CleanupPCs, SavePCs
<1>8. m \in Manifest
  <2>1. ASSUME NEW h \in Hosts PROVE FreshRecord(r, chosen, h) \in Record
    <3>1. \A e \in Endpoints : chosen[<<h, e>>] \in Key
      BY AllocationsType DEF Slots
    <3>2. [e \in Endpoints |-> chosen[<<h, e>>]] \in [Endpoints -> Key]  BY <3>1
    <3>3. "reserved" \in Statuses /\ 0 \in 0..MaxStarts  BY Zero DEF Statuses
    <3>. QED  BY <3>2, <3>3 DEF FreshRecord, Record
  <2>. QED  BY <1>3, <2>1 DEF Manifest
<1>9. own \in Owner /\ own # NoOne  BY <1>1, <1>3, SentinelAssumption DEF Owner
<1>10. m.gen = g  OBVIOUS
<1>11. t \in Reservations
  BY <1>9 DEF IInv, TypeOK, Reservations
<1>12. manifest[r] = NoManifest
  BY <1>1 DEF CallInv, SameGeneration
<1>13. NamedBy(c, m, t)
  <2>. SUFFICES ASSUME NEW k \in Key, t[k] # NoOne
                PROVE  \/ t[k].run # r /\ Named(t[k])
                       \/ t[k] = [run |-> r, gen |-> m.gen]
    BY <1>8, SentinelAssumption DEF NamedBy
  <2>. HIDE DEF m
  <2>1. CASE k \in {chosen[s] : s \in Slots(Hosts)}  BY <1>10, <2>1
  <2>2. CASE k \notin {chosen[s] : s \in Slots(Hosts)}
    <3>1. t[k] = res[c][k]  BY <2>2
    <3>. QED  BY <1>1, <3>1 DEF CallInv, CopiesNamed, NamedBy
  <2>. QED  BY <2>1, <2>2
<1>14. Compatible(t)
  BY <1>1, AllocatedCompatible DEF CallInv, CopiesCompatible
<1>15. TypeOS'
  BY <1>1, <1>3, <1>4 DEF IInv, TypeOK, TypeOS, ReserveFresh, BeginSave, os
<1>. HIDE DEF m, t
<1>. QED
  BY <1>1, <1>4, <1>5, <1>6, <1>7, <1>8, <1>11, <1>12, <1>13, <1>14, <1>15, BeginSaveKeeps
  DEF m, t

-------------------------------------------------------------------------------
(* launch                                                                  *)

\* What is left of a launch changes a guest's process, not its ports.
LEMMA RecoveredManifest ==
  ASSUME TypeOK, NEW r \in Runs, NEW m \in Manifest, NEW h \in Hosts,
         Recovery(r, m, h) \in {"stopped", "running"}
  PROVE  /\ Recovered(r, m, h) \in Manifest /\ Recovered(r, m, h).gen = m.gen
         /\ Recovered(r, m, h).destroying = m.destroying
         /\ \A g \in Hosts \ {h} : Recovered(r, m, h).rec[g] = m.rec[g]
         /\ m.rec[h].status = "launching" /\ Recovered(r, m, h).rec[h].keys = m.rec[h].keys
         /\ LET rec == Recovered(r, m, h).rec[h] IN
            \/ Recovery(r, m, h) = "stopped"
               /\ rec.status = "stopped" /\ rec.pid = NoOne /\ rec.start = 0
            \/ Recovery(r, m, h) = "running"
               /\ rec.status = "running" /\ rec.pid = pidfile[r][h]
               /\ rec.start = procs[pidfile[r][h]].start
         /\ \A g \in Hosts : m.rec[g].status = "removed"
                             => Recovered(r, m, h).rec[g].status = "removed"
         /\ ActiveKeys(Recovered(r, m, h)) = ActiveKeys(m)
<1>. DEFINE n == Recovered(r, m, h)
<1>1. m.rec \in [Hosts -> Record] /\ m.rec[h].status = "launching" /\ pidfile[r][h] \in Pids
  BY DEF Manifest, Recovery, TypeOK
<1>. DEFINE Outcome(status, pid, start) ==
              \/ Recovery(r, m, h) = "stopped" /\ status = "stopped" /\ pid = NoOne /\ start = 0
              \/ Recovery(r, m, h) = "running" /\ status = "running" /\ pid = pidfile[r][h]
                 /\ start = procs[pidfile[r][h]].start
<1>2. PICK status \in Statuses \ {"removed"}, pid \in Pids \cup {NoOne}, start \in 0..MaxStarts :
        /\ n = [m EXCEPT !.rec = [m.rec EXCEPT ![h] =
                 [m.rec[h] EXCEPT !.status = status, !.pid = pid, !.start = start]]]
        /\ Outcome(status, pid, start)
  <2>1. CASE Recovery(r, m, h) = "stopped"
    <3>1. n = [m EXCEPT !.rec = [m.rec EXCEPT ![h] =
                 [m.rec[h] EXCEPT !.status = "stopped", !.pid = NoOne, !.start = 0]]]
      BY <1>1, <2>1 DEF Recovered, Manifest, Record
    <3>. HIDE DEF n
    <3>. QED  BY <2>1, <3>1, Zero DEF Statuses
  <2>2. CASE Recovery(r, m, h) = "running"
    <3>1. n = [m EXCEPT !.rec = [m.rec EXCEPT ![h] =
                 [m.rec[h] EXCEPT !.status = "running", !.pid = pidfile[r][h],
                                  !.start = procs[pidfile[r][h]].start]]]
      BY <1>1, <2>2 DEF Recovered, Manifest, Record
    <3>2. procs[pidfile[r][h]] \in Process
      BY <1>1, <2>2 DEF Recovery, TypeOK
    <3>3. procs[pidfile[r][h]].start \in 0..MaxStarts
      BY <3>2, SetsAssumption DEF Process
    <3>. HIDE DEF n
    <3>. QED  BY <1>1, <2>2, <3>1, <3>3 DEF Statuses
  <2>. QED  BY <2>1, <2>2
<1>. HIDE DEF n
<1>3. [m.rec[h] EXCEPT !.status = status, !.pid = pid, !.start = start] \in Record
  BY <1>1 DEF Record
<1>. DEFINE rec == [m.rec[h] EXCEPT !.status = status, !.pid = pid, !.start = start]
<1>4. /\ rec.keys = m.rec[h].keys /\ rec.status = status /\ rec.pid = pid /\ rec.start = start
      /\ Outcome(status, pid, start)
  BY <1>1, <1>2 DEF Record
<1>. HIDE DEF Outcome
<1>5. /\ n \in Manifest /\ n.gen = m.gen /\ n.destroying = m.destroying
      /\ \A g \in Hosts \ {h} : n.rec[g] = m.rec[g]
      /\ n.rec[h] = rec
      /\ \A g \in Hosts : /\ n.rec[g].keys = m.rec[g].keys
                          /\ n.rec[g].status = "removed" <=> m.rec[g].status = "removed"
  <2>. HIDE DEF rec
  <2>1. n = [m EXCEPT !.rec = [m.rec EXCEPT ![h] = rec]] /\ rec \in Record  BY <1>2, <1>3 DEF rec
  <2>2. [m.rec EXCEPT ![h] = rec] \in [Hosts -> Record]  BY <1>1, <2>1
  <2>3. n \in Manifest /\ n.gen = m.gen /\ n.destroying = m.destroying
        /\ n.rec = [m.rec EXCEPT ![h] = rec]
    BY <2>1, <2>2 DEF Manifest
  <2>4. n.rec[h] = rec /\ \A g \in Hosts \ {h} : n.rec[g] = m.rec[g]  BY <1>1, <2>3
  <2>. QED  BY <1>1, <1>4, <2>3, <2>4
<1>6. ActiveKeys(n) = ActiveKeys(m)
  <2>1. n # NoManifest /\ m # NoManifest  BY <1>5, SentinelAssumption
  <2>2. \A k : k \in ActiveKeys(n) <=> k \in ActiveKeys(m)  BY <1>5, <2>1, ActiveKey
  <2>. QED  BY <2>2
<1>7. \/ Recovery(r, m, h) = "stopped"
         /\ n.rec[h].status = "stopped" /\ n.rec[h].pid = NoOne /\ n.rec[h].start = 0
      \/ Recovery(r, m, h) = "running"
         /\ n.rec[h].status = "running" /\ n.rec[h].pid = pidfile[r][h]
         /\ n.rec[h].start = procs[pidfile[r][h]].start
  <2>. HIDE DEF rec
  <2>. QED  BY <1>4, <1>5 DEF Outcome
<1>8. n.rec[h].keys = m.rec[h].keys  BY <1>5
<1>. HIDE DEF rec
<1>. QED  BY <1>1, <1>5, <1>6, <1>7, <1>8 DEF n

LEMMA RecoverKeeps ==
  ASSUME IInv, NEW c \in Controllers, NEW from, NEW to, RecoverAt(c, from, to), mem[c] # NoManifest,
         \/ from \in {"launch", "l_rc0"} /\ to \in {"l_owned", "l_verify"}
         \/ from = "d_recover" /\ to = "d_check"
  PROVE  IInv'
<1>1. /\ ctl[c] \in Control /\ PlayFits(ctl[c]) /\ ctl[c].pc = from /\ CallInv(c)
      /\ mem[c] \in Manifest /\ res[c] \in Reservations /\ RunOf[c] \in Runs
  BY OwnType, SetsAssumption DEF IInv, TypeOK, CallInv, RecoverAt, At
<1>2. CASE Move(c, to)
  BY <1>1, <1>2, MoveOnKeeps DEF CreateCalls, CleanupPCs
<1>3. CASE /\ RecoveryBy(c) \in {"stopped", "running"}
           /\ BeginSave(c, [ctl[c] EXCEPT !.then = to], Recovered(RunOf[c], mem[c], ctl[c].host), res[c])
           /\ UNCHANGED <<sock, gens>>
  <2>. DEFINE x == [ctl[c] EXCEPT !.then = to]
              n == Recovered(RunOf[c], mem[c], ctl[c].host)
  <2>1. x \in Control
    <3>1. to \in AfterSave  BY DEF AfterSave, CallPCs
    <3>. QED  BY <1>1, <3>1 DEF Control
  <2>2. x.then = to /\ x.play = ctl[c].play /\ x.todo = ctl[c].todo /\ x.failed = ctl[c].failed
    BY <1>1 DEF Control
  <2>3. x.play = IF from = "d_recover" THEN "destroy" ELSE "create"
    BY <1>1, <2>2 DEF PlayFits, CreatePCs, CreateCalls, DestroyPCs, CleanupPCs
  <2>. HIDE DEF x
  <2>4. PlayFits([x EXCEPT !.pc = "save"])
    <3>1. [x EXCEPT !.pc = "save"].pc = "save" /\ [x EXCEPT !.pc = "save"].play = x.play
          /\ [x EXCEPT !.pc = "save"].then = to
      BY <2>1, <2>2 DEF Control
    <3>. QED  BY <2>3, <3>1 DEF PlayFits, CreatePCs, CreateCalls, DestroyPCs, CleanupPCs, SavePCs
  <2>5. /\ n \in Manifest /\ n.gen = mem[c].gen
        /\ \A g \in Hosts : mem[c].rec[g].status = "removed" => n.rec[g].status = "removed"
        /\ ActiveKeys(n) = ActiveKeys(mem[c])
    BY <1>1, <1>3, RecoveredManifest DEF IInv, RecoveryBy, Control
  <2>6. BeginSave(c, x, n, res[c]) /\ TypeOS'
    BY <1>3, TypeHalves, OSKept DEF IInv, BeginSave, files, os, x
  <2>. HIDE DEF n
  <2>7. Calling(c) /\ ctl[c].pc # "d_release"
    BY <1>1 DEF Calling, LockedPCs, CallPCs
  <2>8. /\ manifest[RunOf[c]] # NoManifest => n.gen = manifest[RunOf[c]].gen
        /\ NamedBy(c, n, res[c]) /\ Compatible(res[c])
    <3>1. manifest[RunOf[c]] # NoManifest => n.gen = manifest[RunOf[c]].gen
      BY <1>1, <2>5, <2>7 DEF CallInv, SameGeneration
    <3>2. NamedBy(c, n, res[c])
      BY <1>1, <2>5, <2>7, SentinelAssumption DEF CallInv, CopiesNamed, NamedBy
    <3>. QED  BY <1>1, <2>7, <3>1, <3>2 DEF CallInv, CopiesCompatible
  <2>9. x.play = "destroy" => Dealt(c, x, n, res[c])
    <3>. SUFFICES ASSUME from = "d_recover" PROVE Dealt(c, x, n, res[c])  BY <2>3
    <3>1. Dealt(c, ctl[c], mem[c], res[c])
      BY <1>1 DEF CallInv, CleanedUp, Cleaning, CleanupPCs
    <3>. QED  BY <2>2, <2>5, <3>1 DEF Dealt
  <2>. QED  BY <1>1, <2>1, <2>4, <2>5, <2>6, <2>7, <2>8, <2>9, BeginSaveKeeps
<1>. QED  BY <1>2, <1>3 DEF RecoverAt

\* The call of one guest ends, and the play goes on to the next.
LEMMA LaunchedKeeps ==
  ASSUME IInv, NEW c \in Controllers, Launched(c), ctl[c].pc \in CreateCalls
  PROVE  IInv'
<1>1. ctl[c] \in Control /\ ctl[c].play = "create" /\ Calling(c)
  BY PCs DEF IInv, TypeOK, CallInv, PlayFits, CreatePCs, Calling, LockedPCs
<1>. DEFINE left == ctl[c].todo \ {ctl[c].host}
            y == [ctl[c] EXCEPT !.pc = "status_call", !.todo = left]
            x == IF left = {} THEN IdleControl ELSE y
<1>2. y \in Control /\ y.pc = "status_call" /\ y.play = "create"
  <2>1. "status_call" \in PlayPCs \cup LockedPCs  BY DEF PlayPCs
  <2>. QED  BY <1>1, <2>1 DEF Control
<1>. HIDE DEF y
<1>3. x \in Control /\ PlayFits(x) /\ x.pc \notin LockedPCs
  <2>1. CASE left = {}  BY <2>1, IdleType, IdleFits DEF LockedPCs, CallPCs, SavePCs
  <2>2. CASE left # {}
    <3>1. x = y  BY <2>2
    <3>. QED
      BY <1>2, <3>1 DEF PlayFits, CreatePCs, DestroyPCs, CleanupPCs, SavePCs, LockedPCs, CallPCs
  <2>. QED  BY <2>1, <2>2
<1>4. Return(c, x)  BY DEF Launched, y
<1>5. TypeOS'  BY TypeHalves, OSKept DEF IInv, Launched, Return, files, os
<1>. HIDE DEF x
<1>. QED  BY <1>1, <1>3, <1>4, <1>5, ReturnKeeps

LEMMA MarkLaunchingKeeps ==
  ASSUME IInv, NEW c \in Controllers, MarkLaunching(c)
  PROVE  IInv'
<1>. DEFINE x == [ctl[c] EXCEPT !.then = "l_spawn"]
            n == SetStatus(c, "launching")
<1>1. /\ ctl[c] \in Control /\ PlayFits(ctl[c]) /\ ctl[c].pc = "l_mark" /\ CallInv(c)
      /\ Calling(c) /\ mem[c] # NoManifest /\ mem[c] \in Manifest /\ res[c] \in Reservations
      /\ RunOf[c] \in Runs /\ ctl[c].host \in Hosts
  BY OwnType, SetsAssumption
  DEF IInv, TypeOK, CallInv, MarkLaunching, At, CallReady, Calling, LockedPCs, CallPCs, Control
<1>2. x \in Control /\ x.then = "l_spawn" /\ x.play = "create"
  <2>1. "l_spawn" \in AfterSave  BY DEF AfterSave, CallPCs
  <2>2. ctl[c].play = "create"  BY <1>1 DEF PlayFits, CreatePCs, CreateCalls
  <2>. QED  BY <1>1, <2>1, <2>2 DEF Control
<1>3. n \in Manifest /\ n.gen = mem[c].gen
  <2>1. [mem[c].rec[ctl[c].host] EXCEPT !.status = "launching"] \in Record
    BY <1>1 DEF Manifest, Record, Statuses
  <2>. QED  BY <1>1, <2>1 DEF SetStatus, Manifest
<1>4. BeginSave(c, x, n, res[c]) /\ sock' = [sock EXCEPT ![RunOf[c]][ctl[c].host] = 0] /\ gens' = gens
  BY DEF MarkLaunching
<1>5. TypeOS'
  BY <1>1, <1>4, Zero DEF IInv, TypeOK, TypeOS, BeginSave, os
<1>. HIDE DEF x, n
<1>6. PlayFits([x EXCEPT !.pc = "save"])
  <2>1. [x EXCEPT !.pc = "save"].pc = "save" /\ [x EXCEPT !.pc = "save"].play = "create"
        /\ [x EXCEPT !.pc = "save"].then = "l_spawn"
    BY <1>2 DEF Control
  <2>. QED  BY <2>1 DEF PlayFits, CreatePCs, CreateCalls, DestroyPCs, CleanupPCs, SavePCs
<1>7. manifest[RunOf[c]] # NoManifest => n.gen = manifest[RunOf[c]].gen
  BY <1>1, <1>3 DEF CallInv, SameGeneration
<1>8. NamedBy(c, n, res[c])
  BY <1>1, <1>3, SentinelAssumption DEF CallInv, CopiesNamed, NamedBy
<1>9. Compatible(res[c])  BY <1>1 DEF CallInv, CopiesCompatible
<1>. QED
  BY <1>1, <1>2, <1>3, <1>4, <1>5, <1>6, <1>7, <1>8, <1>9, BeginSaveKeeps

LEMMA UnlinkPidfileKeeps ==
  ASSUME IInv, NEW c \in Controllers, UnlinkPidfile(c)
  PROVE  IInv'
<1>1. ctl[c].pc = "l_unlink" /\ mem[c] # NoManifest
  BY DEF IInv, CallInv, CallReady, Calling, UnlinkPidfile, At, LockedPCs, CallPCs
<1>2. TypeOS'
  <2>1. RunOf[c] \in Runs /\ ctl[c].host \in Hosts
    BY SetsAssumption DEF IInv, TypeOK, Control
  <2>. QED  BY <2>1 DEF IInv, TypeOK, TypeOS, UnlinkPidfile, os
<1>. QED  BY <1>1, <1>2, GotoKeeps DEF UnlinkPidfile, CreateCalls

LEMMA GuestType ==
  ASSUME IInv, NEW c \in Controllers, mem[c] # NoManifest
  PROVE  Guest(RunOf[c], mem[c], ctl[c].host) \in VM
BY OwnType, SetsAssumption DEF IInv, TypeOK, Guest, VM, Control, Manifest

LEMMA SpawnKeeps ==
  ASSUME IInv, NEW c \in Controllers, Spawn(c)
  PROVE  IInv'
<1>. DEFINE x == [ctl[c] EXCEPT !.pc = "l_wait", !.child = clock + 1]
<1>0. clock + 1 \in 1..MaxStarts
  BY SetsAssumption DEF IInv, TypeOK, Spawn
<1>1. /\ ctl[c] \in Control /\ PlayFits(ctl[c]) /\ ctl[c].pc = "l_spawn" /\ mem[c] # NoManifest
      /\ clock + 1 \in 1..MaxStarts
  <2>1. ctl[c].pc = "l_spawn" /\ CallInv(c) /\ ctl[c] \in Control
    BY DEF Spawn, At, IInv, TypeOK
  <2>2. Calling(c)  BY <2>1, PCs DEF Calling, LockedPCs, CallPCs
  <2>. QED  BY <1>0, <2>1, <2>2 DEF CallInv, CallReady
<1>2. x \in Control
  <2>1. "l_wait" \in PlayPCs \cup LockedPCs  BY PCs DEF CallPCs
  <2>2. clock + 1 \in 0..MaxStarts  BY <1>1
  <2>. QED  BY <1>1, <2>1, <2>2 DEF Control
<1>3. x.pc = "l_wait" /\ x.play = ctl[c].play  BY <1>1 DEF Control
<1>4. PlayFits(x)
  BY <1>1, <1>3 DEF PlayFits, CreatePCs, CreateCalls, DestroyPCs, CleanupPCs, SavePCs
<1>5. PICK p \in Pids :
        procs' = [procs EXCEPT ![p] = [vm |-> Guest(RunOf[c], mem[c], ctl[c].host), start |-> clock + 1,
                                       stage |-> "starting", keys |-> ctl[c].argv]]
  BY DEF Spawn
<1>6. [vm |-> Guest(RunOf[c], mem[c], ctl[c].host), start |-> clock + 1,
       stage |-> "starting", keys |-> ctl[c].argv] \in Process
  BY <1>1, GuestType DEF Process, Control
<1>7. TypeOS'
  BY <1>1, <1>5, <1>6 DEF IInv, TypeOK, TypeOS, Spawn, files
<1>8. Become(c, x) /\ UNCHANGED <<store, lock, copies>>  BY DEF Spawn
<1>. HIDE DEF x
<1>. QED  BY <1>1, <1>2, <1>3, <1>4, <1>7, <1>8, MoveKeeps DEF CreateCalls

\* Replaced ports are released only once the new ones are held, and both changes
\* are published together.
LEMMA RetryPortsKeeps ==
  ASSUME IInv, NEW c \in Controllers, RetryPorts(c)
  PROVE  IInv'
<1>. DEFINE r == RunOf[c]
            h == ctl[c].host
            Old == Rec(c).keys
<1>1. /\ ctl[c] \in Control /\ PlayFits(ctl[c]) /\ ctl[c].pc = "l_in_use" /\ CallInv(c)
      /\ Calling(c) /\ mem[c] # NoManifest /\ mem[c] \in Manifest /\ res[c] \in Reservations
      /\ r \in Runs /\ h \in Hosts
  BY OwnType, SetsAssumption
  DEF IInv, TypeOK, CallInv, RetryPorts, At, CallReady, Calling, LockedPCs, CallPCs, Control
<1>2. Own(c) \in Owner /\ Own(c) # NoOne  BY <1>1, OwnType, SentinelAssumption
<1>3. PICK chosen \in Allocations(r, AutoSlots(c), res[c]) :
        LET New == [e \in Endpoints |-> IF <<h, e>> \in AutoSlots(c) THEN chosen[<<h, e>>] ELSE Old[e]]
            m == [mem[c] EXCEPT !.rec[h].keys = New]
            taken == {chosen[s] : s \in AutoSlots(c)}
        IN BeginSave(c,
             [ctl[c] EXCEPT !.then = "l_spawn", !.tries = @ + 1, !.argv = RetriedArgv(@, Old, New)],
             m,
             Released([k \in Key |-> IF k \in taken THEN Own(c) ELSE res[c][k]], Own(c), m))
  BY DEF RetryPorts
<1>. DEFINE New == [e \in Endpoints |-> IF <<h, e>> \in AutoSlots(c) THEN chosen[<<h, e>>] ELSE Old[e]]
            m == [mem[c] EXCEPT !.rec[h].keys = New]
            taken == {chosen[s] : s \in AutoSlots(c)}
            held == [k \in Key |-> IF k \in taken THEN Own(c) ELSE res[c][k]]
            argv == RetriedArgv(ctl[c].argv, Old, New)
            x == [ctl[c] EXCEPT !.then = "l_spawn", !.tries = @ + 1, !.argv = argv]
            t == Released(held, Own(c), m)
<1>4. BeginSave(c, x, m, t)  BY <1>3
<1>5. New \in [Endpoints -> Key]
  <2>1. Old \in [Endpoints -> Key]  BY <1>1 DEF Rec, Manifest, Record
  <2>2. chosen \in [AutoSlots(c) -> Key]  BY AllocationsType
  <2>. QED  BY <2>1, <2>2
<1>6. argv \subseteq Key
  BY <1>1, <1>5 DEF RetriedArgv, Control
<1>. HIDE DEF New, argv
<1>7. m \in Manifest /\ m.gen = mem[c].gen
  <2>1. mem[c].rec[h] \in Record  BY <1>1 DEF Manifest
  <2>2. [mem[c].rec[h] EXCEPT !.keys = New] \in Record  BY <1>5, <2>1 DEF Record
  <2>. QED  BY <1>1, <2>2 DEF Manifest
<1>8. held \in Reservations  BY <1>1, <1>2 DEF Reservations
<1>9. Compatible(held)
  BY <1>1, AllocatedCompatible DEF CallInv, CopiesCompatible
<1>10. NamedBy(c, m, held)
  <2>. SUFFICES ASSUME NEW k \in Key, held[k] # NoOne
                PROVE  \/ held[k].run # r /\ Named(held[k])
                       \/ held[k] = [run |-> r, gen |-> m.gen]
    BY <1>7, SentinelAssumption DEF NamedBy
  <2>1. CASE k \in taken  BY <1>7, <2>1 DEF Own
  <2>2. CASE k \notin taken
    BY <1>1, <1>7, <2>2 DEF CallInv, CopiesNamed, NamedBy
  <2>. QED  BY <2>1, <2>2
<1>. HIDE DEF m, held
<1>11. t \in Reservations /\ Compatible(t) /\ NamedBy(c, m, t)
  BY <1>2, <1>8, <1>9, <1>10, ReleasedTable DEF NamedBy
<1>. HIDE DEF t
<1>12. x \in Control /\ x.play = "create" /\ x.then = "l_spawn"
  <2>1. "l_spawn" \in AfterSave  BY DEF AfterSave, CallPCs
  <2>2. ctl[c].play = "create"  BY <1>1 DEF PlayFits, CreatePCs, CreateCalls
  <2>3. ctl[c].tries + 1 \in 0..2  BY <1>1 DEF RetryPorts, MayRetry, Control
  <2>. QED  BY <1>1, <1>6, <2>1, <2>2, <2>3 DEF Control
<1>. HIDE DEF x
<1>13. PlayFits([x EXCEPT !.pc = "save"])
  <2>1. [x EXCEPT !.pc = "save"].pc = "save" /\ [x EXCEPT !.pc = "save"].play = "create"
        /\ [x EXCEPT !.pc = "save"].then = "l_spawn"
    BY <1>12 DEF Control
  <2>. QED  BY <2>1 DEF PlayFits, CreatePCs, CreateCalls, DestroyPCs, CleanupPCs, SavePCs
<1>14. manifest[RunOf[c]] # NoManifest => m.gen = manifest[RunOf[c]].gen
  BY <1>1, <1>7 DEF CallInv, SameGeneration
<1>15. TypeOS'
  BY TypeHalves, OSKept, <1>4 DEF IInv, RetryPorts, BeginSave, files, os
<1>. QED
  BY <1>1, <1>4, <1>7, <1>11, <1>12, <1>13, <1>14, <1>15, BeginSaveKeeps

-------------------------------------------------------------------------------
(* destroy                                                                 *)

LEMMA DestroyBeginKeeps ==
  ASSUME IInv, NEW c \in Controllers, DestroyBegin(c)
  PROVE  IInv'
<1>. DEFINE x == [ctl[c] EXCEPT !.then = "d_next", !.todo = Hosts, !.failed = FALSE]
            n == [mem[c] EXCEPT !.destroying = TRUE]
<1>1. /\ ctl[c] \in Control /\ PlayFits(ctl[c]) /\ ctl[c].pc = "destroy" /\ CallInv(c)
      /\ mem[c] # NoManifest /\ mem[c] \in Manifest /\ res[c] \in Reservations
  BY OwnType DEF IInv, TypeOK, DestroyBegin, At, CallInv
<1>2. Calling(c) /\ ctl[c].play = "destroy"
  BY <1>1 DEF Calling, LockedPCs, CallPCs, PlayFits, DestroyPCs
<1>3. x \in Control /\ x.play = "destroy" /\ x.then = "d_next" /\ x.todo = Hosts
  <2>1. "d_next" \in AfterSave  BY DEF AfterSave, CallPCs
  <2>. QED  BY <1>1, <1>2, <2>1 DEF Control
<1>4. n \in Manifest /\ n.gen = mem[c].gen  BY <1>1 DEF Manifest
<1>5. BeginSave(c, x, n, res[c])  BY DEF DestroyBegin
<1>6. TypeOS'  BY TypeHalves, OSKept, <1>5 DEF IInv, DestroyBegin, BeginSave, files, os
<1>. HIDE DEF x, n
<1>7. PlayFits([x EXCEPT !.pc = "save"])
  <2>1. [x EXCEPT !.pc = "save"].pc = "save" /\ [x EXCEPT !.pc = "save"].play = "destroy"
        /\ [x EXCEPT !.pc = "save"].then = "d_next"
    BY <1>3 DEF Control
  <2>. QED  BY <2>1 DEF PlayFits, CreatePCs, CreateCalls, DestroyPCs, CleanupPCs, SavePCs
<1>8. manifest[RunOf[c]] # NoManifest => n.gen = manifest[RunOf[c]].gen
  BY <1>1, <1>2, <1>4 DEF CallInv, SameGeneration
<1>9. NamedBy(c, n, res[c])
  BY <1>1, <1>2, <1>4, SentinelAssumption DEF CallInv, CopiesNamed, NamedBy
<1>10. Compatible(res[c])  BY <1>1, <1>2 DEF CallInv, CopiesCompatible
<1>11. Dealt(c, x, n, res[c])  BY <1>3 DEF Dealt
<1>. QED
  BY <1>1, <1>2, <1>3, <1>4, <1>5, <1>6, <1>7, <1>8, <1>9, <1>10, <1>11, BeginSaveKeeps

LEMMA DestroyNextKeeps ==
  ASSUME IInv, NEW c \in Controllers, DestroyNext(c)
  PROVE  IInv'
<1>1. PICK h \in ctl[c].todo : Local(c, [ctl[c] EXCEPT !.pc = "d_recover", !.host = h])
  BY DEF DestroyNext
<1>. DEFINE x == [ctl[c] EXCEPT !.pc = "d_recover", !.host = h]
<1>2. ctl[c] \in Control /\ PlayFits(ctl[c]) /\ ctl[c].pc = "d_next"
  BY DEF IInv, TypeOK, CallInv, DestroyNext, At
<1>3. /\ x \in Control /\ x.pc = "d_recover" /\ x.play = ctl[c].play
      /\ x.todo = ctl[c].todo /\ x.failed = ctl[c].failed
  <2>1. h \in Hosts  BY <1>2 DEF Control
  <2>2. "d_recover" \in PlayPCs \cup LockedPCs  BY PCs DEF CallPCs
  <2>. QED  BY <1>2, <2>1, <2>2 DEF Control
<1>4. PlayFits(x)
  BY <1>2, <1>3 DEF PlayFits, CreatePCs, CreateCalls, DestroyPCs, CleanupPCs, SavePCs
<1>5. TypeOS' /\ Become(c, x) /\ UNCHANGED <<store, lock, copies>>
  BY <1>1, TypeHalves, OSKept DEF IInv, Local, files, os
<1>. HIDE DEF x
<1>. QED  BY <1>2, <1>3, <1>4, <1>5, MoveKeeps DEF CleanupPCs

LEMMA OpenPidfdKeeps ==
  ASSUME IInv, NEW c \in Controllers, OpenPidfd(c)
  PROVE  IInv'
<1>1. ctl[c] \in Control /\ PlayFits(ctl[c]) /\ ctl[c].pc = "d_pidfd"
  BY DEF IInv, TypeOK, CallInv, OpenPidfd, At
<1>2. CASE Collect(c)  BY <1>1, <1>2, CollectKeeps DEF CleanupPCs
<1>3. CASE /\ procs[Rec(c).pid] # NoProc
           /\ Local(c, [ctl[c] EXCEPT !.pc = "d_reown", !.child = procs[Rec(c).pid].start])
  <2>. DEFINE s == procs[Rec(c).pid].start
              x == [ctl[c] EXCEPT !.pc = "d_reown", !.child = s]
  <2>1. s \in 0..MaxStarts
    <3>1. Rec(c).pid \in Pids
      BY <1>1, PCs DEF IInv, CallInv, CallReady, Calling, LockedPCs, CallPCs
    <3>2. procs[Rec(c).pid] \in Process  BY <1>3, <3>1 DEF IInv, TypeOK
    <3>. QED  BY <3>2, SetsAssumption DEF Process
  <2>2. /\ x \in Control /\ x.pc = "d_reown" /\ x.play = ctl[c].play
        /\ x.todo = ctl[c].todo /\ x.failed = ctl[c].failed
    <3>. HIDE DEF s
    <3>1. "d_reown" \in PlayPCs \cup LockedPCs  BY PCs DEF CallPCs
    <3>. QED  BY <1>1, <2>1, <3>1 DEF Control
  <2>3. PlayFits(x)
    BY <1>1, <2>2 DEF PlayFits, CreatePCs, CreateCalls, DestroyPCs, CleanupPCs, SavePCs
  <2>4. TypeOS' /\ Become(c, x) /\ UNCHANGED <<store, lock, copies>>
    BY <1>3, TypeHalves, OSKept DEF IInv, Local, files, os
  <2>. HIDE DEF x
  <2>. QED  BY <1>1, <2>2, <2>3, <2>4, MoveKeeps DEF CleanupPCs
<1>. QED  BY <1>2, <1>3 DEF OpenPidfd

LEMMA SignalKeeps ==
  ASSUME IInv, NEW c \in Controllers, NEW stage \in {"terminating", "killed"},
         NEW pc \in CleanupPCs \ {"d_pidfd"}, Signal(c, stage, pc), ctl[c].pc \in CleanupPCs
  PROVE  IInv'
<1>1. CASE Collect(c)  BY <1>1, CollectKeeps
<1>2. CASE /\ procs' = [p \in Pids |-> IF p \in PidfdTarget(c)
                          THEN [procs[p] EXCEPT !.stage = stage] ELSE procs[p]]
           /\ Goto(c, pc)
           /\ UNCHANGED <<store, lock, copies, files, clock, foreign, gens, faults>>
  <2>1. \A p \in PidfdTarget(c) : procs[p] \in Process /\ [procs[p] EXCEPT !.stage = stage] \in Process
    <3>1. \A p \in PidfdTarget(c) : procs[p] \in Process
      BY DEF IInv, TypeOK, PidfdTarget
    <3>. QED  BY <3>1 DEF Process
  <2>2. procs' \in [Pids -> Process \cup {NoProc}]
    BY <1>2, <2>1 DEF IInv, TypeOK
  <2>3. TypeOS'  BY <1>2, <2>2 DEF IInv, TypeOK, TypeOS, files
  <2>. QED  BY <1>2, <2>3, GotoKeeps
<1>. QED  BY <1>1, <1>2 DEF Signal

LEMMA RemoveFilesKeeps ==
  ASSUME IInv, NEW c \in Controllers, RemoveFiles(c)
  PROVE  IInv'
<1>1. ctl[c].pc = "d_files" /\ RunOf[c] \in Runs /\ ctl[c].host \in Hosts
  BY SetsAssumption DEF IInv, TypeOK, RemoveFiles, At, Control
<1>2. TypeOS'
  BY <1>1, Zero DEF IInv, TypeOK, TypeOS, RemoveFiles, os
<1>. QED  BY <1>1, <1>2, GotoKeeps DEF RemoveFiles, CleanupPCs

\* The guest is marked removed and its ports released in one save.
LEMMA RemoveDiskKeeps ==
  ASSUME IInv, NEW c \in Controllers, RemoveDisk(c)
  PROVE  IInv'
<1>. DEFINE h == ctl[c].host
            x == [ctl[c] EXCEPT !.then = "d_next", !.child = 0, !.todo = ctl[c].todo \ {h}]
            n == SetStatus(c, "removed")
            t == Released(res[c], Own(c), n)
<1>1. /\ ctl[c] \in Control /\ PlayFits(ctl[c]) /\ ctl[c].pc = "d_disk" /\ CallInv(c)
  BY DEF IInv, TypeOK, CallInv, RemoveDisk, At
<1>2. Calling(c) /\ ctl[c].play = "destroy" /\ Cleaning(ctl[c])
  BY <1>1, PCs DEF Calling, LockedPCs, CallPCs, PlayFits, DestroyPCs, CleanupPCs, Cleaning
<1>3. /\ mem[c] # NoManifest /\ mem[c] \in Manifest /\ res[c] \in Reservations /\ Own(c) \in Owner
      /\ RunOf[c] \in Runs /\ h \in Hosts
  BY <1>1, <1>2, OwnType, SetsAssumption DEF IInv, TypeOK, CallInv, CallReady, Control
<1>4. /\ x \in Control /\ x.play = "destroy" /\ x.then = "d_next"
      /\ x.todo = ctl[c].todo \ {h} /\ x.failed = ctl[c].failed
  <2>1. "d_next" \in AfterSave  BY DEF AfterSave, CallPCs
  <2>. QED  BY <1>1, <1>2, <2>1, Zero DEF Control
<1>5. /\ n \in Manifest /\ n.gen = mem[c].gen /\ n.rec[h].status = "removed"
      /\ \A g \in Hosts \ {h} : n.rec[g] = mem[c].rec[g]
  <2>1. mem[c].rec[h] \in Record /\ mem[c].rec \in [Hosts -> Record]  BY <1>3 DEF Manifest
  <2>2. [mem[c].rec[h] EXCEPT !.status = "removed"] \in Record
        /\ [mem[c].rec[h] EXCEPT !.status = "removed"].status = "removed"
    BY <2>1 DEF Record, Statuses
  <2>. QED  BY <1>3, <2>1, <2>2 DEF SetStatus, Manifest
<1>6. /\ mem' = [mem EXCEPT ![c] = n] /\ res' = [res EXCEPT ![c] = t]
      /\ Become(c, [x EXCEPT !.pc = "save"]) /\ UNCHANGED <<store, lock>>
  <2>1. ctl' = [ctl EXCEPT ![c] = [x EXCEPT !.pc = "save"]]
    BY <1>1 DEF RemoveDisk, Become, Control
  <2>. QED  BY <2>1 DEF RemoveDisk, Become
<1>7. TypeOS'
  BY <1>3 DEF IInv, TypeOK, TypeOS, RemoveDisk, os
<1>. HIDE DEF x, n
<1>8. PlayFits([x EXCEPT !.pc = "save"])
  <2>1. [x EXCEPT !.pc = "save"].pc = "save" /\ [x EXCEPT !.pc = "save"].play = "destroy"
        /\ [x EXCEPT !.pc = "save"].then = "d_next"
    BY <1>4 DEF Control
  <2>. QED  BY <2>1 DEF PlayFits, CreatePCs, CreateCalls, DestroyPCs, CleanupPCs, SavePCs
<1>9. manifest[RunOf[c]] # NoManifest => n.gen = manifest[RunOf[c]].gen
  BY <1>1, <1>2, <1>5 DEF CallInv, SameGeneration
<1>10. /\ t \in Reservations /\ Compatible(t)
       /\ \A k \in Key : t[k] # NoOne => t[k] = res[c][k] /\ (t[k] = Own(c) => k \in ActiveKeys(n))
  BY <1>1, <1>2, <1>3, ReleasedTable DEF CallInv, CopiesCompatible
<1>. HIDE DEF t
<1>11. NamedBy(c, n, t)
  <2>1. NamedBy(c, mem[c], res[c])  BY <1>1, <1>2 DEF CallInv, CopiesNamed
  <2>. QED  BY <1>3, <1>5, <1>10, <2>1, SentinelAssumption DEF NamedBy
<1>12. Dealt(c, x, n, t)
  <2>1. Dealt(c, ctl[c], mem[c], res[c])  BY <1>1, <1>2 DEF CallInv, CleanedUp
  <2>2. x.failed = FALSE => \A g \in Hosts \ x.todo : n.rec[g].status = "removed"
    BY <1>4, <1>5, <2>1 DEF Dealt
  <2>3. \A k \in Key : t[k] = [run |-> RunOf[c], gen |-> n.gen] => k \in ActiveKeys(n)
    BY <1>3, <1>5, <1>10, SentinelAssumption DEF Own
  <2>. QED  BY <1>4, <2>2, <2>3 DEF Dealt, Control
<1>. QED
  BY <1>1, <1>2, <1>3, <1>4, <1>5, <1>6, <1>7, <1>8, <1>9, <1>10, <1>11, <1>12, SavingKeeps

\* When no guest is left, neither is any reservation of the run, so that the
\* manifest is needed no more (qemu_runtime.py:551-561).
LEMMA RemoveManifestKeeps ==
  ASSUME IInv, NEW c \in Controllers, RemoveManifest(c)
  PROVE  IInv'
<1>. USE DEF IInv, Goto, Become
<1>. DEFINE x == [ctl[c] EXCEPT !.pc = "d_release"]
<1>1. /\ ctl[c] \in Control /\ PlayFits(ctl[c]) /\ ctl[c].pc = "d_next" /\ CallInv(c)
      /\ ctl[c].todo = {} /\ ~ctl[c].failed /\ RunOf[c] \in Runs
  <2>1. ctl[c].pc = "d_next" /\ ctl[c].todo = {} /\ ~ctl[c].failed
    BY Zenon DEF RemoveManifest, At
  <2>2. ctl[c] \in Control /\ CallInv(c) /\ RunOf[c] \in Runs
    BY SetsAssumption DEF TypeOK
  <2>. QED  BY <2>1, <2>2 DEF CallInv
<1>2. Calling(c) /\ lock = c /\ mem[c] # NoManifest /\ ctl[c].play = "destroy"
  <2>1. Calling(c)  BY <1>1, PCs DEF Calling, LockedPCs, CallPCs
  <2>2. lock = c /\ mem[c] # NoManifest  BY <1>1, <2>1 DEF CallInv, CallReady
  <2>. QED  BY <1>1, <2>1, <2>2 DEF PlayFits, DestroyPCs, CleanupPCs
<1>3. x \in Control /\ x.pc = "d_release" /\ x.play = "destroy"
  <2>1. "d_release" \in PlayPCs \cup LockedPCs  BY PCs DEF CallPCs
  <2>. QED  BY <1>1, <1>2, <2>1 DEF Control
<1>4. ctl' = [ctl EXCEPT ![c] = x]  BY DEF RemoveManifest
<1>. HIDE DEF x
<1>5. ctl'[c] = x /\ \A d \in Controllers \ {c} : ctl'[d] = ctl[d]
  BY <1>4 DEF TypeOK
<1>6. /\ reservations' = reservations /\ lock' = lock /\ mem' = mem /\ res' = res
      /\ manifest' = [manifest EXCEPT ![RunOf[c]] = NoManifest]
  BY DEF RemoveManifest, copies
<1>7. \A r \in Runs \ {RunOf[c]} : manifest'[r] = manifest[r]
  BY <1>1, <1>6 DEF TypeOK
<1>8. \A k \in Key : res[c][k] # NoOne => res[c][k].run # RunOf[c] /\ Named(res[c][k])
  <2>1. Dealt(c, ctl[c], mem[c], res[c])
    BY <1>1 DEF CallInv, CleanedUp, Cleaning, CleanupPCs
  <2>2. \A k : k \notin ActiveKeys(mem[c])
    BY <1>1, <1>2, <2>1, ActiveKey DEF Dealt
  <2>3. \A k \in Key : res[c][k] # [run |-> RunOf[c], gen |-> mem[c].gen]
    BY <1>1, <2>1, <2>2, SetsAssumption DEF Dealt
  <2>. QED  BY <1>1, <1>2, <2>3 DEF CallInv, CopiesNamed, NamedBy
<1>9. res[c] = reservations
  BY <1>1, <1>2 DEF CallInv, Synced, SavePCs
<1>10. \A k \in Key : res[c][k] # NoOne => Named(res[c][k])' /\ res[c][k].run # RunOf[c]
  <2>. SUFFICES ASSUME NEW k \in Key, res[c][k] # NoOne
                PROVE  /\ manifest'[res[c][k].run] # NoManifest
                       /\ manifest'[res[c][k].run].gen = res[c][k].gen
                       /\ res[c][k].run # RunOf[c]
    BY <1>6 DEF Named
  <2>1. res[c][k] \in Owner  BY DEF TypeOK, Reservations
  <2>2. res[c][k].run \in Runs  BY <2>1 DEF Owner
  <2>. QED  BY <1>7, <1>8, <2>2 DEF Named
<1>11. TypeOK'
  <2>1. TypeCalls'  BY <1>1, <1>3, <1>4, <1>6 DEF TypeOK, TypeCalls
  <2>2. TypeOS'  BY TypeHalves, OSKept DEF RemoveManifest, files, os
  <2>. QED  BY <2>1, <2>2, TypeHalves
<1>12. ASSUME NEW d \in Controllers, d # c PROVE CallInv(d)'
  <2>1. ~Calling(d)  BY <1>2, <1>12 DEF CallInv, CallReady
  <2>. QED  BY <1>5, <1>6, <1>12, <2>1, OthersKeep
<1>13. CallInv(c)'
  <2>1. PlayFits(ctl[c])'
    BY <1>3, <1>5 DEF PlayFits, CreatePCs, CreateCalls, DestroyPCs, CleanupPCs, SavePCs
  <2>2. CallReady(c)' /\ SameGeneration(c)' /\ Synced(c)'
    BY <1>2, <1>3, <1>5, <1>6, <1>9 DEF CallReady, SameGeneration, Synced, SavePCs
  <2>3. CopiesNamed(c)'
    BY <1>6, <1>10 DEF CopiesNamed, NamedBy, Named
  <2>4. CopiesCompatible(c)'
    BY <1>1, <1>2, <1>6 DEF CallInv, CopiesCompatible, Compatible, Conflicts
  <2>5. CleanedUp(c)'
    BY <1>3, <1>5 DEF CleanedUp, Cleaning, CleanupPCs, SavePCs
  <2>. QED  BY <2>1, <2>2, <2>3, <2>4, <2>5 DEF CallInv
<1>14. ReservationsHaveManifest'
  BY <1>6, <1>9, <1>10 DEF ReservationsHaveManifest, Named
<1>15. ReservationsCompatible'  BY <1>6 DEF ReservationsCompatible, Conflicts
<1>. QED  BY <1>11, <1>12, <1>13, <1>14, <1>15

LEMMA ReleaseAllKeeps ==
  ASSUME IInv, NEW c \in Controllers, ReleaseAll(c)
  PROVE  IInv'
<1>. USE DEF IInv, Become
<1>. DEFINE t == Released(res[c], Own(c), NoManifest)
<1>1. ctl[c].pc = "d_release" /\ CallInv(c) /\ Calling(c) /\ res[c] \in Reservations
  BY DEF TypeOK, ReleaseAll, At, Calling, LockedPCs, CallPCs
<1>2. lock = c /\ mem[c] # NoManifest /\ res[c] = reservations
  BY <1>1 DEF CallInv, CallReady, Synced, SavePCs
<1>3. /\ ctl' = [ctl EXCEPT ![c] = IdleControl] /\ lock' = NoOne
      /\ mem' = [mem EXCEPT ![c] = NoManifest]
      /\ res' = [res EXCEPT ![c] = [k \in Key |-> NoOne]]
      /\ manifest' = manifest /\ reservations' = t
  BY DEF ReleaseAll, Unlock
<1>4. /\ t \in Reservations /\ \A k \in Key : t[k] # NoOne => t[k] = reservations[k]
  BY <1>1, <1>2, OwnType, ReleasedTable
<1>. HIDE DEF t
<1>5. /\ ctl'[c] = IdleControl
      /\ \A d \in Controllers \ {c} : ctl'[d] = ctl[d] /\ mem'[d] = mem[d] /\ res'[d] = res[d]
  BY <1>3 DEF TypeOK
<1>6. TypeOK'
  <2>1. TypeCalls'
    <3>1. [k \in Key |-> NoOne] \in Reservations  BY DEF Reservations
    <3>. QED  BY <1>3, <1>4, <3>1, IdleType DEF TypeOK, TypeCalls
  <2>2. TypeOS'  BY TypeHalves, OSKept DEF ReleaseAll, files, os
  <2>. QED  BY <2>1, <2>2, TypeHalves
<1>7. ASSUME NEW d \in Controllers, d # c PROVE CallInv(d)'
  <2>1. ~Calling(d)  BY <1>2, <1>7 DEF CallInv, CallReady
  <2>. QED  BY <1>5, <1>7, <2>1, OthersKeep
<1>8. CallInv(c)'
  <2>1. ~Calling(c)' /\ ctl'[c].pc # "publish" /\ ctl'[c].pc \notin SavePCs /\ ~Cleaning(ctl[c])'
    BY <1>5, IdleFits DEF Calling, Cleaning, LockedPCs, CallPCs, SavePCs, CleanupPCs
  <2>2. PlayFits(ctl[c])'  BY <1>5, IdleFits DEF PlayFits
  <2>. QED
    BY <2>1, <2>2 DEF CallInv, CallReady, SameGeneration, Synced, CopiesNamed,
                      CopiesCompatible, CleanedUp
<1>9. ReservationsHaveManifest'
  BY <1>3, <1>4 DEF ReservationsHaveManifest
<1>10. ReservationsCompatible'
  BY <1>3, <1>4 DEF ReservationsCompatible, Conflicts
<1>. QED  BY <1>6, <1>7, <1>8, <1>9, <1>10

-------------------------------------------------------------------------------
(* QEMU, unrelated programs and crashes                                    *)

LEMMA Reported ==
  ASSUME IInv, NEW s, NEW pc \in {"l_rc0", "l_in_use", "l_failed"}, Report(s, pc)
  PROVE  /\ ctl' \in [Controllers -> Control]
         /\ \A c \in Controllers :
              \/ ctl'[c] = ctl[c]
              \/ /\ ctl[c].pc = "l_wait" /\ ctl'[c].pc \in {"l_rc0", "l_in_use", "l_failed"}
                 /\ ctl'[c].play = ctl[c].play
<1>1. pc \in PlayPCs \cup LockedPCs  BY PCs DEF CallPCs
<1>2. \A c \in Controllers : ctl[c] \in Control  BY DEF IInv, TypeOK
<1>3. \A c \in Controllers : /\ [ctl[c] EXCEPT !.pc = pc] \in Control
                             /\ [ctl[c] EXCEPT !.pc = pc].pc = pc
                             /\ [ctl[c] EXCEPT !.pc = pc].play = ctl[c].play
  BY <1>1, <1>2 DEF Control
<1>. QED  BY <1>2, <1>3 DEF Report, At

LEMMA QemuType ==
  ASSUME TypeOS, NEW p \in Pids, IsQemu(p)
  PROVE  /\ procs[p] \in Process /\ procs[p].vm.run \in Runs /\ procs[p].vm.host \in Hosts
         /\ procs[p].start \in 0..MaxStarts
         /\ \A stage \in {"booting", "ready"} : [procs[p] EXCEPT !.stage = stage] \in Process
<1>1. procs[p] \in Process /\ procs[p].vm \in VM
  BY DEF TypeOS, IsQemu, Process
<1>2. procs[p].vm.run \in Runs /\ procs[p].vm.host \in Hosts  BY <1>1 DEF VM
<1>3. procs[p].start \in 0..MaxStarts  BY <1>1, SetsAssumption DEF Process
<1>4. \A stage \in {"booting", "ready"} : [procs[p] EXCEPT !.stage = stage] \in Process
  BY <1>1 DEF Process
<1>. QED  BY <1>1, <1>2, <1>3, <1>4

LEMMA GoneType ==
  ASSUME TypeOS, NEW p \in Pids, IsQemu(p), NEW tidy \in BOOLEAN, NEW socket \in 0..MaxStarts,
         Gone(p, tidy, socket), faults' \in 0..MaxFaults
  PROVE  TypeOS'
<1>1. procs[p].vm.run \in Runs /\ procs[p].vm.host \in Hosts  BY QemuType
<1>2. procs' \in [Pids -> Process \cup {NoProc}]  BY DEF Gone, TypeOS
<1>3. sock' \in [Runs -> [Hosts -> 0..MaxStarts]]  BY <1>1 DEF Gone, TypeOS
<1>4. pidfile' \in [Runs -> [Hosts -> Pids \cup {NoOne}]]  BY <1>1 DEF Gone, TypeOS
<1>. QED  BY <1>2, <1>3, <1>4 DEF Gone, TypeOS

LEMMA QemuStepKeeps ==
  ASSUME IInv, NEW p \in Pids, QemuStep(p)
  PROVE  IInv'
<1>1. TypeOS /\ faults \in 0..MaxFaults  BY TypeHalves DEF IInv, TypeOS
<1>2. IsQemu(p)
  BY DEF QemuStep, QemuPidfile, QemuReady, QemuInUse, QemuBroken, QemuExit, QemuKilled
<1>3. /\ procs[p].vm.run \in Runs /\ procs[p].vm.host \in Hosts /\ procs[p].start \in 0..MaxStarts
      /\ \A stage \in {"booting", "ready"} : [procs[p] EXCEPT !.stage = stage] \in Process
  BY <1>1, <1>2, QemuType
<1>4. sock[procs[p].vm.run][procs[p].vm.host] \in 0..MaxStarts /\ FailedSocket(p) \in 0..MaxStarts
  BY <1>1, <1>3 DEF TypeOS, FailedSocket
<1>5. TRUE \in BOOLEAN /\ FALSE \in BOOLEAN /\ 0 \in 0..MaxStarts  BY Zero
<1>6. TypeOK  BY DEF IInv
<1>7. CASE QemuPidfile(p)
  <2>1. TypeOS'  BY <1>1, <1>3, <1>7 DEF QemuPidfile, TypeOS
  <2>2. ctl' = ctl /\ UNCHANGED <<store, lock, copies>>  BY <1>7 DEF QemuPidfile
  <2>. QED  BY <1>6, <2>1, <2>2, WorldKeeps DEF TypeOK
<1>8. CASE QemuReady(p)
  <2>1. TypeOS'  BY <1>1, <1>3, <1>8 DEF QemuReady, TypeOS
  <2>. QED  BY <1>8, <2>1, Reported, WorldKeeps DEF QemuReady
<1>9. CASE QemuInUse(p)
  <2>1. TypeOS'  BY <1>1, <1>2, <1>4, <1>5, <1>9, GoneType DEF QemuInUse
  <2>. QED  BY <1>9, <2>1, Reported, WorldKeeps DEF QemuInUse, Gone
<1>10. CASE QemuBroken(p)
  <2>1. TypeOS'  BY <1>1, <1>2, <1>4, <1>5, <1>10, GoneType DEF QemuBroken
  <2>. QED  BY <1>10, <2>1, Reported, WorldKeeps DEF QemuBroken, Gone
<1>11. CASE QemuExit(p)
  <2>1. faults' \in 0..MaxFaults  BY <1>1, <1>11, FaultType DEF QemuExit
  <2>2. TypeOS'  BY <1>1, <1>2, <1>4, <1>5, <1>11, <2>1, GoneType DEF QemuExit
  <2>3. ctl' = ctl /\ UNCHANGED <<store, lock, copies>>  BY <1>11 DEF QemuExit, Gone
  <2>. QED  BY <1>6, <2>2, <2>3, WorldKeeps DEF TypeOK
<1>12. CASE QemuKilled(p)
  <2>1. faults' \in 0..MaxFaults  BY <1>1, <1>12, FaultType DEF QemuKilled
  <2>2. TypeOS'  BY <1>1, <1>2, <1>4, <1>5, <1>12, <2>1, GoneType DEF QemuKilled
  <2>. QED  BY <1>12, <2>2, Reported, WorldKeeps DEF QemuKilled, Gone
<1>. QED  BY <1>7, <1>8, <1>9, <1>10, <1>11, <1>12 DEF QemuStep

LEMMA ForeignKeeps ==
  ASSUME IInv,
         \/ \E p \in Pids : ForeignStart(p) \/ ForeignExit(p)
         \/ \E k \in ForeignKeys : ForeignBind(k) \/ ForeignUnbind(k)
         \/ \E r \in Runs, h \in Hosts : Inspect(r, h)
  PROVE  IInv'
<1>1. TypeOK /\ TypeOS /\ faults \in 0..MaxFaults  BY TypeHalves DEF IInv, TypeOS
<1>2. ctl' = ctl /\ UNCHANGED <<store, lock, copies>>
  BY DEF ForeignStart, ForeignExit, ForeignBind, ForeignUnbind, Inspect
<1>3. ASSUME NEW p \in Pids, ForeignStart(p) PROVE TypeOS'
  <2>1. faults' \in 0..MaxFaults  BY <1>1, <1>3, FaultType DEF ForeignStart
  <2>2. clock + 1 \in 1..MaxStarts /\ clock' \in 0..MaxStarts
    BY <1>1, <1>3, SetsAssumption DEF ForeignStart, TypeOS
  <2>3. [vm |-> Foreign, start |-> clock + 1, stage |-> "ready", keys |-> {}] \in Process
    BY <2>2 DEF Process
  <2>. QED  BY <1>1, <1>3, <2>1, <2>2, <2>3 DEF ForeignStart, TypeOS, files
<1>4. ASSUME NEW p \in Pids, ForeignExit(p) PROVE TypeOS'
  BY <1>1, <1>4 DEF ForeignExit, TypeOS, files
<1>5. ASSUME NEW k \in ForeignKeys, ForeignBind(k) PROVE TypeOS'
  <2>1. faults' \in 0..MaxFaults  BY <1>1, <1>5, FaultType DEF ForeignBind
  <2>. QED  BY <1>1, <1>5, <2>1, SetsAssumption DEF ForeignBind, TypeOS, files
<1>6. ASSUME NEW k \in ForeignKeys, ForeignUnbind(k) PROVE TypeOS'
  BY <1>1, <1>6 DEF ForeignUnbind, TypeOS, files
<1>7. ASSUME NEW r \in Runs, NEW h \in Hosts, Inspect(r, h) PROVE TypeOS'
  <2>1. sock' \in [Runs -> [Hosts -> 0..MaxStarts]]  BY <1>1, <1>7, Zero DEF Inspect, TypeOS
  <2>. QED  BY <1>1, <1>7, <2>1 DEF Inspect, TypeOS, os
<1>8. TypeOS'  BY <1>3, <1>4, <1>5, <1>6, <1>7
<1>. QED  BY <1>1, <1>2, <1>8, WorldKeeps DEF TypeOK

LEMMA CrashKeeps ==
  ASSUME IInv, NEW c \in Controllers, Crash(c)
  PROVE  IInv'
<1>1. TypeOS /\ faults \in 0..MaxFaults  BY TypeHalves DEF IInv, TypeOS
<1>2. faults' \in 0..MaxFaults  BY <1>1, FaultType DEF Crash
<1>3. TypeOS'  BY <1>1, <1>2 DEF Crash, TypeOS, files, os
<1>4. IdleControl.pc \notin LockedPCs  BY IdleFits DEF LockedPCs, CallPCs, SavePCs
<1>5. UNCHANGED store /\ Become(c, IdleControl)
      /\ mem' = [mem EXCEPT ![c] = NoManifest]
      /\ res' = [res EXCEPT ![c] = [k \in Key |-> NoOne]]
      /\ (lock' = lock \/ (lock = c /\ lock' = NoOne))
  BY DEF Crash
<1>. QED  BY <1>3, <1>4, <1>5, IdleType, IdleFits, LeaveKeeps

\* owned() or recover_launch() fails: the call, or the cleanup of one guest.
LEMMA QmpTimeoutKeeps ==
  ASSUME IInv, NEW c \in Controllers, QmpTimeout(c)
  PROVE  IInv'
<1>1. TypeOS /\ faults \in 0..MaxFaults  BY TypeHalves DEF IInv, TypeOS
<1>2. faults' \in 0..MaxFaults  BY <1>1, FaultType DEF QmpTimeout
<1>3. PlayFits(ctl[c]) /\ ctl[c].pc \in {"l_owned", "l_verify", "d_check", "d_reown", "launch", "l_rc0", "d_recover"}
  BY DEF IInv, CallInv, QmpTimeout
<1>4. Calling(c)  BY <1>3 DEF Calling, LockedPCs, CallPCs
<1>5. CASE ctl[c].play = "create" /\ Return(c, IdleControl)
  <2>1. TypeOS'  BY <1>1, <1>2, <1>5 DEF Return, TypeOS, files, os
  <2>2. IdleControl.pc \notin LockedPCs  BY IdleFits DEF LockedPCs, CallPCs, SavePCs
  <2>. QED  BY <1>4, <1>5, <2>1, <2>2, IdleType, IdleFits, ReturnKeeps
<1>6. CASE /\ ctl[c].play # "create" /\ Become(c, Collected(c))
           /\ UNCHANGED <<store, lock, copies, files, os, gens>>
  <2>1. TypeOS'  BY <1>1, <1>2, <1>6 DEF TypeOS, files, os
  <2>2. ctl[c].pc \in CleanupPCs
    BY <1>3, <1>6 DEF PlayFits, CreatePCs, CreateCalls, CleanupPCs
  <2>. QED  BY <1>6, <2>1, <2>2, CollectedKeeps
<1>. QED  BY <1>5, <1>6 DEF QmpTimeout

-------------------------------------------------------------------------------
(* The invariant                                                           *)

LEMMA InitIInv == Init => IInv
<1>. SUFFICES ASSUME Init PROVE IInv  OBVIOUS
<1>. USE DEF Init
<1>1. TypeOK
  BY IdleType, Zero, SetsAssumption DEF TypeOK, Reservations
<1>2. ReservationsHaveManifest /\ ReservationsCompatible
  BY DEF ReservationsHaveManifest, ReservationsCompatible
<1>3. ASSUME NEW c \in Controllers PROVE CallInv(c)
  <2>1. /\ ctl[c] = IdleControl /\ ~Calling(c) /\ ctl[c].pc # "publish" /\ ctl[c].pc \notin SavePCs
        /\ ~Cleaning(ctl[c])
    BY IdleFits DEF Calling, Cleaning, LockedPCs, CallPCs, SavePCs, CleanupPCs
  <2>. QED
    BY <2>1, IdleFits DEF CallInv, CallReady, SameGeneration, Synced, CopiesNamed,
                          CopiesCompatible, CleanedUp
<1>. QED  BY <1>1, <1>2, <1>3 DEF IInv

LEMMA CreateCallKeeps ==
  ASSUME IInv, NEW c \in Controllers,
         \/ ReserveConflict(c) \/ ReserveRefused(c)
         \/ Launch(c) \/ LaunchRefused(c) \/ LaunchOwned(c) \/ SpawnRefused(c)
         \/ Daemonized(c) \/ DaemonizedUnverified(c) \/ LaunchVerify(c)
         \/ RetryRefused(c) \/ LaunchFailed(c) \/ OldBindError(c)
  PROVE  IInv'
<1>. USE DEF At
<1>1. ctl[c].pc \in CreateCalls
  BY DEF ReserveConflict, ReserveRefused, Launch, LaunchRefused, LaunchOwned, SpawnRefused,
         Daemonized, DaemonizedUnverified, LaunchVerify, RetryRefused, LaunchFailed, OldBindError,
         RecoverAt, CreateCalls
<1>2. Calling(c) /\ CallInv(c)  BY <1>1, PCs DEF IInv, Calling, LockedPCs
<1>3. CASE Fail(c)  BY <1>2, <1>3, FailKeeps
<1>4. CASE Launched(c)  BY <1>1, <1>4, LaunchedKeeps
<1>5. ASSUME ctl[c].pc = "l_owned", Move(c, "l_unlink") PROVE IInv'
  <2>1. mem[c] # NoManifest  BY <1>2, <1>5 DEF CallInv, CallReady
  <2>. QED  BY <1>5, <2>1, MoveOnKeeps DEF CreateCalls
<1>6. CASE Launch(c)  BY <1>6, RecoverKeeps DEF Launch
<1>7. CASE Daemonized(c)
  <2>1. mem[c] # NoManifest
    BY <1>2, <1>7 DEF CallInv, CallReady, Daemonized, RecoverAt
  <2>. QED  BY <1>7, <2>1, RecoverKeeps DEF Daemonized
<1>8. CASE LaunchOwned(c)
  <2>1. OwnedBy(c) \in {"yes", "no", "error"}  BY DEF OwnedBy, Owned
  <2>. QED  BY <1>3, <1>4, <1>5, <1>8, <2>1 DEF LaunchOwned
<1>9. CASE LaunchVerify(c)  BY <1>3, <1>4, <1>9 DEF LaunchVerify
<1>10. CASE OldBindError(c)
  <2>1. mem[c] # NoManifest  BY <1>2, <1>10 DEF CallInv, CallReady, OldBindError
  <2>. QED  BY <1>10, <2>1, MoveOnKeeps DEF OldBindError, CreateCalls
<1>. QED
  BY <1>3, <1>6, <1>7, <1>8, <1>9, <1>10
  DEF ReserveConflict, ReserveRefused, LaunchRefused, SpawnRefused, DaemonizedUnverified,
      RetryRefused, LaunchFailed

LEMMA DestroyCallKeeps ==
  ASSUME IInv, NEW c \in Controllers,
         \/ DestroyNothing(c) \/ DestroyIncomplete(c) \/ DestroyRecover(c) \/ DestroyUncertain(c)
         \/ DestroyCheck(c) \/ CheckAgain(c) \/ Terminate(c) \/ Exited(c)
         \/ TimeoutKill(c) \/ KillTimeout(c) \/ ArtifactRetained(c)
  PROVE  IInv'
<1>. USE DEF At
<1>1. CallInv(c) /\ TypeOS /\ faults \in 0..MaxFaults  BY TypeHalves DEF IInv, TypeOS
<1>2. CASE DestroyNothing(c) \/ DestroyIncomplete(c)
  <2>1. Calling(c)  BY <1>2 DEF DestroyNothing, DestroyIncomplete, Calling, LockedPCs, CallPCs
  <2>. QED  BY <1>2, <2>1, FailKeeps DEF DestroyNothing, DestroyIncomplete
<1>3. CASE DestroyRecover(c)
  <2>1. Calling(c) /\ ctl[c].pc = "d_recover"
    BY <1>3 DEF DestroyRecover, RecoverAt, Calling, LockedPCs, CallPCs
  <2>2. mem[c] # NoManifest  BY <1>1, <2>1 DEF CallInv, CallReady
  <2>. QED  BY <1>3, <2>2, RecoverKeeps DEF DestroyRecover
<1>4. CASE DestroyUncertain(c)  BY <1>4, CollectKeeps DEF DestroyUncertain, CleanupPCs
<1>5. CASE DestroyCheck(c)
  <2>1. CASE Collect(c)  BY <1>5, <2>1, CollectKeeps DEF DestroyCheck, CleanupPCs
  <2>2. CASE Move(c, IF OwnedBy(c) = "yes" THEN "d_pidfd" ELSE "d_files")
    <3>1. ctl[c].pc = "d_check" /\ Calling(c)
      BY <1>5 DEF DestroyCheck, Calling, LockedPCs, CallPCs
    <3>2. mem[c] \in Manifest /\ ctl[c].host \in Hosts
      BY <1>1, <3>1, OwnType DEF CallInv, CallReady, IInv, TypeOK, Control
    <3>3. mem[c].rec[ctl[c].host].pid \in Pids \cup {NoOne}
      BY <3>2 DEF Manifest, Record
    <3>4. OwnedBy(c) = "yes" => Rec(c).pid \in Pids
      BY <3>3 DEF OwnedBy, Owned, Rec
    <3>. QED  BY <2>2, <3>1, <3>4, MoveOnKeeps DEF CleanupPCs
  <2>. QED  BY <1>5, <2>1, <2>2 DEF DestroyCheck
<1>6. CASE CheckAgain(c)
  BY <1>6, CollectKeeps, MoveOnKeeps DEF CheckAgain, CleanupPCs
<1>7. CASE Terminate(c)  BY <1>7, SignalKeeps DEF Terminate, CleanupPCs
<1>8. CASE Exited(c)  BY <1>8, MoveOnKeeps DEF Exited, CleanupPCs
<1>9. CASE TimeoutKill(c)  BY <1>9, SignalKeeps DEF TimeoutKill, CleanupPCs
<1>10. CASE KillTimeout(c) \/ ArtifactRetained(c)
  <2>1. /\ Become(c, Collected(c)) /\ Fault /\ UNCHANGED <<store, lock, copies, files, os, gens>>
        /\ ctl[c].pc \in CleanupPCs
    BY <1>10 DEF KillTimeout, ArtifactRetained, CleanupPCs
  <2>2. faults' \in 0..MaxFaults  BY <1>1, <2>1, FaultType
  <2>3. TypeOS'  BY <1>1, <2>1, <2>2 DEF TypeOS, files, os
  <2>. QED  BY <2>1, <2>3, CollectedKeeps
<1>. QED  BY <1>2, <1>3, <1>4, <1>5, <1>6, <1>7, <1>8, <1>9, <1>10

LEMMA StutterKeeps == IInv /\ UNCHANGED vars => IInv'
<1>. SUFFICES ASSUME IInv, UNCHANGED vars PROVE IInv'  OBVIOUS
<1>1. ctl' = ctl /\ ctl \in [Controllers -> Control] /\ UNCHANGED <<store, lock, copies>>
  BY DEF IInv, TypeOK, vars
<1>2. TypeOS'  BY TypeHalves, OSKept DEF IInv, vars, files, os
<1>. QED  BY <1>1, <1>2, WorldKeeps

\* Every step keeps the invariant.
LEMMA NextIInv == IInv /\ [Next]_vars => IInv'
<1>. SUFFICES ASSUME IInv, Next PROVE IInv'  BY StutterKeeps
<1>1. ASSUME NEW c \in Controllers, Play(c) PROVE IInv'
  BY <1>1, StartKeeps, EnterKeeps, MediaKeeps, StatusKeeps DEF Play
<1>2. ASSUME NEW c \in Controllers, Call(c) PROVE IInv'
  BY <1>2, SaveManifestKeeps, SaveReservationsKeeps, ReserveExistingKeeps, ReserveFreshKeeps,
     UnlinkPidfileKeeps, MarkLaunchingKeeps, SpawnKeeps, RetryPortsKeeps, CreateCallKeeps,
     DestroyBeginKeeps, DestroyNextKeeps, OpenPidfdKeeps, RemoveFilesKeeps, RemoveDiskKeeps,
     RemoveManifestKeeps, ReleaseAllKeeps, DestroyCallKeeps DEF Call
<1>3. ASSUME NEW p \in Pids, QemuStep(p) PROVE IInv'  BY <1>3, QemuStepKeeps
<1>4. CASE World  BY <1>4, ForeignKeeps, QmpTimeoutKeeps, CrashKeeps DEF World
<1>. QED  BY <1>1, <1>2, <1>3, <1>4 DEF Next

-------------------------------------------------------------------------------
(* Theorems                                                                *)

\* What is read and written stays well-formed: manifests, reservations, the lock
\* and the copies of every call (qemu_runtime.py:97-127).
THEOREM TypesKept == Spec => []TypeOK
<1>1. Init => IInv  BY InitIInv
<1>2. IInv /\ [Next]_vars => IInv'  BY NextIInv
<1>3. IInv => TypeOK  BY DEF IInv
<1>. QED  BY <1>1, <1>2, <1>3, PTL DEF Spec

\* save() "persists the manifest before publishing global reservations": whatever
\* dies between two writes, a published reservation has the manifest of the run
\* and generation that owns it, so that destroy can release it
\* (qemu_runtime.py:124-127).
THEOREM ReservationsReleasable == Spec => []ReservationsHaveManifest
<1>1. Init => IInv  BY InitIInv
<1>2. IInv /\ [Next]_vars => IInv'  BY NextIInv
<1>3. IInv => ReservationsHaveManifest  BY DEF IInv
<1>. QED  BY <1>1, <1>2, <1>3, PTL DEF Spec

\* Two reservations never stand in each other's way, wildcard addresses included,
\* across all runs and all interleavings of their calls (qemu_runtime.py:129-160).
THEOREM ReservationsExclude == Spec => []ReservationsCompatible
<1>1. Init => IInv  BY InitIInv
<1>2. IInv /\ [Next]_vars => IInv'  BY NextIInv
<1>3. IInv => ReservationsCompatible  BY DEF IInv
<1>. QED  BY <1>1, <1>2, <1>3, PTL DEF Spec

-------------------------------------------------------------------------------
(* What a run's plays agree on                                             *)

\* The runs that Ansible makes: one controller at a time works on a directory.
OneControllerPerRun == \A c, d \in Controllers : RunOf[c] = RunOf[d] => c = d

\* No controller dies between the two files of a save.
SavesWhole == "publish" \notin CrashPoints

BetweenCalls == {"media", "status_call", "launch_call"}
LaunchPCs == CreateCalls \ {"reserve"}

\* What every manifest of run r respects: explicit requests, and that guests are
\* removed by destroy alone.
Sound(r, m) == m # NoManifest =>
  /\ \A h \in Hosts, e \in Endpoints :
       Request[r][h][e].port # AutoPort => m.rec[h].keys[e] = Request[r][h][e]
  /\ \A h \in Hosts : m.rec[h].status = "removed" => m.destroying

\* Only while it is being saved does a call's copy differ from the manifest, and
\* what remains to be released has none.
Remembered(c) ==
  /\ (Calling(c) /\ ctl[c].pc \notin {"save", "d_release"}) => mem[c] = manifest[RunOf[c]]
  /\ At(c, "d_release") => manifest[RunOf[c]] = NoManifest

DestroyMarked(c) == Cleaning(ctl[c]) => mem[c].destroying

\* A create that has reserved works on a run that nobody destroys.
Creating(c) ==
  /\ ctl[c].pc \in BetweenCalls =>
       manifest[RunOf[c]] # NoManifest /\ ~manifest[RunOf[c]].destroying
  /\ (ctl[c].pc \in LaunchPCs \/ (ctl[c].pc \in SavePCs /\ ctl[c].play = "create")) =>
       mem[c] # NoManifest /\ ~mem[c].destroying

PlanOf(c) ==
  /\ Sound(RunOf[c], mem[c]) /\ Remembered(c) /\ DestroyMarked(c)
  /\ OneControllerPerRun => Creating(c)

PlanInv ==
  /\ \A r \in Runs : Sound(r, manifest[r])
  /\ \A c \in Controllers : PlanOf(c)

\* The endpoints of the guests of m that are not removed are reserved for it in t ...
Held(r, m, t) == \A h \in Hosts, e \in Endpoints :
  m.rec[h].status # "removed" => t[m.rec[h].keys[e]] = [run |-> r, gen |-> m.gen]

\* ... and do not stand in each other's way.
Apart(m) == \A g, h \in Hosts : \A d, e \in Endpoints :
  (<<g, d>> # <<h, e>> /\ m.rec[g].status # "removed" /\ m.rec[h].status # "removed") =>
    ~Conflicts(m.rec[g].keys[d], m.rec[h].keys[e])

Publishing(r) == \E c \in Controllers : RunOf[c] = r /\ ctl[c].pc = "publish"

StoreHeld(r) == manifest[r] # NoManifest =>
  Apart(manifest[r]) /\ (Publishing(r) \/ Held(r, manifest[r], reservations))
OthersHeld(c) == Calling(c) =>
  \A r \in Runs \ {RunOf[c]} : manifest[r] # NoManifest => Held(r, manifest[r], res[c])
OwnHeld(c) == (Calling(c) /\ mem[c] # NoManifest /\ ctl[c].pc # "d_release") =>
  Held(RunOf[c], mem[c], res[c]) /\ Apart(mem[c])
CopiesHeld(c) == OthersHeld(c) /\ OwnHeld(c)

HeldInv ==
  /\ \A r \in Runs : StoreHeld(r)
  /\ \A c \in Controllers : CopiesHeld(c)

LEMMA OneCalls ==
  ASSUME IInv, NEW c \in Controllers, NEW d \in Controllers, Calling(c), Calling(d)
  PROVE  c = d
BY DEF IInv, CallInv, CallReady

-------------------------------------------------------------------------------
(* The kinds of steps, by what they do to the tables                       *)

\* A controller goes on without touching the tables.
Moves(c, x) ==
  /\ Become(c, x) /\ UNCHANGED <<store, copies>>
  /\ \/ ctl[c].pc = "idle" /\ x.pc \in {"reserve_call", "destroy_call"}
     \/ ctl[c].pc \in BetweenCalls /\ x.pc \in BetweenCalls \cup {"idle"}
     \/ ctl[c].pc \in LaunchPCs /\ x.pc \in LaunchPCs
     \/ ctl[c].pc \in CleanupPCs /\ x.pc \in CleanupPCs

\* A call is over, or its controller dead: its copies are gone.
Leaves(c, x) ==
  /\ Become(c, x) /\ UNCHANGED store
  /\ mem' = [mem EXCEPT ![c] = NoManifest]
  /\ res' = [res EXCEPT ![c] = [k \in Key |-> NoOne]]
  /\ \/ x.pc = "idle" /\ (ctl[c].pc = "publish" => ~SavesWhole)
     \/ x.pc = "media" /\ ctl[c].pc = "reserve" /\ mem[c] # NoManifest /\ ~mem[c].destroying
     \/ x.pc = "status_call" /\ ctl[c].pc \in LaunchPCs

\* A call begins to save m and t.
Saves(c, x, m, t) ==
  /\ Become(c, x) /\ x.pc = "save" /\ UNCHANGED store
  /\ mem' = [mem EXCEPT ![c] = m] /\ res' = [res EXCEPT ![c] = t]
  /\ Calling(c) /\ ctl[c].pc \notin SavePCs \cup {"d_release"}
  /\ m # NoManifest
  /\ x.play = "destroy" => m.destroying
  /\ OneControllerPerRun /\ x.play = "create" => ~m.destroying

LEMMA PCKinds ==
  /\ BetweenCalls \cap LockedPCs = {} /\ "idle" \notin LockedPCs
  /\ {"reserve_call", "destroy_call"} \cap LockedPCs = {}
  /\ (LaunchPCs \cup CleanupPCs) \cap (SavePCs \cup BetweenCalls \cup {"d_release", "idle", "reserve"}) = {}
  /\ LaunchPCs \cap CleanupPCs = {} /\ BetweenCalls \cap SavePCs = {}
  /\ LaunchPCs \cup CleanupPCs \cup SavePCs \subseteq LockedPCs
  /\ {"idle", "reserve_call", "destroy_call", "reserve", "d_release", "destroy", "launch"}
       \cap (BetweenCalls \cup SavePCs \cup CleanupPCs) = {}
BY DEF BetweenCalls, LaunchPCs, CreateCalls, CleanupPCs, SavePCs, LockedPCs, CallPCs

\* What the plan of another controller rests on is its own, or protected by the
\* lock while it calls.
LEMMA OthersPlan ==
  ASSUME NEW d \in Controllers, PlanOf(d), ctl'[d] = ctl[d], mem'[d] = mem[d],
         \/ manifest'[RunOf[d]] = manifest[RunOf[d]]
         \/ ~Calling(d) /\ ~OneControllerPerRun
  PROVE  PlanOf(d)'
<1>1. Sound(RunOf[d], mem[d])' /\ DestroyMarked(d)'
  BY DEF PlanOf, Sound, DestroyMarked, Cleaning
<1>2. Remembered(d)'
  <2>1. At(d, "d_release") => Calling(d)  BY DEF At, Calling, LockedPCs, CallPCs
  <2>. QED  BY <2>1 DEF PlanOf, Remembered, Calling, At
<1>3. OneControllerPerRun => Creating(d)'
  BY DEF PlanOf, Creating
<1>. QED  BY <1>1, <1>2, <1>3 DEF PlanOf, OneControllerPerRun

LEMMA MovesPlan ==
  ASSUME IInv, PlanInv, NEW c \in Controllers, NEW x, Moves(c, x)
  PROVE  PlanInv'
<1>1. /\ ctl'[c] = x /\ \A d \in Controllers \ {c} : ctl'[d] = ctl[d]
      /\ manifest' = manifest /\ mem' = mem
  BY DEF Moves, Become, IInv, TypeOK, store, copies
<1>2. /\ Calling(c)' => Calling(c) /\ ctl[c].pc \notin {"save", "d_release"}
      /\ Cleaning(x) => Cleaning(ctl[c])
      /\ x.pc \in BetweenCalls => ctl[c].pc \in BetweenCalls
      /\ x.pc \in LaunchPCs => ctl[c].pc \in LaunchPCs
      /\ x.pc \notin SavePCs /\ x.pc # "d_release"
  BY <1>1, PCKinds DEF Moves, Calling, Cleaning, SavePCs
<1>3. ASSUME NEW d \in Controllers, d # c PROVE PlanOf(d)'
  BY <1>1, <1>3, OthersPlan DEF PlanInv
<1>4. PlanOf(c)  BY DEF PlanInv
<1>5. (Sound(RunOf[c], mem[c]) /\ Remembered(c) /\ DestroyMarked(c))'
  BY <1>1, <1>2, <1>4 DEF PlanOf, Remembered, DestroyMarked, Sound, At
<1>6. OneControllerPerRun => Creating(c)'
  BY <1>1, <1>2, <1>4 DEF PlanOf, Creating
<1>7. \A r \in Runs : Sound(r, manifest[r])'  BY <1>1 DEF PlanInv, Sound
<1>. QED  BY <1>3, <1>5, <1>6, <1>7 DEF PlanInv, PlanOf, OneControllerPerRun

LEMMA LeavesPlan ==
  ASSUME IInv, PlanInv, NEW c \in Controllers, NEW x, Leaves(c, x)
  PROVE  PlanInv'
<1>1. /\ ctl'[c] = x /\ mem'[c] = NoManifest /\ manifest' = manifest
      /\ \A d \in Controllers \ {c} : ctl'[d] = ctl[d] /\ mem'[d] = mem[d]
  BY DEF Leaves, Become, IInv, TypeOK, store
<1>2. /\ x.pc \notin LockedPCs /\ ~Cleaning(x) /\ x.pc \notin LaunchPCs \cup SavePCs /\ x.pc # "d_release"
      /\ x.pc \in BetweenCalls => x.pc \in {"media", "status_call"}
  BY DEF Leaves, LockedPCs, CallPCs, SavePCs, Cleaning, CleanupPCs, LaunchPCs, CreateCalls, BetweenCalls
<1>3. ASSUME NEW d \in Controllers, d # c PROVE PlanOf(d)'
  BY <1>1, <1>3, OthersPlan DEF PlanInv
<1>4. PlanOf(c)  BY DEF PlanInv
<1>5. (Sound(RunOf[c], mem[c]) /\ Remembered(c) /\ DestroyMarked(c))'
  BY <1>1, <1>2 DEF Sound, Remembered, Calling, DestroyMarked, At
<1>6. ASSUME OneControllerPerRun PROVE Creating(c)'
  <2>1. CASE x.pc = "idle"  BY <1>1, <1>2, <2>1 DEF Creating, BetweenCalls
  <2>2. CASE ctl[c].pc = "reserve" /\ mem[c] # NoManifest /\ ~mem[c].destroying
    <3>1. mem[c] = manifest[RunOf[c]]
      BY <1>4, <2>2 DEF PlanOf, Remembered, Calling, LockedPCs, CallPCs
    <3>. QED  BY <1>1, <1>2, <2>2, <3>1 DEF Creating
  <2>3. CASE ctl[c].pc \in LaunchPCs
    <3>1. mem[c] # NoManifest /\ ~mem[c].destroying
      BY <1>4, <1>6, <2>3 DEF PlanOf, Creating
    <3>2. mem[c] = manifest[RunOf[c]]
      BY <1>4, <2>3, PCKinds DEF PlanOf, Remembered, Calling, SavePCs
    <3>. QED  BY <1>1, <1>2, <3>1, <3>2 DEF Creating
  <2>. QED  BY <2>1, <2>2, <2>3 DEF Leaves
<1>7. \A r \in Runs : Sound(r, manifest[r])'  BY <1>1 DEF PlanInv, Sound
<1>. QED  BY <1>3, <1>5, <1>6, <1>7 DEF PlanInv, PlanOf, OneControllerPerRun

LEMMA SavesPlan ==
  ASSUME IInv, PlanInv, NEW c \in Controllers, NEW x, NEW m, NEW t, Saves(c, x, m, t),
         Sound(RunOf[c], m)
  PROVE  PlanInv'
<1>1. /\ ctl'[c] = x /\ mem'[c] = m /\ manifest' = manifest
      /\ \A d \in Controllers \ {c} : ctl'[d] = ctl[d] /\ mem'[d] = mem[d]
  BY DEF Saves, Become, IInv, TypeOK, store
<1>2. /\ x.pc \in SavePCs /\ x.pc = "save" /\ x.pc # "d_release"
      /\ x.pc \notin BetweenCalls \cup LaunchPCs \cup CleanupPCs
  BY PCKinds DEF Saves, SavePCs
<1>3. ASSUME NEW d \in Controllers, d # c PROVE PlanOf(d)'
  BY <1>1, <1>3, OthersPlan DEF PlanInv
<1>4. Sound(RunOf[c], mem[c])'  BY <1>1 DEF Sound
<1>5. Remembered(c)' /\ DestroyMarked(c)' /\ (OneControllerPerRun => Creating(c)')
  BY <1>1, <1>2 DEF Remembered, DestroyMarked, Creating, Cleaning, Saves, At
<1>6. \A r \in Runs : Sound(r, manifest[r])'  BY <1>1 DEF PlanInv, Sound
<1>. QED  BY <1>3, <1>4, <1>5, <1>6 DEF PlanInv, PlanOf, OneControllerPerRun

\* The manifest of a call's run is written: no other call can depend on it.
LEMMA WriterAlone ==
  ASSUME IInv, NEW c \in Controllers, Calling(c), NEW d \in Controllers, d # c
  PROVE  RunOf[d] = RunOf[c] => ~Calling(d) /\ ~OneControllerPerRun
BY OneCalls DEF OneControllerPerRun

LEMMA SaveManifestPlan ==
  ASSUME IInv, PlanInv, NEW c \in Controllers, SaveManifest(c)
  PROVE  PlanInv'
<1>1. /\ ctl'[c] = [ctl[c] EXCEPT !.pc = "publish"] /\ ctl'[c].pc = "publish"
      /\ ctl'[c].play = ctl[c].play
      /\ mem' = mem /\ manifest'[RunOf[c]] = mem[c]
      /\ \A r \in Runs : r # RunOf[c] => manifest'[r] = manifest[r]
      /\ \A d \in Controllers \ {c} : ctl'[d] = ctl[d]
  BY SetsAssumption DEF SaveManifest, Goto, Become, IInv, TypeOK, Control, copies
<1>2. RunOf \in [Controllers -> Runs]  BY SetsAssumption
<1>3. Calling(c) /\ ctl[c].pc = "save"
  BY DEF SaveManifest, At, Calling, LockedPCs, SavePCs
<1>4. ASSUME NEW d \in Controllers, d # c PROVE PlanOf(d)'
  BY <1>1, <1>2, <1>3, <1>4, OthersPlan, WriterAlone DEF PlanInv
<1>5. PlanOf(c)  BY DEF PlanInv
<1>6. (Sound(RunOf[c], mem[c]) /\ Remembered(c) /\ DestroyMarked(c))'
  BY <1>1, <1>3, <1>5 DEF PlanOf, Sound, Remembered, DestroyMarked, Cleaning, SavePCs, CleanupPCs, At
<1>7. OneControllerPerRun => Creating(c)'
  BY <1>1, <1>3, <1>5, PCKinds DEF PlanOf, Creating, SavePCs
<1>8. ASSUME NEW r \in Runs PROVE Sound(r, manifest[r])'
  BY <1>1, <1>5 DEF PlanInv, PlanOf, Sound
<1>. QED  BY <1>4, <1>6, <1>7, <1>8 DEF PlanInv, PlanOf, OneControllerPerRun

LEMMA SaveReservationsPlan ==
  ASSUME IInv, PlanInv, NEW c \in Controllers, SaveReservations(c)
  PROVE  PlanInv'
<1>1. /\ ctl'[c].pc = ctl[c].then /\ ctl'[c].play = ctl[c].play /\ manifest' = manifest
      /\ mem'[c] = IF ctl[c].then = "media" THEN NoManifest ELSE mem[c]
      /\ \A d \in Controllers \ {c} : ctl'[d] = ctl[d] /\ mem'[d] = mem[d]
  BY DEF SaveReservations, Become, IInv, TypeOK, Control, copies, Unlock
<1>2. Calling(c) /\ ctl[c].pc = "publish" /\ ctl[c].pc \in SavePCs
  BY DEF SaveReservations, At, Calling, LockedPCs, SavePCs
<1>3. \/ ctl[c].play = "create" /\ ctl[c].then \in {"media", "l_owned", "l_spawn", "l_verify"}
      \/ ctl[c].play = "destroy" /\ ctl[c].then \in {"d_next", "d_check"}
  BY <1>2 DEF IInv, CallInv, PlayFits
<1>4. PlanOf(c) /\ mem[c] = manifest[RunOf[c]]
  BY <1>2 DEF PlanInv, PlanOf, Remembered
<1>5. ASSUME NEW d \in Controllers, d # c PROVE PlanOf(d)'
  BY <1>1, <1>5, OthersPlan DEF PlanInv
<1>6. Sound(RunOf[c], mem[c])'  BY <1>1, <1>4 DEF PlanOf, Sound
<1>7. Remembered(c)'
  BY <1>1, <1>3, <1>4 DEF Remembered, Calling, At, LockedPCs, CallPCs, SavePCs
<1>8. DestroyMarked(c)'
  <2>1. Cleaning(ctl[c])' => ctl[c].play = "destroy"
    BY <1>1, <1>3 DEF Cleaning, CleanupPCs, SavePCs
  <2>. QED  BY <1>1, <1>2, <1>3, <1>4, <2>1 DEF PlanOf, DestroyMarked, Cleaning
<1>9. ASSUME OneControllerPerRun PROVE Creating(c)'
  <2>1. ctl'[c].pc \in BetweenCalls \cup LaunchPCs \cup SavePCs => ctl[c].play = "create"
    BY <1>1, <1>3 DEF BetweenCalls, LaunchPCs, CreateCalls, SavePCs
  <2>2. ctl[c].play = "create" => mem[c] # NoManifest /\ ~mem[c].destroying
    BY <1>2, <1>4, <1>9 DEF PlanOf, Creating
  <2>3. ctl'[c].pc \in LaunchPCs \cup SavePCs => ctl[c].then # "media"
    BY <1>1 DEF LaunchPCs, CreateCalls, SavePCs
  <2>. QED  BY <1>1, <1>4, <2>1, <2>2, <2>3 DEF Creating
<1>10. \A r \in Runs : Sound(r, manifest[r])'  BY <1>1 DEF PlanInv, Sound
<1>. QED  BY <1>5, <1>6, <1>7, <1>8, <1>9, <1>10 DEF PlanInv, PlanOf, OneControllerPerRun

LEMMA RemoveManifestPlan ==
  ASSUME IInv, PlanInv, NEW c \in Controllers, RemoveManifest(c)
  PROVE  PlanInv'
<1>1. /\ ctl'[c].pc = "d_release" /\ mem' = mem /\ manifest'[RunOf[c]] = NoManifest
      /\ \A r \in Runs : r # RunOf[c] => manifest'[r] = manifest[r]
      /\ \A d \in Controllers \ {c} : ctl'[d] = ctl[d]
  BY SetsAssumption DEF RemoveManifest, Goto, Become, IInv, TypeOK, Control, copies
<1>2. RunOf \in [Controllers -> Runs]  BY SetsAssumption
<1>3. Calling(c)  BY DEF RemoveManifest, At, Calling, LockedPCs, CallPCs
<1>4. ASSUME NEW d \in Controllers, d # c PROVE PlanOf(d)'
  BY <1>1, <1>2, <1>3, <1>4, OthersPlan, WriterAlone DEF PlanInv
<1>5. ctl'[c].pc \notin CleanupPCs \cup SavePCs \cup BetweenCalls \cup LaunchPCs
  BY <1>1, PCKinds
<1>6. PlanOf(c)'
  BY <1>1, <1>5 DEF PlanInv, PlanOf, Sound, Remembered, DestroyMarked, Creating, Cleaning, At
<1>7. ASSUME NEW r \in Runs PROVE Sound(r, manifest[r])'
  BY <1>1 DEF PlanInv, Sound
<1>. QED  BY <1>4, <1>6, <1>7 DEF PlanInv

LEMMA ReleaseAllPlan ==
  ASSUME IInv, PlanInv, NEW c \in Controllers, ReleaseAll(c)
  PROVE  PlanInv'
<1>1. /\ ctl'[c] = IdleControl /\ mem'[c] = NoManifest /\ manifest' = manifest
      /\ \A d \in Controllers \ {c} : ctl'[d] = ctl[d] /\ mem'[d] = mem[d]
  BY DEF ReleaseAll, Unlock, Become, IInv, TypeOK
<1>2. ASSUME NEW d \in Controllers, d # c PROVE PlanOf(d)'
  BY <1>1, <1>2, OthersPlan DEF PlanInv
<1>3. /\ IdleControl.pc = "idle"
      /\ "idle" \notin CleanupPCs \cup SavePCs \cup BetweenCalls \cup LaunchPCs \cup LockedPCs
  BY IdleFits, PCKinds
<1>4. PlanOf(c)'
  BY <1>1, <1>3 DEF PlanOf, Sound, Remembered, DestroyMarked, Creating, Cleaning, At, Calling
<1>5. \A r \in Runs : Sound(r, manifest[r])'  BY <1>1 DEF PlanInv, Sound
<1>. QED  BY <1>2, <1>4, <1>5 DEF PlanInv

LEMMA EnterPlan ==
  ASSUME IInv, PlanInv, NEW c \in Controllers, Enter(c)
  PROVE  PlanInv'
<1>1. /\ mem'[c] = manifest[RunOf[c]] /\ manifest' = manifest
      /\ \A d \in Controllers \ {c} : ctl'[d] = ctl[d] /\ mem'[d] = mem[d]
      /\ \/ ctl[c].pc = "reserve_call" /\ ctl'[c].pc = "reserve"
         \/ ctl[c].pc = "launch_call" /\ ctl'[c].pc = "launch"
         \/ ctl[c].pc = "destroy_call" /\ ctl'[c].pc = "destroy"
  BY DEF Enter, At, Goto, Become, IInv, TypeOK, Control, store
<1>2. ASSUME NEW d \in Controllers, d # c PROVE PlanOf(d)'
  BY <1>1, <1>2, OthersPlan DEF PlanInv
<1>3. RunOf[c] \in Runs  BY SetsAssumption
<1>4. (Sound(RunOf[c], mem[c]) /\ Remembered(c) /\ DestroyMarked(c))'
  BY <1>1, <1>3 DEF PlanInv, Sound, Remembered, DestroyMarked, Cleaning, At, CleanupPCs, SavePCs
<1>5. OneControllerPerRun => Creating(c)'
  <2>1. /\ ctl'[c].pc \notin BetweenCalls \cup SavePCs
        /\ ctl'[c].pc \in LaunchPCs => ctl[c].pc = "launch_call" /\ ctl[c].pc \in BetweenCalls
    BY <1>1 DEF BetweenCalls, SavePCs, LaunchPCs, CreateCalls
  <2>. QED  BY <1>1, <2>1 DEF PlanInv, PlanOf, Creating
<1>6. \A r \in Runs : Sound(r, manifest[r])'  BY <1>1 DEF PlanInv, Sound
<1>. QED  BY <1>2, <1>4, <1>5, <1>6 DEF PlanInv, PlanOf, OneControllerPerRun

LEMMA MovesHeld ==
  ASSUME IInv, HeldInv, NEW c \in Controllers, NEW x, Moves(c, x)
  PROVE  HeldInv'
<1>1. /\ ctl'[c] = x /\ \A d \in Controllers \ {c} : ctl'[d] = ctl[d]
      /\ manifest' = manifest /\ mem' = mem /\ reservations' = reservations /\ res' = res
  BY DEF Moves, Become, IInv, TypeOK, store, copies
<1>2. /\ Calling(c)' => Calling(c) /\ ctl[c].pc # "d_release"
      /\ x.pc # "publish" /\ ctl[c].pc # "publish"
  BY <1>1, PCKinds DEF Moves, Calling, SavePCs, BetweenCalls
<1>3. \A r \in Runs : Publishing(r)' <=> Publishing(r)
  BY <1>1, <1>2 DEF Publishing
<1>4. ASSUME NEW r \in Runs PROVE StoreHeld(r)'
  <2>1. Apart(manifest[r])' <=> Apart(manifest[r])  BY <1>1 DEF Apart, Conflicts
  <2>2. Held(r, manifest[r], reservations)' <=> Held(r, manifest[r], reservations)
    BY <1>1 DEF Held
  <2>. QED  BY <1>1, <1>3, <2>1, <2>2 DEF HeldInv, StoreHeld
<1>5. ASSUME NEW d \in Controllers PROVE OthersHeld(d)'
  <2>1. Calling(d)' => Calling(d)  BY <1>1, <1>2 DEF Calling
  <2>2. OthersHeld(d)  BY DEF HeldInv, CopiesHeld
  <2>. QED  BY <1>1, <2>1, <2>2 DEF OthersHeld, Held
<1>6. ASSUME NEW d \in Controllers PROVE OwnHeld(d)'
  <2>1. Calling(d)' => Calling(d)  BY <1>1, <1>2 DEF Calling
  <2>2. Apart(mem[d])' <=> Apart(mem[d])  BY <1>1 DEF Apart, Conflicts
  <2>3. Held(RunOf[d], mem[d], res[d])' <=> Held(RunOf[d], mem[d], res[d])
    BY <1>1 DEF Held
  <2>4. OwnHeld(d)  BY DEF HeldInv, CopiesHeld
  <2>5. (Calling(d) /\ ctl[d].pc # "d_release")' => ctl[d].pc # "d_release"
    BY <1>1, <1>2
  <2>. QED  BY <1>1, <2>1, <2>2, <2>3, <2>4, <2>5 DEF OwnHeld
<1>. QED  BY <1>4, <1>5, <1>6 DEF HeldInv, CopiesHeld

-------------------------------------------------------------------------------
(* Reservations of the guests                                              *)

\* A save leaves the reservations of the other runs alone.
KeepsOthers(c, t) ==
  \A k \in Key : (res[c][k] # NoOne /\ res[c][k].run # RunOf[c]) => t[k] = res[c][k]

\* The copies of a controller that takes no part in a step.
LEMMA OthersCopies ==
  ASSUME NEW d \in Controllers, CopiesHeld(d), ctl'[d] = ctl[d], mem'[d] = mem[d], res'[d] = res[d],
         Calling(d) => \A r \in Runs : r # RunOf[d] => manifest'[r] = manifest[r]
  PROVE  CopiesHeld(d)'
<1>1. OthersHeld(d)'
  <2>1. OthersHeld(d)  BY DEF CopiesHeld
  <2>. QED  BY <2>1 DEF OthersHeld, Held, Calling
<1>2. OwnHeld(d)'
  <2>1. Apart(mem[d])' <=> Apart(mem[d])  BY DEF Apart, Conflicts
  <2>2. Held(RunOf[d], mem[d], res[d])' <=> Held(RunOf[d], mem[d], res[d])
    BY DEF Held
  <2>3. OwnHeld(d)  BY DEF CopiesHeld
  <2>. QED  BY <2>1, <2>2, <2>3 DEF OwnHeld, Calling
<1>. QED  BY <1>1, <1>2 DEF CopiesHeld

LEMMA StoreHeldKept ==
  ASSUME NEW r \in Runs, StoreHeld(r), manifest'[r] = manifest[r], reservations' = reservations,
         Publishing(r) => Publishing(r)'
  PROVE  StoreHeld(r)'
<1>1. Apart(manifest[r])' <=> Apart(manifest[r])  BY DEF Apart, Conflicts
<1>2. Held(r, manifest[r], reservations)' <=> Held(r, manifest[r], reservations)
  BY DEF Held
<1>. QED  BY <1>1, <1>2 DEF StoreHeld

LEMMA LeavesHeld ==
  ASSUME IInv, HeldInv, SavesWhole, NEW c \in Controllers, NEW x, Leaves(c, x)
  PROVE  HeldInv'
<1>1. /\ ctl'[c] = x /\ manifest' = manifest /\ reservations' = reservations
      /\ \A d \in Controllers \ {c} : ctl'[d] = ctl[d] /\ mem'[d] = mem[d] /\ res'[d] = res[d]
  BY DEF Leaves, Become, IInv, TypeOK, store
<1>2. ctl[c].pc # "publish" /\ x.pc \notin LockedPCs
  BY DEF Leaves, LaunchPCs, CreateCalls, LockedPCs, CallPCs, SavePCs
<1>3. ASSUME NEW r \in Runs PROVE StoreHeld(r)'
  <2>1. Publishing(r) => Publishing(r)'  BY <1>1, <1>2 DEF Publishing
  <2>. QED  BY <1>1, <2>1, StoreHeldKept DEF HeldInv
<1>4. ASSUME NEW d \in Controllers, d # c PROVE CopiesHeld(d)'
  BY <1>1, <1>4, OthersCopies DEF HeldInv
<1>5. CopiesHeld(c)'
  BY <1>1, <1>2 DEF CopiesHeld, OthersHeld, OwnHeld, Calling
<1>. QED  BY <1>3, <1>4, <1>5 DEF HeldInv

LEMMA SavesHeld ==
  ASSUME IInv, HeldInv, NEW c \in Controllers, NEW x, NEW m, NEW t, Saves(c, x, m, t),
         Held(RunOf[c], m, t), Apart(m), KeepsOthers(c, t)
  PROVE  HeldInv'
<1>1. /\ ctl'[c] = x /\ mem'[c] = m /\ res'[c] = t /\ manifest' = manifest /\ reservations' = reservations
      /\ \A d \in Controllers \ {c} : ctl'[d] = ctl[d] /\ mem'[d] = mem[d] /\ res'[d] = res[d]
  BY DEF Saves, Become, IInv, TypeOK, store
<1>2. Calling(c) /\ ctl[c].pc # "publish" /\ x.pc = "save"
  BY DEF Saves, SavePCs
<1>3. ASSUME NEW r \in Runs PROVE StoreHeld(r)'
  <2>1. Publishing(r) => Publishing(r)'  BY <1>1, <1>2 DEF Publishing
  <2>. QED  BY <1>1, <2>1, StoreHeldKept DEF HeldInv
<1>4. ASSUME NEW d \in Controllers, d # c PROVE CopiesHeld(d)'
  BY <1>1, <1>4, OthersCopies DEF HeldInv
<1>5. OthersHeld(c)'
  <2>1. ASSUME NEW r \in Runs \ {RunOf[c]}, manifest[r] # NoManifest PROVE Held(r, manifest[r], t)
    <3>1. Held(r, manifest[r], res[c])
      BY <1>2, <2>1 DEF HeldInv, CopiesHeld, OthersHeld
    <3>2. ASSUME NEW h \in Hosts, NEW e \in Endpoints, manifest[r].rec[h].status # "removed"
          PROVE  t[manifest[r].rec[h].keys[e]] = [run |-> r, gen |-> manifest[r].gen]
      <4>1. manifest[r].rec[h].keys[e] \in Key /\ [run |-> r, gen |-> manifest[r].gen] # NoOne
        BY <2>1, SentinelAssumption DEF IInv, TypeOK, Manifest, Record, Owner
      <4>2. res[c][manifest[r].rec[h].keys[e]] = [run |-> r, gen |-> manifest[r].gen]
        BY <3>1, <3>2 DEF Held
      <4>. QED  BY <4>1, <4>2 DEF KeepsOthers
    <3>. QED  BY <3>2 DEF Held
  <2>2. \A r \in Runs \ {RunOf[c]} : Held(r, manifest[r], res[c])' <=> Held(r, manifest[r], t)
    BY <1>1 DEF Held
  <2>. QED  BY <1>1, <2>1, <2>2 DEF OthersHeld
<1>6. OwnHeld(c)'
  <2>1. Held(RunOf[c], mem[c], res[c])' <=> Held(RunOf[c], m, t)  BY <1>1 DEF Held
  <2>2. Apart(mem[c])' <=> Apart(m)  BY <1>1 DEF Apart, Conflicts
  <2>. QED  BY <2>1, <2>2 DEF OwnHeld
<1>. QED  BY <1>3, <1>4, <1>5, <1>6 DEF HeldInv, CopiesHeld

LEMMA SaveManifestHeld ==
  ASSUME IInv, HeldInv, NEW c \in Controllers, SaveManifest(c)
  PROVE  HeldInv'
<1>1. /\ ctl'[c].pc = "publish" /\ mem' = mem /\ res' = res /\ reservations' = reservations
      /\ manifest'[RunOf[c]] = mem[c]
      /\ \A r \in Runs : r # RunOf[c] => manifest'[r] = manifest[r]
      /\ \A d \in Controllers \ {c} : ctl'[d] = ctl[d]
  BY SetsAssumption DEF SaveManifest, Goto, Become, IInv, TypeOK, Control, copies
<1>2. Calling(c) /\ ctl[c].pc = "save" /\ RunOf[c] \in Runs
  BY SetsAssumption DEF SaveManifest, At, Calling, LockedPCs, SavePCs
<1>3. ASSUME NEW r \in Runs, r # RunOf[c] PROVE StoreHeld(r)'
  <2>1. Publishing(r) => Publishing(r)'  BY <1>1, <1>2 DEF Publishing
  <2>. QED  BY <1>1, <1>3, <2>1, StoreHeldKept DEF HeldInv
<1>4. StoreHeld(RunOf[c])'
  <2>1. Publishing(RunOf[c])'  BY <1>1 DEF Publishing
  <2>2. mem[c] # NoManifest => Apart(mem[c])
    BY <1>2 DEF HeldInv, CopiesHeld, OwnHeld
  <2>3. Apart(manifest[RunOf[c]])' <=> Apart(mem[c])  BY <1>1 DEF Apart, Conflicts
  <2>. QED  BY <1>1, <2>1, <2>2, <2>3 DEF StoreHeld
<1>5. ASSUME NEW d \in Controllers, d # c PROVE CopiesHeld(d)'
  <2>1. ~Calling(d)  BY <1>2, <1>5, OneCalls
  <2>. QED  BY <1>1, <1>5, <2>1, OthersCopies DEF HeldInv
<1>6. OthersHeld(c)'
  <2>1. OthersHeld(c)  BY DEF HeldInv, CopiesHeld
  <2>. QED  BY <1>1, <1>2, <2>1 DEF OthersHeld, Held
<1>7. OwnHeld(c)'
  <2>1. Apart(mem[c])' <=> Apart(mem[c])  BY <1>1 DEF Apart, Conflicts
  <2>2. Held(RunOf[c], mem[c], res[c])' <=> Held(RunOf[c], mem[c], res[c])  BY <1>1 DEF Held
  <2>. QED  BY <1>1, <1>2, <2>1, <2>2 DEF OwnHeld, HeldInv, CopiesHeld
<1>. QED  BY <1>3, <1>4, <1>5, <1>6, <1>7 DEF HeldInv, CopiesHeld

LEMMA SaveReservationsHeld ==
  ASSUME IInv, HeldInv, NEW c \in Controllers, SaveReservations(c)
  PROVE  HeldInv'
<1>1. /\ ctl'[c].pc = ctl[c].then /\ manifest' = manifest /\ reservations' = res[c]
      /\ \A d \in Controllers \ {c} : ctl'[d] = ctl[d] /\ mem'[d] = mem[d] /\ res'[d] = res[d]
      /\ ctl[c].then # "media" => mem' = mem /\ res' = res
  BY DEF SaveReservations, Become, IInv, TypeOK, Control, copies, Unlock
<1>2. Calling(c) /\ ctl[c].pc = "publish" /\ RunOf[c] \in Runs /\ ctl[c].pc \in SavePCs
  BY SetsAssumption DEF SaveReservations, At, Calling, LockedPCs, SavePCs
<1>3. manifest[RunOf[c]] = mem[c]  BY <1>2 DEF IInv, CallInv, Synced
<1>4. ASSUME NEW r \in Runs PROVE StoreHeld(r)'
  <2>1. manifest[r] # NoManifest => Held(r, manifest[r], res[c])
    <3>1. CASE r = RunOf[c]
      BY <1>2, <1>3, <3>1 DEF HeldInv, CopiesHeld, OwnHeld
    <3>2. CASE r # RunOf[c]
      BY <1>2, <3>2 DEF HeldInv, CopiesHeld, OthersHeld
    <3>. QED  BY <3>1, <3>2
  <2>2. Held(r, manifest[r], reservations)' <=> Held(r, manifest[r], res[c])
    BY <1>1 DEF Held
  <2>3. Apart(manifest[r])' <=> Apart(manifest[r])  BY <1>1 DEF Apart, Conflicts
  <2>. QED  BY <1>1, <2>1, <2>2, <2>3 DEF HeldInv, StoreHeld
<1>5. ASSUME NEW d \in Controllers, d # c PROVE CopiesHeld(d)'
  BY <1>1, <1>5, OthersCopies DEF HeldInv
<1>6. CopiesHeld(c)'
  <2>1. CASE ctl[c].then = "media"
    <3>1. ~Calling(c)'  BY <1>1, <2>1 DEF Calling, LockedPCs, CallPCs, SavePCs
    <3>. QED  BY <3>1 DEF CopiesHeld, OthersHeld, OwnHeld
  <2>2. CASE ctl[c].then # "media"
    <3>0. mem' = mem  BY <1>1, <2>2
    <3>1. OthersHeld(c)'
      BY <1>1, <1>2, <2>2 DEF HeldInv, CopiesHeld, OthersHeld, Held
    <3>2. Apart(mem[c])' <=> Apart(mem[c])  BY <3>0 DEF Apart, Conflicts
    <3>3. Held(RunOf[c], mem[c], res[c])' <=> Held(RunOf[c], mem[c], res[c])
      BY <1>1, <2>2 DEF Held
    <3>4. OwnHeld(c)'
      BY <1>1, <1>2, <2>2, <3>2, <3>3 DEF OwnHeld, HeldInv, CopiesHeld
    <3>. QED  BY <3>1, <3>4 DEF CopiesHeld
  <2>. QED  BY <2>1, <2>2
<1>. QED  BY <1>4, <1>5, <1>6 DEF HeldInv

LEMMA RemoveManifestHeld ==
  ASSUME IInv, HeldInv, NEW c \in Controllers, RemoveManifest(c)
  PROVE  HeldInv'
<1>1. /\ ctl'[c].pc = "d_release" /\ mem' = mem /\ res' = res /\ reservations' = reservations
      /\ manifest'[RunOf[c]] = NoManifest
      /\ \A r \in Runs : r # RunOf[c] => manifest'[r] = manifest[r]
      /\ \A d \in Controllers \ {c} : ctl'[d] = ctl[d]
  BY SetsAssumption DEF RemoveManifest, Goto, Become, IInv, TypeOK, Control, copies
<1>2. Calling(c) /\ ctl[c].pc = "d_next" /\ RunOf[c] \in Runs
  BY SetsAssumption DEF RemoveManifest, At, Calling, LockedPCs, CallPCs
<1>3. ASSUME NEW r \in Runs, r # RunOf[c] PROVE StoreHeld(r)'
  <2>1. Publishing(r) => Publishing(r)'  BY <1>1, <1>2 DEF Publishing
  <2>. QED  BY <1>1, <1>3, <2>1, StoreHeldKept DEF HeldInv
<1>4. StoreHeld(RunOf[c])'  BY <1>1 DEF StoreHeld
<1>5. ASSUME NEW d \in Controllers, d # c PROVE CopiesHeld(d)'
  <2>1. ~Calling(d)  BY <1>2, <1>5, OneCalls
  <2>. QED  BY <1>1, <1>5, <2>1, OthersCopies DEF HeldInv
<1>6. OthersHeld(c)'
  <2>1. OthersHeld(c)  BY DEF HeldInv, CopiesHeld
  <2>. QED  BY <1>1, <1>2, <2>1 DEF OthersHeld, Held
<1>7. OwnHeld(c)'  BY <1>1 DEF OwnHeld
<1>. QED  BY <1>3, <1>4, <1>5, <1>6, <1>7 DEF HeldInv, CopiesHeld

LEMMA ReleaseAllHeld ==
  ASSUME IInv, PlanInv, HeldInv, NEW c \in Controllers, ReleaseAll(c)
  PROVE  HeldInv'
<1>1. /\ ctl'[c] = IdleControl /\ manifest' = manifest
      /\ reservations' = Released(res[c], Own(c), NoManifest)
      /\ \A d \in Controllers \ {c} : ctl'[d] = ctl[d] /\ mem'[d] = mem[d] /\ res'[d] = res[d]
  BY DEF ReleaseAll, Unlock, Become, IInv, TypeOK
<1>2. /\ Calling(c) /\ ctl[c].pc = "d_release" /\ RunOf[c] \in Runs
      /\ manifest[RunOf[c]] = NoManifest
  BY SetsAssumption DEF ReleaseAll, At, Calling, LockedPCs, CallPCs, PlanInv, PlanOf, Remembered
<1>3. ASSUME NEW r \in Runs PROVE StoreHeld(r)'
  <2>1. CASE r = RunOf[c]  BY <1>1, <1>2, <2>1 DEF StoreHeld
  <2>2. CASE manifest[r] # NoManifest /\ r # RunOf[c]
    <3>1. Held(r, manifest[r], res[c])
      BY <1>2, <2>2 DEF HeldInv, CopiesHeld, OthersHeld
    <3>2. ASSUME NEW h \in Hosts, NEW e \in Endpoints, manifest[r].rec[h].status # "removed"
          PROVE  reservations'[manifest[r].rec[h].keys[e]] = [run |-> r, gen |-> manifest[r].gen]
      <4>1. manifest[r].rec[h].keys[e] \in Key
        BY <2>2 DEF IInv, TypeOK, Manifest, Record
      <4>2. res[c][manifest[r].rec[h].keys[e]] = [run |-> r, gen |-> manifest[r].gen]
        BY <3>1, <3>2 DEF Held
      <4>. QED  BY <1>1, <2>2, <4>1, <4>2 DEF Released, Own
    <3>3. Held(r, manifest[r], reservations)'  BY <1>1, <3>2 DEF Held
    <3>4. Apart(manifest[r])' <=> Apart(manifest[r])  BY <1>1 DEF Apart, Conflicts
    <3>. QED  BY <2>2, <3>3, <3>4 DEF HeldInv, StoreHeld
  <2>3. CASE manifest[r] = NoManifest  BY <1>1, <2>3 DEF StoreHeld
  <2>. QED  BY <2>1, <2>2, <2>3
<1>4. ASSUME NEW d \in Controllers, d # c PROVE CopiesHeld(d)'
  BY <1>1, <1>4, OthersCopies DEF HeldInv
<1>5. CopiesHeld(c)'
  <2>1. ~Calling(c)'  BY <1>1, IdleFits, PCKinds DEF Calling
  <2>. QED  BY <2>1 DEF CopiesHeld, OthersHeld, OwnHeld
<1>. QED  BY <1>3, <1>4, <1>5 DEF HeldInv

LEMMA EnterHeld ==
  ASSUME IInv, HeldInv, NEW c \in Controllers, Enter(c)
  PROVE  HeldInv'
<1>1. /\ mem'[c] = manifest[RunOf[c]] /\ res'[c] = reservations
      /\ manifest' = manifest /\ reservations' = reservations
      /\ \A d \in Controllers \ {c} : ctl'[d] = ctl[d] /\ mem'[d] = mem[d] /\ res'[d] = res[d]
      /\ RunOf[c] \in Runs
  BY SetsAssumption DEF Enter, At, Goto, Become, IInv, TypeOK, store
<1>2. \A d \in Controllers : ~Calling(d)
  <2>1. lock = NoOne /\ \A d \in Controllers : Calling(d) => lock = d
    BY DEF Enter, IInv, CallInv, CallReady
  <2>. QED  BY <2>1, SentinelAssumption
<1>3. \A r \in Runs : ~Publishing(r)
  BY <1>2 DEF Publishing, Calling, LockedPCs, SavePCs
<1>4. ASSUME NEW r \in Runs PROVE StoreHeld(r)'
  BY <1>1, <1>3, StoreHeldKept DEF HeldInv
<1>5. ASSUME NEW d \in Controllers, d # c PROVE CopiesHeld(d)'
  BY <1>1, <1>5, OthersCopies DEF HeldInv
<1>6. ASSUME NEW r \in Runs, manifest[r] # NoManifest
      PROVE  Apart(manifest[r]) /\ Held(r, manifest[r], reservations)
  BY <1>3, <1>6 DEF HeldInv, StoreHeld
<1>7. OthersHeld(c)'
  <2>1. \A r \in Runs : Held(r, manifest[r], res[c])' <=> Held(r, manifest[r], reservations)
    BY <1>1 DEF Held
  <2>. QED  BY <1>1, <1>6, <2>1 DEF OthersHeld
<1>8. OwnHeld(c)'
  <2>1. Held(RunOf[c], mem[c], res[c])' <=> Held(RunOf[c], manifest[RunOf[c]], reservations)
    BY <1>1 DEF Held
  <2>2. Apart(mem[c])' <=> Apart(manifest[RunOf[c]])  BY <1>1 DEF Apart, Conflicts
  <2>. QED  BY <1>1, <1>6, <2>1, <2>2 DEF OwnHeld
<1>. QED  BY <1>4, <1>5, <1>7, <1>8 DEF HeldInv, CopiesHeld

\* What is held excludes: no two guests share an endpoint.
LEMMA HeldExcludes == IInv /\ HeldInv => EndpointsExclusive
<1>. SUFFICES ASSUME IInv, HeldInv, NEW q \in Runs, NEW r \in Runs,
                     manifest[q] # NoManifest, manifest[r] # NoManifest,
                     NEW g \in Hosts, NEW h \in Hosts, NEW d \in Endpoints, NEW e \in Endpoints,
                     <<q, g, d>> # <<r, h, e>>,
                     manifest[q].rec[g].status # "removed", manifest[r].rec[h].status # "removed"
              PROVE  ~Conflicts(manifest[q].rec[g].keys[d], manifest[r].rec[h].keys[e])
  BY DEF EndpointsExclusive
<1>. DEFINE k == manifest[q].rec[g].keys[d]
            l == manifest[r].rec[h].keys[e]
<1>1. CASE q = r
  <2>1. Apart(manifest[r])  BY DEF HeldInv, StoreHeld
  <2>. QED  BY <1>1, <2>1 DEF Apart
<1>2. CASE q # r
  <2>1. k \in Key /\ l \in Key  BY DEF IInv, TypeOK, Manifest, Record
  <2>2. /\ [run |-> q, gen |-> manifest[q].gen] # NoOne /\ [run |-> r, gen |-> manifest[r].gen] # NoOne
        /\ [run |-> q, gen |-> manifest[q].gen] # [run |-> r, gen |-> manifest[r].gen]
    BY <1>2, SentinelAssumption DEF IInv, TypeOK, Manifest, Owner
  <2>3. ASSUME NEW t, Held(q, manifest[q], t), Held(r, manifest[r], t), Compatible(t)
        PROVE  ~Conflicts(k, l)
    <3>1. t[k] = [run |-> q, gen |-> manifest[q].gen] /\ t[l] = [run |-> r, gen |-> manifest[r].gen]
      BY <2>3 DEF Held
    <3>2. k # l /\ t[k] # NoOne /\ t[l] # NoOne  BY <2>2, <3>1
    <3>. HIDE DEF k, l
    <3>. QED  BY <2>1, <2>3, <3>2 DEF Compatible
  <2>4. CASE Publishing(q) \/ Publishing(r)
    <3>1. PICK c \in Controllers : RunOf[c] \in {q, r} /\ ctl[c].pc = "publish"
      BY <2>4 DEF Publishing
    <3>2. Calling(c) /\ manifest[RunOf[c]] = mem[c] /\ Compatible(res[c])
      BY <3>1 DEF IInv, CallInv, Synced, CopiesCompatible, Calling, LockedPCs, SavePCs
    <3>3. \A s \in {q, r} : Held(s, manifest[s], res[c])
      BY <3>1, <3>2 DEF HeldInv, CopiesHeld, OthersHeld, OwnHeld
    <3>. QED  BY <2>3, <3>2, <3>3
  <2>5. CASE ~Publishing(q) /\ ~Publishing(r)
    <3>1. Compatible(reservations)  BY DEF IInv, ReservationsCompatible, Compatible
    <3>. QED  BY <2>3, <2>5, <3>1 DEF HeldInv, StoreHeld
  <2>. QED  BY <2>4, <2>5
<1>. QED  BY <1>1, <1>2

-------------------------------------------------------------------------------
(* Every step is of one of these kinds                                     *)

\* What is saved keeps the reservations of every guest.
Reserved(c, m, t) == Held(RunOf[c], m, t) /\ Apart(m) /\ KeepsOthers(c, t)

\* A save that the plan and the reservations allow.
SavesSoundly(c, x, m, t) ==
  /\ Saves(c, x, m, t) /\ Sound(RunOf[c], m)
  /\ OneControllerPerRun /\ HeldInv => Reserved(c, m, t)

Quiet == UNCHANGED <<store, copies, ctl>>

StepOf(c) ==
  \/ Quiet
  \/ \E x \in Control : Moves(c, x) \/ Leaves(c, x)
  \/ \E x \in Control, m \in Manifest, t \in Reservations : SavesSoundly(c, x, m, t)
  \/ SaveManifest(c) \/ SaveReservations(c) \/ RemoveManifest(c) \/ ReleaseAll(c) \/ Enter(c)

LEMMA StepKeepsPlan ==
  ASSUME IInv, PlanInv, NEW c \in Controllers, StepOf(c)
  PROVE  PlanInv'
<1>1. CASE Quiet
  <2>1. manifest' = manifest /\ mem' = mem /\ ctl' = ctl  BY <1>1 DEF Quiet, store, copies
  <2>2. \A d \in Controllers : PlanOf(d)'  BY <2>1, OthersPlan DEF PlanInv
  <2>. QED  BY <2>1, <2>2 DEF PlanInv, Sound
<1>2. ASSUME NEW x \in Control, Moves(c, x) \/ Leaves(c, x) PROVE PlanInv'
  BY <1>2, MovesPlan, LeavesPlan
<1>3. ASSUME NEW x \in Control, NEW m \in Manifest, NEW t \in Reservations, SavesSoundly(c, x, m, t)
      PROVE  PlanInv'
  BY <1>3, SavesPlan DEF SavesSoundly
<1>. QED
  BY <1>1, <1>2, <1>3, SaveManifestPlan, SaveReservationsPlan, RemoveManifestPlan, ReleaseAllPlan,
     EnterPlan DEF StepOf

LEMMA StepKeepsHeld ==
  ASSUME IInv, PlanInv, HeldInv, OneControllerPerRun, SavesWhole, NEW c \in Controllers, StepOf(c)
  PROVE  HeldInv'
<1>1. CASE Quiet
  <2>1. manifest' = manifest /\ mem' = mem /\ ctl' = ctl /\ reservations' = reservations /\ res' = res
    BY <1>1 DEF Quiet, store, copies
  <2>2. \A d \in Controllers : CopiesHeld(d)'  BY <2>1, OthersCopies DEF HeldInv
  <2>3. \A r \in Runs : Publishing(r) => Publishing(r)'  BY <2>1 DEF Publishing
  <2>4. \A r \in Runs : StoreHeld(r)'  BY <2>1, <2>3, StoreHeldKept DEF HeldInv
  <2>. QED  BY <2>2, <2>4 DEF HeldInv
<1>2. ASSUME NEW x \in Control, Moves(c, x) \/ Leaves(c, x) PROVE HeldInv'
  BY <1>2, MovesHeld, LeavesHeld
<1>3. ASSUME NEW x \in Control, NEW m \in Manifest, NEW t \in Reservations, SavesSoundly(c, x, m, t)
      PROVE  HeldInv'
  BY <1>3, SavesHeld DEF SavesSoundly, Reserved
<1>. QED
  BY <1>1, <1>2, <1>3, SaveManifestHeld, SaveReservationsHeld, RemoveManifestHeld, ReleaseAllHeld,
     EnterHeld DEF StepOf

\* A copy with the keys of the remembered one, and no guest back from removal.
SameKeys(m, n) ==
  /\ n.gen = m.gen
  /\ \A h \in Hosts : n.rec[h].keys = m.rec[h].keys
  /\ \A h \in Hosts : n.rec[h].status # "removed" => m.rec[h].status # "removed"

LEMMA SameKeysReserved ==
  ASSUME NEW c \in Controllers, HeldInv, Calling(c), ctl[c].pc # "d_release", mem[c] # NoManifest,
         NEW n, SameKeys(mem[c], n)
  PROVE  Reserved(c, n, res[c])
<1>1. Held(RunOf[c], mem[c], res[c]) /\ Apart(mem[c])
  BY DEF HeldInv, CopiesHeld, OwnHeld
<1>2. Held(RunOf[c], n, res[c])  BY <1>1 DEF SameKeys, Held
<1>3. Apart(n)  BY <1>1 DEF SameKeys, Apart
<1>. QED  BY <1>2, <1>3 DEF Reserved, KeepsOthers

LEMMA SameKeysSound ==
  ASSUME NEW r, NEW m, m # NoManifest, Sound(r, m), NEW n, SameKeys(m, n),
         m.destroying => n.destroying,
         \A h \in Hosts : n.rec[h].status = "removed" => m.rec[h].status = "removed"
  PROVE  Sound(r, n)
BY DEF Sound, SameKeys

\* Where a call is when it begins a save, and what it then knows.
LEMMA Saver ==
  ASSUME IInv, PlanInv, NEW c \in Controllers,
         ctl[c].pc \in {"launch", "l_mark", "l_rc0", "l_in_use", "destroy", "d_recover", "d_disk"},
         mem[c] # NoManifest
  PROVE  /\ Calling(c) /\ ctl[c].pc \notin SavePCs \cup {"d_release"}
         /\ ctl[c] \in Control /\ mem[c] \in Manifest /\ res[c] \in Reservations
         /\ RunOf[c] \in Runs /\ ctl[c].host \in Hosts
         /\ Sound(RunOf[c], mem[c])
         /\ ctl[c].pc \in {"launch", "l_mark", "l_rc0", "l_in_use"} =>
              /\ ctl[c].play = "create"
              /\ OneControllerPerRun => ~mem[c].destroying
         /\ ctl[c].pc \in {"destroy", "d_recover", "d_disk"} => ctl[c].play = "destroy"
         /\ ctl[c].pc \in {"d_recover", "d_disk"} => mem[c].destroying
<1>1. ctl[c] \in Control /\ mem[c] \in Manifest /\ res[c] \in Reservations /\ PlayFits(ctl[c])
      /\ RunOf[c] \in Runs /\ PlanOf(c)
  BY SetsAssumption DEF IInv, CallInv, TypeOK, PlanInv
<1>2. Calling(c) /\ ctl[c].pc \notin SavePCs \cup {"d_release"}
  BY DEF Calling, LockedPCs, CallPCs, SavePCs
<1>3. ctl[c].host \in Hosts  BY <1>1 DEF Control
<1>4. ctl[c].pc \in {"launch", "l_mark", "l_rc0", "l_in_use"} => ctl[c].pc \in LaunchPCs \cap CreatePCs
  BY DEF LaunchPCs, CreatePCs, CreateCalls
<1>5. ctl[c].pc \in {"destroy", "d_recover", "d_disk"} => ctl[c].pc \in DestroyPCs
  BY DEF DestroyPCs, CleanupPCs
<1>6. ctl[c].pc \in {"d_recover", "d_disk"} => Cleaning(ctl[c])
  BY DEF Cleaning, CleanupPCs
<1>. QED
  BY <1>1, <1>2, <1>3, <1>4, <1>5, <1>6 DEF PlanOf, Creating, DestroyMarked, PlayFits

LEMMA RecoverStep ==
  ASSUME IInv, PlanInv, NEW c \in Controllers, NEW from, NEW to, RecoverAt(c, from, to),
         mem[c] # NoManifest,
         \/ from \in {"launch", "l_rc0"} /\ to \in {"l_owned", "l_verify"}
         \/ from = "d_recover" /\ to = "d_check"
  PROVE  StepOf(c)
<1>1. /\ ctl[c].pc = from /\ ctl[c] \in Control /\ mem[c] \in Manifest /\ res[c] \in Reservations
      /\ RunOf[c] \in Runs /\ ctl[c].host \in Hosts /\ Sound(RunOf[c], mem[c]) /\ TypeOK
      /\ Calling(c) /\ ctl[c].pc \notin SavePCs \cup {"d_release"}
      /\ from # "d_recover" => ctl[c].play = "create" /\ (OneControllerPerRun => ~mem[c].destroying)
      /\ from = "d_recover" => ctl[c].play = "destroy" /\ mem[c].destroying
  BY Saver DEF RecoverAt, At, IInv
<1>2. CASE Move(c, to)
  <2>. DEFINE x == [ctl[c] EXCEPT !.pc = to]
  <2>1. x.pc = to /\ x \in Control
    BY <1>1, PCs DEF Control, CallPCs
  <2>2. Moves(c, x)
    BY <1>1, <1>2, <2>1 DEF Moves, Move, Local, LaunchPCs, CreateCalls, CleanupPCs
  <2>. QED  BY <2>1, <2>2 DEF StepOf
<1>3. CASE /\ RecoveryBy(c) \in {"stopped", "running"}
           /\ BeginSave(c, [ctl[c] EXCEPT !.then = to], Recovered(RunOf[c], mem[c], ctl[c].host), res[c])
  <2>. DEFINE x == [[ctl[c] EXCEPT !.then = to] EXCEPT !.pc = "save"]
              n == Recovered(RunOf[c], mem[c], ctl[c].host)
  <2>1. /\ n \in Manifest /\ n.destroying = mem[c].destroying /\ n # NoManifest
        /\ SameKeys(mem[c], n)
        /\ \A h \in Hosts : n.rec[h].status = "removed" => mem[c].rec[h].status = "removed"
    <3>1. Recovery(RunOf[c], mem[c], ctl[c].host) \in {"stopped", "running"}
      BY <1>3 DEF RecoveryBy
    <3>2. /\ n \in Manifest /\ n.gen = mem[c].gen /\ n.destroying = mem[c].destroying
          /\ \A g \in Hosts \ {ctl[c].host} : n.rec[g] = mem[c].rec[g]
          /\ n.rec[ctl[c].host].keys = mem[c].rec[ctl[c].host].keys
          /\ mem[c].rec[ctl[c].host].status = "launching"
          /\ n.rec[ctl[c].host].status \in {"stopped", "running"}
      BY <1>1, <3>1, RecoveredManifest
    <3>. HIDE DEF n
    <3>. QED  BY <3>2, SentinelAssumption DEF SameKeys
  <2>2. x \in Control /\ x.pc = "save" /\ x.play = ctl[c].play
    <3>1. to \in AfterSave  BY DEF AfterSave, CallPCs
    <3>. QED  BY <1>1, <3>1 DEF Control, LockedPCs, SavePCs
  <2>3. Become(c, x) /\ UNCHANGED store
        /\ mem' = [mem EXCEPT ![c] = n] /\ res' = [res EXCEPT ![c] = res[c]]
    BY <1>3 DEF BeginSave
  <2>. HIDE DEF x, n
  <2>4. Saves(c, x, n, res[c])
    BY <1>1, <2>1, <2>2, <2>3 DEF Saves
  <2>5. Sound(RunOf[c], n)  BY <1>1, <2>1, SameKeysSound
  <2>6. HeldInv => Reserved(c, n, res[c])  BY <1>1, <2>1, SameKeysReserved
  <2>. QED  BY <1>1, <2>1, <2>2, <2>4, <2>5, <2>6 DEF StepOf, SavesSoundly
<1>. QED  BY <1>2, <1>3 DEF RecoverAt

LEMMA StatusSet ==
  ASSUME NEW m \in Manifest, NEW h \in Hosts, NEW status \in Statuses
  PROVE  LET n == [m EXCEPT !.rec[h].status = status] IN
         /\ n \in Manifest /\ n.gen = m.gen /\ n.destroying = m.destroying /\ n # NoManifest
         /\ \A g \in Hosts \ {h} : n.rec[g] = m.rec[g]
         /\ n.rec[h].status = status /\ n.rec[h].keys = m.rec[h].keys
         /\ n.rec[h].pid = m.rec[h].pid /\ n.rec[h].start = m.rec[h].start
<1>. DEFINE n == [m EXCEPT !.rec[h].status = status]
            rec == [m.rec[h] EXCEPT !.status = status]
<1>1. m.rec \in [Hosts -> Record] /\ m.rec[h] \in Record  BY DEF Manifest
<1>2. /\ rec \in Record /\ rec.status = status /\ rec.keys = m.rec[h].keys
      /\ rec.pid = m.rec[h].pid /\ rec.start = m.rec[h].start
  BY <1>1 DEF Record
<1>3. n = [m EXCEPT !.rec = [m.rec EXCEPT ![h] = rec]]
  BY <1>1 DEF Manifest
<1>. HIDE DEF n, rec
<1>4. [m.rec EXCEPT ![h] = rec] \in [Hosts -> Record]  BY <1>1, <1>2
<1>5. /\ n \in Manifest /\ n.gen = m.gen /\ n.destroying = m.destroying
      /\ n.rec = [m.rec EXCEPT ![h] = rec]
  BY <1>3, <1>4 DEF Manifest
<1>6. n.rec[h] = rec /\ \A g \in Hosts \ {h} : n.rec[g] = m.rec[g]  BY <1>1, <1>5
<1>. QED  BY <1>2, <1>5, <1>6, SentinelAssumption DEF n

LEMMA MarkLaunchingStep ==
  ASSUME IInv, PlanInv, NEW c \in Controllers, MarkLaunching(c)
  PROVE  StepOf(c)
<1>1. mem[c] # NoManifest /\ ctl[c].pc = "l_mark"
  BY DEF MarkLaunching, At, IInv, CallInv, CallReady, Calling, LockedPCs, CallPCs
<1>. DEFINE h == ctl[c].host
            x == [[ctl[c] EXCEPT !.then = "l_spawn"] EXCEPT !.pc = "save"]
            n == SetStatus(c, "launching")
<1>2. /\ ctl[c] \in Control /\ mem[c] \in Manifest /\ res[c] \in Reservations
      /\ RunOf[c] \in Runs /\ h \in Hosts /\ Sound(RunOf[c], mem[c])
      /\ Calling(c) /\ ctl[c].pc \notin SavePCs \cup {"d_release"}
      /\ ctl[c].play = "create" /\ (OneControllerPerRun => ~mem[c].destroying)
  BY <1>1, Saver
<1>3. /\ n \in Manifest /\ n.gen = mem[c].gen /\ n.destroying = mem[c].destroying /\ n # NoManifest
      /\ \A g \in Hosts \ {h} : n.rec[g] = mem[c].rec[g]
      /\ n.rec[h].keys = mem[c].rec[h].keys /\ n.rec[h].status = "launching"
  <2>1. "launching" \in Statuses  BY DEF Statuses
  <2>. QED  BY <1>2, <2>1, StatusSet DEF SetStatus
<1>4. x \in Control /\ x.pc = "save" /\ x.play = "create"
  <2>1. "l_spawn" \in AfterSave  BY DEF AfterSave, CallPCs
  <2>. QED  BY <1>2, <2>1 DEF Control, LockedPCs, SavePCs
<1>5. Become(c, x) /\ UNCHANGED store
      /\ mem' = [mem EXCEPT ![c] = n] /\ res' = [res EXCEPT ![c] = res[c]]
  BY DEF MarkLaunching, BeginSave
<1>. HIDE DEF x, n
<1>6. Saves(c, x, n, res[c])  BY <1>2, <1>3, <1>4, <1>5 DEF Saves
<1>7. Sound(RunOf[c], n)
  <2>1. \A g \in Hosts : /\ n.rec[g].keys = mem[c].rec[g].keys
                         /\ n.rec[g].status = "removed" => mem[c].rec[g].status = "removed"
    BY <1>3
  <2>. QED  BY <1>1, <1>2, <1>3, <2>1 DEF Sound
<1>8. ASSUME OneControllerPerRun, HeldInv PROVE Reserved(c, n, res[c])
  <2>1. mem[c].rec[h].status # "removed"  BY <1>1, <1>2, <1>8 DEF Sound
  <2>2. SameKeys(mem[c], n)  BY <1>3, <2>1 DEF SameKeys
  <2>. QED  BY <1>1, <1>2, <1>8, <2>2, SameKeysReserved
<1>. QED  BY <1>2, <1>3, <1>4, <1>6, <1>7, <1>8 DEF StepOf, SavesSoundly

LEMMA DestroyBeginStep ==
  ASSUME IInv, PlanInv, NEW c \in Controllers, DestroyBegin(c)
  PROVE  StepOf(c)
<1>1. mem[c] # NoManifest /\ ctl[c].pc = "destroy"
  BY DEF DestroyBegin, At
<1>. DEFINE x == [[ctl[c] EXCEPT !.then = "d_next", !.todo = Hosts, !.failed = FALSE] EXCEPT !.pc = "save"]
            n == [mem[c] EXCEPT !.destroying = TRUE]
<1>2. /\ ctl[c] \in Control /\ mem[c] \in Manifest /\ res[c] \in Reservations
      /\ RunOf[c] \in Runs /\ Sound(RunOf[c], mem[c])
      /\ Calling(c) /\ ctl[c].pc \notin SavePCs \cup {"d_release"} /\ ctl[c].play = "destroy"
  BY <1>1, Saver
<1>3. n \in Manifest /\ n.gen = mem[c].gen /\ n.destroying /\ n.rec = mem[c].rec /\ n # NoManifest
  BY <1>2, SentinelAssumption DEF Manifest
<1>4. x \in Control /\ x.pc = "save" /\ x.play = "destroy"
  <2>1. "d_next" \in AfterSave  BY DEF AfterSave, CallPCs
  <2>. QED  BY <1>2, <2>1 DEF Control, LockedPCs, SavePCs
<1>5. Become(c, x) /\ UNCHANGED store
      /\ mem' = [mem EXCEPT ![c] = n] /\ res' = [res EXCEPT ![c] = res[c]]
  BY DEF DestroyBegin, BeginSave
<1>. HIDE DEF x, n
<1>6. Saves(c, x, n, res[c])  BY <1>2, <1>3, <1>4, <1>5 DEF Saves
<1>7. SameKeys(mem[c], n)  BY <1>3 DEF SameKeys
<1>8. Sound(RunOf[c], n)  BY <1>1, <1>2, <1>3, <1>7, SameKeysSound
<1>9. HeldInv => Reserved(c, n, res[c])  BY <1>1, <1>2, <1>7, SameKeysReserved
<1>. QED  BY <1>2, <1>3, <1>4, <1>6, <1>8, <1>9 DEF StepOf, SavesSoundly

LEMMA RemoveDiskStep ==
  ASSUME IInv, PlanInv, NEW c \in Controllers, RemoveDisk(c)
  PROVE  StepOf(c)
<1>1. mem[c] # NoManifest /\ ctl[c].pc = "d_disk"
  BY DEF RemoveDisk, At, IInv, CallInv, CallReady, Calling, LockedPCs, CallPCs
<1>. DEFINE h == ctl[c].host
            x == [ctl[c] EXCEPT !.pc = "save", !.then = "d_next", !.child = 0,
                                !.todo = @ \ {ctl[c].host}]
            n == SetStatus(c, "removed")
            t == Released(res[c], Own(c), n)
<1>2. /\ ctl[c] \in Control /\ mem[c] \in Manifest /\ res[c] \in Reservations
      /\ RunOf[c] \in Runs /\ h \in Hosts /\ Sound(RunOf[c], mem[c])
      /\ Calling(c) /\ ctl[c].pc \notin SavePCs \cup {"d_release"}
      /\ ctl[c].play = "destroy" /\ mem[c].destroying
  BY <1>1, Saver
<1>3. /\ n \in Manifest /\ n.gen = mem[c].gen /\ n.destroying /\ n # NoManifest
      /\ \A g \in Hosts \ {h} : n.rec[g] = mem[c].rec[g]
      /\ n.rec[h].keys = mem[c].rec[h].keys /\ n.rec[h].status = "removed"
  <2>1. "removed" \in Statuses  BY DEF Statuses
  <2>. QED  BY <1>2, <2>1, StatusSet DEF SetStatus
<1>4. x \in Control /\ x.pc = "save" /\ x.play = "destroy"
  <2>1. "d_next" \in AfterSave  BY DEF AfterSave, CallPCs
  <2>. QED  BY <1>2, <2>1, Zero DEF Control, LockedPCs, SavePCs
<1>5. Become(c, x) /\ UNCHANGED store
      /\ mem' = [mem EXCEPT ![c] = n] /\ res' = [res EXCEPT ![c] = t]
  BY DEF RemoveDisk
<1>6. Own(c) \in Owner /\ Own(c) = [run |-> RunOf[c], gen |-> mem[c].gen]
  BY <1>1, OwnType DEF Own
<1>. HIDE DEF x, n
<1>7. t \in Reservations  BY <1>2, <1>6, ReleasedTable
<1>8. Saves(c, x, n, t)  BY <1>2, <1>3, <1>4, <1>5 DEF Saves
<1>9. Sound(RunOf[c], n)
  <2>1. \A g \in Hosts : n.rec[g].keys = mem[c].rec[g].keys  BY <1>3
  <2>. QED  BY <1>1, <1>2, <1>3, <2>1 DEF Sound
<1>10. ASSUME HeldInv PROVE Reserved(c, n, t)
  <2>1. SameKeys(mem[c], n)  BY <1>3 DEF SameKeys
  <2>2. Held(RunOf[c], n, res[c]) /\ Apart(n)
    BY <1>1, <1>2, <1>10, <2>1, SameKeysReserved DEF Reserved
  <2>3. \A g \in Hosts, e \in Endpoints : n.rec[g].keys[e] \in Key
    BY <1>3 DEF Manifest, Record
  <2>4. \A g \in Hosts, e \in Endpoints : n.rec[g].status # "removed" => n.rec[g].keys[e] \in ActiveKeys(n)
    BY <1>3, ActiveKey
  <2>5. Held(RunOf[c], n, t)  BY <2>2, <2>3, <2>4 DEF Held, Released
  <2>6. KeepsOthers(c, t)  BY <1>6 DEF KeepsOthers, Released
  <2>. QED  BY <2>2, <2>5, <2>6 DEF Reserved
<1>. HIDE DEF t
<1>. QED  BY <1>2, <1>3, <1>4, <1>7, <1>8, <1>9, <1>10 DEF StepOf, SavesSoundly

LEMMA ReserveExistingStep ==
  ASSUME IInv, PlanInv, NEW c \in Controllers, ReserveExisting(c)
  PROVE  StepOf(c)
<1>1. /\ ctl[c] \in Control /\ ctl[c].pc = "reserve" /\ Calling(c) /\ PlayFits(ctl[c]) /\ PlanOf(c)
      /\ mem[c] # NoManifest /\ ~mem[c].destroying
      /\ mem[c] \in Manifest /\ res[c] \in Reservations
  BY OwnType DEF IInv, TypeOK, CallInv, PlanInv, ReserveExisting, At, Calling, LockedPCs, CallPCs
<1>2. ctl[c].play = "create"  BY <1>1 DEF PlayFits, CreatePCs, CreateCalls
<1>3. CASE Return(c, [ctl[c] EXCEPT !.pc = "media"])
  <2>. DEFINE x == [ctl[c] EXCEPT !.pc = "media"]
  <2>1. x \in Control /\ x.pc = "media"  BY <1>1 DEF Control, PlayPCs
  <2>2. Leaves(c, x)  BY <1>1, <1>3, <2>1 DEF Leaves, Return, Unlock
  <2>. QED  BY <2>1, <2>2 DEF StepOf
<1>4. CASE BeginSave(c, [ctl[c] EXCEPT !.then = "media"], mem[c], res[c])
  <2>. DEFINE x == [[ctl[c] EXCEPT !.then = "media"] EXCEPT !.pc = "save"]
  <2>1. x \in Control /\ x.pc = "save" /\ x.play = "create"
    BY <1>1, <1>2 DEF Control, AfterSave, LockedPCs, SavePCs
  <2>2. Become(c, x) /\ UNCHANGED store
        /\ mem' = [mem EXCEPT ![c] = mem[c]] /\ res' = [res EXCEPT ![c] = res[c]]
    BY <1>4 DEF BeginSave
  <2>. HIDE DEF x
  <2>3. Saves(c, x, mem[c], res[c])  BY <1>1, <2>1, <2>2 DEF Saves, SavePCs
  <2>4. Sound(RunOf[c], mem[c])  BY <1>1 DEF PlanOf
  <2>5. HeldInv => Reserved(c, mem[c], res[c])
    BY <1>1, SameKeysReserved DEF SameKeys
  <2>. QED  BY <1>1, <2>1, <2>3, <2>4, <2>5 DEF StepOf, SavesSoundly
<1>. QED  BY <1>3, <1>4 DEF ReserveExisting

\* A key that another table entry does not conflict with is free itself.
LEMMA FreeKey ==
  ASSUME NEW k \in Key, NEW table, Allocatable(k, table)
  PROVE  table[k] = NoOne
BY DEF Allocatable, Conflicts

\* An explicit request is met by itself alone.
LEMMA ExplicitMatch ==
  ASSUME NEW r \in Runs, NEW h \in Hosts, NEW e \in Endpoints, NEW k \in Key,
         Matches(k, Request[r][h][e]), Request[r][h][e].port # AutoPort
  PROVE  k = Request[r][h][e]
<1>1. Request[r][h][e] \in [proto : Protocols, addr : Addresses, port : Ports \cup {AutoPort}]
  BY RequestAssumption
<1>. QED  BY <1>1 DEF Matches, Key

LEMMA ReserveFreshStep ==
  ASSUME IInv, PlanInv, NEW c \in Controllers, ReserveFresh(c), IInv'
  PROVE  StepOf(c)
<1>. DEFINE r == RunOf[c]
<1>1. /\ ctl[c] \in Control /\ ctl[c].pc = "reserve" /\ Calling(c) /\ PlayFits(ctl[c])
      /\ res[c] \in Reservations /\ r \in Runs
  BY SetsAssumption DEF IInv, TypeOK, CallInv, ReserveFresh, At, Calling, LockedPCs, CallPCs
<1>2. ctl[c].play = "create"  BY <1>1 DEF PlayFits, CreatePCs, CreateCalls
<1>3. PICK chosen \in Allocations(r, Slots(Hosts), res[c]) :
        BeginSave(c, [ctl[c] EXCEPT !.then = "media"],
         [gen |-> gens[r] + 1, destroying |-> FALSE,
          rec |-> [h \in Hosts |-> FreshRecord(r, chosen, h)]],
         [k \in Key |-> IF k \in {chosen[s] : s \in Slots(Hosts)}
                        THEN [run |-> r, gen |-> gens[r] + 1] ELSE res[c][k]])
  BY DEF ReserveFresh
<1>. DEFINE x == [[ctl[c] EXCEPT !.then = "media"] EXCEPT !.pc = "save"]
            n == [gen |-> gens[r] + 1, destroying |-> FALSE,
                  rec |-> [h \in Hosts |-> FreshRecord(r, chosen, h)]]
            t == [k \in Key |-> IF k \in {chosen[s] : s \in Slots(Hosts)}
                                THEN [run |-> r, gen |-> gens[r] + 1] ELSE res[c][k]]
<1>4. x \in Control /\ x.pc = "save" /\ x.play = "create"
  BY <1>1, <1>2 DEF Control, AfterSave, LockedPCs, SavePCs
<1>5. /\ Become(c, x) /\ UNCHANGED store
      /\ mem' = [mem EXCEPT ![c] = n] /\ res' = [res EXCEPT ![c] = t]
  BY <1>3 DEF BeginSave
<1>6. n \in Manifest /\ t \in Reservations /\ n # NoManifest
  <2>1. mem'[c] = n /\ res'[c] = t
    <3>. HIDE DEF n, t
    <3>. QED  BY <1>5 DEF IInv, TypeOK
  <2>2. mem'[c] \in Manifest \cup {NoManifest} /\ res'[c] \in Reservations  BY DEF IInv, TypeOK
  <2>3. Calling(c)' /\ ctl'[c].pc \notin {"reserve", "launch", "destroy"}
    BY <1>4, <1>5 DEF IInv, TypeOK, Become, Calling, LockedPCs, SavePCs
  <2>4. mem'[c] # NoManifest  BY <2>3 DEF IInv, CallInv, CallReady
  <2>. QED  BY <2>1, <2>2, <2>4
<1>7. /\ n.gen = gens[r] + 1 /\ ~n.destroying
      /\ \A h \in Hosts, e \in Endpoints :
           n.rec[h].keys[e] = chosen[<<h, e>>] /\ n.rec[h].status = "reserved"
      /\ \A h \in Hosts : n.rec[h].status = "reserved"
  BY DEF FreshRecord
<1>8. /\ \A s \in Slots(Hosts) : /\ chosen[s] \in Key /\ Allocatable(chosen[s], res[c])
                                 /\ Matches(chosen[s], Request[r][s[1]][s[2]])
      /\ PairwiseFree(chosen) /\ DOMAIN chosen = Slots(Hosts)
  BY DEF Allocations
<1>9. \A h \in Hosts, e \in Endpoints : <<h, e>> \in Slots(Hosts)  BY DEF Slots
<1>10. /\ \A s \in Slots(Hosts) : t[chosen[s]] = [run |-> r, gen |-> gens[r] + 1]
       /\ \A k \in Key : (\A s \in Slots(Hosts) : k # chosen[s]) => t[k] = res[c][k]
  BY <1>8
<1>. HIDE DEF x, n, t
<1>11. Saves(c, x, n, t)  BY <1>1, <1>4, <1>5, <1>6, <1>7 DEF Saves, SavePCs
<1>12. Sound(r, n)
  <2>1. ASSUME NEW h \in Hosts, NEW e \in Endpoints, Request[r][h][e].port # AutoPort
        PROVE  n.rec[h].keys[e] = Request[r][h][e]
    <3>1. chosen[<<h, e>>] \in Key /\ Matches(chosen[<<h, e>>], Request[r][h][e])
      BY <1>8, <1>9
    <3>. QED  BY <1>1, <1>7, <2>1, <3>1, ExplicitMatch
  <2>. QED  BY <1>7, <2>1 DEF Sound
<1>13. Reserved(c, n, t)
  <2>1. Held(r, n, t)  BY <1>7, <1>9, <1>10 DEF Held
  <2>2. Apart(n)
    <3>. SUFFICES ASSUME NEW g \in Hosts, NEW h \in Hosts, NEW d \in Endpoints, NEW e \in Endpoints,
                         <<g, d>> # <<h, e>>
                  PROVE  ~Conflicts(n.rec[g].keys[d], n.rec[h].keys[e])
      BY DEF Apart
    <3>1. ~Conflicts(chosen[<<g, d>>], chosen[<<h, e>>])
      BY <1>8, <1>9 DEF PairwiseFree
    <3>. QED  BY <1>7, <3>1
  <2>3. KeepsOthers(c, t)
    <3>1. ASSUME NEW k \in Key, res[c][k] # NoOne PROVE t[k] = res[c][k]
      <4>1. \A s \in Slots(Hosts) : k # chosen[s]  BY <1>8, <3>1, FreeKey
      <4>. QED  BY <1>10, <4>1
    <3>. QED  BY <3>1 DEF KeepsOthers
  <2>. QED  BY <2>1, <2>2, <2>3 DEF Reserved
<1>. QED  BY <1>4, <1>6, <1>11, <1>12, <1>13 DEF StepOf, SavesSoundly

\* The keys of a retry are the old ones but for the automatic endpoints of a guest.
LEMMA RetryPortsStep ==
  ASSUME IInv, PlanInv, NEW c \in Controllers, RetryPorts(c), IInv'
  PROVE  StepOf(c)
<1>. DEFINE r == RunOf[c]
            h == ctl[c].host
            Old == Rec(c).keys
<1>1. mem[c] # NoManifest /\ ctl[c].pc = "l_in_use"
  BY DEF RetryPorts, At, IInv, CallInv, CallReady, Calling, LockedPCs, CallPCs
<1>2. /\ ctl[c] \in Control /\ mem[c] \in Manifest /\ res[c] \in Reservations
      /\ r \in Runs /\ h \in Hosts /\ Sound(r, mem[c])
      /\ Calling(c) /\ ctl[c].pc \notin SavePCs \cup {"d_release"}
      /\ ctl[c].play = "create" /\ (OneControllerPerRun => ~mem[c].destroying)
  BY <1>1, Saver
<1>3. PICK chosen \in Allocations(r, AutoSlots(c), res[c]) :
        LET New == [e \in Endpoints |-> IF <<h, e>> \in AutoSlots(c) THEN chosen[<<h, e>>] ELSE Old[e]]
            m == [mem[c] EXCEPT !.rec[h].keys = New]
            taken == {chosen[s] : s \in AutoSlots(c)}
        IN BeginSave(c,
             [ctl[c] EXCEPT !.then = "l_spawn", !.tries = @ + 1, !.argv = RetriedArgv(@, Old, New)],
             m,
             Released([k \in Key |-> IF k \in taken THEN Own(c) ELSE res[c][k]], Own(c), m))
  BY DEF RetryPorts
<1>. DEFINE New == [e \in Endpoints |-> IF <<h, e>> \in AutoSlots(c) THEN chosen[<<h, e>>] ELSE Old[e]]
            n == [mem[c] EXCEPT !.rec[h].keys = New]
            taken == {chosen[s] : s \in AutoSlots(c)}
            held == [k \in Key |-> IF k \in taken THEN Own(c) ELSE res[c][k]]
            y == [ctl[c] EXCEPT !.then = "l_spawn", !.tries = @ + 1, !.argv = RetriedArgv(@, Old, New)]
            x == [y EXCEPT !.pc = "save"]
            t == Released(held, Own(c), n)
<1>4. /\ Become(c, x) /\ UNCHANGED store
      /\ mem' = [mem EXCEPT ![c] = n] /\ res' = [res EXCEPT ![c] = t]
  BY <1>3 DEF BeginSave
<1>5. x.pc = "save" /\ x.play = "create"  BY <1>2 DEF Control
<1>6. x \in Control /\ n \in Manifest /\ t \in Reservations /\ n # NoManifest
  <2>. HIDE DEF x, n, t
  <2>1. ctl'[c] = x /\ mem'[c] = n /\ res'[c] = t  BY <1>4 DEF Become, IInv, TypeOK
  <2>2. ctl'[c] \in Control /\ mem'[c] \in Manifest \cup {NoManifest} /\ res'[c] \in Reservations
    BY DEF IInv, TypeOK
  <2>3. Calling(c)' /\ ctl'[c].pc \notin {"reserve", "launch", "destroy"}
    BY <1>5, <2>1 DEF Calling, LockedPCs, SavePCs
  <2>4. mem'[c] # NoManifest  BY <2>3 DEF IInv, CallInv, CallReady
  <2>. QED  BY <2>1, <2>2, <2>4
<1>7. /\ n.gen = mem[c].gen /\ n.destroying = mem[c].destroying
      /\ \A g \in Hosts \ {h} : n.rec[g] = mem[c].rec[g]
      /\ n.rec[h].status = mem[c].rec[h].status /\ n.rec[h].keys = New
  <2>. HIDE DEF New
  <2>. QED  BY <1>2 DEF Manifest, Record
<1>8. /\ \A e \in Endpoints : New[e] = IF <<h, e>> \in AutoSlots(c) THEN chosen[<<h, e>>] ELSE Old[e]
      /\ Old = mem[c].rec[h].keys
      /\ \A e \in Endpoints : <<h, e>> \in AutoSlots(c) <=> Request[r][h][e].port = AutoPort
  BY DEF Rec, AutoSlots, Slots
<1>9. /\ \A s \in AutoSlots(c) : chosen[s] \in Key /\ Allocatable(chosen[s], res[c])
      /\ PairwiseFree(chosen) /\ DOMAIN chosen = AutoSlots(c)
  BY DEF Allocations
<1>10. Own(c) \in Owner /\ Own(c) = [run |-> r, gen |-> mem[c].gen] /\ Own(c) # NoOne
  BY <1>1, OwnType, SentinelAssumption DEF Own
<1>11. \A g \in Hosts, e \in Endpoints : n.rec[g].keys[e] \in Key /\ mem[c].rec[g].keys[e] \in Key
  <2>. HIDE DEF n
  <2>1. \A m \in Manifest : \A g \in Hosts, e \in Endpoints : m.rec[g].keys[e] \in Key
    BY DEF Manifest, Record
  <2>. QED  BY <1>2, <1>6, <2>1
<1>12. /\ \A k \in Key : k \in taken => held[k] = Own(c)
       /\ \A k \in Key : k \notin taken => held[k] = res[c][k]
       /\ \A k \in Key : t[k] = IF held[k] = Own(c) /\ k \notin ActiveKeys(n) THEN NoOne ELSE held[k]
       /\ \A k : k \in taken <=> \E s \in AutoSlots(c) : k = chosen[s]
  <2>1. \A k \in Key : t[k] = IF held[k] = Own(c) /\ k \notin ActiveKeys(n) THEN NoOne ELSE held[k]
    <3>. HIDE DEF held, n
    <3>. QED  BY DEF Released
  <2>. QED  BY <2>1
<1>. HIDE DEF x, n, t, New, Old, held, taken
<1>13. Saves(c, x, n, t)  BY <1>2, <1>4, <1>5, <1>6, <1>7 DEF Saves
<1>14. Sound(r, n)
  <2>1. ASSUME NEW g \in Hosts, NEW e \in Endpoints, Request[r][g][e].port # AutoPort
        PROVE  n.rec[g].keys[e] = Request[r][g][e]
    <3>1. mem[c].rec[g].keys[e] = Request[r][g][e]  BY <1>1, <1>2, <2>1 DEF Sound
    <3>2. CASE g = h  BY <1>7, <1>8, <2>1, <3>1, <3>2
    <3>3. CASE g # h  BY <1>7, <3>1, <3>3
    <3>. QED  BY <3>2, <3>3
  <2>2. \A g \in Hosts : n.rec[g].status = "removed" => n.destroying
    BY <1>1, <1>2, <1>7 DEF Sound
  <2>. QED  BY <2>1, <2>2 DEF Sound
<1>15. ASSUME HeldInv PROVE Reserved(c, n, t)
  <2>1. Held(r, mem[c], res[c]) /\ Apart(mem[c])
    BY <1>1, <1>2, <1>15 DEF HeldInv, CopiesHeld, OwnHeld
  <2>2. \A k \in Key : res[c][k] # NoOne => k \notin taken /\ held[k] = res[c][k]
    BY <1>9, <1>12, FreeKey
  \* Each active key of n is a fresh one, or one of the old, in another slot.
  <2>3. ASSUME NEW g \in Hosts, NEW e \in Endpoints, n.rec[g].status # "removed"
        PROVE  \/ g = h /\ <<g, e>> \in AutoSlots(c) /\ n.rec[g].keys[e] = chosen[<<g, e>>]
               \/ /\ n.rec[g].keys[e] = mem[c].rec[g].keys[e]
                  /\ mem[c].rec[g].status # "removed"
                  /\ res[c][n.rec[g].keys[e]] = Own(c)
    <3>1. CASE g = h /\ <<h, e>> \in AutoSlots(c)  BY <1>7, <1>8, <3>1
    <3>2. CASE ~(g = h /\ <<h, e>> \in AutoSlots(c))
      <4>1. n.rec[g].keys[e] = mem[c].rec[g].keys[e] /\ n.rec[g].status = mem[c].rec[g].status
        <5>1. CASE g = h  BY <1>7, <1>8, <3>2, <5>1
        <5>2. CASE g # h  BY <1>7, <5>2
        <5>. QED  BY <5>1, <5>2
      <4>2. res[c][mem[c].rec[g].keys[e]] = Own(c)  BY <1>10, <2>1, <2>3, <4>1 DEF Held
      <4>. QED  BY <2>3, <4>1, <4>2
    <3>. QED  BY <3>1, <3>2
  <2>4. Held(r, n, t)
    <3>. SUFFICES ASSUME NEW g \in Hosts, NEW e \in Endpoints, n.rec[g].status # "removed"
                  PROVE  t[n.rec[g].keys[e]] = Own(c)
      BY <1>7, <1>10 DEF Held
    <3>1. n.rec[g].keys[e] \in Key /\ n.rec[g].keys[e] \in ActiveKeys(n)
      BY <1>6, <1>11, ActiveKey
    <3>2. held[n.rec[g].keys[e]] = Own(c)
      <4>. DEFINE k == n.rec[g].keys[e]
      <4>. HIDE DEF k
      <4>1. CASE <<g, e>> \in AutoSlots(c) /\ k = chosen[<<g, e>>]
        BY <1>12, <3>1, <4>1 DEF k
      <4>2. CASE res[c][k] = Own(c)  BY <1>10, <2>2, <3>1, <4>2 DEF k
      <4>. QED  BY <2>3, <4>1, <4>2 DEF k
    <3>. QED  BY <1>12, <3>1, <3>2
  <2>5. Apart(n)
    <3>. SUFFICES ASSUME NEW f \in Hosts, NEW g \in Hosts, NEW d \in Endpoints, NEW e \in Endpoints,
                         <<f, d>> # <<g, e>>, n.rec[f].status # "removed", n.rec[g].status # "removed"
                  PROVE  ~Conflicts(n.rec[f].keys[d], n.rec[g].keys[e])
      BY DEF Apart
    <3>1. CASE n.rec[f].keys[d] = chosen[<<f, d>>] /\ <<f, d>> \in AutoSlots(c)
      <4>1. CASE n.rec[g].keys[e] = chosen[<<g, e>>] /\ <<g, e>> \in AutoSlots(c)
        <5>1. ~Conflicts(chosen[<<f, d>>], chosen[<<g, e>>])
          BY <1>9, <3>1, <4>1 DEF PairwiseFree
        <5>. QED  BY <3>1, <4>1, <5>1
      <4>2. CASE res[c][n.rec[g].keys[e]] = Own(c)
        BY <1>9, <1>10, <1>11, <3>1, <4>2 DEF Allocatable
      <4>. QED  BY <2>3, <4>1, <4>2
    <3>2. CASE /\ n.rec[f].keys[d] = mem[c].rec[f].keys[d] /\ mem[c].rec[f].status # "removed"
               /\ res[c][n.rec[f].keys[d]] = Own(c)
      <4>1. CASE n.rec[g].keys[e] = chosen[<<g, e>>] /\ <<g, e>> \in AutoSlots(c)
        <5>1. ~Conflicts(n.rec[g].keys[e], n.rec[f].keys[d])
          BY <1>9, <1>10, <1>11, <3>2, <4>1 DEF Allocatable
        <5>. QED  BY <5>1, ConflictsSymmetric
      <4>2. CASE n.rec[g].keys[e] = mem[c].rec[g].keys[e] /\ mem[c].rec[g].status # "removed"
        <5>1. ~Conflicts(mem[c].rec[f].keys[d], mem[c].rec[g].keys[e])
          BY <2>1, <3>2, <4>2 DEF Apart
        <5>. QED  BY <3>2, <4>2, <5>1
      <4>. QED  BY <2>3, <4>1, <4>2
    <3>. QED  BY <2>3, <3>1, <3>2
  <2>6. KeepsOthers(c, t)
    <3>1. ASSUME NEW k \in Key, res[c][k] # NoOne, res[c][k].run # r PROVE t[k] = res[c][k]
      <4>1. held[k] = res[c][k] /\ res[c][k] # Own(c)  BY <1>10, <2>2, <3>1
      <4>. QED  BY <1>12, <4>1
    <3>. QED  BY <3>1 DEF KeepsOthers
  <2>. QED  BY <2>4, <2>5, <2>6 DEF Reserved
<1>. QED  BY <1>6, <1>13, <1>14, <1>15 DEF StepOf, SavesSoundly

\* Where control may go, in the next state too, is typed.
LEMMA Became ==
  ASSUME IInv, IInv', NEW c \in Controllers, NEW x, Become(c, x)
  PROVE  x \in Control
BY DEF Become, IInv, TypeOK

LEMMA ReturnStep ==
  ASSUME IInv, IInv', NEW c \in Controllers, NEW x, Return(c, x),
         \/ x.pc = "idle" /\ ctl[c].pc # "publish"
         \/ x.pc = "status_call" /\ ctl[c].pc \in LaunchPCs
  PROVE  StepOf(c)
<1>1. x \in Control  BY Became DEF Return
<1>2. Leaves(c, x)  BY DEF Return, Unlock, Leaves
<1>. QED  BY <1>1, <1>2 DEF StepOf

LEMMA FailStep ==
  ASSUME IInv, IInv', NEW c \in Controllers, Fail(c), ctl[c].pc # "publish"
  PROVE  StepOf(c)
BY ReturnStep, IdleFits DEF Fail

LEMMA MoveStep ==
  ASSUME IInv, IInv', NEW c \in Controllers, NEW x, Become(c, x), UNCHANGED <<store, copies>>,
         \/ ctl[c].pc = "idle" /\ x.pc \in {"reserve_call", "destroy_call"}
         \/ ctl[c].pc \in BetweenCalls /\ x.pc \in BetweenCalls \cup {"idle"}
         \/ ctl[c].pc \in LaunchPCs /\ x.pc \in LaunchPCs
         \/ ctl[c].pc \in CleanupPCs /\ x.pc \in CleanupPCs
  PROVE  StepOf(c)
<1>1. x \in Control  BY Became
<1>2. Moves(c, x)  BY DEF Moves
<1>. QED  BY <1>1, <1>2 DEF StepOf

LEMMA GotoStep ==
  ASSUME IInv, IInv', NEW c \in Controllers, NEW pc, Goto(c, pc), UNCHANGED <<store, copies>>,
         \/ ctl[c].pc \in LaunchPCs /\ pc \in LaunchPCs
         \/ ctl[c].pc \in CleanupPCs /\ pc \in CleanupPCs
  PROVE  StepOf(c)
<1>1. [ctl[c] EXCEPT !.pc = pc].pc = pc  BY DEF IInv, TypeOK, Control
<1>. QED  BY <1>1, MoveStep DEF Goto

LEMMA CollectedStep ==
  ASSUME IInv, IInv', NEW c \in Controllers, Become(c, Collected(c)), UNCHANGED <<store, copies>>,
         ctl[c].pc \in CleanupPCs
  PROVE  StepOf(c)
<1>1. Collected(c).pc = "d_next"  BY DEF Collected, IInv, TypeOK, Control
<1>. QED  BY <1>1, MoveStep DEF CleanupPCs

LEMMA LaunchedStep ==
  ASSUME IInv, IInv', NEW c \in Controllers, Launched(c), ctl[c].pc \in LaunchPCs
  PROVE  StepOf(c)
<1>1. ctl[c] \in Control /\ ctl[c].pc # "publish"
  BY DEF IInv, TypeOK, LaunchPCs, CreateCalls
<1>2. CASE Return(c, IdleControl)  BY <1>1, <1>2, ReturnStep, IdleFits
<1>3. CASE Return(c, [ctl[c] EXCEPT !.pc = "status_call", !.todo = ctl[c].todo \ {ctl[c].host}])
  <2>1. [ctl[c] EXCEPT !.pc = "status_call", !.todo = ctl[c].todo \ {ctl[c].host}].pc = "status_call"
    BY <1>1 DEF Control
  <2>. QED  BY <1>3, <2>1, ReturnStep
<1>. QED  BY <1>2, <1>3 DEF Launched

LEMMA PlaySteps ==
  ASSUME IInv, IInv', NEW c \in Controllers, Play(c)
  PROVE  StepOf(c)
<1>1. ctl[c] \in Control /\ IdleControl.pc = "idle"  BY IdleFits DEF IInv, TypeOK
<1>2. ASSUME NEW play \in {"create", "destroy"}, Start(c, play) PROVE StepOf(c)
  <2>. DEFINE x == [IdleControl EXCEPT
                      !.pc = IF play = "create" THEN "reserve_call" ELSE "destroy_call",
                      !.play = play, !.todo = Hosts]
  <2>1. x.pc \in {"reserve_call", "destroy_call"}  BY DEF IdleControl
  <2>2. Become(c, x) /\ UNCHANGED <<store, copies>> /\ ctl[c].pc = "idle"
    BY <1>2 DEF Start, Local, At
  <2>. HIDE DEF x
  <2>. QED  BY <2>1, <2>2, MoveStep
<1>3. CASE Media(c)
  <2>1. PICK h \in ctl[c].todo :
          Become(c, IF ctl[c].todo \ {h} # {} THEN [ctl[c] EXCEPT !.todo = ctl[c].todo \ {h}]
                    ELSE [ctl[c] EXCEPT !.todo = Hosts, !.pc = "status_call"])
    BY <1>3 DEF Media
  <2>. DEFINE x == IF ctl[c].todo \ {h} # {} THEN [ctl[c] EXCEPT !.todo = ctl[c].todo \ {h}]
                   ELSE [ctl[c] EXCEPT !.todo = Hosts, !.pc = "status_call"]
  <2>2. ctl[c].pc = "media" /\ UNCHANGED <<store, copies>>  BY <1>3 DEF Media, At
  <2>3. x.pc \in BetweenCalls  BY <1>1, <2>2 DEF Control, BetweenCalls
  <2>4. Become(c, x)  BY <2>1
  <2>. HIDE DEF x
  <2>. QED  BY <2>2, <2>3, <2>4, MoveStep DEF BetweenCalls
<1>4. CASE Status(c)
  <2>1. ctl[c].pc = "status_call"  BY <1>4 DEF Status, At
  <2>2. CASE Local(c, IdleControl)
    BY <1>1, <2>1, <2>2, MoveStep DEF Local, BetweenCalls
  <2>3. ASSUME NEW h \in ctl[c].todo,
               Local(c, [ctl[c] EXCEPT !.pc = "launch_call", !.host = h, !.tries = 0, !.child = 0,
                           !.argv = {manifest[RunOf[c]].rec[h].keys[e] : e \in Endpoints}])
        PROVE  StepOf(c)
    <3>. DEFINE x == [ctl[c] EXCEPT !.pc = "launch_call", !.host = h, !.tries = 0, !.child = 0,
                        !.argv = {manifest[RunOf[c]].rec[h].keys[e] : e \in Endpoints}]
    <3>1. x.pc = "launch_call"  BY <1>1 DEF Control
    <3>2. Become(c, x) /\ UNCHANGED <<store, copies>>  BY <2>3 DEF Local
    <3>. HIDE DEF x
    <3>. QED  BY <2>1, <3>1, <3>2, MoveStep DEF BetweenCalls
  <2>. QED  BY <1>4, <2>2, <2>3 DEF Status
<1>5. CASE Enter(c)  BY <1>5 DEF StepOf
<1>. QED  BY <1>2, <1>3, <1>4, <1>5 DEF Play

LEMMA CreateSteps ==
  ASSUME IInv, PlanInv, IInv', NEW c \in Controllers,
         \/ ReserveConflict(c) \/ ReserveRefused(c)
         \/ Launch(c) \/ LaunchRefused(c) \/ LaunchOwned(c) \/ UnlinkPidfile(c)
         \/ Spawn(c) \/ SpawnRefused(c)
         \/ Daemonized(c) \/ DaemonizedUnverified(c) \/ LaunchVerify(c)
         \/ RetryRefused(c) \/ LaunchFailed(c) \/ OldBindError(c)
  PROVE  StepOf(c)
<1>. USE DEF At
<1>1. ctl[c].pc # "publish"
  BY DEF ReserveConflict, ReserveRefused, Launch, LaunchRefused, LaunchOwned, UnlinkPidfile, Spawn,
         SpawnRefused, Daemonized, DaemonizedUnverified, LaunchVerify, RetryRefused, LaunchFailed,
         OldBindError, RecoverAt
<1>2. CASE Fail(c)  BY <1>1, <1>2, FailStep
<1>3. CASE Launch(c)  BY <1>3, RecoverStep DEF Launch
<1>4. CASE Daemonized(c)
  <2>1. mem[c] # NoManifest
    BY <1>4 DEF Daemonized, RecoverAt, IInv, CallInv, CallReady, Calling, LockedPCs, CallPCs
  <2>. QED  BY <1>4, <2>1, RecoverStep DEF Daemonized
<1>5. CASE LaunchOwned(c)
  <2>1. ctl[c].pc \in LaunchPCs /\ "l_unlink" \in LaunchPCs
    BY <1>5 DEF LaunchOwned, LaunchPCs, CreateCalls
  <2>2. CASE Launched(c)  BY <2>1, <2>2, LaunchedStep
  <2>3. CASE Move(c, "l_unlink")
    BY <2>1, <2>3, GotoStep DEF Move, Local, Goto
  <2>4. OwnedBy(c) \in {"yes", "no", "error"}  BY DEF OwnedBy, Owned
  <2>. QED  BY <1>2, <1>5, <2>2, <2>3, <2>4 DEF LaunchOwned
<1>6. CASE UnlinkPidfile(c)
  <2>1. ctl[c].pc \in LaunchPCs /\ "l_mark" \in LaunchPCs
    BY <1>6 DEF UnlinkPidfile, LaunchPCs, CreateCalls
  <2>. QED  BY <1>6, <2>1, GotoStep DEF UnlinkPidfile
<1>7. CASE Spawn(c)
  <2>. DEFINE x == [ctl[c] EXCEPT !.pc = "l_wait", !.child = clock + 1]
  <2>1. x.pc = "l_wait"  BY DEF IInv, TypeOK, Control
  <2>2. Become(c, x) /\ UNCHANGED <<store, copies>> /\ ctl[c].pc = "l_spawn"
    BY <1>7 DEF Spawn
  <2>. HIDE DEF x
  <2>. QED  BY <2>1, <2>2, MoveStep DEF LaunchPCs, CreateCalls
<1>8. CASE LaunchVerify(c)
  <2>1. ctl[c].pc \in LaunchPCs  BY <1>8 DEF LaunchVerify, LaunchPCs, CreateCalls
  <2>. QED  BY <1>2, <1>8, <2>1, LaunchedStep DEF LaunchVerify
<1>9. CASE OldBindError(c)
  <2>1. ctl[c].pc \in LaunchPCs /\ "l_in_use" \in LaunchPCs
    BY <1>9 DEF OldBindError, LaunchPCs, CreateCalls
  <2>. QED  BY <1>9, <2>1, GotoStep DEF OldBindError, Move, Local, Goto
<1>. QED
  BY <1>2, <1>3, <1>4, <1>5, <1>6, <1>7, <1>8, <1>9
  DEF ReserveConflict, ReserveRefused, LaunchRefused, SpawnRefused, DaemonizedUnverified,
      RetryRefused, LaunchFailed

LEMMA DestroySteps ==
  ASSUME IInv, PlanInv, IInv', NEW c \in Controllers,
         \/ DestroyNothing(c) \/ DestroyNext(c) \/ DestroyIncomplete(c)
         \/ DestroyRecover(c) \/ DestroyUncertain(c) \/ DestroyCheck(c)
         \/ OpenPidfd(c) \/ CheckAgain(c) \/ Terminate(c) \/ Exited(c)
         \/ TimeoutKill(c) \/ KillTimeout(c) \/ RemoveFiles(c) \/ ArtifactRetained(c)
  PROVE  StepOf(c)
<1>. USE DEF At
<1>1. CASE DestroyNothing(c) \/ DestroyIncomplete(c)
  BY <1>1, FailStep DEF DestroyNothing, DestroyIncomplete
<1>2. CASE DestroyRecover(c)
  <2>1. mem[c] # NoManifest
    BY <1>2 DEF DestroyRecover, RecoverAt, IInv, CallInv, CallReady, Calling, LockedPCs, CallPCs
  <2>. QED  BY <1>2, <2>1, RecoverStep DEF DestroyRecover
<1>3. ASSUME ctl[c].pc \in CleanupPCs, Collect(c) PROVE StepOf(c)
  BY <1>3, CollectedStep DEF Collect, Local
<1>4. ASSUME ctl[c].pc \in CleanupPCs, NEW pc \in CleanupPCs, Move(c, pc) PROVE StepOf(c)
  BY <1>4, GotoStep DEF Move, Local, Goto
<1>5. ASSUME ctl[c].pc \in CleanupPCs, NEW pc \in CleanupPCs, NEW stage, Signal(c, stage, pc) PROVE StepOf(c)
  BY <1>3, <1>5, GotoStep DEF Signal
<1>6. CASE DestroyNext(c)
  <2>1. PICK h \in ctl[c].todo : Local(c, [ctl[c] EXCEPT !.pc = "d_recover", !.host = h])
    BY <1>6 DEF DestroyNext
  <2>. DEFINE x == [ctl[c] EXCEPT !.pc = "d_recover", !.host = h]
  <2>2. x.pc = "d_recover"  BY DEF IInv, TypeOK, Control
  <2>3. Become(c, x) /\ UNCHANGED <<store, copies>> /\ ctl[c].pc = "d_next"
    BY <1>6, <2>1 DEF DestroyNext, Local
  <2>. HIDE DEF x
  <2>. QED  BY <2>2, <2>3, MoveStep DEF CleanupPCs
<1>7. CASE DestroyUncertain(c)  BY <1>3, <1>7 DEF DestroyUncertain, CleanupPCs
<1>8. CASE DestroyCheck(c)
  <2>1. "d_pidfd" \in CleanupPCs /\ "d_files" \in CleanupPCs /\ "d_check" \in CleanupPCs  BY DEF CleanupPCs
  <2>2. CASE Collect(c)  BY <1>3, <1>8, <2>1, <2>2 DEF DestroyCheck
  <2>3. CASE Move(c, IF OwnedBy(c) = "yes" THEN "d_pidfd" ELSE "d_files")
    BY <1>4, <1>8, <2>1, <2>3 DEF DestroyCheck
  <2>. QED  BY <1>8, <2>2, <2>3 DEF DestroyCheck
<1>9. CASE OpenPidfd(c)
  <2>1. ctl[c].pc = "d_pidfd" /\ ctl[c].pc \in CleanupPCs /\ "d_reown" \in CleanupPCs
    BY <1>9 DEF OpenPidfd, CleanupPCs
  <2>2. CASE Collect(c)  BY <1>3, <2>1, <2>2
  <2>3. CASE Local(c, [ctl[c] EXCEPT !.pc = "d_reown", !.child = procs[Rec(c).pid].start])
    <3>. DEFINE x == [ctl[c] EXCEPT !.pc = "d_reown", !.child = procs[Rec(c).pid].start]
    <3>1. x.pc = "d_reown"  BY DEF IInv, TypeOK, Control
    <3>2. Become(c, x) /\ UNCHANGED <<store, copies>>  BY <2>3 DEF Local
    <3>. HIDE DEF x
    <3>. QED  BY <2>1, <3>1, <3>2, MoveStep
  <2>. QED  BY <1>9, <2>2, <2>3 DEF OpenPidfd
<1>10. CASE CheckAgain(c)  BY <1>3, <1>4, <1>10 DEF CheckAgain, CleanupPCs
<1>11. CASE Terminate(c)  BY <1>5, <1>11 DEF Terminate, CleanupPCs
<1>12. CASE Exited(c)  BY <1>4, <1>12 DEF Exited, CleanupPCs
<1>13. CASE TimeoutKill(c)  BY <1>5, <1>13 DEF TimeoutKill, CleanupPCs
<1>14. CASE KillTimeout(c) \/ ArtifactRetained(c)
  BY <1>14, CollectedStep DEF KillTimeout, ArtifactRetained, CleanupPCs
<1>15. CASE RemoveFiles(c)
  <2>1. ctl[c].pc \in CleanupPCs /\ "d_disk" \in CleanupPCs  BY <1>15 DEF RemoveFiles, CleanupPCs
  <2>. QED  BY <1>15, <2>1, GotoStep DEF RemoveFiles
<1>. QED
  BY <1>1, <1>2, <1>6, <1>7, <1>8, <1>9, <1>10, <1>11, <1>12, <1>13, <1>14, <1>15

\* The one controller that waits for a launch, if any, learns its outcome.
LEMMA ReportStep ==
  ASSUME IInv, IInv', NEW s, NEW pc \in {"l_rc0", "l_in_use", "l_failed"}, Report(s, pc),
         UNCHANGED <<store, copies>>
  PROVE  Quiet \/ \E c \in Controllers : StepOf(c)
<1>1. ctl \in [Controllers -> Control]  BY DEF IInv, TypeOK
<1>2. CASE \A c \in Controllers : ~(At(c, "l_wait") /\ ctl[c].child = s)
  <2>1. ctl' = ctl  BY <1>1, <1>2 DEF Report
  <2>. QED  BY <2>1 DEF Quiet
<1>3. ASSUME NEW c \in Controllers, At(c, "l_wait"), ctl[c].child = s PROVE StepOf(c)
  <2>1. \A d \in Controllers : At(d, "l_wait") => d = c
    BY <1>3, OneCalls DEF At, Calling, LockedPCs, CallPCs
  <2>2. ctl' = [ctl EXCEPT ![c] = [ctl[c] EXCEPT !.pc = pc]]
    BY <1>1, <1>3, <2>1 DEF Report
  <2>. QED  BY <1>3, <2>2, GotoStep DEF Goto, Become, At, LaunchPCs, CreateCalls
<1>. QED  BY <1>2, <1>3

LEMMA QemuSteps ==
  ASSUME IInv, IInv', NEW p \in Pids, QemuStep(p)
  PROVE  Quiet \/ \E c \in Controllers : StepOf(c)
<1>1. CASE QemuPidfile(p)  BY <1>1 DEF QemuPidfile, Quiet
<1>2. CASE QemuReady(p)  BY <1>2, ReportStep DEF QemuReady
<1>3. CASE QemuInUse(p)  BY <1>3, ReportStep DEF QemuInUse, Gone
<1>4. CASE QemuBroken(p)  BY <1>4, ReportStep DEF QemuBroken, Gone
<1>5. CASE QemuExit(p)  BY <1>5 DEF QemuExit, Gone, Quiet
<1>6. CASE QemuKilled(p)  BY <1>6, ReportStep DEF QemuKilled, Gone
<1>. QED  BY <1>1, <1>2, <1>3, <1>4, <1>5, <1>6 DEF QemuStep

LEMMA WorldSteps ==
  ASSUME IInv, IInv', World
  PROVE  Quiet \/ \E c \in Controllers : StepOf(c)
<1>1. CASE \/ \E p \in Pids : ForeignStart(p) \/ ForeignExit(p)
           \/ \E k \in ForeignKeys : ForeignBind(k) \/ ForeignUnbind(k)
           \/ \E r \in Runs, h \in Hosts : Inspect(r, h)
  BY <1>1 DEF ForeignStart, ForeignExit, ForeignBind, ForeignUnbind, Inspect, Quiet
<1>2. ASSUME NEW c \in Controllers, QmpTimeout(c) PROVE StepOf(c)
  <2>1. ctl[c].pc \in {"l_owned", "l_verify", "d_check", "d_reown", "launch", "l_rc0", "d_recover"}
    BY <1>2 DEF QmpTimeout
  <2>2. CASE Return(c, IdleControl)  BY <2>1, <2>2, ReturnStep, IdleFits
  <2>3. CASE /\ ctl[c].play # "create" /\ Become(c, Collected(c))
             /\ UNCHANGED <<store, lock, copies, files, os, gens>>
    <3>1. ctl[c].pc \in CleanupPCs
      BY <2>1, <2>3 DEF IInv, CallInv, PlayFits, CreatePCs, CreateCalls, CleanupPCs
    <3>. QED  BY <2>3, <3>1, CollectedStep
  <2>. QED  BY <1>2, <2>2, <2>3 DEF QmpTimeout
<1>3. ASSUME NEW c \in Controllers, Crash(c) PROVE StepOf(c)
  <2>1. Leaves(c, IdleControl)  BY <1>3, IdleFits DEF Crash, Leaves, SavesWhole
  <2>. QED  BY <2>1, IdleType DEF StepOf
<1>. QED  BY <1>1, <1>2, <1>3 DEF World

LEMMA NextSteps ==
  ASSUME IInv, PlanInv, IInv', Next
  PROVE  Quiet \/ \E c \in Controllers : StepOf(c)
<1>1. ASSUME NEW c \in Controllers, Play(c) PROVE StepOf(c)  BY <1>1, PlaySteps
<1>2. ASSUME NEW c \in Controllers, Call(c) PROVE StepOf(c)
  <2>1. CASE SaveManifest(c) \/ SaveReservations(c) \/ RemoveManifest(c) \/ ReleaseAll(c)
    BY <2>1 DEF StepOf
  <2>. QED
    BY <1>2, <2>1, ReserveExistingStep, ReserveFreshStep, RetryPortsStep, MarkLaunchingStep,
       DestroyBeginStep, RemoveDiskStep, CreateSteps, DestroySteps DEF Call
<1>. QED  BY <1>1, <1>2, QemuSteps, WorldSteps DEF Next

LEMMA NextPlan == IInv /\ PlanInv /\ IInv' /\ [Next]_vars => PlanInv'
<1>. SUFFICES ASSUME IInv, PlanInv, IInv', [Next]_vars PROVE PlanInv'  OBVIOUS
<1>1. CASE Quiet
  <2>1. manifest' = manifest /\ mem' = mem /\ ctl' = ctl  BY <1>1 DEF Quiet, store, copies
  <2>2. \A d \in Controllers : PlanOf(d)'  BY <2>1, OthersPlan DEF PlanInv
  <2>. QED  BY <2>1, <2>2 DEF PlanInv, Sound
<1>2. UNCHANGED vars => Quiet  BY DEF vars, Quiet
<1>. QED  BY <1>1, <1>2, NextSteps, StepKeepsPlan

LEMMA NextHeld ==
  OneControllerPerRun /\ SavesWhole =>
    (IInv /\ PlanInv /\ HeldInv /\ IInv' /\ [Next]_vars => HeldInv')
<1>. SUFFICES ASSUME OneControllerPerRun, SavesWhole, IInv, PlanInv, HeldInv, IInv', [Next]_vars
              PROVE  HeldInv'
  OBVIOUS
<1>1. CASE Quiet
  <2>1. manifest' = manifest /\ mem' = mem /\ ctl' = ctl /\ reservations' = reservations /\ res' = res
    BY <1>1 DEF Quiet, store, copies
  <2>2. \A d \in Controllers : CopiesHeld(d)'  BY <2>1, OthersCopies DEF HeldInv
  <2>3. \A r \in Runs : Publishing(r) => Publishing(r)'  BY <2>1 DEF Publishing
  <2>4. \A r \in Runs : StoreHeld(r)'  BY <2>1, <2>3, StoreHeldKept DEF HeldInv
  <2>. QED  BY <2>2, <2>4 DEF HeldInv
<1>2. UNCHANGED vars => Quiet  BY DEF vars, Quiet
<1>. QED  BY <1>1, <1>2, NextSteps, StepKeepsHeld

LEMMA InitPlan == Init => PlanInv
<1>. SUFFICES ASSUME Init PROVE PlanInv  OBVIOUS
<1>1. ASSUME NEW c \in Controllers
      PROVE  /\ ctl[c].pc = "idle" /\ mem[c] = NoManifest /\ ~Calling(c) /\ ~Cleaning(ctl[c])
             /\ ctl[c].pc \notin BetweenCalls \cup LaunchPCs \cup SavePCs
  BY IdleFits, PCKinds DEF Init, Calling, Cleaning
<1>2. ASSUME NEW c \in Controllers PROVE PlanOf(c)
  BY <1>1 DEF PlanOf, Sound, Remembered, DestroyMarked, Creating, At
<1>3. \A r \in Runs : Sound(r, manifest[r])  BY DEF Init, Sound
<1>. QED  BY <1>2, <1>3 DEF PlanInv

LEMMA InitHeld == Init => HeldInv
<1>. SUFFICES ASSUME Init PROVE HeldInv  OBVIOUS
<1>1. ASSUME NEW c \in Controllers PROVE ~Calling(c)
  BY IdleFits, PCKinds DEF Init, Calling
<1>2. \A r \in Runs : StoreHeld(r)  BY DEF Init, StoreHeld
<1>. QED  BY <1>1, <1>2 DEF HeldInv, CopiesHeld, OthersHeld, OwnHeld

\* "Occupied explicit ports fail; they are never silently replaced"
\* (roles/qemu/README.md:60-61; qemu_runtime.py:129-160, 325-396).
THEOREM ExplicitPorts == Spec => []ExplicitPortsKept
<1>1. Init => IInv /\ PlanInv  BY InitIInv, InitPlan
<1>2. IInv /\ PlanInv /\ [Next]_vars => (IInv /\ PlanInv)'  BY NextIInv, NextPlan
<1>3. PlanInv => ExplicitPortsKept  BY DEF PlanInv, Sound, ExplicitPortsKept
<1>. QED  BY <1>1, <1>2, <1>3, PTL DEF Spec

\* No guest is started once a run is being destroyed, when no two controllers
\* work on one run (qemu_runtime.py:188-191, 420-436).
THEOREM DestroyedRunsStayDown == OneControllerPerRun => (Spec => []NoLaunchWhileDestroying)
<1>. SUFFICES ASSUME OneControllerPerRun PROVE Spec => []NoLaunchWhileDestroying
  OBVIOUS
<1>1. Init => IInv /\ PlanInv  BY InitIInv, InitPlan
<1>2. IInv /\ PlanInv /\ [Next]_vars => (IInv /\ PlanInv)'  BY NextIInv, NextPlan
<1>3. PlanInv => NoLaunchWhileDestroying
  BY DEF PlanInv, PlanOf, Creating, NoLaunchWhileDestroying, At, LaunchPCs, CreateCalls
<1>. QED  BY <1>1, <1>2, <1>3, PTL DEF Spec

\* Guests the manifests own never share an endpoint, when no two controllers work
\* on one run and none dies between the two files of a save
\* (qemu_runtime.py:129-160, 325-396).
THEOREM EndpointsExclude ==
  OneControllerPerRun /\ SavesWhole => (Spec => []EndpointsExclusive)
<1>. SUFFICES ASSUME OneControllerPerRun, SavesWhole PROVE Spec => []EndpointsExclusive
  OBVIOUS
<1>1. Init => IInv /\ PlanInv /\ HeldInv  BY InitIInv, InitPlan, InitHeld
<1>2. IInv /\ PlanInv /\ HeldInv /\ [Next]_vars => (IInv /\ PlanInv /\ HeldInv)'
  BY NextIInv, NextPlan, NextHeld
<1>3. IInv /\ PlanInv /\ HeldInv => EndpointsExclusive  BY HeldExcludes
<1>. QED  BY <1>1, <1>2, <1>3, PTL DEF Spec
===============================================================================

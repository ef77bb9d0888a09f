---------------------------- MODULE LifecycleProofs ----------------------------
(***************************************************************************)
(* Proofs about the scenarios, and first about an isolated KubeVirt run,   *)
(* for any hosts and inventories and any number of interruptions and of    *)
(* changes that other users make.                                          *)
(*                                                                         *)
(* Destroy removes the saved run last, so that a step which does so needs  *)
(* to know that nothing is left: Cleaning follows the order in which the   *)
(* resources of a host go, parents first, so that no controller can bring  *)
(* back what has been waited for.  Deleting rests on SeenOwned: what has   *)
(* the uid and the version of an object of the run is that object.         *)
(*                                                                         *)
(* What is proved of a run holds in a scenario, whatever backend it has    *)
(* chosen: the plays of the other backends leave the run alone.            *)
(*                                                                         *)
(* Of scenarios on a container engine: EngineInv says what the loops of a  *)
(* play have established, for as long as no job works against it.          *)
(***************************************************************************)
EXTENDS Lifecycle, TLAPS

-------------------------------------------------------------------------------
(* The invariant                                                           *)

Creating == {"c_check", "c_vm", "c_service", "c_inventory"}
OnResource == {"d_owned", "d_delete", "d_wait"}
Waiting == {"d_guest", "d_volume", "d_claim"}
Hostwise == {"d_next"} \cup OnResource \cup Waiting
Local == {"d_inventory", "d_record"}

\* A play works on the saved run, but for its first step.
RunReady ==
  /\ ctl.pc = "idle" => ctl = Idle
  /\ ctl.pc = "c_persist" =>
       ctl.run \in Inventories /\ ctl.spec = ctl.run /\ file \in {NoRun, ctl.run}
  /\ ctl.pc \in Creating => ctl.run \in Inventories /\ ctl.spec = ctl.run /\ file = ctl.run
  /\ ctl.pc \in {"d_check"} \cup Hostwise \cup Local => ctl.run \in Inventories /\ file = ctl.run

\* What a loop goes over, and the resource that is dealt with.
LoopReady ==
  /\ ctl.pc \in {"c_check", "d_check"} => ctl.todo \subseteq Checked(ctl.run)
  /\ ctl.pc \in {"c_vm"} \cup Hostwise => ctl.todo \subseteq OfKind(ctl.run, "vm")
  /\ ctl.pc = "c_service" => ctl.todo \subseteq OfKind(ctl.run, "service")
  /\ ctl.pc \in Local => ctl.todo = {}
  /\ ctl.pc \in OnResource => Direct(ctl.name)
  /\ ctl.pc \in OnResource \cup Waiting => Sibling("vm") \in ctl.todo

\* The saved run names all that the run has; a VM has a disk only if the run says so.
Accounted == \A n \in Names : Mine(n) => n \in NamesOf(file)
DiskNamed == \A n \in Names : n[2] = "vm" /\ Mine(n) /\ cluster[n].disk => file[n[1]].disk

\* The inventory goes before the saved run.
InventoryFirst == InventoryHasRun /\ (ctl.pc = "d_record" => ~inventory)

\* Nothing foreign is being deleted; what has a name that create is to write is the
\* run's, if it has not changed hands since create checked it.
ForeignStays == \A n \in Names : Foreign(n) => ~cluster[n].ending
NotForeign == \A n \in Names : Unguarded(n) => Owned(n) \/ n \in ctl.taken

\* uids are not used twice; what has the uid and version seen is the run's.
UidBound == \A n \in Names : cluster[n].uid <= made[n]
SeenOwned ==
  ctl.pc = "d_delete" =>
    /\ ctl.seen[1] # 0 /\ ctl.seen[1] <= made[ctl.name]
    /\ cluster[ctl.name].uid = ctl.seen[1] =>
         /\ ctl.seen[2] <= cluster[ctl.name].version
         /\ cluster[ctl.name].version = ctl.seen[2] => cluster[ctl.name].own

\* Hosts that are done have nothing left; of the others, what has been waited for.
HostEmpty(h) == \A kind \in Kinds : ~Mine(<<h, kind>>)
Cleaning ==
  /\ ctl.pc \in Hostwise \cup Local =>
       \A h \in Hosts : <<h, "vm">> \notin ctl.todo => HostEmpty(h)
  /\ ctl.pc \in OnResource /\ ctl.name[2] = "service" => ~Mine(Sibling("vm"))
  /\ ctl.pc \in Waiting => ~Mine(Sibling("vm")) /\ ~Mine(Sibling("service"))
  /\ ctl.pc \in {"d_volume", "d_claim"} => ~Mine(Sibling("guest"))
  /\ ctl.pc = "d_claim" => ~Mine(Sibling("volume"))

Facts == /\ RunReady /\ LoopReady /\ Accounted /\ DiskNamed /\ InventoryFirst
         /\ ForeignStays /\ NotForeign /\ UidBound /\ SeenOwned /\ Cleaning
IInv == TypeOK /\ Facts

-------------------------------------------------------------------------------
(* Types                                                                   *)

\* There are names, and AnyName is one.
LEMMA AnyNameIsName == AnyName \in Names
<1>1. PICK h \in Hosts : TRUE  BY KubevirtAssumption
<1>2. <<h, "vm">> \in Names  BY DEF Names, Kinds
<1>. QED BY <1>2 DEF AnyName

\* Between plays nothing is held.
LEMMA IdleType == Idle \in Control /\ Idle.todo = {}
BY AnyNameIsName DEF Idle, Control, PCs

\* The names a loop goes over are the run's.
LEMMA NamesType ==
  ASSUME NEW run
  PROVE  /\ Checked(run) \subseteq NamesOf(run) /\ NamesOf(run) \subseteq Names
         /\ \A kind : OfKind(run, kind) \subseteq NamesOf(run)
BY DEF Checked, NamesOf, OfKind

\* create checks every name it writes.
LEMMA DirectChecked ==
  ASSUME NEW run, NEW n \in NamesOf(run), Direct(n)
  PROVE  n \in Checked(run)
BY DEF Direct, Checked

\* The other resources of the host have names too.
LEMMA SiblingType ==
  ASSUME TypeOK, NEW kind \in Kinds
  PROVE  Sibling(kind) \in Names /\ Host \in Hosts
BY DEF TypeOK, Control, Sibling, Host, Names

\* What Add and Write leave are objects.
LEMMA AddType ==
  ASSUME TypeOK, NEW n \in Names, NEW own \in BOOLEAN, NEW parent \in Nat,
         NEW disk \in BOOLEAN, Add(n, own, parent, disk)
  PROVE  cluster' \in [Names -> Object] /\ made' \in [Names -> Nat]
<1>1. NewUid(n) \in Nat  BY DEF TypeOK, NewUid
<1>. QED BY <1>1 DEF Add, Write, TypeOK, Object

LEMMA WriteType ==
  ASSUME TypeOK, NEW n \in Names, NEW object \in Object, Write(n, object)
  PROVE  cluster' \in [Names -> Object]
BY DEF Write, TypeOK

\* A play at the next of its tasks, with names of the same run.
LEMMA EnterType ==
  ASSUME TypeOK, NEW pc \in PCs, NEW todo \in SUBSET NamesOf(ctl.run),
         ctl' = [ctl EXCEPT !.pc = pc, !.todo = todo]
  PROVE  ctl' \in Control /\ ctl'.todo \subseteq NamesOf(ctl'.run)
BY NamesType DEF TypeOK, Control

LEMMA GotoType ==
  ASSUME TypeOK, NEW pc \in PCs, ctl' = [ctl EXCEPT !.pc = pc]
  PROVE  ctl' \in Control /\ ctl'.todo \subseteq NamesOf(ctl'.run)
BY DEF TypeOK, Control

LEMMA DoneType ==
  ASSUME TypeOK, NEW n, NEW pc \in PCs, NEW todo \in SUBSET NamesOf(ctl.run), Done(n, pc, todo)
  PROVE  ctl' \in Control /\ ctl'.todo \subseteq NamesOf(ctl'.run)
<1>1. CASE ctl.todo = {n}  BY <1>1, EnterType DEF Done, Enter
<1>2. CASE ctl.todo # {n}
  <2>1. ctl' = [ctl EXCEPT !.todo = @ \ {n}]  BY <1>2 DEF Done
  <2>. QED BY <2>1 DEF TypeOK, Control
<1>. QED BY <1>1, <1>2

\* Applying leaves an object, whatever had the name.
LEMMA AppliedType ==
  ASSUME TypeOK, NEW n \in Names, Applied(n),
         n[2] = "vm" => ctl.spec[n[1]].disk \in BOOLEAN
  PROVE  cluster' \in [Names -> Object] /\ made' \in [Names -> Nat]
<1>. DEFINE disk == n[2] = "vm" /\ ctl.spec[n[1]].disk
<1>1. disk \in BOOLEAN  OBVIOUS
<1>2. CASE ~Present(n)
  <2>1. Add(n, TRUE, 0, disk)  BY <1>2 DEF Applied
  <2>. QED BY <2>1, <1>1, AddType
<1>3. CASE Present(n)
  <2>. DEFINE new == [cluster[n] EXCEPT !.own = TRUE, !.disk = disk,
                        !.version = IF cluster[n].own THEN @ ELSE @ + 1]
  <2>1. Write(n, new) /\ made' = made  BY <1>3 DEF Applied
  <2>2. cluster[n] \in Object  BY DEF TypeOK
  <2>3. (IF cluster[n].own THEN cluster[n].version ELSE cluster[n].version + 1) \in Nat
    BY <2>2 DEF Object
  <2>4. new \in Object
    <3>. HIDE DEF disk
    <3>. QED BY <1>1, <2>2, <2>3 DEF Object
  <2>. QED BY <2>1, <2>4, WriteType DEF TypeOK
<1>. QED BY <1>2, <1>3

\* A run has needs for each of its hosts.
LEMMA RunType ==
  ASSUME NEW run \in Inventories
  PROVE  /\ DOMAIN run \subseteq Hosts
         /\ \A h \in DOMAIN run : run[h].disk \in BOOLEAN /\ run[h].service \in BOOLEAN
         /\ \A n : n \in NamesOf(run) <=>
                  n \in Names /\ n[1] \in DOMAIN run /\ n[2] \in KindsOf(run[n[1]])
<1>1. DOMAIN run \subseteq Hosts /\ run \in [DOMAIN run -> Needs]  BY KubevirtAssumption
<1>2. run # NoRun  BY KubevirtAssumption
<1>. QED BY <1>1, <1>2 DEF Needs, NamesOf

\* Every step of create keeps types.
LEMMA CreateType ==
  ASSUME IInv,
         \/ \E inv \in Inventories : Create(inv) \/ Resume(inv)
         \/ Persist \/ CheckOwned \/ CheckRefuses \/ ApplyVm \/ ApplyService \/ WriteInventory
  PROVE  TypeOK'
<1>. USE IdleType DEF IInv, Facts
<1>1. ASSUME NEW inv \in Inventories, Create(inv)  PROVE TypeOK'
  <2>1. ctl' \in Control /\ ctl'.todo \subseteq NamesOf(ctl'.run)
    BY <1>1 DEF Create, Control, PCs, Idle
  <2>2. NoObject \in Object  BY DEF NoObject, Object
  <2>. QED BY <1>1, <2>1, <2>2 DEF Create, TypeOK
<1>2. ASSUME NEW inv \in Inventories, Resume(inv)  PROVE TypeOK'
  <2>1. ctl' \in Control /\ ctl'.todo \subseteq NamesOf(ctl'.run)
    BY <1>2 DEF Resume, Control, PCs, Idle, TypeOK
  <2>. QED BY <1>2, <2>1 DEF Resume, TypeOK, world
<1>3. CASE Persist
  <2>1. ctl' = [ctl EXCEPT !.pc = "c_check", !.todo = Checked(ctl.run)]
    BY <1>3 DEF Persist, Enter
  <2>2. ctl' \in Control /\ ctl'.todo \subseteq NamesOf(ctl'.run)
    BY <2>1, EnterType, NamesType DEF PCs
  <2>. QED BY <1>3, <2>2 DEF Persist, At, RunReady, TypeOK, world
<1>4. CASE CheckOwned
  <2>1. PICK n \in ctl.todo : IF At("c_check") THEN Done(n, "c_vm", OfKind(ctl.spec, "vm"))
                                              ELSE Done(n, "d_next", OfKind(ctl.run, "vm"))
    BY <1>4 DEF CheckOwned
  <2>2. ctl.pc = "c_check" => ctl.spec = ctl.run  BY DEF RunReady, Creating
  <2>3. ctl' \in Control /\ ctl'.todo \subseteq NamesOf(ctl'.run)
    BY <2>1, <2>2, DoneType, NamesType DEF PCs, At
  <2>. QED BY <1>4, <2>3 DEF CheckOwned, TypeOK, world
<1>5. CASE CheckRefuses  BY <1>5 DEF CheckRefuses, Fails, Stop, TypeOK, world
<1>6. CASE ApplyVm \/ ApplyService
  <2>1. ctl.run \in Inventories /\ ctl.spec = ctl.run
    BY <1>6 DEF ApplyVm, ApplyService, At, RunReady, Creating
  <2>2. PICK n \in ctl.todo : Applied(n) /\ \E pc \in PCs : \E todo \in SUBSET NamesOf(ctl.run) :
                                                  Done(n, pc, todo)
    BY <1>6, <2>1, NamesType DEF ApplyVm, ApplyService, PCs
  <2>3. n \in Names /\ ctl.spec[n[1]].disk \in BOOLEAN
    BY <2>1, <2>2, RunType, NamesType DEF TypeOK
  <2>4. cluster' \in [Names -> Object] /\ made' \in [Names -> Nat]
    BY <2>2, <2>3, AppliedType
  <2>5. ctl' \in Control /\ ctl'.todo \subseteq NamesOf(ctl'.run)  BY <2>2, DoneType
  <2>. QED BY <1>6, <2>4, <2>5 DEF ApplyVm, ApplyService, TypeOK
<1>7. CASE WriteInventory  BY <1>7 DEF WriteInventory, Stop, TypeOK, world
<1>. QED BY <1>1, <1>2, <1>3, <1>4, <1>5, <1>6, <1>7

\* Every step of destroy keeps types.
LEMMA DestroyType ==
  ASSUME IInv,
         \/ Destroy \/ DestroyHost \/ Recheck \/ NothingToDelete \/ RecheckRefuses \/ Delete
         \/ DeleteConflict \/ DeletedByOther \/ ResourceGone \/ GuestGone \/ VolumeGone
         \/ ClaimGone \/ HostsDone \/ RemoveInventory \/ RemoveRun \/ Interrupted
  PROVE  TypeOK'
<1>. USE IdleType DEF IInv
<1>. DEFINE CtlOK == ctl' \in Control /\ ctl'.todo \subseteq NamesOf(ctl'.run)
<1>a. ASSUME CtlOK, UNCHANGED <<file, inventory, world>>  PROVE TypeOK'
  BY <1>a DEF TypeOK, world
<1>b. ASSUME Stop  PROVE CtlOK  BY <1>b DEF Stop
<1>1. CASE Destroy
  <2>1. CtlOK  BY <1>1, NamesType DEF Destroy, Control, PCs, Idle, TypeOK
  <2>. QED BY <1>1, <2>1, <1>a DEF Destroy
<1>2. CASE DestroyHost
  <2>1. CtlOK  BY <1>2, NamesType DEF DestroyHost, Control, PCs, TypeOK
  <2>. QED BY <1>2, <2>1, <1>a DEF DestroyHost
<1>3. CASE Recheck
  <2>1. cluster[ctl.name] \in Object  BY DEF TypeOK, Control
  <2>2. CtlOK  BY <1>3, <2>1 DEF Recheck, Control, PCs, TypeOK, Object
  <2>. QED BY <1>3, <2>2, <1>a DEF Recheck
<1>4. CASE NothingToDelete \/ ResourceGone
  <2>1. AfterResource  BY <1>4 DEF NothingToDelete, ResourceGone
  <2>2. Sibling("service") \in Names  BY SiblingType DEF Kinds
  <2>3. CASE ctl' = [ctl EXCEPT !.pc = "d_owned", !.name = Sibling("service"), !.seen = <<0, 0>>]
    BY <2>2, <2>3, <1>4, <1>a DEF Control, PCs, TypeOK, NothingToDelete, ResourceGone
  <2>4. CASE ctl' = [ctl EXCEPT !.pc = "d_guest", !.seen = <<0, 0>>]
    BY <2>4, <1>4, <1>a DEF Control, PCs, TypeOK, NothingToDelete, ResourceGone
  <2>. QED BY <2>1, <2>3, <2>4 DEF AfterResource
<1>5. CASE RecheckRefuses \/ DeleteConflict
  BY <1>5, <1>a, <1>b DEF RecheckRefuses, DeleteConflict, Fails
<1>6. CASE Delete
  <2>1. CtlOK  BY <1>6, GotoType DEF Delete, Goto, PCs
  <2>2. cluster[ctl.name] \in Object /\ ctl.name \in Names  BY DEF TypeOK, Control
  <2>3. [cluster[ctl.name] EXCEPT !.ending = TRUE] \in Object  BY <2>2 DEF Object
  <2>4. cluster' \in [Names -> Object]  BY <1>6, <2>2, <2>3, WriteType DEF Delete
  <2>. QED BY <1>6, <2>1, <2>4 DEF Delete, TypeOK
<1>7. CASE DeletedByOther \/ HostsDone
  BY <1>7, GotoType, <1>a DEF DeletedByOther, HostsDone, Check, Goto, PCs, Cleaned
<1>8. CASE GuestGone \/ VolumeGone \/ ClaimGone
  <2>1. PICK pc \in PCs : HostDone(pc)
    BY <1>8 DEF GuestGone, VolumeGone, ClaimGone, AfterGuest, PCs
  <2>2. CtlOK
    <3>1. CASE pc = "d_next"
      <4>1. ctl' = [ctl EXCEPT !.pc = pc, !.todo = ctl.todo \ {Sibling("vm")}]
        BY <2>1, <3>1 DEF HostDone
      <4>2. ctl.todo \ {Sibling("vm")} \in SUBSET NamesOf(ctl.run)  BY DEF TypeOK
      <4>. QED BY <4>1, <4>2, EnterType
    <3>2. CASE pc # "d_next"
      <4>1. ctl' = [ctl EXCEPT !.pc = pc, !.todo = ctl.todo]  BY <2>1, <3>2 DEF HostDone
      <4>. QED BY <4>1, EnterType DEF TypeOK
    <3>. QED BY <3>1, <3>2
  <2>. QED BY <2>1, <2>2, <1>a DEF HostDone
<1>9. CASE RemoveInventory
  BY <1>9, GotoType DEF RemoveInventory, Goto, PCs, TypeOK, world
<1>10. CASE RemoveRun  BY <1>10, <1>b DEF RemoveRun, TypeOK, world
<1>11. CASE Interrupted  BY <1>11, <1>b DEF Interrupted, Fault, TypeOK
<1>. QED BY <1>1, <1>2, <1>3, <1>4, <1>5, <1>6, <1>7, <1>8, <1>9, <1>10, <1>11

LEMMA TookType ==
  ASSUME TypeOK, NEW n \in Names, Took(n)
  PROVE  ctl' \in Control /\ ctl'.todo \subseteq NamesOf(ctl'.run)
BY DEF TypeOK, Control, Took

\* The cluster and its users keep types.
LEMMA WorldType ==
  ASSUME IInv, NEW n \in Names, Cluster(n) \/ Users(n)
  PROVE  TypeOK'
<1>. USE DEF IInv
<1>1. cluster[n] \in Object /\ NoObject \in Object  BY DEF TypeOK, NoObject, Object
<1>2. [cluster[n] EXCEPT !.ending = TRUE] \in Object  BY <1>1 DEF Object
<1>3. CASE Controller(n)
  <2>1. Add(n, TRUE, cluster[Parent(n)].uid, FALSE)  BY <1>3 DEF Controller
  <2>2. Parent(n) \in Names  BY DEF Parent, Names, Kinds
  <2>3. cluster[Parent(n)].uid \in Nat  BY <2>2 DEF TypeOK, Object
  <2>4. cluster' \in [Names -> Object] /\ made' \in [Names -> Nat]  BY <2>1, <2>3, AddType
  <2>. QED BY <1>3, <2>4 DEF Controller, Fault, TypeOK
<1>4. CASE Collect(n)
  <2>1. cluster' \in [Names -> Object]  BY <1>4, <1>2, WriteType DEF Collect
  <2>. QED BY <1>4, <2>1 DEF Collect, TypeOK
<1>5. CASE Finalize(n) \/ Leave(n)
  <2>1. cluster' \in [Names -> Object]  BY <1>5, <1>1, WriteType DEF Finalize, Leave
  <2>. QED BY <1>5, <2>1 DEF Finalize, Leave, TypeOK
<1>6. CASE Vanish(n)
  <2>1. cluster' \in [Names -> Object]  BY <1>6, <1>2, WriteType DEF Vanish
  <2>. QED BY <1>6, <2>1 DEF Vanish, Fault, TypeOK
<1>7. CASE Relabel(n)
  <2>. DEFINE new == [cluster[n] EXCEPT !.own = FALSE, !.version = @ + 1]
  <2>1. cluster[n].version + 1 \in Nat  BY <1>1 DEF Object
  <2>2. new = [cluster[n] EXCEPT !.own = FALSE, !.version = cluster[n].version + 1]  OBVIOUS
  <2>3. new \in Object
    <3>. HIDE DEF new
    <3>. QED BY <1>1, <2>1, <2>2 DEF Object
  <2>4. cluster' \in [Names -> Object]  BY <1>7, <2>3, WriteType DEF Relabel
  <2>. QED BY <1>7, <2>4, TookType DEF Relabel, Fault, TypeOK
<1>8. CASE Squat(n)
  <2>1. cluster' \in [Names -> Object] /\ made' \in [Names -> Nat]
    BY <1>8, AddType DEF Squat
  <2>. QED BY <1>8, <2>1, TookType DEF Squat, Fault, TypeOK
<1>. QED BY <1>3, <1>4, <1>5, <1>6, <1>7, <1>8 DEF Cluster, Users

-------------------------------------------------------------------------------
(* Steps of the cluster and of other users                                 *)

\* To the play nothing happens but what the history says.
SameControl ==
  /\ ctl'.pc = ctl.pc /\ ctl'.run = ctl.run /\ ctl'.spec = ctl.spec /\ ctl'.todo = ctl.todo
  /\ ctl'.name = ctl.name /\ ctl'.seen = ctl.seen /\ ctl.taken \subseteq ctl'.taken
  /\ ctl.pc = "idle" => ctl' = ctl

LEMMA TookControl ==
  ASSUME TypeOK, NEW n \in Names, Took(n)
  PROVE  SameControl /\ (Unguarded(n) => n \in ctl'.taken)
BY DEF TypeOK, Control, Took, SameControl, Unguarded, At

\* What such a step does to the one object it is about.
OneObject(n) ==
  /\ UNCHANGED <<file, inventory>> /\ SameControl
  /\ \A m \in Names \ {n} : cluster'[m] = cluster[m] /\ made'[m] = made[m]
  /\ Direct(n) => made[n] <= made'[n]
  /\ cluster'[n].uid <= made'[n]
  /\ Mine(n)' => \/ Mine(n)
                 \/ /\ Dependent(n) /\ Mine(Parent(n))
                    /\ n[2] = "volume" => cluster[Parent(n)].disk
  /\ Mine(n)' /\ n[2] = "vm" /\ cluster'[n].disk => Mine(n) /\ cluster[n].disk
  /\ Foreign(n)' => ~cluster'[n].ending
  /\ Unguarded(n) /\ Owned(n) => Owned(n)' \/ n \in ctl'.taken
  /\ Foreign(n) => ~cluster'[n].ending /\ ~cluster'[n].own
  /\ Direct(n) => \/ cluster'[n].uid \in {0, made[n] + 1}
                  \/ /\ cluster'[n].uid = cluster[n].uid
                     /\ cluster[n].version <= cluster'[n].version
                     /\ cluster[n].version = cluster'[n].version => cluster'[n].own = cluster[n].own

LEMMA WorldObject ==
  ASSUME IInv, NEW n \in Names, Cluster(n) \/ Users(n)
  PROVE  OneObject(n)
<1>. USE DEF IInv, TypeOK
<1>1. cluster[n] \in Object /\ made[n] \in Nat /\ cluster[n].uid <= made[n]
  BY DEF Facts, UidBound
<1>2. Foreign(n) => ~cluster[n].ending  BY DEF Facts, ForeignStays
<1>. USE DEF Mine, Foreign, Present, Owned
<1>a. ASSUME NEW object, Write(n, object)
      PROVE  cluster'[n] = object /\ \A m \in Names \ {n} : cluster'[m] = cluster[m]
  BY <1>a DEF Write
<1>b. NewUid(n) \in Nat \ {0} /\ (Direct(n) => NewUid(n) = made[n] + 1)
  BY <1>1 DEF NewUid, Direct
<1>c. UNCHANGED ctl => SameControl  BY DEF SameControl
<1>3. CASE Controller(n)
  <2>1. Add(n, TRUE, cluster[Parent(n)].uid, FALSE)  BY <1>3 DEF Controller
  <2>2. Dependent(n) /\ ~Direct(n)  BY <1>3 DEF Controller, Dependent, Direct
  <2>3. /\ cluster'[n].uid = NewUid(n) /\ cluster'[n].ending = FALSE
        /\ \A m \in Names \ {n} : cluster'[m] = cluster[m] /\ made'[m] = made[m]
        /\ made'[n] = NewUid(n)
    BY <2>1 DEF Add, Write
  <2>4. /\ UNCHANGED <<file, inventory, ctl>> /\ ~Present(n) /\ Mine(Parent(n))
        /\ n[2] = "volume" => cluster[Parent(n)].disk
    BY <1>3 DEF Controller
  <2>5. ~Unguarded(n)  BY <2>2 DEF Unguarded
  <2>. QED BY <2>2, <2>3, <2>4, <2>5, <1>b, <1>c DEF OneObject, Dependent
<1>4. CASE Collect(n) \/ Vanish(n)
  <2>1. /\ cluster'[n] = [cluster[n] EXCEPT !.ending = TRUE] /\ Mine(n)
        /\ \A m \in Names \ {n} : cluster'[m] = cluster[m]
        /\ UNCHANGED <<file, inventory, ctl, made>>
    BY <1>4, <1>a DEF Collect, Vanish
  <2>2. /\ cluster'[n].uid = cluster[n].uid /\ cluster'[n].version = cluster[n].version
        /\ cluster'[n].own = cluster[n].own /\ cluster'[n].disk = cluster[n].disk
    BY <2>1, <1>1 DEF Object
  <2>3. Mine(n)' => Mine(n)  BY <2>1
  <2>4. ~Foreign(n) /\ ~Foreign(n)'  BY <2>1, <2>2
  <2>5. Owned(n)'  BY <2>1, <2>2
  <2>6. cluster'[n].uid <= made'[n] /\ made[n] <= made'[n]  BY <2>1, <2>2, <1>1
  <2>7. cluster[n].version <= cluster'[n].version  BY <2>2, <1>1 DEF Object
  <2>8. cluster'[n].disk => cluster[n].disk  BY <2>2
  <2>. QED BY <2>1, <2>2, <2>3, <2>4, <2>5, <2>6, <2>7, <2>8, <1>c DEF OneObject
<1>5. CASE Finalize(n) \/ Leave(n)
  <2>1. /\ cluster'[n] = NoObject /\ \A m \in Names \ {n} : cluster'[m] = cluster[m]
        /\ UNCHANGED <<file, inventory, ctl, made>>
    BY <1>5, <1>a DEF Finalize, Leave
  <2>. QED BY <2>1, <1>1, <1>c DEF OneObject, NoObject
<1>6. CASE Relabel(n)
  <2>1. /\ cluster'[n] = [cluster[n] EXCEPT !.own = FALSE, !.version = @ + 1]
        /\ \A m \in Names \ {n} : cluster'[m] = cluster[m]
        /\ UNCHANGED <<file, inventory, made>> /\ ~cluster[n].ending /\ Mine(n)
        /\ SameControl /\ (Unguarded(n) => n \in ctl'.taken)
    BY <1>6, <1>a, TookControl DEF Relabel
  <2>2. /\ cluster'[n].uid = cluster[n].uid /\ cluster'[n].version = cluster[n].version + 1
        /\ cluster'[n].own = FALSE /\ cluster'[n].ending = FALSE
    BY <2>1, <1>1 DEF Object
  <2>. QED BY <2>1, <2>2, <1>1 DEF OneObject, Object
<1>7. CASE Squat(n)
  <2>1. Add(n, FALSE, 0, FALSE) /\ UNCHANGED <<file, inventory>> /\ ~Present(n)
        /\ SameControl /\ (Unguarded(n) => n \in ctl'.taken)
    BY <1>7, TookControl DEF Squat
  <2>2. cluster'[n] = [uid |-> NewUid(n), version |-> 0, own |-> FALSE, parent |-> 0,
                       ending |-> FALSE, disk |-> FALSE]
    BY <2>1 DEF Add, Write
  <2>3. /\ \A m \in Names \ {n} : cluster'[m] = cluster[m] /\ made'[m] = made[m]
        /\ made'[n] = NewUid(n)
    BY <2>1 DEF Add, Write
  <2>4. cluster'[n].uid = NewUid(n) /\ cluster'[n].own = FALSE /\ cluster'[n].ending = FALSE
    BY <2>2
  <2>. QED BY <2>1, <2>3, <2>4, <1>1, <1>b DEF OneObject
<1>. QED BY <1>3, <1>4, <1>5, <1>6, <1>7 DEF Cluster, Users

\* The parent of a dependent, and who else depends on it, by the kinds.
LEMMA ParentCases ==
  ASSUME NEW n \in Names, Dependent(n)
  PROVE  /\ Parent(n) \in Names /\ Parent(n)[1] = n[1]
         /\ n[2] \in {"guest", "volume"} => Parent(n) = <<n[1], "vm">>
         /\ n[2] = "claim" => Parent(n) = <<n[1], "volume">>
         /\ n[2] \in {"guest", "volume", "claim"}
BY DEF Parent, Dependent, Names, Kinds

\* A step about one object keeps the run accounted for.
LEMMA WorldAccounted ==
  ASSUME IInv, NEW n \in Names, OneObject(n)
  PROVE  Accounted' /\ DiskNamed'
<1>. USE DEF IInv, Facts, OneObject
<1>1. \A m \in Names \ {n} : Mine(m)' => Mine(m)  BY DEF Mine, Present
<1>2. file \in Inventories \cup {NoRun} /\ NamesOf(file)' = NamesOf(file)
  BY DEF TypeOK, NamesOf
<1>3. Mine(n)' => n \in NamesOf(file)
  <2>1. CASE Mine(n)  BY <2>1 DEF Accounted
  <2>2. CASE Mine(n)' /\ ~Mine(n)
    <3>1. /\ Dependent(n) /\ Mine(Parent(n)) /\ Parent(n) \in NamesOf(file)
          /\ n[2] = "volume" => cluster[Parent(n)].disk
      BY <2>2, ParentCases DEF Accounted
    <3>2. file \in Inventories  BY <3>1, <1>2 DEF NamesOf
    <3>3. n[2] = "volume" => file[n[1]].disk  BY <3>1, ParentCases DEF DiskNamed
    <3>4. n[2] = "claim" => file[n[1]].disk
      BY <3>1, <3>2, ParentCases, RunType DEF KindsOf
    <3>5. n[2] \in KindsOf(file[n[1]])  BY <3>1, <3>3, <3>4, ParentCases DEF KindsOf
    <3>. QED BY <3>1, <3>2, <3>5, ParentCases, RunType
  <2>. QED BY <2>1, <2>2
<1>4. Accounted'  BY <1>1, <1>2, <1>3 DEF Accounted
<1>5. DiskNamed'
  <2>. SUFFICES ASSUME NEW m \in Names, m[2] = "vm", Mine(m)', cluster'[m].disk
                PROVE  file'[m[1]].disk
    BY DEF DiskNamed
  <2>1. Mine(m) /\ cluster[m].disk  BY <1>1
  <2>. QED BY <2>1 DEF DiskNamed
<1>. QED BY <1>4, <1>5

\* Nor does it bring back what destroy has waited for.
LEMMA WorldCleaning ==
  ASSUME IInv, NEW n \in Names, OneObject(n)
  PROVE  Cleaning'
<1>. USE DEF IInv, Facts, OneObject, SameControl
<1>1. \A m \in Names \ {n} : Mine(m)' => Mine(m)  BY DEF Mine, Present
<1>3. \A kind : Sibling(kind)' = Sibling(kind)  BY DEF Sibling, Host
<1>4. \A kind \in Kinds : Sibling(kind) \in Names /\ Sibling(kind)[1] = Host
                          /\ Sibling(kind)[2] = kind
  BY SiblingType DEF Sibling
<1>5. ASSUME NEW m \in Names, ~Mine(m), Mine(m)'
      PROVE  Dependent(m) /\ Mine(Parent(m)) /\ m = n
  BY <1>5, <1>1
<1>6. ctl.pc \in Hostwise \cup Local =>
        \A h \in Hosts : <<h, "vm">> \notin ctl.todo => HostEmpty(h)'
  <2>. SUFFICES ASSUME NEW h \in Hosts, HostEmpty(h), NEW kind \in Kinds, Mine(<<h, kind>>)'
                PROVE  FALSE
    BY DEF Cleaning, HostEmpty
  <2>1. <<h, kind>> \in Names  BY DEF Names
  <2>2. Dependent(<<h, kind>>) /\ Mine(Parent(<<h, kind>>))
    BY <2>1, <1>5 DEF HostEmpty
  <2>. QED BY <2>1, <2>2, ParentCases DEF HostEmpty, Kinds
<1>7. ASSUME NEW kind \in {"vm", "service"}, ~Mine(Sibling(kind))
      PROVE  ~Mine(Sibling(kind))'
  <2>1. kind \in Kinds /\ ~Dependent(Sibling(kind))  BY <1>4 DEF Kinds, Dependent
  <2>. QED BY <1>3, <1>4, <1>5, <1>7, <2>1 DEF Mine, Present
<1>8. ASSUME NEW kind \in {"guest", "volume"}, ~Mine(Sibling(kind)), ~Mine(Sibling("vm"))
      PROVE  ~Mine(Sibling(kind))'
  <2>1. kind \in Kinds /\ Sibling(kind) \in Names /\ Sibling(kind)[2] = kind
    BY <1>4 DEF Kinds
  <2>2. Dependent(Sibling(kind)) /\ Parent(Sibling(kind)) = Sibling("vm")
    BY <2>1, ParentCases DEF Dependent, Sibling, Parent
  <2>. QED BY <1>3, <1>5, <1>8, <2>1, <2>2 DEF Mine, Present
<1>. QED BY <1>6, <1>7, <1>8 DEF Cleaning, Waiting

\* A step of the cluster or of another user keeps all the rest.
LEMMA WorldStep ==
  ASSUME IInv, NEW n \in Names, Cluster(n) \/ Users(n)
  PROVE  IInv'
<1>1. OneObject(n)  BY WorldObject
<1>2. TypeOK' /\ Accounted' /\ DiskNamed' /\ Cleaning'
  BY <1>1, WorldType, WorldAccounted, WorldCleaning
<1>. USE <1>1 DEF IInv, Facts, OneObject, SameControl
<1>3. RunReady' /\ LoopReady' /\ InventoryFirst'
  BY DEF RunReady, LoopReady, InventoryFirst, InventoryHasRun, Sibling, Host, OfKind, Checked,
         NamesOf
<1>4. ForeignStays'  BY DEF ForeignStays, Foreign, Present
<1>5. UidBound'  BY DEF UidBound
<1>6. NotForeign'
  <2>1. \A m \in Names : Unguarded(m)' => Unguarded(m)
    BY DEF Unguarded, At, NamesOf
  <2>2. \A m \in Names \ {n} : Owned(m) => Owned(m)'  BY DEF Owned, Present
  <2>. QED BY <2>1, <2>2 DEF NotForeign
<1>7. SeenOwned'
  <2>. SUFFICES ASSUME ctl.pc = "d_delete" PROVE SeenOwned'  BY DEF SeenOwned
  <2>1. Direct(ctl.name) /\ ctl.name \in Names /\ ctl.seen[1] \in Nat /\ ctl.seen[2] \in Nat
    BY DEF LoopReady, OnResource, TypeOK, Control
  <2>2. cluster[ctl.name] \in Object /\ cluster'[ctl.name] \in Object /\ made[ctl.name] \in Nat
    BY <2>1, <1>2 DEF TypeOK
  <2>3. CASE ctl.name # n  BY <2>1, <2>3 DEF SeenOwned
  <2>4. CASE ctl.name = n
    <3>1. made[n] <= made'[n] /\ made'[n] \in Nat  BY <2>1, <2>4, <1>2 DEF TypeOK
    <3>. QED BY <2>1, <2>2, <2>4, <3>1 DEF SeenOwned, Object
  <2>. QED BY <2>3, <2>4
<1>. QED BY <1>2, <1>3, <1>4, <1>5, <1>6, <1>7

-------------------------------------------------------------------------------
(* Steps of create                                                         *)

\* What the rest of IInv says when no play runs.
LEMMA Stopped ==
  ASSUME ctl' = Idle
  PROVE  RunReady' /\ LoopReady' /\ NotForeign' /\ SeenOwned' /\ Cleaning'
BY DEF Idle, RunReady, LoopReady, NotForeign, Unguarded, At, SeenOwned, Cleaning, Creating,
       OnResource, Waiting, Hostwise, Local

\* What stays of IInv while the cluster does, and with it the saved run.
LEMMA SameWorld ==
  ASSUME IInv, UNCHANGED <<file, world>>
  PROVE  Accounted' /\ DiskNamed' /\ ForeignStays' /\ UidBound'
BY DEF IInv, Facts, world, Accounted, DiskNamed, ForeignStays, UidBound, Mine, Foreign,
       Present, NamesOf

\* A play that fails keeps the invariant.
LEMMA FailsStep ==
  ASSUME IInv, Stop, UNCHANGED <<file, inventory, cluster, made>>, faults' \in Nat
  PROVE  IInv'
<1>1. TypeOK'  BY IdleType DEF IInv, Stop, TypeOK
<1>2. Accounted' /\ DiskNamed' /\ ForeignStays' /\ UidBound'
  BY DEF IInv, Facts, Accounted, DiskNamed, ForeignStays, UidBound, Mine, Foreign, Present, NamesOf
<1>3. InventoryFirst'  BY DEF IInv, Facts, Stop, Idle, InventoryFirst, InventoryHasRun
<1>. QED BY <1>1, <1>2, <1>3, Stopped DEF Stop, IInv, Facts

\* A new run, or the one that is saved.
LEMMA BeginStep ==
  ASSUME IInv, NEW inv \in Inventories, Create(inv) \/ Resume(inv)
  PROVE  IInv'
<1>. USE DEF IInv, Facts
<1>1. TypeOK'  BY CreateType
<1>2. ctl' = [Idle EXCEPT !.pc = "c_persist", !.run = inv, !.spec = inv] /\ file \in {NoRun, inv}
      /\ UNCHANGED <<file, inventory>>
  BY DEF Create, Resume, Accepts
<1>3. ctl'.pc = "c_persist" /\ ctl'.run = inv /\ ctl'.spec = inv /\ ctl'.todo = {}
  BY <1>2 DEF Idle
<1>4. RunReady' /\ LoopReady' /\ NotForeign' /\ SeenOwned' /\ Cleaning'
  BY <1>2, <1>3 DEF RunReady, LoopReady, NotForeign, Unguarded, At, SeenOwned, Cleaning,
                    Creating, OnResource, Waiting, Hostwise, Local
<1>5. InventoryFirst'  BY <1>2, <1>3 DEF InventoryFirst, InventoryHasRun
<1>6. Accounted' /\ DiskNamed' /\ ForeignStays' /\ UidBound'
  <2>1. CASE Resume(inv)  BY <2>1, SameWorld DEF Resume
  <2>2. CASE Create(inv)
    BY <2>2 DEF Create, NoObject, Accounted, DiskNamed, ForeignStays, UidBound, Mine, Foreign, Present
  <2>. QED BY <2>1, <2>2
<1>. QED BY <1>1, <1>4, <1>5, <1>6

\* The saved run comes before anything is made.
LEMMA PersistStep == ASSUME IInv, Persist PROVE IInv'
<1>. USE DEF IInv, Facts, Persist, At
<1>1. TypeOK'  BY CreateType
<1>2. /\ ctl.run \in Inventories /\ ctl.spec = ctl.run /\ file \in {NoRun, ctl.run}
      /\ ctl.run # NoRun
  BY KubevirtAssumption DEF RunReady
<1>3. ctl' = [ctl EXCEPT !.pc = "c_check", !.todo = Checked(ctl.run)]  BY DEF Enter
<1>4. /\ ctl'.pc = "c_check" /\ ctl'.run = ctl.run /\ ctl'.spec = ctl.spec
      /\ ctl'.todo = Checked(ctl.run)
  BY <1>3 DEF TypeOK, Control
<1>5. RunReady' /\ LoopReady' /\ NotForeign' /\ SeenOwned' /\ Cleaning'
  BY <1>2, <1>4, DirectChecked DEF RunReady, LoopReady, NotForeign, Unguarded, At, SeenOwned,
                    Cleaning, Creating, OnResource, Waiting, Hostwise, Local
<1>6. InventoryFirst'  BY <1>2, <1>4 DEF InventoryFirst, InventoryHasRun
<1>7. ForeignStays' /\ UidBound'  BY DEF world, ForeignStays, UidBound, Foreign, Present
<1>8. Accounted' /\ DiskNamed'
  <2>1. CASE file = ctl.run  BY <2>1, SameWorld DEF world
  <2>2. CASE file = NoRun
    <3>1. \A n \in Names : ~Mine(n)'  BY <2>2 DEF Accounted, NamesOf, world, Mine, Present
    <3>. QED BY <3>1 DEF Accounted, DiskNamed
  <2>. QED BY <1>2, <2>1, <2>2
<1>. QED BY <1>1, <1>5, <1>6, <1>7, <1>8

\* A name that passes the check is not foreign.
LEMMA CheckStep == ASSUME IInv, CheckOwned PROVE IInv'
<1>. USE DEF IInv, Facts, At
<1>1. TypeOK'  BY CreateType
<1>2. PICK n \in ctl.todo :
        /\ ctl.pc \in {"c_check", "d_check"} /\ Passes(n)
        /\ IF At("c_check") THEN Done(n, "c_vm", OfKind(ctl.spec, "vm"))
                            ELSE Done(n, "d_next", OfKind(ctl.run, "vm"))
        /\ UNCHANGED <<file, inventory, world>>
  BY DEF CheckOwned
<1>3. /\ ctl.run \in Inventories /\ file = ctl.run
      /\ ctl.pc = "c_check" => ctl.spec = ctl.run
  BY <1>2 DEF RunReady, Creating
<1>4. Accounted' /\ DiskNamed' /\ ForeignStays' /\ UidBound' /\ InventoryFirst' /\ Owned(n)'
  <2>1. Accounted' /\ DiskNamed' /\ ForeignStays' /\ UidBound'  BY <1>2, SameWorld
  <2>2. ctl'.pc # "d_record"  BY <1>2 DEF Done, Enter, TypeOK, Control
  <2>. QED BY <1>2, <2>1, <2>2 DEF InventoryFirst, InventoryHasRun, Passes, Owned, Present, world
<1>c. \A m : Owned(m)' <=> Owned(m)  BY <1>2 DEF world, Owned, Present
<1>5. CASE ctl.todo # {n}
  <2>1. ctl' = [ctl EXCEPT !.todo = @ \ {n}]  BY <1>2, <1>5 DEF Done
  <2>2. /\ ctl'.pc = ctl.pc /\ ctl'.run = ctl.run /\ ctl'.spec = ctl.spec
        /\ ctl'.todo = ctl.todo \ {n} /\ ctl'.taken = ctl.taken
    BY <2>1 DEF TypeOK, Control
  <2>3. RunReady' /\ LoopReady' /\ SeenOwned' /\ Cleaning'
    BY <1>2, <1>3, <2>2 DEF RunReady, LoopReady, SeenOwned, Cleaning, Creating, OnResource,
                            Waiting, Hostwise, Local, Checked
  <2>4. NotForeign'
    <3>1. \A m \in Names : Unguarded(m)' => m = n \/ Unguarded(m)
      BY <1>2, <2>2 DEF Unguarded, NamesOf
    <3>. QED BY <1>4, <1>c, <2>2, <3>1 DEF NotForeign
  <2>. QED BY <1>1, <1>4, <2>3, <2>4
<1>6. CASE ctl.todo = {n} /\ ctl.pc = "c_check"
  <2>1. ctl' = [ctl EXCEPT !.pc = "c_vm", !.todo = OfKind(ctl.run, "vm")]
    BY <1>2, <1>3, <1>6 DEF Done, Enter
  <2>2. /\ ctl'.pc = "c_vm" /\ ctl'.run = ctl.run /\ ctl'.spec = ctl.spec
        /\ ctl'.todo = OfKind(ctl.run, "vm") /\ ctl'.taken = ctl.taken
    BY <2>1 DEF TypeOK, Control
  <2>3. RunReady' /\ LoopReady' /\ SeenOwned' /\ Cleaning'
    BY <1>2, <1>3, <1>6, <2>2 DEF RunReady, LoopReady, SeenOwned, Cleaning, Creating, OnResource,
                            Waiting, Hostwise, Local, OfKind
  <2>4. NotForeign'
    <3>1. \A m \in Names : Unguarded(m)' => m = n \/ Unguarded(m)
      BY <1>6, <2>2 DEF Unguarded, NamesOf
    <3>. QED BY <1>4, <1>c, <2>2, <3>1 DEF NotForeign
  <2>. QED BY <1>1, <1>4, <2>3, <2>4
<1>7. CASE ctl.todo = {n} /\ ctl.pc = "d_check"
  <2>1. ctl' = [ctl EXCEPT !.pc = "d_next", !.todo = OfKind(ctl.run, "vm")]
    BY <1>2, <1>7 DEF Done, Enter
  <2>2. ctl'.pc = "d_next" /\ ctl'.run = ctl.run /\ ctl'.todo = OfKind(ctl.run, "vm")
    BY <2>1 DEF TypeOK, Control
  <2>3. RunReady' /\ LoopReady' /\ SeenOwned' /\ NotForeign'
    BY <1>2, <1>3, <2>2 DEF RunReady, LoopReady, SeenOwned, NotForeign, Unguarded, At, Creating,
                            OnResource, Waiting, Hostwise, Local, OfKind
  <2>4. Cleaning'
    <3>1. ASSUME NEW h \in Hosts, <<h, "vm">> \notin OfKind(ctl.run, "vm"), NEW kind \in Kinds
          PROVE  ~Mine(<<h, kind>>)
      <4>1. <<h, "vm">> \in Names /\ <<h, kind>> \in Names  BY DEF Names, Kinds
      <4>2. h \notin DOMAIN ctl.run
        BY <1>3, <3>1, <4>1, RunType DEF OfKind, KindsOf
      <4>. QED BY <1>3, <4>1, <4>2, RunType DEF Accounted
    <3>. QED BY <1>2, <2>2, <3>1 DEF Cleaning, HostEmpty, Mine, Present, world, Hostwise, Local,
                                    OnResource, Waiting
  <2>. QED BY <1>1, <1>4, <2>3, <2>4
<1>. QED BY <1>2, <1>5, <1>6, <1>7

\* What has been applied is the run's, and nothing else has changed.
LEMMA AppliedObject ==
  ASSUME IInv, NEW n \in Names, Applied(n), Direct(n), ctl.spec[n[1]].disk \in BOOLEAN
  PROVE  /\ \A m \in Names \ {n} : cluster'[m] = cluster[m] /\ made'[m] = made[m]
         /\ Mine(n)' /\ cluster'[n].uid <= made'[n]
         /\ Present(n) => cluster'[n].ending = cluster[n].ending
         /\ n[2] = "vm" /\ cluster'[n].disk => ctl.spec[n[1]].disk
<1>. DEFINE disk == n[2] = "vm" /\ ctl.spec[n[1]].disk
<1>1. cluster[n] \in Object /\ made[n] \in Nat /\ cluster[n].uid <= made[n]
  BY DEF IInv, Facts, UidBound, TypeOK
<1>2. cluster \in [Names -> Object] /\ made \in [Names -> Nat]  BY DEF IInv, TypeOK
<1>3. CASE ~Present(n)
  <2>1. Add(n, TRUE, 0, disk)  BY <1>3 DEF Applied
  <2>2. NewUid(n) = made[n] + 1  BY DEF NewUid, Direct
  <2>3. cluster'[n] = [uid |-> NewUid(n), version |-> 0, own |-> TRUE, parent |-> 0,
                       ending |-> FALSE, disk |-> disk]
    BY <1>2, <2>1 DEF Add, Write
  <2>4. /\ made'[n] = NewUid(n)
        /\ \A m \in Names \ {n} : cluster'[m] = cluster[m] /\ made'[m] = made[m]
    BY <1>2, <2>1 DEF Add, Write
  <2>5. cluster'[n].uid = NewUid(n) /\ cluster'[n].own /\ cluster'[n].disk = disk  BY <2>3
  <2>. QED BY <1>1, <1>3, <2>2, <2>4, <2>5 DEF Mine, Present
<1>4. CASE Present(n)
  <2>. DEFINE new == [cluster[n] EXCEPT !.own = TRUE, !.disk = disk,
                        !.version = IF cluster[n].own THEN @ ELSE @ + 1]
  <2>1. Write(n, new) /\ made' = made  BY <1>4 DEF Applied
  <2>2. cluster'[n] = new /\ \A m \in Names \ {n} : cluster'[m] = cluster[m]
    BY <1>2, <2>1 DEF Write
  <2>3. /\ new.uid = cluster[n].uid /\ new.own = TRUE /\ new.disk = disk
        /\ new.ending = cluster[n].ending
    BY <1>1 DEF Object
  <2>4. /\ cluster'[n].uid = cluster[n].uid /\ cluster'[n].own = TRUE
        /\ cluster'[n].disk = disk /\ cluster'[n].ending = cluster[n].ending
    BY <2>2, <2>3
  <2>. QED BY <1>1, <1>4, <2>1, <2>2, <2>4 DEF Mine, Present
<1>. QED BY <1>3, <1>4

\* VMs and Services are made under the saved run's names.
LEMMA ApplyStep == ASSUME IInv, ApplyVm \/ ApplyService PROVE IInv'
<1>. USE DEF IInv, Facts
<1>1. TypeOK'  BY CreateType
<1>2. PICK n \in ctl.todo :
        /\ Applied(n) /\ ctl.pc \in {"c_vm", "c_service"}
        /\ \/ ctl.pc = "c_vm" /\ Done(n, "c_service", OfKind(ctl.spec, "service"))
           \/ Done(n, "c_inventory", {})
        /\ UNCHANGED <<file, inventory>>
  <2>1. CASE ApplyService  BY <2>1 DEF ApplyService, At
  <2>2. CASE ApplyVm
    <3>1. PICK n \in ctl.todo :
            /\ At("c_vm") /\ Applied(n) /\ UNCHANGED <<file, inventory>>
            /\ LET services == OfKind(ctl.spec, "service")
               IN Done(n, IF services = {} THEN "c_inventory" ELSE "c_service", services)
      BY <2>2 DEF ApplyVm
    <3>2. CASE OfKind(ctl.spec, "service") = {}
      <4>1. Done(n, "c_inventory", {})  BY <3>1, <3>2
      <4>. QED BY <3>1, <4>1 DEF At
    <3>3. CASE OfKind(ctl.spec, "service") # {}
      <4>1. Done(n, "c_service", OfKind(ctl.spec, "service"))  BY <3>1, <3>3
      <4>. QED BY <3>1, <4>1 DEF At
    <3>. QED BY <3>2, <3>3
  <2>. QED BY <2>1, <2>2
<1>3. ctl.run \in Inventories /\ file = ctl.run /\ ctl.spec = ctl.run
  BY <1>2 DEF RunReady, Creating
<1>4. /\ n \in Names /\ n \in NamesOf(ctl.run) /\ Direct(n) /\ n[1] \in DOMAIN ctl.run
      /\ n \in Checked(ctl.run) /\ ctl.spec[n[1]].disk \in BOOLEAN
  BY <1>2, <1>3, RunType DEF LoopReady, OfKind, Direct, Checked
<1>5. /\ \A m \in Names \ {n} : cluster'[m] = cluster[m] /\ made'[m] = made[m]
      /\ Mine(n)' /\ cluster'[n].uid <= made'[n]
      /\ n[2] = "vm" /\ cluster'[n].disk => ctl.spec[n[1]].disk
  BY <1>2, <1>4, AppliedObject
<1>6. Accounted' /\ DiskNamed' /\ UidBound' /\ ForeignStays'
  <2>1. \A m \in Names \ {n} : (Mine(m)' <=> Mine(m)) /\ (Foreign(m)' <=> Foreign(m))
    BY <1>5 DEF Mine, Foreign, Present
  <2>2. ~Foreign(n)'  BY <1>5 DEF Mine, Foreign
  <2>3. NamesOf(file)' = NamesOf(file)  BY <1>2 DEF NamesOf
  <2>4. Accounted'  BY <1>2, <1>3, <1>4, <2>1, <2>3 DEF Accounted
  <2>5. DiskNamed'  BY <1>2, <1>3, <1>5, <2>1 DEF DiskNamed
  <2>. QED BY <1>5, <2>1, <2>2, <2>4, <2>5 DEF UidBound, ForeignStays
<1>7. \A m \in Names : Unguarded(m) => Owned(m)' \/ m \in ctl.taken
  <2>1. Owned(n)'  BY <1>5 DEF Mine, Owned
  <2>. QED BY <1>5, <2>1 DEF NotForeign, Owned, Present
<1>8. CASE ctl.todo # {n}
  <2>1. ctl' = [ctl EXCEPT !.todo = @ \ {n}]  BY <1>2, <1>8 DEF Done
  <2>2. /\ ctl'.pc = ctl.pc /\ ctl'.run = ctl.run /\ ctl'.spec = ctl.spec
        /\ ctl'.todo = ctl.todo \ {n} /\ ctl'.taken = ctl.taken
    BY <2>1 DEF TypeOK, Control
  <2>3. RunReady' /\ LoopReady' /\ SeenOwned' /\ Cleaning' /\ InventoryFirst'
    BY <1>2, <1>3, <2>2 DEF RunReady, LoopReady, SeenOwned, Cleaning, Creating, OnResource,
         Waiting, Hostwise, Local, InventoryFirst, InventoryHasRun, OfKind, NamesOf
  <2>4. \A m \in Names : Unguarded(m)' => m = n \/ Unguarded(m)
    BY <1>2, <2>2 DEF Unguarded, At, NamesOf
  <2>5. Owned(n)'  BY <1>5 DEF Mine, Owned
  <2>6. NotForeign'  BY <1>7, <2>2, <2>4, <2>5 DEF NotForeign
  <2>. QED BY <1>1, <1>6, <2>3, <2>6
<1>9. CASE ctl.todo = {n}
  <2>1. PICK pc \in {"c_service", "c_inventory"}, todo \in {OfKind(ctl.spec, "service"), {}} :
          /\ ctl' = [ctl EXCEPT !.pc = pc, !.todo = todo]
          /\ pc = "c_service" => ctl.pc = "c_vm"
    BY <1>2, <1>9 DEF Done, Enter
  <2>2. /\ ctl'.pc = pc /\ ctl'.run = ctl.run /\ ctl'.spec = ctl.spec /\ ctl'.todo = todo
        /\ ctl'.taken = ctl.taken
    BY <2>1 DEF TypeOK, Control
  <2>3. RunReady' /\ LoopReady' /\ SeenOwned' /\ Cleaning' /\ InventoryFirst'
    BY <1>2, <1>3, <2>2 DEF RunReady, LoopReady, SeenOwned, Cleaning, Creating, OnResource,
         Waiting, Hostwise, Local, InventoryFirst, InventoryHasRun, OfKind, NamesOf
  <2>4. \A m \in Names : Unguarded(m)' => Unguarded(m)
    BY <1>3, <2>1, <2>2 DEF Unguarded, At, NamesOf, OfKind
  <2>5. NotForeign'  BY <1>7, <2>2, <2>4 DEF NotForeign
  <2>. QED BY <1>1, <1>6, <2>3, <2>5
<1>. QED BY <1>8, <1>9

\* Connection details are written for the saved run.
LEMMA WriteInventoryStep == ASSUME IInv, WriteInventory PROVE IInv'
<1>. USE DEF IInv, Facts
<1>1. TypeOK'  BY CreateType
<1>2. ctl.run \in Inventories /\ file = ctl.run /\ file # NoRun
  BY KubevirtAssumption DEF WriteInventory, At, RunReady, Creating
<1>3. Accounted' /\ DiskNamed' /\ ForeignStays' /\ UidBound'  BY SameWorld DEF WriteInventory
<1>4. InventoryFirst'
  BY <1>2 DEF WriteInventory, Stop, Idle, InventoryFirst, InventoryHasRun
<1>. QED BY <1>1, <1>3, <1>4, Stopped DEF WriteInventory, Stop

-------------------------------------------------------------------------------
(* Steps of destroy                                                        *)

\* What a play looks at stays as it was while the cluster does.
LEMMA SameObjects ==
  ASSUME UNCHANGED world
  PROVE  \A n : /\ Mine(n)' <=> Mine(n)
                /\ Foreign(n)' <=> Foreign(n)
                /\ Present(n)' <=> Present(n)
BY DEF world, Mine, Foreign, Present

\* What remains to be shown of a step of destroy that leaves cluster and files alone.
LEMMA PlayStep ==
  ASSUME IInv, TypeOK', UNCHANGED <<file, inventory, world>>, ctl'.pc \notin Creating,
         ctl'.pc # "d_record", RunReady', LoopReady', SeenOwned', Cleaning'
  PROVE  IInv'
<1>1. Accounted' /\ DiskNamed' /\ ForeignStays' /\ UidBound'  BY SameWorld
<1>2. InventoryFirst' /\ NotForeign'
  BY DEF IInv, Facts, InventoryFirst, InventoryHasRun, NotForeign, Unguarded, At, Creating
<1>. QED BY <1>1, <1>2 DEF IInv, Facts

LEMMA DestroyStep == ASSUME IInv, Destroy PROVE IInv'
<1>. USE DEF IInv, Facts, Destroy, At
<1>1. TypeOK'  BY DestroyType
<1>2. file \in Inventories  BY DEF TypeOK
<1>3. ctl'.pc = "d_check" /\ ctl'.run = file /\ ctl'.todo = Checked(file)  BY DEF Idle
<1>4. RunReady' /\ LoopReady' /\ SeenOwned' /\ Cleaning'
  BY <1>2, <1>3 DEF RunReady, LoopReady, SeenOwned, Cleaning, Creating, OnResource, Waiting,
                    Hostwise, Local, Checked, NamesOf
<1>. QED BY <1>1, <1>3, <1>4, PlayStep DEF Creating

LEMMA DestroyHostStep == ASSUME IInv, DestroyHost PROVE IInv'
<1>. USE DEF IInv, Facts, DestroyHost, At
<1>1. TypeOK'  BY DestroyType
<1>2. PICK n \in ctl.todo : ctl' = [ctl EXCEPT !.pc = "d_owned", !.name = n]  OBVIOUS
<1>3. ctl'.pc = "d_owned" /\ ctl'.run = ctl.run /\ ctl'.todo = ctl.todo /\ ctl'.name = n
  BY <1>2 DEF TypeOK, Control
<1>4. ctl.todo \subseteq OfKind(ctl.run, "vm")  BY DEF LoopReady, Hostwise
<1>5. n[2] = "vm" /\ n = <<n[1], "vm">> /\ n \in Names
  BY <1>4 DEF OfKind, NamesOf, Names
<1>6. Sibling("vm")' = n  BY <1>3, <1>5 DEF Sibling, Host
<1>7. RunReady' /\ LoopReady' /\ SeenOwned'
  BY <1>3, <1>4, <1>5, <1>6 DEF RunReady, LoopReady, SeenOwned, Creating, OnResource, Waiting,
                    Hostwise, Local, OfKind, NamesOf, Direct
<1>8. Cleaning'
  BY <1>3, <1>5, SameObjects DEF Cleaning, HostEmpty, OnResource, Waiting, Hostwise, Local
<1>. QED BY <1>1, <1>3, <1>7, <1>8, PlayStep DEF Creating

\* What is seen just before deleting is the run's.
LEMMA RecheckStep == ASSUME IInv, Recheck PROVE IInv'
<1>. USE DEF IInv, Facts, Recheck, At
<1>1. TypeOK'  BY DestroyType
<1>2. /\ ctl'.pc = "d_delete" /\ ctl'.run = ctl.run /\ ctl'.todo = ctl.todo /\ ctl'.name = ctl.name
      /\ ctl'.seen = <<cluster[ctl.name].uid, cluster[ctl.name].version>>
  BY DEF TypeOK, Control
<1>3. \A kind : Sibling(kind)' = Sibling(kind)  BY <1>2 DEF Sibling, Host
<1>4. RunReady' /\ LoopReady'
  BY <1>2, <1>3 DEF RunReady, LoopReady, Creating, OnResource, Waiting, Hostwise, Local, OfKind,
                    NamesOf, Direct
<1>5. SeenOwned'
  <2>1. ctl.name \in Names /\ cluster[ctl.name] \in Object  BY DEF TypeOK, Control
  <2>2. cluster[ctl.name].version <= cluster[ctl.name].version  BY <2>1 DEF Object
  <2>3. cluster[ctl.name].uid <= made[ctl.name]  BY <2>1 DEF UidBound
  <2>. QED BY <1>2, <2>2, <2>3 DEF SeenOwned, world, Mine, Present
<1>6. Cleaning'
  BY <1>2, <1>3, SameObjects DEF Cleaning, HostEmpty, OnResource, Waiting, Hostwise, Local
<1>. QED BY <1>1, <1>2, <1>4, <1>5, <1>6, PlayStep DEF Creating

\* On to the Service, or to waiting, once the resource is gone.
LEMMA AfterResourceStep == ASSUME IInv, NothingToDelete \/ ResourceGone PROVE IInv'
<1>. USE DEF IInv, Facts
<1>1. TypeOK' /\ AfterResource /\ ctl.pc \in OnResource /\ ~Mine(ctl.name)
      /\ UNCHANGED <<file, inventory, world>>
  BY DestroyType DEF NothingToDelete, ResourceGone, At, OnResource, Mine
<1>2. /\ ctl.run \in Inventories /\ file = ctl.run /\ Direct(ctl.name)
      /\ ctl.name \in Names /\ Sibling("vm") \in ctl.todo
  BY <1>1 DEF RunReady, LoopReady, Hostwise, OnResource, TypeOK, Control
<1>3. /\ ctl'.pc \in {"d_owned", "d_guest"} /\ ctl'.run = ctl.run /\ ctl'.todo = ctl.todo
      /\ ctl'.name \in Names /\ ctl'.name[1] = ctl.name[1]
      /\ ctl'.pc = "d_owned" => ctl'.name[2] = "service" /\ ctl.name[2] = "vm"
      /\ ctl'.pc = "d_guest" /\ ctl.name[2] = "vm" => ~ctl.run[Host].service
  <2>1. Sibling("service") \in Names  BY SiblingType DEF Kinds
  <2>2. CASE ctl' = [ctl EXCEPT !.pc = "d_owned", !.name = Sibling("service"), !.seen = <<0, 0>>]
             /\ ctl.name[2] = "vm"
    BY <1>2, <2>1, <2>2 DEF TypeOK, Control, Sibling, Host
  <2>3. CASE ctl' = [ctl EXCEPT !.pc = "d_guest", !.seen = <<0, 0>>]
             /\ (ctl.name[2] = "vm" => ~ctl.run[Host].service)
    BY <1>2, <2>3 DEF TypeOK, Control
  <2>. QED BY <1>1, <2>2, <2>3 DEF AfterResource
<1>4. \A kind : Sibling(kind)' = Sibling(kind)  BY <1>3 DEF Sibling, Host
<1>5. RunReady' /\ LoopReady' /\ SeenOwned'
  BY <1>1, <1>2, <1>3, <1>4 DEF RunReady, LoopReady, SeenOwned, Creating, OnResource, Waiting,
                    Hostwise, Local, OfKind, NamesOf, Direct
<1>6. Cleaning'
  <2>1. ctl.name = Sibling("vm") \/ ctl.name = Sibling("service")
    BY <1>2 DEF Direct, Sibling, Host, Names
  <2>2. ~Mine(Sibling("vm"))
    <3>1. CASE ctl.name[2] = "service"  BY <1>1, <3>1 DEF Cleaning
    <3>2. CASE ctl.name[2] = "vm"  BY <1>1, <2>1, <3>2 DEF Sibling
    <3>. QED BY <1>2, <3>1, <3>2 DEF Direct
  <2>3. ctl'.pc = "d_guest" => ~Mine(Sibling("service"))
    <3>1. CASE ctl.name[2] = "service"  BY <1>1, <2>1, <3>1 DEF Sibling
    <3>2. CASE ctl.name[2] = "vm" /\ ~ctl.run[Host].service
      <4>1. Sibling("service") \in Names /\ Sibling("service")[1] = Host
            /\ Sibling("service")[2] = "service"
        BY SiblingType DEF Kinds, Sibling
      <4>2. Sibling("service") \notin NamesOf(ctl.run)
        BY <1>2, <3>2, <4>1, RunType DEF KindsOf
      <4>. QED BY <1>2, <4>1, <4>2 DEF Accounted
    <3>. QED BY <1>2, <1>3, <3>1, <3>2 DEF Direct
  <2>4. \A h \in Hosts : <<h, "vm">> \notin ctl.todo => HostEmpty(h)'
    BY <1>1, SameObjects DEF Cleaning, HostEmpty, Hostwise
  <2>. QED BY <1>1, <1>3, <1>4, <2>2, <2>3, <2>4, SameObjects
           DEF Cleaning, OnResource, Waiting, Hostwise, Local
<1>. QED BY <1>1, <1>3, <1>5, <1>6, PlayStep DEF Creating

\* What matches what was seen is the run's.
LEMMA MatchIsMine ==
  ASSUME IInv, Delete
  PROVE  /\ ctl.name \in Names /\ Mine(ctl.name) /\ ctl.pc = "d_delete"
         /\ \A m \in Names \ {ctl.name} : cluster'[m] = cluster[m]
         /\ cluster'[ctl.name] = [cluster[ctl.name] EXCEPT !.ending = TRUE]
<1>1. ctl.name \in Names /\ cluster \in [Names -> Object] /\ ctl.pc = "d_delete"
  BY DEF IInv, TypeOK, Control, Delete, At
<1>2. cluster[ctl.name].uid = ctl.seen[1] /\ cluster[ctl.name].version = ctl.seen[2]
  BY DEF Delete, Matches
<1>3. Mine(ctl.name)  BY <1>1, <1>2 DEF IInv, Facts, SeenOwned, Delete, Mine
<1>. QED BY <1>1, <1>3 DEF Delete, Write

LEMMA DeleteStep == ASSUME IInv, Delete PROVE IInv'
<1>. USE DEF IInv, Facts
<1>1. TypeOK'  BY DestroyType
<1>2. /\ ctl.name \in Names /\ Mine(ctl.name) /\ ctl.pc = "d_delete"
      /\ \A m \in Names \ {ctl.name} : cluster'[m] = cluster[m]
      /\ cluster'[ctl.name] = [cluster[ctl.name] EXCEPT !.ending = TRUE]
  BY MatchIsMine
<1>3. /\ ctl' = [ctl EXCEPT !.pc = "d_wait"] /\ UNCHANGED <<file, inventory, made, faults>>
  BY DEF Delete, Goto
<1>4. /\ ctl'.pc = "d_wait" /\ ctl'.run = ctl.run /\ ctl'.todo = ctl.todo /\ ctl'.name = ctl.name
  BY <1>3 DEF TypeOK, Control
<1>5. \A m \in Names : /\ cluster'[m].uid = cluster[m].uid /\ cluster'[m].own = cluster[m].own
                       /\ cluster'[m].disk = cluster[m].disk
  <2>1. cluster[ctl.name] \in Object  BY <1>2 DEF TypeOK
  <2>. QED BY <1>2, <2>1 DEF Object
<1>6. \A m \in Names : (Mine(m)' <=> Mine(m)) /\ (Foreign(m)' <=> Foreign(m))
  BY <1>5 DEF Mine, Foreign, Present
<1>7. Accounted' /\ DiskNamed' /\ UidBound'
  BY <1>3, <1>5, <1>6 DEF Accounted, DiskNamed, UidBound, NamesOf
<1>8. ForeignStays'  BY <1>2, <1>6 DEF ForeignStays, Foreign, Mine
<1>9. \A kind : Sibling(kind)' = Sibling(kind)  BY <1>4 DEF Sibling, Host
<1>10. \A kind \in Kinds : Sibling(kind) \in Names  BY SiblingType
<1>11. RunReady' /\ LoopReady' /\ SeenOwned' /\ NotForeign' /\ InventoryFirst'
  BY <1>2, <1>3, <1>4, <1>9 DEF RunReady, LoopReady, SeenOwned, NotForeign, Unguarded, At,
     InventoryFirst, InventoryHasRun, Creating, OnResource, Waiting, Hostwise, Local, OfKind, NamesOf, Direct
<1>12. Cleaning'
  <2>1. \A h \in Hosts : HostEmpty(h) => HostEmpty(h)'
    BY <1>6 DEF HostEmpty, Names
  <2>2. ctl.name[2] = "service" => ~Mine(Sibling("vm"))'
    <3>1. Sibling("vm") \in Names  BY <1>10 DEF Kinds
    <3>2. ctl.name[2] = "service" => ~Mine(Sibling("vm"))  BY <1>2 DEF Cleaning, OnResource
    <3>. QED BY <1>6, <1>9, <3>1, <3>2 DEF Mine, Present
  <2>. QED BY <1>2, <1>4, <2>1, <2>2 DEF Cleaning, OnResource, Waiting, Hostwise, Local
<1>. QED BY <1>1, <1>7, <1>8, <1>11, <1>12

LEMMA DeletedByOtherStep == ASSUME IInv, DeletedByOther PROVE IInv'
<1>. USE DEF IInv, Facts, DeletedByOther, Check, At
<1>1. TypeOK'  BY DestroyType
<1>2. /\ ctl'.pc = "d_wait" /\ ctl'.run = ctl.run /\ ctl'.todo = ctl.todo /\ ctl'.name = ctl.name
  BY DEF Goto, TypeOK, Control
<1>3. \A kind : Sibling(kind)' = Sibling(kind)  BY <1>2 DEF Sibling, Host
<1>4. RunReady' /\ LoopReady' /\ SeenOwned' /\ Cleaning'
  BY <1>2, <1>3, SameObjects DEF RunReady, LoopReady, SeenOwned, Creating, OnResource, Waiting,
     Hostwise, Local, OfKind, NamesOf, Direct, Cleaning, HostEmpty
<1>. QED BY <1>1, <1>2, <1>4, PlayStep DEF Creating

\* A host whose last resource is gone has nothing left.
LEMMA WaitStep == ASSUME IInv, GuestGone \/ VolumeGone \/ ClaimGone PROVE IInv'
<1>. USE DEF IInv, Facts
<1>1. TypeOK'  BY DestroyType
<1>2. PICK pc \in {"d_volume", "d_claim", "d_next"} :
        /\ ctl' = [ctl EXCEPT !.pc = pc, !.todo = IF pc = "d_next" THEN @ \ {Sibling("vm")} ELSE @]
        /\ UNCHANGED <<file, inventory, world>> /\ ctl.pc \in Waiting
        /\ ctl.pc = "d_guest" => ~Mine(Sibling("guest")) /\ (pc # "d_volume" => pc = "d_next" /\ ~HasDisk)
        /\ ctl.pc = "d_volume" => ~Mine(Sibling("volume")) /\ pc = "d_claim"
        /\ ctl.pc = "d_claim" => ~Mine(Sibling("claim")) /\ pc = "d_next"
  BY DEF GuestGone, VolumeGone, ClaimGone, HostDone, AfterGuest, At, Waiting, Mine
<1>3. /\ ctl'.pc = pc /\ ctl'.run = ctl.run /\ ctl'.name = ctl.name
      /\ ctl'.todo = IF pc = "d_next" THEN ctl.todo \ {Sibling("vm")} ELSE ctl.todo
  BY <1>2 DEF TypeOK, Control
<1>4. \A kind : Sibling(kind)' = Sibling(kind)  BY <1>3 DEF Sibling, Host
<1>5. /\ ctl.run \in Inventories /\ file = ctl.run /\ Host \in Hosts
      /\ \A kind \in Kinds : Sibling(kind) \in Names
  BY <1>2, SiblingType DEF RunReady, Hostwise, Waiting, Kinds
<1>6. RunReady' /\ LoopReady' /\ SeenOwned'
  BY <1>2, <1>3, <1>4 DEF RunReady, LoopReady, SeenOwned, Creating, OnResource, Waiting,
     Hostwise, Local, OfKind, NamesOf
<1>7. ~Mine(Sibling("vm")) /\ ~Mine(Sibling("service")) /\ ~Mine(Sibling("guest"))
  BY <1>2 DEF Cleaning, Waiting
<1>8. pc = "d_next" => HostEmpty(Host)
  <2>1. CASE ctl.pc = "d_claim"
    <3>1. \A kind \in Kinds : ~Mine(Sibling(kind))  BY <1>2, <1>7, <2>1 DEF Cleaning, Kinds
    <3>. QED BY <3>1 DEF HostEmpty, Sibling
  <2>2. CASE ctl.pc = "d_guest" /\ ~HasDisk
    <3>1. \A kind \in {"volume", "claim"} : ~Mine(Sibling(kind))
      <4>1. \A kind \in {"volume", "claim"} : /\ Sibling(kind) \in Names /\ Sibling(kind)[1] = Host
                                               /\ Sibling(kind)[2] = kind
        BY <1>5 DEF Kinds, Sibling
      <4>2. \A kind \in {"volume", "claim"} : Sibling(kind) \notin NamesOf(ctl.run)
        BY <1>5, <2>2, <4>1, RunType DEF KindsOf, HasDisk
      <4>. QED BY <1>5, <4>1, <4>2 DEF Accounted
    <3>2. \A kind \in Kinds : ~Mine(Sibling(kind))  BY <1>7, <3>1 DEF Kinds
    <3>. QED BY <3>2 DEF HostEmpty, Sibling
  <2>. QED BY <1>2, <2>1, <2>2 DEF Waiting
<1>9. Cleaning'
  <2>1. \A h \in Hosts : HostEmpty(h)' <=> HostEmpty(h)  BY <1>2, SameObjects DEF HostEmpty
  <2>2. \A h \in Hosts : <<h, "vm">> \notin ctl'.todo => HostEmpty(h)
    <3>. SUFFICES ASSUME NEW h \in Hosts, <<h, "vm">> \notin ctl'.todo PROVE HostEmpty(h)  OBVIOUS
    <3>1. CASE <<h, "vm">> \notin ctl.todo  BY <1>2, <3>1 DEF Cleaning, Hostwise
    <3>2. CASE <<h, "vm">> \in ctl.todo
      <4>1. pc = "d_next" /\ h = Host  BY <1>3, <3>2 DEF Sibling
      <4>. QED BY <1>8, <4>1
    <3>. QED BY <3>1, <3>2
  <2>3. ctl'.pc = "d_claim" => ~Mine(Sibling("volume"))  BY <1>2, <1>3 DEF Waiting
  <2>. QED BY <1>2, <1>3, <1>4, <1>7, <2>1, <2>2, <2>3, SameObjects
           DEF Cleaning, OnResource, Waiting, Hostwise, Local
<1>. QED BY <1>1, <1>2, <1>3, <1>6, <1>9, PlayStep DEF Creating

\* Local files, with nothing left in the cluster.
LEMMA LocalStep == ASSUME IInv, HostsDone \/ RemoveInventory \/ RemoveRun PROVE IInv'
<1>. USE DEF IInv, Facts
<1>1. TypeOK'  BY DestroyType
<1>2. \A h \in Hosts : HostEmpty(h)
  BY DEF HostsDone, RemoveInventory, RemoveRun, At, Cleaning, LoopReady, Hostwise, Local
<1>3. \A n \in Names : ~Mine(n)  BY <1>2 DEF HostEmpty, Names
<1>4. \A h \in Hosts : HostEmpty(h)'
  BY <1>2, SameObjects DEF HostEmpty, HostsDone, RemoveInventory, RemoveRun, Check
<1>5. CASE HostsDone
  <2>1. ctl'.pc = "d_inventory" /\ ctl'.run = ctl.run /\ ctl'.todo = {}
    BY <1>5 DEF HostsDone, Check, Goto, Cleaned, TypeOK, Control
  <2>2. RunReady' /\ LoopReady' /\ SeenOwned' /\ Cleaning'
    BY <1>4, <1>5, <2>1 DEF HostsDone, Check, At, RunReady, LoopReady, SeenOwned, Cleaning,
       Creating, OnResource, Waiting, Hostwise, Local
  <2>. QED BY <1>1, <1>5, <2>1, <2>2, PlayStep DEF HostsDone, Check, Creating
<1>6. CASE RemoveInventory
  <2>1. ctl'.pc = "d_record" /\ ctl'.run = ctl.run /\ ctl'.todo = ctl.todo /\ ~inventory'
    BY <1>6 DEF RemoveInventory, Goto, TypeOK, Control
  <2>2. RunReady' /\ LoopReady' /\ SeenOwned' /\ Cleaning' /\ NotForeign' /\ InventoryFirst'
    BY <1>4, <1>6, <2>1 DEF RemoveInventory, At, RunReady, LoopReady, SeenOwned, Cleaning,
       NotForeign, Unguarded, InventoryFirst, InventoryHasRun, Creating, OnResource, Waiting,
       Hostwise, Local
  <2>3. Accounted' /\ DiskNamed' /\ ForeignStays' /\ UidBound'
    BY <1>6, SameWorld DEF RemoveInventory
  <2>. QED BY <1>1, <2>2, <2>3
<1>7. CASE RemoveRun
  <2>1. \A n \in Names : ~Mine(n)'  BY <1>3, <1>7, SameObjects DEF RemoveRun
  <2>2. Accounted' /\ DiskNamed'  BY <2>1 DEF Accounted, DiskNamed
  <2>3. ForeignStays' /\ UidBound'
    BY <1>7 DEF RemoveRun, world, ForeignStays, UidBound, Foreign, Present
  <2>4. InventoryFirst'
    BY <1>7 DEF RemoveRun, At, Stop, Idle, InventoryFirst, InventoryHasRun
  <2>. QED BY <1>1, <1>7, <2>2, <2>3, <2>4, Stopped DEF RemoveRun, Stop
<1>. QED BY <1>5, <1>6, <1>7

-------------------------------------------------------------------------------
(* The theorems                                                            *)

\* IInv holds before the first play.
LEMMA InitIInv == Init => IInv
<1>. SUFFICES ASSUME Init PROVE IInv  OBVIOUS
<1>1. TypeOK  BY IdleType DEF Init, TypeOK, NoObject, Object
<1>2. \A n \in Names : ~Mine(n) /\ ~Foreign(n) /\ cluster[n].uid <= made[n]
  BY DEF Init, NoObject, Mine, Foreign, Present
<1>3. Accounted /\ DiskNamed /\ ForeignStays /\ UidBound
  BY <1>2 DEF Accounted, DiskNamed, ForeignStays, UidBound
<1>4. RunReady /\ LoopReady /\ InventoryFirst /\ NotForeign /\ SeenOwned /\ Cleaning
  BY DEF Init, Idle, RunReady, LoopReady, InventoryFirst, InventoryHasRun, NotForeign,
         Unguarded, At, SeenOwned, Cleaning, Creating, OnResource, Waiting, Hostwise, Local
<1>. QED BY <1>1, <1>3, <1>4 DEF IInv, Facts

\* Every step keeps IInv.
LEMMA StepIInv == IInv /\ [Next]_kubeVars => IInv'
<1>. SUFFICES ASSUME IInv, [Next]_kubeVars PROVE IInv'  OBVIOUS
<1>1. CASE \E inv \in Inventories : Create(inv) \/ Resume(inv)  BY <1>1, BeginStep
<1>2. CASE Destroy  BY <1>2, DestroyStep
<1>3. CASE Play
  <2>1. CASE CheckRefuses \/ RecheckRefuses \/ DeleteConflict
    BY <2>1, FailsStep DEF CheckRefuses, RecheckRefuses, DeleteConflict, Fails, world, IInv, TypeOK
  <2>. QED BY <1>3, <2>1, PersistStep, CheckStep, ApplyStep, WriteInventoryStep, DestroyHostStep,
              RecheckStep, AfterResourceStep, DeleteStep, DeletedByOtherStep, WaitStep, LocalStep
           DEF Play
<1>4. CASE Interrupted  BY <1>4, FailsStep DEF Interrupted, Fault, IInv, TypeOK
<1>5. CASE \E n \in Names : Cluster(n) \/ Users(n)  BY <1>5, WorldStep
<1>6. CASE UNCHANGED kubeVars
  BY <1>6 DEF kubeVars, IInv, Facts, TypeOK, RunReady, LoopReady, Accounted, DiskNamed,
     InventoryFirst, InventoryHasRun, ForeignStays, NotForeign, UidBound, SeenOwned, Cleaning,
     HostEmpty, Sibling, Host, Mine, Foreign, Present, Owned, Unguarded, At, NamesOf, Checked,
     OfKind
<1>. QED BY <1>1, <1>2, <1>3, <1>4, <1>5, <1>6 DEF Next

LEMMA InvariantHolds == Spec => []IInv
BY InitIInv, StepIInv, PTL DEF Spec

\* A play deals with names of its run only (_load_run.yml, _data_volume_names.yml).
THEOREM TypeCorrect == Spec => []TypeOK
BY InvariantHolds, PTL DEF IInv

\* Connection details never outlive the saved run they are for (_destroy_run.yml:19-27).
THEOREM InventoryOfSavedRun == Spec => []InventoryHasRun
<1>1. IInv => InventoryHasRun  BY DEF IInv, Facts, InventoryFirst
<1>. QED BY <1>1, InvariantHolds, PTL

\* No step deletes what is somebody else's, and what one adopts has changed hands after
\* create checked it (_check_owned.yml, _delete_owned.yml).
LEMMA StepForeign ==
  ASSUME IInv, [Next]_kubeVars, NEW n \in Names, Foreign(n)
  PROVE  /\ ~cluster'[n].ending
         /\ cluster'[n].own => n \in ctl.taken /\ ctl.pc \in {"c_vm", "c_service"}
<1>0. ~cluster[n].ending /\ ~cluster[n].own  BY DEF IInv, Facts, ForeignStays, Foreign
<1>1. CASE cluster' = cluster  BY <1>0, <1>1
<1>2. CASE ApplyVm \/ ApplyService
  <2>1. PICK m \in ctl.todo : Applied(m) /\ ctl.pc \in {"c_vm", "c_service"}
    BY <1>2 DEF ApplyVm, ApplyService, At
  <2>2. ctl.run \in Inventories /\ ctl.spec = ctl.run
    BY <2>1 DEF IInv, Facts, RunReady, Creating
  <2>3. /\ m \in Names /\ Direct(m) /\ m \in Checked(ctl.run) /\ m[1] \in DOMAIN ctl.run
    BY <2>1, <2>2, RunType, NamesType DEF IInv, Facts, LoopReady, OfKind, Direct, Checked
  <2>4. CASE m # n
    <3>1. cluster'[n] = cluster[n]  BY <2>1, <2>2, <2>3, <2>4, AppliedObject, RunType
    <3>. QED BY <1>0, <3>1
  <2>5. CASE m = n
    <3>1. Unguarded(n)
      BY <2>1, <2>3, <2>5 DEF Unguarded, At, Checked, IInv, TypeOK, Direct
    <3>2. n \in ctl.taken  BY <3>1 DEF IInv, Facts, NotForeign, Owned, Foreign
    <3>3. cluster'[n].ending = cluster[n].ending
      BY <2>1, <2>2, <2>3, <2>5, AppliedObject, RunType DEF Foreign
    <3>. QED BY <1>0, <2>1, <3>2, <3>3
  <2>. QED BY <2>4, <2>5
<1>3. CASE Delete
  <2>1. ctl.name # n /\ cluster'[n] = cluster[n]  BY <1>3, MatchIsMine DEF Mine, Foreign
  <2>. QED BY <1>0, <2>1
<1>4. CASE \E m \in Names : Cluster(m) \/ Users(m)
  <2>1. PICK m \in Names : OneObject(m)  BY <1>4, WorldObject
  <2>. QED BY <1>0, <2>1 DEF OneObject
<1>5. CASE \E inv \in Inventories : Create(inv)  BY <1>5 DEF Create, NoObject
<1>. QED
  BY <1>1, <1>2, <1>3, <1>4, <1>5
  DEF Next, kubeVars, world, Resume, Destroy, Interrupted, Play, Persist, CheckOwned, CheckRefuses,
      WriteInventory, DestroyHost, Recheck, NothingToDelete, RecheckRefuses, DeleteConflict,
      DeletedByOther, Check, Fails, ResourceGone, GuestGone, VolumeGone, ClaimGone, HostDone,
      HostsDone, RemoveInventory, RemoveRun

\* What is somebody else's is never deleted, and adopted only by a create that checked
\* the name before it changed hands (create.yml:17-23, 69-80).
THEOREM ForeignIsKept == Spec => ForeignKept
<1>1. IInv /\ [Next]_kubeVars =>
        [\A n \in Names : Foreign(n) =>
           /\ ~cluster'[n].ending
           /\ cluster'[n].own => n \in ctl.taken /\ ctl.pc \in {"c_vm", "c_service"}]_kubeVars
  BY StepForeign
<1>. QED BY <1>1, InvariantHolds, PTL DEF Spec, ForeignKept

\* A run is a write-ahead ledger: its saved state names all it has in the cluster, from
\* before it is made until it is gone (_init_run.yml:31-37, _destroy_run.yml:17-27).
Held == {n \in Names : Mine(n)}

LEMMA InitLedger == Init => Ledger!Init
BY DEF Init, Ledger!Init, NamesOf, NoObject, Mine, Present

LEMMA StepLedger ==
  ASSUME IInv, IInv', [Next]_kubeVars
  PROVE  [Ledger!Next]_<<NamesOf(file), Held>>
<1>. USE DEF IInv, Facts
<1>1. /\ NamesOf(file)' \in SUBSET Names /\ Held' \subseteq NamesOf(file)'
      /\ Held \subseteq NamesOf(file)
  BY NamesType DEF Accounted, Held, NamesOf
<1>2. CASE Held' = Held  BY <1>1, <1>2 DEF Ledger!Next, Ledger!Rewrite, Held
<1>3. CASE Held' # Held
  <2>1. PICK n \in Names : /\ \A m \in Names \ {n} : cluster'[m] = cluster[m]
                           /\ UNCHANGED file
    <3>1. CASE ApplyVm \/ ApplyService
      <4>1. PICK n \in ctl.todo : Applied(n) /\ ctl.pc \in {"c_vm", "c_service"}
        BY <3>1 DEF ApplyVm, ApplyService, At
      <4>2. ctl.run \in Inventories /\ ctl.spec = ctl.run
        BY <4>1 DEF RunReady, Creating
      <4>3. n \in Names /\ Direct(n) /\ n[1] \in DOMAIN ctl.run
        BY <4>1, <4>2, RunType, NamesType DEF LoopReady, OfKind, Direct
      <4>. QED BY <3>1, <4>1, <4>2, <4>3, AppliedObject, RunType DEF ApplyVm, ApplyService
    <3>2. CASE Delete  BY <3>2, MatchIsMine DEF Delete
    <3>3. CASE \E m \in Names : Cluster(m) \/ Users(m)  BY <3>3, WorldObject DEF OneObject
    <3>4. ~(cluster' = cluster)  BY <1>3 DEF Held, Mine, Present
    <3>5. ~(\E inv \in Inventories : Create(inv))
      <4>1. ASSUME NEW inv \in Inventories, Create(inv) PROVE FALSE
        <5>1. \A m \in Names : ~Mine(m) /\ ~Mine(m)'
          BY <4>1 DEF Create, Accounted, NamesOf, NoObject, Mine, Present
        <5>. QED BY <1>3, <5>1 DEF Held
      <4>. QED BY <4>1
    <3>. QED
      BY <3>1, <3>2, <3>3, <3>4, <3>5
      DEF Next, kubeVars, world, Resume, Destroy, Interrupted, Play, Persist, CheckOwned, CheckRefuses,
          WriteInventory, DestroyHost, Recheck, NothingToDelete, RecheckRefuses, DeleteConflict,
          DeletedByOther, Check, Fails, ResourceGone, GuestGone, VolumeGone, ClaimGone, HostDone,
          HostsDone, RemoveInventory, RemoveRun
  <2>2. NamesOf(file)' = NamesOf(file)  BY <2>1 DEF NamesOf
  <2>3. \A m \in Names \ {n} : Mine(m)' <=> Mine(m)  BY <2>1 DEF Mine, Present
  <2>4. CASE Mine(n)'
    <3>1. Held' = Held \cup {n}  BY <2>3, <2>4 DEF Held
    <3>2. n \in NamesOf(file)  BY <2>2, <2>4 DEF Accounted
    <3>. QED BY <2>2, <3>1, <3>2 DEF Ledger!Next, Ledger!Make, Held
  <2>5. CASE ~Mine(n)'
    <3>1. Held' = Held \ {n}  BY <2>3, <2>5 DEF Held
    <3>2. n \in Held  BY <1>3, <3>1
    <3>. QED BY <2>2, <3>1, <3>2 DEF Ledger!Next, Ledger!Lose, Held
  <2>. QED BY <2>4, <2>5
<1>. QED BY <1>2, <1>3

THEOREM RunIsAccounted == Spec => RunAccounted
<1>1. IInv /\ IInv' /\ [Next]_kubeVars => [Ledger!Next]_<<NamesOf(file), {n \in Names : Mine(n)}>>
  BY StepLedger DEF Held
<1>. QED BY <1>1, InitLedger, InvariantHolds, PTL DEF Spec, RunAccounted, Ledger!Spec

-------------------------------------------------------------------------------
(* Scenarios                                                               *)

\* What happens on a container engine only counts faults.
LEMMA EngineFaults ==
  ASSUME Containers!Next
  PROVE  backend' = backend /\ (faults' = faults \/ (faults < MaxFaults /\ faults' = faults + 1))
<1>. USE DEF Containers!Fault, Containers!bounds, Containers!engineState
<1>1. CASE Containers!Create \/ Containers!Destroy \/ Containers!Reset
  BY <1>1 DEF Containers!Create, Containers!Destroy, Containers!Reset
<1>2. CASE Containers!Tasks
  <2>1. CASE Containers!LaunchCreation \/ Containers!LaunchRemoval
    BY <2>1 DEF Containers!LaunchCreation, Containers!LaunchRemoval, Containers!Launched
  <2>2. CASE Containers!WaitCreation \/ Containers!WaitRemoval
    BY <2>2 DEF Containers!WaitCreation, Containers!WaitRemoval, Containers!Waited, Containers!WaitFails
  <2>3. CASE \/ Containers!CreateNetwork \/ Containers!Verify \/ Containers!VerifyFails
             \/ Containers!WriteInventory \/ Containers!ResetRemove \/ Containers!ResetDone
    BY <2>3 DEF Containers!CreateNetwork, Containers!Verify, Containers!VerifyFails,
      Containers!WriteInventory, Containers!ResetRemove, Containers!ResetDone
  <2>4. CASE Containers!DeleteNetwork \/ Containers!NetworkBusy \/ Containers!NetworkIgnored
    BY <2>4 DEF Containers!DeleteNetwork, Containers!NetworkBusy, Containers!NetworkIgnored
  <2>. QED BY <1>2, <2>1, <2>2, <2>3, <2>4 DEF Containers!Tasks
<1>3. CASE Containers!Jobs
  BY <1>3 DEF Containers!Jobs, Containers!Works, Containers!Look, Containers!Made,
    Containers!NotMade, Containers!Started, Containers!NotStarted, Containers!Seek,
    Containers!Removed, Containers!Goes, Containers!Leaves
<1>4. CASE Containers!Interrupted  BY <1>4 DEF Containers!Interrupted
<1>5. CASE \E j \in jobs : Containers!JobFails(j)  BY <1>5 DEF Containers!JobFails
<1>6. CASE \E h \in Hosts : Containers!Exits(h)  BY <1>6 DEF Containers!Exits
<1>. QED BY <1>1, <1>2, <1>3, <1>4, <1>5, <1>6 DEF Containers!Next

\* IInv does not depend on the faults counted, but for their type.
LEMMA AloneKeepsIInv ==
  ASSUME IInv, UNCHANGED kubeState, faults' \in Nat
  PROVE  IInv'
BY DEF kubeState, IInv, Facts, TypeOK, RunReady, LoopReady, Accounted, DiskNamed, InventoryFirst,
  InventoryHasRun, ForeignStays, NotForeign, UidBound, SeenOwned, Cleaning, HostEmpty, Sibling,
  Host, Mine, Foreign, Present, Owned, Unguarded, At, NamesOf, Checked, OfKind

\* A step of a scenario is one of the run, or leaves it alone.
LEMMA ScenarioStep ==
  ASSUME IInv, [LifecycleNext]_vars
  PROVE  Next \/ (UNCHANGED kubeState /\ faults' \in Nat)
<1>1. faults \in Nat  BY DEF IInv, TypeOK
<1>2. CASE InCluster(Next)  BY <1>2 DEF InCluster
<1>3. CASE OnEngine(Containers!Next)  BY <1>1, <1>3, EngineFaults DEF OnEngine
<1>4. CASE UNCHANGED vars  BY <1>1, <1>4 DEF vars, kubeState
<1>. QED BY <1>2, <1>3, <1>4 DEF LifecycleNext

LEMMA ScenarioIInv == LifecycleSpec => []IInv
<1>1. LifecycleInit => IInv  BY InitIInv DEF LifecycleInit
<1>2. IInv /\ [LifecycleNext]_vars => IInv'
  BY ScenarioStep, StepIInv, AloneKeepsIInv
<1>. QED BY <1>1, <1>2, PTL DEF LifecycleSpec

\* In every scenario no play deletes what is somebody else's in the cluster, and create
\* adopts only what changed hands after it had checked it (_check_owned.yml,
\* _delete_owned.yml, create.yml:17-23, 69-80).
THEOREM ScenarioForeignKept == LifecycleSpec => ForeignKept
<1>1. IInv /\ [LifecycleNext]_vars =>
        [\A n \in Names : Foreign(n) =>
           /\ ~cluster'[n].ending
           /\ cluster'[n].own => n \in ctl.taken /\ ctl.pc \in {"c_vm", "c_service"}]_kubeVars
  <2>. SUFFICES ASSUME IInv, [LifecycleNext]_vars, NEW n \in Names, Foreign(n)
                PROVE  /\ ~cluster'[n].ending
                       /\ cluster'[n].own =>
                            n \in ctl.taken /\ ctl.pc \in {"c_vm", "c_service"}
    OBVIOUS
  <2>1. CASE Next  BY <2>1, StepForeign
  <2>2. CASE UNCHANGED kubeState
    BY <2>2 DEF kubeState, IInv, Facts, ForeignStays, Foreign
  <2>. QED BY <2>1, <2>2, ScenarioStep
<1>. QED BY <1>1, ScenarioIInv, PTL DEF LifecycleSpec, ForeignKept

\* In every scenario the saved run names all that the run has in the cluster
\* (_init_run.yml:31-37, _destroy_run.yml:17-27).
THEOREM ScenarioAccounted == LifecycleSpec => RunAccounted
<1>1. LifecycleInit => Ledger!Init  BY InitLedger DEF LifecycleInit
<1>2. IInv /\ IInv' /\ [LifecycleNext]_vars =>
        [Ledger!Next]_<<NamesOf(file), {n \in Names : Mine(n)}>>
  <2>. SUFFICES ASSUME IInv, IInv', [LifecycleNext]_vars
                PROVE  [Ledger!Next]_<<NamesOf(file), {n \in Names : Mine(n)}>>
    OBVIOUS
  <2>1. CASE Next  BY <2>1, StepLedger DEF Held
  <2>2. CASE UNCHANGED kubeState  BY <2>2 DEF kubeState, NamesOf, Mine, Present
  <2>. QED BY <2>1, <2>2, ScenarioStep
<1>. QED BY <1>1, <1>2, ScenarioIInv, PTL DEF LifecycleSpec, RunAccounted, Ledger!Spec

-------------------------------------------------------------------------------
(* Scenarios on a container engine                                         *)

EngineTypes ==
  /\ backend \in Backends /\ network \in BOOLEAN
  /\ container \in [Hosts -> {"none", "running", "exited"}]
  /\ jobs \subseteq Containers!Job
  /\ play \in [pc : Containers!PCs, todo : SUBSET Hosts, done : {"none", "create", "destroy", "reset"},
               clean : BOOLEAN]
  /\ creates \in 0..MaxCreates

CreatePCs == {"network", "launch", "wait", "verify", "inventory"}
RemovalPCs == {"removals", "removed", "unlink"}

\* Only the play that waits for a job has started it; a play that is over has none.
Attended ==
  /\ play.done # "none" => play.pc = "idle"
  /\ play.pc = "idle" => play.todo = {}
  /\ \A j \in jobs :
       /\ j.at \in {"make", "start"} => j.for = "create"
       /\ j.at = "remove" => j.for = "remove"
       /\ j.mine => \/ j.for = "create" /\ play.pc \in CreatePCs \ {"network"}
                    \/ j.for = "remove" /\ play.pc \in RemovalPCs

\* What a create has done so far stays, when no removal was in flight.
Kept ==
  (play.clean /\ (play.pc \in CreatePCs \/ play.done = "create")) =>
    /\ Containers!NoneInFlight("remove")
    /\ play.pc # "network" => network
    /\ \A j \in jobs : j.mine /\ j.at = "ok" => container[j.host] # "none"
    /\ play.pc = "wait" => \A h \in Hosts \ play.todo : container[h] # "none"
    /\ (play.pc \in {"verify", "inventory"} \/ play.done = "create") =>
         \A h \in Hosts : container[h] # "none"

\* What a destroy or a reset has removed does not come back, when no creation was.
Gone ==
  /\ (play.clean /\ (play.pc \in RemovalPCs \/ play.done = "destroy")) =>
       /\ Containers!NoneInFlight("create")
       /\ \A j \in jobs : j.mine /\ j.at = "ok" => container[j.host] = "none"
       /\ play.pc = "removed" => \A h \in Hosts \ play.todo : container[h] = "none"
       /\ (play.pc = "unlink" \/ play.done = "destroy") => \A h \in Hosts : container[h] = "none"
       /\ play.done = "destroy" /\ backend = "podman" => ~network
  /\ (play.clean /\ (play.pc = "reset" \/ play.done = "reset")) =>
       Containers!NoneInFlight("create") /\ Containers!Labelled \subseteq play.todo

EngineInv == EngineTypes /\ Attended /\ Kept /\ Gone

LEMMA InitEngine == LifecycleInit => EngineInv
<1>. SUFFICES ASSUME LifecycleInit PROVE EngineInv  OBVIOUS
<1>. USE LifecycleAssumption DEF LifecycleInit, Containers!Nothing, Containers!Idle
<1>1. EngineTypes
  <2>1. creates \in 0..MaxCreates /\ backend \in Backends /\ jobs \subseteq Containers!Job  OBVIOUS
  <2>2. play \in [pc : Containers!PCs, todo : SUBSET Hosts,
                 done : {"none", "create", "destroy", "reset"}, clean : BOOLEAN]
    BY DEF Containers!PCs
  <2>. QED  BY <2>1, <2>2 DEF EngineTypes
<1>2. Attended /\ Kept /\ Gone
  BY DEF Attended, Kept, Gone, CreatePCs, RemovalPCs
<1>. QED  BY <1>1, <1>2 DEF EngineInv

\* The play ends: its jobs go on without it, and none is its own.
LEMMA JobsLeft ==
  ASSUME EngineInv, jobs' = Containers!LeftBehind
  PROVE  /\ jobs' \subseteq Containers!Job
         /\ \A j \in jobs' : ~j.mine /\ (j.at \in {"make", "start"} => j.for = "create")
                                     /\ (j.at = "remove" => j.for = "remove")
         /\ \A for : Containers!NoneInFlight(for) => \A j \in jobs' : j.for # for
<1>1. ASSUME NEW j \in jobs'
      PROVE  \E k \in jobs : k \in Containers!Job /\ j = [k EXCEPT !.mine = FALSE] /\ ~Containers!Ended(k)
  BY <1>1 DEF Containers!LeftBehind, EngineInv, EngineTypes
<1>2. ASSUME NEW j \in jobs'
      PROVE  /\ j \in Containers!Job /\ ~j.mine
             /\ (j.at \in {"make", "start"} => j.for = "create") /\ (j.at = "remove" => j.for = "remove")
  BY <1>1, <1>2 DEF Containers!Job, EngineInv, Attended
<1>3. ASSUME NEW for, Containers!NoneInFlight(for), NEW j \in jobs' PROVE j.for # for
  BY <1>1, <1>3 DEF Containers!Job, Containers!NoneInFlight
<1>. QED  BY <1>2, <1>3

LEMMA PlayFails ==
  ASSUME EngineInv, Containers!Fails, UNCHANGED <<backend, container, network>>,
         creates' \in 0..MaxCreates
  PROVE  EngineInv'
<1>1. jobs' \subseteq Containers!Job /\ (\A j \in jobs' : ~j.mine
        /\ (j.at \in {"make", "start"} => j.for = "create") /\ (j.at = "remove" => j.for = "remove"))
  BY JobsLeft DEF Containers!Fails
<1>2. play' = Containers!Idle  BY DEF Containers!Fails
<1>3. play'.pc = "idle" /\ play'.todo = {} /\ play'.done = "none" /\ ~play'.clean
  BY <1>2 DEF Containers!Idle
<1>4. EngineTypes'
  BY <1>1, <1>2 DEF EngineInv, EngineTypes, Containers!Idle, Containers!PCs, Containers!Job
<1>5. Attended'  BY <1>1, <1>3 DEF Attended
<1>6. Kept' /\ Gone'  BY <1>3 DEF Kept, Gone
<1>. QED  BY <1>4, <1>5, <1>6 DEF EngineInv

\* A play begins.
LEMMA PlayStarts ==
  ASSUME EngineInv,
         \/ Containers!Starts("network", {}, "remove") /\ creates' \in 0..MaxCreates
         \/ Containers!Starts("removals", Hosts, "create") /\ creates' = creates
         \/ Containers!Starts("reset", Containers!Labelled, "create") /\ creates' = creates,
         UNCHANGED <<backend, container, network, jobs>>
  PROVE  EngineInv'
<1>1. /\ play.pc = "idle" /\ play'.done = "none" /\ creates' \in 0..MaxCreates
      /\ \A j \in jobs : ~j.mine
  BY DEF Containers!Starts, Containers!At, EngineInv, EngineTypes, Attended, CreatePCs, RemovalPCs
<1>2. Containers!Labelled \subseteq Hosts /\ Containers!Labelled' = Containers!Labelled
  BY DEF Containers!Labelled
<1>3. /\ \/ play'.pc = "network" /\ play'.todo = {} /\ (play'.clean <=> Containers!NoneInFlight("remove"))
         \/ play'.pc = "removals" /\ play'.todo = Hosts /\ (play'.clean <=> Containers!NoneInFlight("create"))
         \/ /\ play'.pc = "reset" /\ play'.todo = Containers!Labelled
            /\ (play'.clean <=> Containers!NoneInFlight("create"))
  BY DEF Containers!Starts
<1>4. play' \in [pc : Containers!PCs, todo : SUBSET Hosts, done : {"none", "create", "destroy", "reset"},
                 clean : BOOLEAN]
  <2>1. \A for : Containers!NoneInFlight(for) \in BOOLEAN  BY DEF Containers!NoneInFlight
  <2>2. {"network", "removals", "reset"} \subseteq Containers!PCs  BY DEF Containers!PCs
  <2>. QED  BY <1>2, <2>1, <2>2 DEF Containers!Starts
<1>5. EngineTypes'  BY <1>1, <1>4 DEF EngineInv, EngineTypes, Containers!Job
<1>6. Attended'  BY <1>1, <1>3 DEF EngineInv, Attended
<1>7. \A for : Containers!NoneInFlight(for) => Containers!NoneInFlight(for)'
  BY DEF Containers!NoneInFlight, Containers!Ended
<1>8. Kept'  BY <1>1, <1>3, <1>7 DEF Kept, CreatePCs
<1>9. Gone'  BY <1>1, <1>2, <1>3, <1>7 DEF Gone, RemovalPCs
<1>. QED  BY <1>5, <1>6, <1>8, <1>9 DEF EngineInv

\* A job that has not ended goes on.
LEMMA JobStep ==
  ASSUME EngineInv, NEW j \in jobs, NEW at \in {"make", "start", "remove", "ok", "failed"},
         ~Containers!Ended(j), Containers!Becomes(j, at),
         at \in {"make", "start"} => j.for = "create", at = "remove" => j.for = "remove",
         UNCHANGED <<backend, network, play, creates>>,
         container' \in [Hosts -> {"none", "running", "exited"}],
         j.for = "create" => \A h \in Hosts : container[h] # "none" => container'[h] # "none",
         j.for = "remove" => \A h \in Hosts : container[h] = "none" => container'[h] = "none",
         at = "ok" => ((j.for = "create") <=> (container'[j.host] # "none"))
  PROVE  EngineInv'
<1>1. j \in Containers!Job  BY DEF EngineInv, EngineTypes
<1>2. PICK k : k = [j EXCEPT !.at = at]  OBVIOUS
<1>3. k \in Containers!Job /\ k.host = j.host /\ k.for = j.for /\ (k.mine <=> j.mine) /\ k.at = at
  BY <1>1, <1>2 DEF Containers!Job
<1>4. \A i \in jobs' : i \in jobs \/ i = k  BY <1>2 DEF Containers!Becomes
<1>5. EngineTypes'  BY <1>3, <1>4 DEF EngineInv, EngineTypes, Containers!Job, Containers!PCs
<1>6. Attended'  BY <1>3, <1>4 DEF EngineInv, Attended
<1>7. \A for : Containers!NoneInFlight(for) => j.for # for /\ Containers!NoneInFlight(for)'
  BY <1>3, <1>4 DEF Containers!NoneInFlight, Containers!Ended
<1>8. j.for \in {"create", "remove"} /\ j.host \in Hosts /\ \A i \in jobs : i.host \in Hosts
  BY <1>1 DEF Containers!Job, EngineInv, EngineTypes
<1>9. Kept'
  <2>. SUFFICES ASSUME play.clean, play.pc \in CreatePCs \/ play.done = "create"
                PROVE  /\ Containers!NoneInFlight("remove")'
                       /\ play.pc # "network" => network
                       /\ \A i \in jobs' : i.mine /\ i.at = "ok" => container'[i.host] # "none"
                       /\ play.pc = "wait" => \A h \in Hosts \ play.todo : container'[h] # "none"
                       /\ (play.pc \in {"verify", "inventory"} \/ play.done = "create") =>
                            \A h \in Hosts : container'[h] # "none"
    BY DEF Kept
  <2>1. Containers!NoneInFlight("remove")'  BY <1>7 DEF EngineInv, Kept
  <2>2. j.for = "create"  BY <1>7, <1>8 DEF EngineInv, Kept
  <2>. QED  BY <1>3, <1>4, <1>8, <2>1, <2>2 DEF EngineInv, Kept
<1>10. Gone'
  <2>1. ASSUME play.clean, play.pc \in RemovalPCs \/ play.done = "destroy"
        PROVE  /\ Containers!NoneInFlight("create")'
               /\ \A i \in jobs' : i.mine /\ i.at = "ok" => container'[i.host] = "none"
               /\ play.pc = "removed" => \A h \in Hosts \ play.todo : container'[h] = "none"
               /\ (play.pc = "unlink" \/ play.done = "destroy") => \A h \in Hosts : container'[h] = "none"
               /\ play.done = "destroy" /\ backend = "podman" => ~network
    <3>1. Containers!NoneInFlight("create")'  BY <1>7, <2>1 DEF EngineInv, Gone
    <3>2. j.for = "remove"  BY <1>7, <1>8, <2>1 DEF EngineInv, Gone
    <3>. QED  BY <1>3, <1>4, <1>8, <2>1, <3>1, <3>2 DEF EngineInv, Gone
  <2>2. ASSUME play.clean, play.pc = "reset" \/ play.done = "reset"
        PROVE  Containers!NoneInFlight("create")' /\ Containers!Labelled' \subseteq play.todo
    <3>1. Containers!NoneInFlight("create")'  BY <1>7, <2>2 DEF EngineInv, Gone
    <3>2. j.for = "remove"  BY <1>7, <1>8, <2>2 DEF EngineInv, Gone
    <3>. QED  BY <2>2, <3>1, <3>2 DEF EngineInv, Gone, Containers!Labelled
  <2>. QED  BY <2>1, <2>2 DEF Gone
<1>. QED  BY <1>5, <1>6, <1>9, <1>10 DEF EngineInv

LEMMA JobsKeep ==
  ASSUME EngineInv, Containers!Jobs
  PROVE  EngineInv'
<1>1. PICK j \in jobs : Containers!Works(j)  BY DEF Containers!Jobs
<1>2. /\ j.for \in {"create", "remove"} /\ j.host \in Hosts
      /\ j.at \in {"make", "start"} => j.for = "create"
      /\ j.at = "remove" => j.for = "remove"
      /\ container \in [Hosts -> {"none", "running", "exited"}]
  BY DEF EngineInv, EngineTypes, Attended, Containers!Job
<1>. USE DEF Containers!engineState, Containers!bounds
<1>3. CASE Containers!Look(j)
  <2>1. PICK at \in {"make", "ok", "start"} :
          /\ Containers!Goes(j, at) /\ j.for = "create" /\ ~Containers!Ended(j)
          /\ at = "ok" => container[j.host] # "none"
    BY <1>2, <1>3 DEF Containers!Look, Containers!Ended
  <2>. QED  BY <1>2, <2>1, JobStep DEF Containers!Goes
<1>4. CASE Containers!Seek(j)
  <2>1. PICK at \in {"remove", "ok"} :
          /\ Containers!Goes(j, at) /\ j.for = "remove" /\ ~Containers!Ended(j)
          /\ at = "ok" => container[j.host] = "none"
    BY <1>2, <1>4 DEF Containers!Seek, Containers!Removable, Containers!Ended
  <2>. QED  BY <1>2, <2>1, JobStep DEF Containers!Goes
<1>5. CASE Containers!NotMade(j) \/ Containers!NotStarted(j)
  <2>1. Containers!Goes(j, "failed") /\ ~Containers!Ended(j)
    BY <1>5 DEF Containers!NotMade, Containers!NotStarted, Containers!Ended
  <2>. QED  BY <1>2, <2>1, JobStep DEF Containers!Goes
<1>6. CASE Containers!Made(j) \/ Containers!Started(j)
  <2>1. Containers!Leaves(j, "running") /\ j.for = "create" /\ ~Containers!Ended(j)
    BY <1>2, <1>6 DEF Containers!Made, Containers!Started, Containers!Ended
  <2>2. /\ container' \in [Hosts -> {"none", "running", "exited"}] /\ container'[j.host] = "running"
        /\ \A h \in Hosts : container'[h] = container[h] \/ container'[h] = "running"
    BY <1>2, <2>1 DEF Containers!Leaves
  <2>. QED  BY <1>2, <2>1, <2>2, JobStep DEF Containers!Leaves
<1>7. CASE Containers!Removed(j)
  <2>1. Containers!Leaves(j, "none") /\ j.for = "remove" /\ ~Containers!Ended(j)
    BY <1>2, <1>7 DEF Containers!Removed, Containers!Ended
  <2>2. /\ container' \in [Hosts -> {"none", "running", "exited"}] /\ container'[j.host] = "none"
        /\ \A h \in Hosts : container'[h] = container[h] \/ container'[h] = "none"
    BY <1>2, <2>1 DEF Containers!Leaves
  <2>. QED  BY <1>2, <2>1, <2>2, JobStep DEF Containers!Leaves
<1>. QED  BY <1>1, <1>3, <1>4, <1>5, <1>6, <1>7 DEF Containers!Works

\* A job that fails, a container that exits.
LEMMA FailuresKeep ==
  ASSUME EngineInv,
         \/ \E j \in jobs : Containers!JobFails(j)
         \/ \E h \in Hosts : Containers!Exits(h)
  PROVE  EngineInv'
<1>. USE DEF Containers!engineState, Containers!bounds
<1>1. ASSUME NEW j \in jobs, Containers!JobFails(j) PROVE EngineInv'
  <2>1. container \in [Hosts -> {"none", "running", "exited"}]  BY DEF EngineInv, EngineTypes
  <2>. QED  BY <1>1, <2>1, JobStep DEF Containers!JobFails
<1>2. ASSUME NEW g \in Hosts, Containers!Exits(g) PROVE EngineInv'
  <2>1. UNCHANGED <<backend, network, jobs, play, creates>>  BY <1>2 DEF Containers!Exits
  <2>2. /\ container' \in [Hosts -> {"none", "running", "exited"}]
        /\ \A h \in Hosts : (container'[h] = "none") <=> (container[h] = "none")
    BY <1>2 DEF Containers!Exits, EngineInv, EngineTypes
  <2>3. EngineTypes' /\ Attended'
    BY <2>1, <2>2 DEF EngineInv, EngineTypes, Attended, Containers!Job, Containers!PCs
  <2>4. \A for : Containers!NoneInFlight(for) => Containers!NoneInFlight(for)'
    BY <2>1 DEF Containers!NoneInFlight, Containers!Ended
  <2>5. \A j \in jobs : j.host \in Hosts  BY DEF EngineInv, EngineTypes, Containers!Job
  <2>6. Kept'  BY <2>1, <2>2, <2>4, <2>5 DEF EngineInv, Kept
  <2>7. Gone'  BY <2>1, <2>2, <2>4, <2>5 DEF EngineInv, Gone, Containers!Labelled
  <2>. QED  BY <2>3, <2>6, <2>7 DEF EngineInv
<1>. QED  BY <1>1, <1>2

\* The play succeeds: what was established before its end stays.
LEMMA PlaySucceeds ==
  ASSUME EngineInv, NEW done \in {"create", "destroy", "reset"}, Containers!Succeeds(done),
         UNCHANGED <<backend, container, creates>>, network' \in BOOLEAN,
         \/ done = "create" /\ play.pc = "inventory" /\ network' = network
         \/ done = "destroy" /\ play.pc = "unlink" /\ (backend = "podman" => ~network')
         \/ done = "reset" /\ play.pc = "reset" /\ play.todo = {}
  PROVE  EngineInv'
<1>1. /\ jobs' \subseteq Containers!Job
      /\ \A j \in jobs' : ~j.mine /\ (j.at \in {"make", "start"} => j.for = "create")
                                  /\ (j.at = "remove" => j.for = "remove")
      /\ \A for : Containers!NoneInFlight(for) => \A j \in jobs' : j.for # for
  BY JobsLeft DEF Containers!Succeeds
<1>2. /\ play'.pc = "idle" /\ play'.todo = {} /\ play'.done = done /\ (play'.clean <=> play.clean)
      /\ play' \in [pc : Containers!PCs, todo : SUBSET Hosts,
                    done : {"none", "create", "destroy", "reset"}, clean : BOOLEAN]
  BY DEF Containers!Succeeds, Containers!Idle, Containers!PCs, EngineInv, EngineTypes
<1>3. EngineTypes'  BY <1>1, <1>2 DEF EngineInv, EngineTypes, Containers!Job, Containers!PCs
<1>4. Attended'  BY <1>1, <1>2 DEF Attended
<1>5. \A for : Containers!NoneInFlight(for) => Containers!NoneInFlight(for)'
  BY <1>1 DEF Containers!NoneInFlight
<1>6. Kept'
  BY <1>1, <1>2, <1>5 DEF EngineInv, Kept, CreatePCs
<1>7. Gone'
  BY <1>1, <1>2, <1>5 DEF EngineInv, Gone, RemovalPCs, Containers!Labelled
<1>. QED  BY <1>3, <1>4, <1>6, <1>7 DEF EngineInv

\* A play that goes on: to its next host, or to what follows.
LEMMA PlayGoes ==
  ASSUME EngineInv, NEW pc \in Containers!PCs, NEW todo \in SUBSET Hosts,
         Containers!Go(pc, todo), jobs' \subseteq Containers!Job,
         UNCHANGED <<backend, container, creates>>, network' \in BOOLEAN,
         play.pc # "idle", pc # "idle",
         \A j \in jobs' \ jobs : /\ j.at = "look" /\ j.mine
                                 /\ j.for = IF play.pc \in CreatePCs THEN "create" ELSE "remove",
         \/ /\ play.pc \in CreatePCs /\ pc \in CreatePCs \ {"network"} /\ (play.clean => network')
            /\ pc = "wait" => \A h \in Hosts \ todo :
                 container[h] # "none" \/ (play.pc = "wait" /\ h \notin play.todo) \/ ~play.clean
            /\ pc \in {"verify", "inventory"} => \/ play.pc \in {"verify", "inventory"}
                                                 \/ \A h \in Hosts : container[h] # "none"
                                                 \/ ~play.clean
         \/ /\ play.pc \in RemovalPCs /\ pc \in RemovalPCs /\ network' = network
            /\ pc = "removed" => \A h \in Hosts \ todo :
                 container[h] = "none" \/ (play.pc = "removed" /\ h \notin play.todo) \/ ~play.clean
            /\ pc = "unlink" => (\A h \in Hosts : container[h] = "none") \/ ~play.clean
  PROVE  EngineInv'
<1>1. /\ play'.pc = pc /\ play'.todo = todo /\ play'.done = play.done /\ (play'.clean <=> play.clean)
      /\ play' \in [pc : Containers!PCs, todo : SUBSET Hosts,
                    done : {"none", "create", "destroy", "reset"}, clean : BOOLEAN]
      /\ play.done = "none"
  BY DEF Containers!Go, EngineInv, EngineTypes, Attended
<1>2. EngineTypes'  BY <1>1 DEF EngineInv, EngineTypes, Containers!Job, Containers!PCs
<1>3. CreatePCs \cap RemovalPCs = {} /\ "reset" \notin CreatePCs \cup RemovalPCs
  BY DEF CreatePCs, RemovalPCs
<1>4. Attended'  BY <1>1, <1>3 DEF EngineInv, Attended
<1>5. CASE play.pc \in CreatePCs
  <2>1. Containers!NoneInFlight("remove") => Containers!NoneInFlight("remove")'
    BY <1>5 DEF Containers!NoneInFlight, Containers!Ended
  <2>2. Kept'  BY <1>1, <1>3, <1>5, <2>1 DEF EngineInv, Kept
  <2>3. Gone'  BY <1>1, <1>3, <1>5 DEF Gone
  <2>. QED  BY <1>2, <1>4, <2>2, <2>3 DEF EngineInv
<1>6. CASE play.pc \in RemovalPCs
  <2>1. Containers!NoneInFlight("create") => Containers!NoneInFlight("create")'
    BY <1>3, <1>6 DEF Containers!NoneInFlight, Containers!Ended
  <2>2. Kept'  BY <1>1, <1>3, <1>6 DEF Kept
  <2>3. Gone'  BY <1>1, <1>3, <1>6, <2>1 DEF EngineInv, Gone
  <2>. QED  BY <1>2, <1>4, <2>2, <2>3 DEF EngineInv
<1>. QED  BY <1>5, <1>6

\* A loop takes its next host, or is through.
LEMMA LoopGoes ==
  ASSUME NEW h \in play.todo, NEW pc, Containers!Did(h, pc)
  PROVE  \/ play.todo = {h} /\ Containers!Go(pc, Hosts)
         \/ Containers!Go(play.pc, play.todo \ {h})
BY DEF Containers!Did

LEMMA CreateLoop ==
  ASSUME EngineInv, NEW h \in play.todo, play.pc \in CreatePCs \ {"network"},
         NEW pc \in CreatePCs \ {"network"}, Containers!Did(h, pc),
         jobs' \subseteq Containers!Job,
         \A j \in jobs' \ jobs : j.at = "look" /\ j.mine /\ j.for = "create",
         UNCHANGED <<backend, container, network, creates>>,
         pc = "wait" <=> play.pc = "launch",
         play.pc = "wait" /\ play.clean => container[h] # "none"
  PROVE  EngineInv'
<1>1. play.todo \in SUBSET Hosts /\ network \in BOOLEAN /\ CreatePCs \subseteq Containers!PCs
  BY DEF EngineInv, EngineTypes, CreatePCs, Containers!PCs
<1>2. play.clean => network  BY DEF EngineInv, Kept
<1>3. play.pc = "wait" /\ play.clean => \A g \in Hosts \ play.todo : container[g] # "none"
  BY DEF EngineInv, Kept, CreatePCs
<1>4. CASE play.todo = {h} /\ Containers!Go(pc, Hosts)
  <2>1. pc # "idle" /\ play.pc # "idle"  BY DEF CreatePCs
  <2>2. pc \in {"verify", "inventory"} => play.pc \in {"wait", "verify", "inventory"}
    BY DEF CreatePCs
  <2>3. play.pc = "wait" /\ play.clean => \A g \in Hosts : container[g] # "none"  BY <1>3, <1>4
  <2>. QED  BY <1>1, <1>2, <1>4, <2>1, <2>2, <2>3, PlayGoes
<1>5. CASE Containers!Go(play.pc, play.todo \ {h})
  <2>1. play.pc # "idle"  BY DEF CreatePCs
  <2>2. play.pc = "wait" => \A g \in Hosts \ (play.todo \ {h}) :
          container[g] # "none" \/ (play.pc = "wait" /\ g \notin play.todo) \/ ~play.clean
    OBVIOUS
  <2>. QED  BY <1>1, <1>2, <1>5, <2>1, <2>2, PlayGoes
<1>. QED  BY <1>4, <1>5, LoopGoes

LEMMA RemovalLoop ==
  ASSUME EngineInv, NEW h \in play.todo, play.pc \in RemovalPCs \ {"unlink"},
         NEW pc \in RemovalPCs, Containers!Did(h, pc),
         jobs' \subseteq Containers!Job,
         \A j \in jobs' \ jobs : j.at = "look" /\ j.mine /\ j.for = "remove",
         UNCHANGED <<backend, container, network, creates>>,
         pc = "removed" <=> play.pc = "removals", pc = "unlink" <=> play.pc = "removed",
         play.pc = "removed" /\ play.clean => container[h] = "none"
  PROVE  EngineInv'
<1>1. play.todo \in SUBSET Hosts /\ network \in BOOLEAN /\ RemovalPCs \subseteq Containers!PCs
  BY DEF EngineInv, EngineTypes, RemovalPCs, Containers!PCs
<1>2. play.pc \notin CreatePCs /\ play.pc # "unlink" /\ pc # "idle" /\ play.pc # "idle"
  BY DEF CreatePCs, RemovalPCs
<1>3. play.pc = "removed" /\ play.clean => \A g \in Hosts \ play.todo : container[g] = "none"
  BY DEF EngineInv, Gone
<1>4. CASE play.todo = {h} /\ Containers!Go(pc, Hosts)
  <2>1. play.pc = "removed" /\ play.clean => \A g \in Hosts : container[g] = "none"  BY <1>3, <1>4
  <2>. QED  BY <1>1, <1>2, <1>4, <2>1, PlayGoes
<1>5. CASE Containers!Go(play.pc, play.todo \ {h})
  <2>1. play.pc = "removed" => \A g \in Hosts \ (play.todo \ {h}) :
          container[g] = "none" \/ (play.pc = "removed" /\ g \notin play.todo) \/ ~play.clean
    OBVIOUS
  <2>. QED  BY <1>1, <1>2, <1>5, <2>1, PlayGoes
<1>. QED  BY <1>4, <1>5, LoopGoes

LEMMA CreateTasksKeep ==
  ASSUME EngineInv,
         \/ Containers!CreateNetwork \/ Containers!LaunchCreation \/ Containers!WaitCreation
         \/ Containers!Verify
  PROVE  EngineInv'
<1>. USE DEF Containers!engineState, Containers!bounds, Containers!At
<1>1. /\ play.todo \in SUBSET Hosts /\ network \in BOOLEAN /\ creates \in 0..MaxCreates
      /\ jobs \subseteq Containers!Job
      /\ CreatePCs \subseteq Containers!PCs
      /\ CreatePCs = {"network", "launch", "wait", "verify", "inventory"}
  BY DEF EngineInv, EngineTypes, CreatePCs, Containers!PCs
<1>2. CASE Containers!CreateNetwork
  BY <1>1, <1>2, PlayGoes DEF Containers!CreateNetwork
<1>3. CASE Containers!LaunchCreation
  <2>. DEFINE job(h) == [host |-> h, for |-> "create", mine |-> TRUE, at |-> "look"]
  <2>1. PICK h \in play.todo : jobs' = jobs \cup {job(h)} /\ Containers!Did(h, "wait")
    BY <1>3 DEF Containers!LaunchCreation, Containers!Launched
  <2>2. play.pc = "launch" /\ UNCHANGED <<backend, container, network, creates>>
    BY <1>3 DEF Containers!LaunchCreation, Containers!Launched
  <2>3. jobs' \subseteq Containers!Job
    <3>1. \A g \in Hosts : job(g) \in Containers!Job  BY DEF Containers!Job
    <3>. HIDE DEF job
    <3>. QED  BY <1>1, <2>1, <3>1
  <2>4. \A i \in jobs' \ jobs : i.at = "look" /\ i.mine /\ i.for = "create"  BY <2>1
  <2>. HIDE DEF job
  <2>. QED  BY <1>1, <2>1, <2>2, <2>3, <2>4, CreateLoop
<1>4. CASE Containers!WaitCreation
  <2>1. CASE Containers!WaitFails
    BY <1>1, <2>1, PlayFails DEF Containers!WaitFails
  <2>2. CASE Containers!Waited("create", Containers!AfterWait)
    <3>1. PICK j \in jobs : j.mine /\ j.for = "create" /\ j.at = "ok" /\ j.host \in play.todo
                            /\ Containers!Did(j.host, Containers!AfterWait)
      BY <2>2 DEF Containers!Waited, Containers!Answered
    <3>2. play.pc = "wait" /\ UNCHANGED <<backend, container, network, jobs, creates>>
      BY <1>4, <2>2 DEF Containers!WaitCreation, Containers!Waited
    <3>3. play.clean => /\ container[j.host] # "none"
                        /\ \A h \in Hosts \ play.todo : container[h] # "none"
      BY <1>1, <3>1, <3>2 DEF EngineInv, Kept
    <3>4. Containers!AfterWait \in {"verify", "inventory"}  BY DEF Containers!AfterWait
    <3>. QED  BY <1>1, <3>1, <3>2, <3>3, <3>4, CreateLoop
  <2>. QED  BY <1>4, <2>1, <2>2 DEF Containers!WaitCreation
<1>5. CASE Containers!Verify
  <2>1. PICK h \in play.todo : container[h] = "running" /\ Containers!Did(h, "inventory")
    BY <1>5 DEF Containers!Verify
  <2>2. play.pc = "verify" /\ UNCHANGED <<backend, container, network, jobs, creates>>
    BY <1>5 DEF Containers!Verify
  <2>. QED  BY <1>1, <2>1, <2>2, CreateLoop
<1>. QED  BY <1>2, <1>3, <1>4, <1>5

LEMMA RemovalTasksKeep ==
  ASSUME EngineInv, Containers!LaunchRemoval \/ Containers!WaitRemoval \/ Containers!ResetRemove
  PROVE  EngineInv'
<1>. USE DEF Containers!engineState, Containers!bounds, Containers!At
<1>1. /\ play.todo \in SUBSET Hosts /\ network \in BOOLEAN /\ creates \in 0..MaxCreates
      /\ jobs \subseteq Containers!Job
      /\ RemovalPCs \subseteq Containers!PCs
      /\ RemovalPCs = {"removals", "removed", "unlink"}
      /\ \A pc \in RemovalPCs : pc \notin CreatePCs
  BY DEF EngineInv, EngineTypes, CreatePCs, RemovalPCs, Containers!PCs
<1>2. CASE Containers!LaunchRemoval
  <2>. DEFINE job(h) == [host |-> h, for |-> "remove", mine |-> TRUE, at |-> "look"]
  <2>1. PICK h \in play.todo : jobs' = jobs \cup {job(h)} /\ Containers!Did(h, "removed")
    BY <1>2 DEF Containers!LaunchRemoval, Containers!Launched, Containers!AfterLaunch
  <2>2. play.pc = "removals" /\ UNCHANGED <<backend, container, network, creates>>
    BY <1>2 DEF Containers!LaunchRemoval, Containers!Launched
  <2>3. jobs' \subseteq Containers!Job
    <3>1. \A g \in Hosts : job(g) \in Containers!Job  BY DEF Containers!Job
    <3>. HIDE DEF job
    <3>. QED  BY <1>1, <2>1, <3>1
  <2>4. \A i \in jobs' \ jobs : i.at = "look" /\ i.mine /\ i.for = "remove"  BY <2>1
  <2>. HIDE DEF job
  <2>. QED  BY <1>1, <2>1, <2>2, <2>3, <2>4, RemovalLoop
<1>3. CASE Containers!WaitRemoval
  <2>1. CASE Containers!WaitFails
    BY <1>1, <2>1, PlayFails DEF Containers!WaitFails
  <2>2. CASE Containers!Waited("remove", "unlink")
    <3>1. PICK j \in jobs : j.mine /\ j.for = "remove" /\ j.at = "ok" /\ j.host \in play.todo
                            /\ Containers!Did(j.host, "unlink")
      BY <2>2 DEF Containers!Waited, Containers!Answered
    <3>2. play.pc = "removed" /\ UNCHANGED <<backend, container, network, jobs, creates>>
      BY <1>3, <2>2 DEF Containers!WaitRemoval, Containers!Waited
    <3>3. play.clean => /\ container[j.host] = "none"
                        /\ \A h \in Hosts \ play.todo : container[h] = "none"
      BY <1>1, <3>1, <3>2 DEF EngineInv, Gone
    <3>. QED  BY <1>1, <3>1, <3>2, <3>3, RemovalLoop
  <2>. QED  BY <1>3, <2>1, <2>2 DEF Containers!WaitRemoval
<1>4. ASSUME NEW g \in play.todo, Containers!At("reset"), Containers!Go("reset", play.todo \ {g}),
             container' = [container EXCEPT ![g] = "none"],
             UNCHANGED <<backend, network, jobs, creates>>
      PROVE  EngineInv'
  <2>1. /\ play.pc = "reset" /\ play'.pc = "reset" /\ play'.todo = play.todo \ {g} /\ play'.done = play.done
        /\ (play'.clean <=> play.clean) /\ play.done = "none"
        /\ play' \in [pc : Containers!PCs, todo : SUBSET Hosts,
                      done : {"none", "create", "destroy", "reset"}, clean : BOOLEAN]
    BY <1>4 DEF Containers!Go, EngineInv, EngineTypes, Attended
  <2>2. EngineTypes'
    BY <1>4, <2>1 DEF EngineInv, EngineTypes, Containers!Job, Containers!PCs
  <2>3. Attended'  BY <1>4, <2>1 DEF EngineInv, Attended, CreatePCs, RemovalPCs
  <2>4. Kept'  BY <2>1 DEF Kept, CreatePCs
  <2>5. Containers!NoneInFlight("create") => Containers!NoneInFlight("create")'
    BY <1>4 DEF Containers!NoneInFlight, Containers!Ended
  <2>6. Containers!Labelled' \subseteq Containers!Labelled \ {g}
    BY <1>1, <1>4 DEF Containers!Labelled, EngineInv, EngineTypes
  <2>7. Gone'  BY <2>1, <2>5, <2>6 DEF EngineInv, Gone, RemovalPCs
  <2>. QED  BY <2>2, <2>3, <2>4, <2>7 DEF EngineInv
<1>. QED  BY <1>2, <1>3, <1>4 DEF Containers!ResetRemove

LEMMA EngineKeeps ==
  ASSUME EngineInv, OnEngine(Containers!Next)
  PROVE  EngineInv'
<1>. USE DEF Containers!engineState, Containers!bounds
<1>1. creates \in 0..MaxCreates /\ network \in BOOLEAN  BY DEF EngineInv, EngineTypes
<1>2. CASE Containers!Create
  <2>1. creates' \in 0..MaxCreates  BY <1>1, <1>2, LifecycleAssumption DEF Containers!Create
  <2>. QED  BY <1>2, <2>1, PlayStarts DEF Containers!Create
<1>3. CASE Containers!Destroy \/ Containers!Reset
  BY <1>3, PlayStarts DEF Containers!Destroy, Containers!Reset
<1>4. CASE Containers!Tasks
  <2>1. CASE Containers!VerifyFails \/ Containers!NetworkBusy
    BY <1>1, <2>1, PlayFails DEF Containers!VerifyFails, Containers!NetworkBusy
  <2>2. CASE Containers!WriteInventory
    BY <1>1, <2>2, PlaySucceeds DEF Containers!WriteInventory, Containers!At
  <2>3. CASE Containers!DeleteNetwork \/ Containers!NetworkIgnored
    BY <1>1, <2>3, PlaySucceeds DEF Containers!DeleteNetwork, Containers!NetworkIgnored, Containers!At
  <2>4. CASE Containers!ResetDone
    BY <1>1, <2>4, PlaySucceeds DEF Containers!ResetDone, Containers!At
  <2>. QED
    BY <1>4, <2>1, <2>2, <2>3, <2>4, CreateTasksKeep, RemovalTasksKeep DEF Containers!Tasks
<1>5. CASE Containers!Interrupted
  BY <1>1, <1>5, PlayFails DEF Containers!Interrupted
<1>. QED
  BY <1>2, <1>3, <1>4, <1>5, JobsKeep, FailuresKeep DEF OnEngine, Containers!Next

\* What happens in the cluster leaves the engine alone.
LEMMA BystanderEngine ==
  ASSUME EngineInv, UNCHANGED <<containerState, backend>>
  PROVE  EngineInv'
<1>. USE DEF containerState
<1>1. EngineTypes' /\ Attended'  BY DEF EngineInv, EngineTypes, Attended, Containers!Job, Containers!PCs
<1>2. \A for : Containers!NoneInFlight(for) => Containers!NoneInFlight(for)'
  BY DEF Containers!NoneInFlight, Containers!Ended
<1>3. Kept'  BY <1>2 DEF EngineInv, Kept
<1>4. Gone'  BY <1>2 DEF EngineInv, Gone, Containers!Labelled
<1>. QED  BY <1>1, <1>3, <1>4 DEF EngineInv

LEMMA ScenarioEngine == LifecycleSpec => []EngineInv
<1>1. EngineInv /\ [LifecycleNext]_vars => EngineInv'
  <2>1. ASSUME EngineInv, InCluster(Next) PROVE EngineInv'  BY <2>1, BystanderEngine DEF InCluster
  <2>2. ASSUME EngineInv, UNCHANGED vars PROVE EngineInv'  BY <2>2, BystanderEngine DEF vars
  <2>. QED  BY <2>1, <2>2, EngineKeeps DEF LifecycleNext
<1>. QED  BY <1>1, InitEngine, PTL DEF LifecycleSpec

\* A create that succeeds leaves every container and their network there, unless a
\* removal was in flight when it began (podman/tasks/create.yml, docker/tasks/create.yml).
THEOREM CreatesComplete == LifecycleSpec => []CreateComplete
<1>1. EngineInv => CreateComplete
  BY DEF EngineInv, Attended, Kept, CreateComplete, Containers!CreateComplete
<1>. QED  BY <1>1, ScenarioEngine, PTL

\* A destroy that succeeds leaves no container and, with Podman, no network, and a
\* reset no labelled container, unless a creation was in flight (destroy.yml, reset.yml).
THEOREM CleanupsComplete == LifecycleSpec => []CleanupComplete
<1>1. EngineInv => CleanupComplete
  BY DEF EngineInv, Attended, Gone, CleanupComplete, Containers!CleanupComplete, Containers!InUse
<1>. QED  BY <1>1, ScenarioEngine, PTL

\* On an engine, faults are counted up to their bound.
EngineFaultsBounded == backend # "kubevirt" => faults \in 0..MaxFaults

LEMMA ScenarioFaults == LifecycleSpec => []EngineFaultsBounded
<1>. USE KubevirtAssumption DEF EngineFaultsBounded
<1>1. LifecycleInit => EngineFaultsBounded  BY DEF LifecycleInit, Init
<1>2. EngineFaultsBounded /\ [LifecycleNext]_vars => EngineFaultsBounded'
  <2>. SUFFICES ASSUME EngineFaultsBounded, [LifecycleNext]_vars PROVE EngineFaultsBounded'  OBVIOUS
  <2>1. CASE InCluster(Next)  BY <2>1 DEF InCluster
  <2>2. CASE OnEngine(Containers!Next)
    <3>1. backend' = backend  BY <2>2, EngineFaults DEF OnEngine
    <3>2. faults \in 0..MaxFaults  BY <2>2 DEF OnEngine
    <3>3. faults' = faults \/ (faults < MaxFaults /\ faults' = faults + 1)
      BY <2>2, EngineFaults DEF OnEngine
    <3>. QED  BY <3>1, <3>2, <3>3
  <2>3. CASE UNCHANGED vars  BY <2>3 DEF vars
  <2>. QED  BY <2>1, <2>2, <2>3 DEF LifecycleNext
<1>. QED  BY <1>1, <1>2, PTL DEF LifecycleSpec

\* Every variable of a scenario has its type, whatever backend it has chosen.
THEOREM ScenarioTypes == LifecycleSpec => []LifecycleTypeOK
<1>1. IInv /\ EngineInv /\ EngineFaultsBounded => LifecycleTypeOK
  BY LifecycleAssumption
  DEF IInv, EngineInv, EngineTypes, EngineFaultsBounded, LifecycleTypeOK, Containers!ContainerTypeOK
<1>. QED  BY <1>1, ScenarioIInv, ScenarioEngine, ScenarioFaults, PTL
================================================================================

------------------------------ MODULE KubevirtRun ------------------------------
(***************************************************************************)
(* An isolated run of the KubeVirt role (roles/kubevirt/tasks): its saved  *)
(* state kubevirt_run.yml, the runtime inventory, and what the cluster has *)
(* under the run's names.                                                  *)
(*                                                                         *)
(* One play at a time works in an ephemeral directory (README.md:83-85).   *)
(* A play may stop at every task; controllers and the garbage collector of *)
(* the cluster run on; other users may put objects on the run's names.     *)
(* ctl.taken is a history: the names that changed hands after the create   *)
(* that is running had checked them and before it wrote them.              *)
(***************************************************************************)
EXTENDS Naturals, FiniteSets

CONSTANTS
  Hosts,        \* hosts that some inventory has
  Inventories,  \* what a create may be given: its hosts and their needs
  Contested,    \* bound: names that other users touch
  MaxFaults,    \* bound: interruptions and what other users do
  NoRun

Kinds == {"vm", "service", "volume", "claim", "guest"}
Names == Hosts \X Kinds
Needs == [service : BOOLEAN, disk : BOOLEAN]

ASSUME KubevirtAssumption ==
  /\ Hosts # {}
  /\ \A i \in Inventories : DOMAIN i \subseteq Hosts /\ i \in [DOMAIN i -> Needs]
  /\ NoRun \notin Inventories /\ Contested \subseteq Names /\ MaxFaults \in Nat

VARIABLES
  file,       \* kubevirt_run.yml: the needs of each host, or none
  inventory,  \* is there a molecule_runtime.yml?
  ctl,        \* where the play is
  cluster,    \* the object of each name
  made,       \* objects ever made of each name, whose number is their uid
  faults

kubeVars == <<file, inventory, ctl, cluster, made, faults>>

\* own is the label run-id for what carries one and the controller's reference for
\* a claim; parent is the uid that ownerReferences name; version counts changes.
Object == [uid : Nat, version : Nat, own : BOOLEAN, parent : Nat, ending : BOOLEAN,
           disk : BOOLEAN]
NoObject == [uid |-> 0, version |-> 0, own |-> FALSE, parent |-> 0, ending |-> FALSE,
             disk |-> FALSE]

Present(n) == cluster[n].uid # 0
Mine(n) == Present(n) /\ cluster[n].own
Foreign(n) == Present(n) /\ ~cluster[n].own

PCs == {"idle", "c_persist", "c_check", "c_vm", "c_service", "c_inventory",
        "d_check", "d_next", "d_owned", "d_delete", "d_wait", "d_guest", "d_volume",
        "d_claim", "d_inventory", "d_record"}
Control == [pc : PCs, run : Inventories \cup {NoRun}, spec : Inventories \cup {NoRun},
            todo : SUBSET Names, name : Names, seen : Nat \X Nat, taken : SUBSET Names]

\* _record_run_host.yml, _data_volume_names.yml: the names of a run.
KindsOf(needs) == {"vm", "guest"} \cup (IF needs.service THEN {"service"} ELSE {})
                                  \cup (IF needs.disk THEN {"volume", "claim"} ELSE {})
NamesOf(run) == IF run = NoRun THEN {} ELSE {n \in Names : n[1] \in DOMAIN run /\ n[2] \in KindsOf(run[n[1]])}
Checked(run) == {n \in NamesOf(run) : n[2] \in {"vm", "service", "volume"}}
OfKind(run, kind) == {n \in NamesOf(run) : n[2] = kind}

AnyName == CHOOSE n \in Names : TRUE
Idle == [pc |-> "idle", run |-> NoRun, spec |-> NoRun, todo |-> {}, name |-> AnyName, seen |-> <<0, 0>>,
         taken |-> {}]

Init ==
  /\ file = NoRun /\ inventory = FALSE /\ ctl = Idle
  /\ cluster = [n \in Names |-> NoObject] /\ made = [n \in Names |-> 0]
  /\ faults = 0

-------------------------------------------------------------------------------
(* Helpers                                                                 *)

At(pc) == ctl.pc = pc
Goto(pc) == ctl' = [ctl EXCEPT !.pc = pc]
Stop == ctl' = Idle
\* A loop over todo begins; it has done n, and is followed by another when that was all.
Enter(pc, todo) == ctl' = [ctl EXCEPT !.pc = pc, !.todo = todo]
Done(n, pc, todo) ==
  IF ctl.todo = {n} THEN Enter(pc, todo) ELSE ctl' = [ctl EXCEPT !.todo = @ \ {n}]
Fault == faults < MaxFaults /\ faults' = faults + 1
world == <<cluster, made, faults>>

\* A task that only decides where to go on.
Check(pc) == Goto(pc) /\ UNCHANGED <<file, inventory, world>>
Fails == Stop /\ UNCHANGED <<file, inventory, world>>

Write(n, object) == cluster' = [cluster EXCEPT ![n] = object]
\* Nothing refers to the uid of a guest or a claim.
NewUid(n) == IF n[2] \in {"guest", "claim"} THEN 1 ELSE made[n] + 1
Add(n, own, parent, disk) ==
  /\ Write(n, [uid |-> NewUid(n), version |-> 0, own |-> own, parent |-> parent,
               ending |-> FALSE, disk |-> disk])
  /\ made' = [made EXCEPT ![n] = NewUid(n)]

\* _check_owned.yml, _check_data_volume.yml: nothing foreign has the name, and no
\* claim of another has a volume's.
OwnedNow(n) == Mine(n)
Owned(n) == Present(n) => cluster[n].own
Claim(n) == <<n[1], "claim">>
ClaimOwned(n) ==
  n[2] = "volume" /\ Present(Claim(n)) => Present(n) /\ cluster[Claim(n)].parent = cluster[n].uid
Passes(n) == Owned(n) /\ ClaimOwned(n)

-------------------------------------------------------------------------------
(* create.yml                                                              *)

\* _load_run.yml, _init_run.yml: a saved run goes on with the same hosts, Services
\* and disks, or not at all.
AcceptsAny(inv) == TRUE
Accepts(inv) == inv = file

Resume(inv) ==
  /\ At("idle") /\ file # NoRun /\ Accepts(inv)
  /\ ctl' = [Idle EXCEPT !.pc = "c_persist", !.run = file, !.spec = inv]
  /\ UNCHANGED <<file, inventory, world>>

\* A new identity is drawn, and with it names that nobody has used.
Create(inv) ==
  /\ At("idle") /\ file = NoRun
  /\ ctl' = [Idle EXCEPT !.pc = "c_persist", !.run = inv, !.spec = inv]
  /\ cluster' = [n \in Names |-> NoObject] /\ made' = [n \in Names |-> 0]
  /\ UNCHANGED <<file, inventory, faults>>

Persist ==
  /\ At("c_persist") /\ file' = ctl.run /\ Enter("c_check", Checked(ctl.run))
  /\ UNCHANGED <<inventory, world>>

\* _check_run_host.yml for every host, before provisioning and before cleanup.
\* For a host the VM comes first, then the Service, then the volume with its claim.
Due(n) == /\ n \in ctl.todo
          /\ \A m \in ctl.todo : m[1] = n[1] /\ m # n => n[2] = "vm" \/ m[2] = "volume"
CheckOwned ==
  \E n \in ctl.todo :
    /\ ctl.pc \in {"c_check", "d_check"} /\ Due(n) /\ Passes(n)
    /\ IF At("c_check") THEN Done(n, "c_vm", OfKind(ctl.spec, "vm"))
                        ELSE Done(n, "d_next", OfKind(ctl.run, "vm"))
    /\ UNCHANGED <<file, inventory, world>>
CheckRefuses ==
  \E n \in ctl.todo : ctl.pc \in {"c_check", "d_check"} /\ Due(n) /\ ~Passes(n) /\ Fails

\* state: present creates the object, or patches the one that has the name.
Applied(n) ==
  LET object == cluster[n]
      disk == n[2] = "vm" /\ ctl.spec[n[1]].disk
  IN IF Present(n)
     THEN /\ Write(n, [object EXCEPT !.own = TRUE, !.disk = disk,
                                     !.version = IF object.own THEN @ ELSE @ + 1])
          /\ UNCHANGED made
     ELSE Add(n, TRUE, 0, disk)

ApplyVm ==
  \E n \in ctl.todo :
    /\ At("c_vm") /\ Applied(n)
    /\ LET services == OfKind(ctl.spec, "service")
       IN Done(n, IF services = {} THEN "c_inventory" ELSE "c_service", services)
    /\ UNCHANGED <<file, inventory, faults>>
ApplyService ==
  \E n \in ctl.todo :
    /\ At("c_service") /\ Applied(n) /\ Done(n, "c_inventory", {})
    /\ UNCHANGED <<file, inventory, faults>>

WriteInventory ==
  /\ At("c_inventory") /\ inventory' = TRUE /\ Stop
  /\ UNCHANGED <<file, world>>

-------------------------------------------------------------------------------
(* destroy.yml, for a saved run; without one it deletes nothing            *)

Destroy ==
  /\ At("idle") /\ file # NoRun
  /\ ctl' = [Idle EXCEPT !.pc = "d_check", !.run = file, !.todo = Checked(file)]
  /\ UNCHANGED <<file, inventory, world>>

\* _destroy_run_host.yml, one host after the other.
DestroyHost ==
  \E n \in ctl.todo :
    /\ At("d_next") /\ ctl' = [ctl EXCEPT !.pc = "d_owned", !.name = n]
    /\ UNCHANGED <<file, inventory, world>>

Host == ctl.name[1]
Sibling(kind) == <<Host, kind>>
HasDisk == ctl.run[Host].disk
\* What comes after the resource that is gone.
AfterResource ==
  IF ctl.name[2] = "vm" /\ ctl.run[Host].service
  THEN ctl' = [ctl EXCEPT !.pc = "d_owned", !.name = Sibling("service"), !.seen = <<0, 0>>]
  ELSE ctl' = [ctl EXCEPT !.pc = "d_guest", !.seen = <<0, 0>>]

\* _delete_owned.yml: look again, keep uid and resourceVersion, delete on condition
\* that they still hold, and wait.
Recheck ==
  /\ At("d_owned") /\ Mine(ctl.name)
  /\ ctl' = [ctl EXCEPT !.pc = "d_delete", !.seen = <<cluster[ctl.name].uid, cluster[ctl.name].version>>]
  /\ UNCHANGED <<file, inventory, world>>
NothingToDelete ==
  /\ At("d_owned") /\ ~Present(ctl.name) /\ AfterResource
  /\ UNCHANGED <<file, inventory, world>>
RecheckRefuses == At("d_owned") /\ Foreign(ctl.name) /\ Fails

MatchesUid(object) == object.uid = ctl.seen[1]
Matches(object) == <<object.uid, object.version>> = ctl.seen
Delete ==
  /\ At("d_delete") /\ Present(ctl.name) /\ Matches(cluster[ctl.name])
  /\ Write(ctl.name, [cluster[ctl.name] EXCEPT !.ending = TRUE]) /\ Goto("d_wait")
  /\ UNCHANGED <<file, inventory, made, faults>>
DeleteConflict ==
  At("d_delete") /\ Present(ctl.name) /\ ~Matches(cluster[ctl.name]) /\ Fails
DeletedByOther == At("d_delete") /\ ~Present(ctl.name) /\ Check("d_wait")

ResourceGone ==
  /\ At("d_wait") /\ ~Present(ctl.name) /\ AfterResource
  /\ UNCHANGED <<file, inventory, world>>

\* The waits of _destroy_run_host.yml and _wait_data_volume.yml: VMI, volume, claim.
AfterGuest == IF HasDisk THEN "d_volume" ELSE "d_next"
HostDone(pc) ==
  /\ ctl' = [ctl EXCEPT !.pc = pc, !.todo = IF pc = "d_next" THEN @ \ {Sibling("vm")} ELSE @]
  /\ UNCHANGED <<file, inventory, world>>
GuestGone == At("d_guest") /\ ~Present(Sibling("guest")) /\ HostDone(AfterGuest)
VolumeGone == At("d_volume") /\ ~Present(Sibling("volume")) /\ HostDone("d_claim")
ClaimGone == At("d_claim") /\ ~Present(Sibling("claim")) /\ HostDone("d_next")

\* Local files go last, the saved run after everything else.
CleanedFile == "d_record"
Cleaned == "d_inventory"
HostsDone == At("d_next") /\ ctl.todo = {} /\ Check(Cleaned)
RemoveInventory ==
  /\ At("d_inventory") /\ inventory' = FALSE /\ Goto("d_record")
  /\ UNCHANGED <<file, world>>
RemoveRun ==
  /\ At("d_record") /\ file' = NoRun /\ Stop
  /\ UNCHANGED <<inventory, world>>

-------------------------------------------------------------------------------
(* Failures, the cluster and its other users                               *)

\* A task fails, a wait runs out, an API call is refused, the play is killed.
Interrupted == ~At("idle") /\ Stop /\ Fault /\ UNCHANGED <<file, inventory, cluster, made>>

Play == \/ Persist \/ CheckOwned \/ CheckRefuses \/ ApplyVm
        \/ ApplyService \/ WriteInventory
        \/ DestroyHost \/ Recheck \/ NothingToDelete
        \/ RecheckRefuses \/ Delete \/ DeleteConflict \/ DeletedByOther
        \/ ResourceGone \/ GuestGone \/ VolumeGone \/ ClaimGone \/ HostsDone
        \/ RemoveInventory \/ RemoveRun

Parent(n) == <<n[1], IF n[2] = "claim" THEN "volume" ELSE "vm">>
Dependent(n) == n[2] \in {"volume", "claim", "guest"}
Orphaned(n) == ~(Present(Parent(n)) /\ cluster[Parent(n)].uid = cluster[n].parent)

\* KubeVirt makes guest and volumes of a VM, CDI the claim of a volume.  One that
\* acts on an outdated cache may do so for a parent that is being deleted.
Controller(n) ==
  /\ Dependent(n) /\ ~Present(n) /\ Mine(Parent(n))
  /\ n[2] = "volume" => cluster[Parent(n)].disk
  /\ Add(n, TRUE, cluster[Parent(n)].uid, FALSE)
  /\ IF cluster[Parent(n)].ending THEN Fault ELSE UNCHANGED faults
  /\ UNCHANGED <<file, inventory, ctl>>

\* Foreground deletion: dependents go with their owner, a VM after its own.
Collect(n) ==
  /\ Dependent(n) /\ Mine(n) /\ ~cluster[n].ending
  /\ Orphaned(n) \/ cluster[Parent(n)].ending
  /\ Write(n, [cluster[n] EXCEPT !.ending = TRUE])
  /\ UNCHANGED <<file, inventory, ctl, made, faults>>
Blocked(n) ==
  n[2] = "vm" /\ \E kind \in {"volume", "guest"} :
                   LET d == <<n[1], kind>> IN Present(d) /\ cluster[d].parent = cluster[n].uid
Finalize(n) ==
  /\ cluster[n].ending /\ ~Blocked(n) /\ Write(n, NoObject)
  /\ UNCHANGED <<file, inventory, ctl, made, faults>>

\* Another user deletes an object of the run, takes it over by its label, puts one
\* of his own on a free name, or removes that again, between any two tasks of a play.
Direct(n) == n[2] \in {"vm", "service"}
\* create has checked the name and has not written it.
Unguarded(n) ==
  /\ Direct(n) /\ n \in NamesOf(ctl.run)
  /\ \/ At("c_check") /\ n \notin ctl.todo
     \/ At("c_vm") /\ (n \in ctl.todo \/ n[2] = "service")
     \/ At("c_service") /\ n \in ctl.todo
Took(n) == ctl' = IF Unguarded(n) THEN [ctl EXCEPT !.taken = @ \cup {n}] ELSE ctl
Vanish(n) ==
  /\ Direct(n) /\ Mine(n) /\ ~cluster[n].ending /\ Fault
  /\ Write(n, [cluster[n] EXCEPT !.ending = TRUE])
  /\ UNCHANGED <<file, inventory, ctl, made>>
Relabel(n) ==
  /\ Direct(n) /\ Mine(n) /\ ~cluster[n].ending /\ Fault
  /\ Write(n, [cluster[n] EXCEPT !.own = FALSE, !.version = @ + 1])
  /\ Took(n)
  /\ UNCHANGED <<file, inventory, made>>
Squat(n) ==
  /\ ~Present(n) /\ Fault
  /\ Add(n, FALSE, 0, FALSE)
  /\ Took(n)
  /\ UNCHANGED <<file, inventory>>
Leave(n) ==
  /\ Foreign(n) /\ Write(n, NoObject)
  /\ UNCHANGED <<file, inventory, ctl, made, faults>>

Cluster(n) == Controller(n) \/ Collect(n) \/ Finalize(n)
Settle(n) == Collect(n) \/ Finalize(n) \/ Leave(n)
Users(n) == \/ n \in Contested /\ (Vanish(n) \/ Relabel(n) \/ Squat(n))
            \/ Leave(n)

Next == \/ \E inv \in Inventories : Create(inv) \/ Resume(inv)
        \/ Destroy \/ Play \/ Interrupted
        \/ \E n \in Names : Cluster(n) \/ Users(n)

Spec == Init /\ [][Next]_kubeVars

\* A play goes on and a user repeats destroy until it succeeds; garbage collection
\* makes progress; what stands on a name of the run is removed by who put it there.
Fairness ==
  /\ WF_kubeVars(Play) /\ SF_kubeVars(Destroy)
  /\ WF_kubeVars(\E n \in Names : Settle(n))

FairSpec == Spec /\ Fairness

-------------------------------------------------------------------------------
(* Properties                                                              *)

\* Types; a play only deals with names of the run it has loaded or drawn.
TypeOK ==
  /\ file \in Inventories \cup {NoRun} /\ inventory \in BOOLEAN
  /\ ctl \in Control /\ ctl.todo \subseteq NamesOf(ctl.run)
  /\ cluster \in [Names -> Object] /\ made \in [Names -> Nat]
  /\ faults \in Nat

\* No step of a run deletes an object of somebody else, whatever has changed since
\* the run last looked, and none adopts one that had the name when create checked it
\* (_check_owned.yml, _delete_owned.yml:5-19).  What takes a name between that check
\* and create's write is adopted: `state: present` has no precondition
\* (create.yml:17-23, 69-80, _create_vm.yml:11-14, _create_service.yml:33-39).
ForeignKept ==
  [][\A n \in Names : Foreign(n) =>
       /\ ~cluster'[n].ending
       /\ cluster'[n].own => n \in ctl.taken /\ ctl.pc \in {"c_vm", "c_service"}]_kubeVars

\* The saved run names all that the run has in the cluster, before it is there and
\* until it is gone (_init_run.yml:31-37, _destroy_run.yml:17-27).
Ledger == INSTANCE WriteAhead WITH record <- NamesOf(file), owned <- {n \in Names : Mine(n)}
RunAccounted == Ledger!Spec

\* Connection details never outlive the run they are for (_destroy_run.yml:19-27).
InventoryHasRun == inventory => file # NoRun

\* Destroy, repeated, comes to its end: what is left half deleted, taken over or
\* squatted on delays it only (README.md:103-110).
DestroyCompletes == (file # NoRun) ~> (file = NoRun)
================================================================================

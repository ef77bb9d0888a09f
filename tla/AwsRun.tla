-------------------------------- MODULE AwsRun --------------------------------
(***************************************************************************)
(* A run of the AWS role on a managed regional network (roles/aws/tasks,   *)
(* plugins/modules/aws_instance.py, aws_spec.reconcile_network): the       *)
(* journal aws_run.yml, the launch requests, and what exists in EC2.       *)
(*                                                                         *)
(* The controller lease (module AwsLease) admits one play at a time.  A    *)
(* play may be interrupted at every step, the answer to a request may be   *)
(* lost, and what was created may take time to show up in descriptions.    *)
(* The run is one identity: the next run has other names and tags.         *)
(***************************************************************************)
EXTENDS Integers, FiniteSets

CONSTANTS
  Hosts,      \* guests of the run
  Region,     \* the scope of the shared network
  Delayed,    \* kinds whose creation may show up late
  MaxIds,     \* bound: objects of one name that are ever made (a quota)
  MaxFaults,  \* bound: interruptions, lost answers, refused requests
  NoRun, NoKind

NetKinds == {"vpc", "subnet", "gateway", "route"}
GuestKinds == {"keypair", "group", "instance", "eni"}
Kinds == NetKinds \cup GuestKinds
Ids == 1..MaxIds
Net(k) == <<Region, k>>
Things == ({Region} \X NetKinds) \cup (Hosts \X GuestKinds)
Scopes == Hosts \cup {Region}
Journal == [ids : [Things -> SUBSET Ids], pending : [Scopes -> Kinds \cup {NoKind}]]
States == {"none", "hidden", "up", "attached", "gone"}

CreatePCs == {"init", "n_info", "n_next", "n_create", "n_record", "h_next", "h_key",
              "h_import", "h_group", "h_save", "h_request", "h_publish", "h_run",
              "h_accept", "h_wait", "e_info", "e_create", "e_record", "e_attach",
              "h_descend"}
DestroyPCs == {"d_next", "d_term", "d_eni", "d_group", "d_key", "d_net", "d_requests",
               "d_journal"}
Control == [pc : CreatePCs \cup DestroyPCs \cup {"idle"}, host : Scopes, kind : Kinds,
            todo : SUBSET Hosts, target : [Kinds -> SUBSET Ids]]

ASSUME RunAssumption ==
  /\ IsFiniteSet(Hosts) /\ Region \notin Hosts
  /\ Delayed \subseteq Kinds
  /\ MaxIds \in Nat \ {0} /\ MaxFaults \in Nat
  /\ NoRun \notin Journal /\ NoKind \notin Kinds

VARIABLES
  journal,   \* aws_run.yml
  requests,  \* aws-requests/<host>.json and its .tmp
  mem,       \* __mp_aws_run of the play
  ctl,       \* where the play is
  cloud,     \* what EC2 has of each name
  token,     \* the instance EC2 knows a client token for
  born,      \* has the run identity been drawn?
  faults

files == <<journal, requests>>
ec2 == <<cloud, token>>
vars == <<files, mem, ctl, ec2, born, faults>>

Live(state) == state \in {"hidden", "up", "attached"}
LiveIds(t) == {i \in Ids : Live(cloud[t][i])}
Seen(t) == {i \in Ids : cloud[t][i] \in {"up", "attached"}}

\* A description filters by the recorded id, or else by name or tags.
Found(t) == IF mem.ids[t] # {} THEN mem.ids[t] \cap Seen(t) ELSE Seen(t)

NoTarget == [k \in Kinds |-> {}]
Idle == [pc |-> "idle", host |-> Region, kind |-> "vpc", todo |-> {}, target |-> NoTarget]
NewRun == [ids |-> [t \in Things |-> {}], pending |-> [s \in Scopes |-> NoKind]]

Init ==
  /\ journal = NoRun /\ mem = NewRun
  /\ requests = [h \in Hosts |-> "absent"]
  /\ ctl = Idle
  /\ cloud = [t \in Things |-> [i \in Ids |-> "none"]]
  /\ token = [h \in Hosts |-> {}]
  /\ born = FALSE /\ faults = 0

-------------------------------------------------------------------------------
(* Helpers                                                                 *)

At(pc) == ctl.pc = pc
Guest == ctl.host
Mine(k) == <<Guest, k>>
Goto(pc) == ctl' = [ctl EXCEPT !.pc = pc]
Stop == ctl' = Idle
Fault == faults < MaxFaults /\ faults' = faults + 1

\* The journal is replaced atomically by what the play remembers.
Save(m) == mem' = m /\ journal' = m
Remember(m) == mem' = m /\ UNCHANGED journal

Pending(s, k) == [mem EXCEPT !.pending[s] = k]
Recorded(t, ids) == [mem EXCEPT !.ids[t] = @ \cup ids, !.pending[t[1]] = IF @ = t[2] THEN NoKind ELSE @]

Put(t, i, state) == cloud' = [cloud EXCEPT ![t][i] = state]
Delete(t, ids) == [cloud EXCEPT ![t] = [i \in Ids |-> IF i \in ids THEN "gone" ELSE @[i]]]
Unused(t) == {i \in Ids : cloud[t][i] = "none" /\ \A j \in 1..(i - 1) : cloud[t][j] # "none"}

\* A create call: it is answered with the new id; or its answer is lost, and the
\* object shows up at once or later; or it is refused (the quota included).
Created(t, i, pc) ==
  /\ i \in Unused(t) /\ Put(t, i, "up")
  /\ Remember(Recorded(t, {i})) /\ Goto(pc) /\ UNCHANGED faults
Lost(t, i) ==
  /\ i \in Unused(t)
  /\ \E state \in {"up"} \cup (IF t[2] \in Delayed THEN {"hidden"} ELSE {}) : Put(t, i, state)
  /\ UNCHANGED <<journal, mem>> /\ Stop /\ Fault
RefusedCall(t) ==
  /\ Unused(t) = {}
  /\ UNCHANGED <<journal, mem, cloud, faults>> /\ Stop

\* The play fails on a condition of its own.
Fails == Stop /\ UNCHANGED <<files, mem, ec2, born, faults>>
Check(pc) == Goto(pc) /\ UNCHANGED <<files, mem, ec2, born, faults>>

-------------------------------------------------------------------------------
(* Create: the shared network                                              *)

\* _create.yml: load the journal, or draw a run identity.
CreateAnew ==
  /\ At("idle") /\ mem' = NewRun /\ born' = TRUE
  /\ ctl' = [Idle EXCEPT !.pc = "init", !.todo = Hosts]
  /\ UNCHANGED <<files, ec2, faults>>
Create ==
  /\ At("idle")
  /\ \/ journal # NoRun /\ mem' = journal /\ UNCHANGED born
     \/ journal = NoRun /\ ~born /\ mem' = NewRun /\ born' = TRUE
  /\ ctl' = [Idle EXCEPT !.pc = "init", !.todo = Hosts]
  /\ UNCHANGED <<files, ec2, faults>>

SaveInitial ==
  /\ At("init") /\ Save(mem) /\ Goto("n_info")
  /\ UNCHANGED <<requests, ec2, born, faults>>

\* reconcile_network: what makes it raise, and what it recovers.
Ambiguous(k) == Cardinality(Found(Net(k))) > 1
Disappeared(k) == mem.ids[Net(k)] # {} /\ Found(Net(k)) = {}
DisappearedAlways(k, deleting) == Disappeared(k)
Lacking(k, deleting) == Disappeared(k) /\ ~deleting
NeverUncertain(k) == FALSE
Uncertain(k) == mem.pending[Region] = k /\ Found(Net(k)) = {}
Refuses(deleting) ==
  \E k \in NetKinds : Ambiguous(k) \/ Lacking(k, deleting) \/ Uncertain(k)
Reconciled ==
  [mem EXCEPT !.ids = [t \in Things |-> IF t[1] = Region THEN @[t] \cup Found(t) ELSE @[t]],
              !.pending[Region] = NoKind]

NetworkInfo ==
  /\ At("n_info")
  /\ IF Refuses(FALSE) THEN Fails
     ELSE /\ Remember(Reconciled) /\ Goto("n_next")
          /\ UNCHANGED <<requests, ec2, born, faults>>

Missing(k) == mem.ids[Net(k)] = {}
Needs(k) == CASE k = "vpc" -> {} [] k = "subnet" -> {"vpc"} [] k = "gateway" -> {"vpc", "subnet"}
              [] k = "route" -> {"vpc", "subnet", "gateway"}
NextMissing(k) == Missing(k) /\ \A j \in Needs(k) : ~Missing(j)

\* The intent to create is saved before the call, the id after it.
NetworkMarkUnsaved(k) ==
  /\ At("n_next") /\ NextMissing(k)
  /\ Remember(Pending(Region, k)) /\ ctl' = [ctl EXCEPT !.pc = "n_create", !.kind = k]
  /\ UNCHANGED <<requests, ec2, born, faults>>
NetworkMark(k) ==
  /\ At("n_next") /\ NextMissing(k)
  /\ Save(Pending(Region, k)) /\ ctl' = [ctl EXCEPT !.pc = "n_create", !.kind = k]
  /\ UNCHANGED <<requests, ec2, born, faults>>

NetworkCreate ==
  /\ At("n_create")
  /\ \/ \E i \in Ids : Created(Net(ctl.kind), i, "n_record") \/ Lost(Net(ctl.kind), i)
     \/ RefusedCall(Net(ctl.kind))
  /\ UNCHANGED <<requests, token, born>>

NetworkRecord ==
  /\ At("n_record") /\ Save(mem) /\ Goto("n_next")
  /\ UNCHANGED <<requests, ec2, born, faults>>

\* Attachment, routes and associations are completed; the journal is saved.
NetworkDone ==
  /\ At("n_next") /\ \A k \in NetKinds : ~Missing(k)
  /\ Save(mem) /\ Goto("h_next")
  /\ UNCHANGED <<requests, ec2, born, faults>>

-------------------------------------------------------------------------------
(* Create: one guest                                                       *)

NextHost ==
  /\ At("h_next")
  /\ \/ \E h \in ctl.todo : ctl' = [ctl EXCEPT !.pc = "h_key", !.host = h]
     \/ ctl.todo = {} /\ Stop
  /\ UNCHANGED <<files, mem, ec2, born, faults>>

\* _keys.yml: the key pair has a name of its own, recorded before the import.
RecordKey ==
  /\ At("h_key")
  /\ Save([mem EXCEPT !.ids[Mine("keypair")] = {1}]) /\ Goto("h_import")
  /\ UNCHANGED <<requests, ec2, born, faults>>

ImportKey ==
  /\ At("h_import") /\ Put(Mine("keypair"), 1, "up")
  /\ \/ Goto("h_group") /\ UNCHANGED faults
     \/ Stop /\ Fault
  /\ UNCHANGED <<files, mem, token, born>>

\* The group is found by its name, or created; a name is taken even before the
\* group shows up.
CreateGroup ==
  LET t == Mine("group") IN
  /\ At("h_group")
  /\ \/ /\ mem.ids[t] # {} \/ Seen(t) # {}
        /\ Remember([mem EXCEPT !.ids[t] = IF @ = {} THEN Seen(t) ELSE @]) /\ Goto("h_save")
        /\ UNCHANGED <<cloud, faults>>
     \/ /\ mem.ids[t] = {} /\ LiveIds(t) = {}
        /\ \/ \E i \in Ids : Created(t, i, "h_save") \/ Lost(t, i)
           \/ RefusedCall(t)
     \/ /\ mem.ids[t] = {} /\ Seen(t) = {} /\ LiveIds(t) # {}
        /\ Stop /\ UNCHANGED <<journal, mem, cloud, faults>>
  /\ UNCHANGED <<requests, token, born>>

SaveGuest ==
  /\ At("h_save") /\ Save(mem) /\ Goto("h_request")
  /\ UNCHANGED <<requests, ec2, born, faults>>

\* save_request: a saved request is kept; one that is left half-written makes
\* O_EXCL fail.
SaveRequest ==
  /\ At("h_request")
  /\ CASE requests[Guest] = "saved" -> Check("h_run")
       [] requests[Guest] = "partial" -> Fails
       [] OTHER -> /\ requests' = [requests EXCEPT ![Guest] = "partial"] /\ Goto("h_publish")
                   /\ UNCHANGED <<journal, mem, ec2, born, faults>>

PublishLater == At("h_publish") /\ Check("h_run")
PublishRequest ==
  /\ At("h_publish")
  /\ requests' = [requests EXCEPT ![Guest] = "saved"] /\ Goto("h_run")
  /\ UNCHANGED <<journal, mem, ec2, born, faults>>

\* RunInstances starts one instance for a client token and answers with it ever
\* after; it needs the key pair and the group.
Launchable == LiveIds(Mine("keypair")) # {} /\ mem.ids[Mine("group")] \cap LiveIds(Mine("group")) # {}
StartedUntold == {}
Started == token[Guest]

RunInstances ==
  LET t == Mine("instance") IN
  /\ At("h_run") /\ Launchable /\ Started = {}
  /\ \/ \E i \in Ids : /\ Created(t, i, "h_accept") \/ Lost(t, i)
                       /\ token' = [token EXCEPT ![Guest] = {i}]
     \/ RefusedCall(t) /\ UNCHANGED token
  /\ UNCHANGED <<requests, born>>

\* A replay: the saved launch must still represent a live guest, the recorded one.
ReplayInstances ==
  LET t == Mine("instance") IN
  /\ At("h_run") /\ Launchable /\ Started # {}
  /\ Started \subseteq LiveIds(t) /\ mem.ids[t] \subseteq Started
  /\ Remember([mem EXCEPT !.ids[t] = Started]) /\ Goto("h_accept")
  /\ UNCHANGED <<requests, ec2, born, faults>>

LaunchFails ==
  /\ At("h_run")
  /\ \/ ~Launchable
     \/ /\ Started # {}
        /\ ~(Started \subseteq LiveIds(Mine("instance")) /\ mem.ids[Mine("instance")] \subseteq Started)
  /\ Fails

AcceptLaunch ==
  /\ At("h_accept") /\ Save(mem) /\ Goto("h_wait")
  /\ UNCHANGED <<requests, ec2, born, faults>>

\* Waited for, up to a timeout.
WaitRunning ==
  /\ At("h_wait")
  /\ IF Found(Mine("instance")) = {} THEN Fails ELSE Check("e_info")

\* _secondary_interface.yml: found by its name, or created once the intent is
\* saved; an intent without an interface is uncertain.
EniInfo ==
  LET t == Mine("eni") IN
  /\ At("e_info")
  /\ IF \/ Cardinality(Seen(t)) > 1
        \/ Seen(t) = {} /\ mem.pending[Guest] = "eni"
     THEN Fails
     ELSE /\ Save(Pending(Guest, "eni"))
          /\ ctl' = [ctl EXCEPT !.pc = "e_create", !.target["eni"] = Seen(t)]
          /\ UNCHANGED <<requests, ec2, born, faults>>

EniCreate ==
  LET t == Mine("eni") IN
  /\ At("e_create")
  /\ \/ /\ ctl.target["eni"] # {}
        /\ Remember(Recorded(t, ctl.target["eni"])) /\ Goto("e_record") /\ UNCHANGED <<cloud, faults>>
     \/ /\ ctl.target["eni"] = {}
        /\ \/ \E i \in Ids : Created(t, i, "e_record") \/ Lost(t, i)
           \/ RefusedCall(t)
  /\ UNCHANGED <<requests, token, born>>

EniRecord ==
  /\ At("e_record") /\ Save(mem) /\ Goto("e_attach")
  /\ UNCHANGED <<requests, ec2, born, faults>>

\* Attached for deletion on termination.
EniAttach ==
  LET t == Mine("eni") IN
  /\ At("e_attach")
  /\ \E i \in Ids : i \in mem.ids[t] \cap Seen(t) /\ Put(t, i, "attached")
  /\ Goto("h_descend")
  /\ UNCHANGED <<files, mem, token, born, faults>>

\* The instance's own list of interfaces replaces the recorded ones.
SaveDescendants ==
  LET t == Mine("eni") IN
  /\ At("h_descend")
  /\ Save([mem EXCEPT !.ids[t] = {i \in Ids : cloud[t][i] = "attached"}])
  /\ ctl' = [ctl EXCEPT !.pc = "h_next", !.todo = @ \ {Guest}]
  /\ UNCHANGED <<requests, ec2, born, faults>>

-------------------------------------------------------------------------------
(* Destroy                                                                 *)

\* A run without a journal has nothing this code may remove.
DestroyNothing == At("idle") /\ journal = NoRun /\ UNCHANGED vars

Destroy ==
  /\ At("idle") /\ journal # NoRun
  /\ mem' = journal /\ ctl' = [Idle EXCEPT !.pc = "d_next", !.todo = Hosts]
  /\ UNCHANGED <<files, ec2, born, faults>>

\* Instances (by id, or by tags when no id was recorded) and interfaces are
\* located, and what was found is saved before anything is deleted.
DestroyGuest ==
  /\ At("d_next")
  /\ \E h \in ctl.todo : LET instances == Found(<<h, "instance">>) IN
       IF Cardinality(instances) > 1 THEN Fails
       ELSE /\ Save([mem EXCEPT !.ids[<<h, "eni">>] = @ \cup Seen(<<h, "eni">>)])
            /\ ctl' = [ctl EXCEPT !.pc = "d_term", !.host = h, !.target["instance"] = instances]
            /\ UNCHANGED <<requests, ec2, born, faults>>

\* Terminated, and waited for; attached interfaces go with it.
Terminate ==
  /\ At("d_term")
  /\ cloud' = [cloud EXCEPT
       ![Mine("instance")] = [i \in Ids |-> IF i \in ctl.target["instance"] THEN "gone" ELSE @[i]],
       ![Mine("eni")] = [i \in Ids |->
          IF ctl.target["instance"] # {} /\ @[i] = "attached" THEN "gone" ELSE @[i]]]
  /\ Goto("d_eni")
  /\ UNCHANGED <<files, mem, token, born, faults>>

\* Interfaces that remain are deleted; one in use is waited for in vain.
DeleteInterfaces ==
  LET t == Mine("eni")  left == mem.ids[t] \cap Seen(t) IN
  /\ At("d_eni")
  /\ \/ /\ \A i \in left : cloud[t][i] # "attached"
        /\ cloud' = Delete(t, left) /\ Goto("d_group")
        /\ UNCHANGED <<files, mem, token, born, faults>>
     \/ (\E i \in left : cloud[t][i] = "attached") /\ Fails

\* EC2 deletes no group that an instance or an interface uses.
GroupInUse == LiveIds(Mine("instance")) # {} \/ LiveIds(Mine("eni")) # {}

DeleteGroup ==
  LET t == Mine("group") IN
  /\ At("d_group")
  /\ \/ Found(t) # {} /\ GroupInUse /\ Fails
     \/ /\ Found(t) = {} \/ ~GroupInUse
        /\ cloud' = Delete(t, Found(t)) /\ Goto("d_key")
        /\ UNCHANGED <<files, mem, token, born, faults>>

DeleteKey ==
  LET t == Mine("keypair") IN
  /\ At("d_key")
  /\ cloud' = Delete(t, mem.ids[t] \cap Seen(t))
  /\ ctl' = [ctl EXCEPT !.pc = "d_next", !.todo = @ \ {Guest}, !.target = NoTarget]
  /\ UNCHANGED <<files, mem, token, born, faults>>

\* _destroy_network.yml: what reconciliation recovers is used, but not saved.
NetworkCleanup ==
  /\ At("d_next") /\ ctl.todo = {}
  /\ IF Refuses(TRUE) THEN Fails
     ELSE /\ ctl' = [ctl EXCEPT !.pc = "d_net", !.kind = "route",
                                !.target = [k \in Kinds |-> IF k \in NetKinds THEN Found(Net(k)) ELSE {}]]
          /\ UNCHANGED <<files, mem, ec2, born, faults>>

\* What EC2 refuses to delete a part of the network for.
NetworkInUse(k) ==
  CASE k = "route" -> FALSE
    [] k = "gateway" -> \E h \in Hosts : LiveIds(<<h, "instance">>) # {}
    [] k = "subnet" -> \E h \in Hosts : LiveIds(<<h, "instance">>) # {} \/ LiveIds(<<h, "eni">>) # {}
    [] k = "vpc" -> \/ \E j \in NetKinds \ {"vpc"} : LiveIds(Net(j)) # {}
                    \/ \E h \in Hosts : LiveIds(<<h, "group">>) # {}

AfterDeleting(k) ==
  CASE k = "route" -> [ctl EXCEPT !.kind = "gateway"] [] k = "gateway" -> [ctl EXCEPT !.kind = "subnet"]
    [] k = "subnet" -> [ctl EXCEPT !.kind = "vpc"] [] k = "vpc" -> [ctl EXCEPT !.pc = "d_requests"]

DeleteNetwork ==
  LET k == ctl.kind IN
  /\ At("d_net")
  /\ \/ ctl.target[k] # {} /\ NetworkInUse(k) /\ Fails
     \/ /\ ctl.target[k] = {} \/ ~NetworkInUse(k)
        /\ cloud' = Delete(Net(k), ctl.target[k]) /\ ctl' = AfterDeleting(k)
        /\ UNCHANGED <<files, mem, token, born, faults>>

RemoveRequests ==
  /\ At("d_requests") /\ requests' = [h \in Hosts |-> "absent"] /\ Goto("d_journal")
  /\ UNCHANGED <<journal, mem, ec2, born, faults>>

RemoveJournal ==
  /\ At("d_journal") /\ journal' = NoRun /\ Stop
  /\ UNCHANGED <<requests, mem, ec2, born, faults>>

-------------------------------------------------------------------------------
(* The surroundings                                                        *)

\* A task fails, or the controller dies.
Interrupted ==
  /\ ~At("idle") /\ Stop /\ Fault
  /\ UNCHANGED <<files, mem, ec2, born>>

\* What was accepted shows up.
Appear(t, i) ==
  /\ cloud[t][i] = "hidden" /\ Put(t, i, "up")
  /\ UNCHANGED <<files, mem, ctl, token, born, faults>>

\* "Resolve the pending journal entry only after confirming the create outcome."
ResolvePending ==
  /\ At("idle") /\ journal # NoRun
  /\ journal.pending[Region] # NoKind /\ LiveIds(Net(journal.pending[Region])) = {}
  /\ journal' = [journal EXCEPT !.pending[Region] = NoKind]
  /\ UNCHANGED <<requests, mem, ctl, ec2, born, faults>>

Work ==
  \/ SaveInitial \/ NetworkInfo \/ (\E k \in NetKinds : NetworkMark(k)) \/ NetworkCreate
  \/ NetworkRecord \/ NetworkDone
  \/ NextHost \/ RecordKey \/ ImportKey \/ CreateGroup \/ SaveGuest \/ SaveRequest
  \/ PublishRequest \/ RunInstances \/ ReplayInstances \/ LaunchFails \/ AcceptLaunch
  \/ WaitRunning \/ EniInfo \/ EniCreate \/ EniRecord \/ EniAttach \/ SaveDescendants
  \/ DestroyGuest \/ Terminate \/ DeleteInterfaces \/ DeleteGroup \/ DeleteKey
  \/ NetworkCleanup \/ DeleteNetwork \/ RemoveRequests \/ RemoveJournal

Next ==
  \/ Create \/ Destroy \/ DestroyNothing \/ Work \/ Interrupted \/ ResolvePending
  \/ \E t \in Things, i \in Ids : Appear(t, i)

Spec == Init /\ [][Next]_vars

\* Plays go on, what was accepted shows up, and the user repeats destroy and
\* resolves what it calls uncertain.
Fairness ==
  /\ WF_vars(Work) /\ SF_vars(Destroy) /\ SF_vars(ResolvePending)
  /\ \A t \in Things, i \in Ids : WF_vars(Appear(t, i))

FairSpec == Spec /\ Fairness

-------------------------------------------------------------------------------
(* Properties                                                              *)

\* Every variable stays in its range.
TypeOK ==
  /\ journal \in Journal \cup {NoRun} /\ mem \in Journal
  /\ requests \in [Hosts -> {"absent", "partial", "saved"}]
  /\ ctl \in Control
  /\ cloud \in [Things -> [Ids -> States]]
  /\ token \in [Hosts -> SUBSET Ids]
  /\ born \in BOOLEAN /\ faults \in 0..MaxFaults

\* Whatever part of the network exists, the journal on disk has its id or the
\* intent to create it (_network_create.yml:5-26).
NetworkJournalled ==
  \A k \in NetKinds : \A i \in LiveIds(Net(k)) :
    /\ journal # NoRun
    /\ i \in journal.ids[Net(k)] \/ journal.pending[Region] = k

\* The ids of the network the journal accounts for: those it has, and whatever a
\* create it intends may make.
Journalled ==
  IF journal = NoRun THEN {}
  ELSE {p \in NetKinds \X Ids : p[2] \in journal.ids[Net(p[1])] \/ journal.pending[Region] = p[1]}

\* What exists of the network, whether it has shown up or not.
Parts == {p \in NetKinds \X Ids : p[2] \in LiveIds(Net(p[1]))}

\* The journal is a write-ahead record of the shared network: nothing is created that
\* the saved journal does not account for already, one thing at a time, and no
\* checkpoint loses what is there (_network_create.yml:5-26, _destroy_network.yml).
NetLedger == INSTANCE WriteAhead
  WITH Names <- NetKinds \X Ids, record <- Journalled, owned <- Parts
NetworkAccounted == NetLedger!Spec

\* "Remove private replay and runtime state only after successful cleanup": as long
\* as anything of the run exists, also what has not shown up yet, its journal does
\* (roles/aws/tasks/_destroy.yml:22-30).
JournalUntilGone == (\E t \in Things : LiveIds(t) # {}) => journal # NoRun

\* However creates are repeated, the run has one thing of each name, one instance
\* per host above all (aws_instance.py:168-182; aws_spec.py:792-846).
OneOfEach == \A t \in Things : Cardinality(LiveIds(t)) <= 1

\* An instance exists only with the exact request to replay it
\* (roles/aws/README.md:187-188; aws_instance.py:305-306).
LaunchReplayable ==
  \A h \in Hosts : LiveIds(<<h, "instance">>) # {} => requests[h] = "saved"

\* The journal never forgets or replaces an id (_host.yml:108-117).
IdsKept ==
  [][(journal # NoRun /\ journal' # NoRun) =>
       \A t \in Things : journal.ids[t] \subseteq journal'.ids[t]]_vars

\* "Cleanup failure retains the journal for retry": destroy, repeated, gets to the
\* end, whatever was interrupted.
RunEnds == (journal # NoRun) ~> (journal = NoRun)
===============================================================================

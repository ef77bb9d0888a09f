---------------------------- MODULE AwsRunProofs ----------------------------
(***************************************************************************)
(* Proofs about a run of the AWS role.  Whatever exists of the shared      *)
(* network is in the journal on disk, by id or as an intent, and exists    *)
(* once; the journal is a write-ahead record of it, step by step: for any  *)
(* number of guests, interruptions, lost answers, quotas, and with every   *)
(* kind of resource showing up late.                                       *)
(*                                                                         *)
(* The journal is written from what the play remembers, so the copy has to *)
(* account for the network too (MemAccounted).  A lost answer leaves the   *)
(* intent and at most one thing (OneNet, Creating): as soon as it can be   *)
(* seen, what reconciliation finds is all there is (FoundAll), and until   *)
(* then reconciliation refuses.                                            *)
(***************************************************************************)
EXTENDS AwsRun, TLAPS

-------------------------------------------------------------------------------
(* The invariant                                                           *)

\* PCs of the play between the network's creation and its teardown.
Middle == {"h_next", "h_key", "h_import", "h_group", "h_save", "h_request", "h_publish",
           "h_run", "h_accept", "h_wait", "e_info", "e_create", "e_record", "e_attach",
           "h_descend", "d_next", "d_term", "d_eni", "d_group", "d_key"}

\* The guest a step works on is one of the hosts.
GuestChosen == ctl.pc \in Middle \ {"h_next", "d_next"} => ctl.host \in Hosts

\* A record accounts for every part of the network that exists.
Accounted(record) ==
  \A k \in NetKinds : \A i \in LiveIds(Net(k)) :
    i \in record.ids[Net(k)] \/ record.pending[Region] = k

\* A play works on a saved run, but for its first step.
RunSaved ==
  /\ ctl.pc \notin {"idle", "init"} => journal # NoRun
  /\ ctl.pc = "init" => journal = NoRun \/ mem = journal

\* The journal and the copy of a play both account for the network.
MemAccounted == ctl.pc # "idle" => Accounted(mem)

\* No part of the network exists twice.
OneNet == \A k \in NetKinds : \A i, j \in LiveIds(Net(k)) : i = j

\* What has an id has shown up.
IdsSeen ==
  \A k \in NetKinds : \A i \in Ids :
    cloud[Net(k)][i] \in {"none", "hidden"} =>
      /\ i \notin mem.ids[Net(k)]
      /\ journal # NoRun => i \notin journal.ids[Net(k)]

\* A create call is made for what does not exist, under a saved intent.
Creating ==
  /\ ctl.pc \in {"n_next", "n_record"} => mem.pending[Region] = NoKind
  /\ ctl.pc = "n_create" =>
       /\ ctl.kind \in NetKinds /\ LiveIds(Net(ctl.kind)) = {}
       /\ journal = mem /\ mem.pending[Region] = ctl.kind

\* Teardown, in its order, works on all there is.
Behind(k) ==
  CASE k = "route" -> {} [] k = "gateway" -> {"route"} [] k = "subnet" -> {"route", "gateway"}
    [] k = "vpc" -> {"route", "gateway", "subnet"}
Deleting ==
  /\ ctl.pc = "d_net" =>
       /\ ctl.kind \in NetKinds
       /\ \A k \in NetKinds : LiveIds(Net(k)) \subseteq ctl.target[k]
       /\ \A k \in Behind(ctl.kind) : LiveIds(Net(k)) = {}
  /\ ctl.pc \in {"d_requests", "d_journal"} => \A k \in NetKinds : LiveIds(Net(k)) = {}

NetInv ==
  /\ GuestChosen /\ RunSaved /\ MemAccounted /\ NetworkJournalled
  /\ OneNet /\ IdsSeen /\ Creating /\ Deleting
IInv == TypeOK /\ NetInv

-------------------------------------------------------------------------------
(* Types                                                                   *)

\* IInv holds initially.
LEMMA InitIInv == Init => IInv
<1>. SUFFICES ASSUME Init PROVE IInv  OBVIOUS
<1>. USE RunAssumption DEF Init
<1>1. TypeOK
  <2>1. NewRun \in Journal  BY DEF NewRun, Journal, Scopes
  <2>2. Idle \in Control  BY DEF Idle, NoTarget, Control, Scopes, Kinds, NetKinds
  <2>3. cloud \in [Things -> [Ids -> States]]  BY DEF States
  <2>4. requests \in [Hosts -> {"absent", "partial", "saved"}] /\ token \in [Hosts -> SUBSET Ids]
    OBVIOUS
  <2>5. journal \in Journal \cup {NoRun} /\ mem \in Journal /\ ctl \in Control  BY <2>1, <2>2
  <2>6. faults \in 0..MaxFaults  OBVIOUS
  <2>7. born \in BOOLEAN  BY Zenon
  <2>. QED  BY <2>3, <2>4, <2>5, <2>6, <2>7, Zenon DEF TypeOK
<1>2. \A k \in NetKinds : Net(k) \in Things /\ LiveIds(Net(k)) = {}
  BY DEF Net, Things, LiveIds, Live
<1>3. GuestChosen /\ RunSaved /\ MemAccounted /\ Creating /\ Deleting
  BY DEF GuestChosen, RunSaved, MemAccounted, Creating, Deleting, Idle, Middle
<1>4. NetworkJournalled /\ OneNet
  BY <1>2 DEF NetworkJournalled, OneNet
<1>5. IdsSeen
  BY <1>2 DEF IdsSeen, NewRun
<1>. QED  BY <1>1, <1>3, <1>4, <1>5 DEF IInv, NetInv

\* The actions that write no record of the run leave records well-formed.
LEMMA ControlTypes ==
  ASSUME TypeOK, NEW q \in CreatePCs \cup DestroyPCs
  PROVE  /\ Goto(q) => ctl' \in Control
         /\ Stop => ctl' \in Control
         /\ Fault => faults' \in 0..MaxFaults
         /\ \A s \in Scopes, k \in Kinds : Pending(s, k) \in Journal
         /\ \A t \in Things, ids \in SUBSET Ids : Recorded(t, ids) \in Journal
<1>. USE RunAssumption DEF TypeOK
<1>1. Goto(q) => ctl' \in Control  BY DEF Goto, Control
<1>2. Stop => ctl' \in Control
  BY DEF Stop, Idle, NoTarget, Control, Scopes, Kinds, NetKinds
<1>3. Fault => faults' \in 0..MaxFaults  BY DEF Fault
<1>4. \A s \in Scopes, k \in Kinds : Pending(s, k) \in Journal  BY DEF Pending, Journal
<1>5. \A t \in Things, ids \in SUBSET Ids : Recorded(t, ids) \in Journal
  BY DEF Recorded, Journal
<1>. QED  BY <1>1, <1>2, <1>3, <1>4, <1>5

\* Changes to what exists leave the states well-formed.
LEMMA CloudTypes ==
  ASSUME TypeOK, NEW t \in Things
  PROVE  /\ \A i \in Ids, s \in States : Put(t, i, s) => cloud' \in [Things -> [Ids -> States]]
         /\ \A ids : Delete(t, ids) \in [Things -> [Ids -> States]]
         /\ Found(t) \subseteq Ids /\ Seen(t) \subseteq Ids
         /\ Unused(t) \subseteq Ids /\ mem.ids[t] \subseteq Ids
<1>1. \A i \in Ids, s \in States : Put(t, i, s) => cloud' \in [Things -> [Ids -> States]]
  BY DEF Put, TypeOK
<1>2. \A ids : Delete(t, ids) \in [Things -> [Ids -> States]]
  <2>. SUFFICES ASSUME NEW ids PROVE Delete(t, ids) \in [Things -> [Ids -> States]]  OBVIOUS
  <2>1. [i \in Ids |-> IF i \in ids THEN "gone" ELSE cloud[t][i]] \in [Ids -> States]
    BY DEF TypeOK, States
  <2>. QED  BY <2>1 DEF Delete, TypeOK
<1>3. Found(t) \subseteq Ids /\ Seen(t) \subseteq Ids /\ Unused(t) \subseteq Ids
  BY DEF Found, Seen, Unused
<1>4. mem.ids[t] \subseteq Ids  BY DEF TypeOK, Journal
<1>. QED  BY <1>1, <1>2, <1>3, <1>4

\* A create call, whatever comes of it.
LEMMA CallTypes ==
  ASSUME TypeOK, NEW t \in Things, NEW q \in CreatePCs,
         (\E i \in Ids : Created(t, i, q) \/ Lost(t, i)) \/ RefusedCall(t)
  PROVE  /\ cloud' \in [Things -> [Ids -> States]] /\ ctl' \in Control
         /\ journal' \in Journal \cup {NoRun} /\ mem' \in Journal /\ faults' \in 0..MaxFaults
<1>. DEFINE TypedCall ==
       /\ cloud' \in [Things -> [Ids -> States]] /\ ctl' \in Control
       /\ journal' \in Journal \cup {NoRun} /\ mem' \in Journal /\ faults' \in 0..MaxFaults
<1>1. {"up", "hidden"} \subseteq States  BY DEF States
<1>2. ASSUME NEW i \in Ids, Created(t, i, q) PROVE TypedCall
  BY <1>1, <1>2, ControlTypes, CloudTypes DEF Created, Remember, TypeOK
<1>3. ASSUME NEW i \in Ids, Lost(t, i) PROVE TypedCall
  <2>1. \E s \in States : Put(t, i, s)  BY <1>1, <1>3 DEF Lost
  <2>. QED  BY <1>3, <2>1, ControlTypes, CloudTypes DEF Lost, TypeOK
<1>4. CASE RefusedCall(t)
  BY <1>4, ControlTypes DEF RefusedCall, TypeOK
<1>. QED  BY <1>2, <1>3, <1>4

\* Control moves, and moves that save a record, keep the types.
LEMMA MoveTypes ==
  ASSUME TypeOK, UNCHANGED <<cloud, token, born>>,
         ctl' \in Control, mem' \in Journal, journal' \in {journal, mem'},
         requests' \in [Hosts -> {"absent", "partial", "saved"}], faults' \in 0..MaxFaults
  PROVE  TypeOK'
BY DEF TypeOK

\* The play's steps on the network keep the types.
LEMMA NetworkTypes ==
  ASSUME IInv,
         \/ Create \/ SaveInitial \/ NetworkInfo \/ (\E k \in NetKinds : NetworkMark(k))
         \/ NetworkCreate \/ NetworkRecord \/ NetworkDone
  PROVE  TypeOK'
<1>. USE RunAssumption DEF IInv, files, ec2
<1>2. "n_info" \in CreatePCs /\ "n_next" \in CreatePCs /\ "n_create" \in CreatePCs
      /\ "n_record" \in CreatePCs /\ "h_next" \in CreatePCs /\ "init" \in CreatePCs
  BY DEF CreatePCs
<1>3. \A k \in NetKinds : Net(k) \in Things /\ k \in Kinds
  BY DEF Net, Things, Kinds
<1>4. Region \in Scopes  BY DEF Scopes
<1>5. Idle \in Control /\ [Idle EXCEPT !.pc = "init", !.todo = Hosts] \in Control
  BY <1>2 DEF Idle, NoTarget, Control, Scopes, Kinds, NetKinds
<1>6. CASE Create
  <2>1. NewRun \in Journal  BY DEF NewRun, Journal, Scopes
  <2>2. mem' \in Journal /\ journal' = journal /\ ctl' \in Control
    BY <1>5, <1>6, <2>1 DEF Create, TypeOK
  <2>3. born' \in BOOLEAN  BY <1>6, Zenon DEF Create, TypeOK
  <2>. QED  BY <1>6, <2>2, <2>3 DEF Create, TypeOK
<1>7. CASE SaveInitial
  BY <1>2, <1>7, ControlTypes, MoveTypes DEF SaveInitial, Save, TypeOK
<1>8. CASE NetworkInfo
  <2>1. Reconciled \in Journal
    <3>1. \A t \in Things : mem.ids[t] \cup Found(t) \in SUBSET Ids  BY CloudTypes
    <3>2. [t \in Things |-> IF t[1] = Region THEN mem.ids[t] \cup Found(t) ELSE mem.ids[t]]
            \in [Things -> SUBSET Ids]
      BY <3>1, CloudTypes
    <3>. QED  BY <3>2, <1>4 DEF Reconciled, TypeOK, Journal
  <2>. QED  BY <1>2, <1>8, <2>1, ControlTypes, MoveTypes DEF NetworkInfo, Fails, Remember, TypeOK
<1>9. CASE \E k \in NetKinds : NetworkMark(k)
  <2>1. PICK k \in NetKinds : NetworkMark(k)  BY <1>9
  <2>2. ctl' \in Control  BY <1>2, <1>3, <2>1 DEF NetworkMark, TypeOK, Control
  <2>3. Pending(Region, k) \in Journal  BY <1>2, <1>3, <1>4, ControlTypes
  <2>. QED  BY <2>1, <2>2, <2>3, MoveTypes DEF NetworkMark, Save, TypeOK
<1>10. CASE NetworkCreate
  <2>1. Net(ctl.kind) \in Things
    BY <1>3, <1>10 DEF NetworkCreate, At, NetInv, Creating
  <2>2. requests' = requests /\ token' = token /\ born' = born  BY <1>10 DEF NetworkCreate
  <2>3. (\E i \in Ids : Created(Net(ctl.kind), i, "n_record") \/ Lost(Net(ctl.kind), i))
          \/ RefusedCall(Net(ctl.kind))
    BY <1>10 DEF NetworkCreate
  <2>. QED  BY <1>2, <2>1, <2>2, <2>3, CallTypes DEF TypeOK
<1>11. CASE NetworkRecord
  BY <1>2, <1>11, ControlTypes, MoveTypes DEF NetworkRecord, Save, TypeOK
<1>12. CASE NetworkDone
  BY <1>2, <1>12, ControlTypes, MoveTypes DEF NetworkDone, Save, TypeOK
<1>. QED  BY <1>6, <1>7, <1>8, <1>9, <1>10, <1>11, <1>12

\* The names of a guest's things.
LEMMA GuestThings ==
  ASSUME IInv, ctl.pc \in Middle \ {"h_next", "d_next"}
  PROVE  /\ ctl.host \in Hosts /\ ctl.host \in Scopes
         /\ \A k \in GuestKinds : Mine(k) \in Things /\ k \in Kinds
         /\ mem \in Journal
<1>1. ctl.host \in Hosts  BY DEF IInv, NetInv, GuestChosen
<1>. QED  BY <1>1 DEF IInv, TypeOK, Mine, Guest, Things, Scopes, Kinds

\* The play's steps on a guest's key pair, group and launch keep the types.
LEMMA LaunchTypes ==
  ASSUME IInv,
         \/ NextHost \/ RecordKey \/ ImportKey \/ CreateGroup \/ SaveGuest \/ SaveRequest
         \/ PublishRequest \/ RunInstances \/ ReplayInstances \/ LaunchFails \/ AcceptLaunch
  PROVE  TypeOK'
<1>. USE RunAssumption DEF IInv, files, ec2, At
<1>1. {"h_next", "h_key", "h_import", "h_group", "h_save", "h_request", "h_publish", "h_run",
       "h_accept", "h_wait"} \subseteq CreatePCs
  BY DEF CreatePCs
<1>2. {"keypair", "group", "instance", "eni"} \subseteq GuestKinds  BY DEF GuestKinds
<1>3. \A t \in Things, ids \in SUBSET Ids : [mem EXCEPT !.ids[t] = ids] \in Journal
  BY DEF TypeOK, Journal
<1>4. 1 \in Ids  BY DEF Ids
<1>5. CASE NextHost
  <2>1. Stop => ctl' \in Control  BY <1>1, ControlTypes
  <2>2. ASSUME NEW h \in ctl.todo, ctl' = [ctl EXCEPT !.pc = "h_key", !.host = h]
        PROVE  ctl' \in Control
    BY <1>1, <2>2 DEF TypeOK, Control, Scopes
  <2>3. ctl' \in Control  BY <1>5, <2>1, <2>2 DEF NextHost
  <2>. QED  BY <1>5, <2>3, MoveTypes DEF NextHost, TypeOK
<1>6. CASE RecordKey
  <2>1. Mine("keypair") \in Things  BY <1>2, <1>6, GuestThings DEF RecordKey, Middle
  <2>. QED  BY <1>1, <1>3, <1>4, <1>6, <2>1, ControlTypes, MoveTypes DEF RecordKey, Save, TypeOK
<1>7. CASE ImportKey
  <2>1. Mine("keypair") \in Things /\ "up" \in States
    BY <1>2, <1>7, GuestThings DEF ImportKey, Middle, States
  <2>2. cloud' \in [Things -> [Ids -> States]]
    BY <1>4, <1>7, <2>1, CloudTypes DEF ImportKey
  <2>. QED  BY <1>1, <1>7, <2>2, ControlTypes DEF ImportKey, TypeOK
<1>8. CASE CreateGroup
  <2>. DEFINE t == Mine("group")
  <2>1. t \in Things  BY <1>2, <1>8, GuestThings DEF CreateGroup, Middle
  <2>2. requests' = requests /\ token' = token /\ born' = born  BY <1>8 DEF CreateGroup
  <2>3. CASE /\ Remember([mem EXCEPT !.ids[t] = IF @ = {} THEN Seen(t) ELSE @]) /\ Goto("h_save")
             /\ UNCHANGED <<cloud, faults>>
    <3>1. [mem EXCEPT !.ids[t] = IF @ = {} THEN Seen(t) ELSE @] \in Journal
      BY <2>1, <1>3, CloudTypes
    <3>. QED  BY <1>1, <2>2, <2>3, <3>1, ControlTypes, MoveTypes DEF Remember, TypeOK
  <2>4. CASE (\E i \in Ids : Created(t, i, "h_save") \/ Lost(t, i)) \/ RefusedCall(t)
    BY <1>1, <2>1, <2>2, <2>4, CallTypes DEF TypeOK
  <2>5. CASE Stop /\ UNCHANGED <<journal, mem, cloud, faults>>
    BY <1>1, <2>2, <2>5, ControlTypes, MoveTypes DEF TypeOK
  <2>. QED  BY <1>8, <2>3, <2>4, <2>5 DEF CreateGroup
<1>9. CASE SaveGuest
  BY <1>1, <1>9, ControlTypes, MoveTypes DEF SaveGuest, Save, TypeOK
<1>10. CASE SaveRequest
  <2>1. ctl' \in Control  BY <1>1, <1>10, ControlTypes DEF SaveRequest, Check, Fails
  <2>2. requests' \in [Hosts -> {"absent", "partial", "saved"}]
    BY <1>10 DEF SaveRequest, Check, Fails, TypeOK
  <2>. QED  BY <1>10, <2>1, <2>2, MoveTypes DEF SaveRequest, Check, Fails, TypeOK
<1>11. CASE PublishRequest
  BY <1>1, <1>11, ControlTypes, MoveTypes DEF PublishRequest, TypeOK
<1>12. CASE RunInstances
  <2>. DEFINE t == Mine("instance")
  <2>1. t \in Things  BY <1>2, <1>12, GuestThings DEF RunInstances, Middle
  <2>2. requests' = requests /\ born' = born  BY <1>12 DEF RunInstances
  <2>3. token' \in [Hosts -> SUBSET Ids]  BY <1>12 DEF RunInstances, TypeOK
  <2>4. (\E i \in Ids : Created(t, i, "h_accept") \/ Lost(t, i)) \/ RefusedCall(t)
    BY <1>12 DEF RunInstances
  <2>. QED  BY <1>1, <2>1, <2>2, <2>3, <2>4, CallTypes DEF TypeOK
<1>13. CASE ReplayInstances
  <2>1. Mine("instance") \in Things /\ ctl.host \in Hosts
    BY <1>2, <1>13, GuestThings DEF ReplayInstances, Middle
  <2>2. Started \in SUBSET Ids  BY <2>1 DEF Started, Guest, TypeOK
  <2>. QED
    BY <1>1, <1>3, <1>13, <2>1, <2>2, ControlTypes, MoveTypes DEF ReplayInstances, Remember, TypeOK
<1>14. CASE LaunchFails
  BY <1>1, <1>14, ControlTypes, MoveTypes DEF LaunchFails, Fails, TypeOK
<1>15. CASE AcceptLaunch
  BY <1>1, <1>15, ControlTypes, MoveTypes DEF AcceptLaunch, Save, TypeOK
<1>. QED
  BY <1>5, <1>6, <1>7, <1>8, <1>9, <1>10, <1>11, <1>12, <1>13, <1>14, <1>15

\* The play's steps on a guest's instance and interface keep the types.
LEMMA InterfaceTypes ==
  ASSUME IInv, WaitRunning \/ EniInfo \/ EniCreate \/ EniRecord \/ EniAttach \/ SaveDescendants
  PROVE  TypeOK'
<1>. USE RunAssumption DEF IInv, files, ec2, At
<1>1. {"e_info", "e_create", "e_record", "e_attach", "h_descend", "h_next"} \subseteq CreatePCs
  BY DEF CreatePCs
<1>2. "eni" \in GuestKinds  BY DEF GuestKinds
<1>3. CASE WaitRunning
  BY <1>1, <1>3, ControlTypes, MoveTypes DEF WaitRunning, Check, Fails, TypeOK
<1>4. ASSUME EniInfo \/ EniCreate \/ EniRecord \/ EniAttach \/ SaveDescendants
      PROVE  Mine("eni") \in Things /\ ctl.host \in Scopes /\ "eni" \in Kinds
  BY <1>2, <1>4, GuestThings DEF EniInfo, EniCreate, EniRecord, EniAttach, SaveDescendants, Middle
<1>5. CASE EniInfo
  <2>1. Pending(Guest, "eni") \in Journal  BY <1>1, <1>4, <1>5, ControlTypes DEF Guest
  <2>2. Seen(Mine("eni")) \in SUBSET Ids  BY <1>4, <1>5, CloudTypes
  <2>3. [ctl EXCEPT !.pc = "e_create", !.target["eni"] = Seen(Mine("eni"))] \in Control
    BY <1>1, <2>2 DEF TypeOK, Control
  <2>4. ctl' \in Control /\ mem' \in Journal /\ journal' \in {journal, mem'}
    BY <1>1, <1>5, <2>1, <2>3, ControlTypes DEF EniInfo, Fails, Save, TypeOK
  <2>. QED  BY <1>5, <2>4, MoveTypes DEF EniInfo, Fails, TypeOK
<1>6. CASE EniCreate
  <2>. DEFINE t == Mine("eni")
  <2>1. requests' = requests /\ token' = token /\ born' = born  BY <1>6 DEF EniCreate
  <2>2. CASE /\ Remember(Recorded(t, ctl.target["eni"])) /\ Goto("e_record")
             /\ UNCHANGED <<cloud, faults>>
    <3>1. ctl.target["eni"] \in SUBSET Ids  BY <1>4, <1>6 DEF TypeOK, Control
    <3>2. Recorded(t, ctl.target["eni"]) \in Journal  BY <1>1, <1>4, <1>6, <3>1, ControlTypes
    <3>. QED  BY <1>1, <2>1, <2>2, <3>2, ControlTypes, MoveTypes DEF Remember, TypeOK
  <2>3. CASE (\E i \in Ids : Created(t, i, "e_record") \/ Lost(t, i)) \/ RefusedCall(t)
    BY <1>1, <1>4, <1>6, <2>1, <2>3, CallTypes DEF TypeOK
  <2>. QED  BY <1>6, <2>2, <2>3 DEF EniCreate
<1>7. CASE EniRecord
  BY <1>1, <1>7, ControlTypes, MoveTypes DEF EniRecord, Save, TypeOK
<1>8. CASE EniAttach
  <2>1. cloud' \in [Things -> [Ids -> States]]
    <3>1. "attached" \in States  BY DEF States
    <3>2. PICK i \in Ids : Put(Mine("eni"), i, "attached")  BY <1>8 DEF EniAttach
    <3>. QED  BY <1>4, <1>8, <3>1, <3>2, CloudTypes
  <2>. QED  BY <1>1, <1>8, <2>1, ControlTypes DEF EniAttach, TypeOK
<1>9. CASE SaveDescendants
  <2>1. [mem EXCEPT !.ids[Mine("eni")] = {i \in Ids : cloud[Mine("eni")][i] = "attached"}] \in Journal
    BY <1>4, <1>9 DEF TypeOK, Journal
  <2>2. [ctl EXCEPT !.pc = "h_next", !.todo = @ \ {Guest}] \in Control
    BY <1>1 DEF TypeOK, Control
  <2>. QED  BY <1>9, <2>1, <2>2, MoveTypes DEF SaveDescendants, Save, TypeOK
<1>. QED  BY <1>3, <1>5, <1>6, <1>7, <1>8, <1>9

\* Destroy's steps keep the types.
LEMMA DestroyTypes ==
  ASSUME IInv,
         \/ Destroy \/ DestroyGuest \/ Terminate \/ DeleteInterfaces \/ DeleteGroup \/ DeleteKey
         \/ NetworkCleanup \/ DeleteNetwork \/ RemoveRequests \/ RemoveJournal
  PROVE  TypeOK'
<1>. USE RunAssumption DEF IInv, files, ec2, At
<1>1. {"d_next", "d_term", "d_eni", "d_group", "d_key", "d_net", "d_requests", "d_journal"}
        \subseteq DestroyPCs
  BY DEF DestroyPCs
<1>2. GuestKinds \subseteq Kinds /\ {"keypair", "group", "instance", "eni"} \subseteq GuestKinds
      /\ NetKinds \subseteq Kinds /\ {"vpc", "subnet", "gateway", "route"} \subseteq NetKinds
  BY DEF GuestKinds, NetKinds, Kinds
<1>3. \A h \in Hosts, k \in GuestKinds : <<h, k>> \in Things  BY DEF Things
<1>4. Idle \in Control
  BY DEF Idle, NoTarget, Control, Scopes, Kinds, NetKinds
<1>5. CASE Destroy
  <2>1. [Idle EXCEPT !.pc = "d_next", !.todo = Hosts] \in Control  BY <1>1, <1>4 DEF Control
  <2>. QED  BY <1>5, <2>1, MoveTypes DEF Destroy, TypeOK
<1>6. CASE DestroyGuest
  <2>1. PICK h \in ctl.todo : LET instances == Found(<<h, "instance">>) IN
          IF Cardinality(instances) > 1 THEN Fails
          ELSE /\ Save([mem EXCEPT !.ids[<<h, "eni">>] = @ \cup Seen(<<h, "eni">>)])
               /\ ctl' = [ctl EXCEPT !.pc = "d_term", !.host = h, !.target["instance"] = instances]
               /\ UNCHANGED <<requests, ec2, born, faults>>
    BY <1>6 DEF DestroyGuest
  <2>2. h \in Hosts /\ <<h, "instance">> \in Things /\ <<h, "eni">> \in Things
    BY <1>2, <1>3 DEF TypeOK, Control
  <2>3. Found(<<h, "instance">>) \in SUBSET Ids  BY <2>2, CloudTypes
  <2>4. mem.ids[<<h, "eni">>] \cup Seen(<<h, "eni">>) \in SUBSET Ids  BY <2>2, CloudTypes
  <2>5. [mem EXCEPT !.ids[<<h, "eni">>] = @ \cup Seen(<<h, "eni">>)] \in Journal
    BY <2>2, <2>4 DEF TypeOK, Journal
  <2>6. [ctl EXCEPT !.pc = "d_term", !.host = h, !.target["instance"] = Found(<<h, "instance">>)]
          \in Control
    BY <1>1, <2>2, <2>3 DEF TypeOK, Control, Scopes
  <2>7. CASE Fails  BY <1>1, <2>7, ControlTypes, MoveTypes DEF Fails, TypeOK
  <2>8. CASE ~Fails  BY <2>1, <2>5, <2>6, <2>8, MoveTypes DEF Save, TypeOK
  <2>. QED  BY <2>7, <2>8
<1>7. CASE Terminate
  <2>1. "gone" \in States  BY DEF States
  <2>2. Mine("instance") \in Things /\ Mine("eni") \in Things
    BY <1>2, <1>7, GuestThings DEF Terminate, Middle
  <2>3. cloud' \in [Things -> [Ids -> States]]
    <3>1. [i \in Ids |-> IF i \in ctl.target["instance"] THEN "gone"
                         ELSE cloud[Mine("instance")][i]] \in [Ids -> States]
      BY <2>1, <2>2 DEF TypeOK
    <3>2. Mine("instance") # Mine("eni")  BY DEF Mine
    <3>3. [i \in Ids |-> IF ctl.target["instance"] # {} /\ cloud[Mine("eni")][i] = "attached" THEN "gone"
                         ELSE cloud[Mine("eni")][i]] \in [Ids -> States]
      BY <2>1, <2>2 DEF TypeOK
    <3>. QED  BY <1>7, <2>2, <3>1, <3>2, <3>3 DEF Terminate, TypeOK
  <2>. QED  BY <1>1, <1>7, <2>3, ControlTypes DEF Terminate, TypeOK
<1>8. CASE DeleteInterfaces
  <2>1. Mine("eni") \in Things  BY <1>2, <1>8, GuestThings DEF DeleteInterfaces, Middle
  <2>. QED  BY <1>1, <1>8, <2>1, ControlTypes, CloudTypes DEF DeleteInterfaces, Fails, TypeOK
<1>9. CASE DeleteGroup
  <2>1. Mine("group") \in Things  BY <1>2, <1>9, GuestThings DEF DeleteGroup, Middle
  <2>. QED  BY <1>1, <1>9, <2>1, ControlTypes, CloudTypes DEF DeleteGroup, Fails, TypeOK
<1>10. CASE DeleteKey
  <2>1. Mine("keypair") \in Things  BY <1>2, <1>10, GuestThings DEF DeleteKey, Middle
  <2>2. cloud' \in [Things -> [Ids -> States]]  BY <1>10, <2>1, CloudTypes DEF DeleteKey
  <2>3. ctl' \in Control  BY <1>1, <1>10 DEF DeleteKey, TypeOK, Control, NoTarget
  <2>. QED  BY <1>10, <2>2, <2>3 DEF DeleteKey, TypeOK
<1>11. CASE NetworkCleanup
  <2>1. \A k \in NetKinds : Found(Net(k)) \in SUBSET Ids
    BY CloudTypes DEF Net, Things
  <2>2. [k \in Kinds |-> IF k \in NetKinds THEN Found(Net(k)) ELSE {}] \in [Kinds -> SUBSET Ids]
    BY <2>1
  <2>3. [ctl EXCEPT !.pc = "d_net", !.kind = "route",
                    !.target = [k \in Kinds |-> IF k \in NetKinds THEN Found(Net(k)) ELSE {}]] \in Control
    BY <1>1, <1>2, <2>2 DEF TypeOK, Control
  <2>4. ctl' \in Control
    BY <1>1, <1>11, <2>3, ControlTypes DEF NetworkCleanup, Fails
  <2>. QED  BY <1>11, <2>4, MoveTypes DEF NetworkCleanup, Fails, TypeOK
<1>12. CASE DeleteNetwork
  <2>1. ctl.kind \in NetKinds /\ Net(ctl.kind) \in Things
    BY <1>12 DEF DeleteNetwork, NetInv, Deleting, Net, Things
  <2>2. AfterDeleting(ctl.kind) \in Control
    BY <1>1, <1>2, <2>1 DEF AfterDeleting, TypeOK, Control, NetKinds
  <2>. QED  BY <1>1, <1>12, <2>1, <2>2, ControlTypes, CloudTypes DEF DeleteNetwork, Fails, TypeOK
<1>13. CASE RemoveRequests
  <2>1. requests' \in [Hosts -> {"absent", "partial", "saved"}]  BY <1>13 DEF RemoveRequests
  <2>. QED  BY <1>1, <1>13, <2>1, ControlTypes, MoveTypes DEF RemoveRequests, TypeOK
<1>14. CASE RemoveJournal
  BY <1>1, <1>14, ControlTypes DEF RemoveJournal, TypeOK
<1>. QED  BY <1>5, <1>6, <1>7, <1>8, <1>9, <1>10, <1>11, <1>12, <1>13, <1>14

\* Every step keeps the types.
LEMMA NextTypes == IInv /\ [Next]_vars => TypeOK'
<1>. SUFFICES ASSUME IInv, [Next]_vars PROVE TypeOK'  OBVIOUS
<1>. USE RunAssumption DEF IInv, files, ec2
<1>1. "d_next" \in DestroyPCs  BY DEF DestroyPCs
<1>2. CASE Interrupted
  BY <1>1, <1>2, ControlTypes, MoveTypes DEF Interrupted, TypeOK
<1>3. ASSUME NEW t \in Things, NEW i \in Ids, Appear(t, i) PROVE TypeOK'
  <2>1. "up" \in States  BY DEF States
  <2>. QED  BY <1>3, <2>1, CloudTypes DEF Appear, TypeOK
<1>4. CASE ResolvePending
  <2>1. journal' \in Journal  BY <1>4 DEF ResolvePending, TypeOK, Journal
  <2>. QED  BY <1>4, <2>1 DEF ResolvePending, TypeOK
<1>5. CASE DestroyNothing \/ UNCHANGED vars
  BY <1>5 DEF DestroyNothing, vars, TypeOK
<1>6. CASE Create  BY <1>6, NetworkTypes
<1>7. CASE Destroy  BY <1>7, DestroyTypes
<1>8. CASE Work
  BY <1>8, NetworkTypes, LaunchTypes, InterfaceTypes, DestroyTypes DEF Work
<1>. QED  BY <1>2, <1>3, <1>4, <1>5, <1>6, <1>7, <1>8 DEF Next

-------------------------------------------------------------------------------
(* The network is accounted for                                            *)

\* What a step on a guest leaves alone.
NetSame == \A k \in NetKinds : cloud'[Net(k)] = cloud[Net(k)]
NetEqual ==
  /\ \A k \in NetKinds : mem'.ids[Net(k)] = mem.ids[Net(k)]
  /\ mem'.pending[Region] = mem.pending[Region]

\* Changes to a guest's things leave the network alone.
LEMMA GuestNetSame ==
  ASSUME TypeOK, NEW h \in Hosts, NEW j \in GuestKinds
  PROVE  /\ \A i, s : Put(<<h, j>>, i, s) => NetSame
         /\ \A ids : cloud' = Delete(<<h, j>>, ids) => NetSame
         /\ \A ids : LET m == [mem EXCEPT !.ids[<<h, j>>] = ids] IN
              /\ \A k \in NetKinds : m.ids[Net(k)] = mem.ids[Net(k)]
              /\ m.pending[Region] = mem.pending[Region]
         /\ \A ids : LET m == Recorded(<<h, j>>, ids) IN
              /\ \A k \in NetKinds : m.ids[Net(k)] = mem.ids[Net(k)]
              /\ m.pending[Region] = mem.pending[Region]
         /\ \A k : Pending(h, k).pending[Region] = mem.pending[Region]
<1>1. \A k \in NetKinds : Net(k) \in Things /\ Net(k) # <<h, j>>
  BY DEF Net, Things, NetKinds, GuestKinds
<1>2. h # Region /\ Region \in Scopes  BY RunAssumption DEF Scopes
<1>3. \A i, s : Put(<<h, j>>, i, s) => NetSame
  BY <1>1 DEF Put, NetSame, TypeOK
<1>4. \A ids : cloud' = Delete(<<h, j>>, ids) => NetSame
  BY <1>1 DEF Delete, NetSame, TypeOK
<1>5. \A ids : LET m == [mem EXCEPT !.ids[<<h, j>>] = ids] IN
        /\ \A k \in NetKinds : m.ids[Net(k)] = mem.ids[Net(k)]
        /\ m.pending[Region] = mem.pending[Region]
  BY <1>1 DEF TypeOK, Journal
<1>6. \A ids : LET m == Recorded(<<h, j>>, ids) IN
        /\ \A k \in NetKinds : m.ids[Net(k)] = mem.ids[Net(k)]
        /\ m.pending[Region] = mem.pending[Region]
  BY <1>1, <1>2 DEF Recorded, TypeOK, Journal
<1>7. \A k : Pending(h, k).pending[Region] = mem.pending[Region]
  BY <1>2 DEF Pending, TypeOK, Journal
<1>. QED  BY <1>3, <1>4, <1>5, <1>6, <1>7

\* A guest's ids, when they are set or recorded, are not the network's.
SetIds(h, j, ids) == [mem EXCEPT !.ids[<<h, j>>] = ids]
LEMMA GuestIds ==
  ASSUME TypeOK, NEW h \in Hosts, NEW j \in GuestKinds, NEW ids,
         mem' = SetIds(h, j, ids) \/ mem' = Recorded(<<h, j>>, ids)
  PROVE  NetEqual
<1>1. CASE mem' = SetIds(h, j, ids)  BY <1>1, GuestNetSame DEF NetEqual, Net, SetIds
<1>2. CASE mem' = Recorded(<<h, j>>, ids)  BY <1>2, GuestNetSame DEF NetEqual, Net
<1>. QED  BY <1>1, <1>2

\* What exists depends on the states alone.
LEMMA LiveSame == NetSame => \A k \in NetKinds : LiveIds(Net(k))' = LiveIds(Net(k))
BY DEF NetSame, LiveIds, Net

\* Steps on guests, whatever they save, keep the invariant.
LEMMA MiddleKeeps ==
  ASSUME IInv, NetSame, NetEqual, ctl.pc \in Middle, ctl'.pc \in Middle,
         ctl'.pc \in Middle \ {"h_next", "d_next"} => ctl'.host \in Hosts,
         mem' \in Journal, journal' \in {journal, mem'}
  PROVE  NetInv'
<1>. USE RunAssumption, LiveSame DEF IInv, NetInv
<1>1. journal # NoRun /\ journal' # NoRun /\ Accounted(mem) /\ ctl.pc # "idle" /\ ctl'.pc # "idle"
  BY DEF Middle, RunSaved, MemAccounted
<1>2. Accounted(mem)'  BY <1>1 DEF Accounted, NetEqual
<1>3. GuestChosen' /\ RunSaved' /\ MemAccounted'
  BY <1>1, <1>2 DEF GuestChosen, RunSaved, MemAccounted, Middle
<1>4. NetworkJournalled'  BY <1>1, <1>2 DEF NetworkJournalled, Accounted
<1>5. OneNet'  BY DEF OneNet
<1>6. IdsSeen'
  BY <1>1 DEF IdsSeen, NetSame, NetEqual, Net
<1>7. Creating' /\ Deleting'
  BY DEF Creating, Deleting, Middle
<1>. QED  BY <1>3, <1>4, <1>5, <1>6, <1>7

\* A play may stop anywhere.
LEMMA StopKeeps ==
  ASSUME IInv, NetSame, Stop, UNCHANGED <<journal, mem>>
  PROVE  NetInv'
<1>. USE LiveSame DEF IInv, NetInv
<1>1. ctl'.pc = "idle"  BY DEF Stop, Idle
<1>2. GuestChosen' /\ RunSaved' /\ MemAccounted' /\ Creating' /\ Deleting'
  BY <1>1 DEF GuestChosen, RunSaved, MemAccounted, Creating, Deleting, Middle
<1>3. NetworkJournalled' /\ OneNet'  BY DEF NetworkJournalled, OneNet
<1>4. IdsSeen'  BY DEF IdsSeen, NetSame, Net
<1>. QED  BY <1>2, <1>3, <1>4

\* Goto changes the pc alone.
LEMMA Moved ==
  ASSUME TypeOK, NEW q, Goto(q)
  PROVE  ctl'.pc = q /\ ctl'.host = ctl.host /\ ctl'.kind = ctl.kind /\ ctl'.target = ctl.target
BY DEF Goto, TypeOK, Control

\* A step that moves on and leaves the records and the network alone.
LEMMA CheckKeeps ==
  ASSUME IInv, NetSame, ctl.pc \in Middle, ctl'.pc \in Middle,
         ctl'.pc \in Middle \ {"h_next", "d_next"} => ctl'.host \in Hosts,
         UNCHANGED <<journal, mem>>
  PROVE  NetInv'
<1>1. NetEqual  BY DEF NetEqual, Net
<1>2. mem' \in Journal  BY DEF IInv, TypeOK
<1>. QED  BY <1>1, <1>2, MiddleKeeps

\* A step that saves what it remembers, and leaves the states alone.
LEMMA SaveKeeps ==
  ASSUME IInv, UNCHANGED cloud, ctl.pc \in Middle, ctl'.pc \in Middle,
         ctl'.pc \in Middle \ {"h_next", "d_next"} => ctl'.host \in Hosts,
         Save(mem)
  PROVE  NetInv'
<1>1. NetEqual /\ NetSame  BY DEF NetEqual, NetSame, Net, Save
<1>2. mem' \in Journal /\ journal' = mem'  BY DEF IInv, TypeOK, Save
<1>. QED  BY <1>1, <1>2, MiddleKeeps

\* A create call for a guest keeps the invariant, whatever comes of it.
LEMMA GuestCallKeeps ==
  ASSUME IInv, TypeOK', NEW j \in GuestKinds, NEW q \in Middle,
         ctl.pc \in Middle \ {"h_next", "d_next"},
         (\E i \in Ids : Created(Mine(j), i, q) \/ Lost(Mine(j), i)) \/ RefusedCall(Mine(j))
  PROVE  NetInv'
<1>1. ctl.host \in Hosts /\ Mine(j) = <<ctl.host, j>> /\ TypeOK
  BY GuestThings DEF Mine, Guest, IInv
<1>2. ASSUME NEW i \in Ids, Created(Mine(j), i, q) PROVE NetInv'
  <2>1. NetSame  BY <1>1, <1>2, GuestNetSame DEF Created
  <2>0. mem' = Recorded(<<ctl.host, j>>, {i})  BY <1>1, <1>2 DEF Created, Remember
  <2>2. NetEqual  BY <1>1, <2>0, GuestIds
  <2>3. ctl'.pc \in Middle /\ ctl'.host \in Hosts  BY <1>1, <1>2, Moved DEF Created
  <2>4. mem' \in Journal /\ journal' = journal  BY <1>2 DEF Created, Remember, TypeOK
  <2>. QED  BY <2>1, <2>2, <2>3, <2>4, MiddleKeeps
<1>3. ASSUME NEW i \in Ids, Lost(Mine(j), i) PROVE NetInv'
  <2>1. \E s : Put(Mine(j), i, s)  BY <1>3 DEF Lost
  <2>2. NetSame  BY <1>1, <2>1, GuestNetSame
  <2>. QED  BY <1>3, <2>2, StopKeeps DEF Lost
<1>4. CASE RefusedCall(Mine(j))
  <2>1. NetSame  BY <1>4 DEF RefusedCall, NetSame, Net
  <2>. QED  BY <1>4, <2>1, StopKeeps DEF RefusedCall
<1>. QED  BY <1>2, <1>3, <1>4

\* A play that fails keeps the invariant.
LEMMA FailKeeps == ASSUME IInv, Fails PROVE NetInv'
<1>1. NetSame  BY DEF Fails, ec2, NetSame, Net
<1>. QED  BY <1>1, StopKeeps DEF Fails, files

\* Each step on a guest's key pair, group and launch.
LEMMA LaunchKeeps ==
  ASSUME IInv, TypeOK',
         \/ NextHost \/ RecordKey \/ ImportKey \/ CreateGroup \/ SaveGuest \/ SaveRequest
         \/ PublishRequest \/ RunInstances \/ ReplayInstances \/ LaunchFails \/ AcceptLaunch
  PROVE  NetInv'
<1>. USE DEF IInv, files, ec2, At
<1>. DEFINE Working == Middle \ {"h_next", "d_next"}
<1>1. {"h_key", "h_import", "h_group", "h_save", "h_request", "h_publish", "h_run",
       "h_accept", "h_wait"} \subseteq Working /\ "h_next" \in Middle
  BY DEF Middle
<1>2. {"keypair", "group", "instance"} \subseteq GuestKinds  BY DEF GuestKinds
<1>3. ctl.pc \in Working => /\ ctl.host \in Hosts
                            /\ \A j \in GuestKinds : Mine(j) = <<ctl.host, j>>
  BY GuestThings DEF Mine, Guest
<1>4. UNCHANGED cloud => NetSame  BY DEF NetSame, Net
<1>5. CASE NextHost
  <2>1. UNCHANGED <<journal, mem, cloud>>  BY <1>5 DEF NextHost
  <2>2. CASE Stop  BY <1>4, <2>1, <2>2, StopKeeps
  <2>3. ASSUME NEW h \in ctl.todo, ctl' = [ctl EXCEPT !.pc = "h_key", !.host = h] PROVE NetInv'
    <3>1. ctl'.pc = "h_key" /\ ctl'.host = h /\ h \in Hosts  BY <2>3 DEF TypeOK, Control
    <3>2. ctl.pc \in Middle  BY <1>1, <1>5 DEF NextHost
    <3>. QED  BY <1>1, <1>4, <2>1, <3>1, <3>2, CheckKeeps
  <2>. QED  BY <1>5, <2>2, <2>3 DEF NextHost
<1>6. CASE RecordKey
  <2>0. mem' = SetIds(ctl.host, "keypair", {1}) /\ ctl.host \in Hosts
    BY <1>1, <1>2, <1>3, <1>6 DEF RecordKey, Save, SetIds
  <2>1. NetEqual  BY <1>2, <2>0, GuestIds
  <2>2. ctl'.pc \in Middle /\ ctl'.host \in Hosts  BY <1>1, <1>3, <1>6, Moved DEF RecordKey
  <2>3. mem' \in Journal /\ journal' = mem'  BY <1>6 DEF RecordKey, Save, TypeOK
  <2>. QED  BY <1>1, <1>4, <1>6, <2>1, <2>2, <2>3, MiddleKeeps DEF RecordKey
<1>7. CASE ImportKey
  <2>1. NetSame  BY <1>1, <1>2, <1>3, <1>7, GuestNetSame DEF ImportKey
  <2>2. CASE Stop  BY <1>7, <2>1, <2>2, StopKeeps DEF ImportKey
  <2>3. CASE Goto("h_group")
    <3>1. ctl'.pc \in Middle /\ ctl'.host \in Hosts  BY <1>1, <1>3, <1>7, <2>3, Moved DEF ImportKey
    <3>. QED  BY <1>1, <1>7, <2>1, <3>1, CheckKeeps DEF ImportKey
  <2>. QED  BY <1>7, <2>2, <2>3 DEF ImportKey
<1>8. CASE CreateGroup
  <2>. DEFINE t == Mine("group")
  <2>1. ctl.pc \in Working  BY <1>1, <1>8 DEF CreateGroup
  <2>2. CASE /\ Remember([mem EXCEPT !.ids[t] = IF @ = {} THEN Seen(t) ELSE @]) /\ Goto("h_save")
             /\ UNCHANGED <<cloud, faults>>
    <3>1. ctl.host \in Hosts /\ t = <<ctl.host, "group">>  BY <1>2, <1>3, <2>1
    <3>2. mem' = SetIds(ctl.host, "group", IF mem.ids[t] = {} THEN Seen(t) ELSE mem.ids[t])
      BY <2>2, <3>1 DEF Remember, SetIds
    <3>3. NetEqual  BY <1>2, <3>1, <3>2, GuestIds
    <3>4. ctl'.pc \in Middle /\ ctl'.host \in Hosts  BY <1>1, <1>3, <2>1, <2>2, Moved
    <3>5. mem' \in Journal /\ journal' = journal  BY <2>2 DEF Remember, TypeOK
    <3>. QED  BY <1>1, <1>4, <2>1, <2>2, <3>3, <3>4, <3>5, MiddleKeeps
  <2>3. CASE (\E i \in Ids : Created(t, i, "h_save") \/ Lost(t, i)) \/ RefusedCall(t)
    BY <1>1, <1>2, <2>1, <2>3, GuestCallKeeps
  <2>4. CASE Stop /\ UNCHANGED <<journal, mem, cloud, faults>>
    BY <1>4, <2>4, StopKeeps
  <2>. QED  BY <1>8, <2>2, <2>3, <2>4 DEF CreateGroup
<1>9. CASE SaveGuest
  BY <1>1, <1>3, <1>9, Moved, SaveKeeps DEF SaveGuest
<1>10. CASE SaveRequest
  <2>1. UNCHANGED <<journal, mem, cloud>>  BY <1>10 DEF SaveRequest, Check, Fails
  <2>2. Fails \/ Goto("h_run") \/ Goto("h_publish")  BY <1>10 DEF SaveRequest, Check
  <2>3. ctl.pc \in Working  BY <1>1, <1>10 DEF SaveRequest
  <2>. QED  BY <1>1, <1>3, <1>4, <2>1, <2>2, <2>3, Moved, CheckKeeps, FailKeeps
<1>11. CASE PublishRequest
  BY <1>1, <1>3, <1>4, <1>11, Moved, CheckKeeps DEF PublishRequest
<1>12. CASE RunInstances
  BY <1>1, <1>2, <1>12, GuestCallKeeps DEF RunInstances
<1>13. CASE ReplayInstances
  <2>0. mem' = SetIds(ctl.host, "instance", Started) /\ ctl.host \in Hosts
    BY <1>1, <1>2, <1>3, <1>13 DEF ReplayInstances, Remember, SetIds
  <2>1. NetEqual  BY <1>2, <2>0, GuestIds
  <2>2. ctl'.pc \in Middle /\ ctl'.host \in Hosts  BY <1>1, <1>3, <1>13, Moved DEF ReplayInstances
  <2>3. mem' \in Journal /\ journal' = journal  BY <1>13 DEF ReplayInstances, Remember, TypeOK
  <2>. QED  BY <1>1, <1>4, <1>13, <2>1, <2>2, <2>3, MiddleKeeps DEF ReplayInstances
<1>14. CASE LaunchFails  BY <1>14, FailKeeps DEF LaunchFails
<1>15. CASE AcceptLaunch
  BY <1>1, <1>3, <1>15, Moved, SaveKeeps DEF AcceptLaunch
<1>. QED
  BY <1>5, <1>6, <1>7, <1>8, <1>9, <1>10, <1>11, <1>12, <1>13, <1>14, <1>15

\* Each step on a guest's instance and interface.
LEMMA InterfaceKeeps ==
  ASSUME IInv, TypeOK',
         WaitRunning \/ EniInfo \/ EniCreate \/ EniRecord \/ EniAttach \/ SaveDescendants
  PROVE  NetInv'
<1>. USE DEF IInv, files, ec2, At
<1>. DEFINE Working == Middle \ {"h_next", "d_next"}
<1>1. {"h_wait", "e_info", "e_create", "e_record", "e_attach", "h_descend"} \subseteq Working
      /\ "h_next" \in Middle
  BY DEF Middle
<1>2. "eni" \in GuestKinds  BY DEF GuestKinds
<1>3. ctl.pc \in Working => ctl.host \in Hosts /\ Mine("eni") = <<ctl.host, "eni">>
  BY <1>2, GuestThings DEF Mine, Guest
<1>4. UNCHANGED cloud => NetSame  BY DEF NetSame, Net
<1>5. CASE WaitRunning
  BY <1>1, <1>3, <1>4, <1>5, Moved, CheckKeeps, FailKeeps DEF WaitRunning, Check
<1>6. CASE EniInfo
  <2>1. CASE Fails  BY <2>1, FailKeeps
  <2>2. CASE ~Fails
    <3>1. mem' = Pending(ctl.host, "eni") /\ journal' = mem' /\ UNCHANGED cloud /\ ctl.pc = "e_info"
      BY <1>6, <2>2 DEF EniInfo, Save, Guest
    <3>2. ctl' = [ctl EXCEPT !.pc = "e_create", !.target["eni"] = Seen(Mine("eni"))]
      BY <1>6, <2>2 DEF EniInfo
    <3>3. ctl'.pc = "e_create" /\ ctl'.host = ctl.host  BY <3>2 DEF TypeOK, Control
    <3>4. NetEqual
      <4>1. Pending(ctl.host, "eni").pending[Region] = mem.pending[Region]
        BY <1>1, <1>2, <1>3, <3>1, GuestNetSame
      <4>2. \A k \in NetKinds : Pending(ctl.host, "eni").ids[Net(k)] = mem.ids[Net(k)]
        BY DEF Pending, TypeOK, Journal
      <4>. QED  BY <3>1, <4>1, <4>2 DEF NetEqual, Net
    <3>5. mem' \in Journal  BY DEF TypeOK
    <3>. QED  BY <1>1, <1>3, <1>4, <3>1, <3>3, <3>4, <3>5, MiddleKeeps
  <2>. QED  BY <2>1, <2>2
<1>7. CASE EniCreate
  <2>1. ctl.pc \in Working  BY <1>1, <1>7 DEF EniCreate
  <2>2. CASE /\ Remember(Recorded(Mine("eni"), ctl.target["eni"])) /\ Goto("e_record")
             /\ UNCHANGED <<cloud, faults>>
    <3>1. mem' = Recorded(<<ctl.host, "eni">>, ctl.target["eni"]) /\ ctl.host \in Hosts
      BY <1>3, <2>1, <2>2 DEF Remember
    <3>2. NetEqual  BY <1>2, <3>1, GuestIds
    <3>3. ctl'.pc \in Middle /\ ctl'.host \in Hosts  BY <1>1, <1>3, <2>1, <2>2, Moved
    <3>4. mem' \in Journal /\ journal' = journal  BY <2>2 DEF Remember, TypeOK
    <3>. QED  BY <1>1, <1>4, <2>1, <2>2, <3>2, <3>3, <3>4, MiddleKeeps
  <2>3. CASE (\E i \in Ids : Created(Mine("eni"), i, "e_record") \/ Lost(Mine("eni"), i))
               \/ RefusedCall(Mine("eni"))
    BY <1>1, <1>2, <2>1, <2>3, GuestCallKeeps
  <2>. QED  BY <1>7, <2>2, <2>3 DEF EniCreate
<1>8. CASE EniRecord
  BY <1>1, <1>3, <1>8, Moved, SaveKeeps DEF EniRecord
<1>9. CASE EniAttach
  <2>1. NetSame  BY <1>1, <1>2, <1>3, <1>9, GuestNetSame DEF EniAttach
  <2>. QED  BY <1>1, <1>3, <1>9, <2>1, Moved, CheckKeeps DEF EniAttach
<1>10. CASE SaveDescendants
  <2>1. mem' = SetIds(ctl.host, "eni", {i \in Ids : cloud[Mine("eni")][i] = "attached"})
        /\ ctl.host \in Hosts
    BY <1>1, <1>3, <1>10 DEF SaveDescendants, Save, SetIds
  <2>2. NetEqual  BY <1>2, <2>1, GuestIds
  <2>3. ctl'.pc = "h_next"  BY <1>10 DEF SaveDescendants, TypeOK, Control
  <2>4. mem' \in Journal /\ journal' = mem'  BY <1>10 DEF SaveDescendants, Save, TypeOK
  <2>. QED  BY <1>1, <1>4, <1>10, <2>2, <2>3, <2>4, MiddleKeeps DEF SaveDescendants
<1>. QED  BY <1>5, <1>6, <1>7, <1>8, <1>9, <1>10

\* Each step of destroy on a guest.
LEMMA DestroyGuestKeeps ==
  ASSUME IInv, TypeOK',
         DestroyGuest \/ Terminate \/ DeleteInterfaces \/ DeleteGroup \/ DeleteKey
  PROVE  NetInv'
<1>. USE DEF IInv, files, ec2, At
<1>. DEFINE Working == Middle \ {"h_next", "d_next"}
<1>1. {"d_term", "d_eni", "d_group", "d_key"} \subseteq Working /\ "d_next" \in Middle
  BY DEF Middle
<1>2. {"keypair", "group", "instance", "eni"} \subseteq GuestKinds  BY DEF GuestKinds
<1>3. ctl.pc \in Working => /\ ctl.host \in Hosts
                            /\ \A j \in GuestKinds : Mine(j) = <<ctl.host, j>>
  BY GuestThings DEF Mine, Guest
<1>4. UNCHANGED cloud => NetSame  BY DEF NetSame, Net
<1>5. CASE DestroyGuest
  <2>1. PICK h \in ctl.todo : LET instances == Found(<<h, "instance">>) IN
          IF Cardinality(instances) > 1 THEN Fails
          ELSE /\ Save([mem EXCEPT !.ids[<<h, "eni">>] = @ \cup Seen(<<h, "eni">>)])
               /\ ctl' = [ctl EXCEPT !.pc = "d_term", !.host = h, !.target["instance"] = instances]
               /\ UNCHANGED <<requests, ec2, born, faults>>
    BY <1>5 DEF DestroyGuest
  <2>2. CASE Fails  BY <2>2, FailKeeps
  <2>3. CASE ~Fails
    <3>1. h \in Hosts  BY DEF TypeOK, Control
    <3>2. mem' = SetIds(h, "eni", mem.ids[<<h, "eni">>] \cup Seen(<<h, "eni">>)) /\ journal' = mem'
      BY <2>1, <2>3 DEF Save, SetIds
    <3>3. NetEqual  BY <1>2, <3>1, <3>2, GuestIds
    <3>4. ctl'.pc = "d_term" /\ ctl'.host = h  BY <2>1, <2>3 DEF TypeOK, Control
    <3>5. mem' \in Journal /\ UNCHANGED cloud  BY <2>1, <2>3 DEF TypeOK
    <3>6. ctl.pc = "d_next"  BY <1>5 DEF DestroyGuest
    <3>. QED  BY <1>1, <1>4, <3>1, <3>2, <3>3, <3>4, <3>5, <3>6, MiddleKeeps
  <2>. QED  BY <2>2, <2>3
<1>6. CASE Terminate
  <2>1. ctl.host \in Hosts /\ Mine("instance") = <<ctl.host, "instance">>
        /\ Mine("eni") = <<ctl.host, "eni">>
    BY <1>1, <1>2, <1>3, <1>6 DEF Terminate
  <2>2. \A k \in NetKinds : Net(k) # Mine("instance") /\ Net(k) # Mine("eni") /\ Net(k) \in Things
    BY <2>1 DEF Net, NetKinds, Things
  <2>3. NetSame  BY <1>6, <2>2 DEF Terminate, NetSame, TypeOK
  <2>. QED  BY <1>1, <1>6, <2>1, <2>3, Moved, CheckKeeps DEF Terminate
<1>7. CASE DeleteInterfaces
  <2>1. CASE Fails  BY <2>1, FailKeeps
  <2>2. CASE ~Fails
    <3>1. NetSame  BY <1>1, <1>2, <1>3, <1>7, <2>2, GuestNetSame DEF DeleteInterfaces
    <3>. QED  BY <1>1, <1>3, <1>7, <2>2, <3>1, Moved, CheckKeeps DEF DeleteInterfaces
  <2>. QED  BY <2>1, <2>2
<1>8. CASE DeleteGroup
  <2>1. CASE Fails  BY <2>1, FailKeeps
  <2>2. CASE ~Fails
    <3>1. NetSame  BY <1>1, <1>2, <1>3, <1>8, <2>2, GuestNetSame DEF DeleteGroup
    <3>. QED  BY <1>1, <1>3, <1>8, <2>2, <3>1, Moved, CheckKeeps DEF DeleteGroup
  <2>. QED  BY <2>1, <2>2
<1>9. CASE DeleteKey
  <2>1. NetSame  BY <1>1, <1>2, <1>3, <1>9, GuestNetSame DEF DeleteKey
  <2>2. ctl'.pc = "d_next"  BY <1>9 DEF DeleteKey, TypeOK, Control
  <2>. QED  BY <1>1, <1>9, <2>1, <2>2, CheckKeeps DEF DeleteKey
<1>. QED  BY <1>5, <1>6, <1>7, <1>8, <1>9

-------------------------------------------------------------------------------
(* The steps on the network                                                *)

\* What has shown up of a part of the network is what exists of it, as soon as one
\* can be seen.
LEMMA FoundAll ==
  ASSUME IInv, NEW k \in NetKinds, Accounted(mem), ~Uncertain(k)
  PROVE  /\ LiveIds(Net(k)) \subseteq Found(Net(k))
         /\ Found(Net(k)) \subseteq LiveIds(Net(k))
         /\ \A i \in Found(Net(k)) : i \in Ids /\ cloud[Net(k)][i] \notin {"none", "hidden"}
<1>. USE DEF IInv, NetInv
<1>1. \A i \in Seen(Net(k)) : i \in LiveIds(Net(k)) /\ cloud[Net(k)][i] \notin {"none", "hidden"}
  BY DEF Seen, LiveIds, Live
<1>2. Found(Net(k)) \subseteq Seen(Net(k))  BY DEF Found
<1>3. ASSUME NEW i \in LiveIds(Net(k)) PROVE i \in Found(Net(k))
  <2>1. CASE i \in mem.ids[Net(k)]
    <3>1. cloud[Net(k)][i] \in {"up", "attached"} /\ i \in Ids
      BY <2>1, <1>3 DEF IdsSeen, LiveIds, Live
    <3>. QED  BY <2>1, <3>1 DEF Found, Seen
  <2>2. CASE mem.pending[Region] = k
    <3>1. PICK j \in Found(Net(k)) : TRUE  BY <2>2 DEF Uncertain
    <3>2. j \in LiveIds(Net(k))  BY <1>1, <1>2, <3>1
    <3>. QED  BY <1>3, <3>1, <3>2 DEF OneNet
  <2>. QED  BY <1>3, <2>1, <2>2 DEF Accounted
<1>4. Found(Net(k)) \subseteq Ids  BY <1>2 DEF Seen
<1>. QED  BY <1>1, <1>2, <1>3, <1>4

\* Steps that leave the states and the journal alone, or save what is accounted for.
LEMMA RecordKeeps ==
  ASSUME IInv, UNCHANGED cloud, Accounted(mem'), mem' \in Journal,
         journal' = mem' \/ (journal' = journal /\ (journal = NoRun => ctl'.pc = "init")),
         \A k \in NetKinds : \A i \in Ids :
           cloud[Net(k)][i] \in {"none", "hidden"} => i \notin mem'.ids[Net(k)],
         GuestChosen', Creating', Deleting',
         ctl'.pc = "init" => journal' = NoRun \/ mem' = journal'
  PROVE  NetInv'
<1>. USE RunAssumption DEF IInv, NetInv
<1>1. NetSame /\ (\A k \in NetKinds : LiveIds(Net(k))' = LiveIds(Net(k)))
  BY LiveSame DEF NetSame, Net
<1>2. Accounted(mem)'  BY <1>1 DEF Accounted
<1>3. NetworkJournalled'  BY <1>1, <1>2 DEF NetworkJournalled, Accounted
<1>4. OneNet'  BY <1>1 DEF OneNet
<1>5. IdsSeen'  BY <1>1 DEF IdsSeen, NetSame, Net
<1>6. RunSaved'  BY DEF RunSaved
<1>7. MemAccounted'  BY <1>2 DEF MemAccounted
<1>. QED  BY <1>3, <1>4, <1>5, <1>6, <1>7

\* Each step that plans or records the network.
LEMMA NetworkKeeps ==
  ASSUME IInv, TypeOK',
         \/ Create \/ SaveInitial \/ NetworkInfo \/ (\E k \in NetKinds : NetworkMark(k))
         \/ NetworkRecord \/ NetworkDone
  PROVE  NetInv'
<1>. USE RunAssumption DEF IInv, files, ec2, At
<1>1. UNCHANGED cloud
  BY DEF Create, SaveInitial, NetworkInfo, Fails, NetworkMark, NetworkRecord, NetworkDone
<1>2. \A k \in NetKinds : \A i \in Ids :
        cloud[Net(k)][i] \in {"none", "hidden"} => i \notin mem.ids[Net(k)]
  BY DEF NetInv, IdsSeen
<1>3. ctl.pc # "idle" => Accounted(mem)  BY DEF NetInv, MemAccounted
<1>4. mem' \in Journal  BY DEF TypeOK
<1>5. CASE Create
  <2>1. ctl'.pc = "init" /\ journal' = journal  BY <1>5 DEF Create, Idle
  <2>2. GuestChosen' /\ Creating' /\ Deleting'
    BY <2>1 DEF GuestChosen, Creating, Deleting, Middle
  <2>3. CASE journal # NoRun /\ mem' = journal
    <3>1. Accounted(mem')  BY <2>3 DEF NetInv, NetworkJournalled, Accounted
    <3>2. \A k \in NetKinds : \A i \in Ids :
            cloud[Net(k)][i] \in {"none", "hidden"} => i \notin mem'.ids[Net(k)]
      BY <2>3 DEF NetInv, IdsSeen
    <3>. QED  BY <1>1, <1>4, <2>1, <2>2, <2>3, <3>1, <3>2, RecordKeeps
  <2>4. CASE journal = NoRun /\ mem' = NewRun
    <3>1. \A k \in NetKinds : LiveIds(Net(k)) = {}  BY <2>4 DEF NetInv, NetworkJournalled
    <3>2. Accounted(mem')  BY <3>1 DEF Accounted
    <3>3. \A k \in NetKinds : mem'.ids[Net(k)] = {}
      BY <2>4 DEF NewRun, Net, Things
    <3>. QED  BY <1>1, <1>4, <2>1, <2>2, <2>4, <3>2, <3>3, RecordKeeps
  <2>. QED  BY <1>5, <2>3, <2>4 DEF Create
<1>6. CASE SaveInitial
  <2>1. ctl'.pc = "n_info"  BY <1>6, Moved DEF SaveInitial
  <2>2. GuestChosen' /\ Creating' /\ Deleting'
    BY <2>1 DEF GuestChosen, Creating, Deleting, Middle
  <2>. QED  BY <1>1, <1>2, <1>3, <1>4, <1>6, <2>1, <2>2, RecordKeeps DEF SaveInitial, Save
<1>7. CASE NetworkInfo
  <2>1. CASE Fails  BY <2>1, FailKeeps
  <2>2. CASE ~Fails
    <3>1. ~Refuses(FALSE) /\ mem' = Reconciled /\ journal' = journal /\ Goto("n_next")
      BY <1>7, <2>2 DEF NetworkInfo, Remember
    <3>2. ctl'.pc = "n_next"  BY <3>1, Moved
    <3>3. \A k \in NetKinds : ~Uncertain(k)  BY <3>1 DEF Refuses
    <3>4. \A k \in NetKinds : mem'.ids[Net(k)] = mem.ids[Net(k)] \cup Found(Net(k))
      BY <3>1 DEF Reconciled, TypeOK, Journal, Net, Things
    <3>5. mem'.pending[Region] = NoKind  BY <3>1 DEF Reconciled, TypeOK, Journal, Scopes
    <3>6. Accounted(mem) /\ journal # NoRun
      BY <1>3, <1>7 DEF NetworkInfo, NetInv, RunSaved
    <3>7. Accounted(mem')  BY <3>3, <3>4, <3>6, FoundAll DEF Accounted
    <3>8. \A k \in NetKinds : \A i \in Ids :
            cloud[Net(k)][i] \in {"none", "hidden"} => i \notin mem'.ids[Net(k)]
      BY <1>2, <3>3, <3>4, <3>6, FoundAll
    <3>9. GuestChosen' /\ Creating' /\ Deleting'
      BY <3>2, <3>5 DEF GuestChosen, Creating, Deleting, Middle
    <3>. QED  BY <1>1, <1>4, <3>1, <3>2, <3>6, <3>7, <3>8, <3>9, RecordKeeps
  <2>. QED  BY <2>1, <2>2
<1>8. CASE \E k \in NetKinds : NetworkMark(k)
  <2>1. PICK k \in NetKinds : NetworkMark(k)  BY <1>8
  <2>2. mem' = Pending(Region, k) /\ journal' = mem'  BY <2>1 DEF NetworkMark, Save
  <2>3. ctl'.pc = "n_create" /\ ctl'.kind = k  BY <2>1 DEF NetworkMark, TypeOK, Control
  <2>4. mem.pending[Region] = NoKind /\ Accounted(mem) /\ mem.ids[Net(k)] = {}
    BY <1>3, <2>1 DEF NetworkMark, NextMissing, Missing, NetInv, Creating
  <2>5. \A j \in NetKinds : \A i \in LiveIds(Net(j)) : i \in mem.ids[Net(j)]
    BY <2>4 DEF Accounted, Kinds
  <2>6. mem'.pending[Region] = k /\ \A j \in NetKinds : mem'.ids[Net(j)] = mem.ids[Net(j)]
    BY <2>2 DEF Pending, TypeOK, Journal, Scopes
  <2>7. Accounted(mem') /\ LiveIds(Net(k)) = {}  BY <2>4, <2>5, <2>6 DEF Accounted
  <2>8. GuestChosen' /\ Creating' /\ Deleting'
    <3>1. LiveIds(Net(k))' = {}  BY <1>1, <2>7 DEF LiveIds, Net
    <3>. QED  BY <2>2, <2>3, <2>6, <3>1 DEF GuestChosen, Creating, Deleting, Middle
  <2>. QED  BY <1>1, <1>2, <1>4, <2>2, <2>3, <2>6, <2>7, <2>8, RecordKeeps
<1>9. CASE NetworkRecord
  <2>1. ctl'.pc = "n_next" /\ mem' = mem /\ journal' = mem'
    BY <1>9, Moved DEF NetworkRecord, Save
  <2>2. GuestChosen' /\ Creating' /\ Deleting'
    BY <1>9, <2>1 DEF NetworkRecord, GuestChosen, NetInv, Creating, Deleting, Middle
  <2>. QED  BY <1>1, <1>2, <1>3, <1>4, <1>9, <2>1, <2>2, RecordKeeps DEF NetworkRecord
<1>10. CASE NetworkDone
  <2>1. ctl'.pc = "h_next" /\ mem' = mem /\ journal' = mem'
    BY <1>10, Moved DEF NetworkDone, Save
  <2>2. GuestChosen' /\ Creating' /\ Deleting'
    BY <2>1 DEF GuestChosen, Creating, Deleting, Middle
  <2>. QED  BY <1>1, <1>2, <1>3, <1>4, <1>10, <2>1, <2>2, RecordKeeps DEF NetworkDone
<1>. QED  BY <1>5, <1>6, <1>7, <1>8, <1>9, <1>10

\* The create call itself: it adds one thing, of a kind of which there is none.
LEMMA NetworkCreateKeeps == ASSUME IInv, TypeOK', NetworkCreate PROVE NetInv'
<1>. USE RunAssumption DEF IInv, At
<1>0. PICK k \in NetKinds : k = ctl.kind  BY DEF NetworkCreate, NetInv, Creating
<1>. DEFINE t == Net(k)
<1>1. /\ ctl.pc = "n_create" /\ LiveIds(t) = {}
      /\ journal = mem /\ mem.pending[Region] = k /\ Accounted(mem) /\ journal # NoRun
  BY <1>0 DEF NetworkCreate, NetInv, Creating, MemAccounted, RunSaved
<1>2. t \in Things /\ \A j \in NetKinds : Net(j) \in Things /\ (j # k => Net(j) # t)
  BY <1>1 DEF Net, Things
<1>3. ASSUME NEW i \in Ids, NEW s \in {"up", "hidden"}, i \in Unused(t), Put(t, i, s)
      PROVE  /\ \A j \in NetKinds \ {k} : cloud'[Net(j)] = cloud[Net(j)]
             /\ \A j \in NetKinds \ {k} : LiveIds(Net(j))' = LiveIds(Net(j))
             /\ LiveIds(Net(k))' = {i}
             /\ cloud'[t] = [cloud[t] EXCEPT ![i] = s]
  <2>1. cloud'[t] = [cloud[t] EXCEPT ![i] = s]  BY <1>2, <1>3 DEF Put, TypeOK
  <2>2. \A j \in NetKinds \ {k} : cloud'[Net(j)] = cloud[Net(j)]  BY <1>2, <1>3 DEF Put, TypeOK
  <2>3. \A j \in NetKinds \ {k} : LiveIds(Net(j))' = LiveIds(Net(j))  BY <2>2 DEF LiveIds, Net
  <2>4. LiveIds(t)' = {x \in Ids : Live(cloud'[t][x])}  BY DEF LiveIds, Net
  <2>5. \A x \in Ids : cloud'[t][x] = IF x = i THEN s ELSE cloud[t][x]
    BY <1>2, <2>1 DEF TypeOK
  <2>6. \A x \in Ids : ~Live(cloud[t][x])  BY <1>1 DEF LiveIds
  <2>7. LiveIds(t)' = {i}  BY <2>4, <2>5, <2>6 DEF Live
  <2>. QED  BY <2>1, <2>2, <2>3, <2>7
<1>4. ASSUME NEW i \in Ids, Created(t, i, "n_record") PROVE NetInv'
  <2>1. Put(t, i, "up") /\ i \in Unused(t) /\ mem' = Recorded(t, {i}) /\ journal' = journal
        /\ Goto("n_record")
    BY <1>4 DEF Created, Remember
  <2>2. ctl'.pc = "n_record"  BY <2>1, Moved
  <2>a. /\ \A j \in NetKinds \ {k} : /\ cloud'[Net(j)] = cloud[Net(j)]
                                    /\ LiveIds(Net(j))' = LiveIds(Net(j))
        /\ LiveIds(Net(k))' = {i}
        /\ \A x \in Ids : x # i => cloud'[t][x] = cloud[t][x]
    BY <1>2, <1>3, <2>1 DEF TypeOK
  <2>3. /\ mem'.ids[t] = mem.ids[t] \cup {i} /\ mem'.pending[Region] = NoKind
        /\ \A j \in NetKinds \ {k} : mem'.ids[Net(j)] = mem.ids[Net(j)]
    BY <1>1, <1>2, <2>1 DEF Recorded, TypeOK, Journal, Scopes, Net
  <2>4. Accounted(mem)'
    BY <1>1, <2>a, <2>3 DEF Accounted, Kinds
  <2>5. GuestChosen' /\ RunSaved' /\ MemAccounted' /\ Creating' /\ Deleting'
    BY <1>1, <2>1, <2>2, <2>3, <2>4 DEF GuestChosen, RunSaved, MemAccounted, Creating, Deleting, Middle
  <2>6. NetworkJournalled'
    <3>. SUFFICES ASSUME NEW j \in NetKinds, NEW x \in LiveIds(Net(j))'
                  PROVE  journal' # NoRun /\ (x \in journal'.ids[Net(j)] \/ journal'.pending[Region] = j)
      BY DEF NetworkJournalled, Net
    <3>. QED  BY <1>1, <2>1, <2>a DEF NetInv, NetworkJournalled
  <2>7. OneNet'  BY <2>a DEF NetInv, OneNet
  <2>8. IdsSeen'
    <3>. SUFFICES ASSUME NEW j \in NetKinds, NEW x \in Ids, cloud'[Net(j)][x] \in {"none", "hidden"}
                  PROVE  x \notin mem'.ids[Net(j)] /\ x \notin journal'.ids[Net(j)]
      BY DEF IdsSeen, Net
    <3>1. CASE j # k  BY <1>1, <2>1, <2>3, <2>a, <3>1 DEF NetInv, IdsSeen
    <3>2. CASE j = k
      <4>1. x # i /\ cloud[t][x] \in {"none", "hidden"}
        BY <1>2, <2>1, <2>a, <3>2 DEF Put, TypeOK
      <4>. QED  BY <1>1, <2>1, <2>3, <3>2, <4>1 DEF NetInv, IdsSeen
    <3>. QED  BY <3>1, <3>2
  <2>. QED  BY <2>5, <2>6, <2>7, <2>8 DEF NetInv
<1>5. ASSUME NEW i \in Ids, Lost(t, i) PROVE NetInv'
  <2>1. i \in Unused(t) /\ mem' = mem /\ journal' = journal /\ Stop
    BY <1>5 DEF Lost
  <2>2. PICK s \in {"up", "hidden"} : Put(t, i, s)  BY <1>5 DEF Lost
  <2>3. ctl'.pc = "idle"  BY <2>1 DEF Stop, Idle
  <2>a. /\ \A j \in NetKinds \ {k} : /\ cloud'[Net(j)] = cloud[Net(j)]
                                    /\ LiveIds(Net(j))' = LiveIds(Net(j))
        /\ LiveIds(Net(k))' = {i}
        /\ \A x \in Ids : x # i => cloud'[t][x] = cloud[t][x]
    BY <1>2, <1>3, <2>1, <2>2 DEF TypeOK
  <2>4. GuestChosen' /\ RunSaved' /\ MemAccounted' /\ Creating' /\ Deleting'
    BY <2>3 DEF GuestChosen, RunSaved, MemAccounted, Creating, Deleting, Middle
  <2>5. NetworkJournalled'
    <3>. SUFFICES ASSUME NEW j \in NetKinds, NEW x \in LiveIds(Net(j))'
                  PROVE  journal' # NoRun /\ (x \in journal'.ids[Net(j)] \/ journal'.pending[Region] = j)
      BY DEF NetworkJournalled, Net
    <3>. QED  BY <1>1, <2>1, <2>a DEF NetInv, NetworkJournalled
  <2>6. OneNet'  BY <2>a DEF NetInv, OneNet
  <2>7. IdsSeen'
    <3>. SUFFICES ASSUME NEW j \in NetKinds, NEW x \in Ids, cloud'[Net(j)][x] \in {"none", "hidden"}
                  PROVE  x \notin mem.ids[Net(j)] /\ x \notin journal.ids[Net(j)]
      BY <2>1 DEF IdsSeen, Net
    <3>1. CASE j # k  BY <1>1, <2>1, <2>a, <3>1 DEF NetInv, IdsSeen
    <3>2. CASE j = k
      <4>1. cloud[t][i] = "none"  BY <2>1 DEF Unused
      <4>2. cloud[t][x] \in {"none", "hidden"}
        BY <2>a, <3>2, <4>1
      <4>. QED  BY <1>1, <3>2, <4>2 DEF NetInv, IdsSeen
    <3>. QED  BY <3>1, <3>2
  <2>. QED  BY <2>4, <2>5, <2>6, <2>7 DEF NetInv
<1>6. CASE RefusedCall(t)
  <2>1. NetSame  BY <1>6 DEF RefusedCall, NetSame, Net
  <2>. QED  BY <1>6, <2>1, StopKeeps DEF RefusedCall
<1>. QED  BY <1>0, <1>4, <1>5, <1>6 DEF NetworkCreate

\* Where nothing of the network is added and what goes is gone, in the journal's time.
LEMMA ShrinkKeeps ==
  ASSUME IInv, TypeOK',
         \A k \in NetKinds : \A i \in Ids :
           cloud'[Net(k)][i] = cloud[Net(k)][i] \/ cloud'[Net(k)][i] = "gone",
         mem' = mem \/ mem' = journal,  journal' = journal, journal # NoRun,
         mem' = mem => ctl.pc # "idle", GuestChosen', Creating', Deleting', ctl'.pc # "init"
  PROVE  NetInv'
<1>. USE DEF IInv, NetInv
<1>1. \A k \in NetKinds : LiveIds(Net(k))' \subseteq LiveIds(Net(k))
  BY DEF LiveIds, Live, Net
<1>2. NetworkJournalled'  BY <1>1 DEF NetworkJournalled
<1>3. MemAccounted'
  <2>1. Accounted(mem) \/ mem' = journal  BY DEF MemAccounted
  <2>2. Accounted(mem)'  BY <1>1, <2>1 DEF Accounted, NetworkJournalled, MemAccounted
  <2>. QED  BY <2>2 DEF MemAccounted
<1>4. OneNet'  BY <1>1 DEF OneNet
<1>5. IdsSeen'
  <2>. SUFFICES ASSUME NEW k \in NetKinds, NEW i \in Ids, cloud'[Net(k)][i] \in {"none", "hidden"}
                PROVE  i \notin mem'.ids[Net(k)] /\ i \notin journal'.ids[Net(k)]
    BY DEF IdsSeen, Net
  <2>1. cloud[Net(k)][i] \in {"none", "hidden"}  OBVIOUS
  <2>. QED  BY <2>1 DEF IdsSeen
<1>6. RunSaved'  BY DEF RunSaved
<1>. QED  BY <1>2, <1>3, <1>4, <1>5, <1>6

\* Each step of the teardown.
LEMMA TeardownKeeps ==
  ASSUME IInv, TypeOK',
         Destroy \/ NetworkCleanup \/ DeleteNetwork \/ RemoveRequests \/ RemoveJournal
  PROVE  NetInv'
<1>. USE DEF IInv, files, ec2, At
<1>1. CASE Destroy
  <2>1. ctl'.pc = "d_next" /\ UNCHANGED <<cloud, journal>> /\ mem' = journal /\ journal # NoRun
    BY <1>1 DEF Destroy, Idle
  <2>2. GuestChosen' /\ Creating' /\ Deleting'
    BY <2>1 DEF GuestChosen, Creating, Deleting
  <2>3. ctl'.pc # "init" /\ ctl.pc = "idle" /\ (mem' = mem => mem' = journal)
    BY <1>1, <2>1 DEF Destroy
  <2>4. Accounted(mem') /\ mem' \in Journal
    BY <2>1 DEF NetInv, NetworkJournalled, Accounted, TypeOK
  <2>5. \A k \in NetKinds : \A i \in Ids :
          cloud[Net(k)][i] \in {"none", "hidden"} => i \notin mem'.ids[Net(k)]
    BY <2>1 DEF NetInv, IdsSeen
  <2>. QED  BY <2>1, <2>2, <2>3, <2>4, <2>5, RecordKeeps
<1>2. CASE NetworkCleanup
  <2>1. CASE Fails  BY <2>1, FailKeeps
  <2>2. CASE ~Fails
    <3>1. /\ ~Refuses(TRUE) /\ ctl.pc = "d_next" /\ UNCHANGED <<cloud, journal, mem>>
          /\ ctl' = [ctl EXCEPT !.pc = "d_net", !.kind = "route",
                       !.target = [k \in Kinds |-> IF k \in NetKinds THEN Found(Net(k)) ELSE {}]]
      BY <1>2, <2>2 DEF NetworkCleanup
    <3>2. Accounted(mem) /\ journal # NoRun  BY <3>1 DEF NetInv, MemAccounted, RunSaved
    <3>3. \A k \in NetKinds : ~Uncertain(k)  BY <3>1 DEF Refuses
    <3>4. \A k \in NetKinds : LiveIds(Net(k)) \subseteq Found(Net(k))  BY <3>2, <3>3, FoundAll
    <3>5. /\ ctl'.pc = "d_net" /\ ctl'.kind = "route"
          /\ \A k \in NetKinds : ctl'.target[k] = Found(Net(k))
      BY <3>1 DEF TypeOK, Control, Kinds
    <3>6. \A k \in NetKinds : LiveIds(Net(k))' = LiveIds(Net(k))
      BY <3>1 DEF LiveIds, Net
    <3>7. GuestChosen' /\ Creating' /\ Deleting'
      <4>1. Deleting'
        BY <3>4, <3>5, <3>6 DEF Deleting, Behind, NetKinds
      <4>. QED  BY <3>5, <4>1 DEF GuestChosen, Creating, Middle
    <3>8. ctl.pc # "idle" /\ ctl'.pc # "init"  BY <3>1, <3>5
    <3>. QED  BY <3>1, <3>2, <3>7, <3>8, ShrinkKeeps
  <2>. QED  BY <2>1, <2>2
<1>3. CASE DeleteNetwork
  <2>1. CASE Fails  BY <2>1, FailKeeps
  <2>2. CASE ~Fails
    <3>1. PICK k \in NetKinds : k = ctl.kind  BY <1>3 DEF DeleteNetwork, NetInv, Deleting
    <3>2. /\ cloud' = Delete(Net(k), ctl.target[k]) /\ ctl' = AfterDeleting(k)
          /\ ctl.pc = "d_net" /\ UNCHANGED <<journal, mem>>
      BY <1>3, <2>2, <3>1 DEF DeleteNetwork
    <3>3. \A j \in NetKinds : Net(j) \in Things /\ (j # k => Net(j) # Net(k))
      BY DEF Net, Things
    <3>4. /\ \A j \in NetKinds \ {k} : cloud'[Net(j)] = cloud[Net(j)]
          /\ \A i \in Ids : cloud'[Net(k)][i] = IF i \in ctl.target[k] THEN "gone" ELSE cloud[Net(k)][i]
      BY <3>2, <3>3 DEF Delete, TypeOK
    <3>5. /\ \A j \in NetKinds : LiveIds(Net(j)) \subseteq ctl.target[j]
          /\ \A j \in Behind(k) : LiveIds(Net(j)) = {}
      BY <3>1, <3>2 DEF NetInv, Deleting
    <3>6. LiveIds(Net(k))' = {}  BY <3>4, <3>5 DEF LiveIds, Live, Net
    <3>7. \A j \in NetKinds \ {k} : LiveIds(Net(j))' = LiveIds(Net(j))  BY <3>4 DEF LiveIds, Net
    <3>8. /\ ctl'.pc = IF k = "vpc" THEN "d_requests" ELSE "d_net"
          /\ k # "vpc" => /\ ctl'.kind \in NetKinds /\ Behind(ctl'.kind) = Behind(k) \cup {k}
                          /\ ctl'.target = ctl.target
      BY <3>2 DEF AfterDeleting, TypeOK, Control, NetKinds, Behind
    <3>9. k = "vpc" => Behind(k) \cup {k} = NetKinds  BY DEF Behind, NetKinds
    <3>10. \A j \in Behind(k) \cup {k} : j \in NetKinds /\ LiveIds(Net(j))' = {}
      <4>1. Behind(k) \subseteq NetKinds  BY DEF Behind, NetKinds
      <4>. QED  BY <3>5, <3>6, <3>7, <4>1
    <3>11. \A j \in NetKinds : LiveIds(Net(j))' \subseteq ctl.target[j]
      BY <3>5, <3>6, <3>7
    <3>12. Deleting'
      <4>1. CASE k = "vpc"  BY <3>8, <3>9, <3>10, <4>1 DEF Deleting
      <4>2. CASE k # "vpc"  BY <3>8, <3>10, <3>11, <4>2 DEF Deleting
      <4>. QED  BY <4>1, <4>2
    <3>13. GuestChosen' /\ Creating'  BY <3>8 DEF GuestChosen, Creating, Middle
    <3>14. journal # NoRun /\ ctl.pc # "idle" /\ ctl'.pc # "init"
      BY <3>2, <3>8 DEF NetInv, RunSaved
    <3>15. \A j \in NetKinds : \A i \in Ids :
             cloud'[Net(j)][i] = cloud[Net(j)][i] \/ cloud'[Net(j)][i] = "gone"
      BY <3>4
    <3>. QED  BY <3>2, <3>12, <3>13, <3>14, <3>15, ShrinkKeeps
  <2>. QED  BY <2>1, <2>2
<1>4. CASE RemoveRequests
  <2>1. ctl.pc = "d_requests" /\ ctl'.pc = "d_journal" /\ UNCHANGED <<cloud, journal, mem>>
    BY <1>4, Moved DEF RemoveRequests
  <2>2. \A k \in NetKinds : LiveIds(Net(k))' = {}
    BY <2>1 DEF NetInv, Deleting, LiveIds, Net
  <2>3. GuestChosen' /\ Creating' /\ Deleting'
    BY <2>1, <2>2 DEF GuestChosen, Creating, Deleting, Middle
  <2>4. journal # NoRun /\ ctl.pc # "idle" /\ ctl'.pc # "init"  BY <2>1 DEF NetInv, RunSaved
  <2>. QED  BY <2>1, <2>3, <2>4, ShrinkKeeps
<1>5. CASE RemoveJournal
  <2>1. ctl.pc = "d_journal" /\ ctl'.pc = "idle" /\ journal' = NoRun /\ UNCHANGED <<cloud, mem>>
    BY <1>5 DEF RemoveJournal, Stop, Idle
  <2>2. \A k \in NetKinds : LiveIds(Net(k))' = {}
    BY <2>1 DEF NetInv, Deleting, LiveIds, Net
  <2>3. GuestChosen' /\ RunSaved' /\ MemAccounted' /\ Creating' /\ Deleting'
    BY <2>1 DEF GuestChosen, RunSaved, MemAccounted, Creating, Deleting, Middle
  <2>4. NetworkJournalled' /\ OneNet'  BY <2>2 DEF NetworkJournalled, OneNet
  <2>5. IdsSeen'  BY <2>1 DEF NetInv, IdsSeen, Net
  <2>. QED  BY <2>3, <2>4, <2>5 DEF NetInv
<1>. QED  BY <1>1, <1>2, <1>3, <1>4, <1>5

\* What was accepted shows up.
LEMMA AppearKeeps ==
  ASSUME IInv, NEW t \in Things, NEW i \in Ids, Appear(t, i)
  PROVE  NetInv'
<1>. USE DEF IInv, NetInv
<1>1. /\ cloud[t][i] = "hidden" /\ cloud' = [cloud EXCEPT ![t][i] = "up"]
      /\ UNCHANGED <<journal, mem, ctl>>
  BY DEF Appear, Put, files
<1>2. \A k \in NetKinds : \A j \in Ids :
        \/ cloud'[Net(k)][j] = cloud[Net(k)][j]
        \/ cloud[Net(k)][j] = "hidden" /\ cloud'[Net(k)][j] = "up"
  BY <1>1 DEF TypeOK, Net, Things
<1>3. \A k \in NetKinds : LiveIds(Net(k))' = LiveIds(Net(k))
  BY <1>2 DEF LiveIds, Live, Net
<1>4. GuestChosen' /\ RunSaved'  BY <1>1 DEF GuestChosen, RunSaved
<1>5. MemAccounted' /\ NetworkJournalled'
  BY <1>1, <1>3 DEF MemAccounted, Accounted, NetworkJournalled
<1>6. OneNet'  BY <1>3 DEF OneNet
<1>7. IdsSeen'
  <2>. SUFFICES ASSUME NEW k \in NetKinds, NEW j \in Ids, cloud'[Net(k)][j] \in {"none", "hidden"}
                PROVE  j \notin mem.ids[Net(k)] /\ (journal # NoRun => j \notin journal.ids[Net(k)])
    BY <1>1 DEF IdsSeen, Net
  <2>. QED  BY <1>2 DEF IdsSeen
<1>8. Creating'
  <2>1. ctl.pc = "n_create" => LiveIds(Net(ctl.kind))' = {}
    BY <1>1, <1>3 DEF Creating, LiveIds, Net
  <2>. QED  BY <1>1, <2>1 DEF Creating
<1>9. Deleting'
  <2>1. \A k \in NetKinds : Behind(k) \subseteq NetKinds  BY DEF Behind, NetKinds
  <2>2. Behind(ctl.kind)' = Behind(ctl.kind)  BY <1>1 DEF Behind
  <2>. QED  BY <1>1, <1>3, <2>1, <2>2 DEF Deleting
<1>. QED  BY <1>4, <1>5, <1>6, <1>7, <1>8, <1>9

\* The user resolves a pending entry whose create has left nothing.
LEMMA ResolveKeeps == ASSUME IInv, TypeOK', ResolvePending PROVE NetInv'
<1>. USE RunAssumption DEF IInv, NetInv, ec2, At
<1>1. /\ ctl.pc = "idle" /\ journal # NoRun /\ UNCHANGED <<cloud, mem, ctl>>
      /\ journal' = [journal EXCEPT !.pending[Region] = NoKind]
      /\ LiveIds(Net(journal.pending[Region])) = {}
  BY DEF ResolvePending
<1>2. /\ journal'.ids = journal.ids /\ journal'.pending[Region] = NoKind /\ journal' # NoRun
  <2>1. journal \in Journal  BY <1>1 DEF TypeOK
  <2>2. /\ journal'.ids = journal.ids /\ journal'.pending[Region] = NoKind
        /\ journal' \in Journal
    BY <1>1, <2>1 DEF Journal, Scopes
  <2>. QED  BY <2>2
<1>3. \A k \in NetKinds : LiveIds(Net(k))' = LiveIds(Net(k))
  BY <1>1 DEF LiveIds, Net
<1>4. GuestChosen' /\ RunSaved' /\ MemAccounted' /\ Creating' /\ Deleting'
  BY <1>1 DEF GuestChosen, RunSaved, MemAccounted, Creating, Deleting, Middle
<1>5. NetworkJournalled'
  BY <1>1, <1>2, <1>3 DEF NetworkJournalled
<1>6. OneNet'  BY <1>3 DEF OneNet
<1>7. IdsSeen'  BY <1>1, <1>2 DEF IdsSeen, Net
<1>. QED  BY <1>4, <1>5, <1>6, <1>7

\* IInv is inductive.
LEMMA NextIInv == IInv /\ [Next]_vars => IInv'
<1>. SUFFICES ASSUME IInv, [Next]_vars PROVE NetInv'
  BY NextTypes DEF IInv
<1>1. TypeOK'  BY NextTypes
<1>2. CASE Interrupted
  <2>1. NetSame  BY <1>2 DEF Interrupted, ec2, NetSame, Net
  <2>. QED  BY <1>2, <2>1, StopKeeps DEF Interrupted, files
<1>3. CASE DestroyNothing \/ UNCHANGED vars
  <2>1. UNCHANGED <<journal, mem, ctl, cloud>>
    BY <1>3 DEF DestroyNothing, vars, files, ec2
  <2>2. GuestChosen' /\ RunSaved'  BY <2>1 DEF IInv, NetInv, GuestChosen, RunSaved
  <2>3. MemAccounted' /\ NetworkJournalled' /\ OneNet' /\ IdsSeen'
    BY <2>1 DEF IInv, NetInv, MemAccounted, Accounted, NetworkJournalled, OneNet, IdsSeen, LiveIds, Net
  <2>4. Creating'  BY <2>1 DEF IInv, NetInv, Creating, LiveIds, Net
  <2>5. Deleting'  BY <2>1 DEF IInv, NetInv, Deleting, Behind, LiveIds, Net
  <2>. QED  BY <2>2, <2>3, <2>4, <2>5 DEF NetInv
<1>4. CASE \E t \in Things, i \in Ids : Appear(t, i)  BY <1>4, AppearKeeps
<1>5. CASE ResolvePending  BY <1>1, <1>5, ResolveKeeps
<1>6. CASE Create  BY <1>1, <1>6, NetworkKeeps
<1>7. CASE Destroy  BY <1>1, <1>7, TeardownKeeps
<1>8. CASE Work
  BY <1>1, <1>8, NetworkKeeps, NetworkCreateKeeps, LaunchKeeps, InterfaceKeeps, DestroyGuestKeeps,
     TeardownKeeps DEF Work
<1>. QED  BY <1>2, <1>3, <1>4, <1>5, <1>6, <1>7, <1>8 DEF Next

-------------------------------------------------------------------------------
(* Theorems                                                                *)

\* The invariant holds of every behaviour.
LEMMA Invariant == Spec => []IInv
<1>1. Init => IInv  BY InitIInv
<1>2. IInv /\ [Next]_vars => IInv'  BY NextIInv
<1>. QED  BY <1>1, <1>2, PTL DEF Spec

\* Journal, requests, the play's copy and what exists stay well-formed, whatever is
\* interrupted, lost or late.
THEOREM TypesKept == Spec => []TypeOK
<1>1. IInv => TypeOK  BY DEF IInv
<1>. QED  BY <1>1, Invariant, PTL

\* Every part of the shared network that exists has its id, or the intent to create
\* it, in the journal on disk: for any number of guests, interruptions, lost answers
\* and late appearances (_network_create.yml:5-26).
THEOREM NetworkIsJournalled == Spec => []NetworkJournalled
<1>1. IInv => NetworkJournalled  BY DEF IInv, NetInv
<1>. QED  BY <1>1, Invariant, PTL

\* No part of the shared network exists twice, however often creates are repeated
\* (aws_spec.py:781-845).
THEOREM NetworkOnce == Spec => []OneNet
<1>1. IInv => OneNet  BY DEF IInv, NetInv
<1>. QED  BY <1>1, Invariant, PTL

-------------------------------------------------------------------------------
(* The journal is a write-ahead record                                     *)

LEMMA PartsAre ==
  Parts = {p \in NetKinds \X Ids : Live(cloud[Net(p[1])][p[2]])}
BY DEF Parts, LiveIds, NetKinds

\* A step that changes what exists of the network makes or deletes one thing, under the
\* journal as it is saved.
OnePart(q) ==
  /\ UNCHANGED journal
  /\ \A k \in NetKinds, i \in Ids :
       <<k, i>> # q => (Live(cloud'[Net(k)][i]) <=> Live(cloud[Net(k)][i]))

LEMMA CreatesOne == ASSUME IInv, NetworkCreate PROVE NetSame \/ \E q \in NetKinds \X Ids : OnePart(q)
<1>. USE DEF IInv
<1>1. PICK k \in NetKinds : k = ctl.kind  BY DEF NetworkCreate, NetInv, Creating, At
<1>. DEFINE t == Net(k)
<1>2. t \in Things /\ \A j \in NetKinds : Net(j) \in Things /\ (j # k => Net(j) # t)
  BY <1>1 DEF Net, Things
<1>3. ASSUME NEW i \in Ids, NEW s, Put(t, i, s), UNCHANGED journal PROVE OnePart(<<k, i>>)
  <2>1. \A j \in NetKinds \ {k} : cloud'[Net(j)] = cloud[Net(j)]  BY <1>2, <1>3 DEF Put, TypeOK
  <2>2. \A x \in Ids \ {i} : cloud'[t][x] = cloud[t][x]  BY <1>2, <1>3 DEF Put, TypeOK
  <2>. QED BY <1>3, <2>1, <2>2 DEF OnePart
<1>4. \A i \in Ids : \A pc : Created(t, i, pc) \/ Lost(t, i) => \E s : Put(t, i, s) /\ UNCHANGED journal
  BY DEF Created, Lost, Remember
<1>5. RefusedCall(t) => NetSame  BY DEF RefusedCall, NetSame, Net
<1>6. (\E i \in Ids : Created(t, i, "n_record") \/ Lost(t, i)) \/ RefusedCall(t)
  BY <1>1 DEF NetworkCreate
<1>7. ASSUME NEW i \in Ids, Created(t, i, "n_record") \/ Lost(t, i)
      PROVE  \E q \in NetKinds \X Ids : OnePart(q)
  <2>1. OnePart(<<k, i>>)  BY <1>3, <1>4, <1>7
  <2>. QED BY <2>1
<1>. QED BY <1>5, <1>6, <1>7

LEMMA DeletesOne == ASSUME IInv, DeleteNetwork PROVE NetSame \/ \E q \in NetKinds \X Ids : OnePart(q)
<1>. USE DEF IInv
<1>1. PICK k \in NetKinds : k = ctl.kind  BY DEF DeleteNetwork, NetInv, Deleting, At
<1>2. Net(k) \in Things /\ \A j \in NetKinds : Net(j) \in Things /\ (j # k => Net(j) # Net(k))
  BY <1>1 DEF Net, Things
<1>3. 1 \in Ids  BY RunAssumption DEF Ids
<1>4. CASE Fails  BY <1>4 DEF Fails, ec2, NetSame, Net
<1>5. CASE cloud' = Delete(Net(k), ctl.target[k]) /\ UNCHANGED journal
  <2>1. \A j \in NetKinds \ {k} : cloud'[Net(j)] = cloud[Net(j)]
    BY <1>2, <1>5 DEF Delete, TypeOK
  <2>2. \A x \in Ids : cloud'[Net(k)][x] \in {cloud[Net(k)][x], "gone"}
    BY <1>2, <1>5 DEF Delete, TypeOK
  <2>3. \A x \in Ids : Live(cloud'[Net(k)][x]) => Live(cloud[Net(k)][x])  BY <2>2 DEF Live
  <2>4. \A x, y \in Ids : Live(cloud[Net(k)][x]) /\ Live(cloud[Net(k)][y]) => x = y
    BY <1>1 DEF NetInv, OneNet, LiveIds
  <2>5. PICK i \in Ids : \A x \in Ids \ {i} : ~Live(cloud[Net(k)][x])  BY <1>3, <2>4
  <2>6. OnePart(<<k, i>>)  BY <1>5, <2>1, <2>3, <2>5 DEF OnePart
  <2>. QED BY <2>6
<1>. QED BY <1>1, <1>4, <1>5 DEF DeleteNetwork, files

\* What shows up was there.
LEMMA AppearsNone ==
  ASSUME IInv, NEW t \in Things, NEW i \in Ids, Appear(t, i), NEW q
  PROVE  OnePart(q)
<1>1. cloud[t][i] = "hidden" /\ cloud' = [cloud EXCEPT ![t][i] = "up"] /\ UNCHANGED journal
  BY DEF Appear, Put, files
<1>2. \A k \in NetKinds, j \in Ids :
        \/ cloud'[Net(k)][j] = cloud[Net(k)][j]
        \/ cloud[Net(k)][j] = "hidden" /\ cloud'[Net(k)][j] = "up"
  BY <1>1 DEF IInv, TypeOK, Net, Things
<1>. QED BY <1>1, <1>2 DEF OnePart, Live

\* The steps on guests change nothing of the network.
LEMMA GuestsApart ==
  ASSUME IInv,
         \/ ImportKey \/ CreateGroup \/ RunInstances \/ EniCreate \/ EniAttach
         \/ Terminate \/ DeleteInterfaces \/ DeleteGroup \/ DeleteKey
  PROVE  NetSame
<1>. USE DEF IInv, At
<1>1. Guest \in Hosts
  BY DEF NetInv, GuestChosen, Middle, Guest, ImportKey, CreateGroup, RunInstances, EniCreate,
         EniAttach, Terminate, DeleteInterfaces, DeleteGroup, DeleteKey
<1>2. /\ \A j \in GuestKinds : \A i, s : Put(Mine(j), i, s) => NetSame
      /\ \A j \in GuestKinds : \A ids : cloud' = Delete(Mine(j), ids) => NetSame
  BY <1>1, GuestNetSame DEF Mine
<1>3. {"keypair", "group", "instance", "eni"} = GuestKinds  BY DEF GuestKinds
<1>4. UNCHANGED cloud => NetSame  BY DEF NetSame, Net
<1>5. \A j \in GuestKinds : \A i, pc : Created(Mine(j), i, pc) \/ Lost(Mine(j), i) => NetSame
  BY <1>2 DEF Created, Lost
<1>6. \A j \in GuestKinds : RefusedCall(Mine(j)) => NetSame  BY <1>4 DEF RefusedCall
<1>7. CASE ImportKey  BY <1>2, <1>3, <1>7 DEF ImportKey
<1>8. CASE CreateGroup  BY <1>3, <1>4, <1>5, <1>6, <1>8 DEF CreateGroup
<1>9. CASE RunInstances  BY <1>3, <1>5, <1>6, <1>9 DEF RunInstances
<1>10. CASE EniCreate  BY <1>3, <1>4, <1>5, <1>6, <1>10 DEF EniCreate
<1>11. CASE EniAttach  BY <1>2, <1>3, <1>11 DEF EniAttach
<1>12. CASE Terminate
  <2>1. \A k \in NetKinds : Net(k) \in Things /\ Net(k) # Mine("instance") /\ Net(k) # Mine("eni")
    BY DEF Net, Things, Mine, NetKinds
  <2>. QED BY <1>12, <2>1 DEF Terminate, NetSame, TypeOK
<1>13. CASE DeleteInterfaces  BY <1>2, <1>3, <1>4, <1>13 DEF DeleteInterfaces, Fails, ec2
<1>14. CASE DeleteGroup  BY <1>2, <1>3, <1>4, <1>14 DEF DeleteGroup, Fails, ec2
<1>15. CASE DeleteKey  BY <1>2, <1>3, <1>15 DEF DeleteKey
<1>. QED BY <1>7, <1>8, <1>9, <1>10, <1>11, <1>12, <1>13, <1>14, <1>15

\* The rest leaves the cloud alone.
LEMMA OneAtATime == ASSUME IInv, [Next]_vars PROVE NetSame \/ \E q \in NetKinds \X Ids : OnePart(q)
<1>. USE DEF files, ec2, Fails, Check
<1>1. UNCHANGED cloud => NetSame  BY DEF NetSame, Net
<1>2. CASE \E t \in Things, i \in Ids : Appear(t, i)
  <2>1. 1 \in Ids /\ "vpc" \in NetKinds  BY RunAssumption DEF Ids, NetKinds
  <2>2. OnePart(<<"vpc", 1>>)  BY <1>2, AppearsNone
  <2>. QED BY <2>1, <2>2
<1>3. CASE Create \/ Destroy \/ DestroyNothing \/ Interrupted \/ ResolvePending \/ UNCHANGED vars
  BY <1>1, <1>3 DEF Create, Destroy, DestroyNothing, Interrupted, ResolvePending, vars
<1>4. CASE \/ SaveInitial \/ NetworkInfo \/ (\E k \in NetKinds : NetworkMark(k))
           \/ NetworkRecord \/ NetworkDone \/ NextHost \/ RecordKey \/ SaveGuest \/ SaveRequest
           \/ PublishRequest \/ ReplayInstances \/ LaunchFails \/ AcceptLaunch \/ WaitRunning
           \/ EniInfo \/ EniRecord \/ SaveDescendants \/ DestroyGuest \/ NetworkCleanup
           \/ RemoveRequests \/ RemoveJournal
  BY <1>1, <1>4
  DEF SaveInitial, NetworkInfo, NetworkMark, NetworkRecord, NetworkDone, NextHost, RecordKey,
      SaveGuest, SaveRequest, PublishRequest, ReplayInstances, LaunchFails, AcceptLaunch,
      WaitRunning, EniInfo, EniRecord, SaveDescendants, DestroyGuest, NetworkCleanup,
      RemoveRequests, RemoveJournal
<1>. QED BY <1>2, <1>3, <1>4, CreatesOne, DeletesOne, GuestsApart DEF Next, Work

LEMMA InitNetLedger == Init => NetLedger!Init
<1>. SUFFICES ASSUME Init PROVE NetLedger!Init  OBVIOUS
<1>1. \A k \in NetKinds : LiveIds(Net(k)) = {}
  BY DEF Init, Net, Things, LiveIds, Live
<1>2. Journalled = {}  BY DEF Init, Journalled
<1>3. Parts = {}  BY <1>1 DEF Parts
<1>. QED BY <1>2, <1>3 DEF NetLedger!Init, Parts

LEMMA StepNetLedger ==
  ASSUME IInv, IInv', [Next]_vars
  PROVE  [NetLedger!Next]_<<Journalled, Parts>>
<1>1. Journalled' \in SUBSET (NetKinds \X Ids)  BY DEF Journalled
<1>2. Parts \subseteq Journalled
  BY DEF Parts, Journalled, IInv, NetInv, NetworkJournalled
<1>3. Parts' \subseteq Journalled'
  BY DEF Parts, Journalled, IInv, NetInv, NetworkJournalled, Net
<1>4. CASE Parts' = Parts
  BY <1>1, <1>3, <1>4 DEF NetLedger!Next, NetLedger!Rewrite, Parts
<1>5. CASE Parts' # Parts
  <2>1. ~NetSame  BY <1>5, LiveSame DEF Parts
  <2>2. PICK q \in NetKinds \X Ids : OnePart(q)  BY <2>1, OneAtATime
  <2>3. Journalled' = Journalled  BY <2>2 DEF OnePart, Journalled, Net
  <2>4. Parts = {p \in NetKinds \X Ids : Live(cloud[Net(p[1])][p[2]])}  BY PartsAre
  <2>5. Parts' = {p \in NetKinds \X Ids : Live(cloud'[Net(p[1])][p[2]])}
    BY DEF Parts, LiveIds, Net
  <2>6. \A p \in (NetKinds \X Ids) \ {q} : p \in Parts' <=> p \in Parts
    BY <2>2, <2>4, <2>5 DEF OnePart
  <2>7. Parts \subseteq NetKinds \X Ids /\ Parts' \subseteq NetKinds \X Ids  BY DEF Parts
  <2>8. CASE q \in Parts'
    <3>1. Parts' = Parts \cup {q}  BY <2>6, <2>7, <2>8
    <3>2. q \in Journalled  BY <1>3, <2>3, <2>8
    <3>. QED BY <2>3, <3>1, <3>2 DEF NetLedger!Next, NetLedger!Make, Parts
  <2>9. CASE q \notin Parts'
    <3>1. Parts' = Parts \ {q}  BY <2>6, <2>7, <2>9
    <3>2. q \in Parts  BY <1>5, <3>1
    <3>. QED BY <2>3, <3>1, <3>2 DEF NetLedger!Next, NetLedger!Lose, Parts
  <2>. QED BY <2>8, <2>9
<1>. QED BY <1>4, <1>5

\* The journal implements WriteAhead for the shared network: nothing is created before
\* the saved journal accounts for it, one thing at a time, and no save loses what is
\* there (_network_create.yml:5-26).
THEOREM NetworkIsAccounted == Spec => NetworkAccounted
<1>1. IInv /\ IInv' /\ [Next]_vars => [NetLedger!Next]_<<Journalled, Parts>>  BY StepNetLedger
<1>. QED BY <1>1, InitNetLedger, Invariant, PTL DEF Spec, NetworkAccounted, NetLedger!Spec, Parts

===============================================================================

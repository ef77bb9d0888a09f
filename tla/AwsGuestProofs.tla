----------------------------- MODULE AwsGuestProofs -----------------------------
(***************************************************************************)
(* Proofs about the guests of an AWS run: the journal is there as long as  *)
(* anything of the run is, it forgets no id, nothing exists twice, and no  *)
(* instance exists without the request that replays it; for any number of  *)
(* guests, interruptions, lost answers and late appearances.               *)
(*                                                                         *)
(* What exists hangs together: an instance and an interface keep their     *)
(* group from being deleted, and a group its VPC, which the journal has    *)
(* (module AwsRunProofs).  Key pairs hang on nothing; their id is in the   *)
(* journal before they are imported.                                       *)
(***************************************************************************)
EXTENDS AwsRunProofs, FiniteSetTheorems

-------------------------------------------------------------------------------
(* The invariant                                                           *)

State(h, k, i) == cloud[<<h, k>>][i]
There(h, k) == \E i \in Ids : Live(State(h, k, i))
VpcThere == LiveIds(Net("vpc")) # {}
\* The instance of h, if one was ever started, has been terminated.
Terminated(h) == \A i \in token[h] : State(h, "instance", i) = "gone"
\* An interface of h was made.
Interfaced(h) == \E i \in Ids : State(h, "eni", i) # "none"

\* PCs of create once the network is there; once the guest has been launched;
\* and once it has been seen.
GuestPCs == {"h_next", "h_key", "h_import", "h_group", "h_save", "h_request", "h_publish",
             "h_run", "h_accept", "h_wait", "e_info", "e_create", "e_record", "e_attach",
             "h_descend"}
RunningPCs == {"e_info", "e_create", "e_record", "e_attach", "h_descend"}
LaunchedPCs == {"h_accept", "h_wait"} \cup RunningPCs

\* A record of the run knows the guests' things.
Knows(record, h) ==
  /\ record.ids[<<h, "keypair">>] \subseteq {1}
  /\ State(h, "keypair", 1) = "up" => 1 \in record.ids[<<h, "keypair">>]
  /\ \A i \in record.ids[<<h, "eni">>] : State(h, "eni", i) # "none"
  /\ \A i \in Ids : State(h, "eni", i) = "hidden" => record.pending[h] = "eni"
  /\ Interfaced(h) => token[h] \subseteq record.ids[<<h, "instance">>]

\* The journal and the play's copy of it do, and the copy has all the journal has.
Records ==
  /\ journal # NoRun => \A h \in Hosts : Knows(journal, h)
  /\ ctl.pc # "idle" => \A h \in Hosts : Knows(mem, h)
  /\ ctl.pc # "idle" /\ journal # NoRun =>
       \A t \in Things : journal.ids[t] \subseteq mem.ids[t]

\* Nothing was made before the run was born.
Birth ==
  ~born => /\ ctl.pc = "idle" /\ journal = NoRun
           /\ \A t \in Things, i \in Ids : cloud[t][i] = "none"

\* Everything but key pairs hangs on the VPC.
Hangs ==
  \A h \in Hosts :
    /\ There(h, "instance") \/ There(h, "eni") => There(h, "group")
    /\ There(h, "group") => VpcThere

\* A key pair has one id, shows up when it is imported, and has a journal.
Keys ==
  \A h \in Hosts :
    /\ \A i \in Ids : State(h, "keypair", i) # "none" =>
         i = 1 /\ State(h, "keypair", i) \in {"up", "gone"}
    /\ State(h, "keypair", 1) = "up" => journal # NoRun

\* One thing of each name.
Single ==
  \A h \in Hosts :
    /\ \A k \in {"group", "eni"}, i, j \in Ids :
         Live(State(h, k, i)) /\ Live(State(h, k, j)) => i = j
    /\ \A i, j \in token[h] : i = j
    /\ \A i \in Ids : i \in token[h] <=> State(h, "instance", i) # "none"

\* Interfaces come after their instance and go when it is gone.
Interfaces ==
  \A h \in Hosts :
    /\ Interfaced(h) =>
         token[h] # {} /\ \A i \in token[h] : State(h, "instance", i) # "hidden"
    /\ (\E i \in Ids : State(h, "eni", i) = "gone") => Terminated(h)

\* The request is there before the instance.
Saved == \A h \in Hosts : There(h, "instance") => requests[h] = "saved"
Replayable ==
  /\ Saved
  /\ \A h \in Hosts : ctl.pc = "h_run" /\ ctl.host = h => requests[h] = "saved"

\* Where create is, with guest h.
BuildingAt(h) ==
  /\ ctl.pc = "h_import" =>
       1 \in mem.ids[<<h, "keypair">>] /\ 1 \in journal.ids[<<h, "keypair">>]
  /\ ctl.pc \in LaunchedPCs =>
       /\ token[h] # {} /\ \A i \in token[h] : Live(State(h, "instance", i))
       /\ token[h] \subseteq mem.ids[<<h, "instance">>]
  /\ ctl.pc \in LaunchedPCs \ {"h_accept"} => token[h] \subseteq journal.ids[<<h, "instance">>]
  /\ ctl.pc \in RunningPCs => \A i \in token[h] : State(h, "instance", i) # "hidden"
  /\ ctl.pc = "e_create" =>
       /\ journal.pending[h] = "eni"
       /\ \A i \in ctl.target["eni"] : State(h, "eni", i) \in {"up", "attached"}
       /\ ctl.target["eni"] = {} => ~There(h, "eni")
  /\ ctl.pc = "h_descend" => \E i \in Ids : State(h, "eni", i) = "attached"
Building ==
  /\ ctl.pc \in {"n_next", "n_create", "n_record"} /\ mem.ids[Net("vpc")] # {} => VpcThere
  /\ ctl.pc \in GuestPCs => VpcThere
  /\ \A h \in Hosts : ctl.host = h => BuildingAt(h)

\* Where destroy is.
RazingAt(h) ==
  /\ ctl.pc = "d_term" => \A i \in ctl.target["instance"] : State(h, "instance", i) # "none"
  /\ ctl.pc = "d_term" /\ Interfaced(h) =>
       \A i \in token[h] : State(h, "instance", i) = "gone" \/ i \in ctl.target["instance"]
  /\ ctl.pc = "d_eni" /\ Interfaced(h) => Terminated(h)
Razing ==
  /\ ctl.pc \in DestroyPCs => \A h \in Hosts \ ctl.todo : State(h, "keypair", 1) # "up"
  /\ ctl.pc \in {"d_net", "d_requests", "d_journal"} => ctl.todo = {}
  /\ \A h \in Hosts : ctl.host = h => RazingAt(h)

GInv ==
  /\ Records /\ Birth /\ Hangs /\ Keys /\ Single /\ Interfaces /\ Replayable
  /\ Building /\ Razing

-------------------------------------------------------------------------------
(* What a step leaves alone                                                *)

LEMMA GuestThing ==
  /\ \A h \in Hosts, k \in GuestKinds : <<h, k>> \in Things
  /\ \A k \in NetKinds : Net(k) \in Things /\ k \in Kinds
  /\ \A h \in Hosts, j \in GuestKinds, k \in NetKinds : <<h, j>> # Net(k)
  /\ {"keypair", "group", "instance", "eni"} \subseteq GuestKinds /\ GuestKinds \subseteq Kinds
  /\ "vpc" \in NetKinds
  /\ 1 \in Ids
BY RunAssumption DEF Things, GuestKinds, NetKinds, Net, Kinds, Ids

LEMMA InitGInv == Init => GInv
<1>. SUFFICES ASSUME Init PROVE GInv  OBVIOUS
<1>1. \A t \in Things, i \in Ids : cloud[t][i] = "none"  BY DEF Init
<1>2. \A h \in Hosts : /\ \A k \in GuestKinds : ~There(h, k)
                       /\ \A i \in Ids, k \in GuestKinds : State(h, k, i) = "none"
                       /\ token[h] = {} /\ ~Interfaced(h)
  BY <1>1, GuestThing DEF Init, There, Live, State, Interfaced
<1>3. ctl.pc = "idle" /\ journal = NoRun  BY DEF Init, Idle
<1>4. Records /\ Birth  BY <1>1, <1>3 DEF Records, Birth
<1>5. Hangs /\ Keys /\ Single /\ Interfaces /\ Saved
  BY <1>2, GuestThing DEF Hangs, Keys, Single, Interfaces, Saved, State, Live
<1>6. Replayable /\ Building /\ Razing
  BY <1>3, <1>5 DEF Replayable, Building, BuildingAt, Razing, RazingAt, GuestPCs, LaunchedPCs, RunningPCs, DestroyPCs
<1>. QED  BY <1>4, <1>5, <1>6 DEF GInv

\* What exists and what the records know of it, wherever the play is.
Standing == Records /\ Birth /\ Hangs /\ Keys /\ Single /\ Interfaces /\ Saved

\* Where nothing is made or deleted, what is said of it stays.
LEMMA CloudSame ==
  ASSUME UNCHANGED <<cloud, token>>
  PROVE  /\ \A h, k, i : State(h, k, i)' = State(h, k, i)
         /\ \A h, k : There(h, k)' = There(h, k) /\ LiveIds(<<h, k>>)' = LiveIds(<<h, k>>)
         /\ VpcThere' = VpcThere
         /\ \A h : Terminated(h)' = Terminated(h) /\ Interfaced(h)' = Interfaced(h)
<1>1. \A h, k, i : State(h, k, i)' = State(h, k, i)  BY DEF State
<1>2. \A t : LiveIds(t)' = LiveIds(t)  BY DEF LiveIds
<1>. QED  BY <1>1, <1>2 DEF There, VpcThere, Terminated, Interfaced, Net

LEMMA KnowsSame ==
  ASSUME UNCHANGED <<cloud, token>>, NEW h
  PROVE  /\ Knows(mem, h)' = Knows(mem', h) /\ Knows(journal, h)' = Knows(journal', h)
BY CloudSame DEF Knows, State

\* A play saves or remembers more than it knew.
LEMMA RecordStep ==
  ASSUME IInv, GInv, UNCHANGED <<cloud, token, born>>,
         \A h \in Hosts : requests[h] = "saved" => requests'[h] = "saved",
         ctl.pc # "idle", mem' \in Journal, journal' \in {journal, mem'},
         \A h \in Hosts : Knows(mem', h),
         \A t \in Things : mem.ids[t] \subseteq mem'.ids[t]
  PROVE  Standing'
<1>. USE CloudSame, RunAssumption DEF GInv
<1>1. journal' = NoRun => journal = NoRun  OBVIOUS
<1>2. Records'
  <2>1. \A h \in Hosts : Knows(mem, h)'  BY KnowsSame
  <2>2. journal' # NoRun => \A h \in Hosts : Knows(journal, h)'  BY KnowsSame DEF Records
  <2>3. journal' # NoRun => \A t \in Things : journal'.ids[t] \subseteq mem'.ids[t]
    BY DEF Records
  <2>. QED  BY <2>1, <2>2, <2>3 DEF Records
<1>3. Birth'  BY DEF Birth
<1>4. Hangs'  BY DEF Hangs, There
<1>5. Keys'  BY <1>1 DEF Keys
<1>6. Single'  BY DEF Single
<1>7. Interfaces'  BY DEF Interfaces
<1>8. Saved'  BY DEF Replayable, Saved
<1>. QED  BY <1>2, <1>3, <1>4, <1>5, <1>6, <1>7, <1>8 DEF Standing

\* It may stop anywhere.
LEMMA StopStands ==
  ASSUME GInv, Stop, UNCHANGED <<journal, requests, cloud, token, born>>
  PROVE  GInv'
<1>. USE CloudSame DEF GInv
<1>1. ctl'.pc = "idle"  BY DEF Stop, Idle
<1>2. Records'  BY <1>1, KnowsSame DEF Records
<1>3. Birth' /\ Keys' /\ Single' /\ Interfaces'
  BY <1>1 DEF Birth, Keys, Single, Interfaces
<1>a. Hangs'  BY DEF Hangs, There
<1>4. Replayable'  BY <1>1 DEF Replayable, Saved
<1>5. Building' /\ Razing'
  BY <1>1 DEF Building, BuildingAt, Razing, RazingAt, GuestPCs, LaunchedPCs, RunningPCs, DestroyPCs
<1>. QED  BY <1>2, <1>3, <1>a, <1>4, <1>5

\* Goto moves nothing else.
LEMMA MovedOn ==
  ASSUME TypeOK, NEW q, Goto(q)
  PROVE  /\ ctl'.pc = q /\ ctl'.host = ctl.host /\ ctl'.todo = ctl.todo
         /\ ctl'.target = ctl.target
BY DEF Goto, TypeOK, Control

\* A step that leaves all records as they are, or saves the play's copy.
LEMMA PlainStep ==
  ASSUME IInv, GInv, UNCHANGED <<cloud, token, born, mem>>,
         \A h \in Hosts : requests[h] = "saved" => requests'[h] = "saved",
         ctl.pc # "idle", journal' \in {journal, mem}
  PROVE  Standing'
<1>1. mem' \in Journal /\ \A h \in Hosts : Knows(mem', h)
  BY DEF IInv, TypeOK, GInv, Records
<1>. QED  BY <1>1, RecordStep

\* Each step on the network that creates nothing.
LEMMA NetworkStep ==
  ASSUME IInv, GInv,
         \/ Create \/ SaveInitial \/ NetworkInfo \/ (\E k \in NetKinds : NetworkMark(k))
         \/ NetworkRecord \/ NetworkDone
  PROVE  GInv'
<1>. USE RunAssumption, CloudSame DEF IInv, GInv, files, ec2, At
<1>1. CASE Fails  BY <1>1, StopStands DEF Fails
<1>2. UNCHANGED <<cloud, token, requests>>
  BY DEF Create, SaveInitial, NetworkInfo, Fails, NetworkMark, NetworkRecord, NetworkDone
<1>3. ASSUME ~Create, ~Fails PROVE UNCHANGED born /\ ctl.pc # "idle"
  BY <1>3 DEF SaveInitial, NetworkInfo, NetworkMark, NetworkRecord, NetworkDone
<1>4. ASSUME Standing', ctl'.pc \in {"init", "n_info", "n_next", "n_create", "n_record", "h_next"},
             ctl'.pc \notin {"init", "n_info"} /\ mem'.ids[Net("vpc")] # {} => VpcThere,
             ctl'.pc = "h_next" => VpcThere
      PROVE  GInv'
  <2>1. Replayable'  BY <1>4 DEF Standing, Replayable
  <2>2. Building'  BY <1>2, <1>4 DEF Building, BuildingAt, GuestPCs, LaunchedPCs, RunningPCs
  <2>3. Razing'  BY <1>4 DEF Razing, RazingAt, DestroyPCs
  <2>. QED  BY <1>4, <2>1, <2>2, <2>3 DEF Standing
<1>5. CASE Create
  <2>1. ctl'.pc = "init" /\ journal' = journal /\ born' = TRUE  BY <1>5 DEF Create, Idle, Birth
  <2>2. \A h \in Hosts : Knows(mem', h)
    <3>1. CASE journal # NoRun /\ mem' = journal  BY <3>1 DEF Records
    <3>2. CASE ~born /\ mem' = NewRun
      <4>1. \A h \in Hosts, i \in Ids : State(h, "keypair", i) = "none" /\ State(h, "eni", i) = "none"
        BY <3>2, GuestThing DEF Birth, State
      <4>2. \A h \in Hosts : mem'.ids[<<h, "keypair">>] = {} /\ mem'.ids[<<h, "eni">>] = {}
        BY <3>2, GuestThing DEF NewRun
      <4>. QED  BY <4>1, <4>2, GuestThing DEF Knows, Interfaced
    <3>. QED  BY <1>5, <3>1, <3>2 DEF Create
  <2>3. journal # NoRun => mem' = journal  BY <1>5 DEF Create, Birth
  <2>4. Records'  BY <1>2, <2>1, <2>2, <2>3, KnowsSame DEF Records
  <2>5. Birth' /\ Keys' /\ Single' /\ Interfaces'
    BY <1>2, <2>1 DEF Birth, Keys, Single, Interfaces
  <2>6. Hangs' /\ Saved'
    BY <1>2 DEF Hangs, There, Replayable, Saved
  <2>. QED  BY <1>4, <2>1, <2>4, <2>5, <2>6 DEF Standing
<1>6. CASE SaveInitial
  <2>1. ctl'.pc = "n_info" /\ mem' = mem /\ journal' = mem
    BY <1>6, MovedOn DEF SaveInitial, Save
  <2>2. ctl.pc # "idle" /\ born' = born  BY <1>6 DEF SaveInitial
  <2>. QED  BY <1>2, <1>4, <2>1, <2>2, PlainStep
<1>7. CASE NetworkInfo /\ ~Fails
  <2>1. /\ ~Refuses(FALSE) /\ mem' = Reconciled /\ journal' = journal /\ ctl'.pc = "n_next"
        /\ ctl.pc = "n_info" /\ born' = born
    BY <1>7, MovedOn DEF NetworkInfo, Remember
  <2>2. /\ \A t \in Things : mem'.ids[t] = IF t[1] = Region THEN mem.ids[t] \cup Found(t) ELSE mem.ids[t]
        /\ \A h \in Hosts : mem'.pending[h] = mem.pending[h]
    BY <2>1 DEF Reconciled, TypeOK, Journal, Scopes
  <2>3. \A h \in Hosts : Knows(mem', h)
    <3>1. \A h \in Hosts, k \in GuestKinds : mem'.ids[<<h, k>>] = mem.ids[<<h, k>>]
      BY <2>2, GuestThing
    <3>2. \A h \in Hosts : /\ mem'.ids[<<h, "keypair">>] = mem.ids[<<h, "keypair">>]
                           /\ mem'.ids[<<h, "eni">>] = mem.ids[<<h, "eni">>]
                           /\ mem'.ids[<<h, "instance">>] = mem.ids[<<h, "instance">>]
      BY <3>1, GuestThing
    <3>3. \A h \in Hosts : Knows(mem, h)  BY <2>1 DEF Records
    <3>. QED  BY <2>2, <3>2, <3>3 DEF Knows
  <2>4. mem'.ids[Net("vpc")] # {} => VpcThere
    <3>1. ~Disappeared("vpc")  BY <2>1, GuestThing DEF Refuses, Lacking
    <3>2. mem'.ids[Net("vpc")] = mem.ids[Net("vpc")] \cup Found(Net("vpc"))
      BY <2>2, GuestThing DEF Net
    <3>3. Found(Net("vpc")) \subseteq LiveIds(Net("vpc"))
      BY DEF Found, Seen, LiveIds, Live
    <3>. QED  BY <3>1, <3>2, <3>3 DEF Disappeared, VpcThere
  <2>5. mem' \in Journal  BY <1>7, NetworkTypes DEF TypeOK
  <2>6. Standing'  BY <1>2, <2>1, <2>2, <2>3, <2>5, RecordStep
  <2>. QED  BY <1>4, <2>1, <2>4, <2>6
<1>8. CASE \E k \in NetKinds : NetworkMark(k)
  <2>1. PICK k \in NetKinds : NetworkMark(k)  BY <1>8
  <2>2. mem' = Pending(Region, k) /\ journal' = mem' /\ ctl'.pc = "n_create" /\ ctl.pc = "n_next"
        /\ born' = born
    BY <2>1 DEF NetworkMark, Save, TypeOK, Control
  <2>3. mem'.ids = mem.ids /\ \A h \in Hosts : mem'.pending[h] = mem.pending[h]
    BY <2>2 DEF Pending, TypeOK, Journal
  <2>4. \A h \in Hosts : Knows(mem', h)  BY <2>2, <2>3 DEF Records, Knows
  <2>5. mem' \in Journal  BY <1>8, NetworkTypes DEF TypeOK
  <2>6. Standing'  BY <1>2, <2>2, <2>3, <2>4, <2>5, RecordStep
  <2>. QED  BY <1>4, <2>2, <2>3, <2>6 DEF Building
<1>9. CASE NetworkRecord
  <2>1. /\ ctl'.pc = "n_next" /\ mem' = mem /\ journal' = mem /\ born' = born
        /\ ctl.pc = "n_record"
    BY <1>9, MovedOn DEF NetworkRecord, Save
  <2>2. Standing'  BY <1>2, <2>1, PlainStep
  <2>. QED  BY <1>4, <2>1, <2>2 DEF Building
<1>10. CASE NetworkDone
  <2>1. /\ ctl'.pc = "h_next" /\ mem' = mem /\ journal' = mem /\ born' = born
        /\ ctl.pc = "n_next" /\ mem.ids[Net("vpc")] # {}
    BY <1>10, MovedOn, GuestThing DEF NetworkDone, Save, Missing
  <2>2. Standing'  BY <1>2, <2>1, PlainStep
  <2>. QED  BY <1>4, <2>1, <2>2 DEF Building
<1>. QED  BY <1>1, <1>5, <1>6, <1>7, <1>8, <1>9, <1>10 DEF NetworkInfo

-------------------------------------------------------------------------------
(* What is made and deleted                                                *)

\* What a host has is known by the states alone.
LEMMA ThereIs ==
  \A h, k : /\ There(h, k) <=> LiveIds(<<h, k>>) # {}
            /\ \A i : i \in LiveIds(<<h, k>>) <=> i \in Ids /\ Live(State(h, k, i))
BY DEF There, LiveIds, State

LEMMA IdleStands == ASSUME Standing', ctl'.pc = "idle" PROVE GInv'
<1>1. Replayable'  BY DEF Standing, Replayable
<1>2. Building' /\ Razing'
  BY DEF Building, BuildingAt, Razing, RazingAt, GuestPCs, LaunchedPCs, RunningPCs, DestroyPCs
<1>. QED  BY <1>1, <1>2 DEF Standing, GInv

\* A play that fails.
LEMMA FailStands == ASSUME GInv, Fails PROVE GInv'
BY StopStands DEF Fails, files, ec2

\* A step that touches the network alone.
GuestsSame == \A h \in Hosts, k \in GuestKinds : cloud'[<<h, k>>] = cloud[<<h, k>>]
LEMMA GuestsStay ==
  ASSUME GuestsSame, UNCHANGED token
  PROVE  \A h \in Hosts :
           /\ \A k \in GuestKinds : /\ \A i : State(h, k, i)' = State(h, k, i)
                                    /\ There(h, k)' = There(h, k)
                                    /\ LiveIds(<<h, k>>)' = LiveIds(<<h, k>>)
           /\ Terminated(h)' = Terminated(h) /\ Interfaced(h)' = Interfaced(h)
<1>1. \A h \in Hosts, k \in GuestKinds : /\ \A i : State(h, k, i)' = State(h, k, i)
                                         /\ LiveIds(<<h, k>>)' = LiveIds(<<h, k>>)
  BY DEF GuestsSame, State, LiveIds
<1>2. \A h \in Hosts, k \in GuestKinds : There(h, k)' = There(h, k)  BY <1>1 DEF There
<1>3. \A h \in Hosts : \A i :
        /\ State(h, "eni", i)' = State(h, "eni", i)
        /\ State(h, "instance", i)' = State(h, "instance", i)
  BY <1>1, GuestThing
<1>4. \A h \in Hosts : Terminated(h)' = Terminated(h) /\ Interfaced(h)' = Interfaced(h)
  BY <1>3 DEF Terminated, Interfaced
<1>. QED  BY <1>1, <1>2, <1>4

LEMMA OutsideStep ==
  ASSUME GInv, GuestsSame, UNCHANGED <<token, born, requests, journal>>, ctl.pc # "idle",
         \A h \in Hosts : There(h, "group") => VpcThere',
         \A h \in Hosts : Knows(mem', h),
         \A t \in Things : mem.ids[t] \subseteq mem'.ids[t]
  PROVE  Standing'
<1>. USE DEF GInv
<1>1. \A h \in Hosts : \A i :
        /\ State(h, "keypair", i)' = State(h, "keypair", i)
        /\ State(h, "group", i)' = State(h, "group", i)
        /\ State(h, "instance", i)' = State(h, "instance", i)
        /\ State(h, "eni", i)' = State(h, "eni", i)
  BY GuestsStay, GuestThing
<1>a. \A h \in Hosts : /\ There(h, "group")' = There(h, "group")
                       /\ There(h, "instance")' = There(h, "instance")
                       /\ There(h, "eni")' = There(h, "eni")
                       /\ LiveIds(<<h, "instance">>)' = LiveIds(<<h, "instance">>)
  BY GuestsStay, GuestThing
<1>2. \A h \in Hosts : Terminated(h)' = Terminated(h) /\ Interfaced(h)' = Interfaced(h)
  BY GuestsStay
<1>3. Records'
  <2>1. \A h \in Hosts : Knows(mem, h)'  BY <1>1, <1>2 DEF Knows
  <2>2. ASSUME journal # NoRun PROVE \A h \in Hosts : Knows(journal, h)'
    <3>1. \A h \in Hosts : Knows(journal, h)  BY <2>2 DEF Records
    <3>. QED  BY <1>1, <1>2, <3>1 DEF Knows
  <2>. QED  BY <2>1, <2>2 DEF Records
<1>4. Birth'  BY DEF Birth
<1>5. Hangs'  BY <1>a DEF Hangs
<1>6. Keys'  BY <1>1 DEF Keys
<1>7. Single'  BY <1>1 DEF Single
<1>8. Interfaces'  BY <1>1, <1>2 DEF Interfaces
<1>9. Saved'  BY <1>a DEF Replayable, Saved
<1>. QED  BY <1>3, <1>4, <1>5, <1>6, <1>7, <1>8, <1>9 DEF Standing

\* The network's create call.
LEMMA NetworkCreateStep == ASSUME IInv, TypeOK', GInv, NetworkCreate PROVE GInv'
<1>. USE DEF IInv, GInv, At
<1>1. PICK k \in NetKinds : k = ctl.kind  BY DEF NetworkCreate, NetInv, Creating
<1>2. ctl.pc = "n_create" /\ UNCHANGED <<requests, token, born>>  BY DEF NetworkCreate
<1>3. ASSUME NEW i \in Ids, NEW s \in {"up", "hidden"}, Put(Net(k), i, s), i \in Unused(Net(k))
      PROVE  GuestsSame /\ (VpcThere => VpcThere') /\ (k = "vpc" => VpcThere')
  <2>1. GuestsSame  BY <1>3, GuestThing DEF GuestsSame, Put, TypeOK
  <2>2. \A j \in NetKinds : \A x \in Ids : Live(cloud[Net(j)][x]) => Live(cloud'[Net(j)][x])
    BY <1>3, GuestThing DEF Put, TypeOK, Live
  <2>3. Live(cloud'[Net(k)][i])  BY <1>3, GuestThing DEF Put, TypeOK, Live
  <2>4. LiveIds(Net("vpc"))' = {x \in Ids : Live(cloud'[Net("vpc")][x])}  BY DEF LiveIds, Net
  <2>. QED  BY <1>3, <2>1, <2>2, <2>3, <2>4, GuestThing DEF VpcThere, LiveIds
<1>4. \A h \in Hosts : There(h, "group") => VpcThere  BY DEF Hangs
<1>5. ASSUME NEW i \in Ids, Created(Net(k), i, "n_record") PROVE GInv'
  <2>1. /\ ctl'.pc = "n_record" /\ mem' = Recorded(Net(k), {i}) /\ journal' = journal
        /\ ctl'.host = ctl.host
    BY <1>5, MovedOn DEF Created, Remember
  <2>2. GuestsSame /\ (VpcThere => VpcThere') /\ (k = "vpc" => VpcThere')
    BY <1>3, <1>5 DEF Created
  <2>3. /\ \A t \in Things : mem'.ids[t] = IF t = Net(k) THEN mem.ids[t] \cup {i} ELSE mem.ids[t]
        /\ \A h \in Hosts : mem'.pending[h] = mem.pending[h]
    BY <2>1, GuestThing, RunAssumption DEF Recorded, TypeOK, Journal, Scopes, Net
  <2>4. \A h \in Hosts : /\ mem'.ids[<<h, "keypair">>] = mem.ids[<<h, "keypair">>]
                         /\ mem'.ids[<<h, "eni">>] = mem.ids[<<h, "eni">>]
                         /\ mem'.ids[<<h, "instance">>] = mem.ids[<<h, "instance">>]
    BY <2>3, GuestThing
  <2>5. \A h \in Hosts : Knows(mem', h)
    <3>1. \A h \in Hosts : Knows(mem, h)  BY <1>2 DEF Records
    <3>. QED  BY <2>3, <2>4, <3>1 DEF Knows
  <2>6. Standing'  BY <1>2, <1>4, <2>1, <2>2, <2>3, <2>5, OutsideStep
  <2>7. mem'.ids[Net("vpc")] # {} => VpcThere'
    <3>1. CASE k = "vpc"  BY <2>2, <3>1
    <3>2. CASE k # "vpc"
      <4>1. mem'.ids[Net("vpc")] = mem.ids[Net("vpc")]  BY <2>3, <3>2, GuestThing DEF Net
      <4>. QED  BY <1>2, <2>2, <4>1 DEF Building
    <3>. QED  BY <3>1, <3>2
  <2>8. Building'
    BY <2>1, <2>7 DEF Building, BuildingAt, GuestPCs, LaunchedPCs, RunningPCs, Net
  <2>9. Replayable' /\ Razing'
    BY <2>1, <2>6 DEF Standing, Replayable, Razing, RazingAt, DestroyPCs
  <2>. QED  BY <2>6, <2>8, <2>9 DEF Standing
<1>6. ASSUME NEW i \in Ids, Lost(Net(k), i) PROVE GInv'
  <2>1. UNCHANGED <<journal, mem>> /\ ctl'.pc = "idle"  BY <1>6 DEF Lost, Stop, Idle
  <2>2. \E s \in {"up", "hidden"} : Put(Net(k), i, s)  BY <1>6 DEF Lost
  <2>3. GuestsSame /\ (VpcThere => VpcThere')  BY <1>3, <1>6, <2>2 DEF Lost
  <2>4. \A h \in Hosts : Knows(mem', h)  BY <1>2, <2>1 DEF Records
  <2>. QED  BY <1>2, <1>4, <2>1, <2>3, <2>4, OutsideStep, IdleStands
<1>7. CASE RefusedCall(Net(k))  BY <1>2, <1>7, StopStands DEF RefusedCall
<1>. QED  BY <1>1, <1>5, <1>6, <1>7 DEF NetworkCreate

\* A step that changes the state of one thing of a guest.
LEMMA PutState ==
  ASSUME TypeOK, NEW g \in Hosts, NEW k \in GuestKinds, NEW i \in Ids, NEW s, Put(<<g, k>>, i, s)
  PROVE  /\ \A h \in Hosts, x \in Ids :
              /\ State(h, "keypair", x)' =
                   IF h = g /\ k = "keypair" /\ x = i THEN s ELSE State(h, "keypair", x)
              /\ State(h, "group", x)' =
                   IF h = g /\ k = "group" /\ x = i THEN s ELSE State(h, "group", x)
              /\ State(h, "instance", x)' =
                   IF h = g /\ k = "instance" /\ x = i THEN s ELSE State(h, "instance", x)
              /\ State(h, "eni", x)' =
                   IF h = g /\ k = "eni" /\ x = i THEN s ELSE State(h, "eni", x)
         /\ VpcThere' = VpcThere
<1>1. \A h \in Hosts, j \in GuestKinds, x \in Ids :
        cloud'[<<h, j>>][x] = IF h = g /\ j = k /\ x = i THEN s ELSE cloud[<<h, j>>][x]
  BY GuestThing DEF Put, TypeOK
<1>2. cloud'[Net("vpc")] = cloud[Net("vpc")]  BY GuestThing DEF Put, TypeOK
<1>. QED  BY <1>1, <1>2, GuestThing DEF State, VpcThere, LiveIds, Net

\* The play's guest.
LEMMA AtWork ==
  ASSUME IInv, GInv, ctl.pc \in Middle \ {"h_next", "d_next"}
  PROVE  /\ ctl.host \in Hosts /\ journal # NoRun /\ ctl.pc # "idle"
         /\ \A h \in Hosts : Knows(mem, h) /\ Knows(journal, h)
         /\ BuildingAt(ctl.host) /\ RazingAt(ctl.host)
         /\ \A h \in Hosts : There(h, "group") => VpcThere
         /\ \A k : Mine(k) = <<ctl.host, k>>
<1>1. ctl.host \in Hosts  BY DEF IInv, NetInv, GuestChosen
<1>2. journal # NoRun /\ ctl.pc # "idle"  BY DEF IInv, NetInv, RunSaved, Middle
<1>. QED  BY <1>1, <1>2 DEF GInv, Records, Building, Razing, Hangs, Mine, Guest

\* A key pair is imported under the id the journal has.
LEMMA ImportKeyStep == ASSUME IInv, TypeOK', GInv, ImportKey PROVE GInv'
<1>. USE DEF IInv, GInv, At
<1>1. /\ ctl.pc = "h_import" /\ Put(Mine("keypair"), 1, "up")
      /\ UNCHANGED <<journal, requests, mem, token, born>>
  BY DEF ImportKey, files
<1>2. ctl.pc \in Middle \ {"h_next", "d_next"}  BY <1>1 DEF Middle
<1>0. PICK g \in Hosts : g = ctl.host  BY <1>2, AtWork
<1>3. /\ journal # NoRun /\ Mine("keypair") = <<g, "keypair">> /\ VpcThere
      /\ 1 \in mem.ids[<<g, "keypair">>] /\ 1 \in journal.ids[<<g, "keypair">>]
  BY <1>0, <1>1, <1>2, AtWork DEF BuildingAt, Building, GuestPCs
<1>b. Put(<<g, "keypair">>, 1, "up")  BY <1>1, <1>3
<1>4. /\ \A h \in Hosts, x \in Ids :
           /\ State(h, "keypair", x)' = IF h = g /\ x = 1 THEN "up" ELSE State(h, "keypair", x)
           /\ State(h, "group", x)' = State(h, "group", x)
           /\ State(h, "instance", x)' = State(h, "instance", x)
           /\ State(h, "eni", x)' = State(h, "eni", x)
      /\ VpcThere' = VpcThere
  BY <1>b, PutState, GuestThing
<1>5. \A h \in Hosts : /\ Interfaced(h)' = Interfaced(h)
                       /\ There(h, "group")' = There(h, "group")
                       /\ There(h, "instance")' = There(h, "instance")
                       /\ There(h, "eni")' = There(h, "eni")
  BY <1>4 DEF Interfaced, There
<1>6. Records'
  <2>1. \A h \in Hosts : Knows(mem, h) /\ Knows(journal, h)  BY <1>2, AtWork
  <2>2. \A h \in Hosts : mem.ids[<<h, "eni">>] \subseteq Ids /\ journal.ids[<<h, "eni">>] \subseteq Ids
    BY <1>3, GuestThing DEF TypeOK, Journal
  <2>3. ASSUME NEW h \in Hosts PROVE Knows(mem, h)' /\ Knows(journal, h)'
    <3>1. Knows(mem, h) /\ Knows(journal, h)  BY <2>1
    <3>2. State(h, "keypair", 1)' = "up" => h = g \/ State(h, "keypair", 1) = "up"
      BY <1>4, GuestThing
    <3>3. /\ \A x \in Ids : State(h, "eni", x)' = State(h, "eni", x)
          /\ Interfaced(h)' = Interfaced(h)
      BY <1>4, <1>5
    <3>4. Knows(mem, h)'  BY <1>1, <1>3, <2>2, <3>1, <3>2, <3>3 DEF Knows
    <3>5. Knows(journal, h)'  BY <1>1, <1>3, <2>2, <3>1, <3>2, <3>3 DEF Knows
    <3>. QED  BY <3>4, <3>5
  <2>. QED  BY <1>1, <2>3 DEF Records
<1>7. Birth'  BY <1>1 DEF Birth
<1>8. Hangs'  BY <1>4, <1>5 DEF Hangs
<1>9. Keys'  BY <1>1, <1>3, <1>4 DEF Keys
<1>10. Single'
  <2>1. \A h \in Hosts : token[h] \subseteq Ids  BY DEF TypeOK
  <2>. QED  BY <1>1, <1>4, <2>1 DEF Single
<1>11. Interfaces'
  <2>1. \A h \in Hosts : token[h] \subseteq Ids  BY DEF TypeOK
  <2>. QED  BY <1>1, <1>4, <1>5, <2>1 DEF Interfaces, Terminated
<1>12. Saved'  BY <1>1, <1>5 DEF Replayable, Saved
<1>13. Standing'  BY <1>6, <1>7, <1>8, <1>9, <1>10, <1>11, <1>12 DEF Standing
<1>14. CASE Stop  BY <1>13, <1>14, IdleStands DEF Stop, Idle
<1>15. CASE Goto("h_group")
  <2>1. ctl'.pc = "h_group"  BY <1>15, MovedOn
  <2>2. Building'
    BY <1>3, <1>4, <2>1 DEF Building, BuildingAt, GuestPCs, LaunchedPCs, RunningPCs
  <2>3. Replayable' /\ Razing'
    BY <1>13, <2>1 DEF Standing, Replayable, Razing, RazingAt, DestroyPCs
  <2>. QED  BY <1>13, <2>2, <2>3 DEF Standing
<1>. QED  BY <1>14, <1>15 DEF ImportKey

\* What exists comes into sight, is attached, or goes; nothing is made.
Older(old, new) == new = old \/ (Live(old) /\ new \in {"up", "attached", "gone"})
Ages ==
  \A h \in Hosts, x \in Ids :
    /\ State(h, "keypair", x)' \in {State(h, "keypair", x), "gone"}
    /\ State(h, "keypair", x) = "none" => State(h, "keypair", x)' = "none"
    /\ Older(State(h, "group", x), State(h, "group", x)')
    /\ Older(State(h, "instance", x), State(h, "instance", x)')
    /\ Older(State(h, "eni", x), State(h, "eni", x)')
    /\ State(h, "eni", x)' = "gone" => State(h, "eni", x) = "gone" \/ Terminated(h)'

LEMMA AgeStands ==
  ASSUME IInv, GInv, Ages, UNCHANGED <<journal, mem, requests, token, born>>,
         ctl.pc = "idle" => ctl'.pc = "idle",
         born, Hangs'
  PROVE  Standing'
<1>. USE DEF IInv, GInv
<1>1. \A h \in Hosts : /\ There(h, "instance")' => There(h, "instance")
                       /\ Interfaced(h)' = Interfaced(h)
                       /\ Terminated(h) => Terminated(h)'
  <2>1. \A h \in Hosts : token[h] \subseteq Ids  BY DEF TypeOK
  <2>2. \A h \in Hosts, x \in Ids :
          /\ Live(State(h, "instance", x)') => Live(State(h, "instance", x))
          /\ State(h, "instance", x) = "gone" => State(h, "instance", x)' = "gone"
          /\ State(h, "eni", x)' = "none" <=> State(h, "eni", x) = "none"
    BY DEF Ages, Older, Live
  <2>. QED  BY <2>1, <2>2 DEF There, Interfaced, Terminated
<1>2. Records'
  <2>1. \A h \in Hosts : mem.ids[<<h, "eni">>] \subseteq Ids
    BY GuestThing DEF TypeOK, Journal
  <2>2. \A h \in Hosts : journal # NoRun => journal.ids[<<h, "eni">>] \subseteq Ids
    BY GuestThing DEF TypeOK, Journal
  <2>3. ASSUME NEW h \in Hosts, Knows(mem, h) PROVE Knows(mem, h)'
    <3>1. /\ State(h, "keypair", 1)' = "up" => State(h, "keypair", 1) = "up"
          /\ \A x \in Ids : /\ State(h, "eni", x) # "none" => State(h, "eni", x)' # "none"
                            /\ State(h, "eni", x)' = "hidden" => State(h, "eni", x) = "hidden"
      BY GuestThing DEF Ages, Older, Live
    <3>. QED  BY <1>1, <2>1, <2>3, <3>1 DEF Knows
  <2>4. ASSUME NEW h \in Hosts, journal # NoRun, Knows(journal, h) PROVE Knows(journal, h)'
    <3>1. /\ State(h, "keypair", 1)' = "up" => State(h, "keypair", 1) = "up"
          /\ \A x \in Ids : /\ State(h, "eni", x) # "none" => State(h, "eni", x)' # "none"
                            /\ State(h, "eni", x)' = "hidden" => State(h, "eni", x) = "hidden"
      BY GuestThing DEF Ages, Older, Live
    <3>. QED  BY <1>1, <2>2, <2>4, <3>1 DEF Knows
  <2>. QED  BY <2>3, <2>4 DEF Records
<1>3. Birth'  BY DEF Birth
<1>4. Keys'
  <2>1. \A h \in Hosts, x \in Ids :
          /\ State(h, "keypair", x)' = "up" => State(h, "keypair", x) = "up"
          /\ State(h, "keypair", x)' # "none" => State(h, "keypair", x) # "none"
          /\ State(h, "keypair", x)' \in {State(h, "keypair", x), "gone"}
    BY DEF Ages
  <2>. QED  BY <2>1, GuestThing DEF Keys
<1>5. Single'
  <2>1. \A h \in Hosts, x \in Ids :
          /\ Live(State(h, "group", x)') => Live(State(h, "group", x))
          /\ Live(State(h, "eni", x)') => Live(State(h, "eni", x))
          /\ State(h, "instance", x)' = "none" <=> State(h, "instance", x) = "none"
    BY DEF Ages, Older, Live
  <2>. QED  BY <2>1 DEF Single, Live
<1>6. Interfaces'
  <2>1. \A h \in Hosts, x \in Ids :
          /\ State(h, "instance", x)' = "hidden" => State(h, "instance", x) = "hidden"
          /\ State(h, "eni", x)' = "gone" => State(h, "eni", x) = "gone" \/ Terminated(h)'
    BY DEF Ages, Older, Live
  <2>2. \A h \in Hosts : token[h] \subseteq Ids  BY DEF TypeOK
  <2>. QED  BY <1>1, <2>1, <2>2 DEF Interfaces
<1>7. Saved'  BY <1>1 DEF Replayable, Saved
<1>. QED  BY <1>2, <1>3, <1>4, <1>5, <1>6, <1>7 DEF Standing

\* What was accepted shows up.
LEMMA AppearStep ==
  ASSUME IInv, GInv, NEW t \in Things, NEW i \in Ids, Appear(t, i)
  PROVE  GInv'
<1>. USE DEF IInv, GInv
<1>1. UNCHANGED <<journal, mem, requests, token, born, ctl>> /\ cloud[t][i] = "hidden"
  BY DEF Appear, files
<1>2. \A u \in Things, x \in Ids : \/ cloud'[u][x] = cloud[u][x]
                                   \/ cloud[u][x] = "hidden" /\ cloud'[u][x] = "up"
  BY DEF Appear, Put, TypeOK
<1>3. \A h \in Hosts, k \in GuestKinds, x \in Ids :
        \/ State(h, k, x)' = State(h, k, x)
        \/ State(h, k, x) = "hidden" /\ State(h, k, x)' = "up"
  BY <1>2, GuestThing DEF State
<1>4. \A h \in Hosts, x \in Ids :
        /\ State(h, "keypair", x)' = State(h, "keypair", x)
        /\ State(h, "group", x)' = State(h, "group", x)
           \/ (State(h, "group", x) = "hidden" /\ State(h, "group", x)' = "up")
        /\ State(h, "instance", x)' = State(h, "instance", x)
           \/ (State(h, "instance", x) = "hidden" /\ State(h, "instance", x)' = "up")
        /\ State(h, "eni", x)' = State(h, "eni", x)
           \/ (State(h, "eni", x) = "hidden" /\ State(h, "eni", x)' = "up")
  BY <1>3, GuestThing DEF Keys
<1>5. \A h \in Hosts : /\ There(h, "group")' = There(h, "group")
                       /\ There(h, "instance")' = There(h, "instance")
                       /\ There(h, "eni")' = There(h, "eni")
  BY <1>4 DEF There, Live
<1>6. VpcThere' = VpcThere
  <2>1. \A x \in Ids : Live(cloud'[Net("vpc")][x]) <=> Live(cloud[Net("vpc")][x])
    BY <1>2, GuestThing DEF Live
  <2>. QED  BY <2>1 DEF VpcThere, LiveIds, Net
<1>7. Ages  BY <1>4 DEF Ages, Older, Live
<1>8. Hangs'  BY <1>5, <1>6 DEF Hangs
<1>9. born  BY <1>1 DEF Birth
<1>10. Standing'  BY <1>1, <1>7, <1>8, <1>9, AgeStands
<1>11. /\ \A h \in Hosts : token[h] \subseteq Ids
       /\ ctl.target["eni"] \subseteq Ids /\ ctl.target["instance"] \subseteq Ids
  BY DEF TypeOK, Control, Kinds, GuestKinds
<1>12. ASSUME NEW h \in Hosts, BuildingAt(h), RazingAt(h) PROVE BuildingAt(h)' /\ RazingAt(h)'
  <2>1. BuildingAt(h)'
    BY <1>1, <1>4, <1>5, <1>11, <1>12 DEF BuildingAt, Live
  <2>2. Interfaced(h)' = Interfaced(h) /\ (Terminated(h) => Terminated(h)')
    BY <1>1, <1>4, <1>11 DEF Interfaced, Terminated
  <2>3. RazingAt(h)'
    BY <1>1, <1>4, <1>11, <1>12, <2>2 DEF RazingAt
  <2>. QED  BY <2>1, <2>3
<1>13. Building'  BY <1>1, <1>6, <1>12 DEF Building, Razing, Net
<1>14. Razing'  BY <1>1, <1>4, <1>12, GuestThing DEF Building, Razing
<1>15. Replayable'  BY <1>1, <1>10 DEF Standing, Replayable
<1>. QED  BY <1>10, <1>13, <1>14, <1>15 DEF Standing

LEMMA StateTypes ==
  ASSUME TypeOK
  PROVE  \A h \in Hosts, i \in Ids :
           /\ State(h, "keypair", i) \in States /\ State(h, "group", i) \in States
           /\ State(h, "instance", i) \in States /\ State(h, "eni", i) \in States
BY GuestThing DEF TypeOK, State

\* The interface is attached.
LEMMA EniAttachStep == ASSUME IInv, GInv, EniAttach PROVE GInv'
<1>. USE DEF IInv, GInv, At
<1>1. /\ ctl.pc = "e_attach" /\ ctl'.pc = "h_descend" /\ ctl'.host = ctl.host
      /\ ctl'.todo = ctl.todo /\ UNCHANGED <<journal, requests, mem, token, born>>
  BY MovedOn DEF EniAttach, files
<1>2. ctl.pc \in Middle \ {"h_next", "d_next"}  BY <1>1 DEF Middle
<1>3. PICK g \in Hosts : g = ctl.host  BY <1>2, AtWork
<1>4. PICK i \in Ids : Put(<<g, "eni">>, i, "attached") /\ i \in Seen(<<g, "eni">>)
  BY <1>2, <1>3, AtWork DEF EniAttach
<1>5. State(g, "eni", i) \in {"up", "attached"}  BY <1>4 DEF Seen, State
<1>6. /\ \A h \in Hosts, x \in Ids :
           /\ State(h, "keypair", x)' = State(h, "keypair", x)
           /\ State(h, "group", x)' = State(h, "group", x)
           /\ State(h, "instance", x)' = State(h, "instance", x)
           /\ State(h, "eni", x)' = IF h = g /\ x = i THEN "attached" ELSE State(h, "eni", x)
      /\ VpcThere' = VpcThere
  BY <1>4, PutState, GuestThing
<1>7. Ages  BY <1>5, <1>6 DEF Ages, Older, Live
<1>8. \A h \in Hosts : /\ There(h, "group")' = There(h, "group")
                       /\ There(h, "instance")' = There(h, "instance")
                       /\ There(h, "eni")' => There(h, "eni")
  BY <1>5, <1>6 DEF There, Live
<1>9. Hangs'  BY <1>6, <1>8 DEF Hangs
<1>10. born  BY <1>1 DEF Birth
<1>11. Standing'  BY <1>1, <1>7, <1>9, <1>10, AgeStands
<1>12. Building'
  <2>1. BuildingAt(g) /\ VpcThere  BY <1>1, <1>3 DEF Building, GuestPCs
  <2>2. token[g] \subseteq Ids  BY DEF TypeOK
  <2>3. State(g, "eni", i)' = "attached"  BY <1>6
  <2>. QED
    BY <1>1, <1>3, <1>6, <2>1, <2>2, <2>3
    DEF Building, BuildingAt, GuestPCs, LaunchedPCs, RunningPCs
<1>13. Razing' /\ Replayable'
  BY <1>1, <1>11 DEF Standing, Replayable, Razing, RazingAt, DestroyPCs
<1>. QED  BY <1>11, <1>12, <1>13 DEF Standing

\* Instances are terminated, and what is attached to them goes with them.
LEMMA TerminateStep == ASSUME IInv, GInv, Terminate PROVE GInv'
<1>. USE DEF IInv, GInv, At
<1>1. /\ ctl.pc = "d_term" /\ ctl'.pc = "d_eni" /\ ctl'.host = ctl.host
      /\ ctl'.todo = ctl.todo /\ UNCHANGED <<journal, requests, mem, token, born>>
  BY MovedOn DEF Terminate, files
<1>2. ctl.pc \in Middle \ {"h_next", "d_next"}  BY <1>1 DEF Middle
<1>3. PICK g \in Hosts : g = ctl.host  BY <1>2, AtWork
<1>4. RazingAt(g) /\ \A h \in Hosts : token[h] \subseteq Ids  BY <1>2, <1>3, AtWork DEF TypeOK
<1>. DEFINE ending == ctl.target["instance"]
<1>5. /\ \A h \in Hosts, x \in Ids :
           /\ State(h, "keypair", x)' = State(h, "keypair", x)
           /\ State(h, "group", x)' = State(h, "group", x)
           /\ State(h, "instance", x)' =
                IF h = g /\ x \in ending THEN "gone" ELSE State(h, "instance", x)
           /\ State(h, "eni", x)' =
                IF h = g /\ ending # {} /\ State(h, "eni", x) = "attached" THEN "gone"
                ELSE State(h, "eni", x)
      /\ VpcThere' = VpcThere
  <2>1. /\ Mine("instance") = <<g, "instance">> /\ Mine("eni") = <<g, "eni">>
    BY <1>2, <1>3, AtWork
  <2>2. cloud' = [cloud EXCEPT
          ![<<g, "instance">>] = [i \in Ids |-> IF i \in ending THEN "gone" ELSE @[i]],
          ![<<g, "eni">>] = [i \in Ids |-> IF ending # {} /\ @[i] = "attached" THEN "gone" ELSE @[i]]]
    BY <2>1 DEF Terminate
  <2>3. \A h \in Hosts : /\ cloud'[<<h, "keypair">>] = cloud[<<h, "keypair">>]
                         /\ cloud'[<<h, "group">>] = cloud[<<h, "group">>]
    BY <2>2, GuestThing DEF TypeOK
  <2>4. \A h \in Hosts, x \in Ids :
          cloud'[<<h, "instance">>][x] = IF h = g /\ x \in ending THEN "gone" ELSE cloud[<<h, "instance">>][x]
    BY <2>2, GuestThing DEF TypeOK
  <2>5. \A h \in Hosts, x \in Ids :
          cloud'[<<h, "eni">>][x] = IF h = g /\ ending # {} /\ cloud[<<h, "eni">>][x] = "attached"
                                    THEN "gone" ELSE cloud[<<h, "eni">>][x]
    BY <2>2, GuestThing DEF TypeOK
  <2>6. cloud'[Net("vpc")] = cloud[Net("vpc")]  BY <2>2, GuestThing DEF TypeOK
  <2>. QED  BY <2>3, <2>4, <2>5, <2>6 DEF State, VpcThere, LiveIds, Net
<1>6. Interfaced(g) => Terminated(g)'
  BY <1>1, <1>4, <1>5 DEF RazingAt, Terminated
<1>7. Ages
  <2>1. \A x \in Ids : State(g, "instance", x) \in States  BY StateTypes
  <2>2. \A x \in Ids : x \in ending => State(g, "instance", x) # "none"
    BY <1>1, <1>4 DEF RazingAt
  <2>3. \A x \in Ids : State(g, "eni", x) = "attached" => Terminated(g)'
    BY <1>6 DEF Interfaced
  <2>. QED  BY <1>5, <2>1, <2>2, <2>3 DEF Ages, Older, Live, States
<1>8. \A h \in Hosts : /\ There(h, "group")' = There(h, "group")
                       /\ There(h, "instance")' => There(h, "instance")
                       /\ There(h, "eni")' => There(h, "eni")
                       /\ Interfaced(h)' => Interfaced(h)
  BY <1>5 DEF There, Live, Interfaced
<1>9. Hangs'  BY <1>5, <1>8 DEF Hangs
<1>10. born  BY <1>1 DEF Birth
<1>11. Standing'  BY <1>1, <1>7, <1>9, <1>10, AgeStands
<1>12. Building' /\ Replayable'
  BY <1>1, <1>11 DEF Standing, Replayable, Building, BuildingAt, GuestPCs, LaunchedPCs, RunningPCs
<1>13. Razing'
  <2>1. \A h \in Hosts \ ctl.todo : State(h, "keypair", 1) # "up"  BY <1>1 DEF Razing, DestroyPCs
  <2>. QED  BY <1>1, <1>3, <1>5, <1>6, <1>8, <2>1, GuestThing DEF Razing, RazingAt
<1>. QED  BY <1>11, <1>12, <1>13 DEF Standing

-------------------------------------------------------------------------------
(* Destroy                                                                 *)

LEMMA Frames ==
  ASSUME Standing'
  PROVE  /\ ctl'.pc # "h_run" => Replayable'
         /\ ctl'.pc \in DestroyPCs => Replayable' /\ Building'
         /\ ctl'.pc \in CreatePCs => Razing'
BY DEF Standing, Replayable, Building, BuildingAt, Razing, RazingAt, GuestPCs, LaunchedPCs,
       RunningPCs, CreatePCs, DestroyPCs

\* A deletion.
LEMMA DeleteState ==
  ASSUME TypeOK, NEW g \in Hosts, NEW k \in GuestKinds, NEW ids, cloud' = Delete(<<g, k>>, ids)
  PROVE  /\ \A h \in Hosts, x \in Ids :
              /\ State(h, "keypair", x)' =
                   IF h = g /\ k = "keypair" /\ x \in ids THEN "gone" ELSE State(h, "keypair", x)
              /\ State(h, "group", x)' =
                   IF h = g /\ k = "group" /\ x \in ids THEN "gone" ELSE State(h, "group", x)
              /\ State(h, "instance", x)' =
                   IF h = g /\ k = "instance" /\ x \in ids THEN "gone" ELSE State(h, "instance", x)
              /\ State(h, "eni", x)' =
                   IF h = g /\ k = "eni" /\ x \in ids THEN "gone" ELSE State(h, "eni", x)
         /\ VpcThere' = VpcThere
<1>1. \A h \in Hosts, j \in GuestKinds, x \in Ids :
        cloud'[<<h, j>>][x] = IF h = g /\ j = k /\ x \in ids THEN "gone" ELSE cloud[<<h, j>>][x]
  BY GuestThing DEF Delete, TypeOK
<1>2. cloud'[Net("vpc")] = cloud[Net("vpc")]  BY GuestThing DEF Delete, TypeOK
<1>. QED  BY <1>1, <1>2, GuestThing DEF State, VpcThere, LiveIds, Net

\* A play of destroy that deletes something of its guest.
LEMMA RazeStep ==
  ASSUME IInv, GInv, ctl.pc \in Middle \ {"h_next", "d_next"}, ctl.pc \in DestroyPCs,
         Ages, Hangs', UNCHANGED <<journal, mem, requests, token, born>>,
         ctl'.pc \in DestroyPCs \ {"d_term", "d_eni"},
         ctl'.pc \notin {"d_net", "d_requests", "d_journal"},
         \A h \in Hosts \ ctl'.todo : h \in ctl.todo => State(h, "keypair", 1)' # "up"
  PROVE  GInv'
<1>. USE DEF GInv
<1>1. born  BY DEF Birth, DestroyPCs
<1>2. Standing'  BY <1>1, AgeStands DEF DestroyPCs
<1>3. \A h \in Hosts \ ctl'.todo : State(h, "keypair", 1)' # "up"
  <2>1. \A h \in Hosts : State(h, "keypair", 1)' \in {State(h, "keypair", 1), "gone"}
    BY GuestThing DEF Ages
  <2>2. \A h \in Hosts \ ctl.todo : State(h, "keypair", 1) # "up"  BY DEF Razing
  <2>. QED  BY <2>1, <2>2
<1>4. Razing'  BY <1>3 DEF Razing, RazingAt
<1>. QED  BY <1>2, <1>4, Frames DEF Standing

LEMMA DeleteInterfacesStep == ASSUME IInv, GInv, DeleteInterfaces PROVE GInv'
<1>. USE DEF IInv, At
<1>1. CASE Fails  BY <1>1, FailStands
<1>2. CASE ~Fails
  <2>1. ctl.pc = "d_eni" /\ ctl.pc \in Middle \ {"h_next", "d_next"}
    BY DEF DeleteInterfaces, Middle
  <2>2. PICK g \in Hosts : g = ctl.host  BY <2>1, AtWork
  <2>. DEFINE left == mem.ids[<<g, "eni">>] \cap Seen(<<g, "eni">>)
  <2>3. Mine("eni") = <<g, "eni">>  BY <2>1, <2>2, AtWork
  <2>4. /\ cloud' = Delete(<<g, "eni">>, left) /\ Goto("d_group")
        /\ \A i \in left : cloud[<<g, "eni">>][i] # "attached"
        /\ UNCHANGED <<journal, mem, requests, token, born>>
    BY <1>2, <2>3 DEF DeleteInterfaces, files
  <2>5. ctl'.pc = "d_group" /\ ctl'.todo = ctl.todo  BY <2>4, MovedOn
  <2>6. \A i \in left : i \in Ids /\ State(g, "eni", i) \in {"up", "attached"}
    BY DEF Seen, State
  <2>7. /\ \A h \in Hosts, x \in Ids :
             /\ State(h, "keypair", x)' = State(h, "keypair", x)
             /\ State(h, "group", x)' = State(h, "group", x)
             /\ State(h, "instance", x)' = State(h, "instance", x)
             /\ State(h, "eni", x)' = IF h = g /\ x \in left THEN "gone" ELSE State(h, "eni", x)
        /\ VpcThere' = VpcThere
    BY <2>4, DeleteState, GuestThing
  <2>8. left # {} => Terminated(g)'
    <3>1. left # {} => Interfaced(g)  BY <2>6 DEF Interfaced
    <3>2. Interfaced(g) => Terminated(g)  BY <2>1, <2>2, AtWork DEF RazingAt
    <3>3. token[g] \subseteq Ids  BY DEF TypeOK
    <3>. QED  BY <2>4, <2>7, <3>1, <3>2, <3>3 DEF Terminated
  <2>9. Ages  BY <2>6, <2>7, <2>8 DEF Ages, Older, Live
  <2>10. \A h \in Hosts :
           /\ There(h, "group")' = There(h, "group")
           /\ There(h, "instance")' = There(h, "instance")
           /\ There(h, "eni")' => There(h, "eni")
    BY <2>7 DEF There, Live
  <2>11. Hangs'
    <3>1. Hangs  BY DEF GInv
    <3>2. VpcThere' = VpcThere  BY <2>7
    <3>. QED  BY <2>10, <3>1, <3>2 DEF Hangs
  <2>. QED  BY <2>1, <2>4, <2>5, <2>9, <2>11, RazeStep DEF DestroyPCs
<1>. QED  BY <1>1, <1>2

LEMMA DeleteGroupStep == ASSUME IInv, GInv, DeleteGroup PROVE GInv'
<1>. USE DEF IInv, At
<1>1. CASE Fails  BY <1>1, FailStands
<1>2. CASE ~Fails
  <2>1. ctl.pc = "d_group" /\ ctl.pc \in Middle \ {"h_next", "d_next"}
    BY DEF DeleteGroup, Middle
  <2>2. PICK g \in Hosts : g = ctl.host  BY <2>1, AtWork
  <2>. DEFINE found == Found(<<g, "group">>)
  <2>3. /\ Mine("eni") = <<g, "eni">> /\ Mine("instance") = <<g, "instance">>
        /\ Mine("group") = <<g, "group">>
    BY <2>1, <2>2, AtWork
  <2>4. /\ cloud' = Delete(<<g, "group">>, found) /\ Goto("d_key")
        /\ found = {} \/ ~GroupInUse
        /\ UNCHANGED <<journal, mem, requests, token, born>>
    BY <1>2, <2>3 DEF DeleteGroup, files
  <2>5. ctl'.pc = "d_key" /\ ctl'.todo = ctl.todo  BY <2>4, MovedOn
  <2>6. \A i \in found : i \in Ids /\ State(g, "group", i) \in {"up", "attached"}
    BY DEF Found, Seen, State
  <2>7. /\ \A h \in Hosts, x \in Ids :
             /\ State(h, "keypair", x)' = State(h, "keypair", x)
             /\ State(h, "group", x)' = IF h = g /\ x \in found THEN "gone" ELSE State(h, "group", x)
             /\ State(h, "instance", x)' = State(h, "instance", x)
             /\ State(h, "eni", x)' = State(h, "eni", x)
        /\ VpcThere' = VpcThere
    BY <2>4, DeleteState, GuestThing
  <2>8. Ages  BY <2>6, <2>7 DEF Ages, Older, Live
  <2>9. \A h \in Hosts :
          /\ There(h, "group")' => There(h, "group")
          /\ h # g \/ found = {} => There(h, "group")' = There(h, "group")
          /\ There(h, "instance")' = There(h, "instance")
          /\ There(h, "eni")' = There(h, "eni")
    BY <2>7 DEF There, Live
  <2>10. ~GroupInUse => ~There(g, "instance") /\ ~There(g, "eni")
    BY <2>3, ThereIs DEF GroupInUse
  <2>11. Hangs'
    <3>1. Hangs  BY DEF GInv
    <3>2. There(g, "instance") \/ There(g, "eni") => There(g, "group")'
      BY <2>4, <2>9, <2>10, <3>1 DEF Hangs
    <3>3. VpcThere' = VpcThere  BY <2>7
    <3>4. ASSUME NEW h \in Hosts
          PROVE  There(h, "instance")' \/ There(h, "eni")' => There(h, "group")'
      <4>1. CASE h = g  BY <2>9, <3>2, <4>1
      <4>2. CASE h # g  BY <2>9, <3>1, <4>2 DEF Hangs
      <4>. QED  BY <4>1, <4>2
    <3>5. \A h \in Hosts : There(h, "group")' => VpcThere'  BY <2>9, <3>1, <3>3 DEF Hangs
    <3>. QED  BY <3>4, <3>5 DEF Hangs
  <2>. QED  BY <2>1, <2>4, <2>5, <2>8, <2>11, RazeStep DEF DestroyPCs
<1>. QED  BY <1>1, <1>2

LEMMA DeleteKeyStep == ASSUME IInv, GInv, DeleteKey PROVE GInv'
<1>. USE DEF IInv, At
<1>1. ctl.pc = "d_key" /\ ctl.pc \in Middle \ {"h_next", "d_next"}
  BY DEF DeleteKey, Middle
<1>2. PICK g \in Hosts : g = ctl.host  BY <1>1, AtWork
<1>. DEFINE ids == mem.ids[<<g, "keypair">>] \cap Seen(<<g, "keypair">>)
<1>3. Mine("keypair") = <<g, "keypair">>  BY <1>1, <1>2, AtWork
<1>4. /\ cloud' = Delete(<<g, "keypair">>, ids)
      /\ UNCHANGED <<journal, mem, requests, token, born>>
  BY <1>3 DEF DeleteKey, files
<1>5. ctl'.pc = "d_next" /\ ctl'.todo = ctl.todo \ {g}
  BY <1>2 DEF DeleteKey, TypeOK, Control, Guest
<1>6. \A i \in Ids : i \in Seen(<<g, "keypair">>) <=> State(g, "keypair", i) \in {"up", "attached"}
  BY DEF Seen, State
<1>7. /\ \A h \in Hosts, x \in Ids :
           /\ State(h, "keypair", x)' = IF h = g /\ x \in ids THEN "gone" ELSE State(h, "keypair", x)
           /\ State(h, "group", x)' = State(h, "group", x)
           /\ State(h, "instance", x)' = State(h, "instance", x)
           /\ State(h, "eni", x)' = State(h, "eni", x)
      /\ VpcThere' = VpcThere
  BY <1>4, DeleteState, GuestThing
<1>8. Ages  BY <1>6, <1>7 DEF Ages, Older, Live
<1>9. \A h \in Hosts :
        /\ There(h, "group")' = There(h, "group")
        /\ There(h, "instance")' = There(h, "instance")
        /\ There(h, "eni")' = There(h, "eni")
  BY <1>7 DEF There
<1>a. Hangs  BY DEF GInv
<1>10. Hangs'  BY <1>7, <1>9, <1>a DEF Hangs
<1>11. State(g, "keypair", 1)' # "up"
  <2>1. State(g, "keypair", 1) = "up" => 1 \in ids
    BY <1>1, <1>6, AtWork, GuestThing DEF Knows
  <2>. QED  BY <1>7, <2>1, GuestThing
<1>12. \A h \in Hosts \ ctl'.todo : h \in ctl.todo => State(h, "keypair", 1)' # "up"
  BY <1>5, <1>11
<1>. QED  BY <1>1, <1>4, <1>5, <1>8, <1>10, <1>12, RazeStep DEF DestroyPCs

\* What is left alone keeps the guests' things.
LEMMA QuietStands ==
  ASSUME GInv, UNCHANGED <<cloud, token>>
  PROVE  Hangs' /\ Single' /\ Interfaces'
<1>. USE CloudSame DEF GInv
<1>1. Hangs'  BY DEF Hangs, There
<1>2. Single' /\ Interfaces'  BY DEF Single, Interfaces
<1>. QED  BY <1>1, <1>2

LEMMA DestroyStep == ASSUME IInv, GInv, Destroy PROVE GInv'
<1>. USE DEF IInv, GInv, At
<1>1. /\ ctl.pc = "idle" /\ journal # NoRun /\ mem' = journal
      /\ ctl'.pc = "d_next" /\ ctl'.todo = Hosts
      /\ UNCHANGED <<journal, requests, cloud, token, born>>
  BY DEF Destroy, Idle, files, ec2
<1>2. Records'  BY <1>1, KnowsSame DEF Records
<1>3. Birth'  BY <1>1 DEF Birth
<1>4. Keys'  BY <1>1, CloudSame DEF Keys
<1>5. Saved'  BY <1>1, CloudSame DEF Replayable, Saved
<1>6. Standing'  BY <1>1, <1>2, <1>3, <1>4, <1>5, QuietStands DEF Standing
<1>7. Razing'  BY <1>1 DEF Razing, RazingAt
<1>. QED  BY <1>1, <1>6, <1>7, Frames DEF Standing, DestroyPCs

LEMMA DestroyGuestStep == ASSUME IInv, TypeOK', GInv, DestroyGuest PROVE GInv'
<1>. USE DEF IInv, At
<1>1. CASE Fails  BY <1>1, FailStands
<1>2. CASE ~Fails
  <2>1. PICK h \in ctl.todo :
          /\ mem' = [mem EXCEPT !.ids[<<h, "eni">>] = @ \cup Seen(<<h, "eni">>)]
          /\ journal' = mem'
          /\ ctl' = [ctl EXCEPT !.pc = "d_term", !.host = h,
                                !.target["instance"] = Found(<<h, "instance">>)]
          /\ UNCHANGED <<requests, cloud, token, born>>
    BY <1>2 DEF DestroyGuest, Save, ec2
  <2>2. ctl.pc = "d_next" /\ h \in Hosts  BY <2>1 DEF DestroyGuest, TypeOK, Control
  <2>3. /\ ctl'.pc = "d_term" /\ ctl'.host = h /\ ctl'.todo = ctl.todo
        /\ ctl'.target["instance"] = Found(<<h, "instance">>)
    BY <2>1, GuestThing DEF TypeOK, Control
  <2>4. /\ \A t \in Things : mem'.ids[t] = IF t = <<h, "eni">> THEN mem.ids[t] \cup Seen(t)
                                          ELSE mem.ids[t]
        /\ mem'.pending = mem.pending
    BY <2>1, <2>2, GuestThing DEF TypeOK, Journal
  <2>5. \A g \in Hosts : Knows(mem, g)  BY <2>2 DEF GInv, Records
  <2>6. \A g \in Hosts : Knows(mem', g)
    <3>1. \A i \in Seen(<<h, "eni">>) : State(h, "eni", i) # "none"  BY DEF Seen, State
    <3>2. \A g \in Hosts :
            /\ mem'.ids[<<g, "keypair">>] = mem.ids[<<g, "keypair">>]
            /\ mem'.ids[<<g, "instance">>] = mem.ids[<<g, "instance">>]
            /\ mem'.ids[<<g, "eni">>] = IF g = h THEN mem.ids[<<g, "eni">>] \cup Seen(<<g, "eni">>)
                                        ELSE mem.ids[<<g, "eni">>]
      BY <2>4, GuestThing
    <3>3. ASSUME NEW g \in Hosts PROVE \A i \in mem'.ids[<<g, "eni">>] : State(g, "eni", i) # "none"
      BY <2>5, <3>1, <3>2 DEF Knows
    <3>. QED  BY <2>4, <2>5, <3>2, <3>3 DEF Knows
  <2>7. Standing'
    <3>1. mem' \in Journal /\ \A t \in Things : mem.ids[t] \subseteq mem'.ids[t]
      BY <2>4 DEF TypeOK
    <3>. QED  BY <2>1, <2>2, <2>6, <3>1, RecordStep
  <2>8. RazingAt(h)'
    <3>1. \A i \in Found(<<h, "instance">>) : State(h, "instance", i)' # "none"
      BY <2>1, CloudSame DEF Found, Seen, State
    <3>2. ASSUME Interfaced(h)', NEW i \in token[h], State(h, "instance", i) # "gone"
          PROVE  i \in Found(<<h, "instance">>)
      <4>1. Interfaced(h) /\ i \in Ids  BY <2>1, <2>2, <3>2, CloudSame DEF TypeOK
      <4>2. i \in mem.ids[<<h, "instance">>]  BY <2>2, <2>5, <4>1 DEF Knows
      <4>3. State(h, "instance", i) \notin {"none", "hidden"}
        BY <2>2, <4>1 DEF GInv, Interfaces, Single
      <4>4. State(h, "instance", i) \in {"up", "attached"}
        BY <2>2, <3>2, <4>1, <4>3, StateTypes DEF States
      <4>. QED  BY <4>1, <4>2, <4>4 DEF Found, Seen, State
    <3>3. \A i : State(h, "instance", i)' = State(h, "instance", i)  BY <2>1, CloudSame
    <3>. QED  BY <2>1, <2>3, <3>1, <3>2, <3>3 DEF RazingAt
  <2>9. Razing'
    <3>1. \A g \in Hosts \ ctl.todo : State(g, "keypair", 1) # "up"
      BY <2>2 DEF GInv, Razing, DestroyPCs
    <3>2. \A g : State(g, "keypair", 1)' = State(g, "keypair", 1)  BY <2>1, CloudSame
    <3>. QED  BY <2>3, <2>8, <3>1, <3>2 DEF Razing
  <2>. QED  BY <2>3, <2>7, <2>9, Frames DEF Standing, GInv, DestroyPCs
<1>. QED  BY <1>1, <1>2

LEMMA TeardownStep ==
  ASSUME IInv, GInv, NetworkCleanup \/ DeleteNetwork \/ RemoveRequests \/ RemoveJournal
  PROVE  GInv'
<1>. USE DEF IInv, At
<1>1. CASE Fails  BY <1>1, FailStands
<1>2. ASSUME ctl.todo = {}, ctl'.todo = {}, Standing', ctl'.pc \in {"d_net", "d_requests", "d_journal"},
             ctl.pc \in DestroyPCs, \A h \in Hosts : State(h, "keypair", 1)' = State(h, "keypair", 1)
      PROVE  GInv'
  <2>1. Razing'  BY <1>2 DEF GInv, Razing, RazingAt
  <2>. QED  BY <1>2, <2>1, Frames DEF Standing, GInv, DestroyPCs
<1>3. CASE NetworkCleanup /\ ~Fails
  <2>1. /\ ctl.pc = "d_next" /\ ctl.todo = {} /\ UNCHANGED <<journal, mem, requests, cloud, token, born>>
        /\ ctl'.pc = "d_net" /\ ctl'.todo = {}
    <3>1. /\ ctl.pc = "d_next" /\ ctl.todo = {} /\ ~Refuses(TRUE)
          /\ UNCHANGED <<journal, mem, requests, cloud, token, born>>
      BY <1>3 DEF NetworkCleanup, files, ec2
    <3>2. \E target : ctl' = [ctl EXCEPT !.pc = "d_net", !.kind = "route", !.target = target]
      BY <1>3, <3>1 DEF NetworkCleanup
    <3>3. ctl'.pc = "d_net" /\ ctl'.todo = ctl.todo  BY <3>2 DEF TypeOK, Control
    <3>. QED  BY <3>1, <3>3
  <2>2. Standing'  BY <2>1, PlainStep
  <2>. QED  BY <1>2, <2>1, <2>2, CloudSame DEF DestroyPCs
<1>4. CASE DeleteNetwork /\ ~Fails
  <2>1. PICK k \in NetKinds : k = ctl.kind  BY <1>4 DEF DeleteNetwork, NetInv, Deleting
  <2>2. /\ ctl.pc = "d_net" /\ UNCHANGED <<journal, mem, requests, token, born>>
        /\ ctl.target[k] = {} \/ ~NetworkInUse(k)
        /\ cloud' = Delete(Net(k), ctl.target[k]) /\ ctl' = AfterDeleting(k)
    BY <1>4, <2>1 DEF DeleteNetwork, files
  <2>3. ctl'.pc \in {"d_net", "d_requests"} /\ ctl'.todo = ctl.todo /\ ctl.todo = {}
    BY <2>2 DEF AfterDeleting, TypeOK, Control, NetKinds, GInv, Razing
  <2>4. GuestsSame  BY <2>2, GuestThing DEF GuestsSame, Delete, TypeOK
  <2>5. ASSUME NEW h \in Hosts, There(h, "group") PROVE VpcThere'
    <3>1. VpcThere  BY <2>5 DEF GInv, Hangs
    <3>2. CASE k # "vpc"
      <4>1. cloud'[Net("vpc")] = cloud[Net("vpc")]  BY <2>2, <3>2, GuestThing DEF Delete, TypeOK, Net
      <4>. QED  BY <3>1, <4>1 DEF VpcThere, LiveIds, Net
    <3>3. CASE k = "vpc"
      <4>1. ctl.target[k] = {}  BY <2>2, <2>5, <3>3, ThereIs DEF NetworkInUse
      <4>2. \A x \in Ids : cloud'[Net("vpc")][x] = cloud[Net("vpc")][x]
        BY <2>2, <4>1, GuestThing DEF Delete, TypeOK
      <4>. QED  BY <3>1, <4>2 DEF VpcThere, LiveIds, Net
    <3>. QED  BY <3>2, <3>3
  <2>6. \A h \in Hosts : Knows(mem', h)  BY <2>2 DEF GInv, Records
  <2>7. Standing'  BY <2>2, <2>4, <2>5, <2>6, OutsideStep
  <2>. QED  BY <1>2, <2>2, <2>3, <2>4, <2>7, GuestsStay, GuestThing DEF DestroyPCs
<1>5. CASE RemoveRequests
  <2>1. /\ ctl.pc = "d_requests" /\ ctl'.pc = "d_journal" /\ ctl'.todo = ctl.todo
        /\ UNCHANGED <<journal, mem, cloud, token, born>> /\ ctl.todo = {}
    BY <1>5, MovedOn DEF RemoveRequests, ec2, GInv, Razing
  <2>2. \A h \in Hosts : ~There(h, "instance")
    BY <2>1, GuestThing DEF GInv, Hangs, VpcThere, NetInv, Deleting
  <2>3. Saved'  BY <2>1, <2>2, CloudSame DEF Saved
  <2>4. Records' /\ Birth' /\ Keys'
    BY <2>1, KnowsSame, CloudSame DEF GInv, Records, Birth, Keys
  <2>5. Standing'  BY <2>1, <2>3, <2>4, QuietStands DEF Standing
  <2>. QED  BY <1>2, <2>1, <2>5, CloudSame DEF DestroyPCs
<1>6. CASE RemoveJournal
  <2>1. /\ ctl.pc = "d_journal" /\ ctl'.pc = "idle" /\ journal' = NoRun
        /\ UNCHANGED <<requests, cloud, token, born>>
    BY <1>6 DEF RemoveJournal, Stop, Idle, ec2
  <2>2. \A h \in Hosts : State(h, "keypair", 1) # "up"
    BY <2>1 DEF GInv, Razing, DestroyPCs
  <2>3. Records'  BY <2>1 DEF Records
  <2>4. Birth'  BY <2>1 DEF GInv, Birth
  <2>5. Keys'  BY <2>1, <2>2, CloudSame DEF GInv, Keys
  <2>6. Saved'  BY <2>1, CloudSame DEF GInv, Replayable, Saved
  <2>7. Standing'  BY <2>1, <2>3, <2>4, <2>5, <2>6, QuietStands DEF Standing
  <2>. QED  BY <2>1, <2>7, IdleStands
<1>. QED  BY <1>1, <1>3, <1>4, <1>5, <1>6

-------------------------------------------------------------------------------
(* Create: steps that make nothing                                         *)

LEMMA BuildStep ==
  ASSUME GInv, Standing', VpcThere => VpcThere', ctl.pc \in GuestPCs, ctl'.pc \in GuestPCs,
         \A h \in Hosts : ctl'.host = h =>
           /\ ctl'.pc \in LaunchedPCs \cup {"h_import"} => BuildingAt(h)'
           /\ ctl'.pc = "h_run" => requests'[h] = "saved"
  PROVE  GInv'
<1>1. Building'
  <2>1. \A h \in Hosts : ctl'.pc \notin LaunchedPCs \cup {"h_import"} => BuildingAt(h)'
    BY DEF BuildingAt, LaunchedPCs, RunningPCs
  <2>2. VpcThere'  BY DEF GInv, Building
  <2>. QED  BY <2>1, <2>2 DEF Building, GuestPCs
<1>2. Replayable'  BY DEF Standing, Replayable
<1>3. Razing'  BY Frames DEF GuestPCs, CreatePCs
<1>. QED  BY <1>1, <1>2, <1>3 DEF Standing, GInv

\* Up to the launch request.
LEMMA RequestStep ==
  ASSUME IInv, TypeOK', GInv, NextHost \/ RecordKey \/ SaveGuest \/ SaveRequest \/ PublishRequest
  PROVE  GInv'
<1>. USE DEF IInv, At
<1>1. CASE Fails \/ (Stop /\ UNCHANGED <<files, mem, ec2, born, faults>>)
  BY <1>1, FailStands DEF Fails
<1>2. CASE NextHost /\ ~Stop
  <2>1. PICK h \in ctl.todo : ctl' = [ctl EXCEPT !.pc = "h_key", !.host = h]
    BY <1>2 DEF NextHost
  <2>2. ctl.pc = "h_next" /\ ctl'.pc = "h_key"  BY <1>2, <2>1 DEF NextHost, TypeOK, Control
  <2>3. UNCHANGED <<journal, requests, mem, cloud, token, born>>
    BY <1>2 DEF NextHost, files, ec2
  <2>4. Standing'  BY <2>2, <2>3, PlainStep
  <2>. QED  BY <2>2, <2>3, <2>4, BuildStep, CloudSame DEF GuestPCs, LaunchedPCs, RunningPCs
<1>3. CASE RecordKey
  <2>1. /\ ctl.pc = "h_key" /\ ctl'.pc = "h_import" /\ ctl'.host = ctl.host
        /\ UNCHANGED <<requests, cloud, token, born>> /\ journal' = mem'
    BY <1>3, MovedOn DEF RecordKey, Save, ec2
  <2>2. ctl.pc \in Middle \ {"h_next", "d_next"}  BY <2>1 DEF Middle
  <2>3. PICK g \in Hosts : g = ctl.host  BY <2>2, AtWork
  <2>4. mem' = [mem EXCEPT !.ids[<<g, "keypair">>] = {1}]
    BY <1>3, <2>2, <2>3, AtWork DEF RecordKey, Save
  <2>5. \A h \in Hosts : Knows(mem, h)  BY <2>2, AtWork
  <2>6. /\ \A t \in Things : mem'.ids[t] = IF t = <<g, "keypair">> THEN {1} ELSE mem.ids[t]
        /\ mem'.pending = mem.pending
        /\ \A h \in Hosts :
             /\ mem'.ids[<<h, "keypair">>] = IF h = g THEN {1} ELSE mem.ids[<<h, "keypair">>]
             /\ mem'.ids[<<h, "instance">>] = mem.ids[<<h, "instance">>]
             /\ mem'.ids[<<h, "eni">>] = mem.ids[<<h, "eni">>]
    <3>1. \A t \in Things : mem'.ids[t] = IF t = <<g, "keypair">> THEN {1} ELSE mem.ids[t]
      BY <2>4, GuestThing DEF TypeOK, Journal
    <3>2. mem'.pending = mem.pending  BY <2>4 DEF TypeOK, Journal
    <3>. QED  BY <3>1, <3>2, GuestThing
  <2>7. \A h \in Hosts : Knows(mem', h)
    <3>. SUFFICES ASSUME NEW h \in Hosts PROVE Knows(mem', h)  OBVIOUS
    <3>1. Knows(mem, h)  BY <2>5
    <3>2. 1 \in mem'.ids[<<h, "keypair">>] \/ mem'.ids[<<h, "keypair">>] = mem.ids[<<h, "keypair">>]
      BY <2>6
    <3>3. mem'.ids[<<h, "keypair">>] \subseteq {1}  BY <2>6, <3>1 DEF Knows
    <3>. QED  BY <2>6, <3>1, <3>2, <3>3 DEF Knows
  <2>8. \A t \in Things : mem.ids[t] \subseteq mem'.ids[t]
    BY <2>5, <2>6 DEF Knows
  <2>9. mem' \in Journal  BY DEF TypeOK
  <2>10. Standing'  BY <2>1, <2>7, <2>8, <2>9, RecordStep
  <2>11. BuildingAt(g)'  BY <2>1, <2>6 DEF BuildingAt, LaunchedPCs, RunningPCs
  <2>. QED
    BY <2>1, <2>3, <2>10, <2>11, BuildStep, CloudSame DEF GuestPCs
<1>4. CASE SaveGuest
  <2>1. /\ ctl.pc = "h_save" /\ ctl'.pc = "h_request"
        /\ UNCHANGED <<requests, mem, cloud, token, born>> /\ journal' = mem
    BY <1>4, MovedOn DEF SaveGuest, Save, ec2
  <2>2. Standing'  BY <2>1, PlainStep
  <2>. QED  BY <2>1, <2>2, BuildStep, CloudSame DEF GuestPCs, LaunchedPCs, RunningPCs
<1>5. CASE SaveRequest /\ ~Fails
  <2>1. /\ ctl.pc = "h_request" /\ ctl'.pc \in {"h_run", "h_publish"} /\ ctl'.host = ctl.host
        /\ UNCHANGED <<journal, mem, cloud, token, born>>
    BY <1>5, MovedOn DEF SaveRequest, Check, files, ec2
  <2>2. ctl.pc \in Middle \ {"h_next", "d_next"}  BY <2>1 DEF Middle
  <2>3. PICK g \in Hosts : g = ctl.host  BY <2>2, AtWork
  <2>4. CASE requests[g] = "saved" /\ requests' = requests
    <3>1. Standing'  BY <2>1, <2>4, PlainStep
    <3>. QED  BY <2>1, <2>3, <2>4, <3>1, BuildStep, CloudSame DEF GuestPCs, LaunchedPCs, RunningPCs
  <2>5. CASE requests[g] # "saved" /\ requests' = [requests EXCEPT ![g] = "partial"]
             /\ ctl'.pc = "h_publish"
    <3>1. \A h \in Hosts : requests[h] = "saved" => requests'[h] = "saved"  BY <2>5 DEF TypeOK
    <3>2. Standing'  BY <2>1, <3>1, PlainStep
    <3>. QED  BY <2>1, <2>5, <3>2, BuildStep, CloudSame DEF GuestPCs, LaunchedPCs, RunningPCs
  <2>. QED  BY <1>5, <2>3, <2>4, <2>5, MovedOn DEF SaveRequest, Check, files, Guest
<1>6. CASE PublishRequest
  <2>1. /\ ctl.pc = "h_publish" /\ ctl'.pc = "h_run" /\ ctl'.host = ctl.host
        /\ UNCHANGED <<journal, mem, cloud, token, born>>
        /\ requests' = [requests EXCEPT ![ctl.host] = "saved"]
    BY <1>6, MovedOn DEF PublishRequest, ec2, Guest
  <2>2. ctl.pc \in Middle \ {"h_next", "d_next"}  BY <2>1 DEF Middle
  <2>3. ctl.host \in Hosts  BY <2>2, AtWork
  <2>4. /\ \A h \in Hosts : requests[h] = "saved" => requests'[h] = "saved"
        /\ requests'[ctl.host] = "saved"
    BY <2>1, <2>3 DEF TypeOK
  <2>5. Standing'  BY <2>1, <2>4, PlainStep
  <2>. QED  BY <2>1, <2>4, <2>5, BuildStep, CloudSame DEF GuestPCs, LaunchedPCs, RunningPCs
<1>. QED  BY <1>1, <1>2, <1>3, <1>4, <1>5, <1>6 DEF NextHost, files, ec2

\* The launch is replayed, accepted and seen.
LEMMA LaunchStep ==
  ASSUME IInv, TypeOK', GInv, ReplayInstances \/ LaunchFails \/ AcceptLaunch \/ WaitRunning
  PROVE  GInv'
<1>. USE DEF IInv, At
<1>1. CASE Fails  BY <1>1, FailStands
<1>2. CASE ReplayInstances
  <2>1. /\ ctl.pc = "h_run" /\ ctl'.pc = "h_accept" /\ ctl'.host = ctl.host
        /\ UNCHANGED <<requests, journal, cloud, token, born>>
    BY <1>2, MovedOn DEF ReplayInstances, Remember, ec2
  <2>2. ctl.pc \in Middle \ {"h_next", "d_next"}  BY <2>1 DEF Middle
  <2>3. PICK g \in Hosts : g = ctl.host  BY <2>2, AtWork
  <2>4. /\ mem' = [mem EXCEPT !.ids[<<g, "instance">>] = token[g]]
        /\ token[g] # {} /\ token[g] \subseteq LiveIds(<<g, "instance">>)
        /\ mem.ids[<<g, "instance">>] \subseteq token[g]
    BY <1>2, <2>2, <2>3, AtWork DEF ReplayInstances, Remember, Started, Guest
  <2>5. \A h \in Hosts : Knows(mem, h)  BY <2>2, AtWork
  <2>6. /\ \A t \in Things : mem'.ids[t] = IF t = <<g, "instance">> THEN token[g] ELSE mem.ids[t]
        /\ mem'.pending = mem.pending
        /\ \A h \in Hosts :
             /\ mem'.ids[<<h, "keypair">>] = mem.ids[<<h, "keypair">>]
             /\ mem'.ids[<<h, "instance">>] = IF h = g THEN token[g] ELSE mem.ids[<<h, "instance">>]
             /\ mem'.ids[<<h, "eni">>] = mem.ids[<<h, "eni">>]
    <3>1. \A t \in Things : mem'.ids[t] = IF t = <<g, "instance">> THEN token[g] ELSE mem.ids[t]
      BY <2>4, GuestThing DEF TypeOK, Journal
    <3>2. mem'.pending = mem.pending  BY <2>4 DEF TypeOK, Journal
    <3>. QED  BY <3>1, <3>2, GuestThing
  <2>7. \A h \in Hosts : Knows(mem', h)  BY <2>5, <2>6 DEF Knows
  <2>8. \A t \in Things : mem.ids[t] \subseteq mem'.ids[t]  BY <2>4, <2>6
  <2>9. mem' \in Journal  BY DEF TypeOK
  <2>10. Standing'  BY <2>1, <2>7, <2>8, <2>9, RecordStep
  <2>11. BuildingAt(g)'
    <3>1. \A i \in token[g] : Live(State(g, "instance", i))  BY <2>4, ThereIs
    <3>2. \A i : State(g, "instance", i)' = State(g, "instance", i)  BY <2>1, CloudSame
    <3>3. token[g] \subseteq mem'.ids[<<g, "instance">>]  BY <2>6
    <3>. QED  BY <2>1, <2>4, <3>1, <3>2, <3>3 DEF BuildingAt, RunningPCs, Live
  <2>. QED
    BY <2>1, <2>3, <2>10, <2>11, BuildStep, CloudSame DEF GuestPCs
<1>3. CASE AcceptLaunch
  <2>1. /\ ctl.pc = "h_accept" /\ ctl'.pc = "h_wait" /\ ctl'.host = ctl.host
        /\ UNCHANGED <<requests, mem, cloud, token, born>> /\ journal' = mem
    BY <1>3, MovedOn DEF AcceptLaunch, Save, ec2
  <2>2. ctl.pc \in Middle \ {"h_next", "d_next"}  BY <2>1 DEF Middle
  <2>3. PICK g \in Hosts : g = ctl.host  BY <2>2, AtWork
  <2>4. BuildingAt(g)  BY <2>2, <2>3, AtWork
  <2>5. BuildingAt(g)'
    BY <2>1, <2>4, CloudSame DEF BuildingAt, LaunchedPCs, RunningPCs
  <2>6. Standing'  BY <2>1, PlainStep
  <2>. QED  BY <2>1, <2>3, <2>5, <2>6, BuildStep, CloudSame DEF GuestPCs
<1>4. CASE WaitRunning /\ ~Fails
  <2>1. /\ ctl.pc = "h_wait" /\ ctl'.pc = "e_info" /\ ctl'.host = ctl.host
        /\ UNCHANGED <<requests, journal, mem, cloud, token, born>>
        /\ Found(Mine("instance")) # {}
    BY <1>4, MovedOn DEF WaitRunning, Check, files, ec2
  <2>2. ctl.pc \in Middle \ {"h_next", "d_next"}  BY <2>1 DEF Middle
  <2>3. PICK g \in Hosts : g = ctl.host  BY <2>2, AtWork
  <2>4. BuildingAt(g) /\ Mine("instance") = <<g, "instance">>  BY <2>2, <2>3, AtWork
  <2>5. PICK i \in Ids : State(g, "instance", i) \in {"up", "attached"}
    BY <2>1, <2>4 DEF Found, Seen, State
  <2>6. \A j \in token[g] : j = i  BY <2>5 DEF GInv, Single
  <2>7. BuildingAt(g)'
    BY <2>1, <2>4, <2>5, <2>6, CloudSame DEF BuildingAt, LaunchedPCs, RunningPCs
  <2>8. Standing'  BY <2>1, PlainStep
  <2>. QED  BY <2>1, <2>3, <2>7, <2>8, BuildStep, CloudSame DEF GuestPCs
<1>. QED  BY <1>1, <1>2, <1>3, <1>4 DEF LaunchFails

\* What the instance has attached is all that was recorded of its interfaces.
LEMMA DescendantsKept ==
  ASSUME IInv, GInv, NEW g \in Hosts, g = ctl.host, ctl.pc = "h_descend"
  PROVE  mem.ids[<<g, "eni">>] \subseteq {i \in Ids : State(g, "eni", i) = "attached"}
<1>1. mem.ids[<<g, "eni">>] \subseteq Ids  BY GuestThing DEF IInv, TypeOK, Journal
<1>2. BuildingAt(g) /\ Knows(mem, g)
  <2>1. ctl.pc \in Middle \ {"h_next", "d_next"}  BY DEF Middle
  <2>. QED  BY <2>1, AtWork
<1>3. PICK x \in Ids : State(g, "eni", x) = "attached"  BY <1>2 DEF BuildingAt
<1>4. ~Terminated(g)
  BY <1>2 DEF BuildingAt, LaunchedPCs, RunningPCs, Terminated, Live
<1>5. ASSUME NEW i \in mem.ids[<<g, "eni">>] PROVE i = x
  <2>1. i \in Ids /\ State(g, "eni", i) # "none"  BY <1>1, <1>2 DEF Knows
  <2>2. State(g, "eni", i) # "gone"  BY <1>4, <2>1 DEF GInv, Interfaces
  <2>3. Live(State(g, "eni", i)) /\ Live(State(g, "eni", x))
    BY <1>3, <2>1, <2>2, StateTypes DEF States, Live, IInv
  <2>. QED  BY <2>1, <2>3 DEF GInv, Single
<1>. QED  BY <1>1, <1>3, <1>5

\* The interface is looked for, recorded, and read back from the instance.
LEMMA EniStep ==
  ASSUME IInv, TypeOK', GInv, EniInfo \/ EniRecord \/ SaveDescendants
  PROVE  GInv'
<1>. USE DEF IInv, At
<1>1. CASE Fails  BY <1>1, FailStands
<1>2. CASE EniInfo /\ ~Fails
  <2>1. ctl.pc = "e_info" /\ ctl.pc \in Middle \ {"h_next", "d_next"}
    BY <1>2 DEF EniInfo, Middle
  <2>2. PICK g \in Hosts : g = ctl.host  BY <2>1, AtWork
  <2>3. Mine("eni") = <<g, "eni">> /\ Guest = g  BY <2>1, <2>2, AtWork DEF Guest
  <2>4. /\ mem' = Pending(g, "eni") /\ journal' = mem'
        /\ ctl' = [ctl EXCEPT !.pc = "e_create", !.target["eni"] = Seen(<<g, "eni">>)]
        /\ UNCHANGED <<requests, cloud, token, born>>
        /\ Seen(<<g, "eni">>) = {} => mem.pending[g] # "eni"
    BY <1>2, <2>3 DEF EniInfo, Save, ec2
  <2>5. /\ ctl'.pc = "e_create" /\ ctl'.host = ctl.host
        /\ ctl'.target["eni"] = Seen(<<g, "eni">>)
    BY <2>4, GuestThing DEF TypeOK, Control
  <2>6. /\ mem'.ids = mem.ids
        /\ \A h \in Hosts : mem'.pending[h] = IF h = g THEN "eni" ELSE mem.pending[h]
    BY <2>4 DEF Pending, TypeOK, Journal, Scopes
  <2>7. \A h \in Hosts : Knows(mem, h)  BY <2>1, AtWork
  <2>8. \A h \in Hosts : Knows(mem', h)  BY <2>6, <2>7 DEF Knows
  <2>9. mem' \in Journal /\ \A t \in Things : mem.ids[t] \subseteq mem'.ids[t]
    BY <2>6 DEF TypeOK
  <2>10. Standing'  BY <2>1, <2>4, <2>8, <2>9, RecordStep DEF Middle
  <2>11. /\ \A i \in Seen(<<g, "eni">>) : State(g, "eni", i) \in {"up", "attached"}
         /\ Seen(<<g, "eni">>) = {} => ~There(g, "eni")
    <3>1. \A i \in Ids : i \in Seen(<<g, "eni">>) <=> State(g, "eni", i) \in {"up", "attached"}
      BY DEF Seen, State
    <3>2. Seen(<<g, "eni">>) = {} => \A i \in Ids : State(g, "eni", i) # "hidden"
      BY <2>4, <2>7 DEF Knows
    <3>. QED  BY <3>1, <3>2 DEF There, Live, Seen
  <2>12. BuildingAt(g)'
    <3>1. BuildingAt(g)  BY <2>1, <2>2, AtWork
    <3>. QED
      BY <2>1, <2>4, <2>5, <2>6, <2>11, <3>1, CloudSame DEF BuildingAt, LaunchedPCs, RunningPCs
  <2>. QED  BY <2>1, <2>2, <2>4, <2>5, <2>10, <2>12, BuildStep, CloudSame DEF GuestPCs
<1>3. CASE EniRecord
  <2>1. /\ ctl.pc = "e_record" /\ ctl'.pc = "e_attach" /\ ctl'.host = ctl.host
        /\ UNCHANGED <<requests, mem, cloud, token, born>> /\ journal' = mem
    BY <1>3, MovedOn DEF EniRecord, Save, ec2
  <2>2. ctl.pc \in Middle \ {"h_next", "d_next"}  BY <2>1 DEF Middle
  <2>3. PICK g \in Hosts : g = ctl.host  BY <2>2, AtWork
  <2>4. BuildingAt(g)  BY <2>2, <2>3, AtWork
  <2>5. BuildingAt(g)'
    BY <2>1, <2>4, CloudSame DEF BuildingAt, LaunchedPCs, RunningPCs
  <2>6. Standing'  BY <2>1, PlainStep
  <2>. QED  BY <2>1, <2>3, <2>5, <2>6, BuildStep, CloudSame DEF GuestPCs
<1>4. CASE SaveDescendants
  <2>1. ctl.pc = "h_descend" /\ ctl.pc \in Middle \ {"h_next", "d_next"}
    BY <1>4 DEF SaveDescendants, Middle
  <2>2. PICK g \in Hosts : g = ctl.host  BY <2>1, AtWork
  <2>. DEFINE attached == {i \in Ids : State(g, "eni", i) = "attached"}
  <2>3. /\ mem' = [mem EXCEPT !.ids[<<g, "eni">>] = attached] /\ journal' = mem'
        /\ ctl' = [ctl EXCEPT !.pc = "h_next", !.todo = @ \ {Guest}]
        /\ UNCHANGED <<requests, cloud, token, born>>
    <3>1. Mine("eni") = <<g, "eni">>  BY <2>1, <2>2, AtWork
    <3>2. attached = {i \in Ids : cloud[Mine("eni")][i] = "attached"}  BY <3>1 DEF State
    <3>. QED  BY <1>4, <3>1, <3>2 DEF SaveDescendants, Save, ec2
  <2>4. ctl'.pc = "h_next"  BY <2>3 DEF TypeOK, Control
  <2>5. \A h \in Hosts : Knows(mem, h)  BY <2>1, AtWork
  <2>6. /\ \A t \in Things : mem'.ids[t] = IF t = <<g, "eni">> THEN attached ELSE mem.ids[t]
        /\ mem'.pending = mem.pending
        /\ \A h \in Hosts :
             /\ mem'.ids[<<h, "keypair">>] = mem.ids[<<h, "keypair">>]
             /\ mem'.ids[<<h, "instance">>] = mem.ids[<<h, "instance">>]
             /\ mem'.ids[<<h, "eni">>] = IF h = g THEN attached ELSE mem.ids[<<h, "eni">>]
    <3>1. \A t \in Things : mem'.ids[t] = IF t = <<g, "eni">> THEN attached ELSE mem.ids[t]
      BY <2>3, GuestThing DEF TypeOK, Journal
    <3>2. mem'.pending = mem.pending  BY <2>3 DEF TypeOK, Journal
    <3>. QED  BY <3>1, <3>2, GuestThing
  <2>7. mem.ids[<<g, "eni">>] \subseteq attached  BY <2>1, <2>2, DescendantsKept
  <2>8. \A h \in Hosts : Knows(mem', h)
    <3>. SUFFICES ASSUME NEW h \in Hosts PROVE Knows(mem', h)  OBVIOUS
    <3>1. Knows(mem, h)  BY <2>5
    <3>2. \A i \in mem'.ids[<<h, "eni">>] : State(h, "eni", i) # "none"  BY <2>6, <3>1 DEF Knows
    <3>. QED  BY <2>6, <3>1, <3>2 DEF Knows
  <2>9. \A t \in Things : mem.ids[t] \subseteq mem'.ids[t]  BY <2>6, <2>7
  <2>10. mem' \in Journal  BY DEF TypeOK
  <2>11. Standing'  BY <2>1, <2>3, <2>8, <2>9, <2>10, RecordStep DEF Middle
  <2>. QED  BY <2>1, <2>3, <2>4, <2>11, BuildStep, CloudSame DEF GuestPCs, LaunchedPCs, RunningPCs
<1>. QED  BY <1>1, <1>2, <1>3, <1>4

-------------------------------------------------------------------------------
(* Create: steps that make something                                       *)

\* What is made.
LEMMA PutGroup ==
  ASSUME TypeOK, NEW g \in Hosts, NEW i \in Ids, NEW s, Put(<<g, "group">>, i, s)
  PROVE  /\ \A h \in Hosts, x \in Ids :
              /\ State(h, "keypair", x)' = State(h, "keypair", x)
              /\ State(h, "group", x)' = IF h = g /\ x = i THEN s ELSE State(h, "group", x)
              /\ State(h, "instance", x)' = State(h, "instance", x)
              /\ State(h, "eni", x)' = State(h, "eni", x)
         /\ VpcThere' = VpcThere
<1>1. "group" \in GuestKinds  BY GuestThing
<1>2. /\ \A h \in Hosts, x \in Ids :
           /\ State(h, "keypair", x)' =
                IF h = g /\ "group" = "keypair" /\ x = i THEN s ELSE State(h, "keypair", x)
           /\ State(h, "group", x)' =
                IF h = g /\ "group" = "group" /\ x = i THEN s ELSE State(h, "group", x)
           /\ State(h, "instance", x)' =
                IF h = g /\ "group" = "instance" /\ x = i THEN s ELSE State(h, "instance", x)
           /\ State(h, "eni", x)' =
                IF h = g /\ "group" = "eni" /\ x = i THEN s ELSE State(h, "eni", x)
      /\ VpcThere' = VpcThere
  BY <1>1, PutState, Zenon
<1>. QED  BY <1>2

LEMMA PutInstance ==
  ASSUME TypeOK, NEW g \in Hosts, NEW i \in Ids, NEW s, Put(<<g, "instance">>, i, s)
  PROVE  /\ \A h \in Hosts, x \in Ids :
              /\ State(h, "keypair", x)' = State(h, "keypair", x)
              /\ State(h, "group", x)' = State(h, "group", x)
              /\ State(h, "instance", x)' = IF h = g /\ x = i THEN s ELSE State(h, "instance", x)
              /\ State(h, "eni", x)' = State(h, "eni", x)
         /\ VpcThere' = VpcThere
<1>1. "instance" \in GuestKinds  BY GuestThing
<1>2. /\ \A h \in Hosts, x \in Ids :
           /\ State(h, "keypair", x)' =
                IF h = g /\ "instance" = "keypair" /\ x = i THEN s ELSE State(h, "keypair", x)
           /\ State(h, "group", x)' =
                IF h = g /\ "instance" = "group" /\ x = i THEN s ELSE State(h, "group", x)
           /\ State(h, "instance", x)' =
                IF h = g /\ "instance" = "instance" /\ x = i THEN s ELSE State(h, "instance", x)
           /\ State(h, "eni", x)' =
                IF h = g /\ "instance" = "eni" /\ x = i THEN s ELSE State(h, "eni", x)
      /\ VpcThere' = VpcThere
  BY <1>1, PutState, Zenon
<1>. QED  BY <1>2

LEMMA PutEni ==
  ASSUME TypeOK, NEW g \in Hosts, NEW i \in Ids, NEW s, Put(<<g, "eni">>, i, s)
  PROVE  /\ \A h \in Hosts, x \in Ids :
              /\ State(h, "keypair", x)' = State(h, "keypair", x)
              /\ State(h, "group", x)' = State(h, "group", x)
              /\ State(h, "instance", x)' = State(h, "instance", x)
              /\ State(h, "eni", x)' = IF h = g /\ x = i THEN s ELSE State(h, "eni", x)
         /\ VpcThere' = VpcThere
<1>1. "eni" \in GuestKinds  BY GuestThing
<1>2. /\ \A h \in Hosts, x \in Ids :
           /\ State(h, "keypair", x)' =
                IF h = g /\ "eni" = "keypair" /\ x = i THEN s ELSE State(h, "keypair", x)
           /\ State(h, "group", x)' =
                IF h = g /\ "eni" = "group" /\ x = i THEN s ELSE State(h, "group", x)
           /\ State(h, "instance", x)' =
                IF h = g /\ "eni" = "instance" /\ x = i THEN s ELSE State(h, "instance", x)
           /\ State(h, "eni", x)' =
                IF h = g /\ "eni" = "eni" /\ x = i THEN s ELSE State(h, "eni", x)
      /\ VpcThere' = VpcThere
  BY <1>1, PutState, Zenon
<1>. QED  BY <1>2

\* What the play remembers of an answer.
LEMMA RecordedIs ==
  ASSUME TypeOK, NEW g \in Hosts, NEW k \in GuestKinds, NEW ids
  PROVE  /\ \A t \in Things : Recorded(<<g, k>>, ids).ids[t] =
              IF t = <<g, k>> THEN mem.ids[t] \cup ids ELSE mem.ids[t]
         /\ \A h \in Hosts : Recorded(<<g, k>>, ids).pending[h] =
              IF h = g /\ mem.pending[h] = k THEN NoKind ELSE mem.pending[h]
<1>1. \A t \in Things : Recorded(<<g, k>>, ids).ids[t] =
        IF t = <<g, k>> THEN mem.ids[t] \cup ids ELSE mem.ids[t]
  BY GuestThing DEF Recorded, TypeOK, Journal
<1>2. \A h \in Hosts : Recorded(<<g, k>>, ids).pending[h] =
        IF h = g /\ mem.pending[h] = k THEN NoKind ELSE mem.pending[h]
  BY GuestThing DEF Recorded, TypeOK, Journal, Scopes
<1>. QED  BY <1>1, <1>2

\* The play's copy of the records, if it goes on.
Remembers ==
  ctl'.pc # "idle" => /\ \A h \in Hosts : Knows(mem, h)'
                      /\ \A t \in Things : mem.ids[t] \subseteq mem'.ids[t]

LEMMA GroupMade ==
  ASSUME IInv, GInv, NEW g \in Hosts, NEW i \in Ids, NEW s \in {"up", "hidden"},
         Put(<<g, "group">>, i, s), ~There(g, "group"), VpcThere, ctl.pc # "idle",
         UNCHANGED <<journal, requests, token, born>>, Remembers
  PROVE  Standing' /\ VpcThere'
<1>. USE DEF IInv, GInv
<1>1. /\ \A h \in Hosts, x \in Ids :
           /\ State(h, "keypair", x)' = State(h, "keypair", x)
           /\ State(h, "group", x)' = IF h = g /\ x = i THEN s ELSE State(h, "group", x)
           /\ State(h, "instance", x)' = State(h, "instance", x)
           /\ State(h, "eni", x)' = State(h, "eni", x)
      /\ VpcThere' = VpcThere
  BY PutGroup
<1>2. /\ \A h \in Hosts : token[h] \subseteq Ids
      /\ \A h \in Hosts : journal # NoRun => journal.ids[<<h, "eni">>] \subseteq Ids
  BY GuestThing DEF TypeOK, Journal
<1>3. \A h \in Hosts :
        /\ There(h, "instance")' = There(h, "instance")
        /\ There(h, "eni")' = There(h, "eni")
        /\ There(h, "group") => There(h, "group")'
        /\ Interfaced(h)' = Interfaced(h)
  <2>1. \A x \in Ids : ~Live(State(g, "group", x))  BY DEF There
  <2>. QED  BY <1>1, <2>1 DEF There, Interfaced
<1>4. Records'
  <2>1. ASSUME NEW h \in Hosts, journal # NoRun PROVE Knows(journal, h)'
    <3>1. Knows(journal, h)  BY <2>1 DEF Records
    <3>. QED  BY <1>1, <1>2, <1>3, <2>1, <3>1, GuestThing DEF Knows
  <2>. QED  BY <2>1 DEF Records, Remembers
<1>5. Birth'  BY DEF Birth
<1>6. Keys'  BY <1>1, GuestThing DEF Keys
<1>7. Hangs'  BY <1>1, <1>3 DEF Hangs
<1>8. Single'
  <2>1. \A x \in Ids : ~Live(State(g, "group", x))  BY DEF There
  <2>. QED  BY <1>1, <1>2, <2>1 DEF Single
<1>9. Interfaces'  BY <1>1, <1>2, <1>3 DEF Interfaces, Terminated
<1>10. Saved'  BY <1>3 DEF Replayable, Saved
<1>. QED  BY <1>1, <1>4, <1>5, <1>6, <1>7, <1>8, <1>9, <1>10 DEF Standing

LEMMA InstanceMade ==
  ASSUME IInv, GInv, NEW g \in Hosts, NEW i \in Ids, NEW s \in {"up", "hidden"},
         Put(<<g, "instance">>, i, s), token[g] = {}, token' = [token EXCEPT ![g] = {i}],
         There(g, "group"), requests[g] = "saved", ctl.pc # "idle",
         UNCHANGED <<journal, requests, born>>, Remembers
  PROVE  Standing' /\ VpcThere'
<1>. USE DEF IInv, GInv
<1>1. /\ \A h \in Hosts, x \in Ids :
           /\ State(h, "keypair", x)' = State(h, "keypair", x)
           /\ State(h, "group", x)' = State(h, "group", x)
           /\ State(h, "instance", x)' = IF h = g /\ x = i THEN s ELSE State(h, "instance", x)
           /\ State(h, "eni", x)' = State(h, "eni", x)
      /\ VpcThere' = VpcThere
  BY PutInstance
<1>2. /\ \A h \in Hosts : token[h] \subseteq Ids
      /\ \A h \in Hosts : token'[h] = IF h = g THEN {i} ELSE token[h]
      /\ \A h \in Hosts : journal # NoRun => journal.ids[<<h, "eni">>] \subseteq Ids
  BY GuestThing DEF TypeOK, Journal
<1>3. \A x \in Ids : State(g, "instance", x) = "none"  BY DEF Single
<1>4. /\ ~Interfaced(g)
      /\ \A h \in Hosts :
           /\ There(h, "group")' = There(h, "group")
           /\ There(h, "eni")' = There(h, "eni")
           /\ h # g => There(h, "instance")' = There(h, "instance")
           /\ Interfaced(h)' = Interfaced(h)
  <2>1. ~Interfaced(g)  BY DEF Interfaces
  <2>. QED  BY <1>1, <2>1 DEF There, Interfaced
<1>5. Records'
  <2>1. ASSUME NEW h \in Hosts, journal # NoRun PROVE Knows(journal, h)'
    <3>1. Knows(journal, h)  BY <2>1 DEF Records
    <3>. QED  BY <1>1, <1>2, <1>4, <2>1, <3>1, GuestThing DEF Knows
  <2>. QED  BY <2>1 DEF Records, Remembers
<1>6. Birth'  BY DEF Birth
<1>7. Keys'  BY <1>1, GuestThing DEF Keys
<1>8. Hangs'
  <2>1. Hangs /\ VpcThere' = VpcThere  BY <1>1
  <2>2. ASSUME NEW h \in Hosts
        PROVE  /\ There(h, "instance")' \/ There(h, "eni")' => There(h, "group")'
               /\ There(h, "group")' => VpcThere'
    <3>1. CASE h = g  BY <1>4, <2>1, <3>1 DEF Hangs
    <3>2. CASE h # g  BY <1>4, <2>1, <3>2 DEF Hangs
    <3>. QED  BY <3>1, <3>2
  <2>. QED  BY <2>2 DEF Hangs
<1>9. Single'  BY <1>1, <1>2, <1>3 DEF Single
<1>10. Interfaces'
  <2>1. \A x \in Ids : State(g, "eni", x) = "none"  BY <1>4 DEF Interfaced
  <2>2. ASSUME NEW h \in Hosts, h # g
        PROVE  /\ Interfaced(h)' => /\ token'[h] # {}
                                    /\ \A x \in token'[h] : State(h, "instance", x)' # "hidden"
               /\ (\E x \in Ids : State(h, "eni", x)' = "gone") => Terminated(h)'
    BY <1>1, <1>2, <1>4, <2>2 DEF Interfaces, Terminated
  <2>3. ~Interfaced(g)' /\ \A x \in Ids : State(g, "eni", x)' # "gone"  BY <1>1, <1>4, <2>1
  <2>. QED  BY <2>2, <2>3 DEF Interfaces
<1>11. Saved'
  <2>1. \A h \in Hosts : h # g => There(h, "instance")' = There(h, "instance")  BY <1>4
  <2>. QED  BY <2>1 DEF Replayable, Saved
<1>12. VpcThere'  BY <1>1 DEF Hangs
<1>. QED
  BY <1>5, <1>6, <1>7, <1>8, <1>9, <1>10, <1>11, <1>12 DEF Standing

LEMMA EniMade ==
  ASSUME IInv, GInv, NEW g \in Hosts, NEW i \in Ids, NEW s \in {"up", "hidden"},
         Put(<<g, "eni">>, i, s), State(g, "eni", i) = "none", ~There(g, "eni"),
         ctl.pc = "e_create", ctl.host = g, UNCHANGED <<journal, requests, token, born>>, Remembers
  PROVE  Standing' /\ VpcThere'
<1>. USE DEF IInv, GInv
<1>1. /\ \A h \in Hosts, x \in Ids :
           /\ State(h, "keypair", x)' = State(h, "keypair", x)
           /\ State(h, "group", x)' = State(h, "group", x)
           /\ State(h, "instance", x)' = State(h, "instance", x)
           /\ State(h, "eni", x)' = IF h = g /\ x = i THEN s ELSE State(h, "eni", x)
      /\ VpcThere' = VpcThere
  BY PutEni
<1>2. /\ \A h \in Hosts : token[h] \subseteq Ids
      /\ \A h \in Hosts : journal # NoRun => journal.ids[<<h, "eni">>] \subseteq Ids
  BY GuestThing DEF TypeOK, Journal
<1>3. /\ BuildingAt(g) /\ journal # NoRun
      /\ \A h \in Hosts : Knows(journal, h)
  <2>1. ctl.pc \in Middle \ {"h_next", "d_next"}  BY DEF Middle
  <2>. QED  BY <2>1, AtWork
<1>4. /\ There(g, "instance") /\ token[g] # {}
      /\ \A x \in token[g] : State(g, "instance", x) # "hidden"
      /\ token[g] \subseteq journal.ids[<<g, "instance">>] /\ journal.pending[g] = "eni"
  BY <1>2, <1>3 DEF BuildingAt, LaunchedPCs, RunningPCs, There
<1>5. \A h \in Hosts :
        /\ There(h, "instance")' = There(h, "instance")
        /\ There(h, "group")' = There(h, "group")
        /\ h # g => There(h, "eni")' = There(h, "eni") /\ Interfaced(h)' = Interfaced(h)
  BY <1>1 DEF There, Interfaced
<1>6. Records'
  <2>1. ASSUME NEW h \in Hosts PROVE Knows(journal, h)'
    <3>1. Knows(journal, h)  BY <1>3
    <3>2. Interfaced(h)' => token[h] \subseteq journal.ids[<<h, "instance">>]
      <4>1. CASE h = g  BY <1>4, <4>1
      <4>2. CASE h # g  BY <1>5, <3>1, <4>2 DEF Knows
      <4>. QED  BY <4>1, <4>2
    <3>3. \A x \in Ids : State(h, "eni", x)' = "hidden" => journal.pending[h] = "eni"
      BY <1>1, <1>4, <3>1 DEF Knows
    <3>4. \A x \in journal.ids[<<h, "eni">>] : State(h, "eni", x)' # "none"
      BY <1>1, <1>2, <1>3, <3>1 DEF Knows
    <3>. QED  BY <1>1, <3>1, <3>2, <3>3, <3>4, GuestThing DEF Knows
  <2>. QED  BY <2>1 DEF Records, Remembers
<1>7. Birth'  BY <1>3 DEF Birth
<1>8. Keys'  BY <1>1, GuestThing DEF Keys
<1>9. Hangs'
  <2>1. Hangs /\ VpcThere' = VpcThere  BY <1>1
  <2>2. ASSUME NEW h \in Hosts
        PROVE  /\ There(h, "instance")' \/ There(h, "eni")' => There(h, "group")'
               /\ There(h, "group")' => VpcThere'
    <3>1. CASE h = g  BY <1>4, <1>5, <2>1, <3>1 DEF Hangs
    <3>2. CASE h # g  BY <1>5, <2>1, <3>2 DEF Hangs
    <3>. QED  BY <3>1, <3>2
  <2>. QED  BY <2>2 DEF Hangs
<1>10. Single'
  <2>1. \A x \in Ids : ~Live(State(g, "eni", x))  BY DEF There
  <2>. QED  BY <1>1, <1>2, <2>1 DEF Single
<1>11. Interfaces'
  <2>1. ASSUME NEW h \in Hosts
        PROVE  /\ Interfaced(h)' => /\ token[h] # {}
                                    /\ \A x \in token[h] : State(h, "instance", x)' # "hidden"
               /\ (\E x \in Ids : State(h, "eni", x)' = "gone") => Terminated(h)'
    <3>1. (\E x \in Ids : State(h, "eni", x)' = "gone") => \E x \in Ids : State(h, "eni", x) = "gone"
      BY <1>1
    <3>2. Terminated(h)' = Terminated(h)  BY <1>1, <1>2 DEF Terminated
    <3>3. (\E x \in Ids : State(h, "eni", x)' = "gone") => Terminated(h)'
      BY <3>1, <3>2 DEF Interfaces
    <3>4. CASE h = g  BY <1>1, <1>2, <1>4, <3>3, <3>4
    <3>5. CASE h # g  BY <1>1, <1>2, <1>5, <3>3, <3>5 DEF Interfaces
    <3>. QED  BY <3>4, <3>5
  <2>. QED  BY <2>1 DEF Interfaces
<1>12. Saved'  BY <1>5 DEF Replayable, Saved
<1>13. VpcThere'  BY <1>1 DEF Building, GuestPCs
<1>. QED
  BY <1>6, <1>7, <1>8, <1>9, <1>10, <1>11, <1>12, <1>13 DEF Standing

\* An unused id names nothing.
LEMMA Unmade ==
  ASSUME NEW h, NEW k, NEW i \in Unused(<<h, k>>)
  PROVE  i \in Ids /\ State(h, k, i) = "none"
BY DEF Unused, State

LEMMA CreateGroupStep == ASSUME IInv, TypeOK', GInv, CreateGroup PROVE GInv'
<1>. USE DEF IInv, At
<1>1. ctl.pc = "h_group" /\ ctl.pc \in Middle \ {"h_next", "d_next"}
  BY DEF CreateGroup, Middle
<1>2. PICK g \in Hosts : g = ctl.host  BY <1>1, AtWork
<1>3. /\ Mine("group") = <<g, "group">> /\ \A h \in Hosts : Knows(mem, h)
      /\ VpcThere /\ UNCHANGED <<requests, token, born>>
      /\ "group" \in GuestKinds /\ <<g, "group">> \in Things
  BY <1>1, <1>2, AtWork, GuestThing DEF CreateGroup, GInv, Building, GuestPCs
<1>. DEFINE t == <<g, "group">>
<1>4. CASE /\ Remember([mem EXCEPT !.ids[t] = IF @ = {} THEN Seen(t) ELSE @]) /\ Goto("h_save")
           /\ UNCHANGED <<cloud, faults>>
  <2>1. /\ ctl'.pc = "h_save" /\ journal' = journal
        /\ mem' = [mem EXCEPT !.ids[t] = IF @ = {} THEN Seen(t) ELSE @]
    BY <1>4, MovedOn DEF Remember
  <2>2. /\ \A u \in Things : u # t => mem'.ids[u] = mem.ids[u]
        /\ mem.ids[t] \subseteq mem'.ids[t]
        /\ mem'.pending = mem.pending
    BY <1>3, <2>1 DEF TypeOK, Journal
  <2>3. \A h \in Hosts : /\ mem'.ids[<<h, "keypair">>] = mem.ids[<<h, "keypair">>]
                         /\ mem'.ids[<<h, "instance">>] = mem.ids[<<h, "instance">>]
                         /\ mem'.ids[<<h, "eni">>] = mem.ids[<<h, "eni">>]
    BY <2>2, GuestThing
  <2>4. \A h \in Hosts : Knows(mem', h)  BY <1>3, <2>2, <2>3 DEF Knows
  <2>5. mem' \in Journal /\ \A u \in Things : mem.ids[u] \subseteq mem'.ids[u]
    BY <2>2 DEF TypeOK
  <2>6. Standing'  BY <1>1, <1>3, <1>4, <2>1, <2>4, <2>5, RecordStep
  <2>. QED
    BY <1>1, <1>4, <2>1, <2>6, BuildStep, CloudSame, <1>3 DEF GuestPCs, LaunchedPCs, RunningPCs
<1>5. ASSUME NEW i \in Ids, Created(t, i, "h_save"), LiveIds(t) = {} PROVE GInv'
  <2>1. /\ Put(t, i, "up") /\ journal' = journal /\ mem' = Recorded(t, {i})
        /\ ctl'.pc = "h_save"
    BY <1>5, MovedOn DEF Created, Remember
  <2>2. /\ \A u \in Things : mem'.ids[u] = IF u = t THEN mem.ids[u] \cup {i} ELSE mem.ids[u]
        /\ \A h \in Hosts : mem'.pending[h] = IF h = g /\ mem.pending[h] = "group" THEN NoKind
                                              ELSE mem.pending[h]
    BY <1>3, <2>1, RecordedIs
  <2>3. \A h \in Hosts : /\ mem'.ids[<<h, "keypair">>] = mem.ids[<<h, "keypair">>]
                         /\ mem'.ids[<<h, "instance">>] = mem.ids[<<h, "instance">>]
                         /\ mem'.ids[<<h, "eni">>] = mem.ids[<<h, "eni">>]
    BY <2>2, GuestThing
  <2>4. \A h \in Hosts : Knows(mem, h)'
    <3>. SUFFICES ASSUME NEW h \in Hosts PROVE Knows(mem, h)'  OBVIOUS
    <3>1. \A x \in Ids : /\ State(h, "keypair", x)' = State(h, "keypair", x)
                         /\ State(h, "eni", x)' = State(h, "eni", x)
      BY <2>1, PutGroup
    <3>2. Interfaced(h)' = Interfaced(h)  BY <3>1 DEF Interfaced
    <3>3. Knows(mem, h) /\ mem.ids[<<h, "eni">>] \subseteq Ids
      BY <1>3, GuestThing DEF TypeOK, Journal
    <3>. QED  BY <1>3, <2>2, <2>3, <3>1, <3>2, <3>3, GuestThing DEF Knows
  <2>5. Remembers  BY <2>2, <2>4 DEF Remembers
  <2>6. ~There(g, "group")  BY <1>5, ThereIs
  <2>7. Standing' /\ VpcThere'  BY <1>1, <1>3, <2>1, <2>5, <2>6, GroupMade
  <2>. QED  BY <1>1, <2>1, <2>7, BuildStep DEF GuestPCs, LaunchedPCs, RunningPCs
<1>6. ASSUME NEW i \in Ids, Lost(t, i), LiveIds(t) = {} PROVE GInv'
  <2>1. PICK s \in {"up", "hidden"} : Put(t, i, s)  BY <1>6 DEF Lost
  <2>2. ctl'.pc = "idle" /\ journal' = journal  BY <1>6 DEF Lost, Stop, Idle
  <2>3. ~There(g, "group")  BY <1>6, ThereIs
  <2>4. Remembers  BY <2>2 DEF Remembers
  <2>5. Standing'  BY <1>1, <1>3, <2>1, <2>2, <2>3, <2>4, GroupMade
  <2>. QED  BY <2>2, <2>5, IdleStands
<1>7. CASE RefusedCall(t) \/ (Stop /\ UNCHANGED <<journal, mem, cloud, faults>>)
  BY <1>3, <1>7, StopStands DEF RefusedCall
<1>. QED  BY <1>3, <1>4, <1>5, <1>6, <1>7 DEF CreateGroup

LEMMA RunInstancesStep == ASSUME IInv, TypeOK', GInv, RunInstances PROVE GInv'
<1>. USE DEF IInv, At
<1>1. ctl.pc = "h_run" /\ ctl.pc \in Middle \ {"h_next", "d_next"}
  BY DEF RunInstances, Middle
<1>2. PICK g \in Hosts : g = ctl.host  BY <1>1, AtWork
<1>. DEFINE t == <<g, "instance">>
<1>3. /\ Mine("instance") = t /\ Mine("group") = <<g, "group">> /\ \A h \in Hosts : Knows(mem, h)
      /\ VpcThere /\ UNCHANGED <<requests, born>> /\ token[g] = {}
      /\ "instance" \in GuestKinds /\ t \in Things /\ requests[g] = "saved"
  BY <1>1, <1>2, AtWork, GuestThing
  DEF RunInstances, GInv, Building, GuestPCs, Started, Guest, Replayable
<1>4. There(g, "group")  BY <1>3, ThereIs DEF RunInstances, Launchable
<1>5. ~Interfaced(g)  BY <1>3 DEF GInv, Interfaces
<1>6. ASSUME NEW i \in Ids, Created(t, i, "h_accept"), token' = [token EXCEPT ![g] = {i}]
      PROVE  GInv'
  <2>1. /\ Put(t, i, "up") /\ journal' = journal /\ mem' = Recorded(t, {i})
        /\ ctl'.pc = "h_accept" /\ ctl'.host = ctl.host
    BY <1>6, MovedOn DEF Created, Remember
  <2>2. /\ \A u \in Things : mem'.ids[u] = IF u = t THEN mem.ids[u] \cup {i} ELSE mem.ids[u]
        /\ \A h \in Hosts : mem'.pending[h] = IF h = g /\ mem.pending[h] = "instance" THEN NoKind
                                              ELSE mem.pending[h]
    BY <1>3, <2>1, RecordedIs
  <2>3. \A h \in Hosts : /\ mem'.ids[<<h, "keypair">>] = mem.ids[<<h, "keypair">>]
                         /\ mem.ids[<<h, "instance">>] \subseteq mem'.ids[<<h, "instance">>]
                         /\ mem'.ids[<<h, "eni">>] = mem.ids[<<h, "eni">>]
    BY <2>2, GuestThing
  <2>4. \A h \in Hosts : token'[h] = IF h = g THEN {i} ELSE token[h]  BY <1>6 DEF TypeOK
  <2>5. \A h \in Hosts : Knows(mem, h)'
    <3>. SUFFICES ASSUME NEW h \in Hosts PROVE Knows(mem, h)'  OBVIOUS
    <3>1. \A x \in Ids : /\ State(h, "keypair", x)' = State(h, "keypair", x)
                         /\ State(h, "eni", x)' = State(h, "eni", x)
      BY <2>1, PutInstance
    <3>2. Interfaced(h)' = Interfaced(h)  BY <3>1 DEF Interfaced
    <3>3. Knows(mem, h) /\ mem.ids[<<h, "eni">>] \subseteq Ids
      BY <1>3, GuestThing DEF TypeOK, Journal
    <3>4. Interfaced(h)' => token'[h] \subseteq mem'.ids[<<h, "instance">>]
      BY <1>5, <2>3, <2>4, <3>2, <3>3 DEF Knows
    <3>. QED  BY <1>3, <2>2, <2>3, <3>1, <3>3, <3>4, GuestThing DEF Knows
  <2>6. Remembers  BY <2>2, <2>5 DEF Remembers
  <2>7. Standing' /\ VpcThere'
    BY <1>1, <1>3, <1>4, <1>6, <2>1, <2>6, InstanceMade
  <2>8. BuildingAt(g)'
    <3>1. State(g, "instance", i)' = "up"  BY <2>1, PutInstance
    <3>2. token'[g] = {i} /\ i \in mem'.ids[t]  BY <1>3, <2>2, <2>4
    <3>. QED  BY <2>1, <3>1, <3>2 DEF BuildingAt, RunningPCs, Live
  <2>. QED  BY <1>1, <1>2, <2>1, <2>7, <2>8, BuildStep DEF GuestPCs
<1>7. ASSUME NEW i \in Ids, Lost(t, i), token' = [token EXCEPT ![g] = {i}] PROVE GInv'
  <2>1. PICK s \in {"up", "hidden"} : Put(t, i, s)  BY <1>7 DEF Lost
  <2>2. ctl'.pc = "idle" /\ journal' = journal  BY <1>7 DEF Lost, Stop, Idle
  <2>3. Remembers  BY <2>2 DEF Remembers
  <2>4. Standing'  BY <1>1, <1>3, <1>4, <1>7, <2>1, <2>2, <2>3, InstanceMade
  <2>. QED  BY <2>2, <2>4, IdleStands
<1>8. CASE RefusedCall(t) /\ UNCHANGED token
  BY <1>3, <1>8, StopStands DEF RefusedCall
<1>. QED  BY <1>2, <1>3, <1>6, <1>7, <1>8 DEF RunInstances, Guest

LEMMA EniCreateStep == ASSUME IInv, TypeOK', GInv, EniCreate PROVE GInv'
<1>. USE DEF IInv, At
<1>1. ctl.pc = "e_create" /\ ctl.pc \in Middle \ {"h_next", "d_next"}
  BY DEF EniCreate, Middle
<1>2. PICK g \in Hosts : g = ctl.host  BY <1>1, AtWork
<1>. DEFINE t == <<g, "eni">>
<1>. DEFINE target == ctl.target["eni"]
<1>3. /\ Mine("eni") = t /\ \A h \in Hosts : Knows(mem, h)
      /\ VpcThere /\ UNCHANGED <<requests, token, born>>
      /\ "eni" \in GuestKinds /\ t \in Things
  BY <1>1, <1>2, AtWork, GuestThing DEF EniCreate, GInv, Building, GuestPCs
<1>4. BuildingAt(g)  BY <1>1, <1>2, AtWork
<1>5. token[g] \subseteq Ids /\ \A h \in Hosts : mem.ids[<<h, "eni">>] \subseteq Ids
  BY GuestThing DEF TypeOK, Journal
<1>6. CASE target # {} /\ Remember(Recorded(t, target)) /\ Goto("e_record") /\ UNCHANGED <<cloud, faults>>
  <2>1. /\ ctl'.pc = "e_record" /\ ctl'.host = ctl.host /\ journal' = journal
        /\ mem' = Recorded(t, target)
    BY <1>6, MovedOn DEF Remember
  <2>2. /\ \A u \in Things : mem'.ids[u] = IF u = t THEN mem.ids[u] \cup target ELSE mem.ids[u]
        /\ \A h \in Hosts : mem'.pending[h] = IF h = g /\ mem.pending[h] = "eni" THEN NoKind
                                              ELSE mem.pending[h]
    <3>1. \A u \in Things : mem'.ids[u] = IF u = t THEN mem.ids[u] \cup target ELSE mem.ids[u]
      BY <1>3, <2>1 DEF Recorded, TypeOK, Journal
    <3>2. \A h \in Hosts : mem'.pending[h] = IF h = g /\ mem.pending[h] = "eni" THEN NoKind
                                             ELSE mem.pending[h]
      BY <2>1 DEF Recorded, TypeOK, Journal, Scopes
    <3>. QED  BY <3>1, <3>2
  <2>3. \A h \in Hosts :
          /\ mem'.ids[<<h, "keypair">>] = mem.ids[<<h, "keypair">>]
          /\ mem'.ids[<<h, "instance">>] = mem.ids[<<h, "instance">>]
          /\ mem'.ids[<<h, "eni">>] = IF h = g THEN mem.ids[<<h, "eni">>] \cup target
                                      ELSE mem.ids[<<h, "eni">>]
    BY <2>2, GuestThing
  <2>4. target \subseteq Ids /\ \A x \in target : State(g, "eni", x) \in {"up", "attached"}
    BY <1>1, <1>3, <1>4, GuestThing DEF BuildingAt, TypeOK, Control
  <2>5. \A x \in Ids : State(g, "eni", x) # "hidden"
    BY <1>6, <2>4 DEF GInv, Single, Live
  <2>6. \A h \in Hosts : Knows(mem', h)
    <3>. SUFFICES ASSUME NEW h \in Hosts PROVE Knows(mem', h)  OBVIOUS
    <3>1. Knows(mem, h)  BY <1>3
    <3>2. \A x \in mem'.ids[<<h, "eni">>] : State(h, "eni", x) # "none"
      BY <2>3, <2>4, <3>1 DEF Knows
    <3>3. \A x \in Ids : State(h, "eni", x) = "hidden" => mem'.pending[h] = "eni"
      BY <2>2, <2>5, <3>1 DEF Knows
    <3>. QED  BY <2>3, <3>1, <3>2, <3>3 DEF Knows
  <2>7. mem' \in Journal /\ \A u \in Things : mem.ids[u] \subseteq mem'.ids[u]
    BY <2>2 DEF TypeOK
  <2>8. Standing'  BY <1>1, <1>3, <1>6, <2>1, <2>6, <2>7, RecordStep
  <2>9. BuildingAt(g)'
    <3>1. \A x : State(g, "instance", x)' = State(g, "instance", x)  BY <1>3, <1>6, CloudSame
    <3>. QED
      BY <1>1, <1>3, <1>4, <2>1, <2>3, <3>1 DEF BuildingAt, LaunchedPCs, RunningPCs
  <2>. QED  BY <1>1, <1>2, <1>3, <1>6, <2>1, <2>8, <2>9, BuildStep, CloudSame DEF GuestPCs
<1>7. target = {} => ~There(g, "eni")  BY <1>1, <1>4 DEF BuildingAt
<1>8. ASSUME NEW i \in Ids, Created(t, i, "e_record"), target = {} PROVE GInv'
  <2>1. /\ Put(t, i, "up") /\ journal' = journal /\ mem' = Recorded(t, {i})
        /\ ctl'.pc = "e_record" /\ ctl'.host = ctl.host
    BY <1>8, MovedOn DEF Created, Remember
  <2>2. /\ \A u \in Things : mem'.ids[u] = IF u = t THEN mem.ids[u] \cup {i} ELSE mem.ids[u]
        /\ \A h \in Hosts : mem'.pending[h] = IF h = g /\ mem.pending[h] = "eni" THEN NoKind
                                              ELSE mem.pending[h]
    BY <1>3, <2>1, RecordedIs
  <2>3. \A h \in Hosts :
          /\ mem'.ids[<<h, "keypair">>] = mem.ids[<<h, "keypair">>]
          /\ mem'.ids[<<h, "instance">>] = mem.ids[<<h, "instance">>]
          /\ mem'.ids[<<h, "eni">>] = IF h = g THEN mem.ids[<<h, "eni">>] \cup {i}
                                      ELSE mem.ids[<<h, "eni">>]
    BY <2>2, GuestThing
  <2>4. \A h \in Hosts, x \in Ids :
          /\ State(h, "keypair", x)' = State(h, "keypair", x)
          /\ State(h, "instance", x)' = State(h, "instance", x)
          /\ State(h, "eni", x)' = IF h = g /\ x = i THEN "up" ELSE State(h, "eni", x)
    BY <2>1, PutEni
  <2>5. \A x \in Ids : State(g, "eni", x) # "hidden"  BY <1>7, <1>8 DEF There, Live
  <2>6. \A h \in Hosts : Knows(mem, h)'
    <3>. SUFFICES ASSUME NEW h \in Hosts PROVE Knows(mem, h)'  OBVIOUS
    <3>1. Knows(mem, h)  BY <1>3
    <3>2. \A x \in mem'.ids[<<h, "eni">>] : State(h, "eni", x)' # "none"
      <4>1. \A x \in mem.ids[<<h, "eni">>] : x \in Ids /\ State(h, "eni", x) # "none"
        BY <1>5, <3>1 DEF Knows
      <4>2. CASE h = g  BY <2>3, <2>4, <4>1, <4>2
      <4>3. CASE h # g  BY <2>3, <2>4, <4>1, <4>3
      <4>. QED  BY <4>2, <4>3
    <3>3. \A x \in Ids : State(h, "eni", x)' = "hidden" => mem'.pending[h] = "eni"
      BY <2>2, <2>4, <2>5, <3>1 DEF Knows
    <3>4. Interfaced(h)' => token'[h] \subseteq mem'.ids[<<h, "instance">>]
      <4>1. CASE h = g
        BY <1>1, <1>3, <1>4, <2>3, <4>1 DEF BuildingAt, LaunchedPCs, RunningPCs
      <4>2. CASE h # g
        <5>1. Interfaced(h)' = Interfaced(h)  BY <2>4, <4>2 DEF Interfaced
        <5>. QED  BY <1>3, <2>3, <3>1, <5>1 DEF Knows
      <4>. QED  BY <4>1, <4>2
    <3>. QED  BY <2>3, <2>4, <3>1, <3>2, <3>3, <3>4, GuestThing DEF Knows
  <2>7. Remembers  BY <2>2, <2>6 DEF Remembers
  <2>8. State(g, "eni", i) = "none"  BY <1>8, Unmade DEF Created
  <2>9. Standing' /\ VpcThere'
    BY <1>1, <1>2, <1>3, <1>7, <1>8, <2>1, <2>7, <2>8, EniMade
  <2>10. BuildingAt(g)'
    BY <1>1, <1>3, <1>4, <1>5, <2>1, <2>3, <2>4 DEF BuildingAt, LaunchedPCs, RunningPCs, Live
  <2>. QED  BY <1>1, <1>2, <2>1, <2>9, <2>10, BuildStep DEF GuestPCs
<1>9. ASSUME NEW i \in Ids, Lost(t, i), target = {} PROVE GInv'
  <2>1. PICK s \in {"up", "hidden"} : Put(t, i, s)  BY <1>9 DEF Lost
  <2>2. ctl'.pc = "idle" /\ journal' = journal  BY <1>9 DEF Lost, Stop, Idle
  <2>3. Remembers  BY <2>2 DEF Remembers
  <2>4. State(g, "eni", i) = "none"  BY <1>9, Unmade DEF Lost
  <2>5. Standing'
    BY <1>1, <1>2, <1>3, <1>7, <1>9, <2>1, <2>2, <2>3, <2>4, EniMade
  <2>. QED  BY <2>2, <2>5, IdleStands
<1>10. CASE RefusedCall(t)  BY <1>3, <1>10, StopStands DEF RefusedCall
<1>. QED  BY <1>3, <1>6, <1>8, <1>9, <1>10 DEF EniCreate

-------------------------------------------------------------------------------
(* The theorems                                                            *)

\* The user resolves an intent of the network's.
LEMMA ResolveStep == ASSUME IInv, GInv, ResolvePending PROVE GInv'
<1>. USE DEF IInv, GInv, At
<1>1. /\ ctl.pc = "idle" /\ journal # NoRun /\ ctl' = ctl
      /\ journal' = [journal EXCEPT !.pending[Region] = NoKind]
      /\ UNCHANGED <<requests, mem, cloud, token, born>>
  BY DEF ResolvePending, ec2
<1>2. /\ journal'.ids = journal.ids
      /\ \A h \in Hosts : journal'.pending[h] = journal.pending[h]
  BY <1>1, RunAssumption DEF TypeOK, Journal, Scopes
<1>3. \A h \in Hosts : Knows(journal', h)  BY <1>1, <1>2 DEF Records, Knows
<1>4. Records'  BY <1>1, <1>3, KnowsSame DEF Records
<1>5. Birth'  BY <1>1 DEF Birth
<1>6. Keys'
  <2>1. journal' # NoRun
    <3>1. journal \in Journal  BY <1>1 DEF TypeOK
    <3>2. journal' \in Journal  BY <1>1, <3>1 DEF Journal
    <3>. QED  BY <3>2, RunAssumption
  <2>. QED  BY <1>1, <2>1, CloudSame DEF Keys
<1>7. Saved'  BY <1>1, CloudSame DEF Replayable, Saved
<1>8. Standing'  BY <1>1, <1>4, <1>5, <1>6, <1>7, QuietStands DEF Standing
<1>. QED  BY <1>1, <1>8, IdleStands

\* GInv is inductive, with IInv.
LEMMA NextGInv == IInv /\ TypeOK' /\ GInv /\ [Next]_vars => GInv'
<1>. SUFFICES ASSUME IInv, TypeOK', GInv, [Next]_vars PROVE GInv'  OBVIOUS
<1>1. CASE UNCHANGED vars
  <2>1. UNCHANGED <<journal, requests, mem, ctl, cloud, token, born>>
    BY <1>1 DEF vars, files, ec2
  <2>2. \A h : /\ BuildingAt(h)' = BuildingAt(h) /\ RazingAt(h)' = RazingAt(h)
               /\ Knows(mem, h)' = Knows(mem, h) /\ Knows(journal, h)' = Knows(journal, h)
    BY <2>1, CloudSame DEF BuildingAt, RazingAt, Knows
  <2>3. Records' /\ Birth'  BY <2>1, <2>2 DEF GInv, Records, Birth
  <2>4. Keys'  BY <2>1, CloudSame DEF GInv, Keys
  <2>6. Replayable'  BY <2>1, CloudSame DEF GInv, Replayable, Saved
  <2>5. Building' /\ Razing'  BY <2>1, <2>2, CloudSame DEF GInv, Building, Razing
  <2>. QED  BY <2>1, <2>3, <2>4, <2>5, <2>6, QuietStands DEF GInv
<1>2. CASE Interrupted  BY <1>2, StopStands DEF Interrupted, files, ec2
<1>3. ASSUME NEW t \in Things, NEW i \in Ids, Appear(t, i) PROVE GInv'  BY <1>3, AppearStep
<1>4. CASE Work
  BY <1>4, NetworkStep, NetworkCreateStep, RequestStep, ImportKeyStep, CreateGroupStep,
     RunInstancesStep, LaunchStep, EniStep, EniCreateStep, EniAttachStep, DestroyGuestStep,
     TerminateStep, DeleteInterfacesStep, DeleteGroupStep, DeleteKeyStep, TeardownStep DEF Work
<1>. QED
  BY <1>1, <1>2, <1>3, <1>4, NetworkStep, DestroyStep, ResolveStep DEF Next, DestroyNothing

\* Both hold of every behaviour.
LEMMA GuestInvariant == Spec => [](IInv /\ GInv)
<1>1. Init => IInv /\ GInv  BY InitIInv, InitGInv
<1>2. IInv /\ GInv /\ [Next]_vars => (IInv /\ GInv)'
  <2>1. IInv' => TypeOK'  BY DEF IInv
  <2>. QED  BY <2>1, NextIInv, NextGInv
<1>. QED  BY <1>1, <1>2, PTL DEF Spec

\* As long as anything of the run exists, its journal does, so that destroy finds all
\* of it (roles/aws/tasks/_destroy.yml:22-30).
THEOREM JournalKept == Spec => []JournalUntilGone
<1>1. IInv /\ GInv => JournalUntilGone
  <2>. SUFFICES ASSUME IInv, GInv, NEW t \in Things, LiveIds(t) # {} PROVE journal # NoRun
    BY DEF JournalUntilGone
  <2>1. VpcThere => journal # NoRun
    BY GuestThing DEF IInv, NetInv, NetworkJournalled, VpcThere
  <2>2. CASE \E k \in NetKinds : t = Net(k)  BY <2>2 DEF IInv, NetInv, NetworkJournalled
  <2>3. CASE \E h \in Hosts, k \in GuestKinds : t = <<h, k>>
    <3>1. PICK h \in Hosts, k \in GuestKinds : t = <<h, k>>  BY <2>3
    <3>2. There(h, k)  BY <3>1, ThereIs
    <3>3. CASE k = "keypair"
      BY <3>2, <3>3, GuestThing DEF There, Live, GInv, Keys
    <3>4. CASE k # "keypair"
      BY <2>1, <3>2, <3>4 DEF GuestKinds, GInv, Hangs
    <3>. QED  BY <3>3, <3>4
  <2>. QED  BY <2>2, <2>3 DEF Things, Net
<1>. QED  BY <1>1, GuestInvariant, PTL

\* The run never has two things of one name, two instances of one host above all
\* (aws_instance.py:168-182; aws_spec.py:792-846).
THEOREM NothingTwice == Spec => []OneOfEach
<1>1. IInv /\ GInv => OneOfEach
  <2>. SUFFICES ASSUME IInv, GInv, NEW t \in Things PROVE Cardinality(LiveIds(t)) <= 1
    BY DEF OneOfEach
  <2>1. \A i, j \in LiveIds(t) : i = j
    <3>1. CASE \E k \in NetKinds : t = Net(k)  BY <3>1 DEF IInv, NetInv, OneNet
    <3>2. CASE \E h \in Hosts, k \in GuestKinds : t = <<h, k>>
      <4>1. PICK h \in Hosts, k \in GuestKinds : t = <<h, k>>  BY <3>2
      <4>2. \A i \in LiveIds(t) : i \in Ids /\ Live(State(h, k, i))  BY <4>1, ThereIs
      <4>3. CASE k = "keypair"  BY <4>2, <4>3 DEF GInv, Keys, Live
      <4>4. CASE k = "instance"
        <5>1. \A i \in LiveIds(t) : i \in token[h]  BY <4>2, <4>4 DEF GInv, Single, Live
        <5>. QED  BY <5>1 DEF GInv, Single
      <4>5. CASE k \in {"group", "eni"}  BY <4>2, <4>5 DEF GInv, Single
      <4>. QED  BY <4>3, <4>4, <4>5 DEF GuestKinds
    <3>. QED  BY <3>1, <3>2 DEF Things, Net
  <2>2. CASE LiveIds(t) = {}  BY <2>2, FS_EmptySet
  <2>3. CASE LiveIds(t) # {}
    <3>1. PICK i : LiveIds(t) = {i}  BY <2>1, <2>3
    <3>. QED  BY <3>1, FS_Singleton
  <2>. QED  BY <2>2, <2>3
<1>. QED  BY <1>1, GuestInvariant, PTL

\* Whenever an instance exists, so does the complete request that replays its launch
\* (roles/aws/README.md:187-188; aws_instance.py:305-306).
THEOREM RequestsKept == Spec => []LaunchReplayable
<1>1. IInv /\ GInv => LaunchReplayable
  BY ThereIs DEF GInv, Replayable, Saved, LaunchReplayable
<1>. QED  BY <1>1, GuestInvariant, PTL

\* What a step writes to the journal has all ids that the journal had.
Grows == \A t \in Things : journal.ids[t] \subseteq journal'.ids[t]
LEMMA JournalGrows ==
  ASSUME IInv, GInv, TypeOK', [Next]_vars, journal # NoRun, journal' # NoRun
  PROVE  Grows
<1>. USE DEF IInv, At
<1>1. CASE journal' = journal  BY <1>1 DEF Grows
<1>2. ASSUME ctl.pc # "idle", journal' = mem', \A t \in Things : mem.ids[t] \subseteq mem'.ids[t]
      PROVE  Grows
  BY <1>2 DEF GInv, Records, Grows
<1>3. CASE journal' = mem /\ mem' = mem /\ ctl.pc # "idle"  BY <1>2, <1>3
<1>4. CASE \E k \in NetKinds : NetworkMark(k)
  BY <1>2, <1>4 DEF NetworkMark, Save, Pending, TypeOK, Journal
<1>5. CASE RecordKey
  <2>1. ctl.pc = "h_key" /\ ctl.pc \in Middle \ {"h_next", "d_next"}
    BY <1>5 DEF RecordKey, Middle
  <2>2. PICK g \in Hosts : g = ctl.host  BY <2>1, AtWork
  <2>3. mem' = [mem EXCEPT !.ids[<<g, "keypair">>] = {1}] /\ journal' = mem'
    BY <1>5, <2>1, <2>2, AtWork DEF RecordKey, Save
  <2>4. mem.ids[<<g, "keypair">>] \subseteq {1}  BY <2>1, AtWork DEF Knows
  <2>5. \A t \in Things : mem'.ids[t] = IF t = <<g, "keypair">> THEN {1} ELSE mem.ids[t]
    BY <2>3 DEF TypeOK, Journal
  <2>. QED  BY <1>2, <2>1, <2>3, <2>4, <2>5
<1>6. CASE EniInfo
  <2>1. CASE Fails  BY <1>1, <2>1 DEF Fails, files
  <2>2. CASE ~Fails
    <3>1. mem' = Pending(Guest, "eni") /\ journal' = mem' /\ ctl.pc # "idle"
      BY <1>6, <2>2 DEF EniInfo, Save
    <3>2. mem'.ids = mem.ids  BY <3>1 DEF Pending, TypeOK, Journal
    <3>. QED  BY <1>2, <3>1, <3>2
  <2>. QED  BY <2>1, <2>2
<1>7. CASE SaveDescendants
  <2>1. ctl.pc = "h_descend" /\ ctl.pc \in Middle \ {"h_next", "d_next"}
    BY <1>7 DEF SaveDescendants, Middle
  <2>2. PICK g \in Hosts : g = ctl.host  BY <2>1, AtWork
  <2>. DEFINE attached == {i \in Ids : State(g, "eni", i) = "attached"}
  <2>3. mem' = [mem EXCEPT !.ids[<<g, "eni">>] = attached] /\ journal' = mem'
    <3>1. Mine("eni") = <<g, "eni">>  BY <2>1, <2>2, AtWork
    <3>2. attached = {i \in Ids : cloud[Mine("eni")][i] = "attached"}  BY <3>1 DEF State
    <3>. QED  BY <1>7, <3>1, <3>2 DEF SaveDescendants, Save
  <2>4. \A t \in Things : mem'.ids[t] = IF t = <<g, "eni">> THEN attached ELSE mem.ids[t]
    BY <2>3 DEF TypeOK, Journal
  <2>5. mem.ids[<<g, "eni">>] \subseteq attached  BY <2>1, <2>2, DescendantsKept
  <2>. QED  BY <1>2, <2>1, <2>3, <2>4, <2>5
<1>8. CASE DestroyGuest
  <2>1. CASE Fails  BY <1>1, <2>1 DEF Fails, files
  <2>2. CASE ~Fails
    <3>1. PICK h \in ctl.todo :
            mem' = [mem EXCEPT !.ids[<<h, "eni">>] = @ \cup Seen(<<h, "eni">>)] /\ journal' = mem'
      BY <1>8, <2>2 DEF DestroyGuest, Save
    <3>2. \A t \in Things : mem'.ids[t] = IF t = <<h, "eni">> THEN mem.ids[t] \cup Seen(t)
                                          ELSE mem.ids[t]
      BY <3>1 DEF TypeOK, Journal
    <3>. QED  BY <1>2, <1>8, <3>1, <3>2 DEF DestroyGuest
  <2>. QED  BY <2>1, <2>2
<1>9. CASE ResolvePending
  <2>1. journal'.ids = journal.ids  BY <1>9 DEF ResolvePending, TypeOK, Journal
  <2>. QED  BY <2>1 DEF Grows
<1>10. \/ journal' = journal \/ (journal' = mem /\ mem' = mem /\ ctl.pc # "idle")
       \/ (\E k \in NetKinds : NetworkMark(k)) \/ RecordKey \/ EniInfo \/ SaveDescendants
       \/ DestroyGuest \/ ResolvePending
  <2>1. CASE UNCHANGED vars \/ Create \/ Destroy \/ DestroyNothing \/ Interrupted
             \/ (\E t \in Things, i \in Ids : Appear(t, i))
    BY <2>1 DEF vars, files, Create, Destroy, DestroyNothing, Interrupted, Appear
  <2>2. CASE \/ SaveInitial \/ NetworkInfo \/ NetworkRecord \/ NetworkDone \/ SaveGuest
             \/ AcceptLaunch \/ EniRecord
    BY <2>2 DEF SaveInitial, NetworkInfo, Fails, Remember, NetworkRecord, NetworkDone, SaveGuest,
                AcceptLaunch, EniRecord, Save, files
  <2>3. CASE NetworkCreate \/ CreateGroup \/ RunInstances \/ EniCreate
    BY <2>3 DEF NetworkCreate, CreateGroup, RunInstances, EniCreate, Created, Lost, RefusedCall, Remember
  <2>4. CASE \/ NextHost \/ ImportKey \/ SaveRequest \/ PublishRequest \/ ReplayInstances
             \/ LaunchFails \/ WaitRunning \/ EniAttach
    BY <2>4 DEF NextHost, ImportKey, SaveRequest, PublishRequest, ReplayInstances, LaunchFails,
                WaitRunning, EniAttach, Check, Fails, Remember, files
  <2>5. CASE \/ Terminate \/ DeleteInterfaces \/ DeleteGroup \/ DeleteKey \/ NetworkCleanup
             \/ DeleteNetwork \/ RemoveRequests \/ RemoveJournal
    BY <2>5 DEF Terminate, DeleteInterfaces, DeleteGroup, DeleteKey, NetworkCleanup,
                DeleteNetwork, RemoveRequests, RemoveJournal, Fails, files
  <2>. QED  BY <2>1, <2>2, <2>3, <2>4, <2>5 DEF Next, Work
<1>. QED  BY <1>1, <1>3, <1>4, <1>5, <1>6, <1>7, <1>8, <1>9, <1>10

\* The journal of a run never forgets or replaces an id, from its first entry until
\* the run is gone (_host.yml:108-117).
THEOREM JournalForgetsNothing == Spec => IdsKept
<1>1. IInv /\ GInv /\ IInv' /\ [Next]_vars =>
        [(journal # NoRun /\ journal' # NoRun) =>
           \A t \in Things : journal.ids[t] \subseteq journal'.ids[t]]_vars
  BY JournalGrows DEF Grows, IInv
<1>. QED  BY <1>1, GuestInvariant, PTL DEF Spec, IdsKept

===============================================================================

# Verification of david_igou.molecule_provisioners

TLA+ models, TLC configurations and TLAPS proofs for the Ansible collection
`david_igou.molecule_provisioners`: Molecule provisioners that create and
destroy test instances on Podman, Docker, KubeVirt, QEMU and AWS. Paths below
are relative to `src/`.

What can be wrong in this code is rarely in one function. Plays are sequences
of tasks that may stop anywhere; what a run owns is recorded in files and found
again by the next play; several controllers share a port table, a lock, an image
cache or a directory; and the things they manage (QEMU processes, cloud
resources) live and die on their own. The models are about that: who owns what,
which file is written first, who may be killed when, and what a repeated play
finds.

## 1. Inventory

| Component | State | Operations | What is hard | What makes it correct |
|---|---|---|---|---|
| QEMU runtime (`plugins/module_utils/qemu_runtime.py`, `plugins/modules/qemu_process.py`, `roles/qemu/tasks/{create,destroy}.yml`, `_launch_host.yml`, `_run_state.yml`, `_overlay.yml`) | `qemu-state.json` of a run, `qemu-reservations.json` and the flock shared by all runs; per guest a pidfile, a QMP socket, an overlay; the process table | `reserve`, `launch` (with `recover_launch`, `retry_ports`), `destroy` (with `owned`, `terminate`), `status`, `save`; create/destroy plays | several runs at once; death between the two files of a save, or while QEMU starts; recycled pids; bind races; guests that do not stop | two guests never share an endpoint; resources outlive the process that uses them; only own guests are signalled; destroy, repeated, finishes and leaves nothing |
| QEMU image cache (`_image_cache.yml`, `_cache_image.yml`) | `download`, `payload`, `disk.qcow2` of each image | download, unpack, probe, rename or convert, clean up | plays that ingest the same image at once with no lock; interrupted transfers | whoever uses an image finds it whole (with exceptions, section 3); staging files go; a repeated play gets its image |
| QEMU media (`_data_disks.yml`, `_seed_iso.yml`, templates) | data disks, seed ISO | create if missing | little: per host, straight-line | – |
| QEMU normalisation, argv, inventory (`qemu_spec.py`, `plugins/filter/qemu.py`) | none | merge, validate, format | merge precedence | pure functions |
| AWS lease (`plugins/action/aws_lock.py`, `plugins/modules/aws_lock.py`) | `.aws-lock`, `.aws-lock.guard`, `/proc` | acquire, release | the holder is a process that lives across tasks; deaths of controller and worker; recycled pids; PID namespaces; the truncating write | one live controller per directory; a dead holder never blocks the directory |
| AWS instance (`plugins/modules/aws_instance.py`, `_host.yml`, `_secondary_interface.yml`, `_destroy_host.yml`) | saved request, run-state entry of a host, EC2 | save request, RunInstances with a client token, reconcile, stop, terminate | lost answers, replays, pending interfaces | at most one instance per host and run |
| AWS journal and network (`_load.yml`, `_save.yml`, `_network*.yml`, `_destroy_network.yml`) | `aws_run.yml`: pending and confirmed resources | checkpoint, create, confirm, reconcile, ordered teardown | death between API call and checkpoint; eventual consistency | nothing created is forgotten, nothing foreign is deleted |
| AWS request algorithms (`aws_spec.py`, `_preflight.yml`, `_existing.yml`) | none of their own; the plans they make are saved | `normalize`, `template_spec`, `request`, `cloud_data`, `network_plan`, `image_info`; `owned`, `reconcile_network` for the journal | two passes of merging and defaults; what is launched and what is attached later; zones from four sources; images that change between plays | the inventory has precedence over the template and the template over defaults; what is launched is disposable, reachable and in one place; what can be refused is refused before anything is made |
| KubeVirt run (`roles/kubevirt/tasks`) | `kubevirt_run.yml`; VMs, Services, volumes, claims and guests in the cluster | persist the run, check all, create, delete with uid/resourceVersion preconditions, wait for descendants | names taken or taken over, replaced objects, controllers that act late, plays that stop | only own objects are deleted, and adopted but for names taken in mid-create; the run state is there before the first object and until the last is gone |
| Podman, Docker (`roles/{podman,docker}/tasks`) | containers, networks, asynchronous jobs | async create and wait, destroy by name, reset by label | jobs in flight when a play fails | what a play that succeeds promises is so, unless a job of an earlier play was in flight; destroy, repeated, leaves nothing for good |
| Lifecycle playbooks (`playbooks/{create,prepare,destroy,reset}.yml`) | none of their own | validate, dispatch to `roles/<backend>/tasks` | order of the Molecule steps | every backend implements the same contract |
| Metadata, docs, CI, examples, tests | – | – | – | read as the statement of what the code promises |

How they interact. A playbook includes one backend's task file. The QEMU play
makes one module call per step (`reserve`, then `status` and `launch` for each
host, or `destroy`), and each call takes the controller-wide flock, loads the
run's manifest and the shared reservations, works on its copies, and saves them.
Between calls the lock is free. Before `reserve` the play ingests base images
into the shared cache, and between `reserve` and the launches it makes overlays
and seeds. The AWS plays take the lease, run every task of the play in a block,
and release it in `always`; all their checkpoints assume that lease.

The `hazards` of PROJECT.json list, line by line, what is hard to test here, with
the properties that cover each, or the reason why none does yet.

## 2. Modules

| Module | Models |
|---|---|
| `QemuRuntime` | ownership of guests and ports: the runtime module, the plays that call it, QEMU and the rest of the host |
| `MCQemuRuntime` | requests, controller-to-run maps and crash points for TLC |
| `QemuRuntimeProofs` | proved of its tables: types, reservations, explicit and exclusive endpoints, no launch while destroying |
| `QemuGuestProofs` | proved of its guests and processes: one process per guest, nothing adopted, only own guests signalled, stable endpoints, nothing left, resources kept |
| `AwsLease` | the lease: controllers, workers, guard, lease file, `/proc` |
| `MCAwsLease`, `AwsLeaseProofs` | instances; mutual exclusion and preservation proved |
| `AwsRun` | a run on a managed network: journal, launch requests, creation and teardown against EC2 |
| `MCAwsRun`, `AwsRunProofs` | instance; the network is journalled and exists once, the journal implements `WriteAhead` for it, proved |
| `AwsGuestProofs` | proved of the guests: journal kept as long as anything exists, nothing twice, launches replayable |
| `QemuImageCache` | the ingestion of an image, task by task |
| `MCQemuImageCache`, `QemuImageCacheProofs` | instances; a used qcow2 is whole unless it came in a zip, proved |
| `AwsRequest` | from the inventory to the RunInstances requests: `aws_spec.py` as the create play calls it |
| `MCAwsRequest` | inventories, templates and what AWS offers, for TLC |
| `AwsRequestProofs` | a saved run is refused for attachments only; what is rendered is disposable, delivers key and bootstrap, follows inventory and template, and is in one zone; every interface comes up once |
| `WriteAhead` | abstract specification: a name is on record before anything is made under it and for as long as it is there |
| `KubevirtRun` | an isolated run of the KubeVirt role against a cluster with controllers and other users |
| `ContainerRun` | the Podman and Docker roles and `reset.yml`: containers, a network, asynchronous jobs |
| `Lifecycle` | the playbooks over these two: extends `KubevirtRun`, instantiates `ContainerRun` |
| `MCLifecycle` | instance |
| `LifecycleProofs` | proved of a KubeVirt run: types, ownership, that it implements `WriteAhead`; the same of every scenario; what container plays promise |

### QemuRuntime

Variables and what they stand for: `manifest[r]` is `qemu-state.json` of run `r`
(generation, phase, per-host record: status, pid, start time, endpoints);
`reservations` is `qemu-reservations.json`; `lock` the holder of the flock;
`mem[c]` and `res[c]` are `Runtime.state` and `Runtime.reservations` in a call of
controller `c`; `ctl[c]` says where its play is; `pidfile`, `sock` and `disk` are
the guest's files; `procs` is the process table, with `start` for the start time of
`/proc/<pid>/stat`; `foreign` the endpoints other programs have bound; `gens` the
run UUIDs drawn (a run that is destroyed and created again has a new one).

One action stands for the code from one point where something outside can
intervene to the next. Inside a call these are the writes of the two files,
unlinking, spawning, waiting for a child, each `owned` test, `pidfd_open`, each
signal, each wait, and each removal. Outside the calls they are the tasks of the
play. So:

- `SaveManifest`, `SaveReservations`: the two `os.replace` of `save`;
- `ReserveExisting`, `ReserveFresh`, `ReserveConflict`, `ReserveRefused`: `reserve`;
- `Launch`, `LaunchRefused`, `LaunchOwned`, `UnlinkPidfile`, `MarkLaunching`,
  `Spawn`, `SpawnRefused`, `Daemonized`, `DaemonizedUnverified`, `LaunchVerify`,
  `RetryPorts`, `RetryRefused`, `LaunchFailed`, `OldBindError`: `launch`, with
  `recover_launch` and `retry_ports`. The log is opened for append (432) and its end is
  searched for the bind error (449-450), so after any earlier bind error another failure
  may be taken for one: `OldBindError`, which the model allows at every failure;
- `DestroyNothing` … `ReleaseAll`: `destroy`, guest by guest, with the error list
  (`failed`) that makes it keep the manifest;
- `Start`, `Enter`, `Media`, `Status`: the plays between the calls;
- `QemuPidfile`, `QemuReady`, `QemuInUse`, `QemuBroken`, `QemuExit`, `QemuKilled`:
  QEMU as the code relies on it (external): it locks and writes its pidfile, opens
  its disk, binds its ports, opens QMP, and only then does its parent return. One that
  fails after it has its pidfile removes that and leaves the QMP socket (`FailedSocket`);
- `Inspect`: the user's part. `destroy` refuses a launch that left a socket and no pidfile
  (`qemu_runtime.py:519-522`, asserted by `tests/unit/plugins/test_qemu.py:295`), every
  time, and `reserve` refuses the run that is being destroyed; `roles/qemu/README.md:76`
  says to inspect the process before retrying. The user then removes a socket that no
  process answers on;
- `ForeignStart`, `ForeignExit`, `ForeignBind`, `ForeignUnbind`, `QmpTimeout`,
  `Crash`: what happens to it.

Abstractions: an endpoint is a record of protocol, address and port, and
`Conflicts` keeps the wildcard rule of `allocate`; an automatic port is any
allocatable port rather than one of 100 draws; a request that differs from the
record is one outcome of `reserve` (`ReserveConflict`); JSON shapes, argument
formats and messages are left out. `Bindable` is the bind probe: it sees QEMU's
and other programs' bound ports, not reservations.

### AwsLease

`proc[s][p]` is what `/proc` of namespace `s` shows for pid `p`: a start time or
nothing. `file` is `.aws-lock`, possibly `Empty` between the truncation and the
writing of it; `guard` the flock on the guard file; `ctl[c]` the controller (alive or
not, pid, start time) and its worker: the step it has reached, the pid it signs for
(`as`, from `os.getppid()`), what it is to write (`own`). `Run` is a user starting
a play, `GetParent`/`Refuse`/`Acquire`/`Truncate`/`Dump`/`Release` are the module,
`EndBlock` the play's block, `Crash` the death of a controller whose worker may run
on, `WorkerDies` the death of such a worker, `ForeignStart` an unrelated process on
a free pid. `RemoveByHand` is what roles/aws/README.md:203-205 asks for: a lease
of another PID namespace is removed by a person who knows that its holder is gone.

### AwsRun

`journal` is `aws_run.yml` (recorded ids and the pending entry of each guest and of
the region), `requests` the files of `aws-requests/`, `mem` the facts
`__mp_aws_run`, `__mp_aws_net` and `__mp_aws_guest` of the play, `ctl` where the play
is. `cloud[t]` says what EC2 has under the name `t`: a part of the network (`vpc`,
`subnet`, `gateway`, `route`) or a thing of a guest (`keypair`, `group`, `instance`,
`eni`). Ids are numbered per name. `token[h]` is the instance that EC2 knows for the
client token of guest `h`; `born` says that the run identity has been drawn.

The lease (module `AwsLease`) admits one play at a time, so there is one `ctl`. The
steps are the tasks, in their order:

- create: `Create` and `SaveInitial` (`_create.yml`), `NetworkInfo` (descriptions and
  `reconcile_network`), `NetworkMark`, `NetworkCreate`, `NetworkRecord` for each
  missing part, `NetworkDone`; for each guest `RecordKey`, `ImportKey`, `CreateGroup`,
  `SaveGuest`, `SaveRequest`, `PublishRequest`, then `RunInstances`, `ReplayInstances`
  or `LaunchFails`, `AcceptLaunch`, `WaitRunning`, `EniInfo`, `EniCreate`,
  `EniRecord`, `EniAttach`, `SaveDescendants`;
- destroy: `Destroy` or `DestroyNothing`; for each guest `DestroyGuest` (what is found
  is saved before anything is deleted), `Terminate`, `DeleteInterfaces`,
  `DeleteGroup`, `DeleteKey`; `NetworkCleanup`, `DeleteNetwork` part by part,
  `RemoveRequests`, `RemoveJournal`;
- `Interrupted` stops a play at any of these points; `Appear` and `ResolvePending` are
  EC2 and the user.

EC2 (external) answers a create call with an id; or the call takes effect and its
answer is lost, the object being visible at once or later (`hidden`); or it refuses.
A description shows what is visible. RunInstances starts one instance for a client
token and answers with it from then on. What is in use cannot be deleted
(`GroupInUse`, `NetworkInUse`).

### QemuImageCache

`download`, `payload` and `base` are the files of one image (each image has a
directory of its own), `hit[c]` the fact a play registers, `pc[c]` its task. A play
runs one task at a time, every play may stop at every task, and no lock exists
except QEMU's own on an image that is being written. `creates:` and `when:` of the
tasks are guards, evaluated when the task runs.

An artifact is plain, compressed or a zip (`kind.form`). Decompression writes a temporary
file and renames it, so `Unpack` is one step; a zip is extracted in place, into a directory
that all plays share (`_cache_image.yml:79-92`), so `Extract` and `Extracted` are two, and
between them another play may probe the file, whose header is there, move it to the final
name or remove it. `writes[c]` follows the file that the `unzip` of play `c` has open: the
payload, the base once that was moved, or a file without a name; "torn" is a conversion
that reads such a file before it is whole. `Inspect` is the
`qemu-img info` of `_overlay.yml:2-8`, which reads the header.

### AwsRequest

A specification is a function whose domain is the set of fields it has, as a Python
dict is, so that "the inventory is silent about" is `~Has(s, f)`. The operators
carry the names of the code's steps: `WithDefaults`, `Normal` and the `...MayBe`
predicates are `normalize` with its defaults and its errors (`BootstrapMayBe`,
`InterfacesMayBe`, `NetworkMayBe` ...), `Derived` and `Templated` are `template_spec`,
`TemplateFields` and `TemplateValues` separate the fields a template speaks for from what
it says, `Offered` is the zones AWS offers a type in, `CloudData`, `Interface`, `Launched`,
`Disks` and `Request` are `cloud_data` and `request`, `HostZones`, `CommonZones` and
`NetworkPlan` are `network_plan`. The actions are the play: `Begin` normalises all hosts, `Preflight` takes one host after the
other through its template and what AWS says of it, `SaveRun` plans the networks and
saves the run, `Launch` renders the request of a host and refuses one that differs
from what is saved, `Stop` ends or interrupts the play. `Publish` (external) is a new
image of the name that the inventories use. `NoRun`, no saved run, is a run without
plans, as `_load.yml` has it.

`known` is the hosts whose instance id is in the journal and `attached` the referenced
interfaces and volumes that each instance of the run has. A host comes up, or its launch is
cut short (`HostIsCutShort`): before AWS took it, before the checkpoint of its id (the
interfaces are attached by then), or with some volumes attached. `ReferencesMayBe` is what
the next preflight makes of that. Nobody else attaches or detaches, and nothing is destroyed
in this module, so an attachment is always the run's own doing.

Texts, ids, cidrs and names are opaque; ports, ingress rules and tags are left out; a
selection of a subnet by VPC, filters or groups has one answer, `OnlySubnet`.
That requests are launched once is `AwsRun`'s matter.

### KubevirtRun

`file` is `kubevirt_run.yml` (per host: Service or not, disk or not), `inventory` says
whether `molecule_runtime.yml` exists, `ctl` where the play is, with the run as it has
loaded or drawn it (`run`), what the inventory now says (`spec`), the rest of its loop
(`todo`) and the uid and resourceVersion it has read (`seen`). `cluster` has one entry
for every host and kind: `vm`, `service`, `volume` (DataVolume), `claim` (PVC) and
`guest` (VMI). An object has a uid, a version, the run-id label (`own`), the uid of the
owner it names (`parent`) and `ending` once its deletion has begun.

- create: `Create` or `Resume` (`_load_run.yml`, `_init_run.yml`), `Persist`, `CheckOwned`
  or `CheckRefuses` for every object, `ApplyVm`, `ApplyService`, `WriteInventory`;
- destroy: `Destroy`, the checks again, for each host `DestroyHost`, then for VM and
  Service `Recheck` (or `NothingToDelete`, `RecheckRefuses`), `Delete` (or
  `DeleteConflict`, `DeletedByOther`), `ResourceGone`, and the waits `GuestGone`,
  `VolumeGone`, `ClaimGone`; `RemoveInventory`, `RemoveRun`;
- the cluster: `Controller` makes guests, volumes and claims, also on an outdated cache
  for a parent that is going; `Collect` and `Finalize` are foreground deletion;
- other users: `Vanish`, `Relabel`, `Squat`, `Leave`.

All volumes of a host are one. A run that is created after a completed destroy
draws a new identity, and with it names nobody uses: `Create` starts with an empty
cluster, since what is left there has other names. Other users act between any two tasks.
The apply calls of create carry no precondition, so what takes the name of a VM or a
Service after create has checked it and before it writes it is patched and labelled;
`ctl.taken` is a history of those names, and `ForeignKept` allows adoption of no others
(`roles/kubevirt/README.md:91-92` promises it of none).

### ContainerRun

`container[h]` and `network` are what the engine has, `jobs` the asynchronous module
calls (`poll: 0`) with their next step, `mine` being those the play waits for; `play`
is the play, with `done`, its result, and `clean`, which says that no job working
against it was in flight when it began. `engine` is a variable because it is the
scenario's: Podman verifies that containers run and refuses to remove a network in
use, Docker does neither. A job looks, then makes, starts or removes; in between
other jobs do the same. When a play ends its jobs go on without it (`LeftBehind`).

### Lifecycle and WriteAhead

`Lifecycle` adds the `backend` of the scenario to the state of both; `InCluster` and
`OnEngine` are the `include_role` of `playbooks/{create,destroy}.yml`. `WriteAhead` has
two variables, the names on record and the names in use; `RunAccounted` maps them to
the names of the saved run and the names under which the cluster has something of
the run. `NetworkAccounted` of `AwsRun` maps them to the ids of VPC, gateway, subnet and
routes that the saved journal accounts for (`Journalled`: those it has, and any id for the
kind whose creation it intends) and to those that exist, shown up or not (`Parts`).

## 3. What is checked

| Run | Instance | Shows |
|---|---|---|
| `qemu_one_run` | 1 run, 2 guests, automatic SSH ports, 3 ports, 2 pids, 2 generations, 3 process starts, 2 faults; death anywhere except between the two files of a save and before a pidfile | `LiveGuestsKeepResources`, `OneProcessPerGuest`, `OnlyOwnGuestsSignalled`, `NoAdoptedProcess`, `NoLaunchWhileDestroying`, `EndpointsStable`, `DestroyLeavesNothing` |
| `qemu_two_runs` | 2 runs on 2 controllers, a wildcard automatic endpoint against a fixed loopback one, 2 ports, 2 pids, 3 process starts, 2 faults; death anywhere except between the two files of a save, before a pidfile too | `EndpointsExclusive`, `ReservationsCompatible` |
| `qemu_recovery` | 1 guest with an automatic and a fixed port, every port may be taken by another program, death anywhere but before a pidfile, 3 faults, fairness | `TypeOK`, `ReservationsHaveManifest`, `ExplicitPortsKept`, `DestroyCompletes`, `LockReleased` |
| `qemu_save_crash` | 2 runs, one death between the two files of a save | violates `EndpointsExclusive` |
| `qemu_spawn_crash` | 1 run, death before the pidfile | violates `LiveGuestsKeepResources` |
| `aws_lease` | 2 controllers in one PID namespace, 1 in another, 3 pids (one is init), 2 start times, 2 faults, fairness | `MutualExclusion`, `LeasePreserved`, `LeaseRecoverable` |
| `aws_torn_lease` | 2 controllers, death between truncation and writing | violates `LeaseRecoverable` |
| `aws_run` | 2 guests on a managed network, 2 ids for each name, 3 interruptions or lost answers, everything but key pairs may show up late, fairness | `JournalUntilGone`, `OneOfEach`, `LaunchReplayable`, `NetworkAccounted`, `IdsKept`, `RunEnds` |
| `qemu_image_cache` | 3 controllers, every kind of artifact, 2 deaths or failed downloads, fairness | `UsedQcow2Whole`, `StagingRemoved`, `ImageAvailable` |
| `aws_request` | 14,502 inventories with and without a launch template, two creates, launches cut short, two images of which the newer, with a larger root disk, may appear at any moment | `Disposable`, `EveryInterfaceOnce`, `BootstrapDelivered`, `Precedence`, `OnePlace`, `SavedRunRendered` |
| `lifecycle` | KubeVirt: one host with Service and disk, or two bare ones; Podman and Docker: two hosts, one of which overrides the label; 2 creates, 2 faults, fairness | `LifecycleTypeOK`, `InventoryHasRun`, `ForeignKept`, `RunAccounted`, `DestroyCompletes`, `CreateComplete`, `CleanupComplete`, `DestroyConverges` |
| `qemu_partial_image` | 2 controllers, a raw disk, one death | violates `UsedImageWhole` |

All runs but one check deadlock: no system there stops for good, since a user may
always run a play again. In `aws_request` a create that is refused stops, and its
successors would be refused likewise; deadlock is not checked there.

### Bounds

- Two guests are needed for order within destroy and for ports released one by
  one; two runs for sharing; in `qemu_one_run` a third port lets one automatic endpoint move
  while another is taken; in `qemu_two_runs` the automatic port moves between the two,
  one of which the other run asks for. Two pids make recycling happen at once.
- `MaxStarts` counts processes started, unrelated ones included. Three allow a
  guest, its lost launch and a process that takes over its pid.
- `MaxGen` = 2 lets a run be destroyed and created again while remains of its first
  generation exist.
- `MaxFaults` bounds deaths, kills, QMP timeouts, unrelated processes and taken
  ports together. Two faults give a death and what it is vulnerable to (a recycled
  pid, a second death during recovery). `qemu_recovery` has three, so that a launch
  may lose the race for its port until its retries are used up.
- `CrashPoints` (and `CrashBeforePidfile`) are not bounds but preconditions. Of the points
  they exclude, `qemu_save_crash`, `qemu_spawn_crash` and `aws_torn_lease` show what
  happens at a death between the two files of a save, before a pidfile, and between
  truncation and writing of the lease. No run shows what happens when a controller dies
  before its worker has asked for its parent's pid (`aws_lock.py:63`): see
  `IdentityAssumption` in section 4.
- Pids are only compared, so `qemu_one_run` and `qemu_two_runs`, which check no
  liveness, use symmetry on them.
- In `aws_run` a second id of each name is what a repeated create would make, so two
  are enough to see it; three faults let a lost answer, the interruption of the next
  play and that of its destroy come together. Two guests make the teardown of the
  network wait for both. The run is one identity: a run that is created after a
  completed destroy draws another and shares no name with it.
- Every QEMU run has one controller per run. The theorems about the tables
  (`TypesKept`, `ReservationsReleasable`, `ReservationsExclude`, `ExplicitPorts`) hold
  for several controllers on one run and for deaths at every step.
- In `aws_request` the inventories are several slices (`MCAwsRequest`), each the full
  product of the fields that interact: interfaces with groups, subnets, public
  address and mode; bootstrap with key injection and connection; zones, disks and
  placement of two hosts that share a region or do not; templates against
  explicit fields. A product of all would be out of reach and would mostly combine
  fields that no line of code looks at together. Two creates are enough for
  something to change in between.
- In `lifecycle` two hosts let a destroy stop between them, and one host has every kind
  of object. Other users touch the names of the first host only (`Contested`), which
  includes a claim without its volume. Two faults give a takeover and an interruption,
  two interruptions, or two jobs left behind. `MaxCreates` bounds container creates; a
  run in the cluster needs no bound.
- In `aws_lease` the third pid lets a dead controller's pid go to an unrelated
  program while the next controller runs; a start time never comes back with the
  same pid while a lease or a worker remembers the two.

### Fairness

- A module call goes on (`WF` of `Call`), and so does QEMU: a started process comes
  up or fails, and ends on SIGKILL. It may ignore SIGTERM for ever; the code's own
  timeout handles that.
- The user inspects what destroy refuses (`SF` of `Inspect`), as `roles/qemu/README.md:76`
  asks for: without it destroy would not complete after a launch that failed once QEMU
  listened.
- `flock` is granted to one who waits (`SF` of `Enter`): the call blocks on it while
  others come and go.
- The user repeats destroy (`SF` of `Start(c, "destroy")`), as the failure message
  asks for. Nothing obliges anyone to create.
- An unrelated program on a recycled pid ends some day; otherwise `owned` keeps
  answering that it cannot tell, by design.
- AWS: tasks end and users run plays again (`SF` of `Call \/ Run`); a lease of
  another namespace is cleared by hand. Deaths and unrelated processes have no
  fairness, and are finite in number.
- AWS run: the tasks of a play go on (`WF` of `Work`), what was accepted shows up, the
  user repeats destroy (`SF` of `Destroy`) and resolves an entry that destroy calls
  uncertain once EC2 has nothing of it (`SF` of `ResolvePending`), which is what
  roles/aws/README.md:209-212 asks for. Nothing obliges anyone to create.
- Image cache: plays go on and are run again (`WF` of `Play`).
- KubeVirt: a play goes on (`WF` of `Play`) and the user repeats destroy until it
  succeeds (`SF` of `Destroy`, as README.md:103-110 asks for); garbage collection makes
  progress, and what another user has put on a name of the run is removed by him
  (`WF` of `Settle`): as long as it stands there destroy refuses, by design. Nothing
  obliges a controller to make anything.
- Containers: plays and jobs go on (`WF` of `Tasks`, `Jobs`), and the user repeats
  destroy (`SF`). `async` ends a job that hangs.

Each fairness condition names only what the code or the user does; none is on a
fault.

### Two consequences the AWS model makes visible

The teardown uses what reconciliation recovers, but does not save it (the host
checkpoints come before, `_destroy_network.yml` has none). If a destroy deletes a
part of the network that was pending and then fails, the retry finds nothing under
the pending entry and calls its own deletion an uncertain create. `RunEnds` therefore
needs the user's part (`ResolvePending`), not only repetition.

An instance whose launch answer was lost and that does not show up yet is not
terminated. `JournalUntilGone` still holds, because its group cannot be deleted while
it uses it, and destroy stops there. That holds for managed groups and networks,
which are the ones modelled.

### What the request model makes visible

Met while the rules were modelled. `aws_request` has the first four behaviours, and its
properties except exactly them; no run is about the others.

- An explicit `key_inject_method: none` leaves the template's `KeyName` in the request:
  `request` keeps what it does not set, although `roles/aws/README.md:136-138` has explicit
  inventory values override the template's. `Precedence` states what comes out.
- A zone that only the template pins (`Placement`) is copied into the request
  (`aws_spec.py:465`) and overridden by `instance_options` alone (470-478). Neither
  `network_plan` nor `_existing.yml` compares it with the zone they choose, so the guest may
  be asked for in one zone and its subnet be in another, which EC2 refuses after the network
  has been made. `OnePlace` excepts that zone from the request's own, and nothing else.
- An interface with `groups: []` gets the groups of its host when it is launched (512 tests
  the list) and none when it is attached later (`_secondary_interface.yml:42` tests only
  whether there is one). `EveryInterfaceOnce` excepts the latter.
- If a play dies between the launch and the checkpoint of the instance id, or the answer of
  RunInstances is lost, referenced interfaces are attached to an instance that the journal
  does not have. Every repeated create is then refused in its preflight
  (`_existing.yml:86-89`), though the saved request could be replayed and
  `roles/aws/README.md:187-191` has a repeated create keep the instance. The same goes for
  a reference that two hosts share. `SavedRunRendered` excepts these refusals, and no other.
- Template interfaces of both kinds are refused with "Mixed existing and generated
  template ENIs require explicit network overrides" whether or not there are any;
  `network_interfaces` of the inventory beside existing template interfaces are
  refused as mutually exclusive.
- The first normalisation asks for `management_cidrs` or groups even where the template
  would supply the groups.
- A `cloud_init` mapping in the inventory suppresses the template's user data even where
  it does not say `enabled`: what `template_spec` takes for explicit has been through
  `normalize` before, which has filled the default in.

### What the image cache makes visible

A disk in a zip is extracted where other plays look for it. A play that starts while
another extracts finds the file, probes its header, renames it to `disk.qcow2` and makes
its overlays on half an image; if the extracting play dies, it stays half. The run and the
proofs have that behaviour; `UsedQcow2Whole` therefore speaks of plain and compressed
artifacts, and `ImageAvailable` and `StagingRemoved` of all.

### A job that nobody waits for

A container job that outlives its play works against whatever the next play does: a
creation finishes after a destroy, a removal after a create. `CreateComplete` and
`CleanupComplete` therefore speak of plays with no such job in flight when they began;
`DestroyConverges` says that repetition gets there in the end, which is what the
comment at `podman/tasks/create.yml:25-27` relies on.

### What the violations show

1. **A death between manifest and reservations loses the allocation**
   (`qemu_runtime.py:126-127`). The run comes back with a manifest whose ports no
   other run can see; `reserve` on an existing run does not publish them again.
2. **A death before the pidfile loses the guest** (`qemu_runtime.py:434`). Neither
   pidfile nor socket exists, so the checks for interrupted launches see nothing;
   destroy deletes the overlay and frees the ports of a guest that then comes up.
   The proof of `NoAdoptedProcess` failed at such deaths, for a good reason: if
   `qemu_two_runs` is asked for it, TLC shows that the guest may also write its
   pidfile after the next launch has looked for one, which then unlinks it. A second
   process is started and dies, its pid goes to a QEMU of another run, and the first
   guest, which still answers QMP with the right UUID, makes `recover_launch` record that
   other process as its own. The theorems about guests exclude deaths at this point.
3. **A torn lease file is not recoverable** (`aws_lock.py:39-41`). The file is
   truncated, then written; `json.loads` fails on the empty file for every later
   acquire and release.
4. **A raw image is published before it is complete** (`_cache_image.yml:143`).
   The conversion writes under the final name, whose existence is the cache test: a second
   play uses the image before it is complete, and after a conversion that was cut short
   every play does.

`launch` does not look at the phase of the manifest (`qemu_runtime.py:420`): with two
controllers on one run, one that has reserved can start guests of a run whose destroy
the other has begun, though `reserve` refuses such a run (189).
`NoLaunchWhileDestroying` is checked with one controller per run.

`roles/qemu/README.md:68` says that automatic ports are "retried up to three times".
The code launches up to three times, so it reallocates up to twice (`attempt < 2`);
the model follows the code, and `TypeOK` bounds `tries` accordingly.

## 4. What is proved

For every value of the constants that satisfies the named assumptions
(`SetsAssumption`, `SentinelAssumption`, `RequestAssumption`; `LeaseAssumption`;
`CacheAssumption`; `RunAssumption`; `KubevirtAssumption`, `LifecycleAssumption`; the
`RequestAssumption` and `ScenarioAssumption` of `AwsRequest`): sets of the right kind,
sentinels that are not values, a finite set of hosts, and inventories and templates made
of lists and mappings where the code takes nothing else. TLC evaluates them on every run.

**QemuRuntimeProofs.** `Spec => []TypeOK`, `Spec => []ReservationsHaveManifest`,
`Spec => []ReservationsCompatible`, `Spec => []ExplicitPortsKept`, for any number of runs, guests, controllers
(several on one run included) and deaths at any step. None of the first two safety
invariants is inductive: the files are written from the copies a call holds in
memory, so what the copies satisfy has to be carried along. `IInv` adds

- `PlayFits`, `CallReady`: a call holds the lock, works on a manifest, and a save
  returns to the step it left;
- `SameGeneration`: copy and file of the manifest are of one generation;
- `Synced`: except inside a save the copy of the reservations is the file, and
  between the two files of a save the manifest is already the copy;
- `CopiesNamed`, `CopiesCompatible`: the copies satisfy what the files are to satisfy.
  With `Synced` this is the argument for the order of the two writes: when the
  reservations are published, the manifest that names them is there;
- `CleanedUp`: during destroy the guests already dealt with are removed, and the
  run's reservations are those of the guests still active. This is what makes it
  right that the manifest goes before the final release: by then no reservation of
  the run is left in the file.

The proof has one lemma for each kind of step (`MoveKeeps`: control only;
`LeaveKeeps`: the lock is given up; `SavingKeeps`: a save begins; `WorldKeeps`: QEMU
and the rest of the host; `OthersKeep`: the other controllers), one for each action
by these, and `NextIInv` puts them together. `AllocatedCompatible` states what
`allocate` guarantees about a table, and `ReleasedTable` what a release removes.

Two more invariants are about the plays. `PlanInv` says that every manifest, on disk and
in memory, has the endpoints that its inventory asks for (`Sound`, hence
`ExplicitPortsKept`), that a call works on what it has read (`Remembered`), that destroy
has marked its manifest (`DestroyMarked`), and, with one controller per run, that a call
of create works on a manifest that is not marked (`Creating`). From this follow

- `OneControllerPerRun => (Spec => []NoLaunchWhileDestroying)`;
- `OneControllerPerRun /\ SavesWhole => (Spec => []EndpointsExclusive)`. `HeldInv` has the
  endpoints of every guest that is not removed reserved for its run and apart from each
  other (`Held`, `Apart`): in the files, except between the two writes of a save
  (`StoreHeld`), and in the copies of every call (`OwnHeld`, `OthersHeld`). Conflicting
  guests of two runs would be conflicting reservations.

`OneControllerPerRun` says that no two controllers run plays of one scenario at a time,
as Molecule does; the code has no lock between the calls of a play. `SavesWhole` says that
no controller dies between the two files of a save. `qemu_save_crash` shows that
`EndpointsExclusive` is false without it.

**QemuGuestProofs.** With `OneControllerPerRun /\ ~CrashBeforePidfile`, for any runs,
guests, pids, process starts and faults: `OneProcessPerGuest`, `NoAdoptedProcess`,
`OnlyOwnGuestsSignalled`, `EndpointsStable`, `DestroyLeavesNothing`; with `SavesWhole`
added, `LiveGuestsKeepResources`. What deaths before the pidfile do instead is shown by
`qemu_spawn_crash` and item 2 of "What the violations show". All six rest on one
invariant, `GuestInv`, since none is inductive: a manifest can only be trusted about a
process if pidfile, QMP socket, process table and the step of the call agree.

- `AliveKnown`, `StartingKnown`: a live guest's process is the one its pidfile names and
  has a manifest; one that is starting is waited for. This is where the death before the
  pidfile has to be excluded;
- `Fits`: what a manifest says of the live processes of its run (`AliveFits`), of the
  process that a record identifies by pid and start time (`RecordFits`), and of guests
  that are removed (`RemovedFits`). It holds of the manifest on disk and of the one that
  is about to replace it (`Judged`), so a save has nothing left to show;
- `SlotInv`: what a call knows of the guest it works on. Before it unlinks a pidfile,
  spawns, replaces ports or removes files nothing runs there (`Emptied`, `Replaces`); it
  spawns only when an earlier launch has been accounted for (`Accounted`); what it waits
  for is the guest's only process (`Waiting`); a pidfd names the guest or what has nothing
  to do with its record (`Opened`);
- `StartsKnown`: start times tell processes apart, which is what the code relies on
  against recycled pids.

`LiveInv` adds for the last theorem that reservations of live guests are in the file
while a save has replaced the manifest only. `GuestsFit` states the invariant; `CallAt`,
`PublishSteps` and `PublishProcs` reduce the steps to the few that matter.

**AwsLeaseProofs.** Under `IdentityAssumption`, `Spec => []LeasePreserved` and
`Spec => []MutualExclusion`. The invariant says that `/proc` shows live controllers
under their pids, that a waiting worker knows its parent's pid, and that who writes
the lease file has the guard and nobody holds the lease. `NotRefusedAlone` is the
heart of it: if acquire is not refused then no live controller holds the lease.
`IdentityAssumption` excludes a death of the controller while its worker waits for
the guard: `aws_lock.py:63` asks for the parent's pid, and a worker that was
orphaned in between signs for init, or for a pid that may be recycled.
The model has those deaths; the run and the theorems exclude them.

**AwsRunProofs.** `Spec => []TypeOK`, `Spec => []NetworkJournalled`,
`Spec => []OneNet` (no part of the network exists twice) and `Spec => NetworkAccounted`
(the refinement of `WriteAhead`), for any number of guests,
interruptions and lost answers, any quota, and every kind showing up late. The
invariant `IInv` adds that

- the play's copy accounts for the network as the journal does (`MemAccounted`,
  `RunSaved`), since the journal is written from it;
- a create call is made under a saved intent for what does not exist (`Creating`), so
  that a lost answer leaves one thing and an intent (`OneNet`);
- what has an id has shown up (`IdsSeen`), hence what reconciliation finds, where it
  does not refuse, is all there is (`FoundAll`);
- teardown works on all there is, in its order, and the journal is removed when
  nothing of the network is left (`Deleting`).

Steps on guests leave the network and its part of the record alone (`MiddleKeeps`,
`StopKeeps`), so the proof has one argument for all of them. The refinement rests on
`OneAtATime`: a step changes nothing that exists of the network, or one thing of it under
an unchanged journal (`CreatesOne`, `DeletesOne`; what shows up late has existed before,
`AppearsNone`). That a save keeps what is there is `NetworkJournalled` before and after it.

**AwsGuestProofs.** On top of `IInv`, with the same generality:
`Spec => []JournalUntilGone`, `Spec => []OneOfEach`, `Spec => []LaunchReplayable` and
`Spec => IdsKept`. The invariant `GInv` says how the things of a guest hang together
and what is known of each:

- `Hangs`: an instance and an interface hold their group, a group its VPC, and the
  VPC is in the journal. So whatever has not shown up yet, destroy stops before the
  journal goes. Key pairs hang on nothing; `Keys` has the journal outlive them, because
  their id is saved before the import and destroy has deleted them all when its loop is
  through (`Razing`);
- `Records`, `Knows`: journal and copy have the ids and intents of what may exist, and
  the copy has every id of the journal: a save forgets nothing (`IdsKept`);
- `Interfaces`: an interface comes after its instance was seen and goes when it is
  terminated, so a launched guest has all interfaces that were recorded of it, and
  `SaveDescendants`, which replaces the list, loses none (`DescendantsKept`);
- `Single`, `Building`: something is made only where nothing of its name is there, also
  nothing hidden: a group for its name, an instance for its client token, an interface
  for the intent that is saved before and refused afterwards.

Steps that make, delete or only write have one lemma each for what exists and what is
known of it, wherever the play is (`GroupMade`, `InstanceMade`, `EniMade`; `AgeStands`;
`RecordStep`); each action's lemma adds where the play goes.

**QemuImageCacheProofs.** `Spec => []UsedQcow2Whole` for any number of controllers,
faults and kinds: a qcow2 that does not come in a zip gets its final name by one rename of
a file that has been whole since it had its name. And
`Spec => []StagingRemoved`: as long as nothing died or failed, a staging file has a play
in the block that has yet to clean it up (`Attended`).

**AwsRequestProofs.** `Spec => []SavedRunRendered` for any inventories, templates and
images: what is refused is refused before the run is saved, except for references that are
attached where the journal does not expect them (`Elsewhere`). The theorem is about the
order of the play and what it carries over, not about the fields of a specification:
`Effective(h)`, what inventory and template come to, does not change, so that every
create asks the same questions. The invariant says that they have been answered:

- the hosts the loop of the preflight has reached are `Fit`, with the image of their
  plan (`InPreflight`), and so is every host of a saved run with the image that was
  saved (`SavedFits`); a repeated create takes that image and not the newest one;
- the networks of a saved run were feasible (`Feasible`), which depends on the
  inventory only (`PlanFeasible`);
- a saved request is what a launch would render again, with the groups that the first
  launch put into the saved plan (`Repeated`).

It rests on `RequestAssumption`: every inventory has a host (without one a saved run
would be a run without plans, which no play makes), and images and zones are numbers, which
stand for the order `image_info` and `network_plan` sort them in.

Five more theorems are about the fields of what is rendered, for any inventories and
templates that `ScenarioAssumption` admits: lists are lists and finite, an inventory names no
existing interface among those to be generated (`_unknown()` in `normalize()`), the network
mode is one of the three, ids and key names are not empty, user data is a text (a mapping
under `cloud_init` too), a template's is not empty, and without a template there is nothing
of a template.

- `Spec => []BootstrapDelivered`. `Effective(h)` is `Normal` of what inventory or template
  say (`Source`), plus a region; `Chosen` says that every planned host's source was
  accepted, so the conditions that `normalize()` refuses by (`BootstrapMayBe`) are facts
  about `Effective(h)`. `NormalField`, `DerivedField`, `TemplatedField` and `SettledField`
  state what each pass makes of a field, and `TemplatedWellFormed` that a template does
  not lead out of the well-formed specifications. `SettledParts` and `Delivered` conclude.
- `Spec => []Disposable`, from `NicsParts` (what `request()` makes of an interface),
  `LaunchedSet` (a public guest launches its primary interface alone), `GoodNics` (indexes
  are unique and 0 is among them) and `LaterTagged`.
- `Spec => []EveryInterfaceOnce`. `LaterAsRendered` says that what is
  attached later is what `_secondary_interface.yml` derives from the specification, and
  `WantedIndexes` that the interfaces of `Effective(h)` are those that inventory or
  template ask for. `InterfaceGroups` and `LaterField` have the two ways in which an
  interface gets its groups, with the exception for an empty list.
- `Spec => []OnePlace`. `Placed` says that a plan says what the specification of its host
  says (`PlanOf`), and that a saved network is in a zone which every host that shares it
  can use (`Networked`); `network_plan()` takes the least of the common zones, which
  `LeastZone` shows to be one of them (numbers are well-founded, so that there is a least).
  `Suits` is a zone where type, disks, placement, network and interfaces of a host meet:
  `CreatedZone` finds it in the saved network, `ExistingZone` in the subnet that
  `_existing.yml` checks everything against.
- `Spec => []Precedence`. `Inherited` says that `Effective(h)` has the fields of the
  inventory and then those the template speaks for; one lemma for each part
  (`ComputePrecedence`, `PrimaryPrecedence`, `GroupPrecedence`, `CreatePrecedence`,
  `DataPrecedence`, `KeyPrecedence`, `DiskPrecedence`) follows it into the request, through
  the plan (`Placed`) for image, groups and subnet, and through `Overridden`
  (`OverriddenParts`, `SilentParts`, `SilentPrimary`) for the template's interfaces.
  `AddressPrecedence`, `DerivedNetwork` and `NamedNetwork` have what the template says of
  address, subnet and groups.

**LifecycleProofs.** Of a KubeVirt run, for any hosts, inventories, interruptions and users:
`Spec => []TypeOK`, `Spec => []InventoryHasRun`, `Spec => ForeignKept` and
`Spec => RunAccounted`, the refinement of `WriteAhead`. Two strengthenings carry it:

- `SeenOwned`: between `Recheck` and `Delete` what has the uid and the version that the
  play has seen is the run's. A change of the label changes the version, so a takeover
  in between makes the precondition fail. `ForeignKept` follows, since `Delete` is the
  only step that touches an object without looking at its label, besides create's writes: of
  those `NotForeign` says that a name is the run's or in `ctl.taken`;
- `Cleaning`: what of the run may still be there, by where destroy is. A VM that is gone
  can have no new dependents, so the order VM, guest, volume, claim means that each wait
  that succeeds succeeds for good; once the loop is through nothing of the run is left,
  and the saved run may go.

A step of a scenario is a step of `KubevirtRun` or leaves its state alone, so
`ForeignKept` and `RunAccounted` hold of every scenario, whatever backend it has.

Of the container engines, for any hosts, jobs, faults and interruptions:
`LifecycleSpec => []CreateComplete`, `LifecycleSpec => []CleanupComplete`, and with the
types of both halves `LifecycleSpec => []LifecycleTypeOK`. What a play has achieved so far
is undone by jobs that work against it, so `EngineInv` says of a play that began with none
in flight that none appears (only plays start jobs, and there is one play), and what its
loops have established:

- `Attended`: the jobs a play waits for are its own, for what it does, and a play that is
  over has none;
- `Kept`: the hosts that the wait of a create has passed have a container, because the
  answer "ok" of its job means that there is one, and nothing removes it;
- `Gone`: the hosts that the wait of a destroy has passed have none, and what a reset has
  still to do covers all that is labelled.

**Model-checked only.** All liveness properties: liveness under fairness and `ENABLED` are
out of the prover's reach. So is induction over data, which no theorem here needs: what the
operators of `AwsRequest` do with a list they do field by field or element by element.

## 5. What is not modelled

- Host-to-host socket networks of QEMU (`qemu_runtime.py`: listeners and connectors
  that share `retry_ports`) and the runtime inventory: planned.
- The legacy port base, the 100 draws of an automatic port, validation of requests:
  data without state.
- Media other than the overlay: they are made if missing and removed with the
  overlay, whose role in the order of destroy is the one that matters.
- Tasks an orphaned AWS worker still runs: `MutualExclusion` speaks of live
  controllers.
- AWS: the journalling of caller-owned networks, groups, key pairs and interfaces, of
  several regions and of generated volumes; local key files; account and descendant
  checks; the completion of gateway attachments and routes. In `AwsRequest`: the search
  for an existing subnet, ports, ingress rules, tags, the generated inventory.
- KubeVirt: the fixed-name mode (no ownership, by design), rendering and validation,
  the SSH key pair, Service ports (`_create_service.yml` preserves the allocated ones).
- Podman and Docker: validation and argument lists, `prepare`, several networks of one
  scenario, containers of other scenarios that carry the label reset goes by.
- Playbooks: `prepare`; a change of backend between the plays of a scenario; QEMU and AWS
  scenarios, which are modelled on their own.
- A QEMU parent that never returns: `subprocess.run` has no timeout, so a call would
  keep the lock for ever; the liveness run assumes that it returns.
- Metadata, CI, examples.

## 6. Plan

Done: `QemuRuntime`, `AwsLease`, `QemuImageCache`, `AwsRun` (network and guests) with their
proofs, the journal as `WriteAhead` for the network; `KubevirtRun` with the refinement of
`WriteAhead`, `ContainerRun`, `Lifecycle` with the proofs of all three; `AwsRequest` with
the proofs of every invariant its run checks. Next, in order of importance:

1. `AwsRun`: caller-owned groups and networks (where a late instance has no managed group
   to hold destroy back), several regions, local key files, volumes.
2. Socket networks in `QemuRuntime` (listener ports that connectors depend on).
3. The merge and validation rules of `qemu_spec.py` in the style of `AwsRequest`.
4. An abstract port registry (atomic allocate and release) that `QemuRuntime`
   implements when no controller dies inside a save.

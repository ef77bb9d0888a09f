------------------------------ MODULE AwsRequest ------------------------------
(***************************************************************************)
(* From the inventory to the RunInstances requests of an AWS run:          *)
(* plugins/module_utils/aws_spec.py as roles/aws/tasks/_create.yml,        *)
(* _preflight.yml, _existing.yml and _host.yml call it.                    *)
(*                                                                         *)
(* A specification (of a host, of a template, of an interface) is a        *)
(* function whose domain is the set of fields it has, as a Python dict is. *)
(* Texts, ids and names are opaque.  What AWS has to offer is constant,    *)
(* but for new images, which are published at any moment, and for what the *)
(* guests of this run hold of the interfaces and volumes they reference.   *)
(* That requests are launched once, and that generated resources are       *)
(* journalled, is module AwsRun's matter.                                  *)
(***************************************************************************)
EXTENDS Integers, FiniteSets, Sequences

CONSTANTS
  Scenarios,      \* [inventory, templates]: what the hosts and the pinned templates say
  Images,         \* AMIs, in the order of their creation
  Compatible,     \* those that are available, EBS-backed, of the right architecture
  RootSize,       \* their root volumes
  ZonesOf,        \* enabled zones that offer an instance type
  SubnetZone,     \* existing subnets
  EniSubnet,      \* existing interfaces
  DiskZone,       \* existing volumes
  OnlySubnet,     \* what a selection by VPC or groups finds
  MaxInterfaces,  \* limit of the instance types
  DefaultRegion,  \* of the SDK configuration
  MaxCreates,     \* bound: create plays of the run
  NoRequest, NoSubnet

ASSUME RequestAssumption ==
  /\ Images \subseteq Nat /\ Compatible \subseteq Images
  /\ \A type \in DOMAIN ZonesOf : ZonesOf[type] \subseteq Nat
  /\ MaxInterfaces \in Nat \ {0} /\ MaxCreates \in Nat
  /\ \A scenario \in Scenarios : DOMAIN scenario.inventory # {}

VARIABLES
  inventory,  \* per host, merged with mp_defaults.aws
  templates,  \* the pinned version of each host's template; empty without one
  published,  \* images that exist
  pc,
  todo,       \* hosts the current loop has not reached
  specs,      \* __mp_aws_specs
  plans,      \* __mp_aws_plans
  run,        \* aws_run.yml: plans of the hosts and networks of the regions
  requests,   \* aws-requests/<host>.json
  later,      \* interfaces that are attached after the launch
  known,      \* hosts whose instance id is saved
  attached,   \* per host, referenced interfaces and volumes its instance has
  creates

outside == <<inventory, templates>>
play == <<specs, plans>>
rendered == <<run, requests, later>>
guests == <<known, attached>>
vars == <<outside, published, pc, todo, play, rendered, guests, creates>>

-----------------------------------------------------------------------------
(* Partial specifications. *)

Nothing == [f \in {} |-> f]
Has(s, f) == f \in DOMAIN s
Get(s, f, default) == IF Has(s, f) THEN s[f] ELSE default
Over(left, right) ==
  [f \in DOMAIN left \cup DOMAIN right |-> IF Has(right, f) THEN right[f] ELSE left[f]]
Without(s, f) == [g \in DOMAIN s \ {f} |-> s[g]]
Some(seq, P(_)) == \E i \in DOMAIN seq : P(seq[i])

\* merge(): mappings are merged, everything else is replaced.
Nested == {"network", "cloud_init"}
Merge(left, right) ==
  Over(left, [f \in DOMAIN right |->
    IF f \in Nested /\ Has(left, f) THEN Over(left[f], right[f]) ELSE right[f]])

\* Bootstrap data: an opaque text, or a mapping with the keys it authorises
\* for the management user and the packages it installs.
Text(t) == [kind |-> "text", text |-> t, keys |-> {}, packages |-> {}]
Mapping(keys, packages) == [kind |-> "mapping", text |-> "", keys |-> keys, packages |-> packages]
NoData == Text("")
Empty(data) == data.text = "" /\ data.keys = {} /\ data.packages = {}
Opaque(s) == ~Empty(Get(s, "user_data", NoData))

-----------------------------------------------------------------------------
(* normalize(): defaults, then validation. *)

Defaults ==
  [instance_type |-> "small", connection |-> "ssh", assign_public_ip |-> TRUE,
   connection_address |-> "public", management_cidrs |-> {},
   network |-> [mode |-> "auto", vpc_cidr |-> "10.77"]]

Windows(s) == s.connection = "winrm"
DefaultKey(s) ==
  IF Windows(s) THEN "ec2" ELSE IF s.connection = "network_cli" THEN "none" ELSE "cloud-init"

Nics(s) == Get(s, "network_interfaces", <<>>)
Enis(s) == Get(s, "network_interfaces_ids", <<>>)
Groups(s) == Get(s, "security_groups", {})
Interfaces(s) == IF Enis(s) # <<>> THEN Enis(s) ELSE Nics(s)
Index(list, i) == Get(list[i], "device_index", i - 1)

References(s) ==
  \/ Has(s, "subnet_id") \/ Groups(s) # {} \/ Enis(s) # <<>>
  \/ Some(Nics(s), LAMBDA nic : Has(nic, "subnet_id"))
Mode(s) ==
  IF s.network.mode # "auto" THEN s.network.mode
  ELSE IF References(s) THEN "existing" ELSE "create"

Cloud(s) ==
  Over([enabled |-> ~Windows(s) /\ s.connection # "network_cli" /\ ~Opaque(s),
        mode |-> "merge", user_data |-> Mapping({}, {})],
       Get(s, "cloud_init", Nothing))

WithDefaults(raw) ==
  LET s == Merge(Defaults, raw) IN Over([key_inject_method |-> DefaultKey(s)], s)

Normal(raw) ==
  LET s == WithDefaults(raw)
      resolved == [network |-> Over(s.network, [mode |-> Mode(s)]), cloud_init |-> Cloud(s)]
      origin == [explicit |-> DOMAIN raw,
                 input_mode |-> Get(Get(raw, "network", Nothing), "mode", "auto")]
  IN Over(Over(s, resolved), IF Has(s, "launch_template") THEN origin ELSE Nothing)

Reachable(s) == s.connection_address = "public" => s.assign_public_ip \/ Has(s, "connection_ip")

NetworkMayBe(s) == s.network.mode = "create" => ~References(s)

InterfacesMayBe(s) ==
  LET list == IF Nics(s) # <<>> THEN Nics(s) ELSE Enis(s) IN
  /\ \A i, j \in DOMAIN list : i # j => Index(list, i) # Index(list, j)
  /\ list # <<>> => \E i \in DOMAIN list : Index(list, i) = 0
  /\ Enis(s) # <<>> => ~s.assign_public_ip /\ Nics(s) = <<>>

\* Mutant: a disabled bootstrap still counts as the way to deliver the key.
BootstrapMayBeOff(s) ==
  LET cloud == Cloud(s) cloudKey == s.key_inject_method = "cloud-init" IN
  /\ Windows(s) \/ cloud.user_data.kind = "text" => ~cloudKey
  /\ Opaque(s) => ~cloudKey /\ ~cloud.enabled /\ Empty(cloud.user_data)

BootstrapMayBe(s) ==
  LET cloud == Cloud(s) cloudKey == s.key_inject_method = "cloud-init" IN
  /\ Windows(s) \/ cloud.user_data.kind = "text" \/ ~cloud.enabled => ~cloudKey
  /\ Opaque(s) => ~cloudKey /\ ~cloud.enabled /\ Empty(cloud.user_data)

IngressMayBe(s) == Groups(s) # {} \/ Enis(s) # <<>> \/ s.management_cidrs # {}

ImageMayBe(s) ==
  /\ ~(Has(s, "image_id") /\ Has(s, "image_name"))
  /\ Has(s, "launch_template") \/ Has(s, "image_id") \/ Has(s, "image_name")

Volumes(s) == Get(s, "volumes", <<>>)
DisksMayBe(s) ==
  /\ \A i, j \in DOMAIN Volumes(s) : i # j => Volumes(s)[i].device # Volumes(s)[j].device
  /\ ~Some(Volumes(s), LAMBDA disk : ~Get(disk, "delete", TRUE))

Acceptable(raw) ==
  LET s == WithDefaults(raw) IN
  /\ Reachable(s) /\ NetworkMayBe(s) /\ InterfacesMayBe(s) /\ BootstrapMayBe(s)
  /\ IngressMayBe(s) /\ ImageMayBe(s) /\ DisksMayBe(s)

-----------------------------------------------------------------------------
(* template_spec(): what the inventory is silent about comes from the template. *)

TemplateNics(t) == Get(t, "NetworkInterfaces", <<>>)
Existing(nic) == Has(nic, "NetworkInterfaceId")
TemplateIndex(nics, i) == Get(nics[i], "DeviceIndex", i - 1)

Disposed(t) ==
  /\ ~Has(t, "InstanceMarketOptions") /\ ~Get(t, "DisableApiTermination", FALSE)
  /\ ~Some(Get(t, "BlockDeviceMappings", <<>>), LAMBDA disk : ~Get(disk, "delete", TRUE))
  /\ ~Some(TemplateNics(t), LAMBDA nic :
        IF Existing(nic) THEN Get(nic, "DeleteOnTermination", FALSE)
        ELSE ~Get(nic, "DeleteOnTermination", TRUE))

NotMixed(t) ==
  Some(TemplateNics(t), Existing) => ~Some(TemplateNics(t), LAMBDA nic : ~Existing(nic))

\* A template's interface in the words of the inventory.
Converted(nics, i) ==
  LET nic == nics[i]
      base == [device_index |-> TemplateIndex(nics, i)]
      place == IF Has(nic, "SubnetId") THEN [subnet_id |-> nic.SubnetId] ELSE Nothing
      guard == IF Has(nic, "Groups") THEN [groups |-> nic.Groups] ELSE Nothing
  IN Over(Over(base, place), guard)

\* Mutant: the template's own networks are not overridden.
OverriddenNever(nic, explicit) == nic

\* An explicit subnet places the primary, explicit groups replace the template's.
Overridden(nic, explicit) ==
  LET placed == IF Has(explicit, "subnet_id") /\ nic.device_index = 0
                THEN Over(nic, [subnet_id |-> explicit.subnet_id]) ELSE nic
  IN IF Has(explicit, "security_groups") THEN Without(placed, "groups") ELSE placed

Explicit(s) ==
  [f \in s.explicit |-> IF f = "network" THEN Over(s.network, [mode |-> s.input_mode]) ELSE s[f]]

Primary(nics) ==
  LET first == {i \in DOMAIN nics : TemplateIndex(nics, i) = 0}
  IN IF first = {} THEN Nothing ELSE nics[CHOOSE i \in first : \A j \in first : i <= j]

Generated(t) == TemplateNics(t) # <<>> /\ ~Some(TemplateNics(t), Existing)
TemplatePrimary(t) == IF Generated(t) THEN Primary(TemplateNics(t)) ELSE Nothing
TemplateGroups(t) ==
  LET groups == Get(TemplatePrimary(t), "Groups", {}) IN
  IF groups # {} THEN groups ELSE Get(t, "SecurityGroupIds", {})

\* The fields a template speaks for, and what it makes of them.
TemplateFields(s, t) ==
  LET explicit == Explicit(s) existing == Some(TemplateNics(t), Existing) IN
  {"instance_type", "key_inject_method", "cloud_init"}
  \cup (IF Has(t, "ImageId") /\ ~Has(explicit, "image_name") THEN {"image_id"} ELSE {})
  \cup (IF Has(t, "KeyName") THEN {"key_name"} ELSE {})
  \cup (IF Has(t, "SubnetId") THEN {"subnet_id"} ELSE {})
  \cup (IF TemplateGroups(t) # {} THEN {"security_groups"} ELSE {})
  \cup (IF existing THEN {"network_interfaces_ids", "assign_public_ip"} ELSE {})
  \cup (IF Generated(t) THEN {"network_interfaces"} ELSE {})
  \cup (IF Has(TemplatePrimary(t), "AssociatePublicIpAddress") THEN {"assign_public_ip"} ELSE {})
  \cup (IF Has(t, "UserData") /\ ~Get(Get(explicit, "cloud_init", Nothing), "enabled", FALSE)
        THEN {"user_data"} ELSE {})
  \cup (IF Has(explicit, "network") THEN {} ELSE {"network"})

TemplateEnis(t) ==
  LET nics == TemplateNics(t) IN
  [i \in DOMAIN nics |-> [id |-> Get(nics[i], "NetworkInterfaceId", NoSubnet),
                          device_index |-> TemplateIndex(nics, i)]]
TemplateInterfaces(t, explicit) ==
  LET nics == TemplateNics(t)
      own == Has(explicit, "network_interfaces") \/ Has(explicit, "network_interfaces_ids")
  IN [i \in DOMAIN nics |-> IF own THEN Converted(nics, i)
                            ELSE Overridden(Converted(nics, i), explicit)]

TemplateValues(s, t) ==
  [instance_type |-> Get(t, "InstanceType", s.instance_type),
   key_inject_method |-> IF Has(t, "KeyName") THEN "ec2" ELSE "none",
   cloud_init |-> [enabled |-> FALSE],
   image_id |-> Get(t, "ImageId", 0),
   key_name |-> Get(t, "KeyName", ""),
   subnet_id |-> Get(t, "SubnetId", NoSubnet),
   security_groups |-> TemplateGroups(t),
   network_interfaces_ids |-> TemplateEnis(t),
   network_interfaces |-> TemplateInterfaces(t, Explicit(s)),
   assign_public_ip |-> Get(TemplatePrimary(t), "AssociatePublicIpAddress", FALSE),
   user_data |-> Get(t, "UserData", NoData),
   network |-> [mode |-> "auto"]]

Derived(s, t) ==
  LET value == TemplateValues(s, t) IN [f \in TemplateFields(s, t) |-> value[f]]

Templated(s, t) == Merge(Derived(s, t), Explicit(s))

-----------------------------------------------------------------------------
(* What inventories and templates are made of: _unknown() and isinstance() in *)
(* normalize(), what AWS names and numbers, and what EC2 takes for a template. *)

IsList(list) == Len(list) \in Nat /\ list = [i \in 1..Len(list) |-> list[i]]
IsData(data) ==
  /\ data.kind \in {"text", "mapping"}
  /\ data = [kind |-> data.kind, text |-> data.text, keys |-> data.keys, packages |-> data.packages]

WellFormed(raw) ==
  /\ Get(Get(raw, "network", Nothing), "mode", "auto") \in {"auto", "create", "existing"}
  /\ IsFiniteSet(Get(raw, "existing_volumes", {}))
  /\ IsList(Nics(raw)) /\ ~Some(Nics(raw), LAMBDA nic : Has(nic, "id"))
  /\ IsList(Enis(raw))
  /\ ~Some(Enis(raw), LAMBDA nic : Has(nic, "subnet_id") \/ (Has(nic, "id") /\ nic.id = NoSubnet))
  /\ Get(raw, "key_name", "key") # ""
  /\ IsData(Get(Get(raw, "cloud_init", Nothing), "user_data", NoData))
Typed(raw) ==
  LET data == Get(raw, "user_data", NoData) IN
  /\ data = Text(data.text)
  /\ Get(raw, "assign_public_ip", TRUE) \in BOOLEAN /\ IsList(Volumes(raw))
WellFormedTemplate(t) ==
  /\ IsList(TemplateNics(t))
  /\ ~Some(TemplateNics(t), LAMBDA nic : Existing(nic) /\ nic.NetworkInterfaceId = NoSubnet)
  /\ ~Some(TemplateNics(t), LAMBDA nic : Get(nic, "AssociatePublicIpAddress", TRUE) \notin BOOLEAN)
  /\ Get(t, "KeyName", "key") # "" /\ ~Empty(Get(t, "UserData", Text("data")))

ASSUME ScenarioAssumption ==
  \A scenario \in Scenarios : \A h \in DOMAIN scenario.inventory :
    LET raw == scenario.inventory[h] t == scenario.templates[h] IN
    /\ WellFormed(raw) /\ Typed(raw)
    /\ IF Has(raw, "launch_template") THEN WellFormedTemplate(t) ELSE t = Nothing

-----------------------------------------------------------------------------
(* _preflight.yml: what AWS says of one host. *)

Hosts == DOMAIN inventory
\* No run is saved.
NoRun == [plans |-> Nothing, networks |-> Nothing]
NoSpecs == [h \in Hosts |-> Nothing]

\* The specification of h once its pinned template has been read.
WithTemplate(h, s) ==
  IF Has(s, "launch_template") THEN Normal(Templated(s, templates[h])) ELSE s
TemplateMayBe(h, s) ==
  Has(s, "launch_template") =>
    /\ Disposed(templates[h]) /\ NotMixed(templates[h])
    /\ Acceptable(Templated(s, templates[h]))

WithRegion(s) == Over([region |-> DefaultRegion], s)

FewInterfaces(s) ==
  /\ Len(Nics(s)) <= MaxInterfaces /\ Len(Enis(s)) <= MaxInterfaces
  /\ ~Some(Nics(s) \o Enis(s), LAMBDA nic : Get(nic, "device_index", 0) >= MaxInterfaces)

\* Mutant: a new selection in every play.
SelectedAnew(h, s) ==
  IF Has(s, "image_id") THEN s.image_id
  ELSE CHOOSE i \in published : \A j \in published : j <= i

\* The saved image, the pinned one, or the newest of that name.
Selected(h, s) ==
  IF run # NoRun THEN run.plans[h].image
  ELSE IF Has(s, "image_id") THEN s.image_id
  ELSE CHOOSE i \in published : \A j \in published : j <= i

\* _existing.yml
Subnet(s) ==
  IF Has(s, "subnet_id") THEN s.subnet_id
  ELSE IF Nics(s) # <<>> /\ Has(Nics(s)[1], "subnet_id") THEN Nics(s)[1].subnet_id
  ELSE IF Enis(s) # <<>> THEN EniSubnet[Enis(s)[1].id]
  ELSE OnlySubnet

\* The zones that offer an instance type, none for one that EC2 does not know.
Offered(type) == IF type \in DOMAIN ZonesOf THEN ZonesOf[type] ELSE {}

Placement(s, zone) == Get(s, "placement", zone)

\* What the caller owns and h uses.
EniIds(s) == {Enis(s)[i].id : i \in DOMAIN Enis(s)}
DiskIds(s) == Get(s, "existing_volumes", {})
CallerOwned(s) == EniIds(s) \cup DiskIds(s)

\* Interfaces and volumes are free, or attached to the instance the journal has
\* for h (_existing.yml 86-89, _preflight.yml 104-106).  What this run attaches it
\* attaches without deletion.
ReferencesMayBe(h, s) ==
  \A g \in Hosts : attached[g] \cap CallerOwned(s) # {} => g = h /\ h \in known

\* Its attachments are ReferencesMayBe's matter.
ExistingMayBe(s) ==
  LET zone == SubnetZone[Subnet(s)] IN
  s.network.mode = "existing" =>
    /\ zone \in Offered(s.instance_type) /\ Placement(s, zone) = zone
    /\ ~Some(Enis(s), LAMBDA nic : SubnetZone[EniSubnet[nic.id]] # zone)
    /\ ~Some(Nics(s), LAMBDA nic : Has(nic, "subnet_id") /\ SubnetZone[nic.subnet_id] # zone)

\* Referenced disks share a zone, that of an existing subnet.
DisksMayBeThere(s) ==
  LET zones == {DiskZone[d] : d \in DiskIds(s)} IN
  /\ Cardinality(zones) <= 1
  /\ s.network.mode = "existing" => zones \subseteq {SubnetZone[Subnet(s)]}

\* The zones that suit the instance type and the disks.
EligibleZones(s) ==
  LET zones == {DiskZone[d] : d \in DiskIds(s)} IN
  IF zones = {} THEN Offered(s.instance_type) ELSE zones \cap Offered(s.instance_type)

Plan(h, s) ==
  LET existing == s.network.mode = "existing" IN
  [region |-> s.region, image |-> Selected(h, s), mode |-> s.network.mode,
   subnet |-> IF existing THEN Subnet(s) ELSE NoSubnet,
   groups |-> IF existing THEN Groups(s) ELSE {},
   zones |-> EligibleZones(s)]

-----------------------------------------------------------------------------
(* cloud_data(), request() and _secondary_interface.yml. *)

BasePackages == {"python3", "sudo"}

CloudData(s, key) ==
  LET cloud == s.cloud_init data == cloud.user_data IN
  IF Opaque(s) THEN s.user_data
  ELSE IF ~cloud.enabled THEN NoData
  ELSE IF data.kind = "text" THEN data
  ELSE [data EXCEPT
          !.packages = IF cloud.mode = "merge" THEN @ \cup BasePackages ELSE @,
          !.keys = IF s.key_inject_method = "cloud-init" THEN @ \cup {key} ELSE @]

Wanted(s) == IF Interfaces(s) # <<>> THEN Interfaces(s) ELSE <<Nothing>>

Interface(s, i, subnet, groups) ==
  LET nic == Wanted(s)[i] index == Index(Wanted(s), i) IN
  IF Has(nic, "id")
  THEN [id |-> nic.id, index |-> index, delete |-> FALSE,
        subnet |-> NoSubnet, groups |-> {}, public |-> FALSE]
  ELSE [id |-> NoSubnet, index |-> index, delete |-> TRUE,
        subnet |-> Get(nic, "subnet_id", subnet),
        groups |-> IF Get(nic, "groups", {}) # {} THEN nic.groups ELSE groups,
        public |-> index = 0 /\ s.assign_public_ip]

\* Mutant: every interface is launched, whatever the primary's address.
LaunchedAll(s, nics) == nics

\* A public address can be had with one interface at launch only.
Launched(s, nics) ==
  IF s.assign_public_ip /\ Cardinality(nics) > 1 THEN {nic \in nics : nic.index = 0} ELSE nics

\* Mutant: the first interface of the list is taken for the primary.
AttachedByPosition(s, subnet, groups) ==
  {[index |-> Index(Nics(s), i), delete |-> TRUE,
    subnet |-> Get(Nics(s)[i], "subnet_id", subnet),
    groups |-> Get(Nics(s)[i], "groups", groups)] :
     i \in {j \in DOMAIN Nics(s) : s.assign_public_ip /\ j # 1}}

\* _host.yml attaches the others of a public guest once it runs.
AttachedLater(s, subnet, groups) ==
  {[index |-> Index(Nics(s), i), delete |-> TRUE,
    subnet |-> Get(Nics(s)[i], "subnet_id", subnet),
    groups |-> Get(Nics(s)[i], "groups", groups)] :
     i \in {j \in DOMAIN Nics(s) : s.assign_public_ip /\ Index(Nics(s), j) # 0}}

Root(s) == Get(s, "root_disk", Nothing)

\* The template's disks, unless the inventory says anything of disks.
Disks(s, t) ==
  LET templated == IF Root(s) = Nothing /\ Volumes(s) = <<>>
                   THEN Get(t, "BlockDeviceMappings", <<>>) ELSE <<>>
      root == [device |-> "root", delete |-> TRUE, size |-> Get(Root(s), "size", 0)]
  IN (IF templated = <<>> THEN <<root>> ELSE templated)
     \o [i \in DOMAIN Volumes(s) |-> Over([delete |-> TRUE], Volumes(s)[i])]

\* The zone of the inventory's options, or else the template's own: the request
\* starts as a copy of the template.
Pinned(s, t) ==
  IF Has(s, "placement") THEN {s.placement}
  ELSE IF Has(t, "Placement") THEN {t.Placement} ELSE {}

Request(s, t, image, subnet, groups, data, key) ==
  LET nics == {Interface(s, i, subnet, groups) : i \in DOMAIN Wanted(s)} IN
  [image |-> image, type |-> s.instance_type, data |-> data,
   key |-> IF key # "" THEN key ELSE Get(t, "KeyName", ""),
   nics |-> Launched(s, nics), disks |-> Disks(s, t), placement |-> Pinned(s, t),
   tagged |-> {"instance", "volume"}
              \cup (IF \E nic \in nics : nic.id = NoSubnet THEN {"network-interface"} ELSE {})]

\* request() raises no error.
Renderable(s, t, image) ==
  /\ Get(Root(s), "size", RootSize[image]) >= RootSize[image]
  /\ ~Some(Volumes(s), LAMBDA disk : disk.device = "root")
  /\ ~Get(t, "DisableApiTermination", FALSE)
  /\ ~Some(Disks(s, t), LAMBDA disk : ~Get(disk, "delete", TRUE))

-----------------------------------------------------------------------------
(* network_plan() *)

Managed(region) == {h \in Hosts : specs[h].network.mode = "create" /\ specs[h].region = region}
Regions == {specs[h].region : h \in {g \in Hosts : specs[g].network.mode = "create"}}

Settings(h) == [profile |-> Get(specs[h], "profile", ""), cidr |-> specs[h].network.vpc_cidr]

\* Mutant: the placement a host asks for is forgotten.
HostZonesAny(h) == plans[h].zones

HostZones(h) ==
  {z \in plans[h].zones : /\ z = Get(specs[h].network, "availability_zone", z)
                          /\ z = Get(specs[h], "placement", z)}
CommonZones(region) ==
  {z \in UNION {HostZones(h) : h \in Managed(region)} : \A h \in Managed(region) : z \in HostZones(h)}

NetworkPlanMayBe ==
  \A region \in Regions :
    /\ \A g, h \in Managed(region) : Settings(g) = Settings(h)
    /\ CommonZones(region) # {}

\* The first of the sorted zones.
NetworkPlan ==
  [region \in Regions |->
    CHOOSE z \in CommonZones(region) : \A y \in CommonZones(region) : z <= y]

-----------------------------------------------------------------------------
(* The create play. *)

Init ==
  /\ \E scenario \in Scenarios :
       inventory = scenario.inventory /\ templates = scenario.templates
  /\ published = {CHOOSE i \in Images : \A j \in Images : i <= j}
  /\ pc = "idle" /\ todo = {} /\ specs = NoSpecs /\ plans = NoSpecs /\ run = NoRun
  /\ requests = [h \in Hosts |-> NoRequest] /\ later = [h \in Hosts |-> {}]
  /\ known = {} /\ attached = [h \in Hosts |-> {}] /\ creates = 0

\* _create.yml: all hosts are normalised, or the play fails.
Begin ==
  /\ pc = "idle" /\ creates < MaxCreates
  /\ creates' = creates + 1
  /\ IF \A h \in Hosts : Acceptable(inventory[h])
     THEN /\ specs' = [h \in Hosts |-> Normal(inventory[h])]
          /\ pc' = "preflight" /\ todo' = Hosts
     ELSE pc' = "refused" /\ UNCHANGED <<specs, todo>>
  /\ plans' = NoSpecs
  /\ UNCHANGED <<outside, published, rendered, guests>>

PreflightMayBe(h, s) ==
  /\ FewInterfaces(s) /\ Selected(h, s) \in Compatible
  /\ ExistingMayBe(s) /\ DisksMayBeThere(s) /\ ReferencesMayBe(h, s)
  /\ Renderable(s, templates[h], Selected(h, s))

Preflight ==
  /\ pc = "preflight"
  /\ \E h \in todo :
       LET s == WithRegion(WithTemplate(h, specs[h])) IN
       IF TemplateMayBe(h, specs[h]) /\ PreflightMayBe(h, s)
       THEN /\ specs' = [specs EXCEPT ![h] = s]
            /\ plans' = [plans EXCEPT ![h] = Plan(h, s)]
            /\ todo' = todo \ {h} /\ UNCHANGED pc
       ELSE pc' = "refused" /\ UNCHANGED <<play, todo>>
  /\ UNCHANGED <<outside, published, rendered, guests, creates>>

\* The run is saved once every host and network has been planned.
SaveRun ==
  /\ pc = "preflight" /\ todo = {}
  /\ IF NetworkPlanMayBe
     THEN /\ run' = IF run = NoRun THEN [plans |-> plans, networks |-> NetworkPlan] ELSE run
          /\ pc' = "launch" /\ todo' = Hosts
     ELSE pc' = "refused" /\ UNCHANGED <<run, todo>>
  /\ UNCHANGED <<outside, published, play, requests, later, guests, creates>>

ManagedSubnet(region) == <<"managed", region>>
ManagedGroup(h) == <<"sg", h>>
PublicKey == "run-key"

PlayEnds == pc' = "idle" /\ todo' = {} /\ specs' = NoSpecs /\ plans' = NoSpecs

Free(h, references) ==
  \A g \in Hosts \ {h} : attached[g] \cap references = {}

Attach(h, references) ==
  Free(h, references) /\ attached' = [attached EXCEPT ![h] = @ \cup references]

\* The instance runs, its id is saved and its volumes are attached.
HostComesUp(h) ==
  /\ Attach(h, CallerOwned(specs[h]))
  /\ known' = known \cup {h}
  /\ todo' = todo \ {h} /\ UNCHANGED <<pc, play>>

\* The play fails or dies at the launch, which AWS refuses when another guest has
\* a referenced interface; between the launch and the checkpoint that saves its
\* id; or with some of the volumes attached.
HostIsCutShort(h) ==
  /\ \/ UNCHANGED guests
     \/ Attach(h, EniIds(specs[h])) /\ UNCHANGED known
     \/ \E disks \in SUBSET DiskIds(specs[h]) :
          Attach(h, EniIds(specs[h]) \cup disks) /\ known' = known \cup {h}
  /\ PlayEnds

\* _host.yml: the request is rendered from the saved plan and launched; one that
\* differs from the saved request is refused.
Launch ==
  /\ pc = "launch"
  /\ \E h \in todo :
       LET guest == run.plans[h]
           s == specs[h]
           subnet == IF guest.mode = "create" THEN ManagedSubnet(guest.region) ELSE guest.subnet
           groups == IF guest.groups = {} THEN {ManagedGroup(h)} ELSE guest.groups
           key == IF s.key_inject_method = "ec2" THEN Get(s, "key_name", "mp-key") ELSE ""
           request == Request(s, templates[h], guest.image, subnet, groups,
                              CloudData(s, PublicKey), key)
       IN IF Renderable(s, templates[h], guest.image) /\ requests[h] \in {NoRequest, request}
          THEN /\ requests' = [requests EXCEPT ![h] = request]
               /\ run' = [run EXCEPT !.plans[h].groups = groups]
               /\ later' = [later EXCEPT ![h] = AttachedLater(s, subnet, groups)]
               /\ HostComesUp(h) \/ HostIsCutShort(h)
          ELSE pc' = "refused" /\ UNCHANGED <<rendered, guests, todo, play>>
  /\ UNCHANGED <<outside, published, creates>>

\* The play ends, or dies between two hosts.
Stop ==
  /\ pc = "launch" /\ PlayEnds
  /\ UNCHANGED <<outside, published, rendered, guests, creates>>

\* A new image of the name the inventories use.
Publish ==
  /\ \E i \in Images \ published :
       /\ \A j \in published : j < i
       /\ published' = published \cup {i}
  /\ UNCHANGED <<outside, pc, todo, play, rendered, guests, creates>>

Next == Begin \/ Preflight \/ SaveRun \/ Launch \/ Stop \/ Publish

Spec == Init /\ [][Next]_vars

-----------------------------------------------------------------------------
(* What the requests owe to the inventory, the templates and the cleanup. *)

Rendered(h) == requests[h] # NoRequest
\* What the inventory and the template of h come to.
Effective(h) == WithRegion(WithTemplate(h, Normal(inventory[h])))

\* Everything a launch makes goes with the instance and carries the run's
\* tags, and what it only references stays; there is one primary interface,
\* with a public address only where EC2 gives one (request() 473-579).
Disposable ==
  \A h \in Hosts : Rendered(h) =>
    LET r == requests[h] generated == {nic \in r.nics : nic.id = NoSubnet} IN
    /\ \A nic \in r.nics : nic.delete = (nic \in generated)
    /\ ~Some(r.disks, LAMBDA disk : ~Get(disk, "delete", TRUE))
    /\ "network-interface" \in r.tagged <=> generated # {} \/ later[h] # {}
    /\ Cardinality({nic \in r.nics : nic.index = 0}) = 1
    /\ (\E nic \in r.nics : nic.public) => Cardinality(r.nics) = 1

\* The interfaces the inventory asks for, or else its template's, which even an
\* empty list of their kind replaces.
Asked(h) ==
  LET own == Interfaces(inventory[h])
      nics == TemplateNics(templates[h])
      field == IF Some(nics, Existing) THEN "network_interfaces_ids" ELSE "network_interfaces"
  IN IF own # <<>> THEN {Index(own, i) : i \in DOMAIN own}
     ELSE IF nics # <<>> /\ ~Has(inventory[h], field)
     THEN {TemplateIndex(nics, i) : i \in DOMAIN nics} ELSE {0}

\* Each interface that is asked for is launched or attached later, exactly once,
\* in the groups it names or else in those of its host.  One that names an empty
\* list of groups gets the host's at launch but none when it is attached later:
\* request() falls back on an empty list, _secondary_interface.yml only on a
\* missing one (request() 494-531, _host.yml 136-144, _secondary_interface.yml
\* 28-45; normalize() 277-281 accepts the empty list).
EveryInterfaceOnce ==
  \A h \in Hosts : Rendered(h) =>
    LET launched == {nic.index : nic \in requests[h].nics}
        attachedLater == {nic.index : nic \in later[h]}
        list == Wanted(Effective(h))
        Guarded(nic, i) ==
          IF Get(list[i], "groups", {}) # {} THEN nic.groups = list[i].groups
          ELSE \/ nic.groups = run.plans[h].groups /\ nic.groups # {}
               \/ nic \in later[h] /\ Has(list[i], "groups") /\ nic.groups = {}
    IN /\ launched \cup attachedLater = Asked(h) /\ launched \cap attachedLater = {}
       /\ \A nic \in requests[h].nics \cup later[h] : nic.delete =>
            \E i \in DOMAIN list : Index(list, i) = nic.index /\ Guarded(nic, i)

\* The management key gets into the guest the way the effective policy says,
\* an opaque payload arrives as it was given, and a structured one keeps all
\* that its author put there (cloud_data(), normalize() 297-323, _host.yml
\* 70-94; README: "Structured cloud-init merges management keys").
BootstrapDelivered ==
  \A h \in Hosts : Rendered(h) =>
    LET s == Effective(h)
        data == requests[h].data
        own == s.cloud_init.user_data
    IN /\ s.key_inject_method = "cloud-init" => data.kind = "mapping" /\ PublicKey \in data.keys
       /\ s.key_inject_method = "ec2" => requests[h].key # ""
       /\ Opaque(s) => data = s.user_data
       /\ s.cloud_init.enabled =>
            /\ data.kind = own.kind /\ data.text = own.text
            /\ own.keys \subseteq data.keys /\ own.packages \subseteq data.packages
            /\ s.cloud_init.mode = "replace" => data.packages = own.packages

\* Whether a primary interface has a public address when the inventory does not say.
TemplateAddress(t) ==
  IF Some(TemplateNics(t), Existing) THEN FALSE
  ELSE Get(TemplatePrimary(t), "AssociatePublicIpAddress", TRUE)

\* The inventory decides what it speaks of, the template the rest, and the
\* defaults what both are silent about (README: "Template compute, bootstrap and
\* device values replace generated defaults; explicit inventory values override
\* them"; template_spec()).  One explicit value does not override: under another
\* key_inject_method than "ec2" the request keeps the key its template names,
\* which request() copies and nothing removes (465, 486).
Precedence ==
  \A h \in Hosts : Rendered(h) =>
    LET raw == inventory[h]
        t == templates[h]
        r == requests[h]
        primary == CHOOSE nic \in r.nics : nic.index = 0
        generated == {nic \in r.nics \cup later[h] : nic.delete}
        silent == ~Has(raw, "network_interfaces") /\ ~Has(raw, "network_interfaces_ids")
        ownCloud == Has(raw, "cloud_init") /\ Cloud(WithDefaults(raw)).enabled
    IN /\ r.image = Get(raw, "image_id", IF Has(raw, "image_name") THEN r.image
                                         ELSE Get(t, "ImageId", r.image))
       /\ r.type = Get(raw, "instance_type", Get(t, "InstanceType", r.type))
       /\ primary.delete =>
            /\ primary.public = Get(raw, "assign_public_ip", TemplateAddress(t))
            /\ silent /\ Has(raw, "subnet_id") => primary.subnet = raw.subnet_id
            /\ silent /\ ~Has(raw, "subnet_id") =>
                 primary.subnet = Get(Primary(TemplateNics(t)), "SubnetId",
                                      Get(t, "SubnetId", primary.subnet))
            /\ silent /\ ~Has(raw, "security_groups") /\ TemplateGroups(t) # {} =>
                 primary.groups = TemplateGroups(t)
       /\ silent /\ Groups(raw) # {} =>
            \A nic \in generated : nic.groups = raw.security_groups
       /\ Get(Get(raw, "network", Nothing), "mode", "auto") = "create" =>
            \A nic \in generated : nic.subnet = ManagedSubnet(run.plans[h].region)
       /\ Opaque(raw) => r.data = raw.user_data
       /\ ~ownCloud /\ Has(t, "UserData") => r.data = Get(raw, "user_data", t.UserData)
       /\ Has(raw, "key_inject_method") =>
            r.key = IF raw.key_inject_method = "ec2"
                    THEN Get(raw, "key_name", Get(t, "KeyName", "mp-key"))
                    ELSE Get(t, "KeyName", "")
       /\ ~Has(raw, "key_inject_method") /\ Has(t, "KeyName") =>
            r.key = Get(raw, "key_name", t.KeyName)
       /\ Has(Get(raw, "root_disk", Nothing), "size") => r.disks[1].size = raw.root_disk.size

\* A guest, its interfaces, the network it shares and the disks it references
\* meet in one zone, one the instance type is offered in and the inventory
\* allows, and in a managed network all that is generated is in its subnet
\* (network_plan(), _existing.yml 64-109, _preflight.yml 84-124).  A zone the
\* inventory pins is the request's; one that only the template pins is in the
\* request as well, copied there (465) and compared with nothing, so it may be
\* another than the zone of the subnet.
OnePlace ==
  \A h \in Hosts : Rendered(h) =>
    LET raw == inventory[h]
        r == requests[h]
        guest == run.plans[h]
        Meets(subnet, zone) ==
          IF guest.mode = "create"
          THEN subnet = ManagedSubnet(guest.region) /\ run.networks[guest.region] = zone
          ELSE SubnetZone[subnet] = zone
    IN \E zone \in Offered(r.type) :
         /\ \A nic \in r.nics :
              IF nic.delete THEN Meets(nic.subnet, zone) ELSE SubnetZone[EniSubnet[nic.id]] = zone
         /\ \A nic \in later[h] : Meets(nic.subnet, zone)
         /\ \A d \in Get(raw, "existing_volumes", {}) : DiskZone[d] = zone
         /\ zone = Get(raw, "placement", zone)
         /\ \/ r.placement \subseteq {zone}
            \/ ~Has(raw, "placement") /\ r.placement = {templates[h].Placement}
         /\ guest.mode = "create" =>
              zone = Get(Get(raw, "network", Nothing), "availability_zone", zone)

\* A create of a run that has been saved is refused only for a referenced
\* interface or volume that is attached to an instance the journal does not have
\* as that host's: the instance of another host, or one whose id the play did not
\* live to save.  All else that can be refused is refused before anything is made,
\* and a repeated create renders the requests it has saved (_create.yml 36-67,
\* aws_instance.save_request; README: "Before creating infrastructure, the role
\* validates every host", "Repeated create keeps the same instance", which holds
\* but for those references, _existing.yml 86-89).
SavedRunRendered ==
  run # NoRun /\ pc = "refused" =>
    \E g, h \in Hosts :
      attached[g] \cap CallerOwned(Effective(h)) # {} /\ (g # h \/ h \notin known)
===============================================================================

----------------------------- MODULE MCAwsRequest -----------------------------
(* Inventories and launch templates for TLC: every combination of the fields  *)
(* that decide one question together, the other fields at a usual value.      *)
EXTENDS AwsRequest, TLC

CONSTANTS h1, h2, sn1, sn2, sg1, sg2, sg3, eni1, eni2, vol1, vol2

MCZonesOf == "small" :> {1, 2} @@ "large" :> {2}
MCSubnetZone == sn1 :> 1 @@ sn2 :> 2
MCEniSubnet == eni1 :> sn1 @@ eni2 :> sn2
MCDiskZone == vol1 :> 1 @@ vol2 :> 2
MCRootSize == 1 :> 8 @@ 2 :> 16

\* All ways to take a field from each of the sets, or to leave it out.
Field(f, values) == {Nothing} \cup {[x \in {f} |-> v] : v \in values}
Always(f, v) == [x \in {f} |-> v]
Both(A, B) == {Over(a, b) : a \in A, b \in B}

Alone(raws, ts) ==
  {[inventory |-> h1 :> raw, templates |-> h1 :> Nothing] : raw \in raws}
  \cup {[inventory |-> h1 :> Over(raw, Always("launch_template", "lt")), templates |-> h1 :> t] :
         raw \in raws, t \in ts}

Image == Always("image_id", 1)
Cidrs == Always("management_cidrs", {"office"})

\* How the guest is bootstrapped and who gets in.
Bootstraps ==
  LET data == {Mapping({}, {}), Mapping({"user-key"}, {"vim"}), Text("script")}
      cloud == Both(Both(Field("enabled", BOOLEAN), Field("mode", {"replace"})),
                    Field("user_data", data))
      raws == Both(Both(Both(Both({Over(Image, Cidrs)}, Field("connection", {"winrm", "network_cli"})),
                     Field("key_inject_method", {"cloud-init", "ec2", "none"})),
                     Field("cloud_init", cloud)),
                     Field("user_data", {NoData, Text("payload")}))
  IN Alone(raws, Both(Field("KeyName", {"team"}), Field("UserData", {Text("template")})))

\* Which key pair it is launched with.
Keys ==
  LET raws == Both(Both({Over(Image, Cidrs)}, Field("key_inject_method", {"ec2", "none"})),
                   Field("key_name", {"own"}))
  IN Alone(raws, Field("KeyName", {"team"}))

\* Which network and addresses it gets, with the template's interfaces or
\* with its own.
Reach == {Nothing, Over(Always("assign_public_ip", FALSE), Always("connection_address", "private")),
          Always("assign_public_ip", FALSE)}
Access == Both(Both(Both({Image}, Field("management_cidrs", {{"office"}})),
                         Field("security_groups", {{}, {sg1}})), Reach)
Networks ==
  LET raws == Both(Both(Access, Field("subnet_id", {sn1})),
                   Field("network", {Always("mode", "create"), Always("mode", "existing"), Always("vpc_cidr", "10.77")}))
      place == Both(Field("SubnetId", {sn2}), Field("Groups", {{sg3}}))
      nic == Both(place, Field("AssociatePublicIpAddress", BOOLEAN))
      old == Always("NetworkInterfaceId", eni1)
      nics == {<<n>> : n \in nic} \cup {<<n, Nothing>> : n \in place} \cup
              {<<Always("DeviceIndex", 1), Always("DeviceIndex", 0)>>,
               <<old>>, <<old, Always("NetworkInterfaceId", eni2)>>, <<old, Nothing>>,
               <<Over(old, Always("DeleteOnTermination", TRUE))>>,
               <<Always("DeleteOnTermination", FALSE)>>}
  IN Alone(raws, {Always("SubnetId", sn2), Always("SecurityGroupIds", {sg3}), Always("Placement", 2)}
                 \cup {Always("NetworkInterfaces", n) : n \in nics})

OwnInterfaces ==
  LET nic == Both(Field("device_index", {0, 1}),
                  Both(Field("subnet_id", {sn2}), Field("groups", {{}, {sg2}})))
      nics == {<<>>} \cup {<<n>> : n \in Field("device_index", {1})}
              \cup {<<m, n>> : m \in nic, n \in {Nothing, Always("device_index", 0)}}
      enis == {<<>>, <<Always("id", eni1)>>, <<Always("id", eni1), Always("id", eni2)>>}
      own == (Field("network_interfaces", nics) \cup Field("network_interfaces_ids", enis)) \ {Nothing}
  IN Alone(Both(Access, own),
           {Always("NetworkInterfaces", n) : n \in {<<Always("SubnetId", sn1), Always("Groups", {sg3})>>,
                                                    <<Always("NetworkInterfaceId", eni1)>>}})

\* Which image and disks.
DisksAndImages ==
  LET disk(d) == Both({Always("device", d)}, Field("delete", BOOLEAN))
      volumes == {<<d>> : d \in disk("root")} \cup {<<d>> : d \in disk("data")}
                 \cup {<<Always("device", "data"), Always("device", "data")>>}
      raws == Both(Both(Both({Cidrs}, Field("image_id", {1, 2}) \cup Field("image_name", {"name"})),
                     Field("root_disk", {Always("size", 4), Always("size", 12)})),
                     Field("volumes", volumes))
      ts == Both(Both(Field("ImageId", {1}), Field("InstanceType", {"large"})),
                 Field("BlockDeviceMappings", {<<d>> : d \in disk("data")}))
  IN Alone(raws, ts \cup {Always("InstanceMarketOptions", "spot"), Always("DisableApiTermination", TRUE)})

\* Two guests, where both may be, and what they share.
Places ==
  LET one == Both(Both({Over(Image, Cidrs)},
               Field("network", {Always("vpc_cidr", "10.78"), Always("availability_zone", 1)})),
               Field("existing_volumes", {{vol1}, {vol2}}) \cup Field("subnet_id", {sn1})
               \cup {Over(Over(Always("assign_public_ip", FALSE), Always("connection_address", "private")),
                          Always("network_interfaces_ids", <<Always("id", eni1)>>))})
      two == Both(Both(Both(one, Field("region", {"r2"})),
                       Field("placement", {2}) \cup Field("instance_type", {"large"})),
                  Field("existing_volumes", {{vol1, vol2}}))
  IN {[inventory |-> h1 :> a @@ h2 :> b, templates |-> h1 :> Nothing @@ h2 :> Nothing] :
       a \in one, b \in two}

MCScenarios == Bootstraps \cup Keys \cup Networks \cup OwnInterfaces \cup DisksAndImages \cup Places
===============================================================================

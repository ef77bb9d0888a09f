---------------------------- MODULE AwsRequestProofs ----------------------------
(***************************************************************************)
(* For any inventories, any templates and anything that AWS may have to    *)
(* offer: a create of a saved run is refused for attachments only, what a  *)
(* launch renders is disposable and delivers key and bootstrap, every      *)
(* interface that is asked for comes up once, a guest and what it uses     *)
(* meet in one zone, and the inventory has precedence over its template.   *)
(***************************************************************************)
EXTENDS AwsRequest, FiniteSetTheorems, WellFoundedInduction, TLAPS

\* Host h gives no reason to refuse it, with that image.
Fit(h, image) ==
  /\ TemplateMayBe(h, Normal(inventory[h]))
  /\ FewInterfaces(Effective(h)) /\ image \in Compatible
  /\ ExistingMayBe(Effective(h)) /\ DisksMayBeThere(Effective(h))
  /\ Renderable(Effective(h), templates[h], image)

\* Their networks give none, whatever the play has in hand.
Creates(h) == Effective(h).network.mode = "create"
InRegion(region) == {h \in Hosts : Creates(h) /\ Effective(h).region = region}
Setting(h) ==
  [profile |-> Get(Effective(h), "profile", ""), cidr |-> Effective(h).network.vpc_cidr]
ZonesFor(h) ==
  {z \in EligibleZones(Effective(h)) :
     /\ z = Get(Effective(h).network, "availability_zone", z)
     /\ z = Get(Effective(h), "placement", z)}
Feasible ==
  \A region \in {Effective(h).region : h \in {g \in Hosts : Creates(g)}} :
    /\ \A g, h \in InRegion(region) : Setting(g) = Setting(h)
    /\ {z \in UNION {ZonesFor(h) : h \in InRegion(region)} :
          \A h \in InRegion(region) : z \in ZonesFor(h)} # {}

AllAcceptable == \A h \in Hosts : Acceptable(inventory[h])

IsPlan(p) ==
  p = [region |-> p.region, image |-> p.image, mode |-> p.mode,
       subnet |-> p.subnet, groups |-> p.groups, zones |-> p.zones]
IsRun ==
  /\ run = [plans |-> run.plans, networks |-> run.networks]
  /\ run.plans = [h \in Hosts |-> run.plans[h]]
  /\ \A h \in Hosts : IsPlan(run.plans[h])

\* What a launch renders for h once its groups are in the saved plan.
Rendering(h) ==
  LET guest == run.plans[h]
      s == Effective(h)
      subnet == IF guest.mode = "create" THEN ManagedSubnet(guest.region) ELSE guest.subnet
      key == IF s.key_inject_method = "ec2" THEN Get(s, "key_name", "mp-key") ELSE ""
  IN Request(s, templates[h], guest.image, subnet, guest.groups, CloudData(s, PublicKey), key)

Shapes ==
  /\ Hosts # {} /\ todo \subseteq Hosts
  /\ specs = [h \in Hosts |-> specs[h]] /\ plans = [h \in Hosts |-> plans[h]]
  /\ requests = [h \in Hosts |-> requests[h]]
\* The loop over the hosts has planned those it has reached.
InPreflight ==
  pc = "preflight" =>
    /\ AllAcceptable
    /\ \A h \in todo : specs[h] = Normal(inventory[h])
    /\ \A h \in Hosts \ todo :
         /\ specs[h] = Effective(h) /\ IsPlan(plans[h]) /\ Fit(h, plans[h].image)
         /\ plans[h].zones = EligibleZones(Effective(h))
InLaunch == pc = "launch" => run # NoRun /\ \A h \in Hosts : specs[h] = Effective(h)
\* What was saved has passed every test, with the images it names.
SavedFits ==
  run # NoRun =>
    /\ AllAcceptable /\ IsRun /\ Feasible
    /\ \A h \in Hosts : Fit(h, run.plans[h].image)
\* A saved request is what a launch would render again.
Repeated ==
  \A h \in Hosts : requests[h] # NoRequest =>
    run # NoRun /\ run.plans[h].groups # {} /\ requests[h] = Rendering(h)

IInv ==
  Shapes /\ InPreflight /\ InLaunch /\ SavedFits /\ Repeated /\ SavedRunRendered

-------------------------------------------------------------------------------
(* Inventories and templates do not change, so neither does what they say. *)

LEMMA SameHosts == ASSUME UNCHANGED outside PROVE Hosts' = Hosts
BY DEF outside, Hosts

LEMMA SameEffective ==
  ASSUME UNCHANGED outside
  PROVE  \A h : Effective(h)' = Effective(h)
BY DEF outside, Effective, WithTemplate

LEMMA SameFit ==
  ASSUME UNCHANGED outside
  PROVE  \A h, image : Fit(h, image)' = Fit(h, image)
BY SameEffective DEF outside, Fit, TemplateMayBe

LEMMA SameFeasible == ASSUME UNCHANGED outside PROVE Feasible' = Feasible
<1>1. \A h : /\ Creates(h)' = Creates(h) /\ Setting(h)' = Setting(h)
             /\ ZonesFor(h)' = ZonesFor(h) /\ Effective(h)' = Effective(h)
  BY SameEffective DEF Creates, Setting, ZonesFor
<1>2. Hosts' = Hosts  BY SameHosts
<1>3. \A region : InRegion(region)' = InRegion(region)  BY <1>1, <1>2 DEF InRegion
<1>. QED BY <1>1, <1>2, <1>3 DEF Feasible

LEMMA SameAcceptable == ASSUME UNCHANGED outside PROVE AllAcceptable' = AllAcceptable
BY SameHosts DEF outside, AllAcceptable

LEMMA SameRendering ==
  ASSUME UNCHANGED outside, NEW h, run'.plans[h] = run.plans[h]
  PROVE  Rendering(h)' = Rendering(h)
<1>1. Effective(h)' = Effective(h) /\ templates' = templates  BY SameEffective DEF outside
<1>. QED BY <1>1 DEF Rendering

\* Some reference of a host is attached to an instance that is not known as its own.
Elsewhere ==
  \E g, h \in Hosts :
    attached[g] \cap CallerOwned(Effective(h)) # {} /\ (g # h \/ h \notin known)

LEMMA SameElsewhere == ASSUME UNCHANGED <<outside, guests>> PROVE Elsewhere' = Elsewhere
BY SameHosts, SameEffective DEF Elsewhere, guests

\* A step that leaves the saved run alone leaves it as fit as it was.
LEMMA SavedKept == ASSUME SavedFits, UNCHANGED <<outside, run>> PROVE SavedFits'
BY SameHosts, SameFit, SameFeasible, SameAcceptable DEF SavedFits, IsRun, IsPlan

LEMMA RepeatedKept == ASSUME Repeated, UNCHANGED <<outside, run, requests>> PROVE Repeated'
BY SameHosts, SameRendering DEF Repeated

LEMMA SavedIsARun ==
  ASSUME NEW p, NEW n, Hosts # {}, DOMAIN p = Hosts
  PROVE  [plans |-> p, networks |-> n] # NoRun
<1>1. DOMAIN NoRun.plans = {}  BY DEF NoRun, Nothing
<1>. QED BY <1>1

\* The hosts of the play in hand are those of the inventory.
LEMMA PlanFeasible ==
  ASSUME \A h \in Hosts : specs[h] = Effective(h) /\ plans[h].zones = EligibleZones(Effective(h))
  PROVE  NetworkPlanMayBe <=> Feasible
<1>1. \A h \in Hosts : HostZones(h) = ZonesFor(h)  BY DEF HostZones, ZonesFor
<1>2. \A region : Managed(region) = InRegion(region)  BY DEF Managed, InRegion, Creates
<1>3. Regions = {Effective(h).region : h \in {g \in Hosts : Creates(g)}}
  BY DEF Regions, Creates
<1>4. \A h \in Hosts : Settings(h) = Setting(h)  BY DEF Settings, Setting
<1>5. \A region : \A h \in InRegion(region) : h \in Hosts  BY DEF InRegion
<1>6. ASSUME NEW region
      PROVE  CommonZones(region) = {z \in UNION {ZonesFor(h) : h \in InRegion(region)} :
                                      \A h \in InRegion(region) : z \in ZonesFor(h)}
  BY <1>1, <1>2, <1>5 DEF CommonZones
<1>7. ASSUME NEW region
      PROVE  (\A g, h \in Managed(region) : Settings(g) = Settings(h))
             <=> (\A g, h \in InRegion(region) : Setting(g) = Setting(h))
  BY <1>2, <1>4, <1>5
<1>. QED BY <1>3, <1>6, <1>7 DEF NetworkPlanMayBe, Feasible

-------------------------------------------------------------------------------
(* The steps of the play                                                   *)

LEMMA InitIInv == Init => IInv
<1>. SUFFICES ASSUME Init PROVE IInv  OBVIOUS
<1>1. Hosts # {}  BY RequestAssumption DEF Init, Hosts
<1>2. Shapes  BY <1>1 DEF Init, Shapes, NoSpecs
<1>. QED
  BY <1>2 DEF Init, IInv, InPreflight, InLaunch, SavedFits, Repeated, SavedRunRendered

LEMMA BeginStep == ASSUME IInv, Begin PROVE IInv'
<1>. USE DEF IInv
<1>1. UNCHANGED <<outside, run, requests>> /\ plans' = NoSpecs  BY DEF Begin, rendered
<1>2. Hosts' = Hosts  BY <1>1, SameHosts
<1>3. SavedFits' /\ Repeated'  BY <1>1, SavedKept, RepeatedKept
<1>4. CASE AllAcceptable
  <2>1. /\ specs' = [h \in Hosts |-> Normal(inventory[h])]
        /\ pc' = "preflight" /\ todo' = Hosts
    BY <1>4 DEF Begin, AllAcceptable
  <2>2. AllAcceptable'  BY <1>1, <1>4, SameAcceptable
  <2>3. Shapes'  BY <1>1, <1>2, <2>1 DEF Shapes, NoSpecs
  <2>4. InPreflight'  BY <1>1, <1>2, <2>1, <2>2 DEF InPreflight, outside
  <2>. QED BY <1>3, <2>1, <2>3, <2>4 DEF InLaunch, SavedRunRendered
<1>5. CASE ~AllAcceptable
  <2>1. pc' = "refused" /\ UNCHANGED <<specs, todo>>  BY <1>5 DEF Begin, AllAcceptable
  <2>2. Shapes'  BY <1>1, <1>2, <2>1 DEF Shapes, NoSpecs
  <2>3. run' = NoRun  BY <1>1, <1>5 DEF SavedFits
  <2>. QED BY <1>3, <2>1, <2>2, <2>3 DEF InPreflight, InLaunch, SavedRunRendered, NoRun, Nothing
<1>. QED BY <1>4, <1>5

\* Once a run is saved, preflight selects the image it names.
LEMMA SavedImage == ASSUME NEW h, NEW s, run # NoRun PROVE Selected(h, s) = run.plans[h].image
BY DEF Selected

LEMMA PreflightStep == ASSUME IInv, Preflight PROVE IInv'
<1>. USE DEF IInv
<1>1. UNCHANGED <<outside, run, requests, guests>> /\ pc = "preflight"
  BY DEF Preflight, rendered
<1>2. Hosts' = Hosts  BY <1>1, SameHosts
<1>3. SavedFits' /\ Repeated'  BY <1>1, SavedKept, RepeatedKept
<1>4. PICK h \in todo :
        LET s == WithRegion(WithTemplate(h, specs[h])) IN
        IF TemplateMayBe(h, specs[h]) /\ PreflightMayBe(h, s)
        THEN /\ specs' = [specs EXCEPT ![h] = s]
             /\ plans' = [plans EXCEPT ![h] = Plan(h, s)]
             /\ todo' = todo \ {h} /\ UNCHANGED pc
        ELSE pc' = "refused" /\ UNCHANGED <<play, todo>>
  BY DEF Preflight
<1>5. h \in Hosts /\ specs[h] = Normal(inventory[h])  BY <1>1 DEF Shapes, InPreflight
<1>6. WithRegion(WithTemplate(h, specs[h])) = Effective(h)  BY <1>5 DEF Effective
<1>7. TemplateMayBe(h, specs[h]) /\ PreflightMayBe(h, Effective(h))
      <=> Fit(h, Selected(h, Effective(h))) /\ ReferencesMayBe(h, Effective(h))
  BY <1>5 DEF Fit, PreflightMayBe
<1>8. CASE Fit(h, Selected(h, Effective(h))) /\ ReferencesMayBe(h, Effective(h))
  <2>1. /\ specs' = [specs EXCEPT ![h] = Effective(h)]
        /\ plans' = [plans EXCEPT ![h] = Plan(h, Effective(h))]
        /\ todo' = todo \ {h} /\ pc' = "preflight"
    BY <1>1, <1>4, <1>6, <1>7, <1>8
  <2>2. Shapes'  BY <1>1, <1>2, <2>1 DEF Shapes
  <2>3. /\ specs'[h] = Effective(h) /\ plans'[h] = Plan(h, Effective(h))
        /\ \A g \in Hosts : g # h => specs'[g] = specs[g] /\ plans'[g] = plans[g]
    BY <1>5, <2>1 DEF Shapes
  <2>4. /\ IsPlan(plans'[h]) /\ plans'[h].image = Selected(h, Effective(h))
        /\ plans'[h].zones = EligibleZones(Effective(h))
    BY <2>3 DEF Plan, IsPlan
  <2>5. \A g \in todo' : specs'[g] = Normal(inventory'[g])
    BY <1>1, <2>1, <2>3 DEF InPreflight, Shapes, outside
  <2>6. ASSUME NEW g \in Hosts' \ todo'
        PROVE  /\ specs'[g] = Effective(g)' /\ IsPlan(plans[g])' /\ Fit(g, plans[g].image)'
               /\ plans'[g].zones = EligibleZones(Effective(g))'
    <3>1. Effective(g)' = Effective(g) /\ \A image : Fit(g, image)' = Fit(g, image)
      BY <1>1, SameEffective, SameFit
    <3>2. CASE g = h  BY <1>8, <2>3, <2>4, <3>1, <3>2 DEF IsPlan, Fit
    <3>3. CASE g # h
      <4>1. /\ specs[g] = Effective(g) /\ IsPlan(plans[g]) /\ Fit(g, plans[g].image)
            /\ plans[g].zones = EligibleZones(Effective(g))
            /\ specs'[g] = specs[g] /\ plans'[g] = plans[g]
        BY <1>1, <1>2, <2>1, <2>3, <2>6, <3>3 DEF InPreflight
      <4>. QED BY <3>1, <4>1 DEF IsPlan
    <3>. QED BY <3>2, <3>3
  <2>7. InPreflight'  BY <1>1, <2>5, <2>6, SameAcceptable DEF InPreflight
  <2>. QED BY <1>3, <2>1, <2>2, <2>7 DEF InLaunch, SavedRunRendered
<1>9. CASE ~(Fit(h, Selected(h, Effective(h))) /\ ReferencesMayBe(h, Effective(h)))
  <2>1. pc' = "refused" /\ UNCHANGED <<play, todo>>  BY <1>4, <1>6, <1>7, <1>9
  <2>2. Shapes'  BY <1>1, <1>2, <2>1 DEF Shapes, play
  <2>3. run # NoRun => ~ReferencesMayBe(h, Effective(h))
    BY <1>5, <1>9, SavedImage DEF SavedFits
  <2>4. run # NoRun => Elsewhere  BY <1>5, <2>3 DEF ReferencesMayBe, Elsewhere
  <2>5. SavedRunRendered'
    BY <1>1, <2>4, SameElsewhere DEF SavedRunRendered, Elsewhere, NoRun, Nothing
  <2>. QED BY <1>3, <2>1, <2>2, <2>5 DEF InPreflight, InLaunch
<1>. QED BY <1>8, <1>9

LEMMA StopStep == ASSUME IInv, Stop PROVE IInv'
<1>1. UNCHANGED <<outside, run, requests>> /\ pc' = "idle" /\ todo' = {}
      /\ specs' = NoSpecs /\ plans' = NoSpecs
  BY DEF Stop, PlayEnds, rendered
<1>2. Shapes'  BY <1>1, SameHosts DEF IInv, Shapes, NoSpecs
<1>. QED BY <1>1, <1>2, SavedKept, RepeatedKept
       DEF IInv, InPreflight, InLaunch, SavedRunRendered

LEMMA StillStep ==
  ASSUME IInv, UNCHANGED <<outside, pc, todo, play, run, requests, guests>>
  PROVE  IInv'
<1>. USE DEF IInv
<1>1. Shapes'  BY SameHosts DEF Shapes, play
<1>2. InPreflight'
  BY SameHosts, SameEffective, SameFit, SameAcceptable DEF InPreflight, IsPlan, play, outside
<1>3. InLaunch'  BY SameHosts, SameEffective DEF InLaunch, play, NoRun, Nothing
<1>4. SavedRunRendered'  BY SameElsewhere DEF SavedRunRendered, Elsewhere, NoRun, Nothing
<1>. QED BY <1>1, <1>2, <1>3, <1>4, SavedKept, RepeatedKept

LEMMA SaveRunStep == ASSUME IInv, SaveRun PROVE IInv'
<1>. USE DEF IInv
<1>1. UNCHANGED <<outside, specs, plans, requests>> /\ pc = "preflight" /\ todo = {}
  BY DEF SaveRun, play
<1>2. Hosts' = Hosts  BY <1>1, SameHosts
<1>3. /\ AllAcceptable
      /\ \A h \in Hosts : /\ specs[h] = Effective(h) /\ IsPlan(plans[h])
                          /\ Fit(h, plans[h].image)
                          /\ plans[h].zones = EligibleZones(Effective(h))
  BY <1>1 DEF InPreflight
<1>4. NetworkPlanMayBe <=> Feasible  BY <1>3, PlanFeasible
<1>5. CASE Feasible
  <2>1. /\ run' = IF run = NoRun THEN [plans |-> plans, networks |-> NetworkPlan] ELSE run
        /\ pc' = "launch" /\ todo' = Hosts
    BY <1>4, <1>5 DEF SaveRun
  <2>2. Shapes'  BY <1>1, <1>2, <2>1 DEF Shapes
  <2>3. \A h \in Hosts' : specs'[h] = Effective(h)'  BY <1>1, <1>2, <1>3, SameEffective
  <2>4. CASE run # NoRun
    <3>1. UNCHANGED <<outside, run, requests>>  BY <1>1, <2>1, <2>4
    <3>2. SavedFits' /\ Repeated'  BY <3>1, SavedKept, RepeatedKept
    <3>3. NoRun' = NoRun  BY DEF NoRun, Nothing
    <3>. QED BY <2>1, <2>2, <2>3, <2>4, <3>1, <3>2, <3>3
           DEF InPreflight, InLaunch, SavedRunRendered
  <2>5. CASE run = NoRun
    <3>1. run' = [plans |-> plans, networks |-> NetworkPlan]  BY <2>1, <2>5
    <3>2. run' # NoRun
      <4>1. DOMAIN plans = Hosts /\ Hosts # {}  BY DEF Shapes
      <4>. QED BY <3>1, <4>1, SavedIsARun
    <3>3. IsRun'
      <4>1. run'.plans = plans /\ run'.networks = NetworkPlan  BY <3>1
      <4>. QED BY <1>2, <1>3, <3>1, <4>1 DEF IsRun, IsPlan, Shapes
    <3>4. \A h \in Hosts' : Fit(h, run.plans[h].image)'
      BY <1>1, <1>2, <1>3, <3>1, SameFit DEF Fit
    <3>5. SavedFits'
      BY <1>1, <1>3, <1>5, <3>3, <3>4, SameAcceptable, SameFeasible DEF SavedFits
    <3>6. Repeated'  BY <1>1, <1>2, <2>5 DEF Repeated
    <3>7. NoRun' = NoRun  BY DEF NoRun, Nothing
    <3>. QED BY <2>1, <2>2, <2>3, <3>2, <3>5, <3>6, <3>7
           DEF InPreflight, InLaunch, SavedRunRendered
  <2>. QED BY <2>4, <2>5
<1>6. CASE ~Feasible
  <2>1. pc' = "refused" /\ UNCHANGED <<run, todo>>  BY <1>4, <1>6 DEF SaveRun
  <2>2. run' = NoRun  BY <1>6, <2>1 DEF SavedFits
  <2>3. Shapes'  BY <1>1, <1>2, <2>1 DEF Shapes
  <2>4. SavedFits' /\ Repeated'  BY <1>1, <2>1, SavedKept, RepeatedKept
  <2>. QED BY <2>1, <2>2, <2>3, <2>4
         DEF InPreflight, InLaunch, SavedRunRendered, NoRun, Nothing
<1>. QED BY <1>5, <1>6

\* A launch renders what is saved, or saves what a launch would render again.
LEMMA LaunchStep == ASSUME IInv, Launch PROVE IInv'
<1>. USE DEF IInv
<1>1. UNCHANGED outside /\ pc = "launch" /\ run # NoRun  BY DEF Launch, InLaunch
<1>2. Hosts' = Hosts  BY <1>1, SameHosts
<1>3. /\ AllAcceptable /\ IsRun /\ Feasible
      /\ \A h \in Hosts : specs[h] = Effective(h) /\ Fit(h, run.plans[h].image)
  BY <1>1 DEF SavedFits, InLaunch
<1>. DEFINE Guest(h) == run.plans[h]
            Subnets(h) == IF Guest(h).mode = "create" THEN ManagedSubnet(Guest(h).region)
                                                      ELSE Guest(h).subnet
            GroupsOf(h) == IF Guest(h).groups = {} THEN {ManagedGroup(h)} ELSE Guest(h).groups
            Key(h) == IF specs[h].key_inject_method = "ec2"
                      THEN Get(specs[h], "key_name", "mp-key") ELSE ""
            Asks(h) == Request(specs[h], templates[h], Guest(h).image, Subnets(h), GroupsOf(h),
                               CloudData(specs[h], PublicKey), Key(h))
<1>4. PICK h \in todo :
        IF Renderable(specs[h], templates[h], Guest(h).image) /\ requests[h] \in {NoRequest, Asks(h)}
        THEN /\ requests' = [requests EXCEPT ![h] = Asks(h)]
             /\ run' = [run EXCEPT !.plans[h].groups = GroupsOf(h)]
             /\ HostComesUp(h) \/ HostIsCutShort(h)
        ELSE pc' = "refused" /\ UNCHANGED <<rendered, guests, todo, play>>
  BY DEF Launch
<1>5. h \in Hosts  BY DEF Shapes
<1>6. Renderable(specs[h], templates[h], Guest(h).image)  BY <1>3, <1>5 DEF Fit
<1>7. requests[h] # NoRequest => Guest(h).groups # {} /\ requests[h] = Rendering(h)
  BY <1>5 DEF Repeated
<1>8. Guest(h).groups # {} => Asks(h) = Rendering(h)
  <2>1. specs[h] = Effective(h)  BY <1>3, <1>5
  <2>. QED BY <2>1 DEF Rendering
<1>9. requests[h] \in {NoRequest, Asks(h)}  BY <1>7, <1>8
<1>10. /\ requests' = [requests EXCEPT ![h] = Asks(h)]
       /\ run' = [run EXCEPT !.plans[h].groups = GroupsOf(h)]
       /\ HostComesUp(h) \/ HostIsCutShort(h)
  BY <1>1, <1>4, <1>6, <1>9
<1>11. \/ todo' = todo \ {h} /\ pc' = "launch" /\ UNCHANGED <<specs, plans>>
       \/ todo' = {} /\ pc' = "idle" /\ specs' = NoSpecs /\ plans' = NoSpecs
  BY <1>1, <1>10 DEF HostComesUp, HostIsCutShort, PlayEnds, play
<1>21. Shapes'
  <2>1. Hosts' # {} /\ requests' = [g \in Hosts' |-> requests'[g]]
    BY <1>2, <1>10 DEF Shapes
  <2>2. /\ todo' \subseteq Hosts' /\ specs' = [g \in Hosts' |-> specs'[g]]
        /\ plans' = [g \in Hosts' |-> plans'[g]]
    BY <1>2, <1>11 DEF Shapes, NoSpecs
  <2>. QED BY <2>1, <2>2 DEF Shapes
<1>12. /\ run' = [plans |-> run'.plans, networks |-> run'.networks]
       /\ run'.plans = [g \in Hosts |-> run'.plans[g]]
       /\ \A g \in Hosts : g # h => run'.plans[g] = run.plans[g]
       /\ run'.plans[h] = [run.plans[h] EXCEPT !.groups = GroupsOf(h)]
  BY <1>3, <1>5, <1>10 DEF IsRun
<1>13. /\ IsPlan(run'.plans[h]) /\ run'.plans[h].groups = GroupsOf(h)
       /\ run'.plans[h].image = Guest(h).image /\ run'.plans[h].mode = Guest(h).mode
       /\ run'.plans[h].region = Guest(h).region /\ run'.plans[h].subnet = Guest(h).subnet
  BY <1>3, <1>5, <1>12 DEF IsRun, IsPlan
<1>14. run' # NoRun
  <2>1. Hosts # {} /\ DOMAIN run'.plans = Hosts  BY <1>12 DEF Shapes
  <2>. QED BY <1>12, <2>1, SavedIsARun
<1>15. SavedFits'
  <2>1. IsRun'  BY <1>2, <1>3, <1>12, <1>13 DEF IsRun, IsPlan
  <2>2. \A g \in Hosts' : Fit(g, run.plans[g].image)'
    BY <1>1, <1>2, <1>3, <1>12, <1>13, SameFit DEF Fit
  <2>. QED BY <1>1, <1>3, <2>1, <2>2, SameAcceptable, SameFeasible DEF SavedFits
<1>16. ASSUME NEW g, g = h PROVE Rendering(g)' = Asks(h)
  <2>1. Effective(g)' = specs[h] /\ templates' = templates
    BY <1>1, <1>3, <1>5, <1>16, SameEffective DEF outside
  <2>. QED BY <1>13, <1>16, <2>1 DEF Rendering
<1>17. ASSUME NEW g \in Hosts, requests'[g] # NoRequest
       PROVE  run'.plans[g].groups # {} /\ requests'[g] = Rendering(g)'
  <2>1. CASE g = h
    <3>1. requests'[g] = Asks(h) /\ run'.plans[g].groups = GroupsOf(h)
      BY <1>5, <1>10, <1>13, <2>1 DEF Shapes
    <3>2. GroupsOf(h) # {}  OBVIOUS
    <3>. QED BY <1>16, <2>1, <3>1, <3>2
  <2>2. CASE g # h
    <3>1. requests'[g] = requests[g] /\ run'.plans[g] = run.plans[g]
      BY <1>10, <1>12, <2>2 DEF Shapes
    <3>2. Rendering(g)' = Rendering(g)  BY <1>1, <3>1, SameRendering
    <3>. QED BY <1>17, <3>1, <3>2 DEF Repeated
  <2>. QED BY <2>1, <2>2
<1>18. NoRun' = NoRun  BY DEF NoRun, Nothing
<1>19. Repeated'  BY <1>2, <1>14, <1>17, <1>18 DEF Repeated
<1>20. InLaunch'  BY <1>1, <1>2, <1>3, <1>11, <1>14, <1>18, SameEffective DEF InLaunch
<1>. QED BY <1>11, <1>15, <1>19, <1>20, <1>21 DEF InPreflight, SavedRunRendered

-------------------------------------------------------------------------------
(* Theorems                                                                *)

LEMMA NextIInv == ASSUME IInv, [Next]_vars PROVE IInv'
<1>1. CASE Publish  BY <1>1, StillStep DEF Publish, rendered
<1>2. CASE UNCHANGED vars  BY <1>2, StillStep DEF vars, rendered
<1>. QED BY <1>1, <1>2, BeginStep, PreflightStep, SaveRunStep, LaunchStep, StopStep DEF Next

\* Once a run has been saved, nothing but a reference that is attached to an instance
\* the journal does not have as its host's keeps a create of the same inventory from
\* the end of its preflight and from rendering the requests that are saved, whatever
\* has been published since and wherever the plays before it stopped.
THEOREM SavedRunIsRendered == Spec => []SavedRunRendered
<1>1. IInv => SavedRunRendered  BY DEF IInv
<1>. QED BY <1>1, InitIInv, NextIInv, PTL DEF Spec

-------------------------------------------------------------------------------
(* Partial specifications: which fields each step of normalize() settles   *)

LEMMA OverField ==
  ASSUME NEW l, NEW r
  PROVE  /\ DOMAIN Over(l, r) = DOMAIN l \cup DOMAIN r
         /\ \A f \in DOMAIN r : Over(l, r)[f] = r[f]
         /\ \A f \in DOMAIN l \ DOMAIN r : Over(l, r)[f] = l[f]
BY DEF Over, Has

LEMMA MergeField ==
  ASSUME NEW l, NEW r
  PROVE  /\ DOMAIN Merge(l, r) = DOMAIN l \cup DOMAIN r
         /\ \A f \in DOMAIN r : f \notin Nested \/ f \notin DOMAIN l => Merge(l, r)[f] = r[f]
         /\ \A f \in DOMAIN l : f \notin DOMAIN r => Merge(l, r)[f] = l[f]
<1>. DEFINE inner == [f \in DOMAIN r |-> IF f \in Nested /\ Has(l, f) THEN Over(l[f], r[f]) ELSE r[f]]
<1>1. Merge(l, r) = Over(l, inner)  BY DEF Merge
<1>2. /\ DOMAIN inner = DOMAIN r
      /\ \A f \in DOMAIN r \ Nested : inner[f] = r[f]
      /\ \A f \in DOMAIN r \ DOMAIN l : inner[f] = r[f]
  BY DEF Has
<1>. HIDE DEF inner
<1>3. /\ DOMAIN Over(l, inner) = DOMAIN l \cup DOMAIN inner
      /\ \A f \in DOMAIN inner : Over(l, inner)[f] = inner[f]
      /\ \A f \in DOMAIN l \ DOMAIN inner : Over(l, inner)[f] = l[f]
  BY OverField
<1>. QED BY <1>1, <1>2, <1>3

LEMMA MergeNested ==
  ASSUME NEW l, NEW r, NEW f \in Nested, Has(l, f), Has(r, f)
  PROVE  Merge(l, r)[f] = Over(l[f], r[f])
<1>. DEFINE inner == [g \in DOMAIN r |-> IF g \in Nested /\ Has(l, g) THEN Over(l[g], r[g]) ELSE r[g]]
<1>1. Merge(l, r) = Over(l, inner)  BY DEF Merge
<1>2. inner[f] = Over(l[f], r[f])  BY DEF Has
<1>3. f \in DOMAIN inner  BY DEF Has
<1>. HIDE DEF inner
<1>4. \A g \in DOMAIN inner : Over(l, inner)[g] = inner[g]  BY OverField
<1>. QED BY <1>1, <1>2, <1>3, <1>4

\* The fields that nothing but the inventory and the defaults decides.
Derivations == {"network", "cloud_init", "explicit", "input_mode", "region"}
Defaulted == DOMAIN Defaults \cup {"key_inject_method"}

LEMMA DefaultFields ==
  /\ DOMAIN Defaults = {"instance_type", "connection", "assign_public_ip",
                        "connection_address", "management_cidrs", "network"}
  /\ Defaults.network = [mode |-> "auto", vpc_cidr |-> "10.77"]
BY DEF Defaults

LEMMA WithDefaultsField ==
  ASSUME NEW raw
  PROVE  LET s == WithDefaults(raw) IN
         /\ DOMAIN s = DOMAIN raw \cup Defaulted
         /\ \A f \in DOMAIN raw \ {"network"} : s[f] = raw[f]
         /\ s.network = IF Has(raw, "network") THEN Over(Defaults.network, raw.network)
                        ELSE Defaults.network
         /\ ~Has(raw, "assign_public_ip") => s.assign_public_ip = TRUE
<1>1. DOMAIN Merge(Defaults, raw) = DOMAIN Defaults \cup DOMAIN raw  BY MergeField
<1>2. \A f \in DOMAIN raw \ {"network"} : Merge(Defaults, raw)[f] = raw[f]
  <2>1. \A f \in DOMAIN raw : f \notin Nested \/ f \notin DOMAIN Defaults => Merge(Defaults, raw)[f] = raw[f]
    BY MergeField
  <2>. QED BY <2>1, DefaultFields DEF Nested
<1>3. Merge(Defaults, raw).network = IF Has(raw, "network") THEN Over(Defaults.network, raw.network)
                                     ELSE Defaults.network
  <2>1. CASE Has(raw, "network")
    <3>1. "network" \in Nested /\ Has(Defaults, "network")  BY DefaultFields DEF Nested, Has
    <3>. QED BY <2>1, <3>1, MergeNested
  <2>2. \A f \in DOMAIN Defaults : f \notin DOMAIN raw => Merge(Defaults, raw)[f] = Defaults[f]
    BY MergeField
  <2>3. CASE ~Has(raw, "network")  BY <2>2, <2>3, DefaultFields DEF Has
  <2>. QED BY <2>1, <2>3
<1>7. ~Has(raw, "assign_public_ip") => Merge(Defaults, raw).assign_public_ip = TRUE
  <2>1. Defaults.assign_public_ip = TRUE  BY DEF Defaults
  <2>2. \A f \in DOMAIN Defaults : f \notin DOMAIN raw => Merge(Defaults, raw)[f] = Defaults[f]
    BY MergeField
  <2>. QED BY <2>1, <2>2, DefaultFields DEF Has
<1>. DEFINE key == [key_inject_method |-> DefaultKey(Merge(Defaults, raw))]
<1>4. WithDefaults(raw) = Over(key, Merge(Defaults, raw))  BY DEF WithDefaults
<1>5. DOMAIN key = {"key_inject_method"}  OBVIOUS
<1>. HIDE DEF key
<1>. DEFINE merged == Merge(Defaults, raw)
<1>. HIDE DEF merged
<1>6. /\ DOMAIN Over(key, merged) = DOMAIN key \cup DOMAIN merged
      /\ \A f \in DOMAIN merged : Over(key, merged)[f] = merged[f]
  BY OverField
<1>8. "assign_public_ip" \in DOMAIN merged  BY <1>1, DefaultFields DEF merged
<1>. QED
  BY <1>1, <1>2, <1>3, <1>4, <1>5, <1>6, <1>7, <1>8, DefaultFields DEF Defaulted, merged

LEMMA NormalField ==
  ASSUME NEW raw
  PROVE  LET w == WithDefaults(raw) s == Normal(raw) IN
         /\ \A f : f \notin Derivations \ {"region"} =>
              (f \in DOMAIN s <=> f \in DOMAIN w) /\ (f \in DOMAIN w => s[f] = w[f])
         /\ {"network", "cloud_init"} \subseteq DOMAIN s
         /\ s.network = Over(w.network, [mode |-> Mode(w)])
         /\ s.cloud_init = Cloud(w)
         /\ Has(raw, "launch_template") =>
              /\ s.explicit = DOMAIN raw
              /\ s.input_mode = Get(Get(raw, "network", Nothing), "mode", "auto")
<1>. DEFINE w == WithDefaults(raw)
            resolved == [network |-> Over(w.network, [mode |-> Mode(w)]), cloud_init |-> Cloud(w)]
            origin == [explicit |-> DOMAIN raw,
                       input_mode |-> Get(Get(raw, "network", Nothing), "mode", "auto")]
            added == IF Has(w, "launch_template") THEN origin ELSE Nothing
<1>1. Normal(raw) = Over(Over(w, resolved), added)  BY DEF Normal
<1>2. /\ DOMAIN resolved = {"network", "cloud_init"}
      /\ resolved.network = Over(w.network, [mode |-> Mode(w)]) /\ resolved.cloud_init = Cloud(w)
  OBVIOUS
<1>3. DOMAIN added = IF Has(w, "launch_template") THEN {"explicit", "input_mode"} ELSE {}
  BY DEF Nothing
<1>4. Has(raw, "launch_template") => added = origin
  BY WithDefaultsField DEF Has
<1>5. DOMAIN origin = {"explicit", "input_mode"} /\ origin.explicit = DOMAIN raw
      /\ origin.input_mode = Get(Get(raw, "network", Nothing), "mode", "auto")
  OBVIOUS
<1>. HIDE DEF resolved, added, w, origin
<1>6. /\ DOMAIN Over(w, resolved) = DOMAIN w \cup {"network", "cloud_init"}
      /\ Over(w, resolved).network = resolved.network
      /\ Over(w, resolved).cloud_init = resolved.cloud_init
      /\ \A f \in DOMAIN w \ {"network", "cloud_init"} : Over(w, resolved)[f] = w[f]
  <2>1. /\ DOMAIN Over(w, resolved) = DOMAIN w \cup DOMAIN resolved
        /\ \A f \in DOMAIN resolved : Over(w, resolved)[f] = resolved[f]
        /\ \A f \in DOMAIN w \ DOMAIN resolved : Over(w, resolved)[f] = w[f]
    BY OverField
  <2>. QED BY <1>2, <2>1
<1>. DEFINE both == Over(w, resolved)
<1>. HIDE DEF both
<1>7. /\ DOMAIN Normal(raw) = DOMAIN w \cup {"network", "cloud_init"} \cup DOMAIN added
      /\ Normal(raw).network = resolved.network /\ Normal(raw).cloud_init = resolved.cloud_init
      /\ \A f \in DOMAIN w \ (Derivations \ {"region"}) : Normal(raw)[f] = w[f]
      /\ \A f \in DOMAIN added : Normal(raw)[f] = added[f]
  <2>1. /\ DOMAIN Over(both, added) = DOMAIN both \cup DOMAIN added
        /\ \A f \in DOMAIN both \ DOMAIN added : Over(both, added)[f] = both[f]
        /\ \A f \in DOMAIN added : Over(both, added)[f] = added[f]
    BY OverField
  <2>. QED BY <1>1, <1>3, <1>6, <2>1 DEF Derivations, both
<1>8. Has(raw, "launch_template") =>
        /\ Normal(raw).explicit = DOMAIN raw
        /\ Normal(raw).input_mode = Get(Get(raw, "network", Nothing), "mode", "auto")
  BY <1>4, <1>5, <1>7
<1>. QED BY <1>2, <1>3, <1>7, <1>8 DEF w, Derivations

LEMMA ExplicitField ==
  ASSUME NEW raw, Has(raw, "launch_template")
  PROVE  LET x == Explicit(Normal(raw)) w == WithDefaults(raw) IN
         /\ DOMAIN x = DOMAIN raw
         /\ \A f \in DOMAIN raw : f \notin Derivations \ {"region"} => x[f] = raw[f]
         /\ Has(raw, "cloud_init") => x.cloud_init = Cloud(w)
         /\ Has(raw, "network") =>
              x.network = Over(Normal(raw).network, [mode |-> Normal(raw).input_mode])
<1>. DEFINE s == Normal(raw)
<1>1. /\ s.explicit = DOMAIN raw /\ s.cloud_init = Cloud(WithDefaults(raw))
      /\ \A f : f \notin Derivations \ {"region"} =>
           (f \in DOMAIN WithDefaults(raw) => s[f] = WithDefaults(raw)[f])
  BY NormalField
<1>2. \A f \in DOMAIN raw : f # "network" => f \in DOMAIN WithDefaults(raw) /\ WithDefaults(raw)[f] = raw[f]
  BY WithDefaultsField
<1>3. \A f \in DOMAIN raw : f \notin Derivations \ {"region"} => s[f] = raw[f]
  BY <1>1, <1>2 DEF Derivations
<1>4. Explicit(s) = [f \in DOMAIN raw |-> IF f = "network" THEN Over(s.network, [mode |-> s.input_mode])
                                          ELSE s[f]]
  BY <1>1 DEF Explicit
<1>. HIDE DEF s
<1>5. /\ DOMAIN Explicit(s) = DOMAIN raw
      /\ \A f \in DOMAIN raw : f # "network" => Explicit(s)[f] = s[f]
      /\ Has(raw, "network") => Explicit(s).network = Over(s.network, [mode |-> s.input_mode])
  BY <1>4 DEF Has
<1>. QED BY <1>1, <1>3, <1>5 DEF s, Has, Derivations

TemplateSpeaksFor ==
  {"instance_type", "key_inject_method", "cloud_init", "image_id", "key_name", "subnet_id",
   "security_groups", "network_interfaces_ids", "network_interfaces", "assign_public_ip",
   "user_data", "network"}

LEMMA TemplateFieldsAre ==
  ASSUME NEW s, NEW t
  PROVE  /\ TemplateFields(s, t) \subseteq TemplateSpeaksFor
         /\ {"instance_type", "key_inject_method", "cloud_init"} \subseteq TemplateFields(s, t)
         /\ "key_name" \in TemplateFields(s, t) <=> Has(t, "KeyName")
         /\ "network" \in TemplateFields(s, t) <=> ~Has(Explicit(s), "network")
         /\ "network_interfaces_ids" \in TemplateFields(s, t) <=> Some(TemplateNics(t), Existing)
         /\ "network_interfaces" \in TemplateFields(s, t) <=> Generated(t)
<1>. DEFINE existing == Some(TemplateNics(t), Existing)
            a == IF Has(t, "ImageId") /\ ~Has(Explicit(s), "image_name") THEN {"image_id"} ELSE {}
            b == IF Has(t, "KeyName") THEN {"key_name"} ELSE {}
            c == IF Has(t, "SubnetId") THEN {"subnet_id"} ELSE {}
            e == IF TemplateGroups(t) # {} THEN {"security_groups"} ELSE {}
            f == IF existing THEN {"network_interfaces_ids", "assign_public_ip"} ELSE {}
            g == IF Generated(t) THEN {"network_interfaces"} ELSE {}
            k == IF Has(TemplatePrimary(t), "AssociatePublicIpAddress") THEN {"assign_public_ip"} ELSE {}
            l == IF Has(t, "UserData") /\ ~Get(Get(Explicit(s), "cloud_init", Nothing), "enabled", FALSE)
                 THEN {"user_data"} ELSE {}
            m == IF Has(Explicit(s), "network") THEN {} ELSE {"network"}
<1>1. TemplateFields(s, t) = {"instance_type", "key_inject_method", "cloud_init"}
                             \cup a \cup b \cup c \cup e \cup f \cup g \cup k \cup l \cup m
  BY DEF TemplateFields
<1>2. /\ a \subseteq {"image_id"} /\ c \subseteq {"subnet_id"} /\ e \subseteq {"security_groups"}
      /\ k \subseteq {"assign_public_ip"} /\ l \subseteq {"user_data"}
  OBVIOUS
<1>3. /\ b = IF Has(t, "KeyName") THEN {"key_name"} ELSE {}
      /\ m = IF Has(Explicit(s), "network") THEN {} ELSE {"network"}
      /\ g = IF Generated(t) THEN {"network_interfaces"} ELSE {}
      /\ f = IF existing THEN {"network_interfaces_ids", "assign_public_ip"} ELSE {}
  OBVIOUS
<1>4. existing <=> Some(TemplateNics(t), Existing)  OBVIOUS
<1>. HIDE DEF existing, a, b, c, e, f, g, k, l, m
<1>5. TemplateFields(s, t) \subseteq TemplateSpeaksFor
  BY <1>1, <1>2, <1>3 DEF TemplateSpeaksFor
<1>6. /\ {"instance_type", "key_inject_method", "cloud_init"} \subseteq TemplateFields(s, t)
      /\ "key_name" \in TemplateFields(s, t) <=> Has(t, "KeyName")
      /\ "network" \in TemplateFields(s, t) <=> ~Has(Explicit(s), "network")
      /\ "network_interfaces_ids" \in TemplateFields(s, t) <=> existing
      /\ "network_interfaces" \in TemplateFields(s, t) <=> Generated(t)
  BY <1>1, <1>2, <1>3
<1>. QED BY <1>4, <1>5, <1>6

LEMMA DerivedForm ==
  ASSUME NEW s, NEW t
  PROVE  /\ DOMAIN Derived(s, t) = TemplateFields(s, t)
         /\ \A f \in TemplateFields(s, t) : Derived(s, t)[f] = TemplateValues(s, t)[f]
BY DEF Derived

LEMMA DerivedField ==
  ASSUME NEW s, NEW t
  PROVE  LET d == Derived(s, t) IN
         /\ DOMAIN d \subseteq TemplateSpeaksFor
         /\ {"instance_type", "key_inject_method", "cloud_init"} \subseteq DOMAIN d
         /\ d.cloud_init = [enabled |-> FALSE]
         /\ d.key_inject_method = IF Has(t, "KeyName") THEN "ec2" ELSE "none"
         /\ d.instance_type = Get(t, "InstanceType", s.instance_type)
         /\ Has(d, "key_name") <=> Has(t, "KeyName")
         /\ Has(d, "key_name") => d.key_name = t.KeyName
         /\ Has(d, "network") <=> ~Has(Explicit(s), "network")
         /\ Has(d, "network") => d.network = [mode |-> "auto"]
         /\ Has(d, "network_interfaces_ids") <=> Some(TemplateNics(t), Existing)
         /\ Has(d, "network_interfaces_ids") => d.network_interfaces_ids = TemplateEnis(t)
         /\ Has(d, "network_interfaces") <=> Generated(t)
         /\ Has(d, "network_interfaces") => d.network_interfaces = TemplateInterfaces(t, Explicit(s))
<1>. DEFINE v == TemplateValues(s, t)
            fields == TemplateFields(s, t)
            existing == Some(TemplateNics(t), Existing)
<1>1. /\ v.instance_type = Get(t, "InstanceType", s.instance_type)
      /\ v.key_inject_method = IF Has(t, "KeyName") THEN "ec2" ELSE "none"
      /\ v.cloud_init = [enabled |-> FALSE] /\ v.network = [mode |-> "auto"]
      /\ v.key_name = Get(t, "KeyName", "")
      /\ v.network_interfaces_ids = TemplateEnis(t)
      /\ v.network_interfaces = TemplateInterfaces(t, Explicit(s))
  BY DEF TemplateValues
<1>2. Has(t, "KeyName") => Get(t, "KeyName", "") = t.KeyName  BY DEF Get
<1>3. /\ DOMAIN Derived(s, t) = fields
      /\ \A f \in fields : Derived(s, t)[f] = v[f]
  BY DerivedForm
<1>4. /\ fields \subseteq TemplateSpeaksFor
      /\ {"instance_type", "key_inject_method", "cloud_init"} \subseteq fields
      /\ "key_name" \in fields <=> Has(t, "KeyName")
      /\ "network" \in fields <=> ~Has(Explicit(s), "network")
      /\ "network_interfaces_ids" \in fields <=> existing
      /\ "network_interfaces" \in fields <=> Generated(t)
  BY TemplateFieldsAre
<1>5. existing <=> Some(TemplateNics(t), Existing)  OBVIOUS
<1>. HIDE DEF v, fields, existing
<1>6. \A f : Has(Derived(s, t), f) <=> f \in fields  BY <1>3 DEF Has
<1>. QED BY <1>1, <1>2, <1>3, <1>4, <1>5, <1>6

LEMMA TemplatedField ==
  ASSUME NEW raw, NEW t, Has(raw, "launch_template")
  PROVE  LET src == Templated(Normal(raw), t)
             d == Derived(Normal(raw), t)
         IN
         /\ DOMAIN src = DOMAIN d \cup DOMAIN raw
         /\ \A f \in DOMAIN raw : f \notin Derivations \ {"region"} => src[f] = raw[f]
         /\ \A f \in DOMAIN d : f \notin DOMAIN raw => src[f] = d[f]
         /\ src.cloud_init = IF Has(raw, "cloud_init")
                             THEN Over([enabled |-> FALSE], Cloud(WithDefaults(raw)))
                             ELSE [enabled |-> FALSE]
         /\ src.network = IF Has(raw, "network")
                          THEN Over(Normal(raw).network, [mode |-> Normal(raw).input_mode])
                          ELSE [mode |-> "auto"]
<1>. DEFINE s == Normal(raw)
            x == Explicit(s)
            d == Derived(s, t)
<1>1. Templated(s, t) = Merge(d, x)  BY DEF Templated
<1>2. /\ DOMAIN x = DOMAIN raw
      /\ \A f \in DOMAIN raw : f \notin Derivations \ {"region"} => x[f] = raw[f]
      /\ Has(raw, "cloud_init") => x.cloud_init = Cloud(WithDefaults(raw))
      /\ Has(raw, "network") => x.network = Over(s.network, [mode |-> s.input_mode])
  BY ExplicitField
<1>3. /\ Has(d, "cloud_init") /\ d.cloud_init = [enabled |-> FALSE]
      /\ Has(d, "network") <=> ~Has(x, "network")
      /\ Has(d, "network") => d.network = [mode |-> "auto"]
  <2>. HIDE DEF s
  <2>1. {"instance_type", "key_inject_method", "cloud_init"} \subseteq DOMAIN d  BY DerivedField
  <2>2. d.cloud_init = [enabled |-> FALSE]  BY DerivedField
  <2>3. Has(d, "network") <=> ~Has(x, "network")  BY DerivedField
  <2>4. Has(d, "network") => d.network = [mode |-> "auto"]  BY DerivedField
  <2>. QED BY <2>1, <2>2, <2>3, <2>4 DEF Has
<1>. HIDE DEF s, x, d
<1>4. /\ DOMAIN Merge(d, x) = DOMAIN d \cup DOMAIN x
      /\ \A f \in DOMAIN x : f \notin Nested \/ f \notin DOMAIN d => Merge(d, x)[f] = x[f]
      /\ \A f \in DOMAIN d : f \notin DOMAIN x => Merge(d, x)[f] = d[f]
  <2>1. DOMAIN Merge(d, x) = DOMAIN d \cup DOMAIN x  BY MergeField
  <2>2. \A f \in DOMAIN x : f \notin Nested \/ f \notin DOMAIN d => Merge(d, x)[f] = x[f]  BY MergeField
  <2>3. \A f \in DOMAIN d : f \notin DOMAIN x => Merge(d, x)[f] = d[f]  BY MergeField
  <2>. QED BY <2>1, <2>2, <2>3
<1>5. Has(x, "cloud_init") => Merge(d, x).cloud_init = Over(d.cloud_init, x.cloud_init)
  BY <1>3, MergeNested DEF Nested
<1>6. \A f \in DOMAIN raw : f \notin Derivations \ {"region"} => Merge(d, x)[f] = raw[f]
  BY <1>2, <1>4 DEF Nested, Derivations
<1>7. Merge(d, x).cloud_init = IF Has(raw, "cloud_init")
                               THEN Over([enabled |-> FALSE], Cloud(WithDefaults(raw)))
                               ELSE [enabled |-> FALSE]
  <2>1. CASE Has(raw, "cloud_init")
    <3>1. Has(x, "cloud_init")  BY <1>2, <2>1 DEF Has
    <3>. QED BY <1>2, <1>3, <1>5, <2>1, <3>1
  <2>2. CASE ~Has(raw, "cloud_init")  BY <1>2, <1>3, <1>4, <2>2 DEF Has
  <2>. QED BY <2>1, <2>2
<1>8. Merge(d, x).network = IF Has(raw, "network")
                            THEN Over(s.network, [mode |-> s.input_mode])
                            ELSE [mode |-> "auto"]
  <2>1. CASE Has(raw, "network")
    <3>1. Merge(d, x).network = x.network  BY <1>2, <1>3, <1>4, <2>1 DEF Has
    <3>. QED BY <1>2, <2>1, <3>1
  <2>2. CASE ~Has(raw, "network")
    <3>1. Merge(d, x).network = d.network /\ Has(d, "network")  BY <1>2, <1>3, <1>4, <2>2 DEF Has
    <3>. QED BY <1>3, <2>2, <3>1
  <2>. QED BY <2>1, <2>2
<1>. QED BY <1>1, <1>2, <1>4, <1>6, <1>7, <1>8 DEF s, x, d

LEMMA ListOf ==
  ASSUME NEW n \in Nat, NEW list, list = [i \in 1..n |-> list[i]]
  PROVE  IsList(list) /\ Len(list) = n
<1>1. list \in Seq({list[i] : i \in 1..n})  OBVIOUS
<1>2. DOMAIN list = 1..n  OBVIOUS
<1>3. Len(list) \in Nat /\ DOMAIN list = 1..Len(list)  BY <1>1
<1>4. Len(list) = n  BY <1>2, <1>3
<1>. QED BY <1>4 DEF IsList

LEMMA CloudField ==
  ASSUME NEW s
  PROVE  LET c == Get(s, "cloud_init", Nothing) IN
         /\ {"enabled", "mode", "user_data"} \subseteq DOMAIN Cloud(s)
         /\ Cloud(s).user_data = Get(c, "user_data", Mapping({}, {}))
         /\ Has(c, "enabled") => Cloud(s).enabled = c.enabled
<1>. DEFINE c == Get(s, "cloud_init", Nothing)
            default == [enabled |-> ~Windows(s) /\ s.connection # "network_cli" /\ ~Opaque(s),
                        mode |-> "merge", user_data |-> Mapping({}, {})]
<1>1. Cloud(s) = Over(default, c)  BY DEF Cloud
<1>2. DOMAIN default = {"enabled", "mode", "user_data"} /\ default.user_data = Mapping({}, {})
  OBVIOUS
<1>. HIDE DEF default, c
<1>3. DOMAIN Over(default, c) = DOMAIN default \cup DOMAIN c  BY OverField
<1>4. \A f \in DOMAIN c : Over(default, c)[f] = c[f]  BY OverField
<1>5. \A f \in DOMAIN default \ DOMAIN c : Over(default, c)[f] = default[f]  BY OverField
<1>6. Get(c, "user_data", Mapping({}, {})) = IF "user_data" \in DOMAIN c THEN c.user_data ELSE Mapping({}, {})
  BY DEF Get, Has
<1>. QED BY <1>1, <1>2, <1>3, <1>4, <1>5, <1>6 DEF c, Has

LEMMA CloudIsData ==
  ASSUME NEW s, IsData(Get(Get(s, "cloud_init", Nothing), "user_data", NoData))
  PROVE  IsData(Cloud(s).user_data)
<1>1. IsData(Mapping({}, {}))  BY DEF IsData, Mapping
<1>2. Cloud(s).user_data = Get(Get(s, "cloud_init", Nothing), "user_data", Mapping({}, {}))
  BY CloudField
<1>. QED BY <1>1, <1>2 DEF Get

LEMMA ConvertedField ==
  ASSUME NEW nics, NEW i
  PROVE  LET c == Converted(nics, i) IN
         /\ DOMAIN c \subseteq {"device_index", "subnet_id", "groups"}
         /\ Has(c, "device_index") /\ c.device_index = TemplateIndex(nics, i)
         /\ Has(c, "subnet_id") <=> Has(nics[i], "SubnetId")
         /\ Has(c, "subnet_id") => c.subnet_id = nics[i].SubnetId
         /\ Has(c, "groups") <=> Has(nics[i], "Groups")
         /\ Has(c, "groups") => c.groups = nics[i].Groups
<1>. DEFINE base == [device_index |-> TemplateIndex(nics, i)]
            place == IF Has(nics[i], "SubnetId") THEN [subnet_id |-> nics[i].SubnetId] ELSE Nothing
            guard == IF Has(nics[i], "Groups") THEN [groups |-> nics[i].Groups] ELSE Nothing
            both == Over(base, place)
<1>1. Converted(nics, i) = Over(both, guard)  BY DEF Converted
<1>2. DOMAIN base = {"device_index"} /\ base.device_index = TemplateIndex(nics, i)
  OBVIOUS
<1>3. /\ DOMAIN place = IF Has(nics[i], "SubnetId") THEN {"subnet_id"} ELSE {}
      /\ Has(nics[i], "SubnetId") => place.subnet_id = nics[i].SubnetId
  BY DEF Nothing
<1>4. /\ DOMAIN guard = IF Has(nics[i], "Groups") THEN {"groups"} ELSE {}
      /\ Has(nics[i], "Groups") => guard.groups = nics[i].Groups
  BY DEF Nothing
<1>. HIDE DEF base, place, guard
<1>5. DOMAIN Over(base, place) = DOMAIN base \cup DOMAIN place  BY OverField
<1>6. \A f \in DOMAIN place : Over(base, place)[f] = place[f]  BY OverField
<1>7. \A f \in DOMAIN base \ DOMAIN place : Over(base, place)[f] = base[f]  BY OverField
<1>. HIDE DEF both
<1>8. DOMAIN Over(both, guard) = DOMAIN both \cup DOMAIN guard  BY OverField
<1>9. \A f \in DOMAIN guard : Over(both, guard)[f] = guard[f]  BY OverField
<1>10. \A f \in DOMAIN both \ DOMAIN guard : Over(both, guard)[f] = both[f]  BY OverField
<1>11. DOMAIN both = DOMAIN base \cup DOMAIN place  BY <1>5 DEF both
<1>12. \A f \in DOMAIN place : both[f] = place[f]  BY <1>6 DEF both
<1>13. \A f \in DOMAIN base \ DOMAIN place : both[f] = base[f]  BY <1>7 DEF both
<1>. QED BY <1>1, <1>2, <1>3, <1>4, <1>8, <1>9, <1>10, <1>11, <1>12, <1>13 DEF Has

LEMMA OverriddenField ==
  ASSUME NEW nic, NEW x, "device_index" \in DOMAIN nic
  PROVE  /\ DOMAIN Overridden(nic, x) \subseteq DOMAIN nic \cup {"subnet_id"}
         /\ Has(Overridden(nic, x), "device_index")
         /\ Overridden(nic, x).device_index = nic.device_index
<1>. DEFINE subnet == [subnet_id |-> x.subnet_id]
            placed == IF Has(x, "subnet_id") /\ nic.device_index = 0 THEN Over(nic, subnet) ELSE nic
<1>1. Overridden(nic, x) = IF Has(x, "security_groups") THEN Without(placed, "groups") ELSE placed
  BY DEF Overridden
<1>2. DOMAIN subnet = {"subnet_id"}  OBVIOUS
<1>. HIDE DEF subnet
<1>3. DOMAIN Over(nic, subnet) = DOMAIN nic \cup DOMAIN subnet  BY OverField
<1>4. \A f \in DOMAIN nic \ DOMAIN subnet : Over(nic, subnet)[f] = nic[f]  BY OverField
<1>5. /\ DOMAIN nic \subseteq DOMAIN placed /\ DOMAIN placed \subseteq DOMAIN nic \cup {"subnet_id"}
      /\ placed.device_index = nic.device_index
  BY <1>2, <1>3, <1>4
<1>. HIDE DEF placed
<1>. QED BY <1>1, <1>5 DEF Without, Has

\* The parts of well-formedness, without their LAMBDAs.
LEMMA WellFormedParts ==
  ASSUME NEW raw
  PROVE  WellFormed(raw) <=>
           /\ IsList(Nics(raw)) /\ \A i \in DOMAIN Nics(raw) : ~Has(Nics(raw)[i], "id")
           /\ IsList(Enis(raw))
           /\ \A i \in DOMAIN Enis(raw) : Has(Enis(raw)[i], "id") => Enis(raw)[i].id # NoSubnet
           /\ \A i \in DOMAIN Enis(raw) : ~Has(Enis(raw)[i], "subnet_id")
           /\ Get(raw, "key_name", "key") # ""
           /\ IsData(Get(Get(raw, "cloud_init", Nothing), "user_data", NoData))
           /\ Get(Get(raw, "network", Nothing), "mode", "auto") \in {"auto", "create", "existing"}
           /\ IsFiniteSet(Get(raw, "existing_volumes", {}))
BY DEF WellFormed, Some

\* A pinned template leaves what the inventory says of the place alone.
LEMMA TemplatedPlace ==
  ASSUME NEW raw, NEW t, Has(raw, "launch_template")
  PROVE  LET src == Templated(Normal(raw), t) IN
         /\ Get(Get(src, "network", Nothing), "mode", "auto")
            = Get(Get(raw, "network", Nothing), "mode", "auto")
         /\ Get(src, "existing_volumes", {}) = Get(raw, "existing_volumes", {})
         /\ \A zone : Get(src, "placement", zone) = Get(raw, "placement", zone)
         /\ \A zone : Get(Get(src, "network", Nothing), "availability_zone", zone)
                     = Get(Get(raw, "network", Nothing), "availability_zone", zone)
<1>. DEFINE s == Normal(raw)
            src == Templated(s, t)
            d == Derived(s, t)
            w == WithDefaults(raw)
            mode == [mode |-> s.input_mode]
            solved == [mode |-> Mode(w)]
<1>1. DOMAIN src = DOMAIN d \cup DOMAIN raw  BY TemplatedField
<1>2. \A f \in DOMAIN raw : f \notin Derivations \ {"region"} => src[f] = raw[f]  BY TemplatedField
<1>3. DOMAIN d \subseteq TemplateSpeaksFor  BY DerivedField
<1>4. src.network = IF Has(raw, "network") THEN Over(s.network, mode) ELSE [mode |-> "auto"]
  BY TemplatedField
<1>5. s.network = Over(w.network, solved) /\ s.input_mode = Get(Get(raw, "network", Nothing), "mode", "auto")
  BY NormalField
<1>6. DOMAIN mode = {"mode"} /\ DOMAIN solved = {"mode"} /\ mode.mode = s.input_mode  OBVIOUS
<1>7. Has(d, "network") <=> ~Has(Explicit(s), "network")  BY DerivedField
<1>8. DOMAIN Explicit(s) = DOMAIN raw  BY ExplicitField
<1>9. Has(raw, "network") => w.network = Over(Defaults.network, raw.network)
  BY WithDefaultsField DEF Has
<1>10. DOMAIN Defaults.network = {"mode", "vpc_cidr"}  BY DEF Defaults
<1>. HIDE DEF s, src, d, w, mode, solved
<1>11. Get(src, "existing_volumes", {}) = Get(raw, "existing_volumes", {})
  BY <1>1, <1>2, <1>3 DEF Get, Has, Derivations, TemplateSpeaksFor
<1>12. ASSUME NEW zone PROVE Get(src, "placement", zone) = Get(raw, "placement", zone)
  BY <1>1, <1>2, <1>3 DEF Get, Has, Derivations, TemplateSpeaksFor
<1>13. Has(src, "network")  BY <1>1, <1>7, <1>8 DEF Has
<1>14. Get(src, "network", Nothing) = src.network  BY <1>13 DEF Get
<1>15. Get(Get(src, "network", Nothing), "mode", "auto")
       = Get(Get(raw, "network", Nothing), "mode", "auto")
  <2>1. CASE Has(raw, "network")
    <3>1. DOMAIN Over(s.network, mode) = DOMAIN s.network \cup DOMAIN mode  BY OverField
    <3>2. \A f \in DOMAIN mode : Over(s.network, mode)[f] = mode[f]  BY OverField
    <3>3. Has(src.network, "mode") /\ src.network.mode = s.input_mode
      BY <1>4, <1>6, <2>1, <3>1, <3>2 DEF Has
    <3>. QED BY <1>5, <1>14, <3>3 DEF Get
  <2>2. CASE ~Has(raw, "network")  BY <1>4, <1>14, <2>2 DEF Get, Has, Nothing
  <2>. QED BY <2>1, <2>2
<1>16. ASSUME NEW zone
       PROVE  Get(Get(src, "network", Nothing), "availability_zone", zone)
              = Get(Get(raw, "network", Nothing), "availability_zone", zone)
  <2>1. CASE Has(raw, "network")
    <3>1. DOMAIN Over(s.network, mode) = DOMAIN s.network \cup DOMAIN mode  BY OverField
    <3>2. \A f \in DOMAIN s.network \ DOMAIN mode : Over(s.network, mode)[f] = s.network[f]
      BY OverField
    <3>3. DOMAIN s.network = DOMAIN w.network \cup DOMAIN solved
      <4>1. DOMAIN Over(w.network, solved) = DOMAIN w.network \cup DOMAIN solved  BY OverField
      <4>. QED BY <1>5, <4>1
    <3>4. \A f \in DOMAIN w.network \ DOMAIN solved : s.network[f] = w.network[f]
      <4>1. \A f \in DOMAIN w.network \ DOMAIN solved : Over(w.network, solved)[f] = w.network[f]
        BY OverField
      <4>. QED BY <1>5, <4>1
    <3>. DEFINE old == Defaults.network
                own == raw.network
    <3>. HIDE DEF old, own
    <3>5. DOMAIN w.network = DOMAIN Defaults.network \cup DOMAIN raw.network
      <4>1. DOMAIN Over(old, own) = DOMAIN old \cup DOMAIN own  BY OverField
      <4>. QED BY <1>9, <2>1, <4>1 DEF old, own
    <3>6. \A f \in DOMAIN raw.network : w.network[f] = raw.network[f]
      <4>1. \A f \in DOMAIN own : Over(old, own)[f] = own[f]  BY OverField
      <4>. QED BY <1>9, <2>1, <4>1 DEF old, own
    <3>7. "availability_zone" \in DOMAIN src.network <=> "availability_zone" \in DOMAIN raw.network
      BY <1>4, <1>6, <1>10, <2>1, <3>1, <3>3, <3>5
    <3>8. "availability_zone" \in DOMAIN raw.network =>
            src.network.availability_zone = raw.network.availability_zone
      BY <1>4, <1>6, <2>1, <3>1, <3>2, <3>3, <3>4, <3>5, <3>6
    <3>9. Get(raw, "network", Nothing) = raw.network  BY <2>1 DEF Get
    <3>. QED BY <1>14, <3>7, <3>8, <3>9 DEF Get, Has
  <2>2. CASE ~Has(raw, "network")
    <3>1. src.network = [mode |-> "auto"]  BY <1>4, <2>2
    <3>. QED BY <1>14, <2>2, <3>1 DEF Get, Has, Nothing
  <2>. QED BY <2>1, <2>2
<1>17. /\ Get(Get(src, "network", Nothing), "mode", "auto")
          = Get(Get(raw, "network", Nothing), "mode", "auto")
       /\ Get(src, "existing_volumes", {}) = Get(raw, "existing_volumes", {})
       /\ \A zone : Get(src, "placement", zone) = Get(raw, "placement", zone)
       /\ \A zone : Get(Get(src, "network", Nothing), "availability_zone", zone)
                   = Get(Get(raw, "network", Nothing), "availability_zone", zone)
  BY <1>11, <1>12, <1>15, <1>16
<1>. QED BY <1>17 DEF src, s

\* A pinned template leaves the specification well-formed.
LEMMA TemplatedWellFormed ==
  ASSUME NEW raw, NEW t, Has(raw, "launch_template"),
         WellFormed(raw), WellFormedTemplate(t), NotMixed(t)
  PROVE  WellFormed(Templated(Normal(raw), t))
<1>. DEFINE s == Normal(raw)
            src == Templated(s, t)
            d == Derived(s, t)
            nics == TemplateNics(t)
<1>1. DOMAIN src = DOMAIN d \cup DOMAIN raw  BY TemplatedField
<1>2. \A f \in DOMAIN raw : f \notin Derivations \ {"region"} => src[f] = raw[f]  BY TemplatedField
<1>3. \A f \in DOMAIN d : f \notin DOMAIN raw => src[f] = d[f]  BY TemplatedField
<1>4. src.cloud_init = IF Has(raw, "cloud_init")
                       THEN Over([enabled |-> FALSE], Cloud(WithDefaults(raw)))
                       ELSE [enabled |-> FALSE]
  BY TemplatedField
<1>5. {"instance_type", "key_inject_method", "cloud_init"} \subseteq DOMAIN d  BY DerivedField
<1>6. PICK n \in Nat : nics = [i \in 1..n |-> nics[i]]  BY DEF WellFormedTemplate, IsList
<1>7. DOMAIN nics = 1..n  BY <1>6
<1>8. /\ \A i \in DOMAIN nics : Existing(nics[i]) => nics[i].NetworkInterfaceId # NoSubnet
      /\ Some(nics, Existing) => \A i \in DOMAIN nics : Existing(nics[i])
  BY DEF WellFormedTemplate, NotMixed, Some
<1>9. /\ IsList(Nics(raw)) /\ \A i \in DOMAIN Nics(raw) : ~Has(Nics(raw)[i], "id")
      /\ IsList(Enis(raw))
      /\ \A i \in DOMAIN Enis(raw) : Has(Enis(raw)[i], "id") => Enis(raw)[i].id # NoSubnet
      /\ \A i \in DOMAIN Enis(raw) : ~Has(Enis(raw)[i], "subnet_id")
      /\ Get(raw, "key_name", "key") # ""
      /\ IsData(Get(Get(raw, "cloud_init", Nothing), "user_data", NoData))
      /\ Get(Get(raw, "network", Nothing), "mode", "auto") \in {"auto", "create", "existing"}
      /\ IsFiniteSet(Get(raw, "existing_volumes", {}))
  BY WellFormedParts
<1>10. Has(d, "network_interfaces") => d.network_interfaces = TemplateInterfaces(t, Explicit(s))
  BY DerivedField
<1>11. Has(d, "network_interfaces_ids") =>
         Some(nics, Existing) /\ d.network_interfaces_ids = TemplateEnis(t)
  BY DerivedField
<1>12. /\ Has(d, "key_name") => Has(t, "KeyName") /\ d.key_name = t.KeyName
       /\ Has(t, "KeyName") => t.KeyName # ""
       /\ Has(raw, "key_name") => raw.key_name # ""
  <2>1. Has(d, "key_name") => Has(t, "KeyName") /\ d.key_name = t.KeyName  BY DerivedField
  <2>2. Has(t, "KeyName") => t.KeyName # ""  BY DEF WellFormedTemplate, Get
  <2>3. Has(raw, "key_name") => raw.key_name # ""  BY <1>9 DEF Get
  <2>. QED BY <2>1, <2>2, <2>3
<1>. HIDE DEF s, src, d, nics
<1>13. IsList(Nics(src)) /\ \A i \in DOMAIN Nics(src) : ~Has(Nics(src)[i], "id")
  <2>1. CASE Has(raw, "network_interfaces")
    <3>1. src.network_interfaces = raw.network_interfaces /\ Has(src, "network_interfaces")
      BY <1>1, <1>2, <2>1 DEF Has, Derivations
    <3>2. Nics(src) = Nics(raw)  BY <2>1, <3>1 DEF Nics, Get
    <3>. QED BY <1>9, <3>2
  <2>2. CASE ~Has(raw, "network_interfaces") /\ Has(d, "network_interfaces")
    <3>1. Nics(src) = TemplateInterfaces(t, Explicit(s))
      BY <1>1, <1>3, <1>10, <2>2 DEF Nics, Get, Has
    <3>. DEFINE own == \/ Has(Explicit(s), "network_interfaces")
                       \/ Has(Explicit(s), "network_interfaces_ids")
    <3>2. Nics(src) = [i \in DOMAIN nics |-> IF own THEN Converted(nics, i)
                                             ELSE Overridden(Converted(nics, i), Explicit(s))]
      BY <3>1 DEF TemplateInterfaces, nics
    <3>. HIDE DEF own
    <3>3. Nics(src) = [i \in 1..n |-> Nics(src)[i]]  BY <1>7, <3>2
    <3>4. IsList(Nics(src))  BY <3>3, ListOf
    <3>5. ASSUME NEW i \in DOMAIN Nics(src) PROVE ~Has(Nics(src)[i], "id")
      <4>1. Nics(src)[i] \in {Converted(nics, i), Overridden(Converted(nics, i), Explicit(s))}
        BY <3>2
      <4>2. DOMAIN Converted(nics, i) \subseteq {"device_index", "subnet_id", "groups"}
        BY ConvertedField
      <4>3. "device_index" \in DOMAIN Converted(nics, i)  BY ConvertedField DEF Has
      <4>4. DOMAIN Overridden(Converted(nics, i), Explicit(s))
            \subseteq DOMAIN Converted(nics, i) \cup {"subnet_id"}
        BY <4>3, OverriddenField
      <4>. QED BY <4>1, <4>2, <4>4 DEF Has
    <3>. QED BY <3>4, <3>5
  <2>3. CASE ~Has(raw, "network_interfaces") /\ ~Has(d, "network_interfaces")
    <3>1. Nics(src) = Nics(raw)  BY <1>1, <2>3 DEF Nics, Get, Has
    <3>. QED BY <1>9, <3>1
  <2>. QED BY <2>1, <2>2, <2>3
<1>14. /\ IsList(Enis(src))
       /\ \A i \in DOMAIN Enis(src) : Has(Enis(src)[i], "id") => Enis(src)[i].id # NoSubnet
       /\ \A i \in DOMAIN Enis(src) : ~Has(Enis(src)[i], "subnet_id")
  <2>1. CASE Has(raw, "network_interfaces_ids")
    <3>1. src.network_interfaces_ids = raw.network_interfaces_ids /\ Has(src, "network_interfaces_ids")
      BY <1>1, <1>2, <2>1 DEF Has, Derivations
    <3>2. Enis(src) = Enis(raw)  BY <2>1, <3>1 DEF Enis, Get
    <3>. QED BY <1>9, <3>2
  <2>2. CASE ~Has(raw, "network_interfaces_ids") /\ Has(d, "network_interfaces_ids")
    <3>1. Enis(src) = TemplateEnis(t)  BY <1>1, <1>3, <1>11, <2>2 DEF Enis, Get, Has
    <3>2. /\ DOMAIN TemplateEnis(t) = DOMAIN nics
          /\ TemplateEnis(t) = [i \in DOMAIN nics |-> TemplateEnis(t)[i]]
      BY DEF TemplateEnis, nics
    <3>3. \A i \in DOMAIN nics : TemplateEnis(t)[i].id = Get(nics[i], "NetworkInterfaceId", NoSubnet)
      BY DEF TemplateEnis, nics
    <3>4. Enis(src) = [i \in 1..n |-> Enis(src)[i]]  BY <1>7, <3>1, <3>2
    <3>5. IsList(Enis(src))  BY <3>4, ListOf
    <3>6. ASSUME NEW i \in DOMAIN Enis(src) PROVE Enis(src)[i].id # NoSubnet
      <4>1. i \in DOMAIN nics  BY <3>1, <3>2
      <4>2. Existing(nics[i])  BY <1>8, <1>11, <2>2, <4>1
      <4>3. nics[i].NetworkInterfaceId # NoSubnet  BY <1>8, <4>1, <4>2
      <4>. QED BY <3>1, <3>3, <4>1, <4>2, <4>3 DEF Get, Existing
    <3>7. \A i \in DOMAIN nics : DOMAIN TemplateEnis(t)[i] = {"id", "device_index"}
      BY DEF TemplateEnis, nics
    <3>8. \A i \in DOMAIN Enis(src) : ~Has(Enis(src)[i], "subnet_id")  BY <3>1, <3>2, <3>7 DEF Has
    <3>. QED BY <3>5, <3>6, <3>8
  <2>3. CASE ~Has(raw, "network_interfaces_ids") /\ ~Has(d, "network_interfaces_ids")
    <3>1. Enis(src) = Enis(raw)  BY <1>1, <2>3 DEF Enis, Get, Has
    <3>. QED BY <1>9, <3>1
  <2>. QED BY <2>1, <2>2, <2>3
<1>15. Get(src, "key_name", "key") # ""
  BY <1>1, <1>2, <1>3, <1>12 DEF Get, Has, Derivations
<1>16. IsData(Get(Get(src, "cloud_init", Nothing), "user_data", NoData))
  <2>1. Get(src, "cloud_init", Nothing) = src.cloud_init  BY <1>1, <1>5 DEF Get, Has
  <2>2. CASE ~Has(raw, "cloud_init")
    <3>1. Get(src.cloud_init, "user_data", NoData) = NoData  BY <1>4, <2>2 DEF Get, Has
    <3>2. IsData(NoData)  BY DEF IsData, NoData, Text
    <3>. QED BY <2>1, <3>1, <3>2
  <2>3. CASE Has(raw, "cloud_init")
    <3>. DEFINE w == WithDefaults(raw)
    <3>1. Has(w, "cloud_init") /\ w.cloud_init = raw.cloud_init  BY <2>3, WithDefaultsField DEF Has
    <3>2. Get(w, "cloud_init", Nothing) = Get(raw, "cloud_init", Nothing)  BY <2>3, <3>1 DEF Get
    <3>3. IsData(Cloud(w).user_data)  BY <1>9, <3>2, CloudIsData
    <3>4. "user_data" \in DOMAIN Cloud(w)  BY CloudField
    <3>. HIDE DEF w
    <3>. DEFINE off == [enabled |-> FALSE]
    <3>. HIDE DEF off
    <3>5. DOMAIN Over(off, Cloud(w)) = DOMAIN off \cup DOMAIN Cloud(w)  BY OverField
    <3>6. \A f \in DOMAIN Cloud(w) : Over(off, Cloud(w))[f] = Cloud(w)[f]  BY OverField
    <3>7. src.cloud_init = Over(off, Cloud(w))  BY <1>4, <2>3 DEF off, w
    <3>8. Get(src.cloud_init, "user_data", NoData) = Cloud(w).user_data
      BY <3>4, <3>5, <3>6, <3>7 DEF Get, Has
    <3>. QED BY <2>1, <3>3, <3>8
  <2>. QED BY <2>2, <2>3
<1>17. /\ Get(Get(src, "network", Nothing), "mode", "auto") \in {"auto", "create", "existing"}
       /\ Get(src, "existing_volumes", {}) = Get(raw, "existing_volumes", {})
  BY <1>9, TemplatedPlace DEF src, s
<1>18. WellFormed(src)  BY <1>9, <1>13, <1>14, <1>15, <1>16, <1>17, WellFormedParts
<1>. QED BY <1>18 DEF src, s

-------------------------------------------------------------------------------
(* What normalize() has validated, of the specification a host ends up with *)

\* What normalize() was last called with for h.
Source(h) ==
  IF Has(inventory[h], "launch_template") THEN Templated(Normal(inventory[h]), templates[h])
  ELSE inventory[h]
Chosen ==
  \E scenario \in Scenarios : inventory = scenario.inventory /\ templates = scenario.templates

LEMMA SourceFit ==
  ASSUME Chosen, NEW h \in Hosts, Acceptable(inventory[h]), TemplateMayBe(h, Normal(inventory[h]))
  PROVE  /\ Effective(h) = WithRegion(Normal(Source(h)))
         /\ WellFormed(Source(h)) /\ Acceptable(Source(h))
<1>. DEFINE raw == inventory[h]
            t == templates[h]
<1>1. WellFormed(raw) /\ (Has(raw, "launch_template") => WellFormedTemplate(t))
  BY ScenarioAssumption DEF Chosen, Hosts
<1>2. Has(Normal(raw), "launch_template") <=> Has(raw, "launch_template")
  <2>1. DOMAIN WithDefaults(raw) = DOMAIN raw \cup Defaulted  BY WithDefaultsField
  <2>2. "launch_template" \in DOMAIN Normal(raw) <=> "launch_template" \in DOMAIN WithDefaults(raw)
    BY NormalField DEF Derivations
  <2>3. "launch_template" \notin Defaulted  BY DefaultFields DEF Defaulted
  <2>. QED BY <2>1, <2>2, <2>3 DEF Has
<1>3. CASE Has(raw, "launch_template")
  <2>1. Source(h) = Templated(Normal(raw), t)  BY <1>3 DEF Source
  <2>2. Effective(h) = WithRegion(Normal(Templated(Normal(raw), t)))
    BY <1>2, <1>3 DEF Effective, WithTemplate
  <2>3. NotMixed(t) /\ Acceptable(Templated(Normal(raw), t))  BY <1>2, <1>3 DEF TemplateMayBe
  <2>4. WellFormed(Templated(Normal(raw), t))  BY <1>1, <1>3, <2>3, TemplatedWellFormed
  <2>. QED BY <2>1, <2>2, <2>3, <2>4
<1>4. CASE ~Has(raw, "launch_template")
  <2>1. Source(h) = raw  BY <1>4 DEF Source
  <2>2. Effective(h) = WithRegion(Normal(raw))  BY <1>2, <1>4 DEF Effective, WithTemplate
  <2>. QED BY <1>1, <2>1, <2>2
<1>. QED BY <1>3, <1>4

LEMMA RegionField ==
  ASSUME NEW s
  PROVE  /\ DOMAIN WithRegion(s) = DOMAIN s \cup {"region"}
         /\ \A f \in DOMAIN s : WithRegion(s)[f] = s[f]
<1>. DEFINE default == [region |-> DefaultRegion]
<1>1. WithRegion(s) = Over(default, s) /\ DOMAIN default = {"region"}  BY DEF WithRegion
<1>. HIDE DEF default
<1>2. DOMAIN Over(default, s) = DOMAIN default \cup DOMAIN s  BY OverField
<1>3. \A f \in DOMAIN s : Over(default, s)[f] = s[f]  BY OverField
<1>. QED BY <1>1, <1>2, <1>3

LEMMA SettledField ==
  ASSUME NEW raw
  PROVE  LET s == WithRegion(Normal(raw)) w == WithDefaults(raw) IN
         /\ \A f : f \notin Derivations => (f \in DOMAIN s <=> f \in DOMAIN w)
         /\ \A f \in DOMAIN w : f \notin Derivations => s[f] = w[f]
         /\ {"network", "cloud_init"} \subseteq DOMAIN s
         /\ s.network = Over(w.network, [mode |-> Mode(w)])
         /\ s.cloud_init = Cloud(w)
<1>. DEFINE n == Normal(raw)
            w == WithDefaults(raw)
            net == Over(w.network, [mode |-> Mode(w)])
            cloud == Cloud(w)
<1>1. \A f : f \notin Derivations \ {"region"} => (f \in DOMAIN n <=> f \in DOMAIN w)  BY NormalField
<1>2. \A f \in DOMAIN w : f \notin Derivations \ {"region"} => n[f] = w[f]  BY NormalField
<1>3. {"network", "cloud_init"} \subseteq DOMAIN n  BY NormalField
<1>4. n.network = net  BY NormalField
<1>5. n.cloud_init = cloud  BY NormalField
<1>6. DOMAIN WithRegion(n) = DOMAIN n \cup {"region"}  BY RegionField
<1>7. \A f \in DOMAIN n : WithRegion(n)[f] = n[f]  BY RegionField
<1>. HIDE DEF n, w, net, cloud
<1>8. \A f : f \notin Derivations => (f \in DOMAIN WithRegion(n) <=> f \in DOMAIN w)
  BY <1>1, <1>6 DEF Derivations
<1>9. \A f \in DOMAIN w : f \notin Derivations => WithRegion(n)[f] = w[f]
  BY <1>1, <1>2, <1>7 DEF Derivations
<1>10. WithRegion(n).network = net /\ WithRegion(n).cloud_init = cloud
  BY <1>3, <1>4, <1>5, <1>7
<1>11. {"network", "cloud_init"} \subseteq DOMAIN WithRegion(n)  BY <1>3, <1>6
<1>. QED BY <1>8, <1>9, <1>10, <1>11 DEF n, w, net, cloud

\* What decides interfaces and bootstrap is as it was validated.
LEMMA SettledParts ==
  ASSUME NEW raw
  PROVE  LET s == WithRegion(Normal(raw)) w == WithDefaults(raw) IN
         /\ Nics(s) = Nics(raw) /\ Enis(s) = Enis(raw)
         /\ Nics(w) = Nics(raw) /\ Enis(w) = Enis(raw)
         /\ s.assign_public_ip = w.assign_public_ip
         /\ s.key_inject_method = w.key_inject_method
         /\ Get(s, "key_name", "mp-key") = Get(raw, "key_name", "mp-key")
         /\ Opaque(s) <=> Opaque(w)
         /\ Get(w, "cloud_init", Nothing) = Get(raw, "cloud_init", Nothing)
<1>. DEFINE s == WithRegion(Normal(raw))
            w == WithDefaults(raw)
<1>1. \A f : f \notin Derivations => (f \in DOMAIN s <=> f \in DOMAIN w)  BY SettledField
<1>2. \A f \in DOMAIN w : f \notin Derivations => s[f] = w[f]  BY SettledField
<1>3. DOMAIN w = DOMAIN raw \cup Defaulted  BY WithDefaultsField
<1>4. \A f \in DOMAIN raw \ {"network"} : w[f] = raw[f]  BY WithDefaultsField
<1>5. Defaulted = {"instance_type", "connection", "assign_public_ip", "connection_address",
                   "management_cidrs", "network", "key_inject_method"}
  BY DefaultFields DEF Defaulted
<1>. HIDE DEF s, w
<1>6. Nics(s) = Nics(raw) /\ Nics(w) = Nics(raw)
  BY <1>1, <1>2, <1>3, <1>4, <1>5 DEF Nics, Get, Has, Derivations
<1>7. Enis(s) = Enis(raw) /\ Enis(w) = Enis(raw)
  BY <1>1, <1>2, <1>3, <1>4, <1>5 DEF Enis, Get, Has, Derivations
<1>8. s.assign_public_ip = w.assign_public_ip /\ s.key_inject_method = w.key_inject_method
  BY <1>1, <1>2, <1>3, <1>5 DEF Derivations
<1>9. Get(s, "key_name", "mp-key") = Get(raw, "key_name", "mp-key")
  BY <1>1, <1>2, <1>3, <1>4, <1>5 DEF Get, Has, Derivations
<1>10. Get(s, "user_data", NoData) = Get(w, "user_data", NoData)
  BY <1>1, <1>2 DEF Get, Has, Derivations
<1>11. Get(w, "cloud_init", Nothing) = Get(raw, "cloud_init", Nothing)
  BY <1>3, <1>4, <1>5 DEF Get, Has
<1>. QED BY <1>6, <1>7, <1>8, <1>9, <1>10, <1>11 DEF Opaque, s, w

\* cloud_data() delivers what BootstrapMayBe lets through.
LEMMA Delivered ==
  ASSUME NEW s, IsData(s.cloud_init.user_data),
         s.cloud_init.user_data.kind = "text" \/ ~s.cloud_init.enabled
           => s.key_inject_method # "cloud-init",
         Opaque(s) => s.key_inject_method # "cloud-init" /\ ~s.cloud_init.enabled
  PROVE  LET data == CloudData(s, PublicKey)
             own == s.cloud_init.user_data
         IN
         /\ s.key_inject_method = "cloud-init" => data.kind = "mapping" /\ PublicKey \in data.keys
         /\ Opaque(s) => data = s.user_data
         /\ s.cloud_init.enabled =>
              /\ data.kind = own.kind /\ data.text = own.text
              /\ own.keys \subseteq data.keys /\ own.packages \subseteq data.packages
              /\ s.cloud_init.mode = "replace" => data.packages = own.packages
<1>. DEFINE own == s.cloud_init.user_data
            data == CloudData(s, PublicKey)
            packages == IF s.cloud_init.mode = "merge" THEN own.packages \cup BasePackages
                        ELSE own.packages
            keys == IF s.key_inject_method = "cloud-init" THEN own.keys \cup {PublicKey} ELSE own.keys
<1>1. /\ own.kind \in {"text", "mapping"}
      /\ own = [kind |-> own.kind, text |-> own.text, keys |-> own.keys, packages |-> own.packages]
  BY DEF IsData
<1>2. CASE Opaque(s)  BY <1>2 DEF CloudData
<1>3. CASE ~Opaque(s) /\ ~s.cloud_init.enabled  BY <1>3
<1>4. CASE ~Opaque(s) /\ s.cloud_init.enabled /\ own.kind = "text"
  <2>1. data = own  BY <1>4 DEF CloudData
  <2>. QED BY <1>4, <2>1
<1>5. CASE ~Opaque(s) /\ s.cloud_init.enabled /\ own.kind = "mapping"
  <2>1. data = [own EXCEPT !.packages = packages, !.keys = keys]  BY <1>5 DEF CloudData
  <2>. HIDE DEF data, packages, keys, own
  <2>2. data.kind = own.kind /\ data.text = own.text /\ data.keys = keys /\ data.packages = packages
    BY <1>1, <2>1
  <2>. QED BY <1>5, <2>2 DEF data, packages, keys, own
<1>. QED BY <1>1, <1>2, <1>3, <1>4, <1>5

LEMMA InitChosen == Init => Chosen
BY DEF Init, Chosen

LEMMA NextChosen == ASSUME Chosen, [Next]_vars PROVE Chosen'
<1>1. UNCHANGED outside
  BY DEF Next, Begin, Preflight, SaveRun, Launch, Stop, Publish, vars
<1>. QED BY <1>1 DEF Chosen, outside

\* A rendered host has a specification that passed every test.
LEMMA RenderedFits ==
  ASSUME IInv, Chosen, NEW h \in Hosts, Rendered(h)
  PROVE  /\ requests[h] = Rendering(h) /\ run.plans[h].groups # {} /\ Fit(h, run.plans[h].image)
         /\ Effective(h) = WithRegion(Normal(Source(h)))
         /\ WellFormed(Source(h)) /\ Acceptable(Source(h))
<1>1. /\ run # NoRun /\ run.plans[h].groups # {} /\ requests[h] = Rendering(h)
  BY DEF IInv, Repeated, Rendered
<1>2. AllAcceptable /\ Fit(h, run.plans[h].image)  BY <1>1 DEF IInv, SavedFits
<1>3. Acceptable(inventory[h]) /\ TemplateMayBe(h, Normal(inventory[h]))
  BY <1>2 DEF AllAcceptable, Fit
<1>. QED BY <1>1, <1>2, <1>3, SourceFit

\* Where and behind which groups the interfaces of h come up unless they say so.
SubnetFor(h) ==
  LET guest == run.plans[h] IN
  IF guest.mode = "create" THEN ManagedSubnet(guest.region) ELSE guest.subnet
GroupsFor(h) == run.plans[h].groups
NicsFor(h) ==
  {Interface(Effective(h), i, SubnetFor(h), GroupsFor(h)) : i \in DOMAIN Wanted(Effective(h))}
KeyFor(h) ==
  IF Effective(h).key_inject_method = "ec2" THEN Get(Effective(h), "key_name", "mp-key") ELSE ""

LEMMA RenderingField ==
  ASSUME NEW h
  PROVE  /\ Rendering(h).data = CloudData(Effective(h), PublicKey)
         /\ Rendering(h).key = IF KeyFor(h) # "" THEN KeyFor(h) ELSE Get(templates[h], "KeyName", "")
         /\ Rendering(h).disks = Disks(Effective(h), templates[h])
         /\ Rendering(h).nics = Launched(Effective(h), NicsFor(h))
         /\ Rendering(h).placement = Pinned(Effective(h), templates[h])
         /\ Rendering(h).tagged = {"instance", "volume"}
              \cup (IF \E nic \in NicsFor(h) : nic.id = NoSubnet THEN {"network-interface"} ELSE {})
<1>1. Rendering(h).data = CloudData(Effective(h), PublicKey)  BY DEF Rendering, Request
<1>2. Rendering(h).key = IF KeyFor(h) # "" THEN KeyFor(h) ELSE Get(templates[h], "KeyName", "")
  BY DEF Rendering, Request, KeyFor
<1>3. Rendering(h).disks = Disks(Effective(h), templates[h])  BY DEF Rendering, Request
<1>4. Rendering(h).nics = Launched(Effective(h), NicsFor(h))
  BY DEF Rendering, Request, NicsFor, SubnetFor, GroupsFor
<1>6. Rendering(h).placement = Pinned(Effective(h), templates[h])  BY DEF Rendering, Request
<1>5. Rendering(h).tagged =
        {"instance", "volume"}
        \cup (IF \E nic \in NicsFor(h) : nic.id = NoSubnet THEN {"network-interface"} ELSE {})
  BY DEF Rendering, Request, NicsFor, SubnetFor, GroupsFor
<1>. QED BY <1>1, <1>2, <1>3, <1>4, <1>5, <1>6

LEMMA BootstrapOf ==
  ASSUME IInv, Chosen, NEW h \in Hosts, Rendered(h)
  PROVE  LET s == Effective(h)
             data == requests[h].data
             own == s.cloud_init.user_data
         IN
         /\ s.key_inject_method = "cloud-init" => data.kind = "mapping" /\ PublicKey \in data.keys
         /\ s.key_inject_method = "ec2" => requests[h].key # ""
         /\ Opaque(s) => data = s.user_data
         /\ s.cloud_init.enabled =>
              /\ data.kind = own.kind /\ data.text = own.text
              /\ own.keys \subseteq data.keys /\ own.packages \subseteq data.packages
              /\ s.cloud_init.mode = "replace" => data.packages = own.packages
<1>. DEFINE raw == Source(h)
            w == WithDefaults(raw)
            s == Effective(h)
            settled == WithRegion(Normal(raw))
<1>1. s = settled /\ WellFormed(raw) /\ Acceptable(raw) /\ requests[h] = Rendering(h)
  BY RenderedFits
<1>2. s.cloud_init = Cloud(w)  BY <1>1, SettledField
<1>3. /\ s.key_inject_method = w.key_inject_method
      /\ Get(s, "key_name", "mp-key") = Get(raw, "key_name", "mp-key")
      /\ Opaque(s) <=> Opaque(w)
      /\ Get(w, "cloud_init", Nothing) = Get(raw, "cloud_init", Nothing)
  BY <1>1, SettledParts
<1>4. IsData(s.cloud_init.user_data)
  <2>1. IsData(Get(Get(raw, "cloud_init", Nothing), "user_data", NoData))
    BY <1>1, WellFormedParts
  <2>2. IsData(Get(Get(w, "cloud_init", Nothing), "user_data", NoData))  BY <1>3, <2>1
  <2>. HIDE DEF w
  <2>3. IsData(Cloud(w).user_data)  BY <2>2, CloudIsData
  <2>. QED BY <1>2, <2>3
<1>5. BootstrapMayBe(w)  BY <1>1 DEF Acceptable
<1>6. /\ s.cloud_init.user_data.kind = "text" \/ ~s.cloud_init.enabled
           => s.key_inject_method # "cloud-init"
      /\ Opaque(s) => s.key_inject_method # "cloud-init" /\ ~s.cloud_init.enabled
  <2>. HIDE DEF w, s
  <2>1. /\ Cloud(w).user_data.kind = "text" \/ ~Cloud(w).enabled
             => w.key_inject_method # "cloud-init"
        /\ Opaque(w) => w.key_inject_method # "cloud-init" /\ ~Cloud(w).enabled
    BY <1>5 DEF BootstrapMayBe
  <2>. QED BY <1>2, <1>3, <2>1
<1>7. requests[h].data = CloudData(s, PublicKey)  BY <1>1, RenderingField
<1>8. s.key_inject_method = "ec2" => requests[h].key # ""
  <2>1. SUFFICES ASSUME s.key_inject_method = "ec2" PROVE requests[h].key # ""  OBVIOUS
  <2>2. Get(raw, "key_name", "key") # ""  BY <1>1, WellFormedParts
  <2>3. Get(s, "key_name", "mp-key") # ""  BY <1>3, <2>2 DEF Get
  <2>4. KeyFor(h) # ""  BY <2>1, <2>3 DEF KeyFor
  <2>5. Rendering(h).key = IF KeyFor(h) # "" THEN KeyFor(h) ELSE Get(templates[h], "KeyName", "")
    BY RenderingField
  <2>. QED BY <1>1, <2>4, <2>5
<1>. HIDE DEF raw, w, s, settled
<1>9. LET data == CloudData(s, PublicKey)
          own == s.cloud_init.user_data
      IN
      /\ s.key_inject_method = "cloud-init" => data.kind = "mapping" /\ PublicKey \in data.keys
      /\ Opaque(s) => data = s.user_data
      /\ s.cloud_init.enabled =>
           /\ data.kind = own.kind /\ data.text = own.text
           /\ own.keys \subseteq data.keys /\ own.packages \subseteq data.packages
           /\ s.cloud_init.mode = "replace" => data.packages = own.packages
  BY <1>4, <1>6, Delivered
<1>. QED BY <1>7, <1>8, <1>9 DEF s

\* Whatever an inventory and its template agree or disagree on, the request that is
\* rendered delivers the management key the way the effective policy says, an opaque
\* payload as it was given, and all that the author of a structured one put there.
THEOREM BootstrapIsDelivered == Spec => []BootstrapDelivered
<1>1. IInv /\ Chosen => BootstrapDelivered  BY BootstrapOf DEF BootstrapDelivered
<1>. QED BY <1>1, InitIInv, NextIInv, InitChosen, NextChosen, PTL DEF Spec

-------------------------------------------------------------------------------
(* The interfaces of a request                                             *)

\* What normalize() lets through as the interfaces of a host.
GoodNics(s) ==
  /\ InterfacesMayBe(s)
  /\ IsList(Nics(s)) /\ \A i \in DOMAIN Nics(s) : ~Has(Nics(s)[i], "id")
  /\ IsList(Enis(s))
  /\ \A i \in DOMAIN Enis(s) : Has(Enis(s)[i], "id") => Enis(s)[i].id # NoSubnet

LEMMA EffectiveNics ==
  ASSUME NEW raw, WellFormed(raw), Acceptable(raw)
  PROVE  GoodNics(WithRegion(Normal(raw)))
<1>. DEFINE s == WithRegion(Normal(raw))
            w == WithDefaults(raw)
<1>1. InterfacesMayBe(w)  BY DEF Acceptable
<1>2. /\ Nics(s) = Nics(raw) /\ Enis(s) = Enis(raw) /\ Nics(w) = Nics(raw) /\ Enis(w) = Enis(raw)
      /\ s.assign_public_ip = w.assign_public_ip
  BY SettledParts
<1>3. /\ IsList(Nics(raw)) /\ \A i \in DOMAIN Nics(raw) : ~Has(Nics(raw)[i], "id")
      /\ IsList(Enis(raw))
      /\ \A i \in DOMAIN Enis(raw) : Has(Enis(raw)[i], "id") => Enis(raw)[i].id # NoSubnet
  BY WellFormedParts
<1>. HIDE DEF s, w
<1>4. InterfacesMayBe(s)  BY <1>1, <1>2 DEF InterfacesMayBe
<1>5. GoodNics(s)  BY <1>2, <1>3, <1>4 DEF GoodNics
<1>. QED BY <1>5 DEF s

\* What is wanted is a list with one primary, of interfaces that exist and are
\* named, of new ones without a name, or of a new one that nothing is said of.
LEMMA WantedParts ==
  ASSUME NEW s, GoodNics(s)
  PROVE  /\ \E n \in Nat : DOMAIN Wanted(s) = 1..n
         /\ \E i \in DOMAIN Wanted(s) : Index(Wanted(s), i) = 0
         /\ \A i, j \in DOMAIN Wanted(s) : i # j => Index(Wanted(s), i) # Index(Wanted(s), j)
         /\ \A i \in DOMAIN Wanted(s) : Has(Wanted(s)[i], "id") => Wanted(s)[i].id # NoSubnet
         /\ s.assign_public_ip => \A i \in DOMAIN Wanted(s) : ~Has(Wanted(s)[i], "id")
         /\ s.assign_public_ip /\ Nics(s) # <<>> => Wanted(s) = Nics(s)
<1>1. /\ IsList(Nics(s)) /\ \A i \in DOMAIN Nics(s) : ~Has(Nics(s)[i], "id")
      /\ IsList(Enis(s))
      /\ \A i \in DOMAIN Enis(s) : Has(Enis(s)[i], "id") => Enis(s)[i].id # NoSubnet
      /\ Enis(s) # <<>> => ~s.assign_public_ip /\ Nics(s) = <<>>
  BY DEF GoodNics, InterfacesMayBe
<1>. DEFINE list == IF Nics(s) # <<>> THEN Nics(s) ELSE Enis(s)
<1>2. /\ \A i, j \in DOMAIN list : i # j => Index(list, i) # Index(list, j)
      /\ list # <<>> => \E i \in DOMAIN list : Index(list, i) = 0
  BY DEF GoodNics, InterfacesMayBe
<1>3. CASE list = <<>>
  <2>1. Wanted(s) = <<Nothing>>  BY <1>3 DEF Wanted, Interfaces
  <2>2. DOMAIN <<Nothing>> = 1..1 /\ <<Nothing>>[1] = Nothing  OBVIOUS
  <2>3. \A f : ~Has(Nothing, f)  BY DEF Has, Nothing
  <2>4. Index(<<Nothing>>, 1) = 0  BY <2>2, <2>3 DEF Index, Get
  <2>5. DOMAIN Wanted(s) = 1..1 /\ 1 \in Nat  BY <2>1, <2>2
  <2>6. \A i \in DOMAIN Wanted(s) : i = 1  BY <2>5
  <2>7. Nics(s) = <<>>  BY <1>3
  <2>8. Index(Wanted(s), 1) = 0 /\ 1 \in DOMAIN Wanted(s)  BY <2>1, <2>4, <2>5
  <2>9. \A i \in DOMAIN Wanted(s) : ~Has(Wanted(s)[i], "id")  BY <2>1, <2>2, <2>3, <2>6
  <2>. HIDE DEF list
  <2>. QED BY <2>5, <2>6, <2>7, <2>8, <2>9
<1>4. CASE list # <<>>
  <2>1. Wanted(s) = list  BY <1>1, <1>4 DEF Wanted, Interfaces
  <2>2. IsList(list)  BY <1>1
  <2>3. \E n \in Nat : DOMAIN list = 1..n  BY <2>2 DEF IsList
  <2>4. \A i \in DOMAIN list : Has(list[i], "id") => list[i].id # NoSubnet  BY <1>1
  <2>5. s.assign_public_ip => Enis(s) = <<>>  BY <1>1
  <2>6. s.assign_public_ip => list = Nics(s)  BY <1>4, <2>5
  <2>. HIDE DEF list
  <2>7. s.assign_public_ip => \A i \in DOMAIN list : ~Has(list[i], "id")  BY <1>1, <2>6
  <2>. QED BY <1>2, <1>4, <2>1, <2>3, <2>4, <2>6, <2>7
<1>. QED BY <1>3, <1>4

LEMMA InterfaceIndex ==
  ASSUME NEW s, NEW i, NEW subnet, NEW groups
  PROVE  Interface(s, i, subnet, groups).index = Index(Wanted(s), i)
<1>1. CASE Has(Wanted(s)[i], "id")  BY <1>1 DEF Interface
<1>2. CASE ~Has(Wanted(s)[i], "id")  BY <1>2 DEF Interface
<1>. QED BY <1>1, <1>2

LEMMA InterfaceOwned ==
  ASSUME NEW s, NEW i, NEW subnet, NEW groups, Has(Wanted(s)[i], "id")
  PROVE  /\ Interface(s, i, subnet, groups).id = Wanted(s)[i].id
         /\ Interface(s, i, subnet, groups).delete = FALSE
         /\ Interface(s, i, subnet, groups).public = FALSE
BY DEF Interface

LEMMA InterfaceGenerated ==
  ASSUME NEW s, NEW i, NEW subnet, NEW groups, ~Has(Wanted(s)[i], "id")
  PROVE  /\ Interface(s, i, subnet, groups).id = NoSubnet
         /\ Interface(s, i, subnet, groups).delete = TRUE
BY DEF Interface

LEMMA InterfacePublic ==
  ASSUME NEW s, NEW i, NEW subnet, NEW groups, ~Has(Wanted(s)[i], "id")
  PROVE  Interface(s, i, subnet, groups).public = (Index(Wanted(s), i) = 0 /\ s.assign_public_ip)
<1>. DEFINE nic == Wanted(s)[i]
            own == Get(nic, "subnet_id", subnet)
            guard == IF Get(nic, "groups", {}) # {} THEN nic.groups ELSE groups
            public == Index(Wanted(s), i) = 0 /\ s.assign_public_ip
<1>1. Interface(s, i, subnet, groups) =
        [id |-> NoSubnet, index |-> Index(Wanted(s), i), delete |-> TRUE,
         subnet |-> own, groups |-> guard, public |-> public]
  BY DEF Interface
<1>2. (Index(Wanted(s), i) = 0 /\ s.assign_public_ip) = public  OBVIOUS
<1>. HIDE DEF own, guard, public, nic
<1>3. Interface(s, i, subnet, groups).public = public  BY <1>1
<1>. QED BY <1>2, <1>3

LEMMA NicsParts ==
  ASSUME NEW h, GoodNics(Effective(h))
  PROVE  LET s == Effective(h) nics == NicsFor(h) IN
         /\ \A nic \in nics : /\ nic.delete = (nic.id = NoSubnet)
                              /\ nic.public => nic.index = 0 /\ s.assign_public_ip
                              /\ s.assign_public_ip => nic.id = NoSubnet
         /\ IsFiniteSet(nics) /\ \E p \in nics : {nic \in nics : nic.index = 0} = {p}
<1>. DEFINE s == Effective(h)
            nics == NicsFor(h)
            Nic(i) == Interface(s, i, SubnetFor(h), GroupsFor(h))
            f == [i \in DOMAIN Wanted(s) |-> Nic(i)]
<1>1. \A nic \in nics : \E i \in DOMAIN Wanted(s) : nic = Nic(i)  BY DEF NicsFor
<1>2. \A i \in DOMAIN Wanted(s) : Nic(i) \in nics  BY DEF NicsFor
<1>3. f \in [DOMAIN Wanted(s) -> nics] /\ \A nic \in nics : \E i \in DOMAIN Wanted(s) : f[i] = nic
  BY <1>1, <1>2
<1>4. f \in Surjection(DOMAIN Wanted(s), nics)  BY <1>3 DEF Surjection
<1>. HIDE DEF s, nics, f
<1>5. PICK n \in Nat : DOMAIN Wanted(s) = 1..n  BY WantedParts DEF s
<1>6. IsFiniteSet(DOMAIN Wanted(s))  BY <1>5, FS_Interval
<1>7. IsFiniteSet(nics)  BY <1>4, <1>6, FS_Surjection
<1>8. ASSUME NEW nic \in nics
      PROVE  /\ nic.delete = (nic.id = NoSubnet)
             /\ nic.public => nic.index = 0 /\ s.assign_public_ip
             /\ s.assign_public_ip => nic.id = NoSubnet
  <2>1. PICK i \in DOMAIN Wanted(s) : nic = Nic(i)  BY <1>1
  <2>2. Has(Wanted(s)[i], "id") => Wanted(s)[i].id # NoSubnet  BY WantedParts DEF s
  <2>3. s.assign_public_ip => ~Has(Wanted(s)[i], "id")  BY WantedParts DEF s
  <2>4. nic.index = Index(Wanted(s), i)  BY <2>1, InterfaceIndex
  <2>5. CASE Has(Wanted(s)[i], "id")
    <3>1. nic.id = Wanted(s)[i].id  BY <2>1, <2>5, InterfaceOwned
    <3>2. nic.delete = FALSE  BY <2>1, <2>5, InterfaceOwned
    <3>3. nic.public = FALSE  BY <2>1, <2>5, InterfaceOwned
    <3>. QED BY <2>2, <2>3, <2>5, <3>1, <3>2, <3>3
  <2>6. CASE ~Has(Wanted(s)[i], "id")
    <3>1. nic.id = NoSubnet  BY <2>1, <2>6, InterfaceGenerated
    <3>2. nic.delete = TRUE  BY <2>1, <2>6, InterfaceGenerated
    <3>3. nic.public = (Index(Wanted(s), i) = 0 /\ s.assign_public_ip)
      BY <2>1, <2>6, InterfacePublic
    <3>. QED BY <2>4, <3>1, <3>2, <3>3
  <2>. QED BY <2>5, <2>6
<1>9. \E p \in nics : {nic \in nics : nic.index = 0} = {p}
  <2>1. PICK i \in DOMAIN Wanted(s) : Index(Wanted(s), i) = 0  BY WantedParts DEF s
  <2>. DEFINE p == Nic(i)
  <2>2. p \in nics /\ p.index = 0  BY <1>2, <2>1, InterfaceIndex
  <2>3. ASSUME NEW nic \in nics, nic.index = 0 PROVE nic = p
    <3>1. PICK j \in DOMAIN Wanted(s) : nic = Nic(j)  BY <1>1
    <3>2. Index(Wanted(s), j) = 0  BY <2>3, <3>1, InterfaceIndex
    <3>3. j = i  BY <2>1, <3>2, WantedParts DEF s
    <3>. QED BY <3>1, <3>3
  <2>. HIDE DEF p
  <2>. QED BY <2>2, <2>3
<1>. QED BY <1>7, <1>8, <1>9 DEF nics, s

\* What is launched of them is the primary alone if it has a public address.
LEMMA LaunchedSet ==
  ASSUME NEW s, NEW nics, IsFiniteSet(nics),
         NEW p \in nics, {nic \in nics : nic.index = 0} = {p},
         \A nic \in nics : nic.public => s.assign_public_ip
  PROVE  /\ Launched(s, nics) = IF s.assign_public_ip THEN {p} ELSE nics
         /\ {nic \in Launched(s, nics) : nic.index = 0} = {p}
         /\ (\E nic \in Launched(s, nics) : nic.public) => Cardinality(Launched(s, nics)) = 1
<1>1. Cardinality(nics) \in Nat /\ Cardinality(nics) # 0
  BY FS_CardinalityType, FS_EmptySet
<1>2. ASSUME s.assign_public_ip PROVE Launched(s, nics) = {p}
  <2>1. CASE Cardinality(nics) > 1  BY <1>2, <2>1 DEF Launched
  <2>2. CASE ~(Cardinality(nics) > 1)
    <3>1. Launched(s, nics) = nics /\ Cardinality(nics) = 1  BY <1>1, <2>2 DEF Launched
    <3>2. \E x : nics = {x}  BY <3>1, FS_Singleton
    <3>. QED BY <3>1, <3>2
  <2>. QED BY <2>1, <2>2
<1>3. ~s.assign_public_ip => Launched(s, nics) = nics  BY DEF Launched
<1>4. Launched(s, nics) \subseteq nics  BY <1>2, <1>3
<1>5. (\E nic \in Launched(s, nics) : nic.public) => s.assign_public_ip  BY <1>4
<1>6. Cardinality({p}) = 1  BY FS_Singleton
<1>. QED BY <1>2, <1>3, <1>5, <1>6

\* An interface that is attached later has its tags from the request.
LEMMA LaterTagged ==
  ASSUME NEW h, GoodNics(Effective(h)),
         AttachedLater(Effective(h), SubnetFor(h), GroupsFor(h)) # {}
  PROVE  \E nic \in NicsFor(h) : nic.id = NoSubnet
<1>. DEFINE s == Effective(h)
<1>1. PICK j \in DOMAIN Nics(s) : s.assign_public_ip  BY DEF AttachedLater
<1>2. Nics(s) # <<>>  BY <1>1
<1>3. Wanted(s) = Nics(s)  BY <1>1, <1>2, WantedParts
<1>4. ~Has(Wanted(s)[j], "id")  BY <1>1, <1>3, WantedParts
<1>5. Interface(s, j, SubnetFor(h), GroupsFor(h)).id = NoSubnet  BY <1>4, InterfaceGenerated
<1>. QED BY <1>1, <1>3, <1>5 DEF NicsFor

-------------------------------------------------------------------------------
(* What is attached later is what the request has left out                 *)

LaterAsRendered ==
  /\ later = [h \in Hosts |-> later[h]]
  /\ \A h \in Hosts : Rendered(h) =>
       later[h] = AttachedLater(Effective(h), SubnetFor(h), GroupsFor(h))

LEMMA InitLater == Init => LaterAsRendered
BY DEF Init, LaterAsRendered, Rendered

LEMMA LaterKept ==
  ASSUME LaterAsRendered, UNCHANGED <<outside, run, requests, later>>
  PROVE  LaterAsRendered'
<1>1. Hosts' = Hosts /\ \A h : Effective(h)' = Effective(h)  BY SameHosts, SameEffective
<1>2. \A h : SubnetFor(h)' = SubnetFor(h) /\ GroupsFor(h)' = GroupsFor(h)
  BY DEF SubnetFor, GroupsFor
<1>3. \A h : Rendered(h)' <=> Rendered(h)  BY DEF Rendered
<1>. QED BY <1>1, <1>2, <1>3 DEF LaterAsRendered

LEMMA SaveRunLater == ASSUME IInv, LaterAsRendered, SaveRun PROVE LaterAsRendered'
<1>1. UNCHANGED <<outside, requests, later>>  BY DEF SaveRun, rendered
<1>2. CASE run' = run  BY <1>1, <1>2, LaterKept
<1>3. CASE run' # run
  <2>1. run = NoRun  BY <1>3 DEF SaveRun
  <2>2. \A h \in Hosts : ~Rendered(h)  BY <2>1 DEF IInv, Repeated, Rendered
  <2>3. Hosts' = Hosts  BY <1>1, SameHosts
  <2>. QED BY <1>1, <2>2, <2>3 DEF LaterAsRendered, Rendered
<1>. QED BY <1>2, <1>3

LEMMA LaunchLater == ASSUME IInv, LaterAsRendered, Launch PROVE LaterAsRendered'
<1>1. UNCHANGED outside /\ pc = "launch" /\ run # NoRun  BY DEF Launch, IInv, InLaunch
<1>2. Hosts' = Hosts /\ \A h : Effective(h)' = Effective(h)  BY <1>1, SameHosts, SameEffective
<1>3. IsRun /\ \A h \in Hosts : specs[h] = Effective(h)
  BY <1>1 DEF IInv, SavedFits, InLaunch
<1>. DEFINE Groups2(h) == IF run.plans[h].groups = {} THEN {ManagedGroup(h)} ELSE run.plans[h].groups
<1>4. PICK h \in todo :
        \/ /\ \E request : requests' = [requests EXCEPT ![h] = request]
           /\ run' = [run EXCEPT !.plans[h].groups = Groups2(h)]
           /\ later' = [later EXCEPT ![h] = AttachedLater(specs[h], SubnetFor(h), Groups2(h))]
        \/ UNCHANGED <<requests, run, later>>
  BY DEF Launch, SubnetFor, rendered
<1>5. CASE UNCHANGED <<requests, run, later>>  BY <1>1, <1>5, LaterKept
<1>6. CASE /\ \E request : requests' = [requests EXCEPT ![h] = request]
           /\ run' = [run EXCEPT !.plans[h].groups = Groups2(h)]
           /\ later' = [later EXCEPT ![h] = AttachedLater(specs[h], SubnetFor(h), Groups2(h))]
  <2>1. h \in Hosts  BY DEF IInv, Shapes
  <2>. HIDE DEF Groups2
  <2>2. /\ \A g \in Hosts : g # h => run'.plans[g] = run.plans[g]
        /\ run'.plans[h] = [run.plans[h] EXCEPT !.groups = Groups2(h)]
    BY <1>3, <1>6, <2>1 DEF IsRun
  <2>3. /\ run'.plans[h].groups = Groups2(h) /\ run'.plans[h].mode = run.plans[h].mode
        /\ run'.plans[h].region = run.plans[h].region /\ run'.plans[h].subnet = run.plans[h].subnet
    BY <1>3, <2>1, <2>2 DEF IsRun, IsPlan
  <2>4. SubnetFor(h)' = SubnetFor(h) /\ GroupsFor(h)' = Groups2(h)
    BY <2>3 DEF SubnetFor, GroupsFor
  <2>5. later'[h] = AttachedLater(Effective(h), SubnetFor(h), GroupsFor(h))'
    BY <1>2, <1>3, <1>6, <2>1, <2>4 DEF LaterAsRendered
  <2>6. later' = [g \in Hosts |-> later'[g]]  BY <1>6 DEF LaterAsRendered
  <2>7. ASSUME NEW g \in Hosts, g # h, Rendered(g)'
        PROVE  later'[g] = AttachedLater(Effective(g), SubnetFor(g), GroupsFor(g))'
    <3>1. requests'[g] = requests[g] /\ later'[g] = later[g]
      BY <1>6, <2>7 DEF IInv, Shapes, LaterAsRendered
    <3>2. SubnetFor(g)' = SubnetFor(g) /\ GroupsFor(g)' = GroupsFor(g)
      BY <2>2, <2>7 DEF SubnetFor, GroupsFor
    <3>3. Rendered(g)  BY <2>7, <3>1 DEF Rendered
    <3>. QED BY <1>2, <3>1, <3>2, <3>3 DEF LaterAsRendered
  <2>. QED BY <1>2, <2>5, <2>6, <2>7 DEF LaterAsRendered
<1>. QED BY <1>4, <1>5, <1>6

LEMMA NextLater == ASSUME IInv, LaterAsRendered, [Next]_vars PROVE LaterAsRendered'
<1>1. CASE Begin \/ Preflight \/ Stop \/ Publish \/ UNCHANGED vars
  <2>1. UNCHANGED <<outside, run, requests, later>>
    BY <1>1 DEF Begin, Preflight, Stop, Publish, vars, rendered
  <2>. QED BY <2>1, LaterKept
<1>. QED BY <1>1, SaveRunLater, LaunchLater DEF Next

LEMMA DisposableOf ==
  ASSUME IInv, Chosen, LaterAsRendered, NEW h \in Hosts, Rendered(h)
  PROVE  LET r == requests[h] generated == {nic \in r.nics : nic.id = NoSubnet} IN
         /\ \A nic \in r.nics : nic.delete = (nic \in generated)
         /\ ~Some(r.disks, LAMBDA disk : ~Get(disk, "delete", TRUE))
         /\ "network-interface" \in r.tagged <=> generated # {} \/ later[h] # {}
         /\ Cardinality({nic \in r.nics : nic.index = 0}) = 1
         /\ (\E nic \in r.nics : nic.public) => Cardinality(r.nics) = 1
<1>. DEFINE s == Effective(h)
            nics == NicsFor(h)
            launched == Launched(s, nics)
            generated == {nic \in launched : nic.id = NoSubnet}
<1>1. /\ requests[h] = Rendering(h) /\ Fit(h, run.plans[h].image)
      /\ s = WithRegion(Normal(Source(h))) /\ WellFormed(Source(h)) /\ Acceptable(Source(h))
  BY RenderedFits
<1>2. GoodNics(s)  BY <1>1, EffectiveNics
<1>3. requests[h].nics = launched  BY <1>1, RenderingField
<1>4. requests[h].disks = Disks(s, templates[h])  BY <1>1, RenderingField
<1>5. requests[h].tagged =
        {"instance", "volume"}
        \cup (IF \E nic \in nics : nic.id = NoSubnet THEN {"network-interface"} ELSE {})
  BY <1>1, RenderingField
<1>6. later[h] = AttachedLater(s, SubnetFor(h), GroupsFor(h))  BY DEF LaterAsRendered
<1>8. ~Some(Disks(s, templates[h]), LAMBDA disk : ~Get(disk, "delete", TRUE))
  BY <1>1 DEF Fit, Renderable
<1>. HIDE DEF s, nics
<1>9. /\ \A nic \in nics : /\ nic.delete = (nic.id = NoSubnet)
                           /\ nic.public => nic.index = 0 /\ s.assign_public_ip
                           /\ s.assign_public_ip => nic.id = NoSubnet
      /\ IsFiniteSet(nics) /\ \E p \in nics : {nic \in nics : nic.index = 0} = {p}
  BY <1>2, NicsParts DEF s, nics
<1>10. PICK p \in nics : {nic \in nics : nic.index = 0} = {p}  BY <1>9
<1>11. /\ launched = IF s.assign_public_ip THEN {p} ELSE nics
       /\ {nic \in launched : nic.index = 0} = {p}
       /\ (\E nic \in launched : nic.public) => Cardinality(launched) = 1
  BY <1>9, <1>10, LaunchedSet
<1>12. later[h] # {} => \E nic \in nics : nic.id = NoSubnet  BY <1>2, <1>6, LaterTagged DEF s, nics
<1>. HIDE DEF launched
<1>13. (\E nic \in nics : nic.id = NoSubnet) <=> generated # {} \/ later[h] # {}
  <2>1. CASE ~s.assign_public_ip  BY <1>11, <1>12, <2>1
  <2>2. CASE s.assign_public_ip
    <3>1. p.id = NoSubnet  BY <1>9, <2>2
    <3>2. p \in generated  BY <1>11, <2>2, <3>1
    <3>. QED BY <3>1, <3>2
  <2>. QED BY <2>1, <2>2
<1>14. "network-interface" \in requests[h].tagged <=> \E nic \in nics : nic.id = NoSubnet
  BY <1>5
<1>15. Cardinality({nic \in launched : nic.index = 0}) = 1  BY <1>11, FS_Singleton
<1>16. \A nic \in launched : nic.delete = (nic \in generated)  BY <1>9, <1>11
<1>. QED BY <1>3, <1>4, <1>8, <1>11, <1>13, <1>14, <1>15, <1>16 DEF s

\* Whatever is asked for and offered, all that a launch makes goes with the instance
\* and is tagged, what it references stays, and it has one primary interface, with a
\* public address only where EC2 gives one.
THEOREM RequestsDisposable == Spec => []Disposable
<1>1. IInv /\ Chosen /\ LaterAsRendered => Disposable  BY DisposableOf DEF Disposable
<1>. QED BY <1>1, InitIInv, NextIInv, InitChosen, NextChosen, InitLater, NextLater, PTL DEF Spec

-------------------------------------------------------------------------------
(* Every interface that is asked for comes up once                         *)

LEMMA EmptyList ==
  ASSUME NEW list, IsList(list)
  PROVE  list = <<>> <=> DOMAIN list = {}
<1>1. list \in Seq({list[i] : i \in 1..Len(list)})  BY DEF IsList
<1>2. DOMAIN list = 1..Len(list) /\ Len(list) \in Nat  BY <1>1
<1>. QED BY <1>1, <1>2

\* Which interfaces a specification with a template ends up with.
LEMMA TemplatedLists ==
  ASSUME NEW raw, NEW t, Has(raw, "launch_template")
  PROVE  LET src == Templated(Normal(raw), t) IN
         /\ Nics(src) = IF Has(raw, "network_interfaces") THEN Nics(raw)
                        ELSE IF Generated(t) THEN TemplateInterfaces(t, Explicit(Normal(raw)))
                        ELSE <<>>
         /\ Enis(src) = IF Has(raw, "network_interfaces_ids") THEN Enis(raw)
                        ELSE IF Some(TemplateNics(t), Existing) THEN TemplateEnis(t)
                        ELSE <<>>
<1>. DEFINE s == Normal(raw)
            src == Templated(s, t)
            d == Derived(s, t)
            existing == Some(TemplateNics(t), Existing)
            interfaces == TemplateInterfaces(t, Explicit(s))
            enis == TemplateEnis(t)
<1>1. DOMAIN src = DOMAIN d \cup DOMAIN raw  BY TemplatedField
<1>2. \A f \in DOMAIN raw : f \notin Derivations \ {"region"} => src[f] = raw[f]  BY TemplatedField
<1>3. \A f \in DOMAIN d : f \notin DOMAIN raw => src[f] = d[f]  BY TemplatedField
<1>4. Has(d, "network_interfaces") <=> Generated(t)  BY DerivedField
<1>5. Has(d, "network_interfaces") => d.network_interfaces = interfaces  BY DerivedField
<1>6. Has(d, "network_interfaces_ids") <=> existing  BY DerivedField
<1>7. Has(d, "network_interfaces_ids") => d.network_interfaces_ids = enis  BY DerivedField
<1>. HIDE DEF s, src, d, existing, interfaces, enis
<1>8. Nics(src) = IF Has(raw, "network_interfaces") THEN Nics(raw)
                  ELSE IF Generated(t) THEN interfaces ELSE <<>>
  BY <1>1, <1>2, <1>3, <1>4, <1>5 DEF Nics, Get, Has, Derivations
<1>9. Enis(src) = IF Has(raw, "network_interfaces_ids") THEN Enis(raw)
                  ELSE IF existing THEN enis ELSE <<>>
  BY <1>1, <1>2, <1>3, <1>6, <1>7 DEF Enis, Get, Has, Derivations
<1>. QED BY <1>8, <1>9 DEF s, src, existing, interfaces, enis

LEMMA TemplateIndexes ==
  ASSUME NEW t, NEW x
  PROVE  /\ DOMAIN TemplateEnis(t) = DOMAIN TemplateNics(t)
         /\ DOMAIN TemplateInterfaces(t, x) = DOMAIN TemplateNics(t)
         /\ \A i \in DOMAIN TemplateNics(t) :
              /\ Index(TemplateEnis(t), i) = TemplateIndex(TemplateNics(t), i)
              /\ Index(TemplateInterfaces(t, x), i) = TemplateIndex(TemplateNics(t), i)
<1>. DEFINE nics == TemplateNics(t)
            own == Has(x, "network_interfaces") \/ Has(x, "network_interfaces_ids")
<1>1. TemplateInterfaces(t, x) = [i \in DOMAIN nics |-> IF own THEN Converted(nics, i)
                                                        ELSE Overridden(Converted(nics, i), x)]
  BY DEF TemplateInterfaces
<1>2. DOMAIN TemplateEnis(t) = DOMAIN nics  BY DEF TemplateEnis
<1>3. ASSUME NEW i \in DOMAIN nics PROVE Index(TemplateEnis(t), i) = TemplateIndex(nics, i)
  <2>. DEFINE eni == [id |-> Get(nics[i], "NetworkInterfaceId", NoSubnet),
                      device_index |-> TemplateIndex(nics, i)]
  <2>1. TemplateEnis(t)[i] = eni  BY DEF TemplateEnis
  <2>2. Has(eni, "device_index") /\ eni.device_index = TemplateIndex(nics, i)  BY DEF Has
  <2>. HIDE DEF eni
  <2>. QED BY <2>1, <2>2 DEF Index, Get
<1>. HIDE DEF nics, own
<1>4. DOMAIN TemplateInterfaces(t, x) = DOMAIN nics  BY <1>1
<1>5. ASSUME NEW i \in DOMAIN nics PROVE Index(TemplateInterfaces(t, x), i) = TemplateIndex(nics, i)
  <2>1. Has(Converted(nics, i), "device_index")  BY ConvertedField
  <2>2. Converted(nics, i).device_index = TemplateIndex(nics, i)  BY ConvertedField
  <2>3. "device_index" \in DOMAIN Converted(nics, i)  BY <2>1 DEF Has
  <2>4. Has(Overridden(Converted(nics, i), x), "device_index")  BY <2>3, OverriddenField
  <2>5. Overridden(Converted(nics, i), x).device_index = TemplateIndex(nics, i)
    BY <2>2, <2>3, OverriddenField
  <2>6. TemplateInterfaces(t, x)[i] = IF own THEN Converted(nics, i)
                                      ELSE Overridden(Converted(nics, i), x)
    BY <1>1
  <2>. QED BY <2>1, <2>2, <2>4, <2>5, <2>6 DEF Index, Get
<1>. QED BY <1>2, <1>3, <1>4, <1>5 DEF nics

Indexes(list) == {Index(list, i) : i \in DOMAIN list}

LEMMA NothingIndexes == Indexes(<<Nothing>>) = {0}
<1>1. DOMAIN <<Nothing>> = {1} /\ <<Nothing>>[1] = Nothing  OBVIOUS
<1>2. Index(<<Nothing>>, 1) = 0  BY <1>1 DEF Index, Get, Has, Nothing
<1>. QED BY <1>1, <1>2 DEF Indexes

LEMMA WantedIndexes ==
  ASSUME Chosen, NEW h \in Hosts, GoodNics(Effective(h)),
         Effective(h) = WithRegion(Normal(Source(h)))
  PROVE  Indexes(Wanted(Effective(h))) = Asked(h)
<1>. DEFINE s == Effective(h)
            raw == inventory[h]
            t == templates[h]
            nics == TemplateNics(t)
            own == Interfaces(raw)
            existing == Some(nics, Existing)
            field == IF existing THEN "network_interfaces_ids" ELSE "network_interfaces"
<1>. SUFFICES Indexes(Wanted(s)) = Asked(h)  OBVIOUS
<1>1. Asked(h) = IF own # <<>> THEN Indexes(own)
                 ELSE IF nics # <<>> /\ ~Has(raw, field)
                 THEN {TemplateIndex(nics, i) : i \in DOMAIN nics} ELSE {0}
  BY DEF Asked, Indexes
<1>2. Nics(s) = Nics(Source(h)) /\ Enis(s) = Enis(Source(h))  BY SettledParts
<1>3. Enis(s) # <<>> => Nics(s) = <<>>  BY DEF GoodNics, InterfacesMayBe
<1>4. /\ Enis(raw) # <<>> => Has(raw, "network_interfaces_ids")
      /\ Nics(raw) # <<>> => Has(raw, "network_interfaces")
  BY DEF Enis, Nics, Get
<1>5. own = IF Enis(raw) # <<>> THEN Enis(raw) ELSE Nics(raw)  BY DEF Interfaces
<1>6. Wanted(s) = IF Enis(s) # <<>> THEN Enis(s) ELSE IF Nics(s) # <<>> THEN Nics(s) ELSE <<Nothing>>
  BY DEF Wanted, Interfaces
<1>7. IF Has(raw, "launch_template") THEN WellFormedTemplate(t) ELSE t = Nothing
  BY ScenarioAssumption DEF Chosen, Hosts
<1>8. existing => DOMAIN nics # {}  BY DEF Some
<1>9. CASE ~Has(raw, "launch_template")
  <2>1. Source(h) = raw  BY <1>9 DEF Source
  <2>2. nics = <<>>  BY <1>7, <1>9 DEF TemplateNics, Get, Has, Nothing
  <2>. HIDE DEF s, raw, nics, own, existing, field
  <2>. QED BY <1>1, <1>2, <1>5, <1>6, <2>1, <2>2, NothingIndexes
<1>10. CASE Has(raw, "launch_template")
  <2>. DEFINE x == Explicit(Normal(raw))
              interfaces == TemplateInterfaces(t, x)
              enis == TemplateEnis(t)
  <2>1. Source(h) = Templated(Normal(raw), t)  BY <1>10 DEF Source
  <2>2. Nics(s) = IF Has(raw, "network_interfaces") THEN Nics(raw)
                  ELSE IF Generated(t) THEN interfaces ELSE <<>>
    BY <1>2, <1>10, <2>1, TemplatedLists
  <2>3. Enis(s) = IF Has(raw, "network_interfaces_ids") THEN Enis(raw)
                  ELSE IF existing THEN enis ELSE <<>>
    BY <1>2, <1>10, <2>1, TemplatedLists
  <2>4. /\ DOMAIN enis = DOMAIN nics /\ DOMAIN interfaces = DOMAIN nics
        /\ \A i \in DOMAIN nics : Index(enis, i) = TemplateIndex(nics, i)
        /\ \A i \in DOMAIN nics : Index(interfaces, i) = TemplateIndex(nics, i)
    BY TemplateIndexes
  <2>5. nics = <<>> <=> DOMAIN nics = {}  BY <1>7, <1>10, EmptyList DEF WellFormedTemplate
  <2>6. Generated(t) <=> nics # <<>> /\ ~existing  BY DEF Generated
  <2>. HIDE DEF s, raw, t, nics, own, existing, field, enis, interfaces, x
  <2>7. /\ Indexes(enis) = {TemplateIndex(nics, i) : i \in DOMAIN nics}
        /\ Indexes(interfaces) = {TemplateIndex(nics, i) : i \in DOMAIN nics}
    BY <2>4 DEF Indexes
  <2>8. nics # <<>> => enis # <<>> /\ interfaces # <<>>  BY <2>4, <2>5
  <2>9. CASE own # <<>>
    <3>1. CASE Enis(raw) # <<>>  BY <1>1, <1>4, <1>5, <1>6, <2>3, <2>9, <3>1
    <3>2. CASE Enis(raw) = <<>>
      <4>1. Nics(raw) # <<>> /\ own = Nics(raw)  BY <1>5, <2>9, <3>2
      <4>2. Nics(s) = Nics(raw)  BY <1>4, <2>2, <4>1
      <4>3. Enis(s) = <<>>  BY <1>3, <4>1, <4>2
      <4>. QED BY <1>1, <1>6, <2>9, <4>1, <4>2, <4>3
    <3>. QED BY <3>1, <3>2
  <2>10. CASE own = <<>>
    <3>1. Enis(raw) = <<>> /\ Nics(raw) = <<>>  BY <1>5, <2>10
    <3>2. CASE existing
      <4>1. nics # <<>> /\ ~Generated(t) /\ field = "network_interfaces_ids"
        BY <1>8, <2>5, <2>6, <3>2 DEF field
      <4>2. Nics(s) = <<>>  BY <2>2, <3>1, <4>1
      <4>. QED BY <1>1, <1>6, <2>3, <2>7, <2>8, <2>10, <3>1, <3>2, <4>1, <4>2, NothingIndexes
    <3>3. CASE ~existing
      <4>1. Enis(s) = <<>> /\ field = "network_interfaces"  BY <2>3, <3>1, <3>3 DEF field
      <4>2. CASE nics = <<>>
        <5>1. Nics(s) = <<>>  BY <2>2, <2>6, <3>1, <4>2
        <5>. QED BY <1>1, <1>6, <2>10, <4>1, <4>2, <5>1, NothingIndexes
      <4>3. CASE nics # <<>>
        <5>1. Generated(t)  BY <2>6, <3>3, <4>3
        <5>. QED BY <1>1, <1>6, <2>2, <2>7, <2>8, <2>10, <3>1, <4>1, <4>3, <5>1, NothingIndexes
      <4>. QED BY <4>2, <4>3
    <3>. QED BY <3>2, <3>3
  <2>. QED BY <2>9, <2>10
<1>. QED BY <1>9, <1>10

LEMMA LaterField ==
  ASSUME NEW s, NEW subnet, NEW groups, NEW joined, joined = AttachedLater(s, subnet, groups)
  PROVE  /\ \A nic \in joined : \E i \in DOMAIN Nics(s) :
              /\ s.assign_public_ip /\ Index(Nics(s), i) # 0 /\ nic.index = Index(Nics(s), i)
              /\ nic.groups = Get(Nics(s)[i], "groups", groups)
         /\ s.assign_public_ip =>
              \A i \in DOMAIN Nics(s) : Index(Nics(s), i) # 0 =>
                \E nic \in joined : nic.index = Index(Nics(s), i)
<1>. DEFINE list == Nics(s)
            those == {j \in DOMAIN list : s.assign_public_ip /\ Index(list, j) # 0}
            Nic(i) == [index |-> Index(list, i), delete |-> TRUE,
                       subnet |-> Get(list[i], "subnet_id", subnet),
                       groups |-> Get(list[i], "groups", groups)]
<1>1. joined = {Nic(i) : i \in those}  BY DEF AttachedLater
<1>2. \A i \in those : i \in DOMAIN list /\ s.assign_public_ip /\ Index(list, i) # 0  OBVIOUS
<1>3. s.assign_public_ip => \A i \in DOMAIN list : Index(list, i) # 0 => i \in those  OBVIOUS
<1>4. \A i : Nic(i).index = Index(list, i) /\ Nic(i).groups = Get(list[i], "groups", groups)
  OBVIOUS
<1>. HIDE DEF those, list, Nic
<1>5. \A nic \in joined : \E i \in those : nic = Nic(i)  BY <1>1
<1>6. \A i \in those : Nic(i) \in joined  BY <1>1
<1>. QED BY <1>2, <1>3, <1>4, <1>5, <1>6 DEF list

\* An interface names its own groups or has those of the host.
LEMMA InterfaceGroups ==
  ASSUME NEW s, NEW i, NEW subnet, NEW groups, ~Has(Wanted(s)[i], "id")
  PROVE  Interface(s, i, subnet, groups).groups =
           IF Get(Wanted(s)[i], "groups", {}) # {} THEN Wanted(s)[i].groups ELSE groups
BY DEF Interface

LEMMA OnceOf ==
  ASSUME IInv, Chosen, LaterAsRendered, NEW h \in Hosts, Rendered(h)
  PROVE  LET launched == {nic.index : nic \in requests[h].nics}
             attachedLater == {nic.index : nic \in later[h]}
             list == Wanted(Effective(h))
             Guarded(nic, i) ==
               IF Get(list[i], "groups", {}) # {} THEN nic.groups = list[i].groups
               ELSE \/ nic.groups = run.plans[h].groups /\ nic.groups # {}
                    \/ nic \in later[h] /\ Has(list[i], "groups") /\ nic.groups = {}
         IN /\ launched \cup attachedLater = Asked(h) /\ launched \cap attachedLater = {}
            /\ \A nic \in requests[h].nics \cup later[h] : nic.delete =>
                 \E i \in DOMAIN list : Index(list, i) = nic.index /\ Guarded(nic, i)
<1>. DEFINE s == Effective(h)
            nics == NicsFor(h)
            Nic(i) == Interface(s, i, SubnetFor(h), GroupsFor(h))
            launchedNics == Launched(s, nics)
            launched == {nic.index : nic \in requests[h].nics}
            attachedLater == {nic.index : nic \in later[h]}
            Guarded(nic, i) ==
              IF Get(Wanted(s)[i], "groups", {}) # {} THEN nic.groups = Wanted(s)[i].groups
              ELSE \/ nic.groups = GroupsFor(h) /\ nic.groups # {}
                   \/ nic \in later[h] /\ Has(Wanted(s)[i], "groups") /\ nic.groups = {}
<1>. SUFFICES /\ launched \cup attachedLater = Asked(h) /\ launched \cap attachedLater = {}
              /\ \A nic \in requests[h].nics \cup later[h] : nic.delete =>
                   \E i \in DOMAIN Wanted(s) : Index(Wanted(s), i) = nic.index /\ Guarded(nic, i)
  BY DEF GroupsFor
<1>1. /\ requests[h] = Rendering(h) /\ GroupsFor(h) # {}
      /\ s = WithRegion(Normal(Source(h))) /\ WellFormed(Source(h)) /\ Acceptable(Source(h))
  BY RenderedFits DEF GroupsFor
<1>2. GoodNics(s)  BY <1>1, EffectiveNics
<1>3. requests[h].nics = launchedNics  BY <1>1, RenderingField
<1>4. later[h] = AttachedLater(s, SubnetFor(h), GroupsFor(h))  BY DEF LaterAsRendered
<1>5. Indexes(Wanted(s)) = Asked(h)  BY <1>1, <1>2, WantedIndexes
<1>6. /\ \A nic \in nics : \E i \in DOMAIN Wanted(s) : nic = Nic(i)
      /\ \A i \in DOMAIN Wanted(s) : Nic(i) \in nics
  BY DEF NicsFor
<1>7. \A i \in DOMAIN Wanted(s) : Nic(i).index = Index(Wanted(s), i)  BY InterfaceIndex
<1>8. /\ \A nic \in nics : /\ nic.delete = (nic.id = NoSubnet)
                           /\ nic.public => nic.index = 0 /\ s.assign_public_ip
                           /\ s.assign_public_ip => nic.id = NoSubnet
      /\ IsFiniteSet(nics) /\ \E p \in nics : {nic \in nics : nic.index = 0} = {p}
  BY <1>2, NicsParts
<1>9. PICK p \in nics : {nic \in nics : nic.index = 0} = {p}  BY <1>8
<1>11. s.assign_public_ip /\ Nics(s) # <<>> => Wanted(s) = Nics(s)  BY <1>2, WantedParts
<1>12. /\ \A nic \in later[h] : \E i \in DOMAIN Nics(s) :
            /\ s.assign_public_ip /\ Index(Nics(s), i) # 0 /\ nic.index = Index(Nics(s), i)
            /\ nic.groups = Get(Nics(s)[i], "groups", GroupsFor(h))
       /\ s.assign_public_ip =>
            \A i \in DOMAIN Nics(s) : Index(Nics(s), i) # 0 =>
              \E nic \in later[h] : nic.index = Index(Nics(s), i)
  BY <1>4, LaterField
<1>13. DOMAIN Nics(s) # {} => Nics(s) # <<>>  OBVIOUS
<1>14. launchedNics = IF s.assign_public_ip THEN {p} ELSE nics
  <2>. HIDE DEF s, nics
  <2>. QED BY <1>8, <1>9, LaunchedSet
<1>. HIDE DEF s, nics, Nic, launchedNics
<1>15. ASSUME NEW nic \in nics, nic.delete
       PROVE  \E i \in DOMAIN Wanted(s) : Index(Wanted(s), i) = nic.index /\ Guarded(nic, i)
  <2>1. PICK i \in DOMAIN Wanted(s) : nic = Nic(i)  BY <1>6
  <2>2. ~Has(Wanted(s)[i], "id")
    <3>1. Has(Wanted(s)[i], "id") => Nic(i).delete = FALSE  BY InterfaceOwned DEF Nic
    <3>. QED BY <1>15, <2>1, <3>1
  <2>3. nic.groups = IF Get(Wanted(s)[i], "groups", {}) # {} THEN Wanted(s)[i].groups ELSE GroupsFor(h)
    BY <2>1, <2>2, InterfaceGroups DEF Nic
  <2>4. Guarded(nic, i)  BY <1>1, <2>3
  <2>. QED BY <1>7, <2>1, <2>4
<1>16. ASSUME NEW nic \in later[h]
       PROVE  \E i \in DOMAIN Wanted(s) : Index(Wanted(s), i) = nic.index /\ Guarded(nic, i)
  <2>1. PICK i \in DOMAIN Nics(s) : /\ s.assign_public_ip /\ nic.index = Index(Nics(s), i)
                                    /\ nic.groups = Get(Nics(s)[i], "groups", GroupsFor(h))
    BY <1>12
  <2>2. Wanted(s) = Nics(s)  BY <1>11, <1>13, <2>1
  <2>3. CASE Has(Wanted(s)[i], "groups")
    <3>1. /\ nic.groups = Wanted(s)[i].groups
          /\ Get(Wanted(s)[i], "groups", {}) = Wanted(s)[i].groups
      BY <2>1, <2>2, <2>3 DEF Get
    <3>2. Guarded(nic, i)  BY <2>3, <3>1
    <3>. QED BY <2>1, <2>2, <3>2
  <2>4. CASE ~Has(Wanted(s)[i], "groups")
    <3>1. nic.groups = GroupsFor(h) /\ Get(Wanted(s)[i], "groups", {}) = {}
      BY <2>1, <2>2, <2>4 DEF Get
    <3>2. Guarded(nic, i)  BY <1>1, <3>1
    <3>. QED BY <2>1, <2>2, <3>2
  <2>. QED BY <2>3, <2>4
<1>17. launched \cup attachedLater = Asked(h) /\ launched \cap attachedLater = {}
  <2>1. CASE ~s.assign_public_ip
    <3>1. later[h] = {}  BY <1>12, <2>1
    <3>2. requests[h].nics = nics  BY <1>3, <1>14, <2>1
    <3>3. launched = Indexes(Wanted(s))  BY <1>6, <1>7, <3>2 DEF Indexes
    <3>. QED BY <1>5, <3>1, <3>3
  <2>2. CASE s.assign_public_ip
    <3>1. launched = {0}  BY <1>3, <1>9, <1>14, <2>2
    <3>2. 0 \in Indexes(Wanted(s))  BY <1>6, <1>7, <1>9 DEF Indexes
    <3>3. 0 \notin attachedLater  BY <1>12
    <3>4. CASE Nics(s) # <<>>
      <4>1. Wanted(s) = Nics(s)  BY <1>11, <2>2, <3>4
      <4>2. attachedLater \subseteq Indexes(Wanted(s))  BY <1>12, <4>1 DEF Indexes
      <4>3. \A i \in DOMAIN Wanted(s) : Index(Wanted(s), i) # 0 => Index(Wanted(s), i) \in attachedLater
        BY <1>12, <2>2, <4>1
      <4>4. Indexes(Wanted(s)) \subseteq {0} \cup attachedLater  BY <4>3 DEF Indexes
      <4>. QED BY <1>5, <3>1, <3>2, <3>3, <4>2, <4>4
    <3>5. CASE Nics(s) = <<>>
      <4>1. later[h] = {}  BY <1>12, <3>5
      <4>2. Enis(s) = <<>>  BY <1>2, <2>2 DEF GoodNics, InterfacesMayBe
      <4>3. Wanted(s) = <<Nothing>>  BY <3>5, <4>2 DEF Wanted, Interfaces
      <4>. QED BY <1>5, <3>1, <4>1, <4>3, NothingIndexes
    <3>. QED BY <3>4, <3>5
  <2>. QED BY <2>1, <2>2
<1>. QED BY <1>3, <1>14, <1>15, <1>16, <1>17

\* What is launched and what is attached later are together exactly the interfaces a
\* host asked for, none twice, each with the groups it names or else those of the
\* host's plan; only one that is attached later and names an empty list has none.
THEOREM InterfacesComeUpOnce == Spec => []EveryInterfaceOnce
<1>1. IInv /\ Chosen /\ LaterAsRendered => EveryInterfaceOnce
  BY OnceOf DEF EveryInterfaceOnce
<1>. QED
  BY <1>1, InitIInv, NextIInv, InitChosen, NextChosen, InitLater, NextLater, PTL DEF Spec

-------------------------------------------------------------------------------
(* One place                                                               *)

\* The network of a specification that has passed: created with nothing of the
\* user's in it, or existing.
LEMMA NetworkParts ==
  ASSUME NEW raw, WellFormed(raw), Acceptable(raw)
  PROVE  LET s == WithRegion(Normal(raw)) IN
         /\ s.network.mode \in {"create", "existing"}
         /\ \A i \in DOMAIN Enis(s) : ~Has(Enis(s)[i], "subnet_id")
         /\ s.network.mode = "create" =>
              /\ Enis(s) = <<>> /\ \A i \in DOMAIN Nics(s) : ~Has(Nics(s)[i], "subnet_id")
              /\ ~Has(s, "subnet_id") /\ Groups(s) = {}
         /\ Get(Get(raw, "network", Nothing), "mode", "auto") = "create" => s.network.mode = "create"
         /\ \A zone : Get(s.network, "availability_zone", zone)
                      = Get(Get(raw, "network", Nothing), "availability_zone", zone)
         /\ Get(s, "existing_volumes", {}) = Get(raw, "existing_volumes", {})
         /\ \A zone : Get(s, "placement", zone) = Get(raw, "placement", zone)
<1>. DEFINE s == WithRegion(Normal(raw))
            w == WithDefaults(raw)
            solved == [mode |-> Mode(w)]
            own == IF Has(raw, "network") THEN raw.network ELSE Nothing
            old == Defaults.network
<1>1. s.network = Over(w.network, solved)  BY SettledField
<1>2. \A f : f \notin Derivations => (f \in DOMAIN s <=> f \in DOMAIN w)  BY SettledField
<1>3. \A f \in DOMAIN w : f \notin Derivations => s[f] = w[f]  BY SettledField
<1>4. DOMAIN w = DOMAIN raw \cup Defaulted  BY WithDefaultsField
<1>5. \A f \in DOMAIN raw \ {"network"} : w[f] = raw[f]  BY WithDefaultsField
<1>6. w.network = IF Has(raw, "network") THEN Over(Defaults.network, raw.network)
                  ELSE Defaults.network
  BY WithDefaultsField
<1>7. Defaulted = {"instance_type", "connection", "assign_public_ip", "connection_address",
                   "management_cidrs", "network", "key_inject_method"}
  BY DefaultFields DEF Defaulted
<1>8. DOMAIN solved = {"mode"} /\ solved.mode = Mode(w)  OBVIOUS
<1>9. DOMAIN old = {"mode", "vpc_cidr"} /\ old.mode = "auto"  BY DEF Defaults
<1>10. Get(Get(raw, "network", Nothing), "mode", "auto") \in {"auto", "create", "existing"}
  BY WellFormedParts
<1>11. NetworkMayBe(w)  BY DEF Acceptable
<1>12. Nics(s) = Nics(w) /\ Enis(s) = Enis(w)  BY SettledParts
<1>. HIDE DEF s, w, solved, own, old
<1>13. Get(raw, "network", Nothing) = own  BY DEF Get, own
<1>14. /\ DOMAIN w.network = DOMAIN old \cup DOMAIN own
       /\ \A f \in DOMAIN own : w.network[f] = own[f]
       /\ \A f \in DOMAIN old \ DOMAIN own : w.network[f] = old[f]
  <2>1. CASE Has(raw, "network")
    <3>1. w.network = Over(old, own)  BY <1>6, <2>1 DEF old, own
    <3>2. DOMAIN Over(old, own) = DOMAIN old \cup DOMAIN own  BY OverField
    <3>3. \A f \in DOMAIN own : Over(old, own)[f] = own[f]  BY OverField
    <3>4. \A f \in DOMAIN old \ DOMAIN own : Over(old, own)[f] = old[f]  BY OverField
    <3>. QED BY <3>1, <3>2, <3>3, <3>4
  <2>2. CASE ~Has(raw, "network")
    <3>1. w.network = old /\ DOMAIN own = {}  BY <1>6, <2>2 DEF old, own, Nothing
    <3>. QED BY <3>1
  <2>. QED BY <2>1, <2>2
<1>15. DOMAIN s.network = DOMAIN w.network \cup DOMAIN solved
  <2>1. DOMAIN Over(w.network, solved) = DOMAIN w.network \cup DOMAIN solved  BY OverField
  <2>. QED BY <1>1, <2>1
<1>16. \A f \in DOMAIN solved : s.network[f] = solved[f]
  <2>1. \A f \in DOMAIN solved : Over(w.network, solved)[f] = solved[f]  BY OverField
  <2>. QED BY <1>1, <2>1
<1>17. \A f \in DOMAIN w.network \ DOMAIN solved : s.network[f] = w.network[f]
  <2>1. \A f \in DOMAIN w.network \ DOMAIN solved : Over(w.network, solved)[f] = w.network[f]
    BY OverField
  <2>. QED BY <1>1, <2>1
<1>18. w.network.mode \in {"auto", "create", "existing"}
  <2>1. CASE "mode" \in DOMAIN own
    <3>1. w.network.mode = own.mode  BY <1>14, <2>1
    <3>. QED BY <1>10, <1>13, <2>1, <3>1 DEF Get, Has
  <2>2. CASE "mode" \notin DOMAIN own
    <3>1. w.network.mode = old.mode  BY <1>9, <1>14, <2>2
    <3>. QED BY <1>9, <3>1
  <2>. QED BY <2>1, <2>2
<1>19. s.network.mode = Mode(w)  BY <1>8, <1>16
<1>20. s.network.mode \in {"create", "existing"}  BY <1>18, <1>19 DEF Mode
<1>21. s.network.mode = "create" => ~References(w)  BY <1>11, <1>18, <1>19 DEF Mode, NetworkMayBe
<1>22. s.network.mode = "create" =>
         Enis(s) = <<>> /\ \A i \in DOMAIN Nics(s) : ~Has(Nics(s)[i], "subnet_id")
  BY <1>12, <1>21 DEF References, Some
<1>23. ASSUME NEW zone
       PROVE  Get(s.network, "availability_zone", zone)
              = Get(Get(raw, "network", Nothing), "availability_zone", zone)
  <2>1. "availability_zone" \in DOMAIN s.network <=> "availability_zone" \in DOMAIN own
    BY <1>8, <1>9, <1>14, <1>15
  <2>2. "availability_zone" \in DOMAIN own =>
          s.network.availability_zone = own.availability_zone
    BY <1>8, <1>14, <1>15, <1>17
  <2>. QED BY <1>13, <2>1, <2>2 DEF Get, Has
<1>24. Get(s, "existing_volumes", {}) = Get(raw, "existing_volumes", {})
  BY <1>2, <1>3, <1>4, <1>5, <1>7 DEF Get, Has, Derivations
<1>25. ASSUME NEW zone PROVE Get(s, "placement", zone) = Get(raw, "placement", zone)
  BY <1>2, <1>3, <1>4, <1>5, <1>7 DEF Get, Has, Derivations
<1>26. \A i \in DOMAIN Enis(s) : ~Has(Enis(s)[i], "subnet_id")
  <2>1. Enis(s) = Enis(raw)  BY SettledParts DEF s
  <2>2. \A i \in DOMAIN Enis(raw) : ~Has(Enis(raw)[i], "subnet_id")  BY WellFormedParts
  <2>. QED BY <2>1, <2>2
<1>27. s.network.mode = "create" => ~Has(s, "subnet_id") /\ Groups(s) = {}
  <2>1. /\ Has(s, "subnet_id") <=> Has(w, "subnet_id")
        /\ Groups(s) = Groups(w)
    BY <1>2, <1>3 DEF Has, Get, Groups, Derivations
  <2>. QED BY <1>21, <2>1 DEF References
<1>28. Get(Get(raw, "network", Nothing), "mode", "auto") = "create" => s.network.mode = "create"
  <2>1. CASE "mode" \in DOMAIN own
    <3>1. w.network.mode = own.mode  BY <1>14, <2>1
    <3>. QED BY <1>13, <1>19, <2>1, <3>1 DEF Get, Has, Mode
  <2>2. CASE "mode" \notin DOMAIN own  BY <1>13, <2>2 DEF Get, Has
  <2>. QED BY <2>1, <2>2
<1>. QED BY <1>20, <1>22, <1>23, <1>24, <1>25, <1>26, <1>27, <1>28 DEF s

\* So what the inventory asks for is what the effective specification has.
LEMMA EffectivePlace ==
  ASSUME IInv, Chosen, NEW h \in Hosts, Rendered(h)
  PROVE  LET s == Effective(h) raw == inventory[h] IN
         /\ s.network.mode \in {"create", "existing"}
         /\ \A i \in DOMAIN Enis(s) : ~Has(Enis(s)[i], "subnet_id")
         /\ s.network.mode = "create" =>
              /\ Enis(s) = <<>> /\ \A i \in DOMAIN Nics(s) : ~Has(Nics(s)[i], "subnet_id")
              /\ ~Has(s, "subnet_id") /\ Groups(s) = {}
         /\ Get(Get(raw, "network", Nothing), "mode", "auto") = "create" => s.network.mode = "create"
         /\ \A zone : Get(s.network, "availability_zone", zone)
                      = Get(Get(raw, "network", Nothing), "availability_zone", zone)
         /\ Get(s, "existing_volumes", {}) = Get(raw, "existing_volumes", {})
         /\ IsFiniteSet(Get(raw, "existing_volumes", {}))
         /\ \A zone : Get(s, "placement", zone) = Get(raw, "placement", zone)
<1>. DEFINE raw == inventory[h]
            src == Source(h)
<1>1. Effective(h) = WithRegion(Normal(src)) /\ WellFormed(src) /\ Acceptable(src)
  BY RenderedFits
<1>2. WellFormed(raw)  BY ScenarioAssumption DEF Chosen, Hosts
<1>3. /\ Get(Get(raw, "network", Nothing), "mode", "auto") \in {"auto", "create", "existing"}
      /\ IsFiniteSet(Get(raw, "existing_volumes", {}))
  BY <1>2, WellFormedParts
<1>4. /\ Get(Get(src, "network", Nothing), "mode", "auto")
         = Get(Get(raw, "network", Nothing), "mode", "auto")
      /\ Get(src, "existing_volumes", {}) = Get(raw, "existing_volumes", {})
      /\ \A zone : Get(src, "placement", zone) = Get(raw, "placement", zone)
      /\ \A zone : Get(Get(src, "network", Nothing), "availability_zone", zone)
                   = Get(Get(raw, "network", Nothing), "availability_zone", zone)
  <2>1. CASE Has(raw, "launch_template")
    <3>1. src = Templated(Normal(raw), templates[h])  BY <2>1 DEF Source
    <3>. QED BY <1>3, <2>1, <3>1, TemplatedPlace
  <2>2. CASE ~Has(raw, "launch_template")  BY <2>2 DEF Source
  <2>. QED BY <2>1, <2>2
<1>5. \A zone : Get(Effective(h).network, "availability_zone", zone)
                = Get(Get(src, "network", Nothing), "availability_zone", zone)
  BY <1>1, NetworkParts
<1>6. /\ Effective(h).network.mode \in {"create", "existing"}
      /\ \A i \in DOMAIN Enis(Effective(h)) : ~Has(Enis(Effective(h))[i], "subnet_id")
      /\ Effective(h).network.mode = "create" =>
           /\ Enis(Effective(h)) = <<>>
           /\ \A i \in DOMAIN Nics(Effective(h)) : ~Has(Nics(Effective(h))[i], "subnet_id")
           /\ ~Has(Effective(h), "subnet_id") /\ Groups(Effective(h)) = {}
      /\ Get(Get(src, "network", Nothing), "mode", "auto") = "create" =>
           Effective(h).network.mode = "create"
  BY <1>1, NetworkParts
<1>7. /\ Get(Effective(h), "existing_volumes", {}) = Get(src, "existing_volumes", {})
      /\ \A zone : Get(Effective(h), "placement", zone) = Get(src, "placement", zone)
  BY <1>1, NetworkParts
<1>. QED BY <1>3, <1>4, <1>5, <1>6, <1>7

\* A plan says what the specification says, a saved network lies in a zone that
\* suits all hosts that share it.
PlanOf(h, p) ==
  /\ p.region = Effective(h).region /\ p.mode = Effective(h).network.mode
  /\ p.subnet = IF Effective(h).network.mode = "existing" THEN Subnet(Effective(h)) ELSE NoSubnet
  /\ Has(Effective(h), "image_id") => p.image = Effective(h).image_id
  /\ Effective(h).network.mode = "existing" /\ Groups(Effective(h)) # {} =>
       p.groups = Groups(Effective(h))
Networked ==
  \A h \in Hosts : Creates(h) => run.networks[Effective(h).region] \in ZonesFor(h)
Placed ==
  /\ pc = "preflight" => \A h \in Hosts \ todo : PlanOf(h, plans[h])
  /\ run # NoRun => (\A h \in Hosts : PlanOf(h, run.plans[h])) /\ Networked

LEMMA SamePlans ==
  ASSUME UNCHANGED outside
  PROVE  /\ \A h, p : PlanOf(h, p)' <=> PlanOf(h, p')
         /\ Hosts' = Hosts /\ run' = run => (Networked' <=> Networked)
<1>1. \A h : /\ Effective(h)' = Effective(h) /\ (Creates(h)' <=> Creates(h))
             /\ ZonesFor(h)' = ZonesFor(h)
  BY SameEffective DEF Creates, ZonesFor
<1>2. Hosts' = Hosts  BY SameHosts
<1>. QED BY <1>1, <1>2 DEF PlanOf, Networked

LEMMA InitPlaced == Init => Placed
BY DEF Init, Placed

\* The first of the zones that are common is one of them.
LEMMA LeastZone ==
  ASSUME NEW zones, zones \subseteq Nat, zones # {}
  PROVE  (CHOOSE z \in zones : \A y \in zones : z <= y) \in zones
<1>1. PICK x \in zones : \A y \in zones : ~ (<<y, x>> \in OpToRel(<, Nat))
  BY WFMin, NatLessThanWellFounded
<1>2. ASSUME NEW y \in zones PROVE x <= y
  <2>1. x \in Nat /\ y \in Nat  OBVIOUS
  <2>2. <<y, x>> \notin OpToRel(<, Nat)  BY <1>1
  <2>3. ~ (y < x)  BY <2>1, <2>2 DEF OpToRel
  <2>. QED BY <2>1, <2>3
<1>3. \E z \in zones : \A y \in zones : z <= y  BY <1>2
<1>. QED BY <1>3

LEMMA PreflightPlaced == ASSUME IInv, Placed, Preflight PROVE Placed'
<1>1. UNCHANGED <<outside, run>> /\ pc = "preflight"  BY DEF Preflight, rendered
<1>2. Hosts' = Hosts /\ \A h : Effective(h)' = Effective(h)  BY <1>1, SameHosts, SameEffective
<1>3. run' # NoRun' => (\A h \in Hosts : PlanOf(h, run.plans[h]))' /\ Networked'
  BY <1>1, <1>2, SamePlans DEF Placed, PlanOf, NoRun, Nothing
<1>4. PICK h \in todo :
        LET s == WithRegion(WithTemplate(h, specs[h])) IN
        \/ plans' = [plans EXCEPT ![h] = Plan(h, s)] /\ todo' = todo \ {h}
        \/ pc' = "refused"
  BY DEF Preflight
<1>5. CASE pc' = "refused"  BY <1>3, <1>5 DEF Placed
<1>6. CASE /\ plans' = [plans EXCEPT ![h] = Plan(h, WithRegion(WithTemplate(h, specs[h])))]
           /\ todo' = todo \ {h}
  <2>1. h \in Hosts /\ specs[h] = Normal(inventory[h])  BY <1>1 DEF IInv, Shapes, InPreflight
  <2>2. WithRegion(WithTemplate(h, specs[h])) = Effective(h)  BY <2>1 DEF Effective
  <2>3. /\ plans'[h] = Plan(h, Effective(h))
        /\ \A g \in Hosts : g # h => plans'[g] = plans[g]
    BY <1>6, <2>1, <2>2 DEF IInv, Shapes
  <2>4. ASSUME NEW g \in Hosts \ todo' PROVE PlanOf(g, plans[g])'
    <3>1. CASE g = h
      <4>1. Has(Effective(h), "image_id") => Selected(h, Effective(h)) = Effective(h).image_id
        BY <2>1 DEF Selected, Placed, PlanOf
      <4>2. PlanOf(h, Plan(h, Effective(h)))  BY <4>1 DEF PlanOf, Plan
      <4>. QED BY <1>2, <2>3, <3>1, <4>2 DEF PlanOf
    <3>2. CASE g # h
      <4>1. PlanOf(g, plans[g])  BY <1>1, <1>6, <2>4, <3>2 DEF Placed
      <4>. QED BY <1>2, <2>3, <3>2, <4>1 DEF PlanOf
    <3>. QED BY <3>1, <3>2
  <2>. QED BY <1>2, <1>3, <2>4 DEF Placed
<1>. QED BY <1>4, <1>5, <1>6

\* The networks are planned from the zones of all hosts that share them.
LEMMA PlannedNetworks ==
  ASSUME \A h \in Hosts : specs[h] = Effective(h) /\ plans[h].zones = EligibleZones(Effective(h)),
         NetworkPlanMayBe, NEW h \in Hosts, Creates(h)
  PROVE  NetworkPlan[Effective(h).region] \in ZonesFor(h)
<1>. DEFINE region == Effective(h).region
            zones == CommonZones(region)
<1>1. region \in Regions /\ h \in Managed(region)  BY DEF Regions, Managed, Creates
<1>2. zones # {}  BY <1>1 DEF NetworkPlanMayBe
<1>3. \A z \in zones : z \in HostZones(h)  BY <1>1 DEF CommonZones
<1>4. HostZones(h) = ZonesFor(h)  BY DEF HostZones, ZonesFor
<1>5. ZonesFor(h) \subseteq Nat  BY RequestAssumption DEF ZonesFor, EligibleZones, Offered
<1>6. NetworkPlan[region] = CHOOSE z \in zones : \A y \in zones : z <= y  BY <1>1 DEF NetworkPlan
<1>. HIDE DEF zones
<1>7. NetworkPlan[region] \in zones  BY <1>2, <1>3, <1>4, <1>5, <1>6, LeastZone
<1>. QED BY <1>3, <1>4, <1>7

LEMMA SaveRunPlaced == ASSUME IInv, Placed, SaveRun PROVE Placed'
<1>1. UNCHANGED <<outside, play>> /\ pc = "preflight" /\ todo = {} /\ pc' # "preflight"
  BY DEF SaveRun
<1>2. Hosts' = Hosts /\ \A h : Effective(h)' = Effective(h)  BY <1>1, SameHosts, SameEffective
<1>3. CASE run' = run
  <2>1. run' # NoRun' => (\A h \in Hosts : PlanOf(h, run.plans[h]))' /\ Networked'
    BY <1>1, <1>2, <1>3, SamePlans DEF Placed, PlanOf, NoRun, Nothing
  <2>. QED BY <1>1, <2>1 DEF Placed
<1>4. CASE run' # run
  <2>1. NetworkPlanMayBe /\ run' = [plans |-> plans, networks |-> NetworkPlan]  BY <1>4 DEF SaveRun
  <2>2. \A h \in Hosts : specs[h] = Effective(h) /\ plans[h].zones = EligibleZones(Effective(h))
    BY <1>1 DEF IInv, InPreflight
  <2>3. \A h \in Hosts : PlanOf(h, plans[h])  BY <1>1 DEF Placed
  <2>4. run'.plans = plans /\ run'.networks = NetworkPlan  BY <2>1
  <2>5. \A h \in Hosts : Creates(h) => NetworkPlan[Effective(h).region] \in ZonesFor(h)
    BY <2>1, <2>2, PlannedNetworks
  <2>6. \A h : (Creates(h)' <=> Creates(h)) /\ ZonesFor(h)' = ZonesFor(h)
    BY <1>2 DEF Creates, ZonesFor
  <2>7. Networked'  BY <1>2, <2>4, <2>5, <2>6 DEF Networked
  <2>8. (\A h \in Hosts : PlanOf(h, run.plans[h]))'  BY <1>2, <2>3, <2>4 DEF PlanOf
  <2>. QED BY <1>1, <2>7, <2>8 DEF Placed
<1>. QED BY <1>3, <1>4

LEMMA LaunchPlaced == ASSUME IInv, Placed, Launch PROVE Placed'
<1>1. UNCHANGED outside /\ pc = "launch" /\ run # NoRun /\ pc' # "preflight"
  BY DEF Launch, IInv, InLaunch, HostComesUp, HostIsCutShort, PlayEnds
<1>2. Hosts' = Hosts /\ \A h : Effective(h)' = Effective(h)  BY <1>1, SameHosts, SameEffective
<1>3. IsRun  BY <1>1 DEF IInv, SavedFits
<1>. DEFINE Given(h) == IF run.plans[h].groups = {} THEN {ManagedGroup(h)} ELSE run.plans[h].groups
<1>4. PICK h \in todo : run' \in {run, [run EXCEPT !.plans[h].groups = Given(h)]}
  BY DEF Launch, rendered
<1>. DEFINE groups == Given(h)
<1>. HIDE DEF groups
<1>5. h \in Hosts  BY DEF IInv, Shapes
<1>6. run'.networks = run.networks  BY <1>3, <1>4 DEF IsRun
<1>7. ASSUME NEW g \in Hosts
      PROVE  /\ run'.plans[g].region = run.plans[g].region
             /\ run'.plans[g].mode = run.plans[g].mode
             /\ run'.plans[g].subnet = run.plans[g].subnet
             /\ run'.plans[g].image = run.plans[g].image
             /\ run.plans[g].groups # {} => run'.plans[g].groups = run.plans[g].groups
  <2>1. CASE run' = run  BY <2>1
  <2>2. CASE run' # run
    <3>1. /\ run' = [run EXCEPT !.plans[h].groups = groups]
          /\ run.plans[h].groups # {} => groups = run.plans[h].groups
      BY <1>4, <2>2 DEF groups
    <3>2. /\ g # h => run'.plans[g] = run.plans[g]
          /\ run'.plans[h] = [run.plans[h] EXCEPT !.groups = groups]
      BY <1>3, <1>5, <3>1 DEF IsRun
    <3>3. CASE g # h  BY <3>2, <3>3
    <3>4. CASE g = h
      <4>1. IsPlan(run.plans[h])  BY <1>3, <1>5 DEF IsRun
      <4>2. /\ run'.plans[h].region = run.plans[h].region
            /\ run'.plans[h].mode = run.plans[h].mode
            /\ run'.plans[h].subnet = run.plans[h].subnet
            /\ run'.plans[h].image = run.plans[h].image
        BY <3>2, <4>1 DEF IsPlan
      <4>3. run'.plans[h].groups = groups  BY <3>2, <4>1 DEF IsPlan
      <4>. QED BY <3>1, <3>4, <4>2, <4>3
    <3>. QED BY <3>3, <3>4
  <2>. QED BY <2>1, <2>2
<1>8. (\A g \in Hosts : PlanOf(g, run.plans[g]))'
  <2>1. ASSUME NEW g \in Hosts PROVE PlanOf(g, run.plans[g])'
    <3>1. PlanOf(g, run.plans[g])  BY <1>1 DEF Placed
    <3>. QED BY <1>2, <1>7, <3>1 DEF PlanOf
  <2>. QED BY <1>2, <2>1
<1>9. Networked'
  <2>1. \A g : (Creates(g)' <=> Creates(g)) /\ ZonesFor(g)' = ZonesFor(g)
    BY <1>2 DEF Creates, ZonesFor
  <2>. QED BY <1>1, <1>2, <1>6, <2>1 DEF Placed, Networked
<1>. QED BY <1>1, <1>8, <1>9 DEF Placed

LEMMA NextPlaced == ASSUME IInv, Placed, [Next]_vars PROVE Placed'
<1>1. CASE Begin \/ Stop \/ Publish \/ UNCHANGED vars
  <2>1. UNCHANGED <<outside, run>>  BY <1>1 DEF Begin, Stop, Publish, vars, rendered
  <2>2. Hosts' = Hosts /\ \A h : Effective(h)' = Effective(h)  BY <2>1, SameHosts, SameEffective
  <2>3. run' # NoRun' => (\A h \in Hosts : PlanOf(h, run.plans[h]))' /\ Networked'
    BY <2>1, <2>2, SamePlans DEF Placed, PlanOf, NoRun, Nothing
  <2>4. pc' = "preflight" => todo' = Hosts \/ UNCHANGED <<pc, todo, plans>>
    BY <1>1 DEF Begin, Stop, PlayEnds, Publish, vars, play
  <2>5. pc' = "preflight" => (\A h \in Hosts \ todo : PlanOf(h, plans[h]))'
    <3>1. CASE todo' = Hosts  BY <2>2, <3>1
    <3>2. CASE UNCHANGED <<pc, todo, plans>>  BY <2>2, <3>2 DEF Placed, PlanOf
    <3>. QED BY <2>4, <3>1, <3>2
  <2>. QED BY <2>3, <2>5 DEF Placed
<1>. QED BY <1>1, PreflightPlaced, SaveRunPlaced, LaunchPlaced DEF Next

\* The subnet of an interface that is generated.
LEMMA InterfacePlace ==
  ASSUME NEW s, NEW i, NEW subnet, NEW groups, ~Has(Wanted(s)[i], "id")
  PROVE  Interface(s, i, subnet, groups).subnet = Get(Wanted(s)[i], "subnet_id", subnet)
BY DEF Interface

LEMMA RenderedType == ASSUME NEW h PROVE Rendering(h).type = Effective(h).instance_type
BY DEF Rendering, Request

\* Where all the disks are.
LEMMA DisksTogether ==
  ASSUME NEW disks, IsFiniteSet(disks),
         Cardinality({DiskZone[d] : d \in disks}) <= 1, NEW c \in disks
  PROVE  \A d \in disks : DiskZone[d] = DiskZone[c]
<1>. DEFINE zones == {DiskZone[d] : d \in disks}
            zone == [d \in disks |-> DiskZone[d]]
<1>1. IsFiniteSet(zones)
  <2>1. zone \in Surjection(disks, zones)  BY DEF Surjection
  <2>. QED BY <2>1, FS_Surjection DEF ExistsSurjection
<1>2. IsFiniteSet({DiskZone[c]}) /\ Cardinality({DiskZone[c]}) = 1  BY FS_Singleton
<1>3. {DiskZone[c]} \in SUBSET zones  OBVIOUS
<1>4. Cardinality(zones) <= 1  OBVIOUS
<1>. HIDE DEF zones
<1>5. Cardinality(zones) \in Nat /\ Cardinality({DiskZone[c]}) <= Cardinality(zones)
  BY <1>1, <1>3, FS_CardinalityType, FS_Subset
<1>6. Cardinality({DiskZone[c]}) = Cardinality(zones)  BY <1>2, <1>4, <1>5
<1>7. zones = {DiskZone[c]}  BY <1>1, <1>3, <1>6, FS_Subset
<1>. QED BY <1>7 DEF zones

\* A zone where everything meets.
Suits(h, zone) ==
  LET s == Effective(h) IN
  /\ zone \in Offered(s.instance_type)
  /\ \A d \in Get(s, "existing_volumes", {}) : DiskZone[d] = zone
  /\ zone = Get(s, "placement", zone)
  /\ s.network.mode = "create" => /\ zone = Get(s.network, "availability_zone", zone)
                                 /\ run.networks[s.region] = zone
  /\ s.network.mode = "existing" =>
       /\ SubnetZone[Subnet(s)] = zone
       /\ \A i \in DOMAIN Enis(s) : SubnetZone[EniSubnet[Enis(s)[i].id]] = zone
       /\ \A i \in DOMAIN Nics(s) :
            Has(Nics(s)[i], "subnet_id") => SubnetZone[Nics(s)[i].subnet_id] = zone

LEMMA CreatedZone ==
  ASSUME IInv, Chosen, Placed, NEW h \in Hosts, Rendered(h), Creates(h)
  PROVE  Suits(h, run.networks[Effective(h).region])
<1>. DEFINE s == Effective(h)
            zone == run.networks[s.region]
            disks == Get(s, "existing_volumes", {})
            zones == {DiskZone[d] : d \in disks}
<1>1. run # NoRun /\ Fit(h, run.plans[h].image)  BY RenderedFits DEF IInv, Repeated, Rendered
<1>2. zone \in ZonesFor(h)  BY <1>1 DEF Placed, Networked
<1>3. /\ zone \in EligibleZones(s)
      /\ zone = Get(s.network, "availability_zone", zone) /\ zone = Get(s, "placement", zone)
  BY <1>2 DEF ZonesFor
<1>4. zone \in IF zones = {} THEN Offered(s.instance_type)
               ELSE zones \cap Offered(s.instance_type)
  BY <1>3 DEF EligibleZones, DiskIds
<1>5. Cardinality(zones) <= 1  BY <1>1 DEF Fit, DisksMayBeThere, DiskIds
<1>6. IsFiniteSet(disks)  BY EffectivePlace
<1>7. s.network.mode = "create"  BY DEF Creates
<1>. HIDE DEF zone, s, disks
<1>8. \A d \in disks : DiskZone[d] = zone
  <2>1. CASE zones = {}  BY <2>1
  <2>2. CASE zones # {}
    <3>1. PICK c \in disks : DiskZone[c] = zone  BY <1>4, <2>2
    <3>. QED BY <1>5, <1>6, <3>1, DisksTogether
  <2>. QED BY <2>1, <2>2
<1>9. zone \in Offered(s.instance_type)  BY <1>4
<1>. QED BY <1>3, <1>7, <1>8, <1>9 DEF Suits, zone, s, disks

LEMMA ExistingZone ==
  ASSUME IInv, Chosen, NEW h \in Hosts, Rendered(h), Effective(h).network.mode = "existing"
  PROVE  Suits(h, SubnetZone[Subnet(Effective(h))])
<1>. DEFINE s == Effective(h)
            zone == SubnetZone[Subnet(s)]
<1>1. Fit(h, run.plans[h].image)  BY RenderedFits
<1>2. ExistingMayBe(s) /\ DisksMayBeThere(s)  BY <1>1 DEF Fit
<1>3. /\ zone \in Offered(s.instance_type) /\ zone = Get(s, "placement", zone)
      /\ \A i \in DOMAIN Enis(s) : SubnetZone[EniSubnet[Enis(s)[i].id]] = zone
      /\ \A i \in DOMAIN Nics(s) :
           Has(Nics(s)[i], "subnet_id") => SubnetZone[Nics(s)[i].subnet_id] = zone
  BY <1>2 DEF ExistingMayBe, Placement, Some
<1>4. \A d \in Get(s, "existing_volumes", {}) : DiskZone[d] = zone
  BY <1>2 DEF DisksMayBeThere, DiskIds
<1>. QED BY <1>3, <1>4 DEF Suits

\* What a launch asks for is in the zone that suits.
LEMMA PlaceOf ==
  ASSUME IInv, Chosen, LaterAsRendered, Placed, NEW h \in Hosts, Rendered(h)
  PROVE  LET raw == inventory[h]
             r == requests[h]
             guest == run.plans[h]
             Meets(subnet, zone) ==
               IF guest.mode = "create"
               THEN subnet = ManagedSubnet(guest.region) /\ run.networks[guest.region] = zone
               ELSE SubnetZone[subnet] = zone
         IN \E zone \in Offered(r.type) :
              /\ \A nic \in r.nics :
                   IF nic.delete THEN Meets(nic.subnet, zone) ELSE SubnetZone[EniSubnet[nic.id]] = zone
              /\ \A nic \in later[h] : Meets(nic.subnet, zone)
              /\ \A d \in Get(raw, "existing_volumes", {}) : DiskZone[d] = zone
              /\ zone = Get(raw, "placement", zone)
              /\ \/ r.placement \subseteq {zone}
                 \/ ~Has(raw, "placement") /\ r.placement = {templates[h].Placement}
              /\ guest.mode = "create" =>
                   zone = Get(Get(raw, "network", Nothing), "availability_zone", zone)
<1>. DEFINE raw == inventory[h]
            r == requests[h]
            guest == run.plans[h]
            s == Effective(h)
            Meets(subnet, zone) ==
              IF guest.mode = "create"
              THEN subnet = ManagedSubnet(guest.region) /\ run.networks[guest.region] = zone
              ELSE SubnetZone[subnet] = zone
<1>1. r = Rendering(h)  BY RenderedFits
<1>2. GoodNics(s)  BY RenderedFits, EffectiveNics
<1>3. r.type = s.instance_type  BY <1>1, RenderedType
<1>4. r.nics \subseteq NicsFor(h)
  <2>1. r.nics = Launched(s, NicsFor(h))  BY <1>1, RenderingField
  <2>. QED BY <2>1 DEF Launched
<1>5. later[h] = AttachedLater(s, SubnetFor(h), GroupsFor(h))  BY DEF LaterAsRendered
<1>6. /\ guest.region = s.region /\ guest.mode = s.network.mode
      /\ guest.subnet = IF s.network.mode = "existing" THEN Subnet(s) ELSE NoSubnet
  BY DEF Placed, PlanOf, IInv, Repeated, Rendered
<1>7. /\ s.network.mode \in {"create", "existing"}
      /\ \A i \in DOMAIN Enis(s) : ~Has(Enis(s)[i], "subnet_id")
      /\ s.network.mode = "create" =>
           Enis(s) = <<>> /\ \A i \in DOMAIN Nics(s) : ~Has(Nics(s)[i], "subnet_id")
  BY EffectivePlace
<1>8. /\ \A zone : Get(s.network, "availability_zone", zone)
                   = Get(Get(raw, "network", Nothing), "availability_zone", zone)
      /\ \A zone : Get(s, "placement", zone) = Get(raw, "placement", zone)
  BY EffectivePlace
<1>9. Get(s, "existing_volumes", {}) = Get(raw, "existing_volumes", {})  BY EffectivePlace
<1>10. PICK zone : Suits(h, zone)
  <2>1. CASE s.network.mode = "create"  BY <2>1, CreatedZone DEF Creates
  <2>2. CASE s.network.mode = "existing"  BY <2>2, ExistingZone
  <2>. QED BY <1>7, <2>1, <2>2
<1>11. Meets(SubnetFor(h), zone)
  BY <1>6, <1>7, <1>10 DEF SubnetFor, Suits
<1>12. ASSUME NEW i \in DOMAIN Nics(s)
       PROVE  Meets(Get(Nics(s)[i], "subnet_id", SubnetFor(h)), zone)
  <2>1. CASE ~Has(Nics(s)[i], "subnet_id")  BY <1>11, <2>1 DEF Get
  <2>2. CASE Has(Nics(s)[i], "subnet_id")
    <3>1. s.network.mode = "existing"  BY <1>7, <2>2
    <3>2. SubnetZone[Nics(s)[i].subnet_id] = zone  BY <1>10, <2>2, <3>1 DEF Suits
    <3>. QED BY <1>6, <2>2, <3>1, <3>2 DEF Get
  <2>. QED BY <2>1, <2>2
<1>13. \A nic \in later[h] : Meets(nic.subnet, zone)
  <2>1. ASSUME NEW nic \in later[h]
        PROVE  \E i \in DOMAIN Nics(s) : nic.subnet = Get(Nics(s)[i], "subnet_id", SubnetFor(h))
    BY <1>5, <2>1 DEF AttachedLater
  <2>. QED BY <1>12, <2>1
<1>14. ASSUME NEW nic \in r.nics
       PROVE  IF nic.delete THEN Meets(nic.subnet, zone) ELSE SubnetZone[EniSubnet[nic.id]] = zone
  <2>. DEFINE own == Wanted(s)
  <2>1. PICK i \in DOMAIN own : nic = Interface(s, i, SubnetFor(h), GroupsFor(h))
    BY <1>4 DEF NicsFor
  <2>2. (own = Enis(s) /\ Enis(s) # <<>>) \/ own = Nics(s) \/ own = <<Nothing>>
    BY DEF Wanted, Interfaces
  <2>. HIDE DEF own, s, r
  <2>3. CASE Has(own[i], "id")
    <3>1. nic.id = own[i].id /\ nic.delete = FALSE
      <4>1. nic.id = own[i].id  BY <2>1, <2>3, InterfaceOwned DEF own
      <4>2. nic.delete = FALSE  BY <2>1, <2>3, InterfaceOwned DEF own
      <4>. QED BY <4>1, <4>2
    <3>2. own = Enis(s) /\ Enis(s) # <<>>  BY <1>2, <2>2, <2>3 DEF GoodNics, Has, Nothing
    <3>3. s.network.mode = "existing"  BY <1>7, <2>2, <3>2
    <3>4. SubnetZone[EniSubnet[own[i].id]] = zone  BY <1>10, <2>1, <3>2, <3>3 DEF Suits, s
    <3>. QED BY <3>1, <3>4
  <2>4. CASE ~Has(own[i], "id")
    <3>1. nic.delete = TRUE  BY <2>1, <2>4, InterfaceGenerated DEF own
    <3>2. nic.subnet = Get(own[i], "subnet_id", SubnetFor(h))  BY <2>1, <2>4, InterfacePlace DEF own
    <3>3. Meets(Get(own[i], "subnet_id", SubnetFor(h)), zone)
      <4>1. CASE own = Nics(s)  BY <1>12, <2>1, <4>1
      <4>2. CASE own # Nics(s)
        <5>1. ~Has(own[i], "subnet_id")  BY <1>7, <2>1, <2>2, <4>2 DEF Has, Nothing
        <5>. QED BY <1>11, <5>1 DEF Get
      <4>. QED BY <4>1, <4>2
    <3>. QED BY <3>1, <3>2, <3>3
  <2>. QED BY <2>3, <2>4
<1>. HIDE DEF Meets
<1>15. /\ \A d \in Get(raw, "existing_volumes", {}) : DiskZone[d] = zone
       /\ zone = Get(raw, "placement", zone) /\ zone \in Offered(r.type)
       /\ guest.mode = "create" =>
            zone = Get(Get(raw, "network", Nothing), "availability_zone", zone)
  BY <1>3, <1>6, <1>8, <1>9, <1>10 DEF Suits
<1>16. \/ r.placement \subseteq {zone}
       \/ ~Has(raw, "placement") /\ r.placement = {templates[h].Placement}
  <2>1. r.placement = Pinned(s, templates[h])  BY <1>1, RenderingField
  <2>2. CASE Has(s, "placement")
    <3>1. zone = s.placement  BY <1>8, <1>15, <2>2 DEF Get
    <3>. QED BY <2>1, <2>2, <3>1 DEF Pinned
  <2>3. CASE ~Has(s, "placement")
    <3>1. Get(raw, "placement", 0) = 0 /\ Get(raw, "placement", 1) = 1  BY <1>8, <2>3 DEF Get
    <3>2. ~Has(raw, "placement")  BY <3>1 DEF Get
    <3>. QED BY <2>1, <2>3, <3>2 DEF Pinned
  <2>. QED BY <2>2, <2>3
<1>. QED BY <1>13, <1>14, <1>15, <1>16 DEF Meets

\* Every guest, its interfaces, the network it shares and the disks it references
\* are in one zone, where its type is offered and which the inventory allows; the
\* request pins that zone or none, unless only the template pins one.
THEOREM RequestsInOnePlace == Spec => []OnePlace
<1>1. IInv /\ Chosen /\ LaterAsRendered /\ Placed => OnePlace  BY PlaceOf DEF OnePlace
<1>. QED
  BY <1>1, InitIInv, NextIInv, InitChosen, NextChosen, InitLater, NextLater, InitPlaced, NextPlaced,
     PTL DEF Spec

-------------------------------------------------------------------------------
(* Precedence                                                              *)

LEMMA DerivedData ==
  ASSUME NEW s, NEW t
  PROVE  LET d == Derived(s, t) x == Explicit(s) IN
         /\ Has(t, "ImageId") /\ ~Has(x, "image_name") => Has(d, "image_id") /\ d.image_id = t.ImageId
         /\ Has(t, "UserData") /\ ~Get(Get(x, "cloud_init", Nothing), "enabled", FALSE) =>
              Has(d, "user_data") /\ d.user_data = t.UserData
<1>. DEFINE d == Derived(s, t)
            x == Explicit(s)
            v == TemplateValues(s, t)
<1>1. /\ DOMAIN d = TemplateFields(s, t)
      /\ \A f \in TemplateFields(s, t) : d[f] = v[f]
  BY DerivedForm
<1>2. v.image_id = Get(t, "ImageId", 0) /\ v.user_data = Get(t, "UserData", NoData)
  BY DEF TemplateValues
<1>3. Has(t, "ImageId") /\ ~Has(x, "image_name") => "image_id" \in TemplateFields(s, t)
  BY DEF TemplateFields
<1>4. Has(t, "UserData") /\ ~Get(Get(x, "cloud_init", Nothing), "enabled", FALSE)
      => "user_data" \in TemplateFields(s, t)
  BY DEF TemplateFields
<1>. HIDE DEF d, x, v
<1>5. Has(t, "ImageId") /\ ~Has(x, "image_name") => Has(d, "image_id") /\ d.image_id = t.ImageId
  BY <1>1, <1>2, <1>3 DEF Get, Has
<1>6. Has(t, "UserData") /\ ~Get(Get(x, "cloud_init", Nothing), "enabled", FALSE)
      => Has(d, "user_data") /\ d.user_data = t.UserData
  BY <1>1, <1>2, <1>4 DEF Get, Has
<1>. QED BY <1>5, <1>6 DEF d, x

\* The effective specification has the fields of the inventory, then those that the
\* template derives.
LEMMA Inherited ==
  ASSUME IInv, Chosen, NEW h \in Hosts, Rendered(h)
  PROVE  LET raw == inventory[h]
             t == templates[h]
             s == Effective(h)
             d == Derived(Normal(raw), t)
         IN
         /\ \A f \in DOMAIN raw \ Derivations : Has(s, f) /\ s[f] = raw[f]
         /\ Has(raw, "launch_template") =>
              \A f \in (DOMAIN d \ DOMAIN raw) \ Derivations : Has(s, f) /\ s[f] = d[f]
         /\ \A f : f \notin DOMAIN raw \cup TemplateSpeaksFor \cup Defaulted \cup Derivations => ~Has(s, f)
         /\ \A f : (/\ f \notin DOMAIN raw \cup Defaulted \cup Derivations
                    /\ Has(raw, "launch_template") => f \notin DOMAIN d)
                  => ~Has(s, f)
         /\ (/\ ~Has(raw, "assign_public_ip")
             /\ Has(raw, "launch_template") => ~Has(d, "assign_public_ip"))
            => s.assign_public_ip = TRUE
         /\ Typed(raw) /\ IF Has(raw, "launch_template") THEN WellFormedTemplate(t) ELSE t = Nothing
<1>. DEFINE raw == inventory[h]
            t == templates[h]
            s == Effective(h)
            src == Source(h)
            w == WithDefaults(src)
            d == Derived(Normal(raw), t)
<1>1. s = WithRegion(Normal(src))  BY RenderedFits
<1>2. \A f : f \notin Derivations => (f \in DOMAIN s <=> f \in DOMAIN w)  BY <1>1, SettledField
<1>3. \A f \in DOMAIN w : f \notin Derivations => s[f] = w[f]  BY <1>1, SettledField
<1>4. DOMAIN w = DOMAIN src \cup Defaulted  BY WithDefaultsField
<1>5. \A f \in DOMAIN src \ {"network"} : w[f] = src[f]  BY WithDefaultsField
<1>6. Typed(raw) /\ IF Has(raw, "launch_template") THEN WellFormedTemplate(t) ELSE t = Nothing
  BY ScenarioAssumption DEF Chosen, Hosts
<1>7. Has(raw, "launch_template") =>
        /\ DOMAIN src = DOMAIN d \cup DOMAIN raw
        /\ \A f \in DOMAIN raw : f \notin Derivations \ {"region"} => src[f] = raw[f]
        /\ \A f \in DOMAIN d : f \notin DOMAIN raw => src[f] = d[f]
        /\ DOMAIN d \subseteq TemplateSpeaksFor
  <2>1. CASE Has(raw, "launch_template")
    <3>. DEFINE templated == Templated(Normal(raw), t)
    <3>1. src = templated  BY <2>1 DEF Source
    <3>2. DOMAIN templated = DOMAIN d \cup DOMAIN raw  BY <2>1, TemplatedField
    <3>3. \A f \in DOMAIN raw : f \notin Derivations \ {"region"} => templated[f] = raw[f]
      BY <2>1, TemplatedField
    <3>4. \A f \in DOMAIN d : f \notin DOMAIN raw => templated[f] = d[f]  BY <2>1, TemplatedField
    <3>5. DOMAIN d \subseteq TemplateSpeaksFor  BY DerivedField
    <3>. HIDE DEF templated, src, d, raw
    <3>. QED BY <3>1, <3>2, <3>3, <3>4, <3>5
  <2>. QED BY <2>1
<1>8. ~Has(raw, "launch_template") => src = raw  BY DEF Source
<1>. HIDE DEF raw, t, s, src, w, d
<1>9. "network" \in Derivations  BY DEF Derivations
<1>10. DOMAIN raw \subseteq DOMAIN src /\ \A f \in DOMAIN raw \ Derivations : src[f] = raw[f]
  BY <1>7, <1>8
<1>11. \A f \in DOMAIN raw \ Derivations : Has(s, f) /\ s[f] = raw[f]
  BY <1>2, <1>3, <1>4, <1>5, <1>9, <1>10 DEF Has
<1>12. Has(raw, "launch_template") =>
         \A f \in (DOMAIN d \ DOMAIN raw) \ Derivations : Has(s, f) /\ s[f] = d[f]
  BY <1>2, <1>3, <1>4, <1>5, <1>7, <1>9 DEF Has
<1>13. \A f : f \notin DOMAIN raw \cup TemplateSpeaksFor \cup Defaulted \cup Derivations => ~Has(s, f)
  BY <1>2, <1>4, <1>7, <1>8 DEF Has
<1>14. \A f : (/\ f \notin DOMAIN raw \cup Defaulted \cup Derivations
               /\ Has(raw, "launch_template") => f \notin DOMAIN d)
              => ~Has(s, f)
  BY <1>2, <1>4, <1>7, <1>8 DEF Has
<1>15. ASSUME ~Has(raw, "assign_public_ip"),
              Has(raw, "launch_template") => ~Has(d, "assign_public_ip")
       PROVE  s.assign_public_ip = TRUE
  <2>1. ~Has(src, "assign_public_ip")  BY <1>7, <1>8, <1>15 DEF Has
  <2>2. w.assign_public_ip = TRUE  BY <2>1, WithDefaultsField DEF w
  <2>3. "assign_public_ip" \in DOMAIN w  BY <1>4, DefaultFields DEF Defaulted
  <2>. QED BY <1>3, <2>2, <2>3 DEF Derivations
<1>16. (/\ ~Has(raw, "assign_public_ip")
        /\ Has(raw, "launch_template") => ~Has(d, "assign_public_ip"))
       => s.assign_public_ip = TRUE
  BY <1>15
<1>. QED BY <1>6, <1>11, <1>12, <1>13, <1>14, <1>16 DEF raw, t, s, d

\* What a template's interface has once the inventory has overridden it.
LEMMA OverriddenParts ==
  ASSUME NEW nic, NEW x
  PROVE  LET o == Overridden(nic, x) IN
         /\ Has(x, "subnet_id") /\ nic.device_index = 0 =>
              Has(o, "subnet_id") /\ o.subnet_id = x.subnet_id
         /\ ~Has(x, "subnet_id") =>
              /\ Has(o, "subnet_id") <=> Has(nic, "subnet_id")
              /\ Has(o, "subnet_id") => o.subnet_id = nic.subnet_id
         /\ Has(x, "security_groups") => ~Has(o, "groups")
         /\ ~Has(x, "security_groups") =>
              /\ Has(o, "groups") <=> Has(nic, "groups")
              /\ Has(o, "groups") => o.groups = nic.groups
<1>. DEFINE given == [subnet_id |-> x.subnet_id]
            placed == IF Has(x, "subnet_id") /\ nic.device_index = 0
                      THEN Over(nic, given) ELSE nic
            o == Overridden(nic, x)
<1>1. o = IF Has(x, "security_groups") THEN Without(placed, "groups") ELSE placed
  BY DEF Overridden
<1>2. DOMAIN given = {"subnet_id"} /\ given.subnet_id = x.subnet_id  OBVIOUS
<1>3. /\ DOMAIN Without(placed, "groups") = DOMAIN placed \ {"groups"}
      /\ \A f \in DOMAIN placed \ {"groups"} : Without(placed, "groups")[f] = placed[f]
  BY DEF Without
<1>. HIDE DEF given
<1>4. /\ DOMAIN Over(nic, given) = DOMAIN nic \cup DOMAIN given
      /\ \A f \in DOMAIN given : Over(nic, given)[f] = given[f]
      /\ \A f \in DOMAIN nic \ DOMAIN given : Over(nic, given)[f] = nic[f]
  BY OverField
<1>5. Has(x, "subnet_id") /\ nic.device_index = 0 =>
        Has(placed, "subnet_id") /\ placed.subnet_id = x.subnet_id
  BY <1>2, <1>4 DEF Has
<1>6. ~Has(x, "subnet_id") => placed = nic  OBVIOUS
<1>9. /\ Has(placed, "groups") <=> Has(nic, "groups")
      /\ Has(placed, "groups") => placed.groups = nic.groups
  BY <1>2, <1>4 DEF Has
<1>. HIDE DEF placed, o
<1>7. (Has(o, "subnet_id") <=> Has(placed, "subnet_id"))
      /\ (Has(o, "subnet_id") => o.subnet_id = placed.subnet_id)
  BY <1>1, <1>3 DEF Has
<1>8. Has(x, "security_groups") => ~Has(o, "groups")  BY <1>1, <1>3 DEF Has
<1>10. ~Has(x, "security_groups") =>
         /\ Has(o, "groups") <=> Has(nic, "groups")
         /\ Has(o, "groups") => o.groups = nic.groups
  BY <1>1, <1>9
<1>. QED BY <1>5, <1>6, <1>7, <1>8, <1>10 DEF o

\* Where the inventory is silent about interfaces: none, those of the template that
\* exist, or those that it generates, overridden.
LEMMA SilentParts ==
  ASSUME IInv, Chosen, NEW h \in Hosts, Rendered(h),
         ~Has(inventory[h], "network_interfaces"), ~Has(inventory[h], "network_interfaces_ids")
  PROVE  LET s == Effective(h)
             raw == inventory[h]
             list == TemplateNics(templates[h])
             own == Wanted(s)
         IN
         \/ own = <<Nothing>> /\ list = <<>> /\ Nics(s) = <<>>
         \/ (\A i \in DOMAIN own : Has(own[i], "id")) /\ Nics(s) = <<>>
         \/ /\ own = Nics(s) /\ DOMAIN own = DOMAIN list /\ Has(raw, "launch_template")
            /\ Generated(templates[h])
            /\ \A i \in DOMAIN own : own[i] = Overridden(Converted(list, i), Explicit(Normal(raw)))
<1>. DEFINE raw == inventory[h]
            t == templates[h]
            s == Effective(h)
            src == Source(h)
            list == TemplateNics(t)
            own == Wanted(s)
            x == Explicit(Normal(raw))
<1>1. s = WithRegion(Normal(src))  BY RenderedFits
<1>2. Nics(s) = Nics(src) /\ Enis(s) = Enis(src)  BY <1>1, SettledParts
<1>3. IF Has(raw, "launch_template") THEN WellFormedTemplate(t) ELSE t = Nothing  BY Inherited
<1>4. own = IF Enis(s) # <<>> THEN Enis(s) ELSE IF Nics(s) # <<>> THEN Nics(s) ELSE <<Nothing>>
  BY DEF Wanted, Interfaces
<1>5. DOMAIN <<>> = {}  OBVIOUS
<1>6. CASE ~Has(raw, "launch_template")
  <2>1. src = raw /\ t = Nothing  BY <1>3, <1>6 DEF Source
  <2>2. Nics(raw) = <<>> /\ Enis(raw) = <<>>  BY DEF Nics, Enis, Get
  <2>3. list = <<>>  BY <2>1 DEF TemplateNics, Get, Has, Nothing
  <2>. QED BY <1>2, <1>4, <2>1, <2>2, <2>3
<1>7. CASE Has(raw, "launch_template")
  <2>1. src = Templated(Normal(raw), t)  BY <1>7 DEF Source
  <2>2. Nics(src) = IF Generated(t) THEN TemplateInterfaces(t, x) ELSE <<>>
    BY <1>7, <2>1, TemplatedLists
  <2>3. Enis(src) = IF Some(list, Existing) THEN TemplateEnis(t) ELSE <<>>
    BY <1>7, <2>1, TemplatedLists
  <2>4. IsList(list)  BY <1>3, <1>7 DEF WellFormedTemplate
  <2>5. list = <<>> <=> DOMAIN list = {}  BY <2>4, EmptyList
  <2>6. Some(list, Existing) => list # <<>>  BY <1>5 DEF Some
  <2>7. Generated(t) <=> list # <<>> /\ ~Some(list, Existing)  BY DEF Generated
  <2>8. DOMAIN x = DOMAIN raw  BY <1>7, ExplicitField
  <2>9. ~Has(x, "network_interfaces") /\ ~Has(x, "network_interfaces_ids")  BY <2>8 DEF Has
  <2>10. /\ DOMAIN TemplateInterfaces(t, x) = DOMAIN list
         /\ \A i \in DOMAIN list : TemplateInterfaces(t, x)[i] = Overridden(Converted(list, i), x)
    BY <2>9 DEF TemplateInterfaces
  <2>11. /\ DOMAIN TemplateEnis(t) = DOMAIN list
         /\ \A i \in DOMAIN list : Has(TemplateEnis(t)[i], "id")
    BY DEF TemplateEnis, Has
  <2>. HIDE DEF raw, t, s, src, list, own, x
  <2>12. CASE list = <<>>
    <3>1. Nics(s) = <<>> /\ Enis(s) = <<>>  BY <1>2, <2>2, <2>3, <2>6, <2>7, <2>12
    <3>. QED BY <1>4, <2>12, <3>1 DEF raw, t, s, list, own, x
  <2>13. CASE list # <<>> /\ Some(list, Existing)
    <3>1. Enis(s) = TemplateEnis(t) /\ Nics(s) = <<>>  BY <1>2, <2>2, <2>3, <2>7, <2>13
    <3>2. Enis(s) # <<>>  BY <1>5, <2>5, <2>11, <2>13, <3>1
    <3>3. own = TemplateEnis(t)  BY <1>4, <3>1, <3>2
    <3>. QED BY <2>11, <3>1, <3>3 DEF raw, t, s, list, own, x
  <2>14. CASE list # <<>> /\ ~Some(list, Existing)
    <3>1. Nics(s) = TemplateInterfaces(t, x) /\ Enis(s) = <<>>  BY <1>2, <2>2, <2>3, <2>7, <2>14
    <3>2. Nics(s) # <<>>  BY <1>5, <2>5, <2>10, <2>14, <3>1
    <3>3. own = Nics(s)  BY <1>4, <3>1, <3>2
    <3>. QED BY <1>7, <2>7, <2>10, <2>14, <3>1, <3>3 DEF raw, t, s, list, own, x
  <2>. QED BY <2>12, <2>13, <2>14
<1>. QED BY <1>6, <1>7

LEMMA RenderedImage == ASSUME NEW h PROVE Rendering(h).image = run.plans[h].image
BY DEF Rendering, Request

\* What a plan and a request have of an effective specification.
LEMMA PlannedParts ==
  ASSUME IInv, Chosen, Placed, NEW h \in Hosts, Rendered(h)
  PROVE  LET s == Effective(h) r == requests[h] guest == run.plans[h] IN
         /\ PlanOf(h, guest) /\ GoodNics(s) /\ guest.groups # {}
         /\ r.image = guest.image /\ r.type = s.instance_type
         /\ r.data = CloudData(s, PublicKey) /\ r.disks = Disks(s, templates[h])
         /\ r.key = IF KeyFor(h) # "" THEN KeyFor(h) ELSE Get(templates[h], "KeyName", "")
         /\ r.nics = Launched(s, NicsFor(h)) /\ r.nics \subseteq NicsFor(h)
<1>1. requests[h] = Rendering(h) /\ run.plans[h].groups # {}  BY RenderedFits
<1>2. GoodNics(Effective(h))  BY RenderedFits, EffectiveNics
<1>3. PlanOf(h, run.plans[h])  BY DEF Placed, IInv, Repeated, Rendered
<1>4. requests[h].image = run.plans[h].image  BY <1>1, RenderedImage
<1>5. requests[h].type = Effective(h).instance_type  BY <1>1, RenderedType
<1>6. /\ requests[h].data = CloudData(Effective(h), PublicKey)
      /\ requests[h].disks = Disks(Effective(h), templates[h])
      /\ requests[h].nics = Launched(Effective(h), NicsFor(h))
  BY <1>1, RenderingField
<1>7. requests[h].key = IF KeyFor(h) # "" THEN KeyFor(h) ELSE Get(templates[h], "KeyName", "")
  BY <1>1, RenderingField
<1>8. requests[h].nics \subseteq NicsFor(h)  BY <1>6 DEF Launched
<1>. QED BY <1>1, <1>2, <1>3, <1>4, <1>5, <1>6, <1>7, <1>8

\* Image and instance type.
LEMMA ComputePrecedence ==
  ASSUME IInv, Chosen, Placed, NEW h \in Hosts, Rendered(h)
  PROVE  LET raw == inventory[h] t == templates[h] r == requests[h] IN
         /\ r.image = Get(raw, "image_id", IF Has(raw, "image_name") THEN r.image
                                           ELSE Get(t, "ImageId", r.image))
         /\ r.type = Get(raw, "instance_type", Get(t, "InstanceType", r.type))
<1>. DEFINE raw == inventory[h]
            t == templates[h]
            r == requests[h]
            s == Effective(h)
            d == Derived(Normal(raw), t)
            x == Explicit(Normal(raw))
<1>1. \A f \in DOMAIN raw \ Derivations : Has(s, f) /\ s[f] = raw[f]  BY Inherited
<1>2. Has(raw, "launch_template") =>
        \A f \in (DOMAIN d \ DOMAIN raw) \ Derivations : Has(s, f) /\ s[f] = d[f]
  BY Inherited
<1>3. ~Has(raw, "launch_template") => t = Nothing  BY Inherited
<1>4. r.image = run.plans[h].image /\ r.type = s.instance_type  BY PlannedParts
<1>5. Has(s, "image_id") => r.image = s.image_id  BY <1>4, PlannedParts DEF PlanOf
<1>6. Has(raw, "launch_template") => DOMAIN x = DOMAIN raw  BY ExplicitField
<1>7. Has(t, "ImageId") /\ ~Has(x, "image_name") => Has(d, "image_id") /\ d.image_id = t.ImageId
  BY DerivedData
<1>8. /\ "instance_type" \in DOMAIN d
      /\ d.instance_type = Get(t, "InstanceType", Normal(raw).instance_type)
  BY DerivedField
<1>. HIDE DEF raw, t, r, s, d, x
<1>9. ASSUME ~Has(raw, "image_id"), ~Has(raw, "image_name"), Has(t, "ImageId")
      PROVE  r.image = t.ImageId
  <2>1. Has(raw, "launch_template")  BY <1>3, <1>9 DEF Has, Nothing
  <2>2. Has(d, "image_id") /\ d.image_id = t.ImageId  BY <1>6, <1>7, <1>9, <2>1 DEF Has
  <2>. QED BY <1>2, <1>5, <1>9, <2>1, <2>2 DEF Has, Derivations
<1>10. Has(raw, "image_id") => r.image = raw.image_id  BY <1>1, <1>5 DEF Has, Derivations
<1>11. Has(raw, "instance_type") => r.type = raw.instance_type
  BY <1>1, <1>4 DEF Has, Derivations
<1>12. ASSUME ~Has(raw, "instance_type"), Has(t, "InstanceType")
       PROVE  r.type = t.InstanceType
  <2>1. Has(raw, "launch_template")  BY <1>3, <1>12 DEF Has, Nothing
  <2>. QED BY <1>2, <1>4, <1>8, <1>12, <2>1 DEF Has, Get, Derivations
<1>13. r.image = Get(raw, "image_id", IF Has(raw, "image_name") THEN r.image
                                      ELSE Get(t, "ImageId", r.image))
  BY <1>9, <1>10 DEF Get
<1>14. r.type = Get(raw, "instance_type", Get(t, "InstanceType", r.type))
  BY <1>11, <1>12 DEF Get
<1>. QED BY <1>13, <1>14 DEF raw, t, r

\* Root disk.
LEMMA DiskPrecedence ==
  ASSUME IInv, Chosen, Placed, NEW h \in Hosts, Rendered(h),
         Has(Get(inventory[h], "root_disk", Nothing), "size")
  PROVE  requests[h].disks[1].size = inventory[h].root_disk.size
<1>. DEFINE raw == inventory[h]
            s == Effective(h)
            others == [i \in DOMAIN Volumes(s) |-> Over([delete |-> TRUE], Volumes(s)[i])]
            root == [device |-> "root", delete |-> TRUE, size |-> Get(Root(s), "size", 0)]
<1>1. \A f \in DOMAIN raw \ Derivations : Has(s, f) /\ s[f] = raw[f]  BY Inherited
<1>2. \A f : f \notin DOMAIN raw \cup TemplateSpeaksFor \cup Defaulted \cup Derivations => ~Has(s, f)
  BY Inherited
<1>3. Defaulted = {"instance_type", "connection", "assign_public_ip", "connection_address",
                   "management_cidrs", "network", "key_inject_method"}
  BY DefaultFields DEF Defaulted
<1>4. Has(raw, "root_disk") /\ Has(raw.root_disk, "size")  BY DEF Get, Has, Nothing
<1>5. IsList(Volumes(raw))  BY Inherited DEF Typed
<1>6. requests[h].disks = Disks(s, templates[h])  BY PlannedParts
<1>7. Root(s) # Nothing /\ root.size = raw.root_disk.size
  BY <1>1, <1>4 DEF Root, Get, Has, Nothing, Derivations
<1>8. Volumes(s) = Volumes(raw)
  BY <1>1, <1>2, <1>3 DEF Volumes, Get, Has, Derivations, TemplateSpeaksFor
<1>9. Disks(s, templates[h]) = <<root>> \o others  BY <1>7 DEF Disks
<1>10. PICK n \in Nat : DOMAIN others = 1..n  BY <1>5, <1>8 DEF IsList
<1>11. others = [i \in 1..n |-> others[i]]  BY <1>10
<1>. HIDE DEF others, root
<1>12. others \in Seq({others[i] : i \in 1..n})  BY <1>11
<1>13. (<<root>> \o others)[1] = root  BY <1>12
<1>. QED BY <1>6, <1>7, <1>9, <1>13

\* The primary interface that is launched is the one with index zero.
LEMMA PrimaryParts ==
  ASSUME IInv, Chosen, Placed, NEW h \in Hosts, Rendered(h)
  PROVE  LET s == Effective(h)
             primary == CHOOSE nic \in requests[h].nics : nic.index = 0
         IN \E i \in DOMAIN Wanted(s) :
              Index(Wanted(s), i) = 0 /\ primary = Interface(s, i, SubnetFor(h), GroupsFor(h))
<1>. DEFINE s == Effective(h)
            nics == NicsFor(h)
            launched == Launched(s, nics)
            primary == CHOOSE nic \in launched : nic.index = 0
<1>1. GoodNics(s) /\ requests[h].nics = launched  BY PlannedParts
<1>2. /\ \A nic \in nics : nic.public => s.assign_public_ip
      /\ IsFiniteSet(nics) /\ \E p \in nics : {nic \in nics : nic.index = 0} = {p}
  BY <1>1, NicsParts
<1>3. PICK p \in nics : {nic \in nics : nic.index = 0} = {p}  BY <1>2
<1>4. {nic \in launched : nic.index = 0} = {p}  BY <1>2, <1>3, LaunchedSet
<1>5. PICK i \in DOMAIN Wanted(s) : p = Interface(s, i, SubnetFor(h), GroupsFor(h))
  BY DEF NicsFor
<1>. HIDE DEF launched, nics
<1>6. p \in launched /\ p.index = 0 /\ \A nic \in launched : nic.index = 0 => nic = p  BY <1>4
<1>7. primary = p  BY <1>6
<1>8. p.index = Index(Wanted(s), i)  BY <1>5, InterfaceIndex
<1>. QED BY <1>1, <1>5, <1>6, <1>7, <1>8

\* Where the inventory is silent about interfaces, a primary that is generated is one
\* that nothing is said of, or the template's primary, overridden.
LEMMA SilentPrimary ==
  ASSUME IInv, Chosen, Placed, NEW h \in Hosts, Rendered(h),
         ~Has(inventory[h], "network_interfaces"), ~Has(inventory[h], "network_interfaces_ids"),
         (CHOOSE nic \in requests[h].nics : nic.index = 0).delete
  PROVE  LET raw == inventory[h]
             t == templates[h]
             s == Effective(h)
             list == TemplateNics(t)
             own == Wanted(s)
             primary == CHOOSE nic \in requests[h].nics : nic.index = 0
         IN \E i \in DOMAIN own :
              /\ ~Has(own[i], "id") /\ primary = Interface(s, i, SubnetFor(h), GroupsFor(h))
              /\ \/ own[i] = Nothing /\ list = <<>> /\ Primary(list) = Nothing
                 \/ /\ Has(raw, "launch_template") /\ Generated(t) /\ Primary(list) = list[i]
                    /\ i \in DOMAIN list /\ Converted(list, i).device_index = 0
                    /\ own[i] = Overridden(Converted(list, i), Explicit(Normal(raw)))
<1>. DEFINE raw == inventory[h]
            t == templates[h]
            s == Effective(h)
            list == TemplateNics(t)
            own == Wanted(s)
            x == Explicit(Normal(raw))
            primary == CHOOSE nic \in requests[h].nics : nic.index = 0
<1>1. PICK i \in DOMAIN own :
        Index(own, i) = 0 /\ primary = Interface(s, i, SubnetFor(h), GroupsFor(h))
  BY PrimaryParts
<1>2. ~Has(own[i], "id")
  <2>1. Has(own[i], "id") => primary.delete = FALSE  BY <1>1, InterfaceOwned
  <2>. QED BY <2>1
<1>3. \/ own = <<Nothing>> /\ list = <<>> /\ Nics(s) = <<>>
      \/ (\A j \in DOMAIN own : Has(own[j], "id")) /\ Nics(s) = <<>>
      \/ /\ own = Nics(s) /\ DOMAIN own = DOMAIN list /\ Has(raw, "launch_template")
         /\ Generated(t)
         /\ \A j \in DOMAIN own : own[j] = Overridden(Converted(list, j), x)
  BY SilentParts
<1>4. /\ \E n \in Nat : DOMAIN own = 1..n
      /\ \A j, k \in DOMAIN own : j # k => Index(own, j) # Index(own, k)
  <2>1. GoodNics(s)  BY PlannedParts
  <2>. QED BY <2>1, WantedParts
<1>. HIDE DEF raw, t, s, list, own, x, primary
<1>5. CASE own = <<Nothing>> /\ list = <<>>
  <2>1. i = 1 /\ own[i] = Nothing  BY <1>5
  <2>2. Primary(list) = Nothing  BY <1>5 DEF Primary
  <2>. QED BY <1>1, <1>2, <1>5, <2>1, <2>2 DEF raw, t, s, list, own, x, primary
<1>6. CASE /\ own = Nics(s) /\ DOMAIN own = DOMAIN list /\ Has(raw, "launch_template")
           /\ Generated(t)
           /\ \A j \in DOMAIN own : own[j] = Overridden(Converted(list, j), x)
  <2>. DEFINE c(j) == Converted(list, j)
              o(j) == Overridden(c(j), x)
  <2>1. ASSUME NEW j \in DOMAIN own
        PROVE  Index(own, j) = TemplateIndex(list, j) /\ c(j).device_index = TemplateIndex(list, j)
    <3>1. Has(c(j), "device_index") /\ c(j).device_index = TemplateIndex(list, j)
      BY ConvertedField
    <3>2. Has(o(j), "device_index") /\ o(j).device_index = c(j).device_index
      BY <3>1, OverriddenField DEF Has
    <3>3. own[j] = o(j)  BY <1>6
    <3>. HIDE DEF o, c
    <3>. QED BY <3>1, <3>2, <3>3 DEF Index, Get
  <2>2. own[i] = o(i) /\ c(i).device_index = 0  BY <1>1, <1>6, <2>1
  <2>. HIDE DEF c
  <2>3. {j \in DOMAIN list : TemplateIndex(list, j) = 0} = {i}  BY <1>1, <1>4, <1>6, <2>1
  <2>4. i <= i  BY <1>4
  <2>5. Primary(list) = list[i]
    <3>1. (CHOOSE j \in {i} : \A k \in {i} : j <= k) = i  BY <2>4
    <3>. QED BY <2>3, <3>1 DEF Primary
  <2>. QED BY <1>1, <1>2, <1>6, <2>2, <2>5 DEF raw, t, s, list, own, x, primary, c
<1>. QED BY <1>2, <1>3, <1>5, <1>6

\* What a template says of addresses and networks is derived from it.
LEMMA DerivedNetwork ==
  ASSUME NEW s, NEW t
  PROVE  LET d == Derived(s, t) IN
         /\ Has(t, "SubnetId") => Has(d, "subnet_id") /\ d.subnet_id = t.SubnetId
         /\ TemplateGroups(t) # {} =>
              Has(d, "security_groups") /\ d.security_groups = TemplateGroups(t)
         /\ Has(d, "assign_public_ip") => d.assign_public_ip = TemplateAddress(t)
         /\ ~Has(d, "assign_public_ip") => TemplateAddress(t) = TRUE
<1>. DEFINE d == Derived(s, t)
            v == TemplateValues(s, t)
            fields == TemplateFields(s, t)
            existing == Some(TemplateNics(t), Existing)
            public == Has(TemplatePrimary(t), "AssociatePublicIpAddress")
<1>1. DOMAIN d = fields /\ \A f \in fields : d[f] = v[f]  BY DerivedForm
<1>2. /\ v.subnet_id = Get(t, "SubnetId", NoSubnet) /\ v.security_groups = TemplateGroups(t)
      /\ v.assign_public_ip = Get(TemplatePrimary(t), "AssociatePublicIpAddress", FALSE)
  BY DEF TemplateValues
<1>3. /\ Has(t, "SubnetId") => "subnet_id" \in fields
      /\ TemplateGroups(t) # {} => "security_groups" \in fields
      /\ existing \/ public => "assign_public_ip" \in fields
  BY DEF TemplateFields
<1>4. "assign_public_ip" \in fields => existing \/ public  BY DEF TemplateFields
<1>5. existing => TemplatePrimary(t) = Nothing  BY DEF TemplatePrimary, Generated
<1>6. Has(t, "SubnetId") => Get(t, "SubnetId", NoSubnet) = t.SubnetId  BY DEF Get
<1>7. TemplateAddress(t) =
        IF existing THEN FALSE ELSE Get(TemplatePrimary(t), "AssociatePublicIpAddress", TRUE)
  BY DEF TemplateAddress
<1>8. ~Has(Nothing, "AssociatePublicIpAddress")  BY DEF Has, Nothing
<1>. HIDE DEF d, v, fields, existing
<1>9. ASSUME Has(d, "assign_public_ip") PROVE d.assign_public_ip = TemplateAddress(t)
  <2>1. d.assign_public_ip = Get(TemplatePrimary(t), "AssociatePublicIpAddress", FALSE)
    BY <1>1, <1>2, <1>9 DEF Has
  <2>2. CASE existing  BY <1>5, <1>7, <1>8, <2>1, <2>2 DEF Get
  <2>3. CASE ~existing
    <3>1. public  BY <1>1, <1>4, <1>9, <2>3 DEF Has
    <3>. QED BY <1>7, <2>1, <2>3, <3>1 DEF Get
  <2>. QED BY <2>2, <2>3
<1>10. ASSUME ~Has(d, "assign_public_ip") PROVE TemplateAddress(t) = TRUE
  <2>1. ~existing /\ ~public  BY <1>1, <1>3, <1>10 DEF Has
  <2>. QED BY <1>7, <2>1 DEF Get
<1>. QED BY <1>1, <1>2, <1>3, <1>6, <1>9, <1>10 DEF Has, d

\* A template's address is yes or no.
LEMMA AddressIsBoolean ==
  ASSUME NEW t, WellFormedTemplate(t)
  PROVE  TemplateAddress(t) \in BOOLEAN
<1>. DEFINE nics == TemplateNics(t)
            first == {i \in DOMAIN nics : TemplateIndex(nics, i) = 0}
            least == CHOOSE i \in first : \A j \in first : i <= j
<1>1. IsList(nics)  BY DEF WellFormedTemplate
<1>2. \A i \in DOMAIN nics : Get(nics[i], "AssociatePublicIpAddress", TRUE) \in BOOLEAN
  BY DEF WellFormedTemplate, Some
<1>3. Primary(nics) = IF first = {} THEN Nothing ELSE nics[least]  BY DEF Primary
<1>4. first \subseteq DOMAIN nics  OBVIOUS
<1>5. ASSUME first # {} PROVE least \in first
  <2>1. first \subseteq Nat  BY <1>1 DEF IsList
  <2>. HIDE DEF first
  <2>. QED BY <1>5, <2>1, LeastZone
<1>. HIDE DEF least, first, nics
<1>6. Get(Nothing, "AssociatePublicIpAddress", TRUE) = TRUE  BY DEF Get, Has, Nothing
<1>7. Get(Primary(nics), "AssociatePublicIpAddress", TRUE) \in BOOLEAN
  BY <1>2, <1>3, <1>4, <1>5, <1>6
<1>. QED BY <1>6, <1>7 DEF TemplateAddress, TemplatePrimary, nics

\* The address of the primary interface.
LEMMA AddressPrecedence ==
  ASSUME IInv, Chosen, Placed, NEW h \in Hosts, Rendered(h),
         (CHOOSE nic \in requests[h].nics : nic.index = 0).delete
  PROVE  (CHOOSE nic \in requests[h].nics : nic.index = 0).public
           = Get(inventory[h], "assign_public_ip", TemplateAddress(templates[h]))
<1>. DEFINE raw == inventory[h]
            t == templates[h]
            s == Effective(h)
            d == Derived(Normal(raw), t)
            own == Wanted(s)
            primary == CHOOSE nic \in requests[h].nics : nic.index = 0
<1>1. PICK i \in DOMAIN own :
        Index(own, i) = 0 /\ primary = Interface(s, i, SubnetFor(h), GroupsFor(h))
  BY PrimaryParts
<1>2. ~Has(own[i], "id")
  <2>1. Has(own[i], "id") => primary.delete = FALSE  BY <1>1, InterfaceOwned
  <2>. QED BY <2>1
<1>3. primary.public = (Index(own, i) = 0 /\ s.assign_public_ip)
  <2>. DEFINE nic == Interface(s, i, SubnetFor(h), GroupsFor(h))
  <2>1. ~Has(own[i], "id") => nic.public = (Index(own, i) = 0 /\ s.assign_public_ip)
    BY InterfacePublic
  <2>2. primary = nic  BY <1>1
  <2>. HIDE DEF nic, primary
  <2>. QED BY <1>2, <2>1, <2>2, Zenon
<1>4. \A f \in DOMAIN raw \ Derivations : Has(s, f) /\ s[f] = raw[f]  BY Inherited
<1>5. Has(raw, "launch_template") =>
        \A f \in (DOMAIN d \ DOMAIN raw) \ Derivations : Has(s, f) /\ s[f] = d[f]
  BY Inherited
<1>6. (/\ ~Has(raw, "assign_public_ip")
       /\ Has(raw, "launch_template") => ~Has(d, "assign_public_ip"))
      => s.assign_public_ip = TRUE
  BY Inherited
<1>7. IF Has(raw, "launch_template") THEN WellFormedTemplate(t) ELSE t = Nothing  BY Inherited
<1>8. Has(raw, "assign_public_ip") => raw.assign_public_ip \in BOOLEAN
  <2>1. Get(raw, "assign_public_ip", TRUE) \in BOOLEAN  BY Inherited DEF Typed
  <2>. QED BY <2>1 DEF Get
<1>9. /\ Has(d, "assign_public_ip") => d.assign_public_ip = TemplateAddress(t)
      /\ ~Has(d, "assign_public_ip") => TemplateAddress(t) = TRUE
  BY DerivedNetwork
<1>10. Has(raw, "launch_template") => TemplateAddress(t) \in BOOLEAN  BY <1>7, AddressIsBoolean
<1>11. ~Has(raw, "launch_template") => TemplateAddress(t) = TRUE
  <2>1. DOMAIN <<>> = {}  OBVIOUS
  <2>2. TemplateNics(Nothing) = <<>>  BY DEF TemplateNics, Get, Has, Nothing
  <2>3. ~Some(TemplateNics(Nothing), Existing) /\ TemplatePrimary(Nothing) = Nothing
    BY <2>1, <2>2 DEF Some, TemplatePrimary, Generated
  <2>4. TemplateAddress(Nothing) = TRUE
    BY <2>3 DEF TemplateAddress, Get, Has, Nothing
  <2>. QED BY <1>7, <2>4
<1>. HIDE DEF raw, t, s, d, own, primary
<1>12. s.assign_public_ip = Get(raw, "assign_public_ip", TemplateAddress(t))
  <2>1. CASE Has(raw, "assign_public_ip")  BY <1>4, <2>1 DEF Get, Has, Derivations
  <2>2. CASE ~Has(raw, "assign_public_ip")
    <3>1. CASE Has(raw, "launch_template") /\ Has(d, "assign_public_ip")
      BY <1>5, <1>9, <2>2, <3>1 DEF Get, Has, Derivations
    <3>2. CASE ~(Has(raw, "launch_template") /\ Has(d, "assign_public_ip"))
      BY <1>6, <1>9, <1>11, <2>2, <3>2 DEF Get
    <3>. QED BY <3>1, <3>2
  <2>. QED BY <2>1, <2>2
<1>13. Get(raw, "assign_public_ip", TemplateAddress(t)) \in BOOLEAN
  BY <1>8, <1>10, <1>11 DEF Get
<1>14. primary.public = s.assign_public_ip  BY <1>1, <1>3, <1>12, <1>13
<1>. QED BY <1>12, <1>14 DEF raw, t, primary

\* The network of a host whose inventory or template names it.
LEMMA NamedNetwork ==
  ASSUME IInv, Chosen, Placed, NEW h \in Hosts, Rendered(h)
  PROVE  LET raw == inventory[h] t == templates[h] IN
         /\ Has(raw, "subnet_id") => SubnetFor(h) = raw.subnet_id
         /\ ~Has(raw, "subnet_id") /\ Has(t, "SubnetId") => SubnetFor(h) = t.SubnetId
         /\ ~Has(raw, "security_groups") /\ TemplateGroups(t) # {} =>
              GroupsFor(h) = TemplateGroups(t)
<1>. DEFINE raw == inventory[h]
            t == templates[h]
            s == Effective(h)
            d == Derived(Normal(raw), t)
<1>1. \A f \in DOMAIN raw \ Derivations : Has(s, f) /\ s[f] = raw[f]  BY Inherited
<1>2. Has(raw, "launch_template") =>
        \A f \in (DOMAIN d \ DOMAIN raw) \ Derivations : Has(s, f) /\ s[f] = d[f]
  BY Inherited
<1>3. ~Has(raw, "launch_template") => t = Nothing  BY Inherited
<1>4. /\ Has(t, "SubnetId") => Has(d, "subnet_id") /\ d.subnet_id = t.SubnetId
      /\ TemplateGroups(t) # {} => Has(d, "security_groups") /\ d.security_groups = TemplateGroups(t)
  BY DerivedNetwork
<1>5. /\ s.network.mode \in {"create", "existing"}
      /\ s.network.mode = "create" => ~Has(s, "subnet_id") /\ Groups(s) = {}
  BY EffectivePlace
<1>6. PlanOf(h, run.plans[h])  BY PlannedParts
<1>7. TemplateGroups(Nothing) = {} /\ ~Has(Nothing, "SubnetId")
  <2>1. \A f : ~Has(Nothing, f)  BY DEF Has, Nothing
  <2>2. TemplateNics(Nothing) = <<>>  BY <2>1 DEF TemplateNics, Get
  <2>3. TemplatePrimary(Nothing) = Nothing  BY <2>2 DEF TemplatePrimary, Generated
  <2>. QED BY <2>1, <2>3 DEF TemplateGroups, Get
<1>8. ASSUME Has(s, "subnet_id") PROVE SubnetFor(h) = s.subnet_id
  <2>1. s.network.mode = "existing"  BY <1>5, <1>8
  <2>2. SubnetFor(h) = Subnet(s)  BY <1>6, <2>1 DEF SubnetFor, PlanOf
  <2>. QED BY <1>8, <2>2 DEF Subnet
<1>9. ASSUME Groups(s) # {} PROVE GroupsFor(h) = Groups(s)
  <2>1. s.network.mode = "existing"  BY <1>5, <1>9
  <2>. QED BY <1>6, <1>9, <2>1 DEF GroupsFor, PlanOf
<1>. HIDE DEF raw, t, s, d
<1>10. Has(raw, "subnet_id") => SubnetFor(h) = raw.subnet_id
  BY <1>1, <1>8 DEF Has, Derivations
<1>11. ~Has(raw, "subnet_id") /\ Has(t, "SubnetId") => SubnetFor(h) = t.SubnetId
  BY <1>2, <1>3, <1>4, <1>7, <1>8 DEF Has, Derivations
<1>12. ASSUME ~Has(raw, "security_groups"), TemplateGroups(t) # {}
       PROVE  GroupsFor(h) = TemplateGroups(t)
  <2>1. Has(s, "security_groups") /\ s.security_groups = TemplateGroups(t)
    BY <1>2, <1>3, <1>4, <1>7, <1>12 DEF Has, Derivations
  <2>2. Groups(s) = TemplateGroups(t)  BY <2>1 DEF Groups, Get
  <2>. QED BY <1>9, <1>12, <2>2
<1>. QED BY <1>10, <1>11, <1>12 DEF raw, t

\* The subnet and the groups of the primary interface, of which the inventory says
\* nothing itself.
LEMMA PrimaryPrecedence ==
  ASSUME IInv, Chosen, Placed, NEW h \in Hosts, Rendered(h),
         ~Has(inventory[h], "network_interfaces"), ~Has(inventory[h], "network_interfaces_ids"),
         (CHOOSE nic \in requests[h].nics : nic.index = 0).delete
  PROVE  LET raw == inventory[h]
             t == templates[h]
             primary == CHOOSE nic \in requests[h].nics : nic.index = 0
         IN /\ Has(raw, "subnet_id") => primary.subnet = raw.subnet_id
            /\ ~Has(raw, "subnet_id") =>
                 primary.subnet = Get(Primary(TemplateNics(t)), "SubnetId",
                                      Get(t, "SubnetId", primary.subnet))
            /\ ~Has(raw, "security_groups") /\ TemplateGroups(t) # {} =>
                 primary.groups = TemplateGroups(t)
<1>. DEFINE raw == inventory[h]
            t == templates[h]
            s == Effective(h)
            list == TemplateNics(t)
            own == Wanted(s)
            x == Explicit(Normal(raw))
            primary == CHOOSE nic \in requests[h].nics : nic.index = 0
<1>1. PICK i \in DOMAIN own :
        /\ ~Has(own[i], "id") /\ primary = Interface(s, i, SubnetFor(h), GroupsFor(h))
        /\ \/ own[i] = Nothing /\ list = <<>> /\ Primary(list) = Nothing
           \/ /\ Has(raw, "launch_template") /\ Generated(t) /\ Primary(list) = list[i]
              /\ i \in DOMAIN list /\ Converted(list, i).device_index = 0
              /\ own[i] = Overridden(Converted(list, i), x)
  BY SilentPrimary
<1>2. primary.subnet = Get(own[i], "subnet_id", SubnetFor(h))
  <2>. DEFINE nic == Interface(s, i, SubnetFor(h), GroupsFor(h))
  <2>1. ~Has(own[i], "id") => nic.subnet = Get(own[i], "subnet_id", SubnetFor(h))
    BY InterfacePlace
  <2>2. primary = nic /\ ~Has(own[i], "id")  BY <1>1
  <2>. HIDE DEF nic, primary, own
  <2>. QED BY <2>1, <2>2
<1>3. primary.groups = IF Get(own[i], "groups", {}) # {} THEN own[i].groups ELSE GroupsFor(h)
  <2>. DEFINE nic == Interface(s, i, SubnetFor(h), GroupsFor(h))
  <2>1. ~Has(own[i], "id") =>
          nic.groups = IF Get(own[i], "groups", {}) # {} THEN own[i].groups ELSE GroupsFor(h)
    BY InterfaceGroups
  <2>2. primary = nic /\ ~Has(own[i], "id")  BY <1>1
  <2>. HIDE DEF nic, primary, own
  <2>. QED BY <2>1, <2>2
<1>4. /\ Has(raw, "subnet_id") => SubnetFor(h) = raw.subnet_id
      /\ ~Has(raw, "subnet_id") /\ Has(t, "SubnetId") => SubnetFor(h) = t.SubnetId
      /\ ~Has(raw, "security_groups") /\ TemplateGroups(t) # {} => GroupsFor(h) = TemplateGroups(t)
  BY NamedNetwork
<1>5. Has(raw, "launch_template") =>
        /\ Has(x, "subnet_id") <=> Has(raw, "subnet_id")
        /\ Has(x, "subnet_id") => x.subnet_id = raw.subnet_id
        /\ Has(x, "security_groups") <=> Has(raw, "security_groups")
  <2>1. Has(raw, "launch_template") =>
          DOMAIN x = DOMAIN raw
          /\ \A f \in DOMAIN raw : f \notin Derivations \ {"region"} => x[f] = raw[f]
    BY ExplicitField
  <2>. QED BY <2>1 DEF Has, Derivations
<1>6. Generated(t) =>
        TemplateGroups(t) = IF Get(Primary(list), "Groups", {}) # {}
                            THEN Get(Primary(list), "Groups", {}) ELSE Get(t, "SecurityGroupIds", {})
  BY DEF TemplateGroups, TemplatePrimary
<1>. DEFINE c == Converted(list, i)
            o == Overridden(c, x)
<1>7. /\ Has(x, "subnet_id") /\ c.device_index = 0 =>
           Has(o, "subnet_id") /\ o.subnet_id = x.subnet_id
      /\ ~Has(x, "subnet_id") =>
           /\ Has(o, "subnet_id") <=> Has(c, "subnet_id")
           /\ Has(o, "subnet_id") => o.subnet_id = c.subnet_id
      /\ ~Has(x, "security_groups") =>
           /\ Has(o, "groups") <=> Has(c, "groups")
           /\ Has(o, "groups") => o.groups = c.groups
  BY OverriddenParts
<1>8. /\ Has(c, "subnet_id") <=> Has(list[i], "SubnetId")
      /\ Has(c, "subnet_id") => c.subnet_id = list[i].SubnetId
      /\ Has(c, "groups") <=> Has(list[i], "Groups")
      /\ Has(c, "groups") => c.groups = list[i].Groups
  BY ConvertedField
<1>. HIDE DEF raw, t, s, list, own, x, primary, c, o
<1>9. CASE own[i] = Nothing /\ Primary(list) = Nothing
  <2>1. \A f : ~Has(Nothing, f)  BY DEF Has, Nothing
  <2>2. primary.subnet = SubnetFor(h) /\ primary.groups = GroupsFor(h)
    BY <1>2, <1>3, <1>9, <2>1 DEF Get
  <2>. QED BY <1>4, <1>9, <2>1, <2>2 DEF Get, raw, t, list, primary
<1>10. CASE /\ Has(raw, "launch_template") /\ Generated(t) /\ Primary(list) = list[i]
            /\ c.device_index = 0 /\ own[i] = o
  <2>1. Has(raw, "subnet_id") => primary.subnet = raw.subnet_id
    BY <1>2, <1>5, <1>7, <1>10 DEF Get
  <2>2. ASSUME ~Has(raw, "subnet_id")
        PROVE  primary.subnet = Get(Primary(list), "SubnetId", Get(t, "SubnetId", primary.subnet))
    <3>1. CASE Has(list[i], "SubnetId")
      BY <1>2, <1>5, <1>7, <1>8, <1>10, <2>2, <3>1 DEF Get
    <3>2. CASE ~Has(list[i], "SubnetId")
      <4>1. primary.subnet = SubnetFor(h)  BY <1>2, <1>5, <1>7, <1>8, <1>10, <2>2, <3>2 DEF Get
      <4>. QED BY <1>4, <1>10, <2>2, <3>2, <4>1 DEF Get
    <3>. QED BY <3>1, <3>2
  <2>3. ASSUME ~Has(raw, "security_groups"), TemplateGroups(t) # {}
        PROVE  primary.groups = TemplateGroups(t)
    <3>1. Get(own[i], "groups", {}) = Get(list[i], "Groups", {})
      BY <1>5, <1>7, <1>8, <1>10, <2>3 DEF Get
    <3>2. CASE Get(list[i], "Groups", {}) # {}
      <4>1. own[i].groups = Get(own[i], "groups", {})  BY <3>1, <3>2 DEF Get
      <4>. QED BY <1>3, <1>6, <1>10, <3>1, <3>2, <4>1
    <3>3. CASE Get(list[i], "Groups", {}) = {}  BY <1>3, <1>4, <2>3, <3>1, <3>3
    <3>. QED BY <3>2, <3>3
  <2>. QED BY <2>1, <2>2, <2>3 DEF raw, t, list, primary
<1>. QED BY <1>1, <1>9, <1>10 DEF c, o

\* What is generated for a host comes from one of the interfaces it wants.
LEMMA GeneratedParts ==
  ASSUME IInv, Chosen, LaterAsRendered, Placed, NEW h \in Hosts, Rendered(h),
         NEW nic \in requests[h].nics \cup later[h], nic.delete
  PROVE  LET s == Effective(h) own == Wanted(s) list == Nics(s) IN
         \/ \E i \in DOMAIN own :
              /\ ~Has(own[i], "id")
              /\ nic.subnet = Get(own[i], "subnet_id", SubnetFor(h))
              /\ nic.groups = IF Get(own[i], "groups", {}) # {} THEN own[i].groups ELSE GroupsFor(h)
         \/ \E i \in DOMAIN list :
              /\ nic.subnet = Get(list[i], "subnet_id", SubnetFor(h))
              /\ nic.groups = Get(list[i], "groups", GroupsFor(h))
<1>. DEFINE s == Effective(h)
            own == Wanted(s)
            list == Nics(s)
            Nic(i) == Interface(s, i, SubnetFor(h), GroupsFor(h))
<1>1. CASE nic \in requests[h].nics
  <2>1. PICK i \in DOMAIN own : nic = Nic(i)  BY <1>1, PlannedParts DEF NicsFor
  <2>2. Has(own[i], "id") => Nic(i).delete = FALSE  BY InterfaceOwned
  <2>3. ~Has(own[i], "id") => Nic(i).subnet = Get(own[i], "subnet_id", SubnetFor(h))
    BY InterfacePlace
  <2>4. ASSUME ~Has(own[i], "id")
        PROVE  Nic(i).groups =
                 IF Get(own[i], "groups", {}) # {} THEN own[i].groups ELSE GroupsFor(h)
    BY <2>4 DEF Interface
  <2>. HIDE DEF own, s, Nic
  <2>5. ~Has(own[i], "id")  BY <2>1, <2>2
  <2>. QED BY <2>1, <2>3, <2>4, <2>5 DEF own, s
<1>2. CASE nic \in later[h]
  <2>1. later[h] = AttachedLater(s, SubnetFor(h), GroupsFor(h))  BY DEF LaterAsRendered
  <2>2. \E i \in DOMAIN list :
          nic = [index |-> Index(list, i), delete |-> TRUE,
                 subnet |-> Get(list[i], "subnet_id", SubnetFor(h)),
                 groups |-> Get(list[i], "groups", GroupsFor(h))]
    BY <1>2, <2>1 DEF AttachedLater
  <2>. HIDE DEF list
  <2>3. \E i \in DOMAIN list :
          /\ nic.subnet = Get(list[i], "subnet_id", SubnetFor(h))
          /\ nic.groups = Get(list[i], "groups", GroupsFor(h))
    BY <2>2
  <2>. QED BY <2>3 DEF list
<1>. QED BY <1>1, <1>2

\* The security groups of what is generated.
LEMMA GroupPrecedence ==
  ASSUME IInv, Chosen, LaterAsRendered, Placed, NEW h \in Hosts, Rendered(h),
         ~Has(inventory[h], "network_interfaces"), ~Has(inventory[h], "network_interfaces_ids"),
         Groups(inventory[h]) # {},
         NEW nic \in requests[h].nics \cup later[h], nic.delete
  PROVE  nic.groups = inventory[h].security_groups
<1>. DEFINE raw == inventory[h]
            s == Effective(h)
            list == TemplateNics(templates[h])
            own == Wanted(s)
            x == Explicit(Normal(raw))
<1>1. \A f \in DOMAIN raw \ Derivations : Has(s, f) /\ s[f] = raw[f]  BY Inherited
<1>2. Has(raw, "security_groups") /\ Groups(raw) = raw.security_groups  BY DEF Groups, Get
<1>3. Groups(s) = raw.security_groups  BY <1>1, <1>2 DEF Groups, Get, Has, Derivations
<1>4. s.network.mode = "existing"  BY <1>2, <1>3, EffectivePlace
<1>5. GroupsFor(h) = raw.security_groups
  BY <1>2, <1>3, <1>4, PlannedParts DEF GroupsFor, PlanOf
<1>6. \/ own = <<Nothing>> /\ list = <<>> /\ Nics(s) = <<>>
      \/ (\A i \in DOMAIN own : Has(own[i], "id")) /\ Nics(s) = <<>>
      \/ /\ own = Nics(s) /\ DOMAIN own = DOMAIN list /\ Has(raw, "launch_template")
         /\ \A i \in DOMAIN own : own[i] = Overridden(Converted(list, i), x)
  BY SilentParts
<1>7. Has(raw, "launch_template") => Has(x, "security_groups")  BY <1>2, ExplicitField DEF Has
<1>8. Has(x, "security_groups") =>
        \A i : ~Has(Overridden(Converted(list, i), x), "groups")
  BY OverriddenParts
<1>9. \/ \E i \in DOMAIN own :
           /\ ~Has(own[i], "id")
           /\ nic.groups = IF Get(own[i], "groups", {}) # {} THEN own[i].groups ELSE GroupsFor(h)
      \/ \E i \in DOMAIN Nics(s) : nic.groups = Get(Nics(s)[i], "groups", GroupsFor(h))
  BY GeneratedParts
<1>. HIDE DEF raw, s, list, own, x
<1>10. \A i \in DOMAIN own : Has(own[i], "id") \/ ~Has(own[i], "groups")
  <2>1. ~Has(Nothing, "groups")  BY DEF Has, Nothing
  <2>. QED BY <1>6, <1>7, <1>8, <2>1
<1>11. \A i \in DOMAIN Nics(s) : ~Has(Nics(s)[i], "groups")  BY <1>6, <1>7, <1>8
<1>. QED BY <1>5, <1>9, <1>10, <1>11 DEF Get, raw

\* The subnet of what is generated in a managed network.
LEMMA CreatePrecedence ==
  ASSUME IInv, Chosen, LaterAsRendered, Placed, NEW h \in Hosts, Rendered(h),
         Get(Get(inventory[h], "network", Nothing), "mode", "auto") = "create",
         NEW nic \in requests[h].nics \cup later[h], nic.delete
  PROVE  nic.subnet = ManagedSubnet(run.plans[h].region)
<1>. DEFINE s == Effective(h)
            own == Wanted(s)
<1>1. s.network.mode = "create"  BY EffectivePlace
<1>2. Enis(s) = <<>> /\ \A i \in DOMAIN Nics(s) : ~Has(Nics(s)[i], "subnet_id")
  BY <1>1, EffectivePlace
<1>3. SubnetFor(h) = ManagedSubnet(run.plans[h].region)
  BY <1>1, PlannedParts DEF SubnetFor, PlanOf
<1>4. own = Nics(s) \/ own = <<Nothing>>  BY <1>2 DEF Wanted, Interfaces
<1>5. \/ \E i \in DOMAIN own : nic.subnet = Get(own[i], "subnet_id", SubnetFor(h))
      \/ \E i \in DOMAIN Nics(s) : nic.subnet = Get(Nics(s)[i], "subnet_id", SubnetFor(h))
  BY GeneratedParts
<1>. HIDE DEF own, s
<1>6. ~Has(Nothing, "subnet_id")  BY DEF Has, Nothing
<1>7. \A i \in DOMAIN own : ~Has(own[i], "subnet_id")  BY <1>2, <1>4, <1>6
<1>. QED BY <1>2, <1>3, <1>5, <1>7 DEF Get

\* A template turns structured bootstrap off, unless the inventory has its own.
LEMMA TemplateCloud ==
  ASSUME IInv, Chosen, NEW h \in Hosts, Rendered(h), Has(inventory[h], "launch_template"),
         ~(Has(inventory[h], "cloud_init") /\ Cloud(WithDefaults(inventory[h])).enabled)
  PROVE  /\ ~Effective(h).cloud_init.enabled
         /\ ~Get(Get(Explicit(Normal(inventory[h])), "cloud_init", Nothing), "enabled", FALSE)
<1>. DEFINE raw == inventory[h]
            src == Source(h)
            off == [enabled |-> FALSE]
            cloud == Cloud(WithDefaults(raw))
            w == WithDefaults(src)
            x == Explicit(Normal(raw))
            c == src.cloud_init
<1>1. Effective(h).cloud_init = Cloud(w)
  <2>1. Effective(h) = WithRegion(Normal(src))  BY RenderedFits
  <2>. QED BY <2>1, SettledField
<1>2. src = Templated(Normal(raw), templates[h])  BY DEF Source
<1>3. c = IF Has(raw, "cloud_init") THEN Over(off, cloud) ELSE off
  <2>. DEFINE templated == Templated(Normal(raw), templates[h])
  <2>1. templated.cloud_init = IF Has(raw, "cloud_init") THEN Over(off, cloud) ELSE off
    BY TemplatedField
  <2>2. src = templated  BY <1>2
  <2>. HIDE DEF templated, src, off, cloud
  <2>. QED BY <2>1, <2>2
<1>4. Has(src, "cloud_init")
  <2>1. DOMAIN Templated(Normal(raw), templates[h])
          = DOMAIN Derived(Normal(raw), templates[h]) \cup DOMAIN raw
    BY TemplatedField
  <2>2. "cloud_init" \in DOMAIN Derived(Normal(raw), templates[h])  BY DerivedField
  <2>. QED BY <1>2, <2>1, <2>2 DEF Has
<1>5. Get(w, "cloud_init", Nothing) = c
  <2>1. Get(w, "cloud_init", Nothing) = Get(src, "cloud_init", Nothing)  BY SettledParts
  <2>. QED BY <1>4, <2>1 DEF Get
<1>6. Has(c, "enabled") => Cloud(w).enabled = c.enabled  BY <1>5, CloudField
<1>7. Has(cloud, "enabled")  BY CloudField DEF Has
<1>8. DOMAIN x = DOMAIN raw /\ (Has(raw, "cloud_init") => x.cloud_init = cloud)  BY ExplicitField
<1>9. Over(off, cloud).enabled = cloud.enabled /\ Has(Over(off, cloud), "enabled")
  <2>. HIDE DEF cloud, off
  <2>1. DOMAIN Over(off, cloud) = DOMAIN off \cup DOMAIN cloud  BY OverField
  <2>2. \A f \in DOMAIN cloud : Over(off, cloud)[f] = cloud[f]  BY OverField
  <2>. QED BY <1>7, <2>1, <2>2 DEF Has
<1>10. off.enabled = FALSE /\ Has(off, "enabled")  BY DEF Has
<1>11. Has(raw, "cloud_init") => ~cloud.enabled  OBVIOUS
<1>. HIDE DEF raw, src, off, cloud, w, x, c
<1>12. Has(c, "enabled") /\ ~c.enabled
  <2>1. CASE Has(raw, "cloud_init")
    <3>1. c = Over(off, cloud)  BY <1>3, <2>1
    <3>2. c.enabled = cloud.enabled /\ Has(c, "enabled")  BY <1>9, <3>1
    <3>. QED BY <1>11, <2>1, <3>2
  <2>2. CASE ~Has(raw, "cloud_init")
    <3>1. c = off  BY <1>3, <2>2
    <3>. QED BY <1>10, <3>1
  <2>. QED BY <2>1, <2>2
<1>13. ~Cloud(w).enabled  BY <1>6, <1>12
<1>14. ~Get(Get(x, "cloud_init", Nothing), "enabled", FALSE)
  <2>1. CASE Has(raw, "cloud_init")
    <3>1. Get(x, "cloud_init", Nothing) = cloud  BY <1>8, <2>1 DEF Get, Has
    <3>2. Get(cloud, "enabled", FALSE) = cloud.enabled  BY <1>7 DEF Get
    <3>. QED BY <1>11, <2>1, <3>1, <3>2
  <2>2. CASE ~Has(raw, "cloud_init")
    <3>1. Get(x, "cloud_init", Nothing) = Nothing  BY <1>8, <2>2 DEF Get, Has
    <3>2. Get(Nothing, "enabled", FALSE) = FALSE  BY DEF Get, Has, Nothing
    <3>. QED BY <3>1, <3>2
  <2>. QED BY <2>1, <2>2
<1>. QED BY <1>1, <1>13, <1>14 DEF x, raw

\* The bootstrap data.
LEMMA DataPrecedence ==
  ASSUME IInv, Chosen, Placed, NEW h \in Hosts, Rendered(h)
  PROVE  LET raw == inventory[h]
             t == templates[h]
             r == requests[h]
             ownCloud == Has(raw, "cloud_init") /\ Cloud(WithDefaults(raw)).enabled
         IN /\ Opaque(raw) => r.data = raw.user_data
            /\ ~ownCloud /\ Has(t, "UserData") => r.data = Get(raw, "user_data", t.UserData)
<1>. DEFINE raw == inventory[h]
            t == templates[h]
            r == requests[h]
            s == Effective(h)
            d == Derived(Normal(raw), t)
            x == Explicit(Normal(raw))
            ownCloud == Has(raw, "cloud_init") /\ Cloud(WithDefaults(raw)).enabled
            chosen == Get(Get(x, "cloud_init", Nothing), "enabled", FALSE)
<1>1. \A f \in DOMAIN raw \ Derivations : Has(s, f) /\ s[f] = raw[f]  BY Inherited
<1>2. Has(raw, "launch_template") =>
        \A f \in (DOMAIN d \ DOMAIN raw) \ Derivations : Has(s, f) /\ s[f] = d[f]
  BY Inherited
<1>3. Typed(raw) /\ IF Has(raw, "launch_template") THEN WellFormedTemplate(t) ELSE t = Nothing
  BY Inherited
<1>4. Opaque(s) => r.data = s.user_data  BY BootstrapOf
<1>5. r.data = CloudData(s, PublicKey)  BY PlannedParts
<1>6. Has(raw, "launch_template") /\ ~ownCloud => ~s.cloud_init.enabled /\ ~chosen
  BY TemplateCloud
<1>7. Has(t, "UserData") /\ ~chosen => Has(d, "user_data") /\ d.user_data = t.UserData
  BY DerivedData
<1>. HIDE DEF raw, t, r, s, d, x, ownCloud, chosen
<1>8. Empty(NoData) /\ \A text : text = "" => Text(text) = NoData  BY DEF Empty, NoData, Text
<1>9. Has(raw, "user_data") => Has(s, "user_data") /\ s.user_data = raw.user_data
  BY <1>1 DEF Has, Derivations
<1>10. Opaque(raw) => Has(raw, "user_data") /\ r.data = raw.user_data
  <2>1. Opaque(raw) => Has(raw, "user_data")  BY <1>8 DEF Opaque, Get
  <2>2. Opaque(raw) => Opaque(s)  BY <1>9, <2>1 DEF Opaque, Get
  <2>. QED BY <1>4, <1>9, <2>1, <2>2
<1>11. ASSUME ~ownCloud, Has(t, "UserData")
       PROVE  r.data = Get(raw, "user_data", t.UserData)
  <2>1. Has(raw, "launch_template")  BY <1>3, <1>11 DEF Has, Nothing
  <2>2. ~s.cloud_init.enabled /\ ~chosen  BY <1>6, <1>11, <2>1
  <2>3. CASE Has(raw, "user_data") /\ ~Opaque(raw)
    <3>1. Empty(raw.user_data) /\ raw.user_data = Text(raw.user_data.text)
      BY <1>3, <2>3 DEF Opaque, Get, Typed
    <3>2. raw.user_data = NoData  BY <1>8, <3>1 DEF Empty
    <3>3. ~Opaque(s)  BY <1>8, <1>9, <2>3, <3>2 DEF Opaque, Get
    <3>4. CloudData(s, PublicKey) = NoData  BY <2>2, <3>3 DEF CloudData
    <3>. QED BY <1>5, <2>3, <3>2, <3>4 DEF Get
  <2>4. CASE Has(raw, "user_data") /\ Opaque(raw)  BY <1>10, <2>4 DEF Get
  <2>5. CASE ~Has(raw, "user_data")
    <3>1. Has(d, "user_data") /\ d.user_data = t.UserData  BY <1>7, <1>11, <2>2
    <3>2. Has(s, "user_data") /\ s.user_data = t.UserData
      BY <1>2, <2>1, <2>5, <3>1 DEF Has, Derivations
    <3>3. ~Empty(t.UserData)  BY <1>3, <1>11, <2>1 DEF WellFormedTemplate, Get
    <3>4. Opaque(s)  BY <3>2, <3>3 DEF Opaque, Get
    <3>. QED BY <1>4, <2>5, <3>2, <3>4 DEF Get
  <2>. QED BY <2>3, <2>4, <2>5
<1>. QED BY <1>10, <1>11 DEF raw, t, r, ownCloud

\* The key pair.
LEMMA KeyPrecedence ==
  ASSUME IInv, Chosen, Placed, NEW h \in Hosts, Rendered(h)
  PROVE  LET raw == inventory[h] t == templates[h] r == requests[h] IN
         /\ Has(raw, "key_inject_method") =>
              r.key = IF raw.key_inject_method = "ec2"
                      THEN Get(raw, "key_name", Get(t, "KeyName", "mp-key"))
                      ELSE Get(t, "KeyName", "")
         /\ ~Has(raw, "key_inject_method") /\ Has(t, "KeyName") =>
              r.key = Get(raw, "key_name", t.KeyName)
<1>. DEFINE raw == inventory[h]
            t == templates[h]
            r == requests[h]
            s == Effective(h)
            d == Derived(Normal(raw), t)
<1>1. \A f \in DOMAIN raw \ Derivations : Has(s, f) /\ s[f] = raw[f]  BY Inherited
<1>2. Has(raw, "launch_template") =>
        \A f \in (DOMAIN d \ DOMAIN raw) \ Derivations : Has(s, f) /\ s[f] = d[f]
  BY Inherited
<1>3. IF Has(raw, "launch_template") THEN WellFormedTemplate(t) ELSE t = Nothing  BY Inherited
<1>4. Get(raw, "key_name", "key") # ""
  <2>1. WellFormed(raw)  BY ScenarioAssumption DEF Chosen, Hosts
  <2>. QED BY <2>1, WellFormedParts
<1>5. ~Has(raw, "key_name") /\ (Has(raw, "launch_template") => ~Has(d, "key_name"))
      => ~Has(s, "key_name")
  BY Inherited, DefaultFields DEF Defaulted, Derivations, Has
<1>6. /\ "key_inject_method" \in DOMAIN d
      /\ d.key_inject_method = IF Has(t, "KeyName") THEN "ec2" ELSE "none"
  BY DerivedField
<1>7. (Has(d, "key_name") <=> Has(t, "KeyName")) /\ (Has(d, "key_name") => d.key_name = t.KeyName)
  BY DerivedField
<1>8. r.key = IF KeyFor(h) # "" THEN KeyFor(h) ELSE Get(t, "KeyName", "")  BY PlannedParts
<1>9. KeyFor(h) = IF s.key_inject_method = "ec2" THEN Get(s, "key_name", "mp-key") ELSE ""
  BY DEF KeyFor
<1>. HIDE DEF raw, t, r, s, d
<1>10. ASSUME Has(raw, "key_inject_method")
       PROVE  r.key = IF raw.key_inject_method = "ec2"
                      THEN Get(raw, "key_name", Get(t, "KeyName", "mp-key"))
                      ELSE Get(t, "KeyName", "")
  <2>1. s.key_inject_method = raw.key_inject_method  BY <1>1, <1>10 DEF Has, Derivations
  <2>2. CASE raw.key_inject_method # "ec2"  BY <1>8, <1>9, <2>1, <2>2
  <2>3. CASE raw.key_inject_method = "ec2"
    <3>1. KeyFor(h) = Get(s, "key_name", "mp-key")  BY <1>9, <2>1, <2>3
    <3>2. CASE Has(raw, "key_name")
      <4>1. Get(s, "key_name", "mp-key") = raw.key_name  BY <1>1, <3>2 DEF Get, Has, Derivations
      <4>2. raw.key_name # ""  BY <1>4, <3>2 DEF Get
      <4>. QED BY <1>8, <2>3, <3>1, <3>2, <4>1, <4>2 DEF Get
    <3>3. CASE ~Has(raw, "key_name") /\ Has(t, "KeyName")
      <4>1. Has(raw, "launch_template")  BY <1>3, <3>3 DEF Has, Nothing
      <4>2. Get(s, "key_name", "mp-key") = t.KeyName
        BY <1>2, <1>7, <3>3, <4>1 DEF Get, Has, Derivations
      <4>3. t.KeyName # ""  BY <1>3, <3>3, <4>1 DEF WellFormedTemplate, Get
      <4>. QED BY <1>8, <2>3, <3>1, <3>3, <4>2, <4>3 DEF Get
    <3>4. CASE ~Has(raw, "key_name") /\ ~Has(t, "KeyName")
      <4>1. Get(s, "key_name", "mp-key") = "mp-key"  BY <1>5, <1>7, <3>4 DEF Get
      <4>. QED BY <1>8, <2>3, <3>1, <3>4, <4>1 DEF Get
    <3>. QED BY <3>2, <3>3, <3>4
  <2>. QED BY <2>2, <2>3
<1>11. ASSUME ~Has(raw, "key_inject_method"), Has(t, "KeyName")
       PROVE  r.key = Get(raw, "key_name", t.KeyName)
  <2>1. Has(raw, "launch_template")  BY <1>3, <1>11 DEF Has, Nothing
  <2>2. s.key_inject_method = "ec2"  BY <1>2, <1>6, <1>11, <2>1 DEF Has, Derivations
  <2>3. t.KeyName # ""  BY <1>3, <1>11, <2>1 DEF WellFormedTemplate, Get
  <2>4. Has(s, "key_name") /\ s.key_name = Get(raw, "key_name", t.KeyName)
    <3>1. CASE Has(raw, "key_name")  BY <1>1, <3>1 DEF Get, Has, Derivations
    <3>2. CASE ~Has(raw, "key_name")
      BY <1>2, <1>7, <1>11, <2>1, <3>2 DEF Get, Has, Derivations
    <3>. QED BY <3>1, <3>2
  <2>5. Get(raw, "key_name", t.KeyName) # ""  BY <1>4, <2>3 DEF Get
  <2>. QED BY <1>8, <1>9, <2>2, <2>4, <2>5 DEF Get
<1>. QED BY <1>10, <1>11 DEF raw, t, r

\* The inventory decides what it speaks of, its template the rest, whatever the host.
LEMMA PrecedenceOf ==
  ASSUME IInv, Chosen, LaterAsRendered, Placed
  PROVE  Precedence
<1>. SUFFICES ASSUME NEW h \in Hosts, Rendered(h)
              PROVE  LET raw == inventory[h]
                         t == templates[h]
                         r == requests[h]
                         primary == CHOOSE nic \in r.nics : nic.index = 0
                         generated == {nic \in r.nics \cup later[h] : nic.delete}
                         silent == ~Has(raw, "network_interfaces")
                                   /\ ~Has(raw, "network_interfaces_ids")
                         ownCloud == Has(raw, "cloud_init") /\ Cloud(WithDefaults(raw)).enabled
                     IN /\ r.image = Get(raw, "image_id", IF Has(raw, "image_name") THEN r.image
                                                          ELSE Get(t, "ImageId", r.image))
                        /\ r.type = Get(raw, "instance_type", Get(t, "InstanceType", r.type))
                        /\ primary.delete =>
                             /\ primary.public = Get(raw, "assign_public_ip", TemplateAddress(t))
                             /\ silent /\ Has(raw, "subnet_id") => primary.subnet = raw.subnet_id
                             /\ silent /\ ~Has(raw, "subnet_id") =>
                                  primary.subnet = Get(Primary(TemplateNics(t)), "SubnetId",
                                                       Get(t, "SubnetId", primary.subnet))
                             /\ silent /\ ~Has(raw, "security_groups") /\ TemplateGroups(t) # {} =>
                                  primary.groups = TemplateGroups(t)
                        /\ silent /\ Groups(raw) # {} =>
                             \A nic \in generated : nic.groups = raw.security_groups
                        /\ Get(Get(raw, "network", Nothing), "mode", "auto") = "create" =>
                             \A nic \in generated : nic.subnet = ManagedSubnet(run.plans[h].region)
                        /\ Opaque(raw) => r.data = raw.user_data
                        /\ ~ownCloud /\ Has(t, "UserData") =>
                             r.data = Get(raw, "user_data", t.UserData)
                        /\ Has(raw, "key_inject_method") =>
                             r.key = IF raw.key_inject_method = "ec2"
                                     THEN Get(raw, "key_name", Get(t, "KeyName", "mp-key"))
                                     ELSE Get(t, "KeyName", "")
                        /\ ~Has(raw, "key_inject_method") /\ Has(t, "KeyName") =>
                             r.key = Get(raw, "key_name", t.KeyName)
                        /\ Has(Get(raw, "root_disk", Nothing), "size") =>
                             r.disks[1].size = raw.root_disk.size
  BY DEF Precedence
<1>1. ASSUME ~Has(inventory[h], "network_interfaces"),
             ~Has(inventory[h], "network_interfaces_ids"), Groups(inventory[h]) # {},
             NEW nic \in {n \in requests[h].nics \cup later[h] : n.delete}
      PROVE  nic.groups = inventory[h].security_groups
  BY <1>1, GroupPrecedence
<1>2. ASSUME Get(Get(inventory[h], "network", Nothing), "mode", "auto") = "create",
             NEW nic \in {n \in requests[h].nics \cup later[h] : n.delete}
      PROVE  nic.subnet = ManagedSubnet(run.plans[h].region)
  BY <1>2, CreatePrecedence
<1>. QED
  BY <1>1, <1>2, ComputePrecedence, AddressPrecedence, PrimaryPrecedence, DataPrecedence,
     KeyPrecedence, DiskPrecedence

\* Every request follows the inventory where it speaks, its launch template where it
\* does not and the defaults where neither does, but for the key a template names, which
\* an explicit key_inject_method other than "ec2" leaves in the request.
THEOREM InventoryHasPrecedence == Spec => []Precedence
<1>1. IInv /\ Chosen /\ LaterAsRendered /\ Placed => Precedence  BY PrecedenceOf
<1>. QED
  BY <1>1, InitIInv, NextIInv, InitChosen, NextChosen, InitLater, NextLater, InitPlaced, NextPlaced,
     PTL DEF Spec

=============================================================================

------------------------------- MODULE Lifecycle -------------------------------
(***************************************************************************)
(* The playbooks (playbooks/{create,destroy,reset}.yml): they take the     *)
(* backend from the first host of the molecule group, pull its options and *)
(* include the task file of that backend's role.  The backend is part of   *)
(* the scenario: it does not change between its plays.  The QEMU and AWS   *)
(* roles have modules of their own.                                        *)
(***************************************************************************)
EXTENDS KubevirtRun

CONSTANTS
  Backends,    \* backends a scenario may choose
  Overridden,  \* see ContainerRun
  MaxCreates   \* see ContainerRun

ASSUME LifecycleAssumption ==
  Backends \subseteq {"kubevirt", "podman", "docker"} /\ MaxCreates \in Nat

VARIABLES
  backend,  \* _mp_backend
  container, network, jobs, play, creates

Containers == INSTANCE ContainerRun WITH engine <- backend

kubeState == <<file, inventory, ctl, cluster, made>>
containerState == <<container, network, jobs, play, creates>>
vars == <<kubeState, containerState, backend, faults>>

LifecycleInit == backend \in Backends /\ Init /\ Containers!Nothing

\* include_role: the task file of the backend, and of no other.
InCluster(A) == backend = "kubevirt" /\ A /\ UNCHANGED <<containerState, backend>>
OnEngine(A) == backend \in {"podman", "docker"} /\ A /\ UNCHANGED kubeState

LifecycleNext == InCluster(Next) \/ OnEngine(Containers!Next)

LifecycleSpec ==
  /\ LifecycleInit /\ [][LifecycleNext]_vars
  /\ WF_vars(InCluster(Play)) /\ SF_vars(InCluster(Destroy))
  /\ WF_vars(InCluster(\E n \in Names : Settle(n)))
  /\ WF_vars(OnEngine(Containers!Tasks)) /\ WF_vars(OnEngine(Containers!Jobs))
  /\ SF_vars(OnEngine(Containers!Destroy))

-------------------------------------------------------------------------------
(* Properties: those of the backends, for the scenario's backend           *)

\* Types.
LifecycleTypeOK == TypeOK /\ (backend # "kubevirt" => Containers!ContainerTypeOK)

\* See ContainerRun.
CreateComplete == Containers!CreateComplete
\* See ContainerRun.
CleanupComplete == Containers!CleanupComplete
\* See ContainerRun.
DestroyConverges == Containers!DestroyConverges
================================================================================

------------------------------ MODULE MCLifecycle ------------------------------
(* Hosts and inventories of a scenario for TLC.                              *)
EXTENDS Lifecycle, TLC

CONSTANTS h1, h2

Full == [service |-> TRUE, disk |-> TRUE]
Bare == [service |-> FALSE, disk |-> FALSE]
MCInventories == {h1 :> Full, h1 :> Bare @@ h2 :> Bare}
MCContested == {h1} \X (Kinds \ {"guest"})
================================================================================

----------------------------- MODULE MCQemuRuntime -----------------------------
(* Instances of QemuRuntime for TLC.                                       *)
EXTENDS QemuRuntime, TLC

CONSTANTS c1, c2, r1, r2

\* One controller per run, or one on the only run.
OwnRun == (c1 :> r1) @@ (c2 :> r2)
OneRun == (c1 :> r1)

Want(addr, port) == [proto |-> "tcp", addr |-> addr, port |-> port]

\* SSH on an automatic loopback port.
AutoSsh == [r \in Runs |-> [h \in Hosts |-> [e \in Endpoints |-> Want("lo", AutoPort)]]]

\* The application endpoint of one run listens on every address; the other
\* run's is a fixed loopback port.
Mixed == [r \in Runs |-> [h \in Hosts |-> [e \in Endpoints |->
           IF e = "ssh" THEN Want("lo", AutoPort)
           ELSE IF r = r1 THEN Want("any", AutoPort) ELSE Want("lo", 2)]]]

\* SSH on an automatic port, the application on a fixed one on every address.
AutoAndFixed == [r \in Runs |-> [h \in Hosts |-> [e \in Endpoints |->
           IF e = "ssh" THEN Want("lo", AutoPort) ELSE Want("any", 1)]]]

AllForeign == [proto : {"tcp"}, addr : {"lo"}, port : Ports]
OneForeign == {[proto |-> "tcp", addr |-> "lo", port |-> 1]}

\* Pids are only compared.
PidSymmetry == Permutations(Pids)

\* A controller may die anywhere ...
Anywhere == PlayPCs \cup LockedPCs
Nowhere == {}
\* ... but not between the two files of a save.
NotInSave == Anywhere \ {"publish"}
===============================================================================

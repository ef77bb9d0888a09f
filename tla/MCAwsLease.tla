------------------------------ MODULE MCAwsLease ------------------------------
(* Instances of AwsLease for TLC.                                          *)
EXTENDS AwsLease, TLC

CONSTANTS c1, c2, c3, n1, n2

\* Two controllers in one namespace, a third in a container.
TwoAndOne == (c1 :> n1) @@ (c2 :> n1) @@ (c3 :> n2)
OneSpace == (c1 :> n1) @@ (c2 :> n1)

\* A controller may die at any point but before its worker has signed an acquire.
Signed == {<<"held", "write">>, <<"held", "dump">>, <<"held", "block">>, <<"released", "task">>}
\* An orphaned worker may die at any point, or at any but between the truncation
\* of the lease file and the writing of it.
AnyPoint == PCs
NotTorn == PCs \ {"dump"}
===============================================================================

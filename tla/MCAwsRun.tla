------------------------------- MODULE MCAwsRun -------------------------------
(* Instances of AwsRun for TLC.                                            *)
EXTENDS AwsRun

\* A key pair is there when its import returns.
AllButKeys == Kinds \ {"keypair"}
===============================================================================

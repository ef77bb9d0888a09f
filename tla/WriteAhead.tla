------------------------------ MODULE WriteAhead ------------------------------
(***************************************************************************)
(* What the stateful backends promise about the infrastructure of a run,   *)
(* however they keep it: a name is on record before anything is made under *)
(* it, and it stays on record for as long as something is there.  So a     *)
(* destroy that reads the record, at whatever point the plays before it    *)
(* were cut off, knows of everything the run has made.                     *)
(*                                                                         *)
(* record is the set of names that the saved state of the run accounts     *)
(* for; owned the names under which the run has something.                 *)
(***************************************************************************)
CONSTANT Names
VARIABLES record, owned

Init == record = {} /\ owned = {}

\* A checkpoint: it may add names and drop names, never one in use.
Rewrite ==
  /\ record' \in SUBSET Names /\ owned \subseteq record'
  /\ UNCHANGED owned

\* The run makes something, under a name on record.
Make(n) ==
  /\ n \in record /\ owned' = owned \cup {n}
  /\ UNCHANGED record

\* Something ceases to be the run's.
Lose(n) ==
  /\ n \in owned /\ owned' = owned \ {n}
  /\ UNCHANGED record

Next == Rewrite \/ \E n \in Names : Make(n) \/ Lose(n)

Spec == Init /\ [][Next]_<<record, owned>>

Accounted == owned \subseteq record /\ record \subseteq Names
================================================================================

---------------------------- MODULE HiringPipeline ----------------------------
(***************************************************************************)
(* What the domain model promises of one application: it is submitted      *)
(* once and then moves one legal step at a time, always out of the status  *)
(* it holds.  Terminal statuses are therefore final.                       *)
(***************************************************************************)
EXTENDS ApplicationStatus

CONSTANT Ids

VARIABLE stage                  \* [Ids -> status, or "NONE" before the row exists]

Init == stage = [a \in Ids |-> "NONE"]

Submit(a) ==
  /\ stage[a] = "NONE"
  /\ stage' = [stage EXCEPT ![a] = "APPLIED"]

Move(a, to) ==
  /\ stage[a] # "NONE"
  /\ LegalMove(stage[a], to)
  /\ stage' = [stage EXCEPT ![a] = to]

Next == \E a \in Ids : Submit(a) \/ \E to \in ApplicationStatuses : Move(a, to)

Spec == Init /\ [][Next]_stage
=============================================================================

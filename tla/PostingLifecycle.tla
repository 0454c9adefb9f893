--------------------------- MODULE PostingLifecycle ---------------------------
(***************************************************************************)
(* What the job component promises of a posting: it is published once, may *)
(* be closed and reopened any number of times, and once removed it is      *)
(* removed for good.                                                       *)
(***************************************************************************)
CONSTANT Jobs
VARIABLE stage                  \* [Jobs -> "none", "open", "closed", "removed"]

Init == stage = [j \in Jobs |-> "none"]

Move(j, from, to) == stage[j] \in from /\ stage' = [stage EXCEPT ![j] = to]

Publish(j) == Move(j, {"none"}, "open")
Close(j)   == Move(j, {"open"}, "closed")
Reopen(j)  == Move(j, {"closed"}, "open")
Remove(j)  == Move(j, {"open", "closed"}, "removed")

Next == \E j \in Jobs : Publish(j) \/ Close(j) \/ Reopen(j) \/ Remove(j)

Spec == Init /\ [][Next]_stage
=============================================================================

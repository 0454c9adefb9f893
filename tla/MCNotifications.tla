---------------------------- MODULE MCNotifications ----------------------------
(* Instances of Notifications, and of Applications under it, for TLC.      *)
EXTENDS Notifications, TLC

CONSTANTS u1, p1

(* One candidate; every posting by the same recruiter.                    *)
MCPostedBy == [j \in Jobs |-> p1]
MCCvOwner  == [c \in Cvs |-> u1]

Symmetry == Permutations(Requests) \cup Permutations(Ids) \cup Permutations(Notes)
=============================================================================

---------------------------- MODULE MCCvLifecycle ----------------------------
(* Instances of CvLifecycle for TLC.                                       *)
EXTENDS CvLifecycle

CONSTANT u1, p1

MCPostedBy == [j \in Jobs |-> p1]
MCCvOwner  == [c \in Cvs |-> u1]

(* Announcements do not matter to CVs, nor does whether a posting is       *)
(* closed or deleted; no step of the purge touches either.                 *)
Focus == /\ \A a \in Ids : told[a] = {}
         /\ \A j \in Jobs : jobs[j] # "closed"
=============================================================================

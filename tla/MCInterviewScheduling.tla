------------------------ MODULE MCInterviewScheduling ------------------------
(* Instances of InterviewScheduling for TLC.                               *)
EXTENDS InterviewScheduling, TLC, FiniteSets

CONSTANTS u1, p1

MCPostedBy == [j \in Jobs |-> p1]
MCCvOwner  == [c \in Cvs |-> u1]

Symmetry == Permutations(Requests) \cup Permutations(Interviews)

(* Where two interview requests overlap, or one and an application         *)
(* request; at most one mail arrives.  Announcements, the CV once it is    *)
(* there and closed jobs do not matter to interviews, and no guard tells   *)
(* NO_SHOW from COMPLETED.                                                 *)
Focus ==
  /\ \A r, q \in Requests : r = q \/ req[r] = Idle \/ req[q] = Idle
  /\ Cardinality({i \in Interviews : mailed[i] # {}}) <= 1
  /\ \A i \in Interviews : /\ Cardinality(mailed[i]) <= 1
                           /\ Booked(i) => interviews[i].status # "NO_SHOW"
  /\ \A a \in Ids : told[a] = {}
  /\ \A c \in Cvs : cvs[c] \in {"absent", "live"}
  /\ \A j \in Jobs : jobs[j] # "closed"
=============================================================================

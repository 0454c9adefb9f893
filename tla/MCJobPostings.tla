---------------------------- MODULE MCJobPostings ----------------------------
(* Instances of JobPostings for TLC.                                       *)
EXTENDS JobPostings, FiniteSets

(* Where postings overlap: at most one term of the taxonomy is ever made,  *)
(* companies stay once founded and are founded one at a time, and views    *)
(* are looked at before the clock moves.  No fair action leads outside of  *)
(* this without another that stays inside.                                 *)
Focus ==
  /\ Cardinality({t \in Terms : taxonomy[t] # "unborn"}) <= 1
  /\ \A c \in Companies : Founded(c) => Active(c)
  /\ \A r, q \in Requests : r = q \/ coReq[r] = Idle \/ Free(q)
  /\ now > 0 => \A j \in Jobs : Posted(j) => postings[j].views = 0
=============================================================================

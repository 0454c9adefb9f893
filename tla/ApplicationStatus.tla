-------------------------- MODULE ApplicationStatus --------------------------
(***************************************************************************)
(* The pipeline a job application walks through: the value object          *)
(* application-status.vo.ts.  No state; the transition map and the two     *)
(* predicates every handler uses.                                          *)
(***************************************************************************)

ApplicationStatuses ==
  {"APPLIED", "SCREENING", "SHORTLISTED", "INTERVIEW", "OFFER",
   "HIRED", "REJECTED", "WITHDRAWN"}

(* FORWARD_TRANSITIONS: the moves a recruiter may make, as a relation.     *)
ForwardTransitions ==
  { <<"APPLIED", "SCREENING">>,    <<"APPLIED", "REJECTED">>,
    <<"SCREENING", "SHORTLISTED">>, <<"SCREENING", "REJECTED">>,
    <<"SHORTLISTED", "INTERVIEW">>, <<"SHORTLISTED", "REJECTED">>,
    <<"INTERVIEW", "OFFER">>,       <<"INTERVIEW", "REJECTED">>,
    <<"OFFER", "HIRED">>,           <<"OFFER", "REJECTED">> }

CanTransition(from, to) == <<from, to>> \in ForwardTransitions

(* A status with no outgoing move.                                         *)
IsTerminal(status) ==
  \A to \in ApplicationStatuses : ~ CanTransition(status, to)

(* The moves some handler may record: a recruiter's transition, or the     *)
(* candidate's withdrawal from a status that is not terminal.              *)
CanWithdraw(from) == ~ IsTerminal(from)
LegalMove(from, to) ==
  \/ CanTransition(from, to)
  \/ to = "WITHDRAWN" /\ CanWithdraw(from)
=============================================================================

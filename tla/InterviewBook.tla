---------------------------- MODULE InterviewBook ----------------------------
(***************************************************************************)
(* What the interview component promises of the interviews of one          *)
(* application: at most one is pending, an outcome is final, and nothing   *)
(* is booked or changed once the application has reached a final status.   *)
(***************************************************************************)
CONSTANTS Interviews,           \* interview ids
          Ids,                  \* application ids
          Closed(_),            \* is this status of an application final?
          Outcomes              \* what a pending interview may become

VARIABLES
  stage,                        \* [Ids -> status of the application]
  book                          \* [Interviews -> <<application, status>>, or << >>]

bvars == <<stage, book>>

Pending(i) == book[i] # << >> /\ book[i][2] \in {"SCHEDULED", "RESCHEDULED"}

Init == book = [i \in Interviews |-> << >>]

Book(i, a) ==
  /\ book[i] = << >>
  /\ ~ Closed(stage[a])
  /\ \A k \in Interviews : ~ (Pending(k) /\ book[k][1] = a)
  /\ book' = [book EXCEPT ![i] = <<a, "SCHEDULED">>]
  /\ UNCHANGED stage

Settle(i, to) ==
  /\ Pending(i)
  /\ ~ Closed(stage[book[i][1]])
  /\ book' = [book EXCEPT ![i][2] = to]
  /\ UNCHANGED stage

(* The applications move on their own.                                     *)
Elsewhere == UNCHANGED book

Next == \/ \E i \in Interviews, a \in Ids : Book(i, a)
        \/ \E i \in Interviews, to \in Outcomes : Settle(i, to)
        \/ Elsewhere

Spec == Init /\ [][Next]_bvars
=============================================================================

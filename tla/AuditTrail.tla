------------------------------ MODULE AuditTrail ------------------------------
(***************************************************************************)
(* What the application component promises however its requests            *)
(* interleave: a status never changes without its history row, a history   *)
(* row is never rewritten, and each row is a legal move out of a status    *)
(* the application has held at some time (not necessarily the one it holds *)
(* when the row is written: see HiringPipeline for the stronger promise).  *)
(***************************************************************************)
EXTENDS ApplicationStatus, Naturals, Sequences

CONSTANTS Ids,                  \* application ids
          People                \* who may be recorded as the author of a move

VARIABLES
  stage,                        \* [Ids -> status, or "NONE" before the row exists]
  trail                         \* [Ids -> sequence of history rows]

avars == <<stage, trail>>

Held(a) == {"APPLIED"} \cup {trail[a][i].to : i \in 1..Len(trail[a])}

Init == /\ stage = [a \in Ids |-> "NONE"]
        /\ trail = [a \in Ids |-> << >>]

Submit(a) ==
  /\ stage[a] = "NONE"
  /\ stage' = [stage EXCEPT ![a] = "APPLIED"]
  /\ UNCHANGED trail

Record(a, from, to) ==
  /\ stage[a] # "NONE"
  /\ LegalMove(from, to)
  /\ stage' = [stage EXCEPT ![a] = to]
  /\ \E by \in People :
       trail' = [trail EXCEPT ![a] = Append(@,
                   [from |-> from, to |-> to, changedById |-> by])]

Next == \E a \in Ids :
          \/ Submit(a)
          \/ \E from \in Held(a), to \in ApplicationStatuses : Record(a, from, to)

Spec == Init /\ [][Next]_avars
=============================================================================

--------------------------- MODULE MCChatMessaging ---------------------------
(* Instances of ChatMessaging for TLC: every socket is the candidate's.    *)
EXTENDS ChatMessaging, TLC

CONSTANTS u1, p1

MCUserOf      == [k \in Sockets |-> u1]
MCCandidateOf == [a \in Apps |-> u1]
MCRecruiterOf == [a \in Apps |-> p1]

Symmetry == Permutations(Requests) \cup Permutations(Convs) \cup Permutations(Msgs)
            \cup Permutations(Keys) \cup Permutations(Sockets)
=============================================================================

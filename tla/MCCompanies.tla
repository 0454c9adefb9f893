----------------------------- MODULE MCCompanies -----------------------------
(* Instances of Companies for TLC.                                         *)
EXTENDS Companies, TLC

Symmetry == Permutations(Requests) \cup Permutations(Companies)
            \cup Permutations(Slugs) \cup Permutations(Recruiters)
=============================================================================

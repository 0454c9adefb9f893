---------------------------- MODULE MCJobAlerts ----------------------------
EXTENDS JobAlerts, TLC

MCSlots == Permutations(Requests) \cup Permutations(Workers)
=============================================================================

------------------------ MODULE MCCandidateMatching ------------------------
EXTENDS CandidateMatching
=============================================================================

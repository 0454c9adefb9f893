\* The same loop: does every match come from a row a look-up returned?
SPECIFICATION CmSpec
CONSTANTS
  Candidates = {c1, c2}
  Unknown = c0
  Skills = {k1}
  Requests = {r1}
  Rounds = 2
  MaxCandidates = 1
  MaxCalls = 1
INVARIANTS ResultsAreReal
CHECK_DEADLOCK FALSE

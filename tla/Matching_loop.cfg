\* Two candidates and an id of nobody, two rounds of tools, one request.
SPECIFICATION CmSpec
CONSTANTS
  Candidates = {c1, c2}
  Unknown = c0
  Skills = {k1}
  Requests = {r1}
  Rounds = 1
  MaxCandidates = 1
  MaxCalls = 1
INVARIANTS ResultsAreSeen OnlyApplicantsAreRead
PROPERTIES EveryRequestEnds
CHECK_DEADLOCK FALSE

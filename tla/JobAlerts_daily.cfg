\* Two days, whose runs begin at 7:00 or later, three ids of searches in batches of two, two requests, one job.
SPECIFICATION JaSpec
CONSTANTS
  Users = {u1}
  Jobs = {j1}
  LastId = 3
  Requests = {q1, q2}
  Workers = {w1, w2}
  Limit = 1
  Batch = 2
  Day = 2
  MaxTime = 5
  None = None
SYMMETRY MCSlots
INVARIANTS LimitHolds
PROPERTIES OncePerRun NobodyIsForgotten EveryJobIsTold
CHECK_DEADLOCK FALSE

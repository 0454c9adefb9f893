\* Two sends of one message or other requests at a time, and two devices of the candidate.
SPECIFICATION ChatSpec
CONSTANTS
  u1 = u1
  p1 = p1
  Users = {u1, p1}
  Sockets = {s1, s2}
  Apps = {a1}
  Convs = {c1, c2}
  Msgs = {m1, m2}
  Keys = {k1}
  Requests = {r1, r2}
  NoRow = NoRow
  MaxTime = 2
  UserOf <- MCUserOf
  CandidateOf <- MCCandidateOf
  RecruiterOf <- MCRecruiterOf
SYMMETRY Symmetry
INVARIANTS AnswersAgree LastMessageInSync
PROPERTIES NobodyOnlineIsNotified
CHECK_DEADLOCK FALSE

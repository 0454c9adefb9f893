\* Two requests in flight on one candidate's applications, and the notifications of them.
SPECIFICATION NtSpec
CONSTANTS
  u1 = u1
  p1 = p1
  Candidates = {u1}
  Recruiters = {p1}
  Jobs = {j1}
  Cvs = {c1}
  Ids = {a1, a2}
  Notes = {n1, n2}
  Requests = {r1, r2}
  NoCv = NoCv
  NoRow = NoRow
  Targets = {"SCREENING", "REJECTED"}
  MaxHistory = 2
  PostedBy <- MCPostedBy
  CvOwner <- MCCvOwner
SYMMETRY Symmetry
INVARIANTS
  OneApplicationPerJob
  NoDanglingCv
  NotifiedOncePerMove
PROPERTIES
  ImplementsAuditTrail
CHECK_DEADLOCK FALSE

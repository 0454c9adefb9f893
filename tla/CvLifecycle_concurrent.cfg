\* Two requests in flight beside the purge, which is scheduled fairly.
SPECIFICATION CvFairSpec
CONSTANTS
  u1 = u1
  p1 = p1
  Candidates = {u1}
  Recruiters = {p1}
  Jobs = {j1}
  Cvs = {c1}
  Ids = {a1}
  Requests = {r1, r2}
  NoCv = NoCv
  NoRow = NoRow
  Targets = {"SCREENING", "SHORTLISTED", "REJECTED"}
  MaxHistory = 2
  PostedBy <- MCPostedBy
  CvOwner <- MCCvOwner
CONSTRAINT Focus
INVARIANTS
  FileOfEveryAnsweredCv
PROPERTIES
  ActiveApplicationKeepsCv
  ImplementsPipeline
  EventuallyPurged
CHECK_DEADLOCK FALSE

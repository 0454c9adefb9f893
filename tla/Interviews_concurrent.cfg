\* Two requests in flight, on the interviews of one application.
SPECIFICATION IvSpec
CONSTANTS
  u1 = u1
  p1 = p1
  Candidates = {u1}
  Recruiters = {p1}
  Jobs = {j1}
  Cvs = {c1}
  Ids = {a1}
  Requests = {r1, r2}
  Interviews = {i1, i2}
  NoCv = NoCv
  NoRow = NoRow
  Targets = {"REJECTED"}
  MaxHistory = 1
  PostedBy <- MCPostedBy
  CvOwner <- MCCvOwner
SYMMETRY Symmetry
CONSTRAINT Focus
INVARIANTS
  MailedOnlyCommitted
PROPERTIES
  OneActiveInterview
  ImplementsInterviewBook
CHECK_DEADLOCK FALSE

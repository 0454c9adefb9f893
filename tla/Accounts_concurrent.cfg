\* Two requests that overlap and break off anywhere.
SPECIFICATION AcSpec
CONSTANTS
  Users = {a1, u1}
  FirstAdmins = {a1}
  Sessions = {s1}
  Tokens = {t1, t2}
  Codes = {k1}
  Requests = {r1, r2}
  NoRow = NoRow
SYMMETRY Symmetry
CONSTRAINT Focus
INVARIANTS EndedSessionsStayEnded OneTokenPerSession CodesWorkOnce
PROPERTIES AnAdminStays
CHECK_DEADLOCK FALSE

\* Three requests in flight of two recruiters, two slugs.
SPECIFICATION CoSpec
CONSTANTS
  Recruiters = {p1, p2}
  Companies = {k1, k2, k3}
  Slugs = {s1, s2, s3}
  Requests = {r1, r2, r3}
  NoCompany = NoCompany
  NoRow = NoRow
SYMMETRY Symmetry
INVARIANTS OneActiveCompanyPerOwner
PROPERTIES AlreadyExistsIsTrue
CHECK_DEADLOCK FALSE

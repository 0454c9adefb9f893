\* Two requests or cron runs in flight, scheduled fairly.
SPECIFICATION JobFairSpec
CONSTANTS
  Recruiters = {p1}
  Companies = {k1}
  Slugs = {s1}
  NoCompany = NoCompany
  NoRow = NoRow
  Requests = {r1, r2}
  Jobs = {j1}
  Categories = {g1}
  Skills = {t1}
  NoCategory = NoCategory
  Deadlines = {0}
  NoDeadline = NoDeadline
  Keep = Keep
  NoJob = NoJob
  MaxNow = 2
  MaxViews = 1
CONSTRAINT Focus
INVARIANTS NoDanglingTaxonomy
PROPERTIES
  ViewsNeverDrop
  CronClosesOnlyExpired
  ImplementsPostingLifecycle
  EventuallyClosed
CHECK_DEADLOCK FALSE

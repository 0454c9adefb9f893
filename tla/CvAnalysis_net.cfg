\* Two CVs, one of them unreadable; a listener or a cron run in each slot.
SPECIFICATION AnFairSpec
CONSTANTS
  Uploads = 2
  Unreadable = {1}
  Workers = {w1, w2}
  BatchSize = 2
  Period = 2
  StaleAfter = 1
  NoRow = NoRow
  MaxRestarts = 1
PROPERTIES
  FreshClaimIsRespected
  NeverPendingAgain
  EventuallyAnalyzed
CHECK_DEADLOCK FALSE

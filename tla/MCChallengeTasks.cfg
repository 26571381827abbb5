SPECIFICATION Spec
CONSTANTS
  t1 = t1
  t2 = t2
  Tasks = {t1, t2}
  NoTask = NoTask
  BlockedBy <- MCBlockedBy
  Starts <- MCStarts
  Thresholds = {1}
  MaxCalls = 2
  MaxOwed = 2
  MaxFailures = 1
CHECK_DEADLOCK FALSE
INVARIANTS ClaimedOnce BonusIsEarned
PROPERTIES NothingStaysBlocked BonusArrives ProgressIsNoticed

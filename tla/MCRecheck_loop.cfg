\* Two beads, one restart, expiry, with and without dry-run mode, under fairness.
SPECIFICATION FairSpec
CONSTANTS
  Beads = {b1, b2}
  MaxAlerts = 1
  AutoExpire = TRUE
  MaxRestarts = 1
  NoticeCap = 2
INVARIANTS AlertBudget OneLateAlert AnnouncedIsClosed AnnouncedOnce
PROPERTIES DryRunIsSilent EventuallySettled EventuallyExpired
CHECK_DEADLOCK FALSE

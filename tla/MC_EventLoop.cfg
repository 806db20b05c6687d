\* The event loop's timing with a FLASH_ACTIVE focus hint: fades only on
\* the node being focused.
CONSTANTS
  Remotes = {r1, r2}
  MASTER = MASTER
  MaxAttempts = 2
  MaxInterval = 60
  Unit = 2
  FocusHint = "FLASH"
  Duration = 2
  FadeSteps = 2
  ShowNull = "HOTKEYONLY"
  MaxSched = 4
  BuildAttempts = 10
SPECIFICATION FairSpec
INVARIANT TypeOK BackoffMatchesReference DueMessagesFlushed SelectWakesForDeadlines
PROPERTY FailedRetried

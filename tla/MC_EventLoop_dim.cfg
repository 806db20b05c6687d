\* DIM_INACTIVE: the fade of the remote left on a failure is scheduled
\* after disconnect_remote() has dropped its schedule.
CONSTANTS
  Remotes = {r1, r2}
  MASTER = MASTER
  MaxAttempts = 2
  MaxInterval = 60
  Unit = 2
  FocusHint = "DIM"
  Duration = 2
  FadeSteps = 2
  ShowNull = "HOTKEYONLY"
  MaxSched = 4
  BuildAttempts = 10
SPECIFICATION Spec
INVARIANT SelectWakesForDeadlines

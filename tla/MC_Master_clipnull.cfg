\* A refused selection ownership makes SETCLIPBOARD wait; a queued hotkey
\* focuses the master meanwhile.
CONSTANTS
  r1 = r1
  r2 = r2
  shift = shift
  MASTER = MASTER
  NONE = NONE
  Remotes <- MC_Remotes
  Mods <- MC_Mods
  Dirs <- MC_Dirs
  Neighbor <- MC_Neighbor
  MaxAttempts = 1
  Backlog = 4
  FocusHint = "NONE"
  FadeSteps = 1
  ShowNull = "HOTKEYONLY"
  MaxXEvents = 1
  MaxSched = 1
  QuotaReachable = FALSE
  KeysDuringWait = FALSE
  OwnershipCanFail = TRUE
  GrabCanFail = FALSE

SPECIFICATION Spec
INVARIANT NoNullDeref

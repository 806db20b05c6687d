\* A full channel during a switch leaves the focus on a failed remote.
CONSTANTS
  r1 = r1
  r2 = r2
  shift = shift
  MASTER = MASTER
  NONE = NONE
  Remotes <- MC_Remotes
  Mods <- MC_Mods
  Dirs <- MC_Dirs
  Neighbor <- MC_Neighbor
  MaxAttempts = 1
  Backlog = 4
  FocusHint = "NONE"
  FadeSteps = 1
  ShowNull = "HOTKEYONLY"
  MaxXEvents = 1
  MaxSched = 1
  QuotaReachable = TRUE
  KeysDuringWait = FALSE
  OwnershipCanFail = FALSE
  GrabCanFail = FALSE

SPECIFICATION Spec
INVARIANT FocusedConnected

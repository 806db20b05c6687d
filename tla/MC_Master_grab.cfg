\* Another client holds a grab when focus_node grabs the inputs for a remote.
CONSTANTS
  r1 = r1
  r2 = r2
  shift = shift
  MASTER = MASTER
  NONE = NONE
  Remotes <- MC_Remotes
  Mods <- MC_Mods
  Dirs <- MC_Dirs
  Neighbor <- MC_Neighbor
  MaxAttempts = 1
  Backlog = 4
  FocusHint = "NONE"
  FadeSteps = 1
  ShowNull = "HOTKEYONLY"
  MaxXEvents = 1
  MaxSched = 1
  QuotaReachable = FALSE
  KeysDuringWait = FALSE
  OwnershipCanFail = FALSE
  GrabCanFail = TRUE

SPECIFICATION Spec
INVARIANT RemoteFocusGrabbed

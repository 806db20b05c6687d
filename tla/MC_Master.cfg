\* Focus, lifecycle and modifier transfer with the DIM_INACTIVE hint, one X
\* event handled before the next arrives, no channel ever at its quota.
CONSTANTS
  r1 = r1
  r2 = r2
  shift = shift
  MASTER = MASTER
  NONE = NONE
  Remotes <- MC_Remotes
  Mods <- MC_Mods
  Dirs <- MC_Dirs
  Neighbor <- MC_Neighbor
  MaxAttempts = 1
  Backlog = 4
  FocusHint = "DIM"
  FadeSteps = 1
  ShowNull = "HOTKEYONLY"
  MaxXEvents = 1
  MaxSched = 1
  QuotaReachable = FALSE
  KeysDuringWait = FALSE
  OwnershipCanFail = FALSE
  GrabCanFail = FALSE

SPECIFICATION Spec
INVARIANT TypeOK
INVARIANT NoStuckModifiers
INVARIANT MasterUngrabbed
INVARIANT RemoteFocusGrabbed
INVARIANT FocusedConnected
INVARIANT FocusedModifiersMatch
PROPERTY LifecycleRefinement

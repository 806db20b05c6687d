\* Another client takes PRIMARY while the master owns both selections.
CONSTANTS
  Texts = {t1, t2}
  NULL = NULL
  MaxClock = 2
  MaxQueue = 2
  MaxCalls = 2

SPECIFICATION Spec
INVARIANT ClipboardNotLost

\* Two texts, server time up to 2, two events queued by the others, two
\* set/get calls of the master.
CONSTANTS
  Texts = {t1, t2}
  NULL = NULL
  MaxClock = 2
  MaxQueue = 2
  MaxCalls = 2

SPECIFICATION Spec
INVARIANT FastPathOwns
PROPERTY WaitEnds

\* Triple tap in a six-entry ring, as the spec recommends; the ring wraps.
CONSTANTS
  HistLen = 6
  Num = 3
  Window = 4
  InitEvType = {"ARRIVE", "DEPART"}

SPECIFICATION Spec
INVARIANT TypeOK
PROPERTY MultiTapMatchesReference

\* Two observers, one reboot, one adjustment of the wall clock.
SPECIFICATION Spec
CONSTANTS
  Controllers = {p1, p2}
  Wall = 2
  Uptime = 1
  MaxReal = 3
  MaxShift = 2
  MaxAdjusts = 1
  MaxReboots = 1
  MaxChain = 4
SYMMETRY Symmetry
INVARIANTS TypeOK ChainOrdered NeverExtended
CHECK_DEADLOCK FALSE

SPECIFICATION Spec
CONSTANTS
  i1 = i1
  i2 = i2
  i3 = i3
  None = None
  Installers <- TwoInstallers
  MaxFaults = 2
  Keep = 3
SYMMETRY Symmetry
INVARIANTS TypeOK OneInstance Whole ServiceKept
CHECK_DEADLOCK FALSE

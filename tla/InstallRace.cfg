SPECIFICATION Spec
CONSTANTS
  i1 = i1
  i2 = i2
  i3 = i3
  None = None
  Installers <- ThreeInstallers
  MaxFaults = 0
  Keep = 3
SYMMETRY Symmetry
INVARIANT OneInstaller
CHECK_DEADLOCK FALSE

SPECIFICATION Spec
CONSTANTS
  i1 = i1
  i2 = i2
  i3 = i3
  None = None
  Installers <- JustOne
  MaxFaults = 1
  Keep = 3
INVARIANT LegacyTarget
CHECK_DEADLOCK FALSE

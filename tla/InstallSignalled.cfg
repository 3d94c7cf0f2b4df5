SPECIFICATION Spec
CONSTANTS
  i1 = i1
  i2 = i2
  i3 = i3
  None = None
  Installers <- JustOne
  MaxFaults = 1
  Keep = 3
PROPERTY AcceptedStays
CHECK_DEADLOCK FALSE

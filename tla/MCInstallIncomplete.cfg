\* The same revision installed again after the host stopped in the middle.
CONSTANTS
  None = None
  Installers = {i1, i2}
  Revisions = {r1}
  MaxStops = 1
SPECIFICATION InstallSpec
INVARIANTS ActiveIsComplete
CHECK_DEADLOCK FALSE

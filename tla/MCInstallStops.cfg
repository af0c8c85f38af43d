\* Three installers of two revisions, with two killed shells or host stops.
CONSTANTS
  None = None
  Installers = {i1, i2, i3}
  Revisions = {r1, r2}
  MaxStops = 2
SPECIFICATION InstallSpec
SYMMETRY Symmetry
INVARIANTS CompleteUnlessStopped WritersHoldTheLock
PROPERTIES ActivatedIsKept SuccessIsConsistent
CHECK_DEADLOCK FALSE

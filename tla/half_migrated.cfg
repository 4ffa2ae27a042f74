SPECIFICATION MigrationSpec
CONSTANTS
  Openers = {s}
  LastVersion = 2
  Signalling = {2}
  LifeVersion = 2
  MaxRows = 0
  MaxBreaks = 1
CHECK_DEADLOCK FALSE
INVARIANT NeverHalfApplied

\* A note taken while the sweep waits for the language model.
SPECIFICATION Spec
CONSTANTS
  Bullets = {b1, b2}
  NoBullet = NoBullet
  MaxItems = 2
  MaxSubmissions = 2
  MaxSweeps = 1
  MaxEdits = 0
  MaxFaults = 0
PROPERTIES
  SweepKeepsBullets
CHECK_DEADLOCK FALSE

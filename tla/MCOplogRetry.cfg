\* A retry after a failed write.
SPECIFICATION Spec
CONSTANTS
  Bullets = {b1, b2}
  NoBullet = NoBullet
  MaxItems = 2
  MaxSubmissions = 2
  MaxSweeps = 0
  MaxEdits = 0
  MaxFaults = 1
PROPERTIES
  AnsweredIsBuilt
CHECK_DEADLOCK FALSE

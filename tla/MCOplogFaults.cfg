\* Failed writes and crashes between any two writes of an operation.
SPECIFICATION Spec
CONSTANTS
  Bullets = {b1, b2}
  NoBullet = NoBullet
  MaxItems = 2
  MaxSubmissions = 3
  MaxSweeps = 1
  MaxEdits = 1
  MaxFaults = 2
SYMMETRY BulletSymmetry
INVARIANTS
  OncePerKey
  AnsweredIsLogged
  RevisionInStep
PROPERTIES
  LogOnlyGrows
  BuiltUntilFault
CHECK_DEADLOCK FALSE

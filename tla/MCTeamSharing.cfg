\* Two hooks, three events, one command, two losses or restarts.
SPECIFICATION Spec
CONSTANTS
  Hooks = {h1, h2}
  MaxEvents = 3
  MaxCommands = 1
  MaxLosses = 2
INVARIANTS
  TypeOK
  PrivateStaysLocal
  PostedOnce
  CursorIsHonest
CHECK_DEADLOCK FALSE

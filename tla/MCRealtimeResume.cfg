\* A stream that asked for no number breaks and comes back.
SPECIFICATION Spec
CONSTANTS
  Keep = 2
  PageSize = 1
  MaxEvents = 3
  MaxBreaks = 1
  MaxResyncs = 0
INVARIANTS
  ResumesAfterBreak
CHECK_DEADLOCK FALSE

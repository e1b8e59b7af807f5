\* Three events, a journal and a page of one, one break of the stream, one resync.
SPECIFICATION Spec
CONSTANTS
  Keep = 1
  PageSize = 1
  MaxEvents = 3
  MaxBreaks = 1
  MaxResyncs = 1
INVARIANTS
  MarkIsHonest
  ResumeIsComplete
  GapsAreRepaired
CHECK_DEADLOCK FALSE

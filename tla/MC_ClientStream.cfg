CONSTANTS
  BUFFER_SIZE = 4
  MAX_CONTENT_LENGTH = 3
  Layouts <- MCPassLayouts
  ClientModes = {"lockstep", "pipelined"}
SPECIFICATION Spec
CHECK_DEADLOCK FALSE
INVARIANT TypeOK HandlerBodyExact LockstepStreamIntact

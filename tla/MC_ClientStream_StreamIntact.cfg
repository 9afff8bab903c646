CONSTANTS
  BUFFER_SIZE = 4
  MAX_CONTENT_LENGTH = 3
  Layouts <- MCLayouts
  ClientModes = {"pipelined"}
SPECIFICATION Spec
CHECK_DEADLOCK FALSE
INVARIANT StreamIntact

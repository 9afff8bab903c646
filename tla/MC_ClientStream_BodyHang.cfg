\* A client that sends each request in full and waits for its answer,
\* over well-formed and malformed requests.
CONSTANTS
  BUFFER_SIZE = 4
  MAX_CONTENT_LENGTH = 3
  Layouts <- MCAllLayouts
  ClientModes = {"lockstep"}
SPECIFICATION Spec
CHECK_DEADLOCK FALSE
PROPERTY EverySentRequestAnswered

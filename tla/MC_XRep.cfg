\* Two peers, each writing one two-part message; the application sends
\* two messages.  A crashed process is a terminal state.
CONSTANTS
  a = a
  b = b
  u = u
  Peers <- MCPeers
  Unknown = u
  MaxMsgs = 1
  MaxSends = 2
SPECIFICATION Spec
INVARIANT TypeOK SendWholeOrNothing
CHECK_DEADLOCK FALSE

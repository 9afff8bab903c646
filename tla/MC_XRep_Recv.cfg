\* As MC_XRep.cfg; checks what xrecv returns when in pipes are detached.
CONSTANTS
  a = a
  b = b
  u = u
  Peers <- MCPeers
  Unknown = u
  MaxMsgs = 2
  MaxSends = 0
SPECIFICATION Spec
INVARIANT RecvSound
CHECK_DEADLOCK FALSE

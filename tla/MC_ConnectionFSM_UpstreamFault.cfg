\* Checks UpstreamFaultHandled alone; TLC is expected to find it violated.
CONSTANTS
  hnA = hnA  hnB = hnB  hnX = hnX  hA = hA  hB = hB
  p1 = p1  p2 = p2  p3 = p3  bH = bH  bD = bD  bP = bP  bQ = bQ
  NoHostName = NoHostName  NoHost = NoHost  NoBackend = NoBackend
  HostNames = {hnA, hnB, hnX}
  Hosts = {hA, hB}
  Paths = {p1, p2, p3}
  Backends = {bH, bD, bP, bQ}
  BackendType <- MCBackendType
  MatchHost <- MCMatchHost
  DefaultHost = hA
  MatchBackend <- MCMatchBackend
  MaxRequests = 2


SPECIFICATION Spec
CHECK_DEADLOCK FALSE
INVARIANT UpstreamFaultHandled

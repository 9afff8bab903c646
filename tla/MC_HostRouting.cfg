\* Server_match_backend against the spec's resolveHost.
CONSTANTS
  hA = hA  hB = hB  NoHost = NoHost
  Hosts = {hA, hB}
  Names <- MCNames
  Patterns <- MCPatterns
  DefaultHostname <- MCDefaultHostname
  MaxRoutes = 2
SPECIFICATION Spec
INVARIANT HostResolvedPerSpec

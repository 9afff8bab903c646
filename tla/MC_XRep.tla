------------------------------ MODULE MC_XRep ------------------------------
EXTENDS XRep
CONSTANTS a, b, u
MCPeers == {a, b}
=============================================================================

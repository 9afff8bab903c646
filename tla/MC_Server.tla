------------------------------ MODULE MC_Server ------------------------------
EXTENDS Server
CONSTANTS c1, c2
MCClients == {c1, c2}
=============================================================================

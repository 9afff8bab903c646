--------------------------- MODULE MC_HostRouting ---------------------------
(* Labels a, b, com: patterns com, a.com, b.com; names add a.b.com and    *)
(* the bare b, which no pattern ends.                                      *)
EXTENDS HostRouting

CONSTANTS hA, hB

MCPatterns == {<<"com">>, <<"a", "com">>, <<"b", "com">>}
MCNames == MCPatterns \cup {<<"a", "b", "com">>, <<"b">>}
MCDefaultHostname == <<"a", "com">>
=============================================================================

-------------------------- MODULE MC_ConnectionFSM --------------------------
(***************************************************************************)
(* A server configuration for checking ConnectionFSM: two hosts, one      *)
(* unknown host name, three paths, a handler, a directory and two         *)
(* proxies, so that a keep-alive proxy connection can meet a request for  *)
(* another host, another proxy on the same host, and a directory.         *)
(***************************************************************************)
EXTENDS ConnectionFSM, TLC

CONSTANTS hnA, hnB, hnX,      \* host names: of host A, of host B, unknown
          hA, hB,             \* Host objects
          p1, p2, p3,         \* paths
          bH, bD, bP, bQ      \* handler, directory, two proxies

MCBackendType == (bH :> "HANDLER") @@ (bD :> "DIR") @@ (bP :> "PROXY")
                 @@ (bQ :> "PROXY")

(* Host names come from the host table Server_match_backend resolves:    *)
(* hnA is a.com, hnB b.com and hnX x.org; the configuration registers     *)
(* a.com for A and b.com for B, names a.com as default_hostname and makes *)
(* A the default host.                                                    *)
Label == (hnA :> <<"a", "com">>) @@ (hnB :> <<"b", "com">>) @@ (hnX :> <<"x", "org">>)
MCRoutes == <<[pattern |-> Label[hnA], host |-> hA], [pattern |-> Label[hnB], host |-> hB]>>

Routing == INSTANCE HostRouting
             WITH Names <- {Label[n] : n \in HostNames},
                  Patterns <- {Label[hnA], Label[hnB]},
                  DefaultHostname <- Label[hnA], MaxRoutes <- 2,
                  routes <- MCRoutes, defaultHost <- hA

MCMatchHost == [n \in HostNames |-> Routing!Server_match_backend(MCRoutes, hA, Label[n])]

(* Host A: p1 -> proxy P, p2 -> proxy Q, p3 -> directory.                 *)
(* Host B: p1 -> handler, p2 -> directory, p3 -> nothing.                 *)
MCMatchBackend ==
  (<<hA, p1>> :> bP) @@ (<<hA, p2>> :> bQ) @@ (<<hA, p3>> :> bD)
  @@ (<<hB, p1>> :> bH) @@ (<<hB, p2>> :> bD) @@ (<<hB, p3>> :> NoBackend)
=============================================================================

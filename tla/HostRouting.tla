---------------------------- MODULE HostRouting ----------------------------
(***************************************************************************)
(* The server's host table (server.c): Server_add_host registers a host   *)
(* under a name pattern, Server_set_default_host designates the default,  *)
(* and Server_match_backend resolves the host name of a request.  A name *)
(* is a sequence of labels, "mail.example.com" being <<mail, example,     *)
(* com>>.  The RouteMap behind srv->hosts (RouteMap_insert_reversed and   *)
(* RouteMap_match_suffix, adt/) is not among the sources: it is modelled  *)
(* from the spec, longest registered suffix, the earlier registration on *)
(* a tie.  bstring_match (pattern.c, not among the sources) is taken as   *)
(* equality, which it is for a host name without pattern characters.      *)
(***************************************************************************)
EXTENDS Naturals, Sequences, SequencesExt

CONSTANTS
  Names,            \* host names, as label sequences, a request may carry
  Patterns,         \* host patterns a configuration may register
  Hosts,            \* Host objects
  NoHost,           \* NULL
  DefaultHostname,  \* srv->default_hostname, from the server's settings
  MaxRoutes         \* bound on the number of Server_add_host calls

ASSUME NoHost \notin Hosts /\ DefaultHostname \in Names

VARIABLES
  routes,       \* srv->hosts: <<[pattern, host]>> in registration order
  defaultHost   \* srv->default_host

vars == <<routes, defaultHost>>

TypeOK ==
  /\ routes \in Seq([pattern : Patterns, host : Hosts])
  /\ Len(routes) <= MaxRoutes
  /\ defaultHost \in Hosts \cup {NoHost}

(* RouteMap_match_suffix: the index of the route whose pattern is the     *)
(* longest suffix of the name, the first of equally long ones; 0 if none. *)
RouteMap_match_suffix(rs, name) ==
  LET fit == {k \in 1..Len(rs) : IsSuffix(rs[k].pattern, name)}
      best == {k \in fit : \A j \in fit :
                 \/ Len(rs[j].pattern) < Len(rs[k].pattern)
                 \/ Len(rs[j].pattern) = Len(rs[k].pattern) /\ k <= j}
  IN IF fit = {} THEN 0 ELSE CHOOSE k \in best : TRUE

bstring_match(s, pattern) == s = pattern

(* Server_match_backend: the matched route's host; with no match, the    *)
(* default host only when the name matches default_hostname, else NULL.   *)
Server_match_backend(rs, dflt, name) ==
  LET found == RouteMap_match_suffix(rs, name) IN
  IF found # 0 THEN rs[found].host
  ELSE IF bstring_match(name, DefaultHostname) THEN dflt
  ELSE NoHost

(* Server_add_host: RouteMap_insert_reversed appends the pattern.        *)
Server_add_host(p, h) ==
  /\ Len(routes) < MaxRoutes
  /\ routes' = Append(routes, [pattern |-> p, host |-> h])
  /\ UNCHANGED defaultHost

Server_set_default_host(h) ==
  /\ defaultHost' = h
  /\ UNCHANGED routes

Init ==
  /\ routes = <<>>
  /\ defaultHost = NoHost        \* h_calloc in Server_create

Next ==
  \/ \E p \in Patterns, h \in Hosts : Server_add_host(p, h)
  \/ \E h \in Hosts : Server_set_default_host(h)

Spec == Init /\ [][Next]_vars

-----------------------------------------------------------------------------
(* resolveHost of the spec (sections 3 and 7): the longest registered     *)
(* suffix, else the default host, else no match.                          *)
ResolveHost(name) ==
  LET fit == {k \in 1..Len(routes) : IsSuffix(routes[k].pattern, name)}
      len == {Len(routes[k].pattern) : k \in fit}
  IN IF fit = {} THEN defaultHost
     ELSE routes[CHOOSE k \in fit :
                   /\ \A m \in len : m <= Len(routes[k].pattern)
                   /\ \A j \in fit : Len(routes[j].pattern) = Len(routes[k].pattern) => k <= j].host

(* Whatever hosts the configuration registered and whichever it made the  *)
(* default, Server_match_backend resolves every host name as the spec's   *)
(* resolveHost does: an unmatched name goes to the default host.          *)
HostResolvedPerSpec ==
  \A n \in Names : Server_match_backend(routes, defaultHost, n) = ResolveHost(n)

=============================================================================

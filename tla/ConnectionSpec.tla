--------------------------- MODULE ConnectionSpec ---------------------------
(***************************************************************************)
(* What one client connection promises, whatever backend serves it.       *)
(* Requests are taken one at a time: the next is read only when the last  *)
(* is settled (delivered to its backend, or answered).  A request may be  *)
(* answered in the same step that reads it (a status written at once).    *)
(* Any phase may end in the terminal close.  Nothing promises that it    *)
(* does: libtask's fdwait has no timeout, so a connection whose peer     *)
(* stays silent stays open, and the specification has no fairness.       *)
(***************************************************************************)
EXTENDS Naturals

CONSTANT MaxRequests   \* the requests one connection reads at most

VARIABLES
  phase,    \* "idle" (no request pending), "busy" or "closed"
  served    \* requests read so far

Init == phase = "idle" /\ served = 0

(* Read the next request; it is pending until settled.                    *)
Read ==
  /\ phase = "idle" /\ served < MaxRequests
  /\ phase' = "busy" /\ served' = served + 1

(* Read a request and answer it in the same step.                         *)
ReadAnswered ==
  /\ phase = "idle" /\ served < MaxRequests
  /\ served' = served + 1 /\ UNCHANGED phase

(* The pending request is delivered or answered.                          *)
Settle == phase = "busy" /\ phase' = "idle" /\ UNCHANGED served

(* The terminal close, from any phase.                                    *)
Close == phase # "closed" /\ phase' = "closed" /\ UNCHANGED served

Next == Read \/ ReadAnswered \/ Settle \/ Close

Spec == Init /\ [][Next]_<<phase, served>>

=============================================================================

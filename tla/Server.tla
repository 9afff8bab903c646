------------------------------- MODULE Server -------------------------------
(***************************************************************************)
(* The accept loop of Server_start (server.c) with Connection_create and  *)
(* Connection_accept (connection.c) and the outcomes of netaccept         *)
(* (task/net.c).  Clients connect to the listening socket at any time;    *)
(* the server task waits for one, accepts it, builds its Connection and   *)
(* spawns a task for it.  A spawned task runs Connection_task, which      *)
(* ends (ConnectionFSM checks that); a task spawned for a NULL            *)
(* Connection dereferences it at once and the whole process dies.         *)
(* RUNNING is never cleared among the sources, so the loop's RUNNING test *)
(* is always true here.                                                   *)
(***************************************************************************)
CONSTANTS
  Clients,        \* connection attempts, model values
  NoClient,       \* cfd when no accepted client is pending
  DefaultHostSet  \* srv->default_host was configured

ASSUME DefaultHostSet \in BOOLEAN /\ NoClient \notin Clients

VARIABLES
  srvpc,    \* the server task: "start", "accept", "create", "exited", "aborted"
  backlog,  \* clients connected to the listening socket, not yet accepted
  cfd,      \* the client netaccept returned, while its Connection is built
  task,     \* per client: "none", "queued" (NULL conn), "running", "done"
  crashed   \* the process died

vars == <<srvpc, backlog, cfd, task, crashed>>

Live == ~crashed

(* A client connects to the listening socket (listen backlog 16, larger   *)
(* than any Clients set checked here).                                    *)
Connect(c) ==
  /\ Live /\ task[c] = "none" /\ c \notin backlog /\ c # cfd
  /\ backlog' = backlog \cup {c}
  /\ UNCHANGED <<srvpc, cfd, task, crashed>>

(* Server_start: without a default host the startup check fails and      *)
(* taskexitall ends every task; otherwise the accept loop begins.        *)
Start ==
  /\ Live /\ srvpc = "start"
  /\ srvpc' = IF DefaultHostSet THEN "accept" ELSE "aborted"
  /\ UNCHANGED <<backlog, cfd, task, crashed>>

(* netaccept: fdwait until the listening socket is readable, then accept.*)
(* accept fails (out of descriptors, a connection aborted by the peer)   *)
(* and netaccept returns -1, which ends the while loop of Server_start.  *)
NetAccept ==
  /\ Live /\ srvpc = "accept" /\ backlog # {}
  /\ \/ \E c \in backlog :
          /\ cfd' = c /\ backlog' = backlog \ {c} /\ srvpc' = "create"
     \/ /\ srvpc' = "exited"
        /\ UNCHANGED <<backlog, cfd>>
  /\ UNCHANGED <<task, crashed>>

(* Connection_create either returns the Connection or, when an allocation*)
(* or Request_create fails, NULL; either way Connection_accept hands it  *)
(* to taskcreate and the loop goes back to netaccept.                     *)
CreateAndAccept ==
  /\ Live /\ srvpc = "create"
  /\ \E ok \in BOOLEAN :
       task' = [task EXCEPT ![cfd] = IF ok THEN "running" ELSE "queued"]
  /\ cfd' = NoClient /\ srvpc' = "accept"
  /\ UNCHANGED <<backlog, crashed>>

(* The scheduler runs a spawned task.  Connection_task runs to its end;   *)
(* for a NULL Connection its first statement, State_init(&conn->state,   *)
(* ...), faults and takes the process down.                              *)
RunTask(c) ==
  /\ Live /\ task[c] \in {"running", "queued"}
  /\ IF task[c] = "running"
     THEN task' = [task EXCEPT ![c] = "done"] /\ UNCHANGED crashed
     ELSE crashed' = TRUE /\ UNCHANGED task
  /\ UNCHANGED <<srvpc, backlog, cfd>>

Init ==
  /\ srvpc = "start" /\ backlog = {} /\ cfd = NoClient
  /\ task = [c \in Clients |-> "none"]
  /\ crashed = FALSE

Next ==
  \/ \E c \in Clients : Connect(c) \/ RunTask(c)
  \/ Start \/ NetAccept \/ CreateAndAccept

(* libtask runs every ready task in turn: the server task whenever the   *)
(* listening socket is readable, and each spawned task.                   *)
Spec ==
  /\ Init /\ [][Next]_vars
  /\ WF_vars(Start) /\ WF_vars(NetAccept) /\ WF_vars(CreateAndAccept)
  /\ \A c \in Clients : WF_vars(RunTask(c))

-----------------------------------------------------------------------------
=============================================================================

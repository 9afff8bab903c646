--------------------------- MODULE ConnectionFSM ---------------------------
(***************************************************************************)
(* One client connection of the server, as driven by Connection_task      *)
(* (src/src/connection.c).  The task starts with the OPEN event, hands the *)
(* current event to the state table, runs the action the table binds to   *)
(* it, and takes the action's return value as the next event, until that *)
(* value is CLOSE; it then runs the close action once more as cleanup.    *)
(*                                                                         *)
(* Data is abstracted to what the properties tell apart: a request is a   *)
(* record of its protocol kind, host name, path, keep-alive flag, body    *)
(* size class and ping flag; every collaborator call (socket read/write,  *)
(* handler delivery, upstream dial, file serving) is a nondeterministic   *)
(* success or failure.  Byte accounting is the subject of ClientStream.   *)
(***************************************************************************)
EXTENDS Integers, FiniteSets

CONSTANTS
  HostNames,     \* host names a request may carry
  NoHostName,    \* a request without a Host header
  Hosts,         \* configured Host objects
  NoHost,        \* "no host matched" (NULL Host *)
  Paths,         \* request paths
  Backends,      \* configured backends
  NoBackend,     \* "no backend matched" (NULL Backend *)
  BackendType,   \* [Backends -> {"HANDLER", "DIR", "PROXY"}]
  MatchHost,     \* Server_match_backend: [HostNames -> Hosts \cup {NoHost}]
  DefaultHost,   \* srv->default_host
  MatchBackend,  \* Host_match_backend: [Hosts \X Paths -> Backends \cup {NoBackend}]
  MaxRequests    \* the client sends at most this many requests

ASSUME BackendType \in [Backends -> {"HANDLER", "DIR", "PROXY"}]
ASSUME MatchHost \in [HostNames -> Hosts \cup {NoHost}]
ASSUME DefaultHost \in Hosts \cup {NoHost}
ASSUME MatchBackend \in [Hosts \X Paths -> Backends \cup {NoBackend}]
ASSUME MaxRequests \in Nat \ {0}

VARIABLES
  ev,          \* the driver's `next`: the event handed to State_exec
  st,          \* the state of the event table
  pc,          \* "loop" while Connection_task iterates, "done" after cleanup
  req,         \* conn->req: the current request
  nreq,        \* requests read on this connection so far
  close,       \* conn->close, set by check_should_close
  action,      \* conn->req->action: the backend bound by routing
  targetHost,  \* conn->req->target_host
  inRegister,  \* Register_connect(conn->fd, ...) has been called
  disconnects, \* number of Register_disconnect(conn->fd) calls
  proxyFd,     \* conn->proxy_fd (0 = none)
  upstreams,   \* upstream sockets dialled and not yet closed
  upstreamEof, \* the current upstream socket was read until it closed
  resp,        \* responses written to the client for the current request
  delivered,   \* the current request reached a handler (or was ping-acked)
  upFault      \* an upstream fault happened on the current request

vars == <<ev, st, pc, req, nreq, close, action, targetHost, inRegister,
          disconnects, proxyFd, upstreams, upstreamEof, resp, delivered,
          upFault>>

Bodies == {"NONE", "SMALL", "LARGE"}   \* 0, <= MAX_CONTENT_LENGTH, larger

(* The requests Connection_read_header can hand over: fields that do not  *)
(* apply to a kind are fixed, so each distinct request occurs once.       *)
Requests ==
  [kind : {"HTTP"}, hostName : HostNames \cup {NoHostName}, path : Paths,
   close : BOOLEAN, body : Bodies, ping : {FALSE}]
  \cup
  [kind : {"JSON"}, hostName : HostNames \cup {NoHostName}, path : Paths,
   close : BOOLEAN, body : {"NONE"}, ping : BOOLEAN]
  \cup
  [kind : {"SOCKET"}, hostName : {NoHostName}, path : Paths,
   close : {FALSE}, body : {"NONE"}, ping : {FALSE}]

NoReq == [kind |-> "NONE"]

Events == {"OPEN", "ACCEPT", "REQ_RECV", "HTTP_REQ", "MSG_REQ", "SOCKET_REQ",
           "HANDLER", "DIRECTORY", "PROXY", "REQ_SENT", "RESP_SENT",
           "CONNECT", "FAILED", "REMOTE_CLOSE", "CLOSE"}

(***************************************************************************)
(* The event table: <<state, event, action, next state>>.  The table      *)
(* (state.rl) is not among the sources; it is written from the spec's     *)
(* account of the transitions.  An event with no row in the current state *)
(* does not occur: every action returns an event its target state takes.  *)
(***************************************************************************)
Table ==
  { <<"Start",        "OPEN",       "open",                 "Accepting">>,
    <<"Accepting",    "ACCEPT",     "parse",                "Idle">>,
    <<"Idle",         "REQ_RECV",   "register_request",     "Queueing">>,
    <<"Reading",      "REQ_RECV",   "identify_request",     "Queueing">>,
    <<"Queueing",     "HTTP_REQ",   "route_request",        "HTTPRouting">>,
    <<"Queueing",     "MSG_REQ",    "route_request",        "MSGRouting">>,
    <<"Queueing",     "SOCKET_REQ", "send_socket_response", "Responding">>,
    <<"HTTPRouting",  "HANDLER",    "http_to_handler",      "Delivered">>,
    <<"HTTPRouting",  "DIRECTORY",  "http_to_directory",    "Responding">>,
    <<"HTTPRouting",  "PROXY",      "http_to_proxy",        "Connecting">>,
    <<"MSGRouting",   "HANDLER",    "msg_to_handler",       "Delivered">>,
    <<"MSGRouting",   "DIRECTORY",  "msg_to_handler",       "Delivered">>,
    <<"MSGRouting",   "PROXY",      "msg_to_handler",       "Delivered">>,
    <<"Delivered",    "REQ_SENT",   "parse",                "Reading">>,
    <<"Responding",   "RESP_SENT",  "parse",                "Reading">>,
    <<"Connecting",   "CONNECT",    "proxy_deliver",        "Sending">>,
    <<"Connecting",   "FAILED",     "proxy_failed",         "Closing">>,
    <<"Sending",      "REQ_SENT",   "proxy_reply_parse",    "Receiving">>,
    <<"Sending",      "REMOTE_CLOSE", "proxy_close",        "Closing">>,
    <<"Receiving",    "REQ_RECV",   "proxy_req_parse",      "ProxyRouting">>,
    <<"Receiving",    "FAILED",     "proxy_failed",         "Closing">>,
    <<"ProxyRouting", "HTTP_REQ",   "proxy_deliver",        "Sending">>,
    <<"ProxyRouting", "PROXY",      "http_to_proxy",        "Connecting">>,
    <<"ProxyRouting", "HANDLER",    "http_to_handler",      "Delivered">>,
    <<"ProxyRouting", "DIRECTORY",  "http_to_directory",    "Responding">>,
    <<"ProxyRouting", "REMOTE_CLOSE", "proxy_close",        "Closing">> }

States == {t[1] : t \in Table} \cup {t[4] : t \in Table}

(* State_exec(&conn->state, ev, conn) runs action a: the loop is running, *)
(* the table binds the current event to a here, and moves to its target.  *)
Fires(a) ==
  /\ pc = "loop"
  /\ ev # "CLOSE"
  /\ \E t \in Table : /\ t[1] = st /\ t[2] = ev /\ t[3] = a
                      /\ st' = t[4]

(* Response_send_status: one more response on the client socket.          *)
SendStatus == resp' = resp + 1

(* Connection_backend_event: the event naming a backend's kind.           *)
Connection_backend_event(b) ==
  CASE BackendType[b] = "HANDLER" -> "HANDLER"
    [] BackendType[b] = "DIR"     -> "DIRECTORY"
    [] BackendType[b] = "PROXY"   -> "PROXY"

(* The host connection_route_request selects for a request.               *)
RouteHost(r) ==
  IF r.hostName # NoHostName THEN MatchHost[r.hostName] ELSE DefaultHost

(* The backend routing a request by its own host and path selects.        *)
RouteOf(r) ==
  IF RouteHost(r) = NoHost THEN NoBackend ELSE MatchBackend[RouteHost(r), r.path]

-----------------------------------------------------------------------------
(***************************************************************************)
(* Connection_read_header, as used by connection_parse and               *)
(* connection_proxy_req_parse.  It receives until the parser reports a    *)
(* whole header.  Since recv never returns more than `remaining`, the     *)
(* loop of connection_parse (nread reset to 0) ends only with a header or *)
(* with a failed recv (the client went away, or the buffer is full of     *)
(* bytes the parser rejected): its 400 is never sent.  Only when          *)
(* proxy_req_parse keeps a stale nread can `remaining` go negative and    *)
(* the 400 of error_unless(finished == 1) be sent (ReadRejected).  A     *)
(* parsed request r has its keep-alive flag copied into conn->close by    *)
(* check_should_close and starts a new response count; sent is the       *)
(* number of statuses the caller then writes for it.                      *)
(***************************************************************************)
ReadFail ==
  UNCHANGED <<req, nreq, close, resp, delivered, upFault>>

ReadRejected ==
  /\ SendStatus
  /\ UNCHANGED <<req, nreq, close, delivered, upFault>>

ReadOk(r, sent) ==
  /\ nreq < MaxRequests
  /\ req' = r
  /\ nreq' = nreq + 1
  /\ close' = r.close
  /\ resp' = sent
  /\ delivered' = FALSE
  /\ upFault' = FALSE

-----------------------------------------------------------------------------
(* connection_open: returns ACCEPT (conn->registered is never read).      *)
Open ==
  /\ Fires("open")
  /\ ev' = "ACCEPT"
  /\ UNCHANGED <<pc, req, nreq, close, action, targetHost, inRegister,
                 disconnects, proxyFd, upstreams, upstreamEof, resp,
                 delivered, upFault>>

(* Mutant of Parse: a failed read returns FINISHED, the value connection_ *)
(* finish returns, instead of CLOSE.                                      *)
Parse_returnsFinished ==
  /\ Fires("parse")
  /\ \/ /\ ReadFail
        /\ ev' = "FINISHED"
     \/ /\ \E r \in Requests : ReadOk(r, 0)
        /\ ev' = "REQ_RECV"
  /\ UNCHANGED <<pc, action, targetHost, inRegister, disconnects, proxyFd,
                 upstreams, upstreamEof>>

(* connection_parse: nread = 0, then read a whole header or close.        *)
Parse ==
  /\ Fires("parse")
  /\ \/ /\ ReadFail
        /\ ev' = "CLOSE"
     \/ /\ \E r \in Requests : ReadOk(r, 0)
        /\ ev' = "REQ_RECV"
  /\ UNCHANGED <<pc, action, targetHost, inRegister, disconnects, proxyFd,
                 upstreams, upstreamEof>>

(* ident_and_register: classify the request by protocol kind; the first   *)
(* request of a connection (register_request) also registers conn->fd.    *)
IdentAndRegister(a, regToo) ==
  /\ Fires(a)
  /\ ev' = CASE req.kind = "SOCKET" -> "SOCKET_REQ"
             [] req.kind = "JSON"   -> "MSG_REQ"
             [] req.kind = "HTTP"   -> "HTTP_REQ"
  /\ inRegister' = (inRegister \/ regToo)
  /\ UNCHANGED <<pc, req, nreq, close, action, targetHost, disconnects,
                 proxyFd, upstreams, upstreamEof, resp, delivered, upFault>>

Register_request == IdentAndRegister("register_request", TRUE)
Identify_request == IdentAndRegister("identify_request", FALSE)

(* connection_route_request: host by name (or the default host when the   *)
(* request has none), then backend by path; a miss of either is a 404.    *)
Route_request ==
  /\ Fires("route_request")
  /\ LET host  == RouteHost(req)
         found == IF host = NoHost THEN NoBackend ELSE MatchBackend[host, req.path]
     IN \/ /\ found = NoBackend
           /\ SendStatus
           /\ ev' = "CLOSE"
           /\ UNCHANGED <<action, targetHost>>
        \/ /\ found # NoBackend
           /\ action' = found
           /\ targetHost' = host
           /\ ev' = Connection_backend_event(found)
           /\ UNCHANGED resp
  /\ UNCHANGED <<pc, req, nreq, close, inRegister, disconnects, proxyFd,
                 upstreams, upstreamEof, delivered, upFault>>

(* connection_send_socket_response: the socket policy reply.              *)
Send_socket_response ==
  /\ Fires("send_socket_response")
  /\ \/ /\ SendStatus /\ ev' = "RESP_SENT"
     \/ /\ ev' = "CLOSE" /\ UNCHANGED resp
  /\ UNCHANGED <<pc, req, nreq, close, action, targetHost, inRegister,
                 disconnects, proxyFd, upstreams, upstreamEof, delivered,
                 upFault>>

(* connection_msg_to_handler: a JSON request whose bound backend is not a *)
(* handler closes silently; a ping is acknowledged through Register_ping; *)
(* anything else is delivered to the handler, closing if that fails.      *)
Msg_to_handler ==
  /\ Fires("msg_to_handler")
  /\ \/ /\ BackendType[action] # "HANDLER"
        /\ ev' = "CLOSE"
        /\ UNCHANGED delivered
     \/ /\ BackendType[action] = "HANDLER"
        /\ req.ping
        /\ delivered' = TRUE
        /\ ev' = "REQ_SENT"
     \/ /\ BackendType[action] = "HANDLER"
        /\ ~req.ping
        /\ \E ok \in BOOLEAN :
             /\ delivered' = ok
             /\ ev' = IF ok THEN "REQ_SENT" ELSE "CLOSE"
  /\ UNCHANGED <<pc, req, nreq, close, action, targetHost, inRegister,
                 disconnects, proxyFd, upstreams, upstreamEof, resp, upFault>>

(* connection_http_to_handler: the bound backend is a handler (the 404    *)
(* branch for a missing handler cannot be taken after HANDLER).  A small  *)
(* body is read in full from the client first; a body over                *)
(* MAX_CONTENT_LENGTH goes through connection_upload_file, which answers  *)
(* 413 when no upload.temp_store is configured and otherwise fails        *)
(* silently; then the request is delivered, 502 if delivery fails.        *)
BodyOutcomes(b) ==
  CASE b = "NONE"  -> {"ok"}
    [] b = "SMALL" -> {"ok", "readfail"}
    [] b = "LARGE" -> {"ok", "nostore", "uploadfail"}

Http_to_handler ==
  /\ Fires("http_to_handler")
  /\ \E body \in BodyOutcomes(req.body) :
       \/ /\ body # "ok"
          /\ resp' = IF body = "nostore" THEN resp + 1 ELSE resp
          /\ ev' = "CLOSE"
          /\ UNCHANGED delivered
       \/ /\ body = "ok"
          /\ \E ok \in BOOLEAN :
               /\ delivered' = ok
               /\ resp' = IF ok THEN resp ELSE resp + 1
               /\ ev' = IF ok THEN "REQ_SENT" ELSE "CLOSE"
  /\ UNCHANGED <<pc, req, nreq, close, action, targetHost, inRegister,
                 disconnects, proxyFd, upstreams, upstreamEof, upFault>>

(* Mutant of Http_to_directory: the check on Dir_serve_file's result is   *)
(* dropped, so a failed write still returns RESP_SENT.                    *)
Http_to_directory_ignoresFailure ==
  /\ Fires("http_to_directory")
  /\ \/ /\ SendStatus
        /\ ev' = IF close THEN "CLOSE" ELSE "RESP_SENT"
     \/ /\ SendStatus
        /\ ev' = "CLOSE"
     \/ /\ ev' = IF close THEN "CLOSE" ELSE "RESP_SENT"
        /\ UNCHANGED resp
  /\ UNCHANGED <<pc, req, nreq, close, action, targetHost, inRegister,
                 disconnects, proxyFd, upstreams, upstreamEof, delivered,
                 upFault>>

(* connection_http_to_directory: Dir_serve_file either serves the file,   *)
(* or answers a resolution failure with an error status, or fails to      *)
(* write; only a served file on a keep-alive connection continues.        *)
Http_to_directory ==
  /\ Fires("http_to_directory")
  /\ \/ /\ SendStatus
        /\ ev' = IF close THEN "CLOSE" ELSE "RESP_SENT"
     \/ /\ SendStatus
        /\ ev' = "CLOSE"
     \/ /\ ev' = "CLOSE"
        /\ UNCHANGED resp
  /\ UNCHANGED <<pc, req, nreq, close, action, targetHost, inRegister,
                 disconnects, proxyFd, upstreams, upstreamEof, delivered,
                 upFault>>

(* netdial (task/net.c) dialling socket n: what it returns and which     *)
(* sockets it leaves open.  netlookup or socket failing opens nothing;    *)
(* connect failing, or getpeername after the wait, closes the socket and  *)
(* returns -1; fdwait failing returns -1 with the socket still open.      *)
netdial(n) ==
  { [fd |-> -1, open |-> {}],
    [fd |-> -1, open |-> {n}],
    [fd |-> n,  open |-> {n}] }

(* connection_http_to_proxy: conn->proxy_fd = netdial(...), whatever it   *)
(* held before; a failed dial stores -1 and returns FAILED.  The socket   *)
(* dialled for the n-th request is named n.                               *)
Http_to_proxy ==
  /\ Fires("http_to_proxy")
  /\ \E r \in netdial(nreq) :
       /\ proxyFd' = r.fd
       /\ upstreams' = upstreams \cup r.open
       /\ \/ /\ r.fd # -1
             /\ upstreamEof' = FALSE
             /\ ev' = "CONNECT"
             /\ UNCHANGED upFault
          \/ /\ r.fd = -1
             /\ upFault' = TRUE
             /\ ev' = "FAILED"
             /\ UNCHANGED upstreamEof
  /\ UNCHANGED <<pc, req, nreq, close, action, targetHost, inRegister,
                 disconnects, resp, delivered>>

(* connection_proxy_deliver: write the buffered request to the upstream,  *)
(* streaming the rest of a body from the client; a failed write to the    *)
(* upstream, or a failed read of the body from the client, is             *)
(* REMOTE_CLOSE.                                                           *)
Proxy_deliver ==
  /\ Fires("proxy_deliver")
  /\ \/ /\ ev' = "REQ_SENT"
        /\ UNCHANGED upFault
     \/ /\ ev' = "REMOTE_CLOSE"
        /\ upFault' = TRUE
     \/ /\ req.body # "NONE"
        /\ ev' = "REMOTE_CLOSE"
        /\ UNCHANGED upFault
  /\ UNCHANGED <<pc, req, nreq, close, action, targetHost, inRegister,
                 disconnects, proxyFd, upstreams, upstreamEof, resp,
                 delivered>>

(* connection_proxy_reply_parse: read and parse the upstream reply        *)
(* header, then relay it chunked, by content length, or (with neither)    *)
(* by copying until the upstream closes its socket.                       *)
Proxy_reply_parse ==
  /\ Fires("proxy_reply_parse")
  /\ \/ /\ ev' = "FAILED"                      \* read/parse or streaming failed
        /\ upFault' = TRUE
        /\ UNCHANGED <<resp, upstreamEof>>
     \/ /\ ev' = "REQ_RECV"                    \* chunked or content-length reply
        /\ SendStatus
        /\ UNCHANGED <<upFault, upstreamEof>>
     \/ /\ ev' = "REQ_RECV"                    \* read until close
        /\ SendStatus
        /\ upstreamEof' = TRUE
        /\ UNCHANGED upFault
     \/ /\ ev' = "FAILED"                      \* read until close, client send failed
        /\ SendStatus
        /\ UNCHANGED <<upFault, upstreamEof>>
  /\ UNCHANGED <<pc, req, nreq, close, action, targetHost, inRegister,
                 disconnects, proxyFd, upstreams, delivered>>

(* connection_proxy_req_parse: read the next request on the connection    *)
(* and route it against the Host of the previous one.  The "light find"   *)
(* compares the new request's host with a copy of itself, so it always    *)
(* matches and the branch returning PROXY for a changed host is never     *)
(* taken; the new path is matched in the old target_host.  A non-HTTP     *)
(* request is a 400, an unmatched path a 404, both REMOTE_CLOSE; the same *)
(* backend keeps the upstream socket (HTTP_REQ), another one is routed to.*)
Proxy_req_parse ==
  /\ Fires("proxy_req_parse")
  /\ \/ /\ ReadFail \/ ReadRejected
        /\ ev' = "REMOTE_CLOSE"
        /\ UNCHANGED action
     \/ \E r \in Requests :
          LET found == MatchBackend[targetHost, r.path] IN
          \/ /\ r.kind # "HTTP" \/ found = NoBackend
             /\ ReadOk(r, 1)
             /\ ev' = "REMOTE_CLOSE"
             /\ UNCHANGED action
          \/ /\ r.kind = "HTTP"
             /\ found \notin {NoBackend, action}
             /\ ReadOk(r, 0)
             /\ action' = found
             /\ ev' = Connection_backend_event(found)
          \/ /\ r.kind = "HTTP"
             /\ found = action
             /\ ReadOk(r, 0)
             /\ ev' = "HTTP_REQ"
             /\ UNCHANGED action
  /\ UNCHANGED <<pc, targetHost, inRegister, disconnects, proxyFd, upstreams,
                 upstreamEof>>

(* connection_proxy_failed: answer 502 and close.                         *)
Proxy_failed ==
  /\ Fires("proxy_failed")
  /\ SendStatus
  /\ ev' = "CLOSE"
  /\ UNCHANGED <<pc, req, nreq, close, action, targetHost, inRegister,
                 disconnects, proxyFd, upstreams, upstreamEof, delivered,
                 upFault>>

(* connection_proxy_close: fdclose(conn->proxy_fd); conn->proxy_fd = 0.   *)
CloseProxyFd ==
  /\ upstreams' = upstreams \ {proxyFd}
  /\ proxyFd' = 0

Proxy_close ==
  /\ Fires("proxy_close")
  /\ CloseProxyFd
  /\ ev' = "CLOSE"
  /\ UNCHANGED <<pc, req, nreq, close, action, targetHost, inRegister,
                 disconnects, upstreamEof, resp, delivered, upFault>>

(* The end of Connection_task: the loop has returned CLOSE, and           *)
(* State_exec(CLOSE) runs connection_close, i.e. close_or_error: close    *)
(* the upstream socket if conn->proxy_fd is set, then                     *)
(* Register_disconnect(conn->fd).  The task then returns.                 *)
Close ==
  /\ pc = "loop"
  /\ ev = "CLOSE"
  /\ IF proxyFd # 0 THEN CloseProxyFd ELSE UNCHANGED <<proxyFd, upstreams>>
  /\ disconnects' = disconnects + 1
  /\ pc' = "done"
  /\ st' = "Closed"
  /\ UNCHANGED <<ev, req, nreq, close, action, targetHost, inRegister,
                 upstreamEof, resp, delivered, upFault>>

-----------------------------------------------------------------------------
Init ==
  /\ ev = "OPEN"
  /\ st = "Start"
  /\ pc = "loop"
  /\ req = NoReq
  /\ nreq = 0
  /\ close = FALSE
  /\ action = NoBackend
  /\ targetHost = NoHost
  /\ inRegister = FALSE
  /\ disconnects = 0
  /\ proxyFd = 0
  /\ upstreams = {}
  /\ upstreamEof = FALSE
  /\ resp = 0
  /\ delivered = FALSE
  /\ upFault = FALSE

Next ==
  \/ Open \/ Parse \/ Register_request \/ Identify_request \/ Route_request
  \/ Send_socket_response \/ Msg_to_handler \/ Http_to_handler
  \/ Http_to_directory \/ Http_to_proxy \/ Proxy_deliver
  \/ Proxy_reply_parse \/ Proxy_req_parse \/ Proxy_failed \/ Proxy_close
  \/ Close

(* No fairness: the reads the task blocks in (fdread, fdwait in          *)
(* libtask) have no timeout, so a task may wait forever on a silent peer *)
(* or upstream; what is checked of this module is safety only.           *)
Spec == Init /\ [][Next]_vars

-----------------------------------------------------------------------------
TypeOK ==
  /\ ev \in Events
  /\ st \in States \cup {"Closed"}
  /\ pc \in {"loop", "done"}
  /\ req \in Requests \cup {NoReq}
  /\ nreq \in 0..MaxRequests
  /\ close \in BOOLEAN
  /\ action \in Backends \cup {NoBackend}
  /\ targetHost \in Hosts \cup {NoHost}
  /\ inRegister \in BOOLEAN
  /\ disconnects \in Nat
  /\ proxyFd \in -1..MaxRequests
  /\ upstreams \subseteq 1..MaxRequests
  /\ upstreamEof \in BOOLEAN
  /\ resp \in Nat
  /\ delivered \in BOOLEAN
  /\ upFault \in BOOLEAN

(* A request is settled once a handler has it, or the client has been     *)
(* answered (a status, a served file, or a relayed upstream reply).       *)
Settled == delivered \/ resp > 0

(* The refinement mapping onto ConnectionSpec: the connection is closed  *)
(* once the final cleanup has run, busy while the last request read is    *)
(* not settled, and idle otherwise; it has served nreq requests.          *)
AbsPhase ==
  IF pc = "done" THEN "closed"
  ELSE IF nreq > 0 /\ ~Settled THEN "busy" ELSE "idle"

Abs == INSTANCE ConnectionSpec WITH phase <- AbsPhase, served <- nreq

(***************************************************************************)
(* Connection_task with its actions implements ConnectionSpec: on a       *)
(* keep-alive connection connection_parse and connection_proxy_req_parse  *)
(* read request n+1 only after request n is delivered or answered, never *)
(* more than MaxRequests of them, and no step follows the terminal close *)
(* (after close_or_error the task has returned).                          *)
(***************************************************************************)
ImplementsConnectionSpec == Abs!Spec

(***************************************************************************)
(* Routing: every request reaches the backend that routing its own host   *)
(* and path selects, also on a keep-alive proxy connection                *)
(* (connection_proxy_req_parse).                                          *)
(***************************************************************************)
Dispatching ==
  /\ pc = "loop"
  /\ \/ ev \in {"HANDLER", "DIRECTORY", "PROXY"}
     \/ st = "ProxyRouting" /\ ev = "HTTP_REQ"

RoutedByOwnHost == Dispatching => action = RouteOf(req)

(***************************************************************************)
(* Upstream sockets: when the task has ended, every upstream socket that  *)
(* connection_http_to_proxy dialled has been closed.                      *)
(***************************************************************************)
NoUpstreamLeak == pc = "done" => upstreams = {}

(***************************************************************************)
(* Upstream faults (dial, write, read or short reply) are answered to the *)
(* client with a 502 before the connection closes (proxy_close and        *)
(* proxy_failed, spec section 4.2 and 7(d)).                              *)
(***************************************************************************)
UpstreamFaultAnswered == pc = "done" /\ upFault => resp > 0

(***************************************************************************)
(* Upstream faults are handled as spec section 7(d) says: the client gets *)
(* a 502, and by the time the task ends every upstream socket it dialled  *)
(* (connection_http_to_proxy, proxy_close) has been torn down.            *)
(***************************************************************************)
UpstreamFaultHandled == NoUpstreamLeak /\ UpstreamFaultAnswered

(***************************************************************************)
(* A reply without content length or chunked encoding is read until the   *)
(* upstream closes; its socket is then never reused for the next request  *)
(* (spec section 9), i.e. proxy_deliver never writes to it.               *)
(***************************************************************************)
NoReuseAfterEof == ~(st = "ProxyRouting" /\ ev = "HTTP_REQ" /\ upstreamEof)

(***************************************************************************)
(* Keep-alive: once the server itself has answered a request that asked   *)
(* to close (HTTP/1.0, or "Connection: close"), the connection reads no   *)
(* further request (spec section 8; check_should_close sets conn->close). *)
(***************************************************************************)
CloseHonoured ==
  [][nreq' > nreq /\ nreq > 0 /\ resp > 0 => ~close]_vars

(***************************************************************************)
(* Proxy keep-alive goes on to another request only when it may: never    *)
(* over an upstream socket read until EOF, and never after a request that *)
(* asked to close (connection_proxy_req_parse, connection.c:474-514).     *)
(***************************************************************************)
ProxyKeepAliveSound ==
  [][/\ NoReuseAfterEof'
     /\ nreq' > nreq /\ nreq > 0 /\ resp > 0 => ~close]_vars
===========================================================================

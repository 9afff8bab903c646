---------------------------- MODULE ClientStream ----------------------------
(***************************************************************************)
(* The byte-level view of one mongrel2 client connection (connection.c).   *)
(* The client writes a fixed stream of requests; every byte is labelled    *)
(* <<i, k>>, the k-th byte of the i-th request, so that a byte that is     *)
(* lost, duplicated or moved is visible.  The server side is conn->buf,   *)
(* conn->nread and the loops that call conn->recv: Connection_read_header, *)
(* the small-body read of connection_http_to_handler,                      *)
(* connection_upload_file and connection_proxy_deliver.  Each recv is a   *)
(* step of its own, since it is where the task suspends; recv returns any  *)
(* number of the bytes that have arrived, up to the length asked for.      *)
(***************************************************************************)
EXTENDS Integers, Sequences, SequencesExt

CONSTANTS
  BUFFER_SIZE,          \* conn->buf is allocated with BUFFER_SIZE + 1 bytes
  MAX_CONTENT_LENGTH,   \* larger bodies are streamed to an upload store
  Layouts,              \* the request streams a client may send
  ClientModes           \* subset of {"lockstep", "pipelined"}

(* A request on the wire: header and body length, the backend kind its    *)
(* route selects, and whether the parser accepts its header.              *)
ReqRecords ==
  [hdr : 1..BUFFER_SIZE - 1, body : 0..2 * BUFFER_SIZE,
   to : {"HANDLER", "PROXY"}, valid : BOOLEAN]

ASSUME /\ BUFFER_SIZE \in Nat \ {0, 1}
       /\ MAX_CONTENT_LENGTH \in Nat
       /\ Layouts \subseteq Seq(ReqRecords)
       /\ ClientModes \subseteq {"lockstep", "pipelined"}

VARIABLES
  layout,     \* the requests the client sends, in order
  mode,       \* lockstep: request i+1 is written once i is answered
  sent,       \* bytes of the stream the client has written
  eof,        \* the client has closed its end
  cpos,       \* bytes of the stream the server has received
  buf,        \* conn->buf, one entry per allocated byte
  nread,      \* conn->nread
  pc,         \* where the connection task is
  ptr,        \* cur_buf / body: the offset the next recv writes at
  remaining,  \* the local count of the running loop
  cur,        \* the request the server last parsed
  fwd,        \* bytes sent to the proxy for the current request
  file,       \* bytes written to the upload store
  store,      \* the upload store: "none", "open", "done" or "removed"
  got,        \* what each backend received: <<[req, bytes]>>
  rejected,   \* a 400 was written by Connection_read_header
  overflow    \* a recv wrote past the end of the allocation

vars == <<layout, mode, sent, eof, cpos, buf, nread, pc, ptr, remaining, cur,
          fwd, file, store, got, rejected, overflow>>

N == Len(layout)
Req(i) == layout[i]
HdrBytes(i) == [k \in 1..Req(i).hdr |-> <<i, k>>]
BodyBytes(i) == [k \in 1..Req(i).body |-> <<i, Req(i).hdr + k>>]
AllBytes(i) == HdrBytes(i) \o BodyBytes(i)
Wire == FlattenSeq([i \in 1..N |-> AllBytes(i)])
(* End(i): stream offset just past request i (End(0) = 0).               *)
End(i) == Len(FlattenSeq([k \in 1..i |-> AllBytes(k)]))
Bytes == {<<i, k>> : i \in 1..3, k \in 1..2 * BUFFER_SIZE + BUFFER_SIZE}
NUL == <<0, 0>>   \* a zero byte, written by no request

-----------------------------------------------------------------------------
(* The client.  A lockstep client writes the next request only after the  *)
(* previous one was answered; a pipelining one writes everything at once. *)
(* It may hang up at any moment.                                          *)
SendLimit ==
  IF mode = "pipelined" THEN Len(Wire)
  ELSE End(IF Len(got) < N THEN Len(got) + 1 ELSE N)

ClientSend ==
  /\ ~eof /\ sent < SendLimit
  /\ sent' = SendLimit
  /\ UNCHANGED <<layout, mode, eof, cpos, buf, nread, pc, ptr, remaining, cur,
                 fwd, file, store, got, rejected, overflow>>

ClientClose ==
  /\ ~eof
  /\ eof' = TRUE
  /\ UNCHANGED <<layout, mode, sent, cpos, buf, nread, pc, ptr, remaining, cur,
                 fwd, file, store, got, rejected, overflow>>

-----------------------------------------------------------------------------
(* conn->recv(conn, buf + off, len): fdrecv returns 0 for len 0 and at    *)
(* end of stream, blocks while nothing has arrived, and otherwise returns *)
(* between 1 and len of the bytes that have arrived.                      *)
RecvSizes(len) ==
  IF len <= 0 \/ (sent = cpos /\ eof) THEN {0}
  ELSE 1..IF len < sent - cpos THEN len ELSE sent - cpos

Incoming(n) == SubSeq(Wire, cpos + 1, cpos + n)

(* The bytes land at offsets off .. off+n-1; those past the allocation    *)
(* are lost to the heap (overflow).                                       *)
Put(b, off, s) ==
  [k \in 1..Len(b) |-> IF off < k /\ k <= off + Len(s) THEN s[k - off] ELSE b[k]]

Recv(off, n) ==
  /\ buf' = Put(buf, off, Incoming(n))
  /\ cpos' = cpos + n
  /\ overflow' = (overflow \/ off + n > Len(buf))

(* Request_parse over buf[0 .. len): the request whose complete header    *)
(* the buffer starts with, if the parser accepts it.                     *)
HeaderAt(b, len) ==
  {j \in 1..N : /\ Req(j).valid /\ Req(j).hdr <= len
                /\ SubSeq(b, 1, Req(j).hdr) = HdrBytes(j)}

(* The caller enters Connection_read_header: cur_buf = conn->buf and      *)
(* remaining = BUFFER_SIZE - 1.  connection_parse first sets nread to 0;  *)
(* connection_proxy_req_parse keeps it.                                   *)
StartHeader(n) ==
  /\ pc' = "header" /\ ptr' = 0 /\ remaining' = BUFFER_SIZE - 1
  /\ nread' = n

(* After a pass that did not finish the header: remaining = BUFFER_SIZE - *)
(* 1 - nread and cur_buf = conn->buf + nread.                             *)
NextChunk(len) == ptr' = len /\ remaining' = BUFFER_SIZE - 1 - len

(* One pass of the read loop of Connection_read_header.                   *)
ReadHeader ==
  /\ pc = "header"
  /\ \E n \in RecvSizes(remaining) :
       IF n = 0
       THEN /\ pc' = "closed"
            /\ UNCHANGED <<buf, cpos, nread, ptr, remaining, cur, rejected,
                           overflow>>
       ELSE LET len == nread + n
                found == HeaderAt(Put(buf, ptr, Incoming(n)), len) IN
            /\ Recv(ptr, n)
            /\ nread' = len
            /\ \/ /\ found # {}
                  /\ cur' \in found
                  /\ pc' = "dispatch"
                  /\ UNCHANGED <<ptr, remaining, rejected>>
               \/ /\ found = {} /\ BUFFER_SIZE - 1 - len >= 0
                  /\ NextChunk(len)
                  /\ UNCHANGED <<pc, cur, rejected>>
               \/ /\ found = {} /\ BUFFER_SIZE - 1 - len < 0
                  /\ rejected' = TRUE /\ pc' = "closed"
                  /\ UNCHANGED <<ptr, remaining, cur>>
  /\ UNCHANGED <<layout, mode, sent, eof, fwd, file, store, got>>

(* The backend received `bytes` for the current request; the answer has  *)
(* reached the client (the reply relay is ConnectionFSM's concern).       *)
Deliver(bytes) == got' = Append(got, [req |-> cur, bytes |-> bytes])

(* h_realloc(conn->buf, n): the first n bytes are kept, new ones are     *)
(* uninitialised.                                                         *)
Realloc(b, n) == [k \in 1..n |-> IF k <= Len(b) THEN b[k] ELSE NUL]

(* Mutant of NeedsRealloc: the buffer is also "grown" to BUFFER_SIZE.     *)
NeedsRealloc_atSize(total) == total >= BUFFER_SIZE

(* The small-body path grows conn->buf when the request is larger than    *)
(* BUFFER_SIZE.                                                           *)
NeedsRealloc(total) == total > BUFFER_SIZE

(* connection_http_to_handler for a body of at most MAX_CONTENT_LENGTH    *)
(* bytes, up to its read loop: grow the buffer to `total` when it is      *)
(* larger than BUFFER_SIZE; if fewer than `total` bytes are in, read      *)
(* `remaining = content_len` more at buf + nread; otherwise deliver       *)
(* buf[header_len .. total) and go back to connection_parse.              *)
HttpToHandler ==
  /\ pc = "dispatch" /\ Req(cur).to = "HANDLER"
  /\ Req(cur).body <= MAX_CONTENT_LENGTH
  /\ LET total == Req(cur).hdr + Req(cur).body
         b == IF NeedsRealloc(total) THEN Realloc(buf, total) ELSE buf IN
     /\ buf' = b
     /\ IF nread < total
        THEN /\ pc' = "body" /\ ptr' = nread /\ remaining' = Req(cur).body
             /\ UNCHANGED <<nread, got>>
        ELSE /\ Deliver(SubSeq(b, Req(cur).hdr + 1, total))
             /\ StartHeader(0)
  /\ UNCHANGED <<layout, mode, sent, eof, cpos, cur, fwd, file, store,
                 rejected, overflow>>

(* Mutant of BodyAdvance: the body pointer is not moved on.               *)
BodyAdvance_keepPtr(n) == ptr' = ptr /\ remaining' = remaining - n

(* remaining -= rc, body += rc                                            *)
BodyAdvance(n) == ptr' = ptr + n /\ remaining' = remaining - n

(* One pass of the body loop of connection_http_to_handler: recv at      *)
(* `body`, which advances; conn->nread is not updated.                    *)
BodyRecv ==
  /\ pc = "body"
  /\ \E n \in RecvSizes(remaining) :
       IF n = 0
       THEN /\ pc' = "closed"
            /\ UNCHANGED <<buf, cpos, nread, ptr, remaining, got, overflow>>
       ELSE LET nb == Put(buf, ptr, Incoming(n)) IN
            /\ Recv(ptr, n)
            /\ IF remaining - n > 0
               THEN /\ BodyAdvance(n)
                    /\ UNCHANGED <<pc, nread, got>>
               ELSE /\ Deliver(SubSeq(nb, Req(cur).hdr + 1,
                                      Req(cur).hdr + Req(cur).body))
                    /\ StartHeader(0)
  /\ UNCHANGED <<layout, mode, sent, eof, cur, fwd, file, store, rejected>>

(* The error path of connection_upload_file: close the file, unlink it.  *)
UploadAbort == pc' = "closed" /\ store' = "removed"

(* The end of connection_upload_file's loop with `left` = content_len:   *)
(* more to read, complete (the handler is told where the file is), or    *)
(* "bad math" (more was written than declared), which unlinks the store. *)
UploadNext(left, f) ==
  \/ /\ left > 0 /\ pc' = "upload" /\ store' = "open"
     /\ remaining' = left /\ UNCHANGED <<got, ptr>>
  \/ /\ left = 0 /\ store' = "done" /\ Deliver(f) /\ StartHeader(0)
  \/ /\ left < 0 /\ UploadAbort
     /\ UNCHANGED <<got, ptr, remaining>>

(* connection_http_to_handler for a larger body: connection_upload_file  *)
(* up to its loop.  The store may be refused (no upload.temp_store: 413,  *)
(* mkstemp or the first Handler_deliver failing) before a file exists.    *)
(* The part of the body already in conn->buf is written first; a failed  *)
(* write unlinks the file.  content_len is reduced by what was written   *)
(* (rc of Handler_deliver, 0, when nothing was in), and nread set to 0.   *)
UploadFile ==
  /\ pc = "dispatch" /\ Req(cur).to = "HANDLER"
  /\ Req(cur).body > MAX_CONTENT_LENGTH
  /\ LET init == nread - Req(cur).hdr
         chunk == IF init > 0 THEN SubSeq(buf, Req(cur).hdr + 1, nread)
                  ELSE << >> IN
     \/ /\ pc' = "closed"
        /\ UNCHANGED <<nread, ptr, remaining, file, store, got>>
     \/ /\ init > 0 /\ UploadAbort
        /\ UNCHANGED <<nread, ptr, remaining, file, got>>
     \/ /\ file' = chunk /\ nread' = 0
        /\ UploadNext(Req(cur).body - Len(chunk), chunk)
  /\ UNCHANGED <<layout, mode, sent, eof, cpos, buf, cur, fwd, rejected,
                 overflow>>

(* One pass of the upload loop: recv at most min(content_len,            *)
(* BUFFER_SIZE) bytes at conn->buf (into the local nread) and append them *)
(* to the file; a failed recv or write unlinks the file.                  *)
UploadRecv ==
  /\ pc = "upload"
  /\ \E n \in RecvSizes(IF remaining < BUFFER_SIZE THEN remaining
                                                  ELSE BUFFER_SIZE) :
       \/ /\ n = 0 /\ UploadAbort
          /\ UNCHANGED <<buf, cpos, file, nread, ptr, remaining, got, overflow>>
       \/ /\ n > 0 /\ Recv(0, n) /\ UploadAbort
          /\ UNCHANGED <<file, nread, ptr, remaining, got>>
       \/ /\ n > 0 /\ Recv(0, n)
          /\ file' = file \o Incoming(n)
          /\ UploadNext(remaining - n, file \o Incoming(n))
          /\ UNCHANGED nread
  /\ UNCHANGED <<layout, mode, sent, eof, cur, fwd, rejected>>

(* memmove(conn->buf, conn->buf + off, n)                                 *)
Memmove(b, off, n) == [k \in 1..Len(b) |-> IF k <= n THEN b[k + off] ELSE b[k]]

(* Mutant of ProxyDone: the next read starts with the old nread.          *)
ProxyDone_keepsNread(bytes, n) == Deliver(bytes) /\ StartHeader(nread)

(* The proxy has the whole request; its reply is relayed, and             *)
(* connection_proxy_req_parse reads the next header keeping nread = n.    *)
ProxyDone(bytes, n) == Deliver(bytes) /\ StartHeader(n)

(* connection_proxy_deliver.  total_len < nread: send the request and     *)
(* move the rest of the buffer to its front.  total_len > nread: stream    *)
(* (ProxyStreamSend / ProxyStreamRecv).  Equal: send it and set nread 0.  *)
(* A failed fdsend returns REMOTE_CLOSE.                                  *)
ProxyDeliver ==
  /\ pc = "dispatch" /\ Req(cur).to = "PROXY"
  /\ LET total == Req(cur).hdr + Req(cur).body IN
     \/ /\ total < nread
        /\ buf' = Memmove(buf, total, nread - total)
        /\ ProxyDone(SubSeq(buf, 1, total), nread - total)
        /\ UNCHANGED fwd
     \/ /\ total > nread
        /\ pc' = "stream" /\ remaining' = total /\ fwd' = << >>
        /\ UNCHANGED <<buf, nread, ptr, got>>
     \/ /\ total = nread
        /\ ProxyDone(SubSeq(buf, 1, total), 0)
        /\ UNCHANGED <<buf, fwd>>
     \/ /\ pc' = "closed"
        /\ UNCHANGED <<buf, nread, ptr, remaining, fwd, got>>
  /\ UNCHANGED <<layout, mode, sent, eof, cpos, cur, file, store, rejected,
                 overflow>>

(* The do-loop of connection_proxy_deliver: fdsend(buf, nread), then      *)
(* total_len -= nread; while some is left, recv up to BUFFER_SIZE bytes    *)
(* at the front of conn->buf into nread.                                  *)
ProxyStreamSend ==
  /\ pc = "stream"
  /\ \/ /\ pc' = "closed"
        /\ UNCHANGED <<nread, ptr, remaining, fwd, got>>
     \/ LET sentNow == fwd \o SubSeq(buf, 1, nread) IN
        /\ fwd' = sentNow
        /\ IF remaining - nread > 0
           THEN /\ pc' = "stream_recv" /\ remaining' = remaining - nread
                /\ UNCHANGED <<nread, ptr, got>>
           ELSE ProxyDone(sentNow, 0)
  /\ UNCHANGED <<layout, mode, sent, eof, cpos, buf, cur, file, store,
                 rejected, overflow>>

ProxyStreamRecv ==
  /\ pc = "stream_recv"
  /\ \E n \in RecvSizes(BUFFER_SIZE) :
       \/ /\ n = 0 /\ pc' = "closed"
          /\ UNCHANGED <<buf, cpos, nread, overflow>>
       \/ /\ n > 0 /\ Recv(0, n) /\ nread' = n /\ pc' = "stream"
  /\ UNCHANGED <<layout, mode, sent, eof, ptr, remaining, cur, fwd, file,
                 store, got, rejected>>

-----------------------------------------------------------------------------
(* The task starts in connection_parse on a fresh, zeroed buffer.         *)
Init ==
  /\ layout \in Layouts
  /\ mode \in ClientModes
  /\ sent = 0 /\ eof = FALSE /\ cpos = 0
  /\ buf = [k \in 1..BUFFER_SIZE + 1 |-> NUL]
  /\ nread = 0 /\ pc = "header" /\ ptr = 0 /\ remaining = BUFFER_SIZE - 1
  /\ cur = 0 /\ fwd = << >> /\ file = << >> /\ store = "none"
  /\ got = << >> /\ rejected = FALSE /\ overflow = FALSE

Server ==
  \/ ReadHeader \/ HttpToHandler \/ BodyRecv \/ UploadFile \/ UploadRecv
  \/ ProxyDeliver \/ ProxyStreamSend \/ ProxyStreamRecv

Next == Server \/ ClientSend \/ ClientClose

(* The task runs whenever its recv has data or the stream has ended, and  *)
(* the client writes what it means to write.  Hanging up is the client's  *)
(* choice, so ClientClose has no fairness.                                *)
Spec == Init /\ [][Next]_vars /\ WF_vars(Server) /\ WF_vars(ClientSend)

-----------------------------------------------------------------------------
TypeOK ==
  /\ sent \in 0..Len(Wire) /\ cpos \in 0..sent /\ eof \in BOOLEAN
  /\ buf \in Seq(Bytes \cup {NUL}) /\ Len(buf) >= BUFFER_SIZE + 1
  /\ nread \in 0..Len(buf)
  /\ pc \in {"header", "dispatch", "body", "upload", "stream",
             "stream_recv", "closed"}
  /\ ptr \in 0..Len(buf) /\ remaining \in Int /\ cur \in 0..N
  /\ store \in {"none", "open", "done", "removed"}
  /\ rejected \in BOOLEAN /\ overflow \in BOOLEAN

Answered(i) == \E g \in ToSet(got) : g.req = i

(* Every body a handler receives, inline from conn->buf after the read   *)
(* loop of connection_http_to_handler or through the upload store, is     *)
(* exactly the body the client sent for that request.                    *)
HandlerBodyExact ==
  \A g \in ToSet(got) :
    Req(g.req).to = "HANDLER" => g.bytes = BodyBytes(g.req)

(* Whenever Connection_read_header starts, the bytes it has not yet       *)
(* received plus those still held in conn->buf[0 .. nread) are exactly    *)
(* the stream after the last request served: nothing consumed is lost     *)
(* and nothing stale is kept.                                             *)
InSync == pc = "header" /\ ptr = 0 => cpos - nread = End(cur)

(* While a header is read and dispatched, conn->buf[0 .. nread) holds the *)
(* last nread bytes received, in stream order: the parser sees the stream. *)
BufferMirrorsStream ==
  pc \in {"header", "dispatch"} =>
    SubSeq(buf, 1, nread) = SubSeq(Wire, cpos - nread + 1, cpos)

(* No recv has written past the allocation of conn->buf.                  *)
NoOverflow == ~overflow

(* What connection_proxy_deliver forwarded is exactly the request it     *)
(* serves: its header and its declared body, nothing of the next one.    *)
ForwardExact ==
  \A g \in ToSet(got) : Req(g.req).to = "PROXY" => g.bytes = AllBytes(g.req)

(* The server's copy of the client's byte stream stays intact: every     *)
(* header read starts at the request boundary with the buffer mirroring   *)
(* the stream, the upstream gets exactly each request, and no recv writes *)
(* past conn->buf.  This is what a pipelining client relies on.           *)
StreamIntact == InSync /\ BufferMirrorsStream /\ ForwardExact /\ NoOverflow

(* For a client that waits for each answer before sending the next        *)
(* request, the read, body, upload and proxy loops keep the stream intact. *)
LockstepStreamIntact == mode = "lockstep" => StreamIntact

MaxLen == CHOOSE m \in {Len(l) : l \in Layouts} :
            \A l \in Layouts : Len(l) <= m

(* Every request the client has sent in full is eventually answered, or  *)
(* the connection ends: the server never waits for bytes that are not    *)
(* part of the request, and a request the parser rejects is answered     *)
(* (with the 400 of Connection_read_header) rather than left waiting.    *)
EverySentRequestAnswered ==
  \A i \in 1..MaxLen :
    (i <= N /\ sent >= End(i)) ~> (Answered(i) \/ pc = "closed")

=============================================================================

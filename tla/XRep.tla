-------------------------------- MODULE XRep --------------------------------
(***************************************************************************)
(* The XREP socket of ZeroMQ 2.0.8 (deps/zeromq-2.0.8/src/xrep.cpp).      *)
(* Each peer is attached with an in pipe (kept in the inpipes vector, in   *)
(* attach order) and an out pipe (kept in a map by peer identity).         *)
(* xrecv fair-queues whole messages from the in pipes and prefixes each    *)
(* with the sender's identity; xsend takes the identity prefix to pick the *)
(* out pipe.  Peers write whole two-part messages into their pipe; a       *)
(* reader that finds its pipe empty kills itself and is revived when the   *)
(* writer flushes again (pipe.cpp, not among the sources).  A zmq_assert   *)
(* failure, or an index past the end of inpipes, ends the process.         *)
(***************************************************************************)
EXTENDS Integers, Sequences, SequencesExt

CONSTANTS
  Peers,      \* peer identities
  Unknown,    \* an identity no peer has
  MaxMsgs,    \* messages each peer writes
  MaxSends    \* messages the application sends

ASSUME Unknown \notin Peers /\ MaxMsgs \in Nat /\ MaxSends \in Nat

VARIABLES
  inpipes,     \* <<[peer, active]>>, the inpipes vector
  outpipes,    \* identities with an out pipe (the outpipes map)
  current_in,  \* 0-based index into inpipes
  prefetched,  \* the part read ahead by xrecv, or NoPart
  more_in,
  current_out, \* the identity of the pipe being written, or NoPipe
  more_out,
  status,      \* per peer: "new", "up" (attached), "gone" (both detached)
  inq,         \* per peer: the parts flushed into its in pipe, unread
  written,     \* per peer: messages written into its in pipe
  log,         \* what xrecv has returned, in order
  sendPhase,   \* the application's next xsend: "id", "p1" or "p2"
  nsent,       \* messages the application has started
  dest,        \* per message started: the identity it was addressed to
  pending,     \* parts written to the current out pipe, not yet flushed
  outq,        \* per peer: the messages flushed into its out pipe
  crashed

vars == <<inpipes, outpipes, current_in, prefetched, more_in, current_out,
          more_out, status, inq, written, log, sendPhase, nsent, dest, pending,
          outq, crashed>>

NoPart == [id |-> <<>>, more |-> FALSE]
Part(p, m, k) == [id |-> <<p, m, k>>, more |-> k = 1]
Msg(p, m) == <<Part(p, m, 1), Part(p, m, 2)>>
IdPart(p) == [id |-> <<p>>, more |-> TRUE]    \* the identity prefix xrecv makes
OutPart(n, k) == [id |-> <<"out", n, k>>, more |-> k = 1]
OutMsg(n) == <<OutPart(n, 1), OutPart(n, 2)>>
NoPipe == "none"
InIndex(p) == SelectInSeq(inpipes, LAMBDA e : e.peer = p)  \* 0 if absent
Live == ~crashed

-----------------------------------------------------------------------------
(* The environment: peers come and go; a peer writes whole messages.      *)

(* xattach_pipes: the out pipe goes into the map under the peer's         *)
(* identity, the in pipe to the back of inpipes, both active.             *)
Attach(p) ==
  /\ Live /\ status[p] = "new"
  /\ outpipes' = outpipes \cup {p}
  /\ inpipes' = Append(inpipes, [peer |-> p, active |-> TRUE])
  /\ status' = [status EXCEPT ![p] = "up"]
  /\ UNCHANGED <<current_in, prefetched, more_in, current_out, more_out, inq,
                 written, log, sendPhase, nsent, dest, pending, outq, crashed>>

PeerWrite(p) ==
  /\ Live /\ InIndex(p) # 0 /\ written[p] < MaxMsgs
  /\ inq' = [inq EXCEPT ![p] = @ \o Msg(p, written[p] + 1)]
  /\ written' = [written EXCEPT ![p] = @ + 1]
  /\ UNCHANGED <<inpipes, outpipes, current_in, prefetched, more_in,
                 current_out, more_out, status, log, sendPhase, nsent, dest,
                 pending, outq, crashed>>

(* xrevive(reader): the writer flushed into a pipe whose reader had       *)
(* killed itself.                                                          *)
Revive(p) ==
  LET i == InIndex(p) IN
  /\ Live /\ i # 0 /\ ~inpipes[i].active /\ inq[p] # << >>
  /\ inpipes' = [inpipes EXCEPT ![i].active = TRUE]
  /\ UNCHANGED <<outpipes, current_in, prefetched, more_in, current_out,
                 more_out, status, inq, written, log, sendPhase, nsent, dest,
                 pending, outq, crashed>>

(* xdetach_inpipe: erase the pipe from inpipes; current_in is left as it *)
(* is.  Its unread parts are lost with the pipe.                         *)
DetachIn(p) ==
  LET i == InIndex(p) IN
  /\ Live /\ i # 0
  /\ inpipes' = RemoveAt(inpipes, i)
  /\ status' = [status EXCEPT ![p] = IF p \in outpipes THEN "up" ELSE "gone"]
  /\ UNCHANGED <<outpipes, current_in, prefetched, more_in, current_out,
                 more_out, inq, written, log, sendPhase, nsent, dest, pending,
                 outq, crashed>>

(* xdetach_outpipe: erase it from the map; if it is the pipe being        *)
(* written, forget it, and the unflushed parts go with the pipe.          *)
DetachOut(p) ==
  /\ Live /\ p \in outpipes
  /\ outpipes' = outpipes \ {p}
  /\ IF current_out = p
     THEN current_out' = NoPipe /\ pending' = << >>
     ELSE UNCHANGED <<current_out, pending>>
  /\ status' = [status EXCEPT ![p] = IF InIndex(p) # 0 THEN "up" ELSE "gone"]
  /\ UNCHANGED <<inpipes, current_in, prefetched, more_in, more_out, inq,
                 written, log, sendPhase, nsent, dest, outq, crashed>>

-----------------------------------------------------------------------------
(* xrecv and xhas_in.                                                      *)

(* The round-robin loop shared by xrecv and xhas_in: from current_in, try *)
(* at most Len(ins) pipes.  An active pipe found empty fails its read and  *)
(* its reader kills itself (xkill).  The result is the pipe vector, the   *)
(* index reached, whether a pipe with a message was found there, and      *)
(* whether current_in was past the end of the vector on entry.            *)
RECURSIVE RoundRobin(_, _, _)
RoundRobin(ins, ci, count) ==
  IF count = 0 THEN [ins |-> ins, ci |-> ci, hit |-> FALSE, oob |-> FALSE]
  ELSE IF ci >= Len(ins) THEN [ins |-> ins, ci |-> ci, hit |-> FALSE, oob |-> TRUE]
  ELSE IF ins[ci + 1].active /\ inq[ins[ci + 1].peer] # << >>
  THEN [ins |-> ins, ci |-> ci, hit |-> TRUE, oob |-> FALSE]
  ELSE RoundRobin(IF ins[ci + 1].active
                  THEN [ins EXCEPT ![ci + 1].active = FALSE] ELSE ins,
                  (ci + 1) % Len(ins), count - 1)

Crash ==
  /\ crashed' = TRUE
  /\ UNCHANGED <<inpipes, outpipes, current_in, prefetched, more_in,
                 current_out, more_out, status, inq, written, log, sendPhase,
                 nsent, dest, pending, outq>>

RecvUnchanged == UNCHANGED <<outpipes, current_out, more_out, status, written,
                             sendPhase, nsent, dest, pending, outq, crashed>>

(* The part read ahead with the identity is returned.                      *)
RecvPrefetched ==
  /\ prefetched # NoPart
  /\ log' = Append(log, prefetched)
  /\ more_in' = prefetched.more
  /\ prefetched' = NoPart
  /\ UNCHANGED <<inpipes, current_in, inq>>
  /\ RecvUnchanged

(* The next part of a partly read message comes from inpipes[current_in], *)
(* asserted active and non-empty; after the last part current_in moves on.*)
(* An index past the end of the vector is a crash like a failed assert.   *)
RecvMore ==
  LET i == current_in + 1 IN
  /\ prefetched = NoPart /\ more_in
  /\ IF i > Len(inpipes) \/ ~inpipes[i].active \/ inq[inpipes[i].peer] = << >>
     THEN Crash
     ELSE LET q == inpipes[i].peer
              part == Head(inq[q]) IN
          /\ log' = Append(log, part)
          /\ inq' = [inq EXCEPT ![q] = Tail(@)]
          /\ more_in' = part.more
          /\ current_in' = IF part.more THEN current_in
                           ELSE (current_in + 1) % Len(inpipes)
          /\ UNCHANGED <<inpipes, prefetched>>
          /\ RecvUnchanged

(* A new message: the first part is read ahead and the sender's identity  *)
(* is returned; with no message anywhere the call fails with EAGAIN.      *)
RecvNew ==
  LET r == RoundRobin(inpipes, current_in, Len(inpipes)) IN
  /\ prefetched = NoPart /\ ~more_in
  /\ IF r.oob THEN Crash
     ELSE /\ inpipes' = r.ins
          /\ current_in' = r.ci
          /\ IF r.hit
             THEN LET q == r.ins[r.ci + 1].peer IN
                  /\ prefetched' = Head(inq[q])
                  /\ inq' = [inq EXCEPT ![q] = Tail(@)]
                  /\ log' = Append(log, IdPart(q))
             ELSE UNCHANGED <<prefetched, inq, log>>
          /\ UNCHANGED more_in
          /\ RecvUnchanged

Recv == Live /\ (RecvPrefetched \/ RecvMore \/ RecvNew)

(* xhas_in with nothing partly read: the same loop, without reading; it   *)
(* leaves current_in at the first pipe holding a message.                 *)
HasIn ==
  LET r == RoundRobin(inpipes, current_in, Len(inpipes)) IN
  /\ Live /\ prefetched = NoPart /\ ~more_in
  /\ IF r.oob THEN Crash
     ELSE /\ inpipes' = r.ins /\ current_in' = r.ci
          /\ UNCHANGED <<prefetched, more_in, inq, log>>
          /\ RecvUnchanged

-----------------------------------------------------------------------------
(* xsend.  The application sends MaxSends messages, each an identity part *)
(* then two parts; an identity sent without MORE ends that message.       *)

SendId_noLookup(t, more) ==
  /\ Live /\ sendPhase = "id" /\ nsent < MaxSends /\ ~more_out
  /\ crashed' = (current_out # NoPipe)
  /\ more_out' = more
  /\ current_out' = IF more THEN t ELSE current_out
  /\ nsent' = nsent + 1
  /\ dest' = Append(dest, t)
  /\ sendPhase' = IF more THEN "p1" ELSE "id"
  /\ UNCHANGED <<inpipes, outpipes, current_in, prefetched, more_in, status,
                 inq, written, log, pending, outq>>

(* The identity part picks the out pipe by identity, or none if no peer   *)
(* has it; without MORE it is dropped silently.                           *)
SendId(t, more) ==
  /\ Live /\ sendPhase = "id" /\ nsent < MaxSends /\ ~more_out
  /\ crashed' = (current_out # NoPipe)        \* zmq_assert (!current_out)
  /\ more_out' = more
  /\ current_out' = IF more /\ t \in outpipes THEN t ELSE current_out
  /\ nsent' = nsent + 1
  /\ dest' = Append(dest, t)
  /\ sendPhase' = IF more THEN "p1" ELSE "id"
  /\ UNCHANGED <<inpipes, outpipes, current_in, prefetched, more_in, status,
                 inq, written, log, pending, outq>>

SendPart_flushEach(k) ==
  LET part == OutPart(nsent, k) IN
  /\ Live /\ sendPhase = "p" \o ToString(k)
  /\ more_out' = part.more
  /\ IF current_out = NoPipe
     THEN UNCHANGED <<current_out, pending, outq>>
     ELSE /\ outq' = [outq EXCEPT ![current_out] = Append(@, Append(pending, part))]
          /\ pending' = << >>
          /\ current_out' = IF part.more THEN current_out ELSE NoPipe
  /\ sendPhase' = IF part.more THEN "p2" ELSE "id"
  /\ UNCHANGED <<inpipes, outpipes, current_in, prefetched, more_in, status,
                 inq, written, log, nsent, dest, crashed>>

(* A body part goes to the chosen pipe, or is dropped when there is none; *)
(* the last part flushes the pipe and forgets it.                         *)
SendPart(k) ==
  LET part == OutPart(nsent, k) IN
  /\ Live /\ sendPhase = "p" \o ToString(k)
  /\ more_out' = part.more
  /\ IF current_out = NoPipe
     THEN UNCHANGED <<current_out, pending, outq>>
     ELSE IF part.more
     THEN pending' = Append(pending, part) /\ UNCHANGED <<current_out, outq>>
     ELSE /\ outq' = [outq EXCEPT ![current_out] = Append(@, Append(pending, part))]
          /\ pending' = << >>
          /\ current_out' = NoPipe
  /\ sendPhase' = IF part.more THEN "p2" ELSE "id"
  /\ UNCHANGED <<inpipes, outpipes, current_in, prefetched, more_in, status,
                 inq, written, log, nsent, dest, crashed>>

-----------------------------------------------------------------------------
Init ==
  /\ inpipes = << >> /\ outpipes = {} /\ current_in = 0
  /\ prefetched = NoPart /\ more_in = FALSE
  /\ current_out = NoPipe /\ more_out = FALSE
  /\ status = [p \in Peers |-> "new"]
  /\ inq = [p \in Peers |-> << >>]
  /\ written = [p \in Peers |-> 0]
  /\ log = << >>
  /\ sendPhase = "id" /\ nsent = 0 /\ dest = << >> /\ pending = << >>
  /\ outq = [p \in Peers |-> << >>]
  /\ crashed = FALSE

Next ==
  \/ \E p \in Peers :
       Attach(p) \/ PeerWrite(p) \/ Revive(p) \/ DetachIn(p) \/ DetachOut(p)
  \/ Recv
  \/ HasIn
  \/ \E t \in Peers \cup {Unknown}, more \in BOOLEAN : SendId(t, more)
  \/ \E k \in {1, 2} : SendPart(k)

(* No fairness: an XREP socket's user may stop receiving at any point,    *)
(* so what is checked of this module is safety only.                     *)
Spec == Init /\ [][Next]_vars

-----------------------------------------------------------------------------
Parts == {NoPart} \cup {Part(p, m, k) : p \in Peers, m \in 1..MaxMsgs, k \in 1..2}

TypeOK ==
  /\ inpipes \in Seq([peer : Peers, active : BOOLEAN])
  /\ outpipes \subseteq Peers
  /\ current_in \in Nat /\ prefetched \in Parts /\ more_in \in BOOLEAN
  /\ current_out \in Peers \cup {NoPipe} /\ more_out \in BOOLEAN
  /\ status \in [Peers -> {"new", "up", "gone"}]
  /\ inq \in [Peers -> Seq(Parts)] /\ written \in [Peers -> 0..MaxMsgs]
  /\ sendPhase \in {"id", "p1", "p2"} /\ nsent \in 0..MaxSends
  /\ dest \in Seq(Peers \cup {Unknown}) /\ Len(dest) = nsent
  /\ crashed \in BOOLEAN

(* What xsend delivers: every message flushed into a peer's out pipe is a *)
(* whole message the application addressed to that peer, and they arrive *)
(* in the order sent, whatever out pipes are detached mid-message and     *)
(* however identity parts are dropped.                                    *)
SendWholeOrNothing ==
  \A p \in Peers :
    LET q == outq[p]
        n(i) == q[i][1].id[2] IN
    \A i \in 1..Len(q) :
      /\ Len(q[i]) = 2
      /\ n(i) \in 1..nsent /\ dest[n(i)] = p /\ q[i] = OutMsg(n(i))
      /\ i > 1 => n(i - 1) < n(i)

IsId(x) == Len(x.id) = 1

(* What xrecv returns is a sequence of messages, each an identity part    *)
(* followed by the parts, in order, of one message of that peer; and no  *)
(* call indexes past inpipes or fails an assertion.                       *)
RecvSound ==
  /\ ~crashed
  /\ \A i \in 1..Len(log) :
       IF IsId(log[i]) THEN i = 1 \/ ~log[i - 1].more
       ELSE /\ i > 1
            /\ IF IsId(log[i - 1])
               THEN log[i].id = <<log[i - 1].id[1], log[i].id[2], 1>>
               ELSE /\ log[i - 1].more
                    /\ log[i].id = <<log[i - 1].id[1], log[i - 1].id[2],
                                     log[i - 1].id[3] + 1>>

=============================================================================

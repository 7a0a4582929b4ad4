----------------------------- MODULE IpcServer -----------------------------
(* The IPC transport: the compositor's listener, its one connection with    *)
(* its two buffers, the messages kept from before a connection, and the     *)
(* Emacs at the other end, which connects, reads, writes, disconnects and   *)
(* connects again. A frame is its Content-Length header and its body: what  *)
(* sockets and buffers hold is a sequence of these halves.                  *)
EXTENDS Selection, FiniteSets, SequencesExt

CONSTANTS
  MaxMsgs,                 \* messages the compositor produces
  MaxReqs,                 \* requests Emacs writes
  MaxConns,                \* connections Emacs makes
  SocketRoom               \* halves the kernel holds on their way to Emacs

ASSUME ConstantsAssumption ==
  MaxMsgs \in Nat /\ MaxReqs \in Nat /\ MaxConns \in Nat /\ SocketRoom \in Nat \ {0}

Conns == 1 .. MaxConns
None == 0                  \* no connection
Connected == 0             \* the greeting; message n is the n-th one produced
Msgs == 1 .. MaxMsgs
Reqs == 1 .. MaxReqs
\* A request that parses, one whose JSON is refused, one over MAX_MSG_SIZE.
Kinds == {"ok", "refused", "oversized"}
Parts == {"header", "body"}

\* The halves of the frames of a sequence of messages.
Frames(msgs) ==
  [i \in 1 .. 2 * Len(msgs) |->
     [msg |-> msgs[(i + 1) \div 2], part |-> IF i % 2 = 1 THEN "header" ELSE "body"]]
MsgsOf(halves) == [i \in 1 .. Len(halves) |-> halves[i].msg]
\* The messages, and the requests of some kinds, whose body is among the halves.
Bodies(halves) ==
  MsgsOf(Selected(halves, [msg : {Connected} \cup Msgs, part : {"body"}]))
Completed(halves, kinds) ==
  MsgsOf(Selected(halves, [msg : Reqs, kind : kinds, part : {"body"}]))
Oversized(halves) == \E i \in 1 .. Len(halves) : halves[i].kind = "oversized"

VARIABLES
  phase,                   \* "dispatch", or "tick" between recv_all and flush
  produced,                \* how many messages have been sent
  backlog,                 \* connections made and not yet accepted
  connection,              \* the accepted connection in use, or None
  pending,                 \* messages from while there was none
  writeBuf,                \* halves queued for the connection
  readBuf,                 \* halves read from the connection
  handled,                 \* connection -> the requests dispatched from it
  serverClosed,            \* connections the compositor has closed
  toEmacs, toServer,       \* connection -> halves the kernel holds
  opened,                  \* how many connections Emacs has made
  current,                 \* the connection Emacs uses, or None
  emacsClosed,             \* connections Emacs has closed
  received,                \* connection -> messages Emacs has got
  asked,                   \* how many requests Emacs has begun to write
  unsent,                  \* the part of a request still to be written
  written                  \* connection -> requests that parse, written whole

server == <<phase, produced, backlog, connection, pending, writeBuf, readBuf,
            handled, serverClosed>>
emacs == <<opened, current, emacsClosed, received, asked, unsent, written>>
kernel == <<toEmacs, toServer>>
vars == <<server, kernel, emacs>>

Half == [msg : {Connected} \cup Msgs, part : Parts]
ReqHalf == [msg : Reqs, kind : Kinds, part : Parts]

TypeOK ==
  /\ phase \in {"dispatch", "tick"}
  /\ produced \in 0 .. MaxMsgs
  /\ backlog \in Seq(Conns)
  /\ connection \in Conns \cup {None}
  /\ pending \in Seq(Msgs)
  /\ writeBuf \in Seq(Half)
  /\ readBuf \in Seq(ReqHalf)
  /\ handled \in [Conns -> Seq(Reqs)]
  /\ serverClosed \subseteq Conns
  /\ toEmacs \in [Conns -> Seq(Half)]
  /\ toServer \in [Conns -> Seq(ReqHalf)]
  /\ opened \in 0 .. MaxConns
  /\ current \in Conns \cup {None}
  /\ emacsClosed \subseteq Conns
  /\ received \in [Conns -> Seq({Connected} \cup Msgs)]
  /\ asked \in 0 .. MaxReqs
  /\ unsent \in Seq(ReqHalf)
  /\ written \in [Conns -> Seq(Reqs)]

Init ==
  /\ phase = "dispatch"
  /\ produced = 0
  /\ backlog = <<>>
  /\ connection = None
  /\ pending = <<>>
  /\ writeBuf = <<>>
  /\ readBuf = <<>>
  /\ handled = [c \in Conns |-> <<>>]
  /\ serverClosed = {}
  /\ toEmacs = [c \in Conns |-> <<>>]
  /\ toServer = [c \in Conns |-> <<>>]
  /\ opened = 0
  /\ current = None
  /\ emacsClosed = {}
  /\ received = [c \in Conns |-> <<>>]
  /\ asked = 0
  /\ unsent = <<>>
  /\ written = [c \in Conns |-> <<>>]

----------------------------------------------------------------------------
(* The compositor                                                          *)

\* Mutants of Flushed: what a short write left over is dropped, or all of it is
\* written again.
FlushedOnce(c, buf) ==
  LET room == SocketRoom - Len(toEmacs[c])
  IN  /\ toEmacs' = [toEmacs EXCEPT ![c] = @ \o SubSeq(buf, 1, IF Len(buf) <= room THEN Len(buf) ELSE room)]
      /\ writeBuf' = <<>>
FlushedAgain(c, buf) ==
  LET room == SocketRoom - Len(toEmacs[c])
  IN  IF Len(buf) <= room
      THEN toEmacs' = [toEmacs EXCEPT ![c] = @ \o buf] /\ writeBuf' = <<>>
      ELSE toEmacs' = [toEmacs EXCEPT ![c] = @ \o SubSeq(buf, 1, room)] /\ writeBuf' = buf

\* try_flush: the kernel takes what it has room for.
Flushed(c, buf) ==
  LET room == SocketRoom - Len(toEmacs[c])
      n == IF Len(buf) <= room THEN Len(buf) ELSE room
  IN  /\ toEmacs' = [toEmacs EXCEPT ![c] = @ \o SubSeq(buf, 1, n)]
      /\ writeBuf' = SubSeq(buf, n + 1, Len(buf))

\* A mutant of Disconnect: the buffers outlive the connection.
DisconnectOnly ==
  /\ connection' = None
  /\ serverClosed' = serverClosed \cup {connection}
  /\ UNCHANGED <<writeBuf, readBuf>>

\* self.connection = None closes the socket and drops both buffers.
Disconnect ==
  /\ connection' = None
  /\ serverClosed' = serverClosed \cup {connection}
  /\ writeBuf' = <<>>
  /\ readBuf' = <<>>

\* The greeting, then all that is pending. A connection that Emacs has
\* already given up is taken all the same: the error of the flush is ignored.
Accept ==
  /\ phase = "dispatch"
  /\ backlog # <<>>
  /\ LET c == Head(backlog)
         first == Frames(<<Connected>> \o pending)
     IN  /\ connection' = c
         /\ IF c \in emacsClosed
            THEN writeBuf' = first /\ UNCHANGED toEmacs
            ELSE Flushed(c, first)
  /\ backlog' = Tail(backlog)
  /\ pending' = <<>>
  /\ readBuf' = <<>>
  /\ serverClosed' = serverClosed \cup ({connection} \ {None})
  /\ UNCHANGED <<phase, produced, handled, toServer, emacs>>

\* IpcConn::new fails and the stream is dropped.
AcceptFails ==
  /\ phase = "dispatch"
  /\ backlog # <<>>
  /\ backlog' = Tail(backlog)
  /\ serverClosed' = serverClosed \cup {Head(backlog)}
  /\ UNCHANGED <<phase, produced, connection, pending, writeBuf, readBuf, handled, kernel, emacs>>

\* The compositor has something to say, at any time.
Send ==
  /\ produced < MaxMsgs
  /\ produced' = produced + 1
  /\ \/ /\ connection = None
        /\ pending' = Append(pending, produced')
        /\ UNCHANGED <<connection, writeBuf, readBuf, serverClosed, toEmacs>>
     \/ /\ connection \notin emacsClosed \cup {None}
        /\ Flushed(connection, writeBuf \o Frames(<<produced'>>))
        /\ UNCHANGED <<connection, pending, readBuf, serverClosed>>
     \/ /\ connection \in emacsClosed
        /\ Disconnect
        /\ UNCHANGED <<pending, toEmacs>>
  /\ UNCHANGED <<phase, backlog, handled, toServer, emacs>>

\* Mutants: the buffer is not drained; only the first frame is dispatched.
UndecodedAll(read) == read
DecodedFirst(read) ==
  LET good == Completed(read, {"ok"})
  IN  IF good = <<>> THEN <<>> ELSE <<Head(good)>>

\* try_recv takes complete frames off the buffer and leaves a partial one;
\* parse_incoming passes over what it cannot parse.
Undecoded(read) == SubSeq(read, 2 * Len(Completed(read, Kinds)) + 1, Len(read))
Decoded(read) == Completed(read, {"ok"})

\* Everything the socket holds is read; then complete frames are decoded and
\* those that parse are dispatched. End of stream and an oversized frame close
\* the connection and nothing of this batch is dispatched.
RecvAll ==
  /\ phase = "dispatch"
  /\ phase' = "tick"
  /\ LET read == readBuf \o toServer[connection]
     IN  \/ /\ connection = None
            /\ UNCHANGED <<connection, writeBuf, readBuf, handled, serverClosed, toServer>>
         \/ /\ connection # None
            /\ toServer' = [toServer EXCEPT ![connection] = <<>>]
            /\ IF connection \in emacsClosed \/ Oversized(read)
               THEN Disconnect /\ UNCHANGED handled
               ELSE /\ readBuf' = Undecoded(read)
                    /\ handled' = [handled EXCEPT ![connection] = @ \o Decoded(read)]
                    /\ UNCHANGED <<connection, writeBuf, serverClosed>>
  /\ UNCHANGED <<produced, backlog, pending, toEmacs, emacs>>

\* A mutant of Flush: the tick forgets it.
FlushNothing ==
  /\ phase = "tick"
  /\ phase' = "dispatch"
  /\ UNCHANGED <<produced, backlog, connection, pending, writeBuf, readBuf, handled,
                 serverClosed, kernel, emacs>>

\* A write to a socket that Emacs has closed fails; an empty buffer is not
\* written.
Flush ==
  /\ phase = "tick"
  /\ phase' = "dispatch"
  /\ \/ /\ connection = None \/ writeBuf = <<>>
        /\ UNCHANGED <<connection, writeBuf, readBuf, serverClosed, toEmacs>>
     \/ /\ connection # None /\ writeBuf # <<>>
        /\ IF connection \in emacsClosed
           THEN Disconnect /\ UNCHANGED toEmacs
           ELSE /\ Flushed(connection, writeBuf)
                /\ UNCHANGED <<connection, readBuf, serverClosed>>
  /\ UNCHANGED <<produced, backlog, pending, handled, toServer, emacs>>

----------------------------------------------------------------------------
(* Emacs                                                                   *)

\* Closing drops what was not read.
Hangup(c) ==
  /\ emacsClosed' = emacsClosed \cup {c}
  /\ toEmacs' = [toEmacs EXCEPT ![c] = <<>>]

\* emthin-connect shuts an earlier connection down first. The connection
\* stands before the compositor accepts it.
Connect ==
  /\ opened < MaxConns
  /\ opened' = opened + 1
  /\ current' = opened'
  /\ backlog' = Append(backlog, opened')
  /\ unsent' = <<>>
  /\ IF current = None THEN UNCHANGED <<emacsClosed, toEmacs>> ELSE Hangup(current)
  /\ UNCHANGED <<phase, produced, connection, pending, writeBuf, readBuf, handled,
                 serverClosed, toServer, received, asked, written>>

\* Emacs exits or shuts the connection down.
Leave ==
  /\ current # None
  /\ Hangup(current)
  /\ current' = None
  /\ unsent' = <<>>
  /\ UNCHANGED <<server, toServer, opened, received, asked, written>>

\* The connection turns out to be closed once all it held is read.
NoticeClose ==
  /\ current \in serverClosed
  /\ toEmacs[current] = <<>>
  /\ emacsClosed' = emacsClosed \cup {current}
  /\ current' = None
  /\ unsent' = <<>>
  /\ UNCHANGED <<server, kernel, opened, received, asked, written>>

\* A message counts as received once its body is there.
Read ==
  /\ current # None
  /\ toEmacs[current] # <<>>
  /\ toEmacs' = [toEmacs EXCEPT ![current] = Tail(@)]
  /\ LET half == Head(toEmacs[current])
     IN  received' = IF half.part = "header" THEN received
                     ELSE [received EXCEPT ![current] = Append(@, half.msg)]
  /\ UNCHANGED <<server, toServer, opened, current, emacsClosed, asked, unsent, written>>

\* jsonrpc writes a frame in one call, which the kernel may take in two parts.
WriteHeader(kind) ==
  /\ current \notin serverClosed \cup {None}
  /\ unsent = <<>>
  /\ asked < MaxReqs
  /\ asked' = asked + 1
  /\ LET half(part) == [msg |-> asked', kind |-> kind, part |-> part]
     IN  /\ toServer' = [toServer EXCEPT ![current] = Append(@, half("header"))]
         /\ unsent' = <<half("body")>>
  /\ UNCHANGED <<server, toEmacs, opened, current, emacsClosed, received, written>>

WriteBody ==
  /\ current \notin serverClosed \cup {None}
  /\ unsent # <<>>
  /\ toServer' = [toServer EXCEPT ![current] = @ \o unsent]
  /\ written' = [written EXCEPT ![current] =
       IF unsent[1].kind = "ok" THEN Append(@, unsent[1].msg) ELSE @]
  /\ unsent' = <<>>
  /\ UNCHANGED <<server, toEmacs, opened, current, emacsClosed, asked, received>>

----------------------------------------------------------------------------

Compositor == Accept \/ AcceptFails \/ Send \/ RecvAll \/ Flush

Emacs ==
  \/ Connect \/ Leave \/ NoticeClose \/ Read \/ WriteBody
  \/ \E kind \in Kinds : WriteHeader(kind)

Next == Compositor \/ Emacs

Spec == Init /\ [][Next]_vars

\* The event loop polls the listener, receives and flushes in every iteration;
\* a running Emacs reads what arrives.
Fairness ==
  /\ SF_vars(Accept \/ AcceptFails)
  /\ WF_vars(RecvAll) /\ WF_vars(Flush)
  /\ WF_vars(Read) /\ WF_vars(NoticeClose)

FairSpec == Spec /\ Fairness

----------------------------------------------------------------------------
(* Properties                                                              *)

\* Between accept, send, flush and recv_all nothing is lost, doubled or put
\* out of order on a connection that both ends hold: what Emacs has received,
\* what the kernel holds and what is queued add up to the greeting and every
\* message since a first one, up to the last. Without a connection the same
\* holds of what is pending.
NothingLostOnTheWay ==
  LET way == received[connection] \o Bodies(toEmacs[connection]) \o Bodies(writeBuf)
      run(n) == [i \in 1 .. n |-> produced - n + i]
  IN  IF connection = None THEN pending = run(Len(pending))
      ELSE connection \notin emacsClosed =>
             way = <<Connected>> \o run(Len(way) - 1)

\* The requests dispatched from a connection are the first ones Emacs
\* completed on it that parse, in order and once: a partial frame, a refused
\* one and a reconnection in between change nothing in this.
RequestsInOrder ==
  \A c \in Conns : IsPrefix(handled[c], written[c])

\* A connection is closed once and never used again, and messages are held
\* back only while there is none: the two ways a message can take exclude
\* each other.
OneWay ==
  /\ connection \notin serverClosed
  /\ connection # None => pending = <<>>
  /\ connection = None => writeBuf = <<>> /\ readBuf = <<>>

\* What a connection has yet to deliver; at None, what is held for the next one.
Transit ==
  [c \in Conns \cup {None} |->
     IF c = None THEN pending
     ELSE IF c \in emacsClosed THEN <<>>
     ELSE Bodies(toEmacs[c]) \o (IF c = connection THEN Bodies(writeBuf) ELSE <<>>)]

\* The transport implements the stream of messages that MessageStream promises.
Stream == INSTANCE MessageStream WITH
  Links <- Conns,
  link <- connection,
  cut <- serverClosed \cup emacsClosed,
  transit <- Transit,
  delivered <- received

StreamSpec == Stream!Spec

\* Bytes parked in the write buffer after EAGAIN do not sit there: what is
\* queued on a connection arrives, unless one of the ends closes it.
ParkedBytesArrive ==
  \A c \in Conns, m \in Msgs :
    connection = c /\ m \in Range(Bodies(writeBuf))
      ~> \/ m \in Range(received[c]) \/ c \in serverClosed \cup emacsClosed

\* A request Emacs has completed is dispatched, unless a connection ends.
RequestsDispatched ==
  \A c \in Conns : \A r \in Reqs :
    r \in Range(written[c]) ~>
      \/ r \in Range(handled[c]) \/ c \in serverClosed \cup emacsClosed
=============================================================================

----------------------------- MODULE HttpSocket -----------------------------
(***************************************************************************)
(* One HTTP request, as the account client makes it: httpc.request over    *)
(* skynet.socket and the receive buffer of lua-socket.c.  The request runs *)
(* in a coroutine, "main"; the connection is opened in a forked one,       *)
(* "opener", so that connecting can time out; a second timer shuts the     *)
(* socket down under the reader.  Which reads the request makes depends on *)
(* the answer, and is left open.                                           *)
(*                                                                         *)
(* The service handles one message of the socket thread or of the timer at *)
(* a time, and then at once the coroutine it has woken (`woken`), until    *)
(* every coroutine is suspended again.                                     *)
(***************************************************************************)
EXTENDS Integers, Sequences, SequencesExt

CONSTANTS
    Stream,     \* the bytes the peer sends
    Sep,        \* the separator of lines
    Sizes,      \* the lengths asked for
    MaxReads    \* bound: reads of one request

ASSUME HttpAssumption == MaxReads \in Nat /\ Len(Sep) > 0 /\ Sizes \subseteq Nat \ {0}

VARIABLES
    net,        \* the connection in the socket server
    asked,      \* close and shutdown requests it has not answered
    wire,       \* bytes of the peer it has not delivered
    mailbox,    \* its messages to the service
    s,          \* the entry of socket_pool
    buffer,     \* the socket_buffer: nodes, offset in the first, size
    main, opener,       \* where the coroutines are suspended
    woken,      \* the coroutine to be resumed now
    op,         \* the read of main: its kind and its argument
    reads,
    taken,      \* bytes taken out of the buffer by reads, separators included
    flags,      \* the locals fd, drop_fd and finish
    timer,      \* of the request: off, armed or over
    shut,       \* the timer has shut the socket down
    failed      \* an assertion has failed

httpVars == <<net, asked, wire, mailbox, s, buffer, main, opener, woken, op, reads, taken,
              flags, timer, shut, failed>>

netVars == <<net, asked, wire, mailbox>>
coVars == <<main, opener, woken, op, reads, taken, flags, timer, shut, failed>>

NoSocket == [pooled |-> FALSE, connected |-> FALSE,
             read_required |-> "nil", co |-> "none"]
Empty == [nodes |-> <<>>, offset |-> 0, size |-> 0]

HttpInit ==
    /\ net = "none" /\ asked = 0 /\ wire = Stream /\ mailbox = <<>>
    /\ s = NoSocket /\ buffer = Empty
    /\ main = "start" /\ opener = "none" /\ woken = "none"
    /\ op = [kind |-> "none", n |-> 0] /\ reads = 0 /\ taken = <<>>
    /\ flags = [fd |-> FALSE, drop_fd |-> FALSE, finish |-> FALSE]
    /\ timer = "off" /\ shut = FALSE /\ failed = FALSE

Idle == woken = "none" /\ main # "run"

-----------------------------------------------------------------------------
(* The socket server, as this service sees it: it connects or fails,       *)
(* delivers what it reads in pieces, reports the end, and answers every    *)
(* close and shutdown, also of a socket that is gone.  (A close with       *)
(* unsent data is answered when that has gone out.)                        *)

NetConnect ==
    /\ net = "connecting"
    /\ \/ net' = "open" /\ mailbox' = Append(mailbox, [type |-> "connect", data |-> <<>>])
       \/ net' = "closed" /\ mailbox' = Append(mailbox, [type |-> "error", data |-> <<>>])
    /\ UNCHANGED <<asked, wire, s, buffer, coVars>>

NetData ==
    /\ net = "open" /\ wire # <<>>
    /\ \E n \in 1..Len(wire) :
          /\ mailbox' = Append(mailbox, [type |-> "data", data |-> SubSeq(wire, 1, n)])
          /\ wire' = SubSeq(wire, n + 1, Len(wire))
    /\ UNCHANGED <<net, asked, s, buffer, coVars>>

NetEnds ==
    /\ net = "open" /\ net' = "closed"
    /\ \E t \in {"close", "error"} : mailbox' = Append(mailbox, [type |-> t, data |-> <<>>])
    /\ UNCHANGED <<asked, wire, s, buffer, coVars>>

NetAnswers ==
    /\ asked > 0 /\ asked' = asked - 1 /\ net' = "closed"
    /\ mailbox' = Append(mailbox, [type |-> "close", data |-> <<>>])
    /\ UNCHANGED <<wire, s, buffer, coVars>>

-----------------------------------------------------------------------------
(* The receive buffer *)

ReturnFreeNode(b) == [b EXCEPT !.nodes = Tail(@), !.offset = 0]

PushBuffer(b, data) == [b EXCEPT !.nodes = Append(@, data), !.size = @ + Len(data)]

(* pop_lstring: sz bytes leave the buffer, the last skip of them are not   *)
(* part of the string.                                                     *)
RECURSIVE PopLString(_, _, _, _)
PopLString(b, sz, skip, str) ==
    LET node == Head(b.nodes)
        bytes == Len(node) - b.offset
        real == sz - skip
        add == IF real > 0
                 THEN SubSeq(node, b.offset + 1, b.offset + (IF real < bytes THEN real ELSE bytes))
                 ELSE <<>>
    IN IF bytes > sz THEN [str |-> str \o add, buffer |-> [b EXCEPT !.offset = @ + sz]]
       ELSE IF bytes = sz THEN [str |-> str \o add, buffer |-> ReturnFreeNode(b)]
       ELSE PopLString(ReturnFreeNode(b), sz - bytes, skip, str \o add)

(* driver.pop, for 0 < sz <= size *)
PopBuffer(b, sz) ==
    LET r == PopLString(b, sz, 0, <<>>)
    IN [str |-> r.str, buffer |-> [r.buffer EXCEPT !.size = @ - sz]]

(* The bytes of the buffer, which driver.readall returns and drops. *)
Content(b) ==
    LET all == FlattenSeq(b.nodes) IN SubSeq(all, b.offset + 1, Len(all))

(* driver.readline: where in the buffer the first separator begins. *)
SepAt(b) ==
    {i \in 0..(b.size - Len(Sep)) : SubSeq(Content(b), i + 1, i + Len(Sep)) = Sep}
FirstSep(b) == CHOOSE i \in SepAt(b) : \A j \in SepAt(b) : i <= j

(* The line leaves the buffer with its separator. *)
PopLine(b) ==
    LET i == FirstSep(b)
        r == PopLString(b, i + Len(Sep), Len(Sep), <<>>)
    IN [str |-> r.str \o Sep, buffer |-> [r.buffer EXCEPT !.size = @ - (i + Len(Sep))]]

-----------------------------------------------------------------------------
(* The messages of the socket server *)

(* wakeup(s), when s has become t. *)
Wakeup(t) == s' = [t EXCEPT !.co = "none"] /\ woken' = t.co

OnConnect ==
    /\ Idle /\ mailbox # <<>> /\ Head(mailbox).type = "connect"
    /\ mailbox' = Tail(mailbox)
    /\ IF s.pooled THEN Wakeup([s EXCEPT !.connected = TRUE]) ELSE UNCHANGED <<s, woken>>
    /\ UNCHANGED <<net, asked, wire, buffer, main, opener, op, reads, taken, flags, timer, shut, failed>>

(* Mutant of Required: the request of the read that is satisfied stays. *)
RequiredStays(t, b) ==
    IF \/ t.read_required = "size" /\ b.size >= op.n
       \/ t.read_required = "line" /\ SepAt(b) # {}
      THEN Wakeup(t)
      ELSE s' = t /\ UNCHANGED woken

(* Wake the reader when the buffer holds what it asked for. *)
Required(t, b) ==
    IF \/ t.read_required = "size" /\ b.size >= op.n
       \/ t.read_required = "line" /\ SepAt(b) # {}
      THEN Wakeup([t EXCEPT !.read_required = "nil"])
      ELSE s' = t /\ UNCHANGED woken

OnData ==
    /\ Idle /\ mailbox # <<>> /\ Head(mailbox).type = "data"
    /\ mailbox' = Tail(mailbox)
    /\ IF s.pooled
         THEN /\ buffer' = PushBuffer(buffer, Head(mailbox).data)
              /\ Required(s, buffer')
         ELSE UNCHANGED <<s, buffer, woken>>
    /\ UNCHANGED <<net, asked, wire, main, opener, op, reads, taken, flags, timer, shut, failed>>

OnClose ==
    /\ Idle /\ mailbox # <<>> /\ Head(mailbox).type = "close"
    /\ mailbox' = Tail(mailbox)
    /\ IF s.pooled THEN Wakeup([s EXCEPT !.connected = FALSE]) ELSE UNCHANGED <<s, woken>>
    /\ UNCHANGED <<net, asked, wire, buffer, main, opener, op, reads, taken, flags, timer, shut, failed>>

OnError ==
    /\ Idle /\ mailbox # <<>> /\ Head(mailbox).type = "error"
    /\ mailbox' = Tail(mailbox)
    /\ IF s.pooled
         THEN Wakeup([s EXCEPT !.connected = FALSE]) /\ asked' = asked + 1
         ELSE UNCHANGED <<s, woken, asked>>
    /\ UNCHANGED <<net, wire, buffer, main, opener, op, reads, taken, flags, timer, shut, failed>>

-----------------------------------------------------------------------------
(* Connecting: sockethelper.connect and socket.open *)

(* suspend(s): co waits for a message about the socket. *)
Suspend(t, co) ==
    /\ s' = [t EXCEPT !.co = co]
    /\ failed' = (failed \/ t.co # "none")

Start ==
    /\ main = "start" /\ main' = "connecting" /\ opener' = "open" /\ net' = "connecting"
    /\ Suspend([NoSocket EXCEPT !.pooled = TRUE], "opener")
    /\ UNCHANGED <<asked, wire, mailbox, buffer, woken, op, reads, taken, flags, timer, shut>>

(* The sleep of main is over and the socket is not open yet. *)
ConnectTimeout ==
    /\ Idle /\ main = "connecting"
    /\ main' = "ended" /\ flags' = [flags EXCEPT !.drop_fd = TRUE]
    /\ UNCHANGED <<netVars, s, buffer, opener, woken, op, reads, taken, timer, shut, failed>>

(* socket.close up to its wait, called by co, or the whole of it. *)
CloseFirst(co) ==
    IF s.connected
      THEN asked' = asked + 1 /\ Suspend(s, co) /\ UNCHANGED buffer
      ELSE s' = NoSocket /\ buffer' = Empty /\ UNCHANGED <<asked, failed>>

(* Mutant of Opened: a connection that comes too late is not closed. *)
OpenedLate ==
    IF flags.drop_fd THEN opener' = "ended" /\ woken' = "none" /\ UNCHANGED <<asked, buffer, flags, s, failed>>
    ELSE /\ opener' = "ended" /\ woken' = "main" /\ flags' = [flags EXCEPT !.fd = TRUE]
         /\ UNCHANGED <<asked, buffer, s, failed>>

(* opener has a connection: it hands it to main, or closes it if main has   *)
(* given up.                                                                *)
Opened ==
    IF flags.drop_fd THEN opener' = "closing" /\ CloseFirst("opener") /\ woken' = "none" /\ UNCHANGED flags
    ELSE /\ opener' = "ended" /\ woken' = "main" /\ flags' = [flags EXCEPT !.fd = TRUE]
         /\ UNCHANGED <<asked, buffer, s, failed>>

OpenerResumed ==
    /\ woken = "opener" /\ opener = "open"
    /\ IF s.connected THEN Opened
       ELSE /\ s' = NoSocket /\ opener' = "ended"
            /\ woken' = IF flags.drop_fd THEN "none" ELSE "main"
            /\ UNCHANGED <<asked, buffer, flags, failed>>
    /\ UNCHANGED <<net, wire, mailbox, main, op, reads, taken, timer, shut>>

OpenerClosed ==
    /\ woken = "opener" /\ opener = "closing"
    /\ s' = NoSocket /\ buffer' = Empty /\ opener' = "ended" /\ woken' = "none"
    /\ UNCHANGED <<netVars, main, op, reads, taken, flags, timer, shut, failed>>

(* sockethelper.connect returns the socket, and the timer of the request is *)
(* set, or it raises.                                                       *)
Connected ==
    /\ woken = "main" /\ main = "connecting" /\ woken' = "none"
    /\ IF flags.fd THEN main' = "run" /\ timer' = "armed" ELSE main' = "ended" /\ UNCHANGED timer
    /\ UNCHANGED <<netVars, s, buffer, opener, op, reads, taken, flags, shut, failed>>

-----------------------------------------------------------------------------
(* Reading *)

RequestTimeout ==
    /\ Idle /\ timer = "armed" /\ timer' = "over"
    /\ IF ~flags.finish
         THEN buffer' = Empty /\ asked' = asked + 1 /\ shut' = TRUE
         ELSE UNCHANGED <<buffer, asked, shut>>
    /\ UNCHANGED <<net, wire, mailbox, s, main, opener, woken, op, reads, taken, flags, failed>>

(* What can be taken from b for a read, if it need not wait. *)
CanTake(b, kind, n) ==
    CASE kind = "some" -> b.nodes # <<>>
      [] kind = "size" -> b.size >= n
      [] kind = "line" -> SepAt(b) # {}
      [] kind = "all" -> FALSE

Take(b, kind, n) ==
    CASE kind = "some" -> [str |-> Content(b), buffer |-> Empty]
      [] kind = "size" -> PopBuffer(b, n)
      [] kind = "line" -> PopLine(b)

(* read, readline and readall: return at once what is there, or fail on a  *)
(* closed socket, or wait.  `some` waits for any byte, `all` for the end.  *)
(* A read that fails ends the request, and so does readall.                *)
Read(kind, n) ==
    /\ main = "run" /\ op.kind # "end" /\ reads < MaxReads /\ reads' = reads + 1
    /\ IF CanTake(buffer, kind, n)
         THEN LET r == Take(buffer, kind, n)
              IN taken' = taken \o r.str /\ buffer' = r.buffer /\ UNCHANGED <<main, op, s, failed>>
       ELSE IF ~s.connected
         THEN /\ taken' = taken \o Content(buffer) /\ buffer' = Empty
              /\ op' = [kind |-> "end", n |-> 0] /\ UNCHANGED <<main, s, failed>>
       ELSE /\ main' = "read" /\ op' = [kind |-> kind, n |-> n]
            /\ s' = [s EXCEPT !.read_required = IF kind = "some" THEN "size" ELSE kind, !.co = "main"]
            /\ failed' = (failed \/ s.read_required # "nil" \/ s.co # "none")
            /\ UNCHANGED <<taken, buffer>>
    /\ UNCHANGED <<netVars, opener, woken, flags, timer, shut>>

(* The reader runs again, and takes what it asked for, or, from a socket    *)
(* that is closed, what is left.                                            *)
ReadResumed ==
    /\ woken = "main" /\ main = "read" /\ woken' = "none" /\ main' = "run"
    /\ IF CanTake(buffer, op.kind, op.n) /\ (op.kind = "line" => s.connected)
         THEN LET r == Take(buffer, op.kind, op.n)
              IN taken' = taken \o r.str /\ buffer' = r.buffer /\ UNCHANGED op
         ELSE /\ taken' = taken \o Content(buffer) /\ buffer' = Empty
              /\ op' = [kind |-> "end", n |-> 0]
    /\ failed' = (failed \/ (op.kind = "all" /\ s.connected))
    /\ UNCHANGED <<netVars, s, opener, reads, flags, timer, shut>>

-----------------------------------------------------------------------------
(* The end of httpc.request *)

Finish ==
    /\ main = "run" /\ flags' = [flags EXCEPT !.finish = TRUE]
    /\ CloseFirst("main")
    /\ main' = IF s.connected THEN "closing" ELSE "ended"
    /\ UNCHANGED <<net, wire, mailbox, opener, woken, op, reads, taken, timer, shut>>

Closed ==
    /\ woken = "main" /\ main = "closing" /\ woken' = "none" /\ main' = "ended"
    /\ s' = NoSocket /\ buffer' = Empty
    /\ UNCHANGED <<netVars, opener, op, reads, taken, flags, timer, shut, failed>>

OnMessage == OnConnect \/ OnData \/ OnClose \/ OnError
Resumed == OpenerResumed \/ OpenerClosed \/ Connected \/ ReadResumed \/ Closed

HttpNext ==
    \/ NetConnect \/ NetData \/ NetEnds \/ NetAnswers
    \/ OnConnect \/ OnData \/ OnClose \/ OnError
    \/ Start \/ ConnectTimeout \/ OpenerResumed \/ OpenerClosed \/ Connected
    \/ RequestTimeout \/ ReadResumed \/ Finish \/ Closed
    \/ \E kind \in {"some", "line", "all"} : Read(kind, 0)
    \/ \E n \in Sizes : Read("size", n)

(* The service handles its messages and runs its coroutines, timers fire,   *)
(* an attempt to connect comes to an end, and the socket server answers.    *)
(* The peer owes nothing.                                                   *)
HttpFairness ==
    /\ WF_httpVars(OnMessage) /\ WF_httpVars(Resumed)
    /\ WF_httpVars(Finish) /\ WF_httpVars(ConnectTimeout) /\ WF_httpVars(RequestTimeout)
    /\ WF_httpVars(NetConnect) /\ WF_httpVars(NetAnswers)

HttpSpec == HttpInit /\ [][HttpNext]_httpVars /\ HttpFairness

-----------------------------------------------------------------------------
(* Types; and the size the buffer keeps is the number of its bytes, which    *)
(* is what driver.pop and the data message rely on.                         *)
HttpTypeOK ==
    /\ net \in {"none", "connecting", "open", "closed"} /\ asked \in Nat
    /\ \A i \in 1..Len(mailbox) : mailbox[i].type \in {"connect", "data", "close", "error"}
    /\ s \in [pooled : BOOLEAN, connected : BOOLEAN,
               read_required : {"nil", "size", "line", "all"}, co : {"none", "main", "opener"}]
    /\ buffer.size = Len(Content(buffer))
    /\ buffer.nodes # <<>> => buffer.offset < Len(Head(buffer.nodes))
    /\ main \in {"start", "connecting", "run", "read", "closing", "ended"}
    /\ opener \in {"none", "open", "closing", "ended"} /\ woken \in {"none", "main", "opener"}
    /\ timer \in {"off", "armed", "over"} /\ reads \in 0..MaxReads
    /\ flags \in [fd : BOOLEAN, drop_fd : BOOLEAN, finish : BOOLEAN]

(* The assertions of skynet.socket hold: nobody waits on a socket on which   *)
(* another coroutine waits, no read starts while an earlier one is still     *)
(* required, and readall returns on a closed socket only.                    *)
SocketAssertionsHold == ~failed

(* As long as the timer has not shut the socket down, what was read, what    *)
(* is in the buffer and what is still to come are the bytes of the peer, in  *)
(* their order, however they were cut into messages.                         *)
NothingSkipped ==
    LET coming == FlattenSeq([i \in 1..Len(mailbox) |-> mailbox[i].data]) \o wire
    IN ~shut =>
         IF s.pooled THEN taken \o Content(buffer) \o coming = Stream
                     ELSE IsPrefix(taken, Stream)

(* A reader gets the bytes of the peer, and trips over no other reader.      *)
ReadsSound == SocketAssertionsHold /\ NothingSkipped

(* Every request ends, whatever the peer does: HTTP calls of the account     *)
(* client cannot hold a room up for ever.  And no socket is left behind,     *)
(* also not by a connection that was made after the request had given up.    *)
SocketReleased == (main = "connecting") ~> (main = "ended" /\ ~s.pooled /\ net = "closed")
=============================================================================

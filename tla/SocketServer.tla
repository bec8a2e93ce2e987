---------------------------- MODULE SocketServer ----------------------------
(***************************************************************************)
(* The TCP half of socket_server.c.  Services call in from worker threads: *)
(* they reserve an id, write a request into the control pipe, or write to  *)
(* the socket directly when nothing else is being sent on it.  One socket  *)
(* thread reads the pipe and handles the events of the sockets.  The       *)
(* spinlock dw_lock and the counter sending are all that keeps a direct    *)
(* write apart from what the socket thread sends.                          *)
(*                                                                         *)
(* A packet is Size units long; a write takes as many of them as the       *)
(* kernel likes.  Between two uses of a slot MAX_SOCKET ids are handed     *)
(* out, so a slot is not reserved while a call on its last id is under way.*)
(***************************************************************************)
EXTENDS Integers, Sequences, FiniteSets, Functions

CONSTANTS
    Service,     \* services that send and close
    Packet,      \* packets, each sent once, in the order of their numbers
    Size,        \* units of a packet
    MaxSocket,   \* MAX_SOCKET: slots
    MaxId,       \* bound: ids handed out
    MaxWork,     \* bound: calls of services and connections accepted
    None

ASSUME SocketAssumption ==
    /\ Packet \subseteq Nat /\ IsFiniteSet(Service)
    /\ None \notin Service /\ None \notin {"listen", "conn"} /\ None \notin [p : Packet, left : 1..Size]
    /\ {Size, MaxSocket} \subseteq Nat \ {0} /\ {MaxId, MaxWork} \subseteq Nat

Slot == 0..(MaxSocket - 1)
Id == 1..MaxId

VARIABLES
    sock,      \* ss->slot
    alloc_id,  \* ss->alloc_id
    pipe,      \* requests in the control pipe
    call,      \* of each service, where it is in socket_server_send
    io,        \* the slot that the socket thread is about to force_close, or None
    known,     \* of each id, what services were told it is: "listen", "conn" or None
    wire,      \* of each id, the units that were written to its fd
    sentBy,    \* of each packet, the service that sent it
    lowp,      \* packets sent with low priority
    work       \* calls and connections so far

sockVars == <<sock, alloc_id, pipe, call, io, known, wire, sentBy, lowp, work>>

Closed == [type |-> "INVALID", id |-> 0, tcp |-> FALSE, sending |-> 0, high |-> << >>, low |-> << >>,
           wev |-> FALSE, dw |-> None, lock |-> None]
Out == [pc |-> "out", id |-> 0, p |-> 0]

SockInit ==
    /\ sock = [i \in Slot |-> Closed]
    /\ alloc_id = 0
    /\ pipe = << >>
    /\ call = [v \in Service |-> Out]
    /\ io = None
    /\ known = [i \in Id |-> None]
    /\ wire = [i \in Id |-> << >>]
    /\ sentBy = [p \in Packet |-> None]
    /\ lowp = {}
    /\ work = 0

Hash(id) == id % MaxSocket
Of(id) == sock[Hash(id)]
Set(i, s) == sock' = [sock EXCEPT ![i] = s]
(* One more call of a service, or connection from outside. *)
Work == work < MaxWork /\ work' = work + 1
Ask(r) == pipe' = Append(pipe, r)

-----------------------------------------------------------------------------
(* Lists of write buffers: the units left of each packet.                  *)

(* One unit of the first buffer goes out. *)
DrainTurn(d) ==
    LET b == Head(d.rest)
    IN  [rest |-> IF b.left = 1 THEN Tail(d.rest)
                  ELSE <<[b EXCEPT !.left = @ - 1]>> \o Tail(d.rest),
         out |-> Append(d.out, b.p)]

(* What is left of a list, and what went out, after n units are written. *)
Drained(list, n) ==
    LET f[k \in Nat] == IF k = 0 THEN [rest |-> list, out |-> << >>] ELSE DrainTurn(f[k - 1])
    IN  f[n]

Units(list) == SumFunction([k \in DOMAIN list |-> list[k].left])
Uncomplete(list) == list # << >> /\ Head(list).left < Size
BufferEmpty(s) == s.high = << >> /\ s.low = << >>
NoMoreSending(s) == BufferEmpty(s) /\ s.dw = None /\ s.sending = 0

(* Mutant of CanDirectWrite: packets in the pipe are not thought of. *)
CanDirectWriteNow(s, id) == s.id = id /\ BufferEmpty(s) /\ s.dw = None /\ s.type = "CONNECTED"

CanDirectWrite(s, id) == s.id = id /\ NoMoreSending(s) /\ s.type = "CONNECTED"

(* The slot after force_close. *)
ForceClosed(s) == [s EXCEPT !.type = "INVALID", !.high = << >>, !.low = << >>, !.dw = None, !.wev = FALSE]

-----------------------------------------------------------------------------
(* The calls of the services                                               *)

(* reserve_id: the next id whose slot is free. *)
Reserve(s2) ==
    LET free(id) == Of(id).type = "INVALID" /\ \A v \in Service : call[v].id # Of(id).id \/ call[v].pc = "out"
        ids == {i \in (alloc_id + 1)..MaxId : free(i)}
    IN  /\ ids # {}
        /\ LET id == CHOOSE i \in ids : \A j \in ids : i <= j IN
             /\ alloc_id' = id
             /\ Set(Hash(id), [s2 EXCEPT !.id = id])

Reserved == [Closed EXCEPT !.type = "RESERVE"]

(* socket_server_connect *)
Connect ==
    /\ Work /\ Reserve(Reserved)
    /\ Ask([op |-> "O", id |-> alloc_id'])
    /\ UNCHANGED <<call, io, known, wire, sentBy, lowp>>

(* socket_server_listen; the id is returned to the caller at once. *)
Listen ==
    /\ Work /\ Reserve(Reserved)
    /\ Ask([op |-> "L", id |-> alloc_id'])
    /\ known' = [known EXCEPT ![alloc_id'] = "listen"]
    /\ UNCHANGED <<call, io, wire, sentBy, lowp>>

(* socket_server_start, _close and _shutdown *)
Request(id, op) ==
    /\ known[id] # None /\ Work
    /\ Ask([op |-> op, id |-> id])
    /\ UNCHANGED <<sock, alloc_id, call, io, known, wire, sentBy, lowp>>

(* socket_server_send and _send_lowpriority, the first look at the socket. *)
SendStart(v, id, p, lowpriority) ==
    /\ call[v].pc = "out" /\ known[id] = "conn" /\ Work
    /\ lowp' = IF lowpriority THEN lowp \cup {p} ELSE lowp
    /\ sentBy[p] = None /\ \A q \in Packet : q < p => sentBy[q] # None
    /\ sentBy' = [sentBy EXCEPT ![p] = v]
    /\ LET s == Of(id) IN
         call' = [call EXCEPT ![v] =
                    IF s.id # id \/ s.type = "INVALID" THEN Out
                    ELSE [pc |-> IF ~lowpriority /\ CanDirectWrite(s, id) THEN "trylock" ELSE "inc",
                          id |-> id, p |-> p]]
    /\ UNCHANGED <<sock, alloc_id, pipe, io, known, wire>>

(* socket_trylock *)
SendLock(v) ==
    /\ call[v].pc = "trylock"
    /\ LET s == Of(call[v].id) IN
         \/ /\ s.lock = None /\ Set(Hash(call[v].id), [s EXCEPT !.lock = v])
            /\ call' = [call EXCEPT ![v].pc = "check"]
         \/ s.lock # None /\ call' = [call EXCEPT ![v].pc = "inc"] /\ UNCHANGED sock
    /\ UNCHANGED <<alloc_id, pipe, io, known, wire, sentBy, lowp, work>>

(* "may be we can send directly, double check" under the lock. *)
SendCheck(v) ==
    /\ call[v].pc = "check"
    /\ LET id == call[v].id IN
         IF CanDirectWrite(Of(id), id)
           THEN call' = [call EXCEPT ![v].pc = "write"] /\ UNCHANGED sock
           ELSE /\ call' = [call EXCEPT ![v].pc = "inc"]
                /\ Set(Hash(id), [Of(id) EXCEPT !.lock = None])
    /\ UNCHANGED <<alloc_id, pipe, io, known, wire, sentBy, lowp, work>>

(* The direct write of n units (0 after an error); the rest is left to the  *)
(* socket thread in dw_buffer.                                              *)
SendWrite(v, n) ==
    /\ call[v].pc = "write"
    /\ LET id == call[v].id
           p == call[v].p
       IN  /\ wire' = [wire EXCEPT ![id] = @ \o [k \in 1..n |-> p]]
           /\ Set(Hash(id), IF n = Size THEN [Of(id) EXCEPT !.lock = None]
                            ELSE [Of(id) EXCEPT !.lock = None, !.wev = TRUE,
                                                !.dw = [p |-> p, left |-> Size - n]])
    /\ call' = [call EXCEPT ![v] = Out]
    /\ UNCHANGED <<alloc_id, pipe, io, known, sentBy, lowp, work>>

(* Mutant of SendInc: the counter is left to the socket thread. *)
SendIncLater(v) ==
    /\ call[v].pc = "inc"
    /\ call' = [call EXCEPT ![v].pc = "ask"]
    /\ UNCHANGED <<sock, alloc_id, pipe, io, known, wire, sentBy, lowp, work>>

(* inc_sending_ref, unless the slot has another id by now. *)
SendInc(v) ==
    /\ call[v].pc = "inc"
    /\ call' = [call EXCEPT ![v].pc = "ask"]
    /\ LET s == Of(call[v].id) IN
         IF s.tcp /\ s.id = call[v].id THEN Set(Hash(s.id), [s EXCEPT !.sending = @ + 1])
                                       ELSE UNCHANGED sock
    /\ UNCHANGED <<alloc_id, pipe, io, known, wire, sentBy, lowp, work>>

SendAsk(v) ==
    /\ call[v].pc = "ask"
    /\ Ask([op |-> IF call[v].p \in lowp THEN "P" ELSE "D", id |-> call[v].id, p |-> call[v].p])
    /\ call' = [call EXCEPT ![v] = Out]
    /\ UNCHANGED <<sock, alloc_id, io, known, wire, sentBy, lowp, work>>

-----------------------------------------------------------------------------
(* The socket thread.  force_close waits for the lock: until then nothing   *)
(* else is done by this thread (io).                                        *)

Free == io = None
HasRequest(op) == Free /\ pipe # << >> /\ Head(pipe).op = op
Req == Head(pipe)
NextRequest == pipe' = Tail(pipe)

(* new_fd *)
NewFd(id, type) ==
    Set(Hash(id), [Closed EXCEPT !.type = type, !.id = id, !.tcp = TRUE, !.wev = (type = "CONNECTING")])

(* open_socket: connected at once, connecting, or failed. *)
CtrlOpen ==
    /\ HasRequest("O") /\ NextRequest
    /\ \/ NewFd(Req.id, "CONNECTED") /\ known' = [known EXCEPT ![Req.id] = "conn"]
       \/ NewFd(Req.id, "CONNECTING") /\ UNCHANGED known
       \/ Set(Hash(Req.id), [Of(Req.id) EXCEPT !.type = "INVALID"]) /\ UNCHANGED known
    /\ UNCHANGED <<alloc_id, call, io, wire, sentBy, lowp, work>>

(* listen_socket *)
CtrlListen ==
    /\ HasRequest("L") /\ NextRequest
    /\ NewFd(Req.id, "PLISTEN")
    /\ UNCHANGED <<alloc_id, call, io, known, wire, sentBy, lowp, work>>

(* start_socket; sp_add may fail. *)
CtrlStart ==
    /\ HasRequest("S") /\ NextRequest
    /\ LET s == Of(Req.id) IN
         IF s.id = Req.id /\ s.type \in {"PACCEPT", "PLISTEN"}
           THEN \/ /\ Set(Hash(Req.id), [s EXCEPT !.type = IF @ = "PACCEPT" THEN "CONNECTED" ELSE "LISTEN"])
                   /\ UNCHANGED io
                \/ io' = Hash(Req.id) /\ UNCHANGED sock
           ELSE UNCHANGED <<sock, io>>
    /\ UNCHANGED <<alloc_id, call, known, wire, sentBy, lowp, work>>

(* append_sendbuffer *)
Appended(s, p, low) ==
    IF low THEN [s EXCEPT !.low = Append(@, [p |-> p, left |-> Size])]
           ELSE [s EXCEPT !.high = Append(@, [p |-> p, left |-> Size])]

(* send_socket: what becomes of the slot; the packet is dropped when the    *)
(* socket cannot send.                                                      *)
SendSocket(s, r) ==
    IF s.id # r.id \/ s.type \in {"INVALID", "HALFCLOSE", "PACCEPT", "PLISTEN", "LISTEN"} THEN s
    ELSE IF BufferEmpty(s) /\ s.type = "CONNECTED" THEN [Appended(s, r.p, FALSE) EXCEPT !.wev = TRUE]
    ELSE Appended(s, r.p, r.op = "P")

(* Mutant of CtrlSend: send_socket gives the reference back too. *)
CtrlSendTwice ==
    /\ Free /\ pipe # << >> /\ Req.op \in {"D", "P"} /\ NextRequest
    /\ LET s == SendSocket(Of(Req.id), Req) IN
         Set(Hash(Req.id), IF s.id = Req.id /\ s.tcp THEN [s EXCEPT !.sending = @ - 2] ELSE s)
    /\ UNCHANGED <<alloc_id, call, io, known, wire, sentBy, lowp, work>>

(* Requests D and P: send_socket, then dec_sending_ref. *)
CtrlSend ==
    /\ Free /\ pipe # << >> /\ Req.op \in {"D", "P"} /\ NextRequest
    /\ LET s == SendSocket(Of(Req.id), Req) IN
         Set(Hash(Req.id), IF s.id = Req.id /\ s.tcp THEN [s EXCEPT !.sending = @ - 1] ELSE s)
    /\ UNCHANGED <<alloc_id, call, io, known, wire, sentBy, lowp, work>>

(* The direct write's rest goes in front of the high list. *)
Merged(s) == IF s.dw = None THEN s ELSE [s EXCEPT !.high = <<s.dw>> \o @, !.dw = None]

(* send_buffer_ when the kernel takes n units: the high list, then the low  *)
(* one; a low packet that is half sent is raised; with nothing left the     *)
(* write event goes off.                                                    *)
Flushed(s, n) ==
    LET h == Units(s.high)
        high == Drained(s.high, IF n < h THEN n ELSE h)
        low == IF n > h THEN Drained(s.low, n - h) ELSE [rest |-> s.low, out |-> << >>]
        t == [s EXCEPT !.high = high.rest, !.low = low.rest]
    IN  [out |-> high.out \o low.out,
         s |-> IF Uncomplete(t.low) THEN [t EXCEPT !.high = <<Head(t.low)>>, !.low = Tail(@)]
               ELSE IF BufferEmpty(t) THEN [t EXCEPT !.wev = FALSE]
               ELSE t]

(* Mutant of SendBuffer: a half-closed socket that is empty is not closed. *)
SendBufferStays(i, n, f) ==
    /\ n \in 0..(Units(Merged(sock[i]).high) + Units(sock[i].low))
    /\ wire' = [wire EXCEPT ![sock[i].id] = @ \o f.out]
    /\ Set(i, f.s)

(* send_buffer on slot i, by n units; after it the slot is in state f.s, or *)
(* closed if it was half closed and is empty now.                           *)
SendBuffer(i, n, f) ==
    /\ n \in 0..(Units(Merged(sock[i]).high) + Units(sock[i].low))
    /\ wire' = [wire EXCEPT ![sock[i].id] = @ \o f.out]
    /\ Set(i, IF f.s.type = "HALFCLOSE" /\ BufferEmpty(f.s) THEN ForceClosed(f.s) ELSE f.s)

(* close_socket: flush what there is; close at once when nothing is left or *)
(* on shutdown, else HALFCLOSE.                                             *)
CtrlClose(n) ==
    /\ (HasRequest("K") \/ HasRequest("KS")) /\ NextRequest
    /\ LET i == Hash(Req.id)
           s == sock[i]
           flush == ~NoMoreSending(s) /\ s.lock = None
           f == IF flush THEN Flushed(Merged(s), n) ELSE [s |-> s, out |-> << >>]
       IN  IF s.id # Req.id \/ s.type = "INVALID"
             THEN n = 0 /\ UNCHANGED <<sock, wire, io>>
             ELSE /\ n \in 0..(Units(Merged(s).high) + Units(s.low)) /\ (flush \/ n = 0)
                  /\ wire' = [wire EXCEPT ![s.id] = @ \o f.out]
                  /\ IF f.s.type = "HALFCLOSE" /\ BufferEmpty(f.s) /\ flush
                       THEN Set(i, ForceClosed(f.s)) /\ UNCHANGED io
                     ELSE IF Req.op = "KS" \/ NoMoreSending(f.s)
                       THEN Set(i, f.s) /\ io' = i
                     ELSE Set(i, [f.s EXCEPT !.type = "HALFCLOSE"]) /\ UNCHANGED io
    /\ UNCHANGED <<alloc_id, call, known, sentBy, lowp, work>>

(* close_socket when the write of the flush fails: send_list_tcp closes. *)
CtrlCloseError ==
    /\ (HasRequest("K") \/ HasRequest("KS")) /\ NextRequest
    /\ LET s == Of(Req.id) IN
         /\ s.id = Req.id /\ s.type # "INVALID" /\ s.lock = None /\ ~BufferEmpty(Merged(s))
         /\ Set(Hash(Req.id), ForceClosed(s))
    /\ UNCHANGED <<alloc_id, call, io, known, wire, sentBy, lowp, work>>

(* force_close, once the lock is free. *)
ForceClose ==
    /\ io # None
    /\ sock[io].lock = None
    /\ Set(io, ForceClosed(sock[io]))
    /\ io' = None
    /\ UNCHANGED <<alloc_id, pipe, call, known, wire, sentBy, lowp, work>>

(* report_connect *)
EventConnect(i) ==
    /\ Free /\ sock[i].type = "CONNECTING"
    /\ \/ /\ Set(i, [sock[i] EXCEPT !.type = "CONNECTED", !.wev = IF NoMoreSending(sock[i]) THEN FALSE ELSE @])
          /\ known' = [known EXCEPT ![sock[i].id] = "conn"]
          /\ UNCHANGED io
       \/ io' = i /\ UNCHANGED <<sock, known>>
    /\ UNCHANGED <<alloc_id, pipe, call, wire, sentBy, lowp, work>>

(* report_accept; no id left: the connection is closed again. *)
EventAccept(i) ==
    /\ Free /\ sock[i].type = "LISTEN" /\ Work
    /\ Reserve([Closed EXCEPT !.type = "PACCEPT", !.tcp = TRUE])
    /\ known' = [known EXCEPT ![alloc_id'] = "conn"]
    /\ UNCHANGED <<pipe, call, io, wire, sentBy, lowp>>

(* forward_message_tcp: the peer closed, or an error; data changes nothing  *)
(* here and is discarded after a half close.                                *)
EventHangup(i) ==
    /\ Free /\ sock[i].type \in {"CONNECTED", "HALFCLOSE"}
    /\ io' = i
    /\ UNCHANGED <<sock, alloc_id, pipe, call, known, wire, sentBy, lowp, work>>

(* The socket is writable: send_buffer, unless a direct write holds the lock. *)
EventWrite(i, n) ==
    /\ Free /\ sock[i].wev /\ sock[i].type \in {"CONNECTED", "HALFCLOSE"} /\ sock[i].lock = None
    /\ SendBuffer(i, n, Flushed(Merged(sock[i]), n))
    /\ UNCHANGED <<alloc_id, pipe, call, io, known, sentBy, lowp, work>>

(* The write fails: send_list_tcp closes, with the lock in its hands. *)
EventWriteError(i) ==
    /\ Free /\ sock[i].wev /\ sock[i].type \in {"CONNECTED", "HALFCLOSE"} /\ sock[i].lock = None
    /\ ~BufferEmpty(Merged(sock[i]))
    /\ Set(i, ForceClosed(sock[i]))
    /\ UNCHANGED <<alloc_id, pipe, call, io, known, wire, sentBy, lowp, work>>

-----------------------------------------------------------------------------
Calls(v) == SendLock(v) \/ SendCheck(v) \/ SendInc(v) \/ SendAsk(v) \/ \E n \in 0..Size : SendWrite(v, n)

Most == Size * Cardinality(Packet)

Ctrl ==
    \/ CtrlOpen \/ CtrlListen \/ CtrlStart \/ CtrlSend \/ CtrlCloseError \/ ForceClose
    \/ \E n \in 0..Most : CtrlClose(n)

(* A service or the peer may do something, or not. *)
Initiatives ==
    \/ Connect \/ Listen
    \/ \E id \in Id, op \in {"S", "K", "KS"} : Request(id, op)
    \/ \E v \in Service, id \in Id, p \in Packet, lp \in BOOLEAN : SendStart(v, id, p, lp)
    \/ \E i \in Slot : EventAccept(i) \/ EventHangup(i) \/ EventWriteError(i)

SockNext ==
    \/ Initiatives \/ Ctrl
    \/ \E v \in Service : Calls(v)
    \/ \E i \in Slot : EventConnect(i) \/ \E n \in 0..Most : EventWrite(i, n)

SockSpec == SockInit /\ [][SockNext]_sockVars

(* Calls go on; the socket thread handles requests and connects; a socket   *)
(* whose write event is on takes a unit at last, or it fails.               *)
SockFairness ==
    /\ \A v \in Service : WF_sockVars(Calls(v))
    /\ WF_sockVars(Ctrl)
    /\ \A i \in Slot : /\ WF_sockVars(EventConnect(i))
                       /\ SF_sockVars(\E n \in 1..Most : EventWrite(i, n))

SockFairSpec == SockSpec /\ SockFairness

-----------------------------------------------------------------------------
Buffers == Seq([p : Packet, left : 1..Size])
Types == {"INVALID", "RESERVE", "PLISTEN", "LISTEN", "CONNECTING", "CONNECTED", "HALFCLOSE", "PACCEPT"}

(* Every variable has its type.  sending is a count: dec_sending_ref's      *)
(* assertion that it is not 0 holds.                                        *)
SockTypeOK ==
    /\ \A i \in Slot :
         LET s == sock[i] IN
           /\ s.type \in Types /\ s.id \in Id \cup {0} /\ s.tcp \in BOOLEAN /\ s.sending \in Nat
           /\ s.high \in Buffers /\ s.low \in Buffers /\ s.wev \in BOOLEAN
           /\ s.dw = None \/ s.dw \in [p : Packet, left : 1..Size]
           /\ s.lock \in Service \cup {None}
    /\ alloc_id \in 0..MaxId /\ io \in Slot \cup {None} /\ known \in [Id -> {"listen", "conn", None}]
    /\ wire \in [Id -> Seq(Packet)] /\ sentBy \in [Packet -> Service \cup {None}]
    /\ lowp \subseteq Packet /\ work \in 0..MaxWork

Open(s) == s.type \in {"CONNECTED", "HALFCLOSE"}

(* send_buffer_, raise_uncomplete, dw_buffer: on the wire the units of a    *)
(* packet are together; no packet starts inside another, whichever of the   *)
(* two threads and two lists it went through.                               *)
PacketsWhole ==
    \A id \in Id : LET w == wire[id] IN
        \A a, b \in DOMAIN w : a < b /\ w[a] = w[b] => \A k \in a..b : w[k] = w[a]

(* socket_server_send: packets that a service sends on a socket with high   *)
(* priority arrive in the order it sent them: a direct write never          *)
(* overtakes a packet in the pipe or in a list.                             *)
PacketsInOrder ==
    \A id \in Id : LET w == wire[id] IN
        \A a, b \in DOMAIN w :
            a < b /\ sentBy[w[a]] = sentBy[w[b]] /\ {w[a], w[b]} \cap lowp = {} => w[a] <= w[b]

(* The units of packet p that are on the wire of id, or on their way to it. *)
InList(list, p) == Cardinality({k \in DOMAIN list : list[k].p = p}) # 0
Underway(id, p) ==
    LET s == Of(id) IN
      \/ \E k \in DOMAIN pipe : pipe[k].op \in {"D", "P"} /\ pipe[k].id = id /\ pipe[k].p = p
      \/ \E v \in Service : call[v].pc # "out" /\ call[v].id = id /\ call[v].p = p
      \/ InList(s.high, p) \/ InList(s.low, p) \/ (s.dw # None /\ s.dw.p = p)
OnWire(id, p) == Cardinality({k \in DOMAIN wire[id] : wire[id][k] = p})

(* While a socket stays open no part of a packet gets lost: what is begun   *)
(* on the wire is complete or the rest of it is kept somewhere.             *)
NothingTorn ==
    \A i \in Slot : Open(sock[i]) =>
        \A p \in Packet : OnWire(sock[i].id, p) \in 1..(Size - 1) => Underway(sock[i].id, p)

(* The peer gets packets: whole, in order, and the rest of each one begun.  *)
WireIntact == PacketsWhole /\ PacketsInOrder /\ NothingTorn

(* sending counts the requests D and P that are in the pipe or about to be  *)
(* written into it; so close_socket knows that more data is to come.        *)
SendingCounts ==
    \A i \in Slot : LET s == sock[i] IN
        Open(s) => s.sending =
            Cardinality({k \in DOMAIN pipe : pipe[k].op \in {"D", "P"} /\ pipe[k].id = s.id})
            + Cardinality({v \in Service : call[v].pc = "ask" /\ call[v].id = s.id})

(* sp_write: an open socket that has something to send has its write event  *)
(* on, so that the socket thread is called.                                 *)
WriteArmed == \A i \in Slot : Open(sock[i]) /\ ~(BufferEmpty(sock[i]) /\ sock[i].dw = None) => sock[i].wev

(* What is to be sent is known: to close_socket by the counter, to the      *)
(* socket thread by the write event.                                        *)
SendsKnown == SendingCounts /\ WriteArmed

(* A half-closed socket with data is closed after the data is sent. *)
HalfClosedDrains ==
    \A i \in Slot : sock[i].type = "HALFCLOSE" /\ ~BufferEmpty(sock[i]) ~> sock[i].type # "HALFCLOSE"
=============================================================================

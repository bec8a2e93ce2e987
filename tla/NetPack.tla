------------------------------- MODULE NetPack -------------------------------
(***************************************************************************)
(* The gate's reading side: lua-netpack.c cuts the byte streams of the     *)
(* clients into packets, snax.gateserver hands the packets to the handler  *)
(* of the gate and counts the clients.  A packet is two bytes of length,   *)
(* high byte first, and the data.  The socket server delivers a stream in  *)
(* pieces of any length; what is left of a packet waits in a hash table    *)
(* whose chains are shared by connections, and a piece that holds several  *)
(* packets goes through a ring buffer that grows.                          *)
(*                                                                         *)
(* The handler does not yield (it sends), so a message of the socket       *)
(* server is handled, and the ring buffer emptied, in one step.            *)
(***************************************************************************)
EXTENDS Integers, Sequences, FiniteSets, SequencesExt

CONSTANTS
    Fd,             \* ids of sockets; an id is used again after its close
    Packet,         \* the packets clients send, sequences of bytes
    Base,           \* values of a byte
    QUEUESIZE, HASHSIZE,
    maxclient,
    MaxSend         \* bound: packets of all connections together

ASSUME NetAssumption ==
    /\ Fd \subseteq Nat /\ QUEUESIZE \in Nat \ {0} /\ HASHSIZE \in Nat \ {0}
    /\ \A p \in Packet : Len(p) < Base * Base /\ \A i \in 1..Len(p) : p[i] \in 0..(Base - 1)

VARIABLES
    sock,           \* the socket of a connection, in the socket server
    sent,           \* what its client sends
    stream,         \* the bytes of that which have not been delivered
    q,              \* the netpack queue
    connection, client_number,      \* of gateserver
    got             \* packets handed to the handler

netpackVars == <<sock, sent, stream, q, connection, client_number, got>>

NoPack == [id |-> 0, data |-> <<>>]

NetPackInit ==
    /\ sock = [f \in Fd |-> "free"]
    /\ sent = [f \in Fd |-> <<>>] /\ stream = [f \in Fd |-> <<>>]
    /\ q = [cap |-> QUEUESIZE, head |-> 0, tail |-> 0,
            queue |-> [i \in 0..(QUEUESIZE - 1) |-> NoPack],
            hash |-> [h \in 0..(HASHSIZE - 1) |-> <<>>]]
    /\ connection = [f \in Fd |-> "nil"] /\ client_number = 0
    /\ got = [f \in Fd |-> <<>>]

(* A packet as its client writes it. *)
Frame(p) == <<Len(p) \div Base, Len(p) % Base>> \o p
Frames(ps) == FlattenSeq([i \in 1..Len(ps) |-> Frame(ps[i])])

-----------------------------------------------------------------------------
(* The table of packets that are not complete.  An entry has read -1 when    *)
(* only the first byte of its length is known.                              *)

hash_fd(fd) == ((fd \div 2^24) + (fd \div 2^12) + fd) % HASHSIZE

(* Where the entry of fd is in its chain. *)
Found(t, fd) ==
    LET chain == t.hash[hash_fd(fd)] IN {i \in 1..Len(chain) : chain[i].id = fd}

(* find_uncomplete: the entry, and the table without it. *)
Uncomplete(t, fd) == t.hash[hash_fd(fd)][CHOOSE i \in Found(t, fd) : TRUE]
TakeOut(t, fd) ==
    [t EXCEPT !.hash[hash_fd(fd)] = RemoveAt(@, CHOOSE i \in Found(t, fd) : TRUE)]

(* save_uncomplete, and the return of an entry that was filled further. *)
Save(t, uc) == [t EXCEPT !.hash[hash_fd(uc.id)] = <<uc>> \o @]

Partial(fd, size, data) == [id |-> fd, read |-> Len(data), header |-> 0, size |-> size, data |-> data]
HeaderOnly(fd, byte) == [id |-> fd, read |-> -1, header |-> byte, size |-> 0, data |-> <<>>]

CloseUncomplete(t, fd) == IF Found(t, fd) = {} THEN t ELSE TakeOut(t, fd)

-----------------------------------------------------------------------------
(* The ring buffer of complete packets *)

(* Mutant of ExpandQueue: the packets are copied as they lie. *)
ExpandQueueUnrotated(t) ==
    [t EXCEPT !.cap = @ + QUEUESIZE, !.head = 0, !.tail = t.cap,
              !.queue = [i \in 0..(t.cap + QUEUESIZE - 1) |->
                           IF i < t.cap THEN t.queue[i] ELSE NoPack]]

ExpandQueue(t) ==
    [t EXCEPT !.cap = @ + QUEUESIZE, !.head = 0, !.tail = t.cap,
              !.queue = [i \in 0..(t.cap + QUEUESIZE - 1) |->
                           IF i < t.cap THEN t.queue[(t.head + i) % t.cap] ELSE NoPack]]

PushData(t, fd, data) ==
    LET u == [t EXCEPT !.queue[t.tail] = [id |-> fd, data |-> data],
                       !.tail = (@ + 1) % t.cap]
    IN IF u.head = u.tail THEN ExpandQueue(u) ELSE u

(* The packets that lpop returns one after the other. *)
Queued(t) == [i \in 1..((t.tail - t.head) % t.cap) |-> t.queue[(t.head + i - 1) % t.cap]]

(* Mutant of Drained: only the first packet is taken. *)
DrainedOnce(t) == IF t.head = t.tail THEN t ELSE [t EXCEPT !.head = (@ + 1) % t.cap]

Drained(t) == [t EXCEPT !.head = t.tail, !.queue = [i \in DOMAIN t.queue |-> NoPack]]

-----------------------------------------------------------------------------
(* Filtering *)

read_size(b) == b[1] * Base + b[2]
From(b, n) == SubSeq(b, n + 1, Len(b))

(* Bytes behind a packet: more packets, and the beginning of another. *)
RECURSIVE PushMore(_, _, _)
PushMore(t, fd, b) ==
    IF b = <<>> THEN t
    ELSE IF Len(b) = 1 THEN Save(t, HeaderOnly(fd, b[1]))
    ELSE LET size == read_size(b)
             rest == From(b, 2)
         IN IF Len(rest) < size THEN Save(t, Partial(fd, size, rest))
            ELSE PushMore(PushData(t, fd, SubSeq(rest, 1, size)), fd, From(rest, size))

(* One packet that goes to the handler directly, or nothing. *)
Direct(t, fd, data) == [queue |-> t, data |-> <<[id |-> fd, data |-> data]>>]
Nothing(t) == [queue |-> t, data |-> <<>>]

(* The entry uc of fd has been taken out of t; its length is complete. *)
FillMore(t, uc, b) ==
    LET need == uc.size - uc.read
        data == uc.data \o SubSeq(b, 1, need)
    IN IF Len(b) < need THEN Nothing(Save(t, Partial(uc.id, uc.size, uc.data \o b)))
       ELSE IF Len(b) = need THEN Direct(t, uc.id, data)
       ELSE Nothing(PushMore(PushData(t, uc.id, data), uc.id, From(b, need)))

Fill(t, uc, b) ==
    IF uc.read < 0
      THEN FillMore(t, Partial(uc.id, uc.header * Base + b[1], <<>>), From(b, 1))
      ELSE FillMore(t, uc, b)

(* filter_data_, for a piece b that is not empty. *)
FilterData(t, fd, b) ==
    IF Found(t, fd) # {} THEN Fill(TakeOut(t, fd), Uncomplete(t, fd), b)
    ELSE IF Len(b) = 1 THEN Nothing(Save(t, HeaderOnly(fd, b[1])))
    ELSE LET size == read_size(b)
         IN IF Len(b) = size + 2 THEN Direct(t, fd, From(b, 2)) ELSE Nothing(PushMore(t, fd, b))

-----------------------------------------------------------------------------
(* gateserver: the messages of the socket server *)

(* MSG.open: beyond maxclient the socket is closed at once. *)
GateOpen(f) ==
    /\ sock[f] = "free"
    /\ IF client_number >= maxclient
         THEN sock' = [sock EXCEPT ![f] = "closing"] /\ UNCHANGED <<connection, client_number>>
         ELSE /\ sock' = [sock EXCEPT ![f] = "accepted"]
              /\ connection' = [connection EXCEPT ![f] = "true"]
              /\ client_number' = client_number + 1
    /\ UNCHANGED <<sent, stream, q, got>>

(* dispatch_msg for one packet after the other. *)
Dispatch(packs) ==
    got' = [f \in Fd |->
              LET mine == SelectSeq(packs, LAMBDA p : p.id = f)
              IN IF connection[f] = "true"
                   THEN got[f] \o [i \in 1..Len(mine) |-> mine[i].data]
                   ELSE got[f]]

(* A piece of n bytes: MSG.data, or MSG.more with dispatch_queue.  It may     *)
(* have been on its way when the gate closed the socket.                     *)
GateData(f, n) ==
    LET r == FilterData(q, f, SubSeq(stream[f], 1, n))
    IN /\ sock[f] \in {"started", "closing"} /\ n \in 1..Len(stream[f])
       /\ stream' = [stream EXCEPT ![f] = From(@, n)]
       /\ Dispatch(r.data \o Queued(r.queue)) /\ q' = Drained(r.queue)
       /\ UNCHANGED <<sock, sent, connection, client_number>>

(* close_fd counts the clients that are in its table, open or closed. *)
Uncounted(f) == connection[f] # "nil"

(* MSG.close and MSG.error, after lfilter has dropped the rest of a packet. *)
GateClosed(f) ==
    /\ sock[f] \in {"started", "closing"}
    /\ q' = CloseUncomplete(q, f)
    /\ connection' = [connection EXCEPT ![f] = "nil"]
    /\ client_number' = IF Uncounted(f) THEN client_number - 1 ELSE client_number
    /\ sock' = [sock EXCEPT ![f] = "free"]
    /\ sent' = [sent EXCEPT ![f] = <<>>] /\ stream' = [stream EXCEPT ![f] = <<>>]
    /\ got' = [got EXCEPT ![f] = <<>>]

(* gateserver.openclient: the socket is read from now on. *)
OpenClient(f) ==
    /\ connection[f] = "true" /\ sock[f] = "accepted"
    /\ sock' = [sock EXCEPT ![f] = "started"]
    /\ \E ps \in BoundedSeq(Packet, MaxSend) :
          /\ \A g \in Fd \ {f} : Len(ps) + Len(sent[g]) <= MaxSend
          /\ sent' = [sent EXCEPT ![f] = ps] /\ stream' = [stream EXCEPT ![f] = Frames(ps)]
    /\ UNCHANGED <<q, connection, client_number, got>>

(* gateserver.closeclient *)
CloseClient(f) ==
    /\ connection[f] = "true"
    /\ connection' = [connection EXCEPT ![f] = "false"]
    /\ sock' = [sock EXCEPT ![f] = "closing"]
    /\ UNCHANGED <<sent, stream, q, client_number, got>>

NetPackNext ==
    \E f \in Fd :
        \/ GateOpen(f) \/ OpenClient(f) \/ CloseClient(f) \/ GateClosed(f)
        \/ \E n \in 1..Len(stream[f]) : GateData(f, n)

NetPackSpec == NetPackInit /\ [][NetPackNext]_netpackVars

-----------------------------------------------------------------------------
(* Types; the ring buffer is empty between two messages, so that a later     *)
(* packet cannot overtake one in it.                                        *)
NetPackTypeOK ==
    /\ sock \in [Fd -> {"free", "accepted", "started", "closing"}]
    /\ connection \in [Fd -> {"nil", "true", "false"}] /\ client_number \in 0..maxclient
    /\ q.head \in 0..(q.cap - 1) /\ q.head = q.tail
    /\ \A h \in DOMAIN q.hash : \A i \in 1..Len(q.hash[h]) :
          LET uc == q.hash[h][i]
          IN hash_fd(uc.id) = h /\ uc.read \in -1..uc.size /\ (uc.read < 0 \/ uc.read < uc.size)

(* The bytes that netpack keeps of fd. *)
Kept(fd) ==
    IF Found(q, fd) = {} THEN <<>>
    ELSE LET uc == Uncomplete(q, fd)
         IN IF uc.read < 0 THEN <<uc.header>>
            ELSE <<uc.size \div Base, uc.size % Base>> \o uc.data

(* However its stream is cut, and whatever other connections send, a client's *)
(* packets reach the handler whole and in their order, and what has not       *)
(* reached it is what netpack keeps and what is still to come.                *)
PacketsReassembled ==
    \A f \in Fd : connection[f] = "true" =>
        IsPrefix(got[f], sent[f]) /\ Frames(got[f]) \o Kept(f) \o stream[f] = Frames(sent[f])

(* client_number counts the connections that have not been reported closed,   *)
(* so that refused and kicked clients do not use up maxclient.                *)
ClientsCounted == client_number = Cardinality({f \in Fd : connection[f] # "nil"})

(* The gate neither loses data of a client nor the client's place.            *)
GateExact == PacketsReassembled /\ ClientsCounted
=============================================================================

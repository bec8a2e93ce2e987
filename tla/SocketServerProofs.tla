------------------------- MODULE SocketServerProofs -------------------------
(****************************************************************************)
(* Proofs about socket_server.c, for any number of services, slots, ids and *)
(* packets, packets of any size, and whatever the kernel takes at a time.   *)
(*                                                                          *)
(* SockInv ties slots, ids, locks and the counter sending together; with it *)
(* the counter is exact and the write event is on when it has to be.        *)
(* WireInv says what is on the wire of a socket, in its lists, in the pipe  *)
(* and in the calls under way: a packet is in one of these places only, the *)
(* lists follow the wire in the order of sending, and only the first buffer *)
(* may be half sent.  From it follows that the wire is intact.              *)
(****************************************************************************)
EXTENDS SocketServer, SequenceTheorems, DataTheorems

Buffer == [p : Packet, left : 1..Size]
Record == [type : Types, id : Id \cup {0}, tcp : BOOLEAN, sending : Int, high : Seq(Buffer),
           low : Seq(Buffer), wev : BOOLEAN, dw : Buffer \cup {None}, lock : Service \cup {None}]
SendOps == {"D", "P"}
Requests == [op : {"O", "L", "S", "K", "KS"}, id : Id] \cup [op : SendOps, id : Id, p : Packet]
CallRecord == {Out} \cup [pc : {"trylock", "check", "write", "inc", "ask"}, id : Id, p : Packet]

Types0 ==
    /\ sock \in [Slot -> Record]
    /\ alloc_id \in 0..MaxId
    /\ pipe \in Seq(Requests)
    /\ call \in [Service -> CallRecord]
    /\ io \in Slot \cup {None}
    /\ known \in [Id -> {"listen", "conn", None}]
    /\ wire \in [Id -> Seq(Packet)]
    /\ sentBy \in [Packet -> Service \cup {None}]
    /\ lowp \subseteq Packet
    /\ work \in 0..MaxWork

Calling(v) == call[v].pc # "out"
DataAt(k) == pipe[k].op \in SendOps
OpenAt(k) == pipe[k].op \in {"O", "L"}
NoData(s) == BufferEmpty(s) /\ s.dw = None

(* Services have not heard of the connection yet. *)
Unborn(s) == s.type \in {"RESERVE", "CONNECTING"}

(* One slot: its buffers, its event and its type belong together. *)
SlotSound(s) ==
    /\ s.id = 0 => ~s.tcp
    /\ s.type \notin {"INVALID", "RESERVE"} => s.tcp
    /\ s.type # "INVALID" => s.id # 0
    /\ s.type = "RESERVE" => ~s.tcp /\ s.lock = None
    /\ ~Open(s) => NoData(s)
    /\ Open(s) /\ ~NoData(s) => s.wev

Slots ==
    /\ \A i \in Slot : SlotSound(sock[i]) /\ (sock[i].id # 0 => Hash(sock[i].id) = i /\ sock[i].id <= alloc_id)
    /\ \A i \in Slot : Unborn(sock[i]) => known[sock[i].id] # "conn"
    /\ io # None => sock[io].type \notin {"INVALID", "RESERVE"}

Ids ==
    /\ \A id \in Id : known[id] # None => id <= alloc_id
    /\ \A id \in Id : known[id] = "conn" /\ Of(id).id = id => Of(id).tcp
    /\ \A v \in Service : Calling(v) => known[call[v].id] = "conn" /\ Of(call[v].id).id = call[v].id
    /\ \A k \in DOMAIN pipe : pipe[k].id <= alloc_id /\ (DataAt(k) => known[pipe[k].id] = "conn")
    /\ \A k \in DOMAIN pipe : OpenAt(k) => Of(pipe[k].id).id = pipe[k].id /\ Of(pipe[k].id).type = "RESERVE"
    /\ \A k, l \in DOMAIN pipe : k < l /\ OpenAt(l) => pipe[k].id # pipe[l].id
    /\ \A k \in DOMAIN pipe : ~OpenAt(k) => known[pipe[k].id] # None
    /\ \A id \in Id : known[id] = "listen" /\ Of(id).id = id /\ Of(id).type = "RESERVE"
           => \E k \in DOMAIN pipe : OpenAt(k) /\ pipe[k].id = id

Locks ==
    /\ \A v \in Service : call[v].pc \in {"check", "write"} => Of(call[v].id).lock = v
    /\ \A i \in Slot : sock[i].lock # None =>
         call[sock[i].lock].pc \in {"check", "write"} /\ Hash(call[sock[i].lock].id) = i
    /\ \A v \in Service : call[v].pc = "write" => Open(Of(call[v].id)) /\ Of(call[v].id).dw = None

Queued(id) == {k \in DOMAIN pipe : DataAt(k) /\ pipe[k].id = id}
Asking(id) == {v \in Service : call[v].pc = "ask" /\ call[v].id = id}
Counts ==
    \A i \in Slot :
        sock[i].sending = IF sock[i].tcp THEN Cardinality(Queued(sock[i].id)) + Cardinality(Asking(sock[i].id))
                          ELSE 0

-----------------------------------------------------------------------------
Count(w, p) == Cardinality({k \in DOMAIN w : w[k] = p})
Whole(w) == \A a, b \in DOMAIN w : a < b /\ w[a] = w[b] => \A k \in a..b : w[k] = w[a]
Before(p, q) == sentBy[p] = sentBy[q] /\ {p, q} \cap lowp = {} => p <= q
PacketsOf(list) == {list[k].p : k \in DOMAIN list}
Held(w, F, L) == Range(w) \cup PacketsOf(F) \cup PacketsOf(L)

Sound(w, F, L) ==
    /\ Whole(w)
    /\ \A k \in DOMAIN F : k # 1 => F[k].left = Size
    /\ \A k \in DOMAIN L : L[k].left = Size
    /\ \A k \in DOMAIN F : F[k].left = Size => F[k].p \notin Range(w)
    /\ \A k \in DOMAIN L : L[k].p \notin Range(w) /\ L[k].p \in lowp
    /\ \A k, l \in DOMAIN F : F[k].p = F[l].p => k = l
    /\ \A k, l \in DOMAIN L : L[k].p = L[l].p => k = l
    /\ \A k \in DOMAIN F, l \in DOMAIN L : F[k].p # L[l].p
    /\ 1 \in DOMAIN F /\ F[1].left < Size =>
         /\ \A a \in DOMAIN w : w[a] = F[1].p => \A k \in a..Len(w) : w[k] = F[1].p
         /\ Count(w, F[1].p) = Size - F[1].left
    /\ \A a, b \in DOMAIN w : a < b => Before(w[a], w[b])
    /\ \A a \in DOMAIN w, k \in DOMAIN F : Before(w[a], F[k].p)
    /\ \A k, l \in DOMAIN F : k < l => Before(F[k].p, F[l].p)
    /\ \A p \in Held(w, F, L) : sentBy[p] # None

NotTorn(w, F) ==
    \A p \in Packet : Count(w, p) \in 1..(Size - 1) => 1 \in DOMAIN F /\ F[1].p = p /\ F[1].left < Size

Front(s) == Merged(s).high
FrontIn(sk, id) == IF sk[Hash(id)].id = id THEN Front(sk[Hash(id)]) ELSE << >>
LowIn(sk, id) == IF sk[Hash(id)].id = id THEN sk[Hash(id)].low ELSE << >>
HeldIn(sk, wr, id) == Held(wr[id], FrontIn(sk, id), LowIn(sk, id))
FrontOf(id) == FrontIn(sock, id)
LowOf(id) == LowIn(sock, id)
HeldOf(id) == HeldIn(sock, wire, id)

Wires ==
    /\ \A id \in Id : Sound(wire[id], FrontOf(id), LowOf(id))
    /\ \A id \in Id : Of(id).id = id /\ Of(id).type # "INVALID" => NotTorn(wire[id], FrontOf(id))
    /\ \A id \in Id : id > alloc_id \/ (Of(id).id = id /\ ~Of(id).tcp) => wire[id] = << >>

Pending ==
    /\ \A p, q \in Packet : sentBy[q] # None /\ p < q => sentBy[p] # None
    /\ \A p \in lowp : sentBy[p] # None
    /\ \A k \in DOMAIN pipe : DataAt(k) =>
         /\ pipe[k].p \notin HeldOf(pipe[k].id)
         /\ sentBy[pipe[k].p] # None
         /\ pipe[k].op = "P" <=> pipe[k].p \in lowp
         /\ \A q \in HeldOf(pipe[k].id) : Before(q, pipe[k].p)
    /\ \A k, l \in DOMAIN pipe : DataAt(k) /\ DataAt(l) /\ k < l =>
         pipe[k].p # pipe[l].p /\ (pipe[k].id = pipe[l].id => Before(pipe[k].p, pipe[l].p))
    /\ \A v \in Service : Calling(v) =>
         /\ sentBy[call[v].p] = v
         /\ \A q \in Packet : sentBy[q] = v => q <= call[v].p
         /\ call[v].p \notin HeldOf(call[v].id)
         /\ \A k \in DOMAIN pipe : DataAt(k) => pipe[k].p # call[v].p

Writing ==
    \A v \in Service : call[v].pc = "write" =>
        /\ \A k \in DOMAIN FrontOf(call[v].id) :
             FrontOf(call[v].id)[k].left = Size /\ sentBy[FrontOf(call[v].id)[k].p] # v
        /\ \A k \in DOMAIN pipe : DataAt(k) /\ pipe[k].id = call[v].id => sentBy[pipe[k].p] # v

SockInv == Slots /\ Ids /\ Locks /\ Counts
WireInv == Wires /\ Pending /\ Writing

-----------------------------------------------------------------------------
(* Lists of buffers                                                         *)

(* What the turns of send_list compute, as a function on Nat. *)
DrainFcn(list, g) == [k \in Nat |-> IF k = 0 THEN [rest |-> list, out |-> << >>] ELSE DrainTurn(g[k - 1])]
DrainPart(list, n, g) ==
    [k \in 0..n |-> IF k = 0 THEN [rest |-> list, out |-> << >>] ELSE DrainTurn(g[k - 1])]

(* The recursion of Drained has a solution: one for every length, which     *)
(* agree with each other.                                                   *)
LEMMA DrainExists ==
    ASSUME NEW list
    PROVE  \E g : g = DrainFcn(list, g)
<1> DEFINE N == {n \in Nat : \E g : g = DrainPart(list, n, g)}
<1>1. 0 \in N
  <2> DEFINE g == [k \in 0..0 |-> [rest |-> list, out |-> << >>]]
  <2>1. g = DrainPart(list, 0, g)
    BY DEF DrainPart
  <2> QED BY <2>1
<1>2. ASSUME NEW n \in N PROVE n + 1 \in N
  <2>0. n \in Nat
    OBVIOUS
  <2>1. PICK g : g = DrainPart(list, n, g)
    OBVIOUS
  <2> DEFINE h == DrainPart(list, n + 1, g)
  <2>2. ASSUME NEW k \in 0..n PROVE h[k] = g[k]
    <3>1. k \in 0..(n + 1)
      BY <2>0
    <3>2. g[k] = IF k = 0 THEN [rest |-> list, out |-> << >>] ELSE DrainTurn(g[k - 1])
      BY <2>1 DEF DrainPart
    <3>3. h[k] = IF k = 0 THEN [rest |-> list, out |-> << >>] ELSE DrainTurn(g[k - 1])
      BY <3>1 DEF DrainPart
    <3> QED BY <3>2, <3>3
  <2>3. \A k \in 0..(n + 1) : k # 0 => h[k - 1] = g[k - 1]
    <3>1. \A k \in 0..(n + 1) : k # 0 => k - 1 \in 0..n
      BY <2>0
    <3> QED BY <2>2, <3>1
  <2>4. h = DrainPart(list, n + 1, h)
    <3>1. h = [k \in 0..(n + 1) |-> IF k = 0 THEN [rest |-> list, out |-> << >>] ELSE DrainTurn(g[k - 1])]
      BY DEF DrainPart
    <3>2. DrainPart(list, n + 1, h)
            = [k \in 0..(n + 1) |-> IF k = 0 THEN [rest |-> list, out |-> << >>] ELSE DrainTurn(h[k - 1])]
      BY DEF DrainPart
    <3> HIDE DEF h
    <3> QED BY <2>3, <3>1, <3>2
  <2>5. \E k : k = DrainPart(list, n + 1, k)
    <3> HIDE DEF h
    <3> QED BY <2>4
  <2> QED BY <2>0, <2>5
<1>3. N = Nat
  <2> HIDE DEF N
  <2>1. N \subseteq Nat
    BY DEF N
  <2> QED BY <1>1, <1>2, <2>1, Induction
<1> DEFINE G(n) == CHOOSE g : g = DrainPart(list, n, g)
<1>4. ASSUME NEW n \in Nat PROVE G(n) = DrainPart(list, n, G(n))
  <2>1. \E g : g = DrainPart(list, n, g)
    BY <1>3
  <2> QED BY <2>1
<1>5. ASSUME NEW n \in Nat
      PROVE  \A k \in 0..n : G(n)[k] = IF k = 0 THEN [rest |-> list, out |-> << >>] ELSE DrainTurn(G(n)[k - 1])
  <2> DEFINE g == G(n)
  <2>1. g = DrainPart(list, n, g)
    BY <1>4
  <2> HIDE DEF g
  <2>2. g = [k \in 0..n |-> IF k = 0 THEN [rest |-> list, out |-> << >>] ELSE DrainTurn(g[k - 1])]
    BY <2>1 DEF DrainPart
  <2>3. \A k \in 0..n : g[k] = IF k = 0 THEN [rest |-> list, out |-> << >>] ELSE DrainTurn(g[k - 1])
    BY <2>2
  <2> QED BY <2>3 DEF g
<1> HIDE DEF G
<1>6. ASSUME NEW n \in Nat, NEW m \in Nat
      PROVE  \A k \in Nat : k <= n /\ k <= m => G(n)[k] = G(m)[k]
  <2> DEFINE K == {k \in Nat : k <= n /\ k <= m => G(n)[k] = G(m)[k]}
  <2>1. 0 \in K
    BY <1>5
  <2>2. ASSUME NEW k \in K PROVE k + 1 \in K
    <3>1. k \in Nat
      OBVIOUS
    <3> SUFFICES ASSUME k + 1 <= n, k + 1 <= m PROVE G(n)[k + 1] = G(m)[k + 1]
      BY <3>1
    <3>2. k + 1 \in 0..n /\ k + 1 \in 0..m /\ k + 1 # 0 /\ (k + 1) - 1 = k
      BY <3>1
    <3>3. G(n)[k] = G(m)[k]
      BY <3>1
    <3>4. G(n)[k + 1] = DrainTurn(G(n)[k]) /\ G(m)[k + 1] = DrainTurn(G(m)[k])
      BY <1>5, <3>2
    <3> QED BY <3>3, <3>4
  <2>3. K = Nat
    <3> HIDE DEF K
    <3>1. K \subseteq Nat
      BY DEF K
    <3> QED BY <2>1, <2>2, <3>1, Induction
  <2> QED BY <2>3
<1> DEFINE f == [n \in Nat |-> G(n)[n]]
<1>7. f = DrainFcn(list, f)
  <2>1. ASSUME NEW k \in Nat
        PROVE  f[k] = IF k = 0 THEN [rest |-> list, out |-> << >>] ELSE DrainTurn(f[k - 1])
    <3>1. CASE k = 0
      <4>1. 0 \in 0..0
        OBVIOUS
      <4>2. G(0)[0] = [rest |-> list, out |-> << >>]
        BY <1>5, <4>1
      <4> QED BY <3>1, <4>2
    <3>2. CASE k # 0
      <4>1. k - 1 \in Nat /\ k \in 0..k /\ k - 1 <= k /\ k - 1 <= k - 1
        BY <3>2
      <4>2. G(k)[k] = DrainTurn(G(k)[k - 1])
        BY <1>5, <3>2, <4>1
      <4>3. G(k)[k - 1] = G(k - 1)[k - 1]
        BY <1>6, <4>1
      <4> QED BY <3>2, <4>1, <4>2, <4>3
    <3> QED BY <3>1, <3>2
  <2>2. DrainFcn(list, f) = [k \in Nat |-> IF k = 0 THEN [rest |-> list, out |-> << >>] ELSE DrainTurn(f[k - 1])]
    BY DEF DrainFcn
  <2>3. f = [k \in Nat |-> f[k]]
    OBVIOUS
  <2> HIDE DEF f
  <2> QED BY <2>1, <2>2, <2>3
<1> HIDE DEF f
<1> QED BY <1>7

(* Drained turn by turn. *)
LEMMA DrainedTurns ==
    ASSUME NEW list
    PROVE  /\ Drained(list, 0) = [rest |-> list, out |-> << >>]
           /\ \A n \in Nat : Drained(list, n + 1) = DrainTurn(Drained(list, n))
<1> DEFINE f == CHOOSE g : g = DrainFcn(list, g)
<1>1. f = DrainFcn(list, f)
  BY DrainExists
<1>2. \A n : Drained(list, n) = f[n]
  BY DEF Drained, DrainFcn
<1> HIDE DEF f
<1>3. \A k \in Nat : f[k] = IF k = 0 THEN [rest |-> list, out |-> << >>] ELSE DrainTurn(f[k - 1])
  BY <1>1 DEF DrainFcn
<1>4. f[0] = [rest |-> list, out |-> << >>]
  BY <1>3
<1>5. ASSUME NEW n \in Nat PROVE f[n + 1] = DrainTurn(f[n])
  <2>1. n + 1 \in Nat /\ n + 1 # 0 /\ (n + 1) - 1 = n
    OBVIOUS
  <2> QED BY <1>3, <2>1
<1> QED BY <1>2, <1>4, <1>5

(* d is what one turn makes of list F and of what went out before; e is 1 if *)
(* the turn finishes a buffer.                                               *)
Turned(F, out, d) == d = DrainTurn([rest |-> F, out |-> out])
Emitted(F, w, w2) == w2 = Append(w, F[1].p)
Finished(F, e) == e = IF F[1].left = 1 THEN 1 ELSE 0

(* Appending after concatenating. *)
LEMMA ConcatAppend ==
    ASSUME NEW S, NEW w \in Seq(S), NEW o \in Seq(S), NEW p \in S
    PROVE  w \o Append(o, p) = Append(w \o o, p)
<1>1. w \o Append(o, p) \in Seq(S) /\ Append(w \o o, p) \in Seq(S)
  OBVIOUS
<1>2. Len(w \o Append(o, p)) = Len(Append(w \o o, p))
  OBVIOUS
<1>3. \A k \in 1..Len(w \o Append(o, p)) : (w \o Append(o, p))[k] = Append(w \o o, p)[k]
  OBVIOUS
<1> QED BY <1>1, <1>2, <1>3, SeqEqual

(* The fields of a buffer. *)
LEMMA BufferFields ==
    /\ \A b \in Buffer : /\ b.p \in Packet /\ b.left \in 1..Size /\ b.left \in Nat /\ b.left >= 1
                         /\ b = [p |-> b.p, left |-> b.left]
    /\ \A p \in Packet, n \in 1..Size : [p |-> p, left |-> n] \in Buffer
    /\ Size \in Nat /\ Size >= 1
BY SocketAssumption DEF Buffer

(* What one turn leaves of a list. *)
LEMMA TurnList ==
    ASSUME NEW F \in Seq(Buffer), F # << >>, NEW out \in Seq(Packet), NEW d,
           Turned(F, out, d)
    PROVE  /\ d.out = Append(out, F[1].p) /\ F[1] \in Buffer
           /\ d.rest \in Seq(Buffer)
           /\ F[1].left = 1 => d.rest = Tail(F)
           /\ F[1].left # 1 => /\ Len(d.rest) = Len(F)
                               /\ d.rest[1].p = F[1].p /\ d.rest[1].left = F[1].left - 1
                               /\ \A k \in DOMAIN F : k # 1 => d.rest[k] = F[k]
           /\ d = [rest |-> d.rest, out |-> d.out]
<1> USE SocketAssumption
<1>1. Head(F) = F[1] /\ 1 \in DOMAIN F /\ F[1] \in Buffer /\ Len(F) \in Nat /\ Len(F) > 0
  BY HeadTailProperties
<1>2. F[1].p \in Packet /\ F[1].left \in 1..Size
  BY <1>1 DEF Buffer
<1>3. /\ d.out = Append(out, F[1].p)
      /\ d.rest = IF F[1].left = 1 THEN Tail(F) ELSE <<[F[1] EXCEPT !.left = @ - 1]>> \o Tail(F)
      /\ d = [rest |-> d.rest, out |-> d.out]
  BY <1>1 DEF DrainTurn, Turned
<1>4. /\ Tail(F) \in Seq(Buffer) /\ Len(Tail(F)) = Len(F) - 1
      /\ \A k \in 1..(Len(F) - 1) : Tail(F)[k] = F[k + 1]
  BY <1>1, HeadTailProperties
<1> DEFINE b == [F[1] EXCEPT !.left = @ - 1]
<1>5. CASE F[1].left # 1
  <2>1. b \in Buffer /\ b.p = F[1].p /\ b.left = F[1].left - 1
    <3>1. b = [p |-> F[1].p, left |-> F[1].left - 1]
      BY <1>1 DEF Buffer
    <3>2. F[1].left - 1 \in 1..Size
      BY <1>2, <1>5
    <3> HIDE DEF b
    <3> QED BY <1>2, <3>1, <3>2, BufferFields
  <2> HIDE DEF b
  <2> DEFINE t == <<b>> \o Tail(F)
  <2>2. /\ t \in Seq(Buffer) /\ Len(t) = Len(F) /\ t[1] = b
        /\ \A k \in 2..Len(F) : t[k] = Tail(F)[k - 1]
    BY <1>1, <1>4, <2>1
  <2>3. \A k \in DOMAIN F : k # 1 => t[k] = F[k]
    <3> TAKE k \in DOMAIN F
    <3> HAVE k # 1
    <3>1. k \in 2..Len(F) /\ k - 1 \in 1..(Len(F) - 1) /\ (k - 1) + 1 = k
      BY <1>1
    <3> QED BY <1>4, <2>2, <3>1
  <2>4. d.rest = t
    BY <1>3, <1>5 DEF b
  <2> HIDE DEF t
  <2> QED BY <1>1, <1>3, <1>5, <2>1, <2>2, <2>3, <2>4
<1> QED BY <1>1, <1>3, <1>4, <1>5

(* The units of a list, and those of what a turn leaves. *)
LEMMA UnitsType ==
    ASSUME NEW F \in Seq(Buffer)
    PROVE  Units(F) \in Nat /\ (Units(F) = 0 <=> F = << >>)
<1> DEFINE f == [k \in DOMAIN F |-> F[k].left]
           n == Len(F)
<1>1. n \in Nat /\ DOMAIN F = 1..n /\ DOMAIN f = 1..n /\ (F = << >> <=> n = 0)
  OBVIOUS
<1>2. \A k \in 1..n : f[k] \in Nat /\ f[k] >= 1
  <2>1. \A k \in 1..n : F[k] \in Buffer
    BY <1>1
  <2> QED BY <1>1, <2>1, BufferFields
<1>3. Units(F) = SumFunction(f)
  BY DEF Units
<1> HIDE DEF f, n
<1>4. IsFiniteSet(1..n)
  BY <1>1, FS_Interval
<1>5. SumFunctionOnSet(f, 1..n) \in Nat /\ \A x \in 1..n : f[x] <= SumFunctionOnSet(f, 1..n)
  BY <1>2, <1>4, SumNat
<1>6. SumFunctionOnSet(f, {}) = 0
  BY SumEmpty
<1>7. n = 0 => 1..n = {}
  BY <1>1
<1>8. n # 0 => 1 \in 1..n
  BY <1>1
<1>9. n # 0 => SumFunctionOnSet(f, 1..n) # 0
  BY <1>2, <1>5, <1>8
<1> QED BY <1>1, <1>3, <1>5, <1>6, <1>7, <1>9 DEF SumFunction

(* The units of a list: those of its first buffer, and of the others. *)
LEMMA UnitsTail ==
    ASSUME NEW F \in Seq(Buffer), F # << >>
    PROVE  Units(F) = F[1].left + Units(Tail(F))
<1> DEFINE f == [k \in DOMAIN F |-> F[k].left]
           t == Tail(F)
           g == [k \in DOMAIN t |-> t[k].left]
           n == Len(t)
<1>1. /\ t \in Seq(Buffer) /\ n = Len(F) - 1 /\ Len(F) \in Nat /\ Len(F) > 0
      /\ \A k \in 1..n : t[k] = F[k + 1]
  BY HeadTailProperties
<1>2. n \in Nat /\ DOMAIN f = 1..(n + 1) /\ DOMAIN g = 1..n
  BY <1>1
<1>3. \A k \in 1..(n + 1) : f[k] \in Int
  <2>1. \A k \in DOMAIN F : F[k] \in Buffer
    OBVIOUS
  <2> QED BY <1>2, <2>1, SocketAssumption DEF Buffer
<1>4. \A k \in 1..n : g[k] = f[k + 1]
  <2>1. \A k \in 1..n : k + 1 \in DOMAIN F /\ k \in DOMAIN t
    BY <1>1, <1>2
  <2> QED BY <1>1, <2>1
<1>5. f[1] = F[1].left
  BY <1>1
<1>6. Units(F) = SumFunction(f) /\ Units(t) = SumFunction(g)
  BY DEF Units
<1> HIDE DEF f, g, t, n
<1>7. SumFunction(f) = f[1] + SumFunction(g)
  <2>1. TailOf(g, f, n)
    BY <1>2, <1>3, <1>4 DEF TailOf
  <2> QED BY <1>2, <2>1, SumTail
<1> QED BY <1>5, <1>6, <1>7 DEF t

(* A turn of send_list takes one unit. *)
LEMMA UnitsTurn ==
    ASSUME NEW F \in Seq(Buffer), F # << >>, NEW out \in Seq(Packet), NEW d,
           Turned(F, out, d)
    PROVE  Units(d.rest) = Units(F) - 1
<1>1. /\ d.rest \in Seq(Buffer)
      /\ F[1].left = 1 => d.rest = Tail(F)
      /\ F[1].left # 1 => /\ Len(d.rest) = Len(F)
                          /\ d.rest[1].left = F[1].left - 1
                          /\ \A k \in DOMAIN F : k # 1 => d.rest[k] = F[k]
      /\ F[1] \in Buffer
  BY TurnList
<1>2. Units(F) = F[1].left + Units(Tail(F)) /\ Tail(F) \in Seq(Buffer)
  BY UnitsTail
<1>3. Units(Tail(F)) \in Nat /\ F[1].left \in 1..Size /\ Size \in Nat
  BY <1>1, <1>2, UnitsType, SocketAssumption DEF Buffer
<1>4. CASE F[1].left = 1
  <2>1. Units(F) = 1 + Units(Tail(F)) /\ d.rest = Tail(F)
    BY <1>1, <1>2, <1>4
  <2>2. Units(d.rest) = Units(Tail(F))
    BY <2>1, Zenon
  <2> QED BY <1>3, <2>1, <2>2
<1>5. CASE F[1].left # 1
  <2>1. d.rest # << >> /\ Len(F) \in Nat /\ Len(F) # 0
    BY <1>1, <1>5
  <2>2. Units(d.rest) = d.rest[1].left + Units(Tail(d.rest))
    BY <1>1, <2>1, UnitsTail
  <2>3. Tail(d.rest) = Tail(F)
    <3>1. /\ Tail(d.rest) \in Seq(Buffer) /\ Tail(F) \in Seq(Buffer)
          /\ Len(Tail(d.rest)) = Len(F) - 1 /\ Len(Tail(F)) = Len(F) - 1
          /\ \A k \in 1..(Len(F) - 1) : Tail(F)[k] = F[k + 1] /\ Tail(d.rest)[k] = d.rest[k + 1]
      BY <1>1, <1>5, <2>1, HeadTailProperties
    <3>2. \A k \in 1..(Len(F) - 1) : k + 1 \in DOMAIN F /\ k + 1 # 1
      BY <2>1
    <3>3. \A k \in 1..(Len(F) - 1) : Tail(F)[k] = Tail(d.rest)[k]
      BY <1>1, <1>5, <3>1, <3>2
    <3> QED BY <3>1, <3>3, SeqEqual
  <2>4. Units(d.rest) = (F[1].left - 1) + Units(Tail(F))
    BY <1>1, <1>5, <2>2, <2>3
  <2> QED BY <1>2, <1>3, <2>4
<1> QED BY <1>4, <1>5

(* Counting a packet on the wire, one unit at a time. *)
LEMMA CountAppend ==
    ASSUME NEW w \in Seq(Packet), NEW p \in Packet, NEW q \in Packet
    PROVE  /\ Count(w, q) \in Nat
           /\ q \notin Range(w) => Count(w, q) = 0
           /\ Count(Append(w, p), q) = Count(w, q) + (IF p = q THEN 1 ELSE 0)
<1> DEFINE n == Len(w)
           S == {k \in DOMAIN w : w[k] = q}
           x == Append(w, p)
           T == {k \in DOMAIN x : x[k] = q}
<1>1. /\ n \in Nat /\ DOMAIN w = 1..n /\ DOMAIN x = 1..(n + 1)
      /\ \A k \in 1..n : x[k] = w[k]
      /\ x[n + 1] = p
  OBVIOUS
<1>2. IsFiniteSet(1..n)
  BY <1>1, FS_Interval
<1>3. IsFiniteSet(S)
  <2>1. S \subseteq 1..n
    BY <1>1
  <2> QED BY <1>2, <2>1, FS_Subset
<1>4. p # q => T = S
  <2>1. \A k \in 1..(n + 1) : k \in 1..n \/ k = n + 1
    BY <1>1
  <2>2. \A k \in 1..n : k \in 1..(n + 1)
    BY <1>1
  <2> QED BY <1>1, <2>1, <2>2
<1>5. p = q => T = S \cup {n + 1} /\ n + 1 \notin S
  <2>1. \A k \in 1..(n + 1) : k \in 1..n \/ k = n + 1
    BY <1>1
  <2>2. (\A k \in 1..n : k \in 1..(n + 1)) /\ n + 1 \notin 1..n /\ n + 1 \in 1..(n + 1)
    BY <1>1
  <2> QED BY <1>1, <2>1, <2>2
<1>6. Count(w, q) = Cardinality(S) /\ Count(x, q) = Cardinality(T)
  BY DEF Count
<1>7. q \notin Range(w) => S = {}
  BY DEF Range
<1> HIDE DEF S, T, x, n
<1>8. Cardinality(S) \in Nat
  BY <1>3, FS_CardinalityType
<1>9. p = q => Cardinality(T) = Cardinality(S) + 1
  BY <1>3, <1>5, FS_AddElement
<1>10. q \notin Range(w) => Cardinality(S) = 0
  BY <1>7, FS_EmptySet
<1>11. Cardinality(T) = Cardinality(S) + (IF p = q THEN 1 ELSE 0)
  BY <1>4, <1>8, <1>9
<1> QED BY <1>6, <1>8, <1>10, <1>11 DEF x

(* One turn: the buffers that are left are those that were there. *)
LEMMA TurnMap ==
    ASSUME NEW F \in Seq(Buffer), F # << >>, NEW out \in Seq(Packet), NEW d,
           Turned(F, out, d), NEW e, Finished(F, e)
    PROVE  /\ 1 \in DOMAIN F /\ F[1] \in Buffer /\ d.rest \in Seq(Buffer)
           /\ d.out = Append(out, F[1].p) /\ d = [rest |-> d.rest, out |-> d.out]
           /\ DOMAIN d.rest \subseteq Nat \ {0} /\ DOMAIN F \subseteq Nat \ {0}
           /\ \A k \in DOMAIN d.rest : /\ k + e \in DOMAIN F /\ d.rest[k].p = F[k + e].p
                                       /\ d.rest[k] \in Buffer /\ F[k + e] \in Buffer
                                       /\ k + e # 1 => d.rest[k].left = F[k + e].left
                                       /\ k + e = 1 => d.rest[k].left = F[1].left - 1
           /\ F[1].left # 1 => 1 \in DOMAIN d.rest
<1>1. /\ d.rest \in Seq(Buffer) /\ d.out = Append(out, F[1].p) /\ d = [rest |-> d.rest, out |-> d.out]
      /\ F[1].left = 1 => d.rest = Tail(F)
      /\ F[1].left # 1 => /\ Len(d.rest) = Len(F)
                          /\ d.rest[1].p = F[1].p /\ d.rest[1].left = F[1].left - 1
                          /\ \A k \in DOMAIN F : k # 1 => d.rest[k] = F[k]
      /\ F[1] \in Buffer
  BY TurnList
<1>2. /\ Len(F) \in Nat /\ Len(F) # 0 /\ DOMAIN F = 1..Len(F) /\ \A k \in DOMAIN F : F[k] \in Buffer
      /\ Len(d.rest) \in Nat /\ DOMAIN d.rest = 1..Len(d.rest)
      /\ \A k \in DOMAIN d.rest : d.rest[k] \in Buffer
  BY <1>1
<1>3. DOMAIN d.rest \subseteq Nat \ {0} /\ DOMAIN F \subseteq Nat \ {0} /\ 1 \in DOMAIN F
  BY <1>2
<1>4. CASE F[1].left = 1
  <2>1. /\ Len(d.rest) = Len(F) - 1 /\ e = 1
        /\ \A k \in 1..(Len(F) - 1) : d.rest[k] = F[k + 1]
    BY <1>1, <1>4, HeadTailProperties DEF Finished
  <2>2. \A k \in DOMAIN d.rest : k + e \in DOMAIN F /\ d.rest[k] = F[k + e] /\ k + e # 1
    <3> TAKE k \in DOMAIN d.rest
    <3>1. k \in 1..(Len(F) - 1)
      BY <1>2, <2>1
    <3>2. k + 1 \in 1..Len(F) /\ k + 1 # 1
      BY <1>2, <3>1
    <3> QED BY <1>2, <2>1, <3>1, <3>2
  <2> QED BY <1>1, <1>2, <1>3, <1>4, <2>2
<1>5. CASE F[1].left # 1
  <2>1. e = 0 /\ DOMAIN d.rest = DOMAIN F /\ \A k \in DOMAIN F : k + e = k
    BY <1>1, <1>2, <1>3, <1>5 DEF Finished
  <2>2. \A k \in DOMAIN F : k # 1 => d.rest[k] = F[k]
    BY <1>1, <1>5
  <2>3. d.rest[1].p = F[1].p /\ d.rest[1].left = F[1].left - 1
    BY <1>1, <1>5
  <2> QED BY <1>1, <1>2, <1>3, <2>1, <2>2, <2>3
<1> QED BY <1>4, <1>5

(* A unit of the front buffer goes out: the wire and what is left are sound  *)
(* again.                                                                    *)
LEMMA EmitOne ==
    ASSUME Types0, NEW w \in Seq(Packet), NEW F \in Seq(Buffer), F # << >>, NEW L \in Seq(Buffer),
           NEW out \in Seq(Packet), NEW d, Turned(F, out, d),
           NEW w2, Emitted(F, w, w2), Sound(w, F, L)
    PROVE  /\ Sound(w2, d.rest, L)
           /\ NotTorn(w, F) => NotTorn(w2, d.rest)
<1> USE DEF Emitted
<1> DEFINE p == F[1].p
           e == IF F[1].left = 1 THEN 1 ELSE 0
           R == d.rest
           n == Len(w)
<1>a. Finished(F, e)
  BY DEF Finished
<1>0. /\ 1 \in DOMAIN F /\ F[1] \in Buffer /\ R \in Seq(Buffer)
      /\ DOMAIN R \subseteq Nat \ {0} /\ DOMAIN F \subseteq Nat \ {0}
      /\ \A k \in DOMAIN R : /\ k + e \in DOMAIN F /\ R[k].p = F[k + e].p
                             /\ R[k] \in Buffer /\ F[k + e] \in Buffer
                             /\ k + e # 1 => R[k].left = F[k + e].left
                             /\ k + e = 1 => R[k].left = F[1].left - 1
      /\ F[1].left # 1 => 1 \in DOMAIN R
  <2> HIDE DEF e
  <2> QED BY <1>a, TurnMap
<1>1. p \in Packet /\ F[1].left \in 1..Size /\ Size \in Nat /\ e \in {0, 1}
  BY <1>0, BufferFields
<1>2. /\ n \in Nat /\ DOMAIN w = 1..n /\ DOMAIN w2 = 1..(n + 1) /\ Len(w2) = n + 1
      /\ \A a \in DOMAIN w : w2[a] = w[a] /\ a \in DOMAIN w2 /\ a < n + 1 /\ w[a] \in Packet
      /\ w2[n + 1] = p /\ w2 \in Seq(Packet)
      /\ \A a \in DOMAIN w2 : a \in DOMAIN w \/ a = n + 1
  <2>1. n \in Nat /\ DOMAIN w = 1..n /\ DOMAIN w2 = 1..(n + 1) /\ Len(w2) = n + 1
    OBVIOUS
  <2>2. \A a \in 1..n : w2[a] = w[a] /\ w[a] \in Packet
    BY <2>1
  <2>3. w2[n + 1] = p /\ w2 \in Seq(Packet)
    BY <1>1
  <2>4. \A a \in 1..(n + 1) : a \in 1..n \/ a = n + 1
    BY <2>1
  <2>5. \A a \in 1..n : a \in 1..(n + 1) /\ a < n + 1
    BY <2>1
  <2> QED BY <2>1, <2>2, <2>3, <2>4, <2>5
<1>3. Range(w2) = Range(w) \cup {p}
  <2>1. n + 1 \in DOMAIN w2
    BY <1>2
  <2> QED BY <1>2, <2>1 DEF Range
<1> HIDE DEF p, e, R, n
<1>4. /\ Whole(w)
      /\ \A k \in DOMAIN F : k # 1 => F[k].left = Size
      /\ \A k \in DOMAIN L : L[k].left = Size
      /\ \A k \in DOMAIN F : F[k].left = Size => F[k].p \notin Range(w)
      /\ \A k \in DOMAIN L : L[k].p \notin Range(w) /\ L[k].p \in lowp
      /\ \A k, l \in DOMAIN F : F[k].p = F[l].p => k = l
      /\ \A k, l \in DOMAIN L : L[k].p = L[l].p => k = l
      /\ \A k \in DOMAIN F, l \in DOMAIN L : F[k].p # L[l].p
  BY DEF Sound
<1>5. /\ \A a, b \in DOMAIN w : a < b => Before(w[a], w[b])
      /\ \A a \in DOMAIN w, k \in DOMAIN F : Before(w[a], F[k].p)
      /\ \A k, l \in DOMAIN F : k < l => Before(F[k].p, F[l].p)
  BY DEF Sound
<1>6. /\ F[1].left < Size => \A a \in DOMAIN w : w[a] = p => \A k \in a..n : w[k] = p
      /\ Count(w, p) = Size - F[1].left
  <2>1. F[1].left < Size => /\ \A a \in DOMAIN w : w[a] = p => \A k \in a..n : w[k] = p
                            /\ Count(w, p) = Size - F[1].left
    BY <1>0 DEF Sound, p, n
  <2>2. F[1].left = Size => Count(w, p) = 0
    <3>1. F[1].left = Size => p \notin Range(w)
      BY <1>0, <1>4 DEF p
    <3> QED BY <1>1, <3>1, CountAppend
  <2>3. F[1].left = Size => Count(w, p) = Size - F[1].left
    BY <1>1, <2>2
  <2> QED BY <1>1, <2>1, <2>3
<1>7. \A a \in DOMAIN w : w[a] = p => \A k \in a..n : w[k] = p
  <2>1. ASSUME NEW a \in DOMAIN w, w[a] = p PROVE F[1].left < Size
    <3>1. p \in Range(w)
      BY <2>1 DEF Range
    <3>2. F[1].left # Size
      BY <1>0, <1>4, <3>1 DEF p
    <3> QED BY <1>1, <3>2
  <2> QED BY <1>6, <2>1
<1>8. Whole(w2)
  <2> SUFFICES ASSUME NEW a \in DOMAIN w2, NEW b \in DOMAIN w2, a < b, w2[a] = w2[b], NEW k \in a..b
               PROVE  w2[k] = w2[a]
    BY DEF Whole
  <2>1. CASE b \in DOMAIN w
    <3>1. a \in DOMAIN w /\ k \in DOMAIN w
      BY <1>2, <2>1
    <3>2. w[a] = w[b]
      BY <1>2, <2>1, <3>1
    <3>3. w[k] = w[a]
      BY <1>4, <2>1, <3>1, <3>2 DEF Whole
    <3> QED BY <1>2, <3>1, <3>3
  <2>2. CASE b = n + 1
    <3>1. a \in DOMAIN w /\ w2[b] = p /\ w[a] = p
      BY <1>2, <2>2
    <3>2. k = n + 1 \/ k \in a..n
      BY <1>2, <2>2
    <3>3. k \in a..n => w[k] = p /\ k \in DOMAIN w
      BY <1>2, <1>7, <3>1
    <3> QED BY <1>2, <3>1, <3>2, <3>3
  <2> QED BY <1>2, <2>1, <2>2
<1>9. ASSUME NEW k \in DOMAIN R PROVE k # 1 => R[k].left = Size
  <2>1. k # 1 => k + e # 1
    BY <1>0, <1>1
  <2> QED BY <1>0, <1>4, <2>1
<1>10. ASSUME NEW k \in DOMAIN R, R[k].left = Size PROVE R[k].p \notin Range(w2)
  <2>1. k + e # 1
    BY <1>0, <1>1, <1>10
  <2>2. F[k + e].left = Size /\ R[k].p = F[k + e].p /\ k + e \in DOMAIN F
    BY <1>0, <1>10, <2>1
  <2>3. F[k + e].p # p
    BY <1>0, <1>4, <2>1, <2>2 DEF p
  <2> QED BY <1>3, <1>4, <2>2, <2>3
<1>11. \A k \in DOMAIN L : L[k].p \notin Range(w2) /\ L[k].p \in lowp
  BY <1>0, <1>3, <1>4 DEF p
<1>12. \A k, l \in DOMAIN R : R[k].p = R[l].p => k = l
  <2> TAKE k, l \in DOMAIN R
  <2> HAVE R[k].p = R[l].p
  <2>1. k + e \in DOMAIN F /\ l + e \in DOMAIN F /\ F[k + e].p = F[l + e].p
    BY <1>0
  <2>2. k + e = l + e
    BY <1>4, <2>1
  <2>3. k \in Nat /\ l \in Nat /\ e \in Nat
    BY <1>0, <1>1
  <2> QED BY <2>2, <2>3
<1>13. \A k \in DOMAIN R, l \in DOMAIN L : R[k].p # L[l].p
  BY <1>0, <1>4
<1>14. Count(w2, p) = (Size - F[1].left) + 1
  <2>1. Count(w2, p) = Count(w, p) + 1
    BY <1>1, CountAppend DEF p
  <2> QED BY <1>6, <2>1
<1>15. ASSUME 1 \in DOMAIN R, R[1].left < Size
       PROVE  /\ \A a \in DOMAIN w2 : w2[a] = R[1].p => \A k \in a..Len(w2) : w2[k] = R[1].p
              /\ Count(w2, R[1].p) = Size - R[1].left
  <2>1. 1 + e = 1
    <3>1. 1 + e # 1 => R[1].left = Size
      BY <1>0, <1>4, <1>15
    <3> QED BY <1>0, <1>15, <3>1, BufferFields
  <2>2. R[1].p = p /\ R[1].left = F[1].left - 1
    BY <1>0, <1>15, <2>1 DEF p
  <2>3. ASSUME NEW a \in DOMAIN w2, w2[a] = p, NEW k \in a..(n + 1) PROVE w2[k] = p
    <3>1. CASE k = n + 1
      BY <1>2, <3>1
    <3>2. CASE k # n + 1
      <4>1. a \in DOMAIN w /\ k \in a..n /\ k \in DOMAIN w
        BY <1>2, <2>3, <3>2
      <4>2. w[a] = p
        BY <1>2, <2>3, <4>1
      <4> QED BY <1>2, <1>7, <4>1, <4>2
    <3> QED BY <3>1, <3>2
  <2>4. Count(w2, R[1].p) = Size - R[1].left
    <3>1. (Size - F[1].left) + 1 = Size - (F[1].left - 1)
      BY <1>1
    <3> QED BY <1>14, <2>2, <3>1
  <2> QED BY <1>2, <2>2, <2>3, <2>4
<1>16. \A a, b \in DOMAIN w2 : a < b => Before(w2[a], w2[b])
  <2> TAKE a, b \in DOMAIN w2
  <2> HAVE a < b
  <2>1. a \in DOMAIN w
    BY <1>2
  <2>2. CASE b \in DOMAIN w
    BY <1>2, <1>5, <2>1, <2>2
  <2>3. CASE b = n + 1
    BY <1>0, <1>2, <1>5, <2>1, <2>3 DEF p
  <2> QED BY <1>2, <2>2, <2>3
<1>17. \A a \in DOMAIN w2, k \in DOMAIN R : Before(w2[a], R[k].p)
  <2> TAKE a \in DOMAIN w2, k \in DOMAIN R
  <2>1. CASE a \in DOMAIN w
    BY <1>0, <1>2, <1>5, <2>1
  <2>2. CASE a = n + 1
    <3>1. w2[a] = p /\ p \in Nat
      BY <1>1, <1>2, <2>2, SocketAssumption
    <3>2. CASE k + e = 1
      <4>1. R[k].p = p
        BY <1>0, <3>2 DEF p
      <4>2. p <= p
        BY <3>1
      <4> QED BY <3>1, <4>1, <4>2 DEF Before
    <3>3. CASE k + e # 1
      <4>1. 1 < k + e
        BY <1>0, <1>1, <3>3
      <4> QED BY <1>0, <1>5, <3>1, <4>1 DEF p
    <3> QED BY <3>2, <3>3
  <2> QED BY <1>2, <2>1, <2>2
<1>18. \A k, l \in DOMAIN R : k < l => Before(R[k].p, R[l].p)
  <2> TAKE k, l \in DOMAIN R
  <2> HAVE k < l
  <2>1. k + e < l + e
    BY <1>0, <1>1
  <2> QED BY <1>0, <1>5, <2>1
<1>19. Held(w2, R, L) \subseteq Held(w, F, L)
  <2>1. PacketsOf(R) \subseteq PacketsOf(F) /\ p \in PacketsOf(F)
    <3>1. \A k \in DOMAIN F : F[k].p \in PacketsOf(F)
      BY DEF PacketsOf
    <3>2. \A k \in DOMAIN R : R[k].p \in PacketsOf(F)
      BY <1>0, <3>1
    <3> QED BY <1>0, <3>1, <3>2 DEF PacketsOf, p
  <2> QED BY <1>3, <2>1 DEF Held
<1>20. \A q \in Held(w2, R, L) : sentBy[q] # None
  BY <1>19 DEF Sound
<1>21. Sound(w2, R, L)
  BY <1>4, <1>8, <1>9, <1>10, <1>11, <1>12, <1>13, <1>15, <1>16, <1>17, <1>18, <1>20 DEF Sound
<1>22. ASSUME NotTorn(w, F) PROVE NotTorn(w2, R)
  <2> SUFFICES ASSUME NEW q \in Packet, Count(w2, q) \in 1..(Size - 1)
               PROVE  1 \in DOMAIN R /\ R[1].p = q /\ R[1].left < Size
    BY DEF NotTorn
  <2>1. CASE q = p
    <3>1. F[1].left # 1
      BY <1>1, <1>14, <2>1
    <3>2. e = 0 /\ 1 \in DOMAIN R
      BY <1>0, <3>1 DEF e
    <3>3. 1 + e = 1
      BY <3>2
    <3>4. R[1].p = F[1 + e].p /\ R[1].left = F[1].left - 1
      BY <1>0, <3>2, <3>3
    <3>5. R[1].p = p
      BY <3>3, <3>4 DEF p
    <3>6. R[1].left < Size
      BY <1>1, <3>4
    <3> QED BY <2>1, <3>2, <3>5, <3>6
  <2>2. CASE q # p
    <3>1. Count(w2, q) = Count(w, q) + 0 /\ Count(w, q) \in Nat
      BY <1>1, <2>2, CountAppend DEF p
    <3>2. Count(w, q) \in 1..(Size - 1)
      BY <3>1
    <3> QED BY <1>22, <2>2, <3>2 DEF NotTorn, p
  <2> QED BY <2>1, <2>2
<1> QED BY <1>21, <1>22 DEF R

(* send_list, by as many units as the kernel takes: the lists keep their      *)
(* types, and wire and lists stay sound.                                      *)
LEMMA DrainSound ==
    ASSUME Types0, NEW F \in Seq(Buffer), NEW n \in Nat, n <= Units(F)
    PROVE  /\ Drained(F, n).rest \in Seq(Buffer) /\ Drained(F, n).out \in Seq(Packet)
           /\ Units(Drained(F, n).rest) = Units(F) - n
           /\ PacketsOf(Drained(F, n).rest) \subseteq PacketsOf(F)
           /\ Range(Drained(F, n).out) \subseteq PacketsOf(F)
           /\ \A w \in Seq(Packet), L \in Seq(Buffer) : Sound(w, F, L) =>
                /\ Sound(w \o Drained(F, n).out, Drained(F, n).rest, L)
                /\ NotTorn(w, F) => NotTorn(w \o Drained(F, n).out, Drained(F, n).rest)
<1> DEFINE D(m) == Drained(F, m)
           Good(m) == /\ D(m) = [rest |-> D(m).rest, out |-> D(m).out]
                      /\ D(m).rest \in Seq(Buffer) /\ D(m).out \in Seq(Packet)
                      /\ Units(D(m).rest) = Units(F) - m
                      /\ PacketsOf(D(m).rest) \subseteq PacketsOf(F)
                      /\ Range(D(m).out) \subseteq PacketsOf(F)
                      /\ \A w \in Seq(Packet), L \in Seq(Buffer) : Sound(w, F, L) =>
                           /\ Sound(w \o D(m).out, D(m).rest, L)
                           /\ NotTorn(w, F) => NotTorn(w \o D(m).out, D(m).rest)
           T == {m \in Nat : m <= Units(F) => Good(m)}
<1>0. Units(F) \in Nat
  BY UnitsType
<1>1. 0 \in T
  <2>1. D(0).rest = F /\ D(0).out = << >> /\ D(0) = [rest |-> D(0).rest, out |-> D(0).out]
    BY DrainedTurns
  <2>2. \A w \in Seq(Packet) : w \o << >> = w
    BY ConcatEmptySeq
  <2>3. Range(<< >>) = {}
    BY DEF Range
  <2> HIDE DEF D
  <2>4. \A w \in Seq(Packet) : w \o D(0).out = w
    BY <2>1, <2>2
  <2>5. Units(D(0).rest) = Units(F) - 0
    BY <1>0, <2>1
  <2>6. ASSUME NEW w \in Seq(Packet), NEW L \in Seq(Buffer), Sound(w, F, L)
        PROVE  /\ Sound(w \o D(0).out, D(0).rest, L)
               /\ NotTorn(w, F) => NotTorn(w \o D(0).out, D(0).rest)
    BY <2>1, <2>4, <2>6, Zenon
  <2>7. D(0).out \in Seq(Packet) /\ Range(D(0).out) \subseteq PacketsOf(F)
    <3>1. Range(D(0).out) = {}
      BY <2>1, <2>3, Zenon
    <3>2. << >> \in Seq(Packet)
      OBVIOUS
    <3> QED BY <2>1, <3>1, <3>2
  <2>8. Good(0)
    BY <2>1, <2>5, <2>6, <2>7
  <2> QED BY <2>8
<1>2. ASSUME NEW m \in Nat, m + 1 <= Units(F), Good(m) PROVE Good(m + 1)
  <2>0. m \in Nat
    OBVIOUS
  <2>1. Good(m)
    BY <1>2
  <2> DEFINE R == D(m).rest
             o == D(m).out
             d == D(m + 1)
  <2>2. R \in Seq(Buffer) /\ o \in Seq(Packet) /\ Units(R) = Units(F) - m /\ PacketsOf(R) \subseteq PacketsOf(F)
        /\ Range(o) \subseteq PacketsOf(F)
    BY <2>1
  <2>3. R # << >>
    <3>1. Units(R) # 0
      BY <1>0, <1>2, <2>2
    <3> QED BY <2>2, <3>1, UnitsType
  <2>4. Turned(R, o, d)
    BY <2>0, <2>1, DrainedTurns DEF Turned
  <2>5. \A w \in Seq(Packet), L \in Seq(Buffer) : Sound(w, F, L) =>
           /\ Sound(w \o o, R, L)
           /\ NotTorn(w, F) => NotTorn(w \o o, R)
    BY <2>1
  <2> HIDE DEF D, R, o, d
  <2> DEFINE e == IF R[1].left = 1 THEN 1 ELSE 0
  <2>a. Finished(R, e)
    BY DEF Finished
  <2> HIDE DEF e
  <2>6. /\ 1 \in DOMAIN R /\ R[1] \in Buffer /\ d.rest \in Seq(Buffer)
        /\ d.out = Append(o, R[1].p) /\ d = [rest |-> d.rest, out |-> d.out]
        /\ \A k \in DOMAIN d.rest : k + e \in DOMAIN R /\ d.rest[k].p = R[k + e].p
    BY <2>2, <2>3, <2>4, <2>a, TurnMap
  <2>7. Units(d.rest) = Units(F) - (m + 1)
    <3>1. Units(d.rest) = Units(R) - 1
      BY <2>2, <2>3, <2>4, UnitsTurn
    <3> QED BY <1>0, <2>0, <2>2, <3>1
  <2>8. PacketsOf(d.rest) \subseteq PacketsOf(R) /\ R[1].p \in PacketsOf(R) /\ R[1].p \in Packet
    <3>1. \A k \in DOMAIN d.rest : d.rest[k].p \in PacketsOf(R)
      BY <2>6 DEF PacketsOf
    <3>2. R[1].p \in PacketsOf(R)
      BY <2>6 DEF PacketsOf
    <3>3. R[1].p \in Packet
      BY <2>6, BufferFields
    <3> QED BY <3>1, <3>2, <3>3 DEF PacketsOf
  <2>9. Range(d.out) \subseteq PacketsOf(F)
    <3> DEFINE j == Len(o)
    <3>1. /\ DOMAIN o = 1..j /\ DOMAIN d.out = 1..(j + 1) /\ j \in Nat
          /\ \A k \in 1..j : d.out[k] = o[k]
          /\ d.out[j + 1] = R[1].p
      BY <2>2, <2>6, <2>8
    <3>2. \A k \in 1..(j + 1) : k \in 1..j \/ k = j + 1
      BY <3>1
    <3> QED BY <2>2, <2>8, <3>1, <3>2 DEF Range
  <2>10. ASSUME NEW w \in Seq(Packet), NEW L \in Seq(Buffer), Sound(w, F, L)
         PROVE  /\ Sound(w \o d.out, d.rest, L)
                /\ NotTorn(w, F) => NotTorn(w \o d.out, d.rest)
    <3> DEFINE v == w \o o
    <3>1. v \in Seq(Packet) /\ Sound(v, R, L) /\ (NotTorn(w, F) => NotTorn(v, R))
      BY <2>2, <2>5, <2>10
    <3>2. w \o d.out = Append(v, R[1].p)
      <4> DEFINE p == R[1].p
      <4>1. w \in Seq(Packet) /\ o \in Seq(Packet) /\ p \in Packet /\ d.out = Append(o, p)
        BY <2>2, <2>6, <2>8
      <4> HIDE DEF p
      <4>2. w \o Append(o, p) = Append(w \o o, p)
        BY <4>1, ConcatAppend
      <4> QED BY <4>1, <4>2 DEF p
    <3> DEFINE x == Append(v, R[1].p)
    <3>3. x = Append(v, R[1].p)
      OBVIOUS
    <3> HIDE DEF v, x
    <3>4. Sound(x, d.rest, L) /\ (NotTorn(v, R) => NotTorn(x, d.rest))
      <4>1. /\ v \in Seq(Packet) /\ R \in Seq(Buffer) /\ R # << >> /\ o \in Seq(Packet)
            /\ Turned(R, o, d) /\ Emitted(R, v, x) /\ Sound(v, R, L) /\ L \in Seq(Buffer)
        BY <2>2, <2>3, <2>4, <3>1, <3>3 DEF Emitted
      <4> QED BY <4>1, EmitOne
    <3> QED BY <3>1, <3>2, <3>3, <3>4
  <2>11. d.out \in Seq(Packet)
    BY <2>2, <2>6, <2>8
  <2>12. /\ d = [rest |-> d.rest, out |-> d.out] /\ d.rest \in Seq(Buffer)
         /\ PacketsOf(d.rest) \subseteq PacketsOf(F)
    BY <2>2, <2>6, <2>8
  <2> QED BY <2>7, <2>9, <2>10, <2>11, <2>12 DEF d
<1>3. T = Nat
  <2>1. ASSUME NEW m \in T PROVE m + 1 \in T
    <3>1. m \in Nat /\ (m <= Units(F) => Good(m))
      OBVIOUS
    <3> HIDE DEF Good
    <3>2. m + 1 <= Units(F) => Good(m + 1)
      BY <1>0, <1>2, <3>1
    <3> QED BY <3>1, <3>2
  <2> HIDE DEF T
  <2>2. T \subseteq Nat
    BY DEF T
  <2> QED BY <1>1, <2>1, <2>2, Induction
<1>4. n \in T
  BY <1>3
<1> QED BY <1>4

-----------------------------------------------------------------------------
(* Slots                                                                    *)

(* The fields of a slot. *)
LEMMA RecordFields ==
    ASSUME NEW s \in Record
    PROVE  /\ s.type \in Types /\ s.id \in Id \cup {0} /\ s.tcp \in BOOLEAN /\ s.sending \in Int
           /\ s.high \in Seq(Buffer) /\ s.low \in Seq(Buffer) /\ s.wev \in BOOLEAN
           /\ s.dw \in Buffer \cup {None} /\ s.lock \in Service \cup {None}
BY DEF Record

(* A list with one more buffer in front. *)
LEMMA FrontList ==
    ASSUME NEW b \in Buffer, NEW F \in Seq(Buffer)
    PROVE  /\ <<b>> \o F \in Seq(Buffer) /\ Len(<<b>> \o F) = Len(F) + 1 /\ <<b>> \o F # << >>
           /\ (<<b>> \o F)[1] = b /\ 1 \in DOMAIN (<<b>> \o F)
           /\ \A k \in DOMAIN F : k + 1 \in DOMAIN (<<b>> \o F) /\ (<<b>> \o F)[k + 1] = F[k]
           /\ \A k \in DOMAIN (<<b>> \o F) : k # 1 => k - 1 \in DOMAIN F /\ (<<b>> \o F)[k] = F[k - 1]
           /\ PacketsOf(<<b>> \o F) = {b.p} \cup PacketsOf(F)
<1> DEFINE t == <<b>> \o F
           n == Len(F)
<1>1. n \in Nat /\ DOMAIN F = 1..n /\ t \in Seq(Buffer) /\ Len(t) = n + 1 /\ DOMAIN t = 1..(n + 1)
  OBVIOUS
<1>2. t[1] = b /\ \A k \in 2..(n + 1) : t[k] = F[k - 1]
  OBVIOUS
<1>3. \A k \in 1..n : k + 1 \in 2..(n + 1) /\ k + 1 \in 1..(n + 1) /\ (k + 1) - 1 = k
  BY <1>1
<1>4. \A k \in 1..(n + 1) : k # 1 => k - 1 \in 1..n /\ k \in 2..(n + 1)
  BY <1>1
<1>5. 1 \in 1..(n + 1) /\ t # << >>
  BY <1>1
<1> HIDE DEF t, n
<1>6. PacketsOf(t) = {b.p} \cup PacketsOf(F)
  <2>1. \A k \in DOMAIN t : t[k].p \in {b.p} \cup PacketsOf(F)
    BY <1>1, <1>2, <1>4 DEF PacketsOf
  <2>2. b.p \in PacketsOf(t)
    BY <1>1, <1>2, <1>5 DEF PacketsOf
  <2>3. \A k \in DOMAIN F : F[k].p \in PacketsOf(t)
    <3> TAKE k \in DOMAIN F
    <3>1. k + 1 \in DOMAIN t /\ t[k + 1] = F[k]
      BY <1>1, <1>2, <1>3
    <3> QED BY <3>1 DEF PacketsOf
  <2> QED BY <2>1, <2>2, <2>3 DEF PacketsOf
<1> QED BY <1>1, <1>2, <1>3, <1>4, <1>5, <1>6 DEF t, n

(* Merged: the rest of a direct write is in front. *)
LEMMA MergedFacts ==
    ASSUME NEW s \in Record
    PROVE  /\ Merged(s) \in Record /\ Merged(s).dw = None
           /\ Merged(s).type = s.type /\ Merged(s).id = s.id /\ Merged(s).tcp = s.tcp
           /\ Merged(s).sending = s.sending /\ Merged(s).low = s.low /\ Merged(s).wev = s.wev
           /\ Merged(s).lock = s.lock
           /\ Front(s) = Merged(s).high /\ Front(s) \in Seq(Buffer)
           /\ s.dw = None => Front(s) = s.high /\ Merged(s) = s
           /\ s.dw # None => Front(s) = <<s.dw>> \o s.high /\ s.dw \in Buffer
           /\ BufferEmpty(Merged(s)) <=> NoData(s)
           /\ Front(s) = << >> <=> s.high = << >> /\ s.dw = None
<1>1. CASE s.dw = None
  BY <1>1 DEF Merged, Front, Record, BufferEmpty, NoData
<1>2. CASE s.dw # None
  <2>1. s.dw \in Buffer /\ s.high \in Seq(Buffer)
    BY <1>2 DEF Record
  <2> DEFINE h == <<s.dw>> \o s.high
  <2>2. h \in Seq(Buffer) /\ h # << >>
    BY <2>1, FrontList
  <2>3. Merged(s) = [s EXCEPT !.high = h, !.dw = None]
    BY <1>2 DEF Merged
  <2> HIDE DEF h
  <2>4. /\ Merged(s) \in Record /\ Merged(s).dw = None /\ Merged(s).high = h
        /\ Merged(s).type = s.type /\ Merged(s).id = s.id /\ Merged(s).tcp = s.tcp
        /\ Merged(s).sending = s.sending /\ Merged(s).low = s.low /\ Merged(s).wev = s.wev
        /\ Merged(s).lock = s.lock
    BY <2>2, <2>3 DEF Record
  <2> QED BY <1>2, <2>1, <2>2, <2>4 DEF Front, BufferEmpty, NoData, h
<1> QED BY <1>1, <1>2

(* The low list takes the place of an empty front, and the other way round. *)
LEMMA SoundLow ==
    ASSUME NEW w \in Seq(Packet), NEW L \in Seq(Buffer)
    PROVE  /\ Sound(w, << >>, L) => Sound(w, L, << >>) /\ \A k \in DOMAIN L : L[k].p \in lowp
           /\ Sound(w, L, << >>) /\ (\A k \in DOMAIN L : L[k].p \in lowp /\ L[k].left = Size)
                => Sound(w, << >>, L)
<1>1. Held(w, << >>, L) = Held(w, L, << >>)
  BY DEF Held, PacketsOf
<1>2. DOMAIN << >> = {}
  OBVIOUS
<1>3. ASSUME Sound(w, << >>, L) PROVE Sound(w, L, << >>) /\ \A k \in DOMAIN L : L[k].p \in lowp
  <2>1. /\ \A k \in DOMAIN L : L[k].p \in lowp /\ L[k].left = Size /\ L[k].p \notin Range(w)
        /\ \A k, l \in DOMAIN L : L[k].p = L[l].p => k = l
        /\ Whole(w)
        /\ \A a, b \in DOMAIN w : a < b => Before(w[a], w[b])
        /\ \A p \in Held(w, << >>, L) : sentBy[p] # None
    BY <1>3 DEF Sound
  <2>2. \A p, k : k \in DOMAIN L => Before(p, L[k].p) /\ Before(L[k].p, p)
    BY <2>1 DEF Before
  <2>3. 1 \in DOMAIN L => ~(L[1].left < Size)
    BY <2>1, SocketAssumption
  <2> QED BY <1>1, <1>2, <2>1, <2>2, <2>3 DEF Sound
<1>4. ASSUME Sound(w, L, << >>), \A k \in DOMAIN L : L[k].p \in lowp /\ L[k].left = Size
      PROVE  Sound(w, << >>, L)
  <2>1. /\ \A k \in DOMAIN L : L[k].p \in lowp /\ L[k].left = Size /\ L[k].p \notin Range(w)
        /\ \A k, l \in DOMAIN L : L[k].p = L[l].p => k = l
        /\ Whole(w)
        /\ \A a, b \in DOMAIN w : a < b => Before(w[a], w[b])
        /\ \A p \in Held(w, L, << >>) : sentBy[p] # None
    BY <1>4 DEF Sound
  <2> QED BY <1>1, <1>2, <2>1 DEF Sound
<1> QED BY <1>3, <1>4

(* raise_uncomplete: the low buffer that is half sent becomes the front. *)
LEMMA SoundRaise ==
    ASSUME NEW w \in Seq(Packet), NEW L \in Seq(Buffer), L # << >>, Sound(w, L, << >>),
           \A k \in DOMAIN L : L[k].p \in lowp
    PROVE  /\ Sound(w, <<Head(L)>>, Tail(L))
           /\ NotTorn(w, L) => NotTorn(w, <<Head(L)>>)
           /\ Held(w, <<Head(L)>>, Tail(L)) \subseteq Held(w, L, << >>)
           /\ <<Head(L)>> \in Seq(Buffer) /\ Tail(L) \in Seq(Buffer)
<1> DEFINE H == <<Head(L)>>
           T == Tail(L)
           n == Len(L)
<1>1. /\ n \in Nat /\ n # 0 /\ DOMAIN L = 1..n /\ 1 \in DOMAIN L
      /\ H \in Seq(Buffer) /\ DOMAIN H = {1} /\ H[1] = L[1]
  BY HeadTailProperties
<1>2. T \in Seq(Buffer) /\ Len(T) = n - 1 /\ \A k \in 1..(n - 1) : T[k] = L[k + 1]
  BY HeadTailProperties
<1>3. \A k \in DOMAIN T : k \in Nat /\ k + 1 \in DOMAIN L /\ k + 1 # 1 /\ T[k] = L[k + 1]
  <2>1. DOMAIN T = 1..(n - 1)
    BY <1>1, <1>2
  <2>2. \A k \in 1..(n - 1) : k \in Nat /\ k + 1 \in 1..n /\ k + 1 # 1
    BY <1>1
  <2> QED BY <1>1, <1>2, <2>1, <2>2
<1> HIDE DEF H, T, n
<1>4. /\ Whole(w)
      /\ \A k \in DOMAIN L : k # 1 => L[k].left = Size
      /\ \A k \in DOMAIN L : L[k].left = Size => L[k].p \notin Range(w)
      /\ \A k, l \in DOMAIN L : L[k].p = L[l].p => k = l
      /\ L[1].left < Size =>
           /\ \A a \in DOMAIN w : w[a] = L[1].p => \A k \in a..Len(w) : w[k] = L[1].p
           /\ Count(w, L[1].p) = Size - L[1].left
      /\ \A a, b \in DOMAIN w : a < b => Before(w[a], w[b])
      /\ \A a \in DOMAIN w, k \in DOMAIN L : Before(w[a], L[k].p)
      /\ \A p \in Held(w, L, << >>) : sentBy[p] # None
  BY <1>1 DEF Sound
<1>5. Held(w, H, T) \subseteq Held(w, L, << >>)
  <2>1. \A k \in DOMAIN L : L[k].p \in PacketsOf(L)
    BY DEF PacketsOf
  <2>2. PacketsOf(H) \subseteq PacketsOf(L) /\ PacketsOf(T) \subseteq PacketsOf(L)
    BY <1>1, <1>3, <2>1 DEF PacketsOf
  <2> QED BY <2>2 DEF Held
<1>6. /\ \A k \in DOMAIN T : T[k].left = Size /\ T[k].p \notin Range(w) /\ T[k].p \in lowp
      /\ \A k \in DOMAIN H, l \in DOMAIN T : H[k].p # T[l].p
  BY <1>1, <1>3, <1>4
<1>7. \A k, l \in DOMAIN T : T[k].p = T[l].p => k = l
  <2> TAKE k, l \in DOMAIN T
  <2> HAVE T[k].p = T[l].p
  <2>1. k + 1 = l + 1 /\ k \in Nat /\ l \in Nat
    BY <1>3, <1>4
  <2> QED BY <2>1
<1>8. Sound(w, H, T)
  <2>1. \A k, l \in DOMAIN H : ~(k < l) /\ k = l /\ k = 1
    BY <1>1
  <2>2. \A p \in Held(w, H, T) : sentBy[p] # None
    BY <1>4, <1>5
  <2>3. \A a \in DOMAIN w, k \in DOMAIN H : Before(w[a], H[k].p)
    BY <1>1, <1>4
  <2>4. \A k \in DOMAIN H : H[k].left = Size => H[k].p \notin Range(w)
    BY <1>1, <1>4
  <2> QED BY <1>1, <1>4, <1>6, <1>7, <2>1, <2>2, <2>3, <2>4 DEF Sound
<1>9. NotTorn(w, L) => NotTorn(w, H)
  BY <1>1 DEF NotTorn
<1> QED BY <1>1, <1>2, <1>5, <1>8, <1>9 DEF H, T

(* Soundness looks at the senders and the priorities only. *)
LEMMA SoundKeeps ==
    ASSUME UNCHANGED <<sentBy, lowp>>, NEW w, NEW F, NEW L
    PROVE  Sound(w, F, L)' <=> Sound(w, F, L)
<1>1. \A p, q : Before(p, q)' <=> Before(p, q)
  BY DEF Before
<1> QED BY <1>1 DEF Sound

(* f is what send_buffer_ makes of slot m, and the units it wrote, when the   *)
(* kernel takes n.                                                            *)
Flush(m, n, f) == f = Flushed(m, n)
Enough(m, n) == n \in Nat /\ n <= Units(m.high) + Units(m.low)

(* The two lists after the flush, before raise_uncomplete: either the front   *)
(* took all units, or the front is empty and the low list took the rest.      *)
FlushedLists(m, n, o, H, L) ==
    \/ /\ n <= Units(m.high) /\ L = m.low
       /\ H = Drained(m.high, n).rest /\ o = Drained(m.high, n).out
    \/ /\ n > Units(m.high) /\ H = << >>
       /\ L = Drained(m.low, n - Units(m.high)).rest
       /\ o = Drained(m.high, Units(m.high)).out \o Drained(m.low, n - Units(m.high)).out

(* raise_uncomplete, and the write event when nothing is left. *)
Raising(m, H, L, s) ==
    s = IF Uncomplete(L) THEN [m EXCEPT !.high = <<Head(L)>>, !.low = Tail(L)]
        ELSE IF H = << >> /\ L = << >> THEN [m EXCEPT !.high = H, !.low = L, !.wev = FALSE]
        ELSE [m EXCEPT !.high = H, !.low = L]

(* send_buffer_ in its parts: what is written, the two lists, and what        *)
(* raise_uncomplete makes of them.                                            *)
LEMMA FlushedParts ==
    ASSUME Types0, NEW m \in Record, NEW n, Enough(m, n), NEW f, Flush(m, n, f)
    PROVE  \E o \in Seq(Packet), H \in Seq(Buffer), L \in Seq(Buffer) :
               FlushedLists(m, n, o, H, L) /\ Raising(m, H, L, f.s) /\ f.out = o
                 /\ f = [out |-> f.out, s |-> f.s]
<1> DEFINE h == Units(m.high)
           high == Drained(m.high, IF n < h THEN n ELSE h)
           low == IF n > h THEN Drained(m.low, n - h) ELSE [rest |-> m.low, out |-> << >>]
           t == [m EXCEPT !.high = high.rest, !.low = low.rest]
           u == IF Uncomplete(t.low) THEN [t EXCEPT !.high = <<Head(t.low)>>, !.low = Tail(@)]
                ELSE IF BufferEmpty(t) THEN [t EXCEPT !.wev = FALSE]
                ELSE t
           o == high.out \o low.out
<1>0. m.high \in Seq(Buffer) /\ m.low \in Seq(Buffer)
  BY RecordFields
<1>1. h \in Nat /\ Units(m.low) \in Nat /\ n \in Nat /\ n <= h + Units(m.low)
  BY <1>0, UnitsType DEF Enough
<1>2. f = [out |-> o, s |-> u]
  BY DEF Flush, Flushed
<1>3. high.rest \in Seq(Buffer) /\ high.out \in Seq(Packet)
  <2>1. (IF n < h THEN n ELSE h) \in Nat /\ (IF n < h THEN n ELSE h) <= h
    BY <1>1
  <2> QED BY <1>0, <2>1, DrainSound
<1>4. low.rest \in Seq(Buffer) /\ low.out \in Seq(Packet)
  <2>1. CASE n > h
    <3>1. n - h \in Nat /\ n - h <= Units(m.low)
      BY <1>1, <2>1
    <3> HIDE DEF h
    <3>2. Drained(m.low, n - h).rest \in Seq(Buffer) /\ Drained(m.low, n - h).out \in Seq(Packet)
      BY <1>0, <3>1, DrainSound
    <3> QED BY <2>1, <3>2
  <2>2. CASE ~(n > h)
    BY <1>0, <2>2
  <2> QED BY <2>1, <2>2
<1>5. o \in Seq(Packet)
  BY <1>3, <1>4
<1>6. FlushedLists(m, n, o, high.rest, low.rest)
  <2>1. CASE n > h
    <3>1. ~(n < h) /\ h <= h
      BY <1>1, <2>1
    <3>2. high = Drained(m.high, h)
      BY <3>1
    <3>3. Drained(m.high, h).rest = << >>
      <4>1. Drained(m.high, h).rest \in Seq(Buffer) /\ Units(Drained(m.high, h).rest) = h - h
        BY <1>0, <1>1, <3>1, DrainSound
      <4>2. h - h = 0
        BY <1>1
      <4> QED BY <4>1, <4>2, UnitsType
    <3>4. low = Drained(m.low, n - h)
      BY <2>1
    <3> QED BY <2>1, <3>2, <3>3, <3>4 DEF FlushedLists
  <2>2. CASE ~(n > h)
    <3>1. n <= h /\ (IF n < h THEN n ELSE h) = n
      BY <1>1, <2>2
    <3>2. high = Drained(m.high, n)
      BY <3>1
    <3>3. low.rest = m.low /\ low.out = << >>
      BY <2>2
    <3>4. o = high.out
      <4> HIDE DEF high, low
      <4> QED BY <1>3, <3>3, ConcatEmptySeq
    <3> HIDE DEF low
    <3> QED BY <3>1, <3>2, <3>3, <3>4 DEF FlushedLists
  <2> QED BY <2>1, <2>2
<1> HIDE DEF high, low
<1>7. t.high = high.rest /\ t.low = low.rest
  BY DEF Record
<1>8. Raising(m, high.rest, low.rest, u)
  <2>1. t = [m EXCEPT !.high = high.rest, !.low = low.rest]
    OBVIOUS
  <2>2. BufferEmpty(t) <=> high.rest = << >> /\ low.rest = << >>
    BY <1>7 DEF BufferEmpty
  <2>3. [t EXCEPT !.high = <<Head(low.rest)>>, !.low = Tail(low.rest)]
          = [m EXCEPT !.high = <<Head(low.rest)>>, !.low = Tail(low.rest)]
    BY DEF Record
  <2>4. [t EXCEPT !.wev = FALSE] = [m EXCEPT !.high = high.rest, !.low = low.rest, !.wev = FALSE]
    OBVIOUS
  <2>5. u = IF Uncomplete(low.rest) THEN [t EXCEPT !.high = <<Head(low.rest)>>, !.low = Tail(low.rest)]
            ELSE IF BufferEmpty(t) THEN [t EXCEPT !.wev = FALSE]
            ELSE t
    BY <1>7
  <2> HIDE DEF t, u
  <2> QED BY <2>1, <2>2, <2>3, <2>4, <2>5 DEF Raising
<1>9. f.s = u /\ f.out = o /\ f = [out |-> f.out, s |-> f.s]
  BY <1>2
<1> HIDE DEF o, u, t
<1> QED BY <1>3, <1>4, <1>5, <1>6, <1>8, <1>9

(* send_buffer_ keeps what is not its own of the slot, and turns the write    *)
(* event off only when nothing is left.                                       *)
LEMMA FlushedType ==
    ASSUME Types0, NEW m \in Record, NEW n, Enough(m, n), NEW f, Flush(m, n, f)
    PROVE  /\ f.s \in Record /\ f.out \in Seq(Packet)
           /\ f.s.type = m.type /\ f.s.id = m.id /\ f.s.tcp = m.tcp /\ f.s.sending = m.sending
           /\ f.s.lock = m.lock /\ f.s.dw = m.dw
           /\ ~BufferEmpty(f.s) => f.s.wev = m.wev /\ ~BufferEmpty(m)
<1>1. PICK o \in Seq(Packet), H \in Seq(Buffer), L \in Seq(Buffer) :
         FlushedLists(m, n, o, H, L) /\ Raising(m, H, L, f.s) /\ f.out = o
  BY FlushedParts
<1>2. m.high \in Seq(Buffer) /\ m.low \in Seq(Buffer)
  BY RecordFields
<1> DEFINE Kept == /\ f.s \in Record /\ f.out \in Seq(Packet)
                   /\ f.s.type = m.type /\ f.s.id = m.id /\ f.s.tcp = m.tcp
                   /\ f.s.sending = m.sending /\ f.s.lock = m.lock /\ f.s.dw = m.dw
<1>3. ASSUME Uncomplete(L) PROVE Kept
  <2>1. L # << >>
    BY <1>3 DEF Uncomplete
  <2>2. Head(L) \in Buffer /\ Tail(L) \in Seq(Buffer)
    BY <2>1
  <2> DEFINE H2 == <<Head(L)>>
  <2>3. H2 \in Seq(Buffer)
    BY <2>2
  <2>4. f.s = [m EXCEPT !.high = H2, !.low = Tail(L)]
    BY <1>1, <1>3 DEF Raising
  <2> HIDE DEF H2
  <2> QED BY <1>1, <2>2, <2>3, <2>4 DEF Record
<1>4. ASSUME ~Uncomplete(L), H = << >> /\ L = << >> PROVE Kept
  <2>1. f.s = [m EXCEPT !.high = H, !.low = L, !.wev = FALSE]
    BY <1>1, <1>4 DEF Raising
  <2> QED BY <1>1, <1>4, <2>1 DEF Record, BufferEmpty
<1>5. ASSUME ~Uncomplete(L), ~(H = << >> /\ L = << >>) PROVE Kept
  <2>1. f.s = [m EXCEPT !.high = H, !.low = L]
    BY <1>1, <1>5 DEF Raising
  <2> QED BY <1>1, <2>1 DEF Record
<1>6. ASSUME BufferEmpty(m) PROVE BufferEmpty(f.s)
  <2>1. m.high = << >> /\ m.low = << >>
    BY <1>6 DEF BufferEmpty
  <2>2. Units(m.high) = 0 /\ Units(m.low) = 0
    BY <1>2, <2>1, UnitsType
  <2>3. n = 0
    BY <2>2 DEF Enough
  <2>4. H = << >> /\ L = << >>
    <3>1. H = Drained(m.high, 0).rest /\ L = m.low
      BY <1>1, <2>2, <2>3 DEF FlushedLists
    <3> QED BY <2>1, <3>1, DrainedTurns
  <2>5. ~Uncomplete(L)
    BY <2>4 DEF Uncomplete
  <2>6. f.s = [m EXCEPT !.high = H, !.low = L, !.wev = FALSE]
    BY <1>1, <2>4, <2>5 DEF Raising
  <2> QED BY <2>4, <2>6 DEF Record, BufferEmpty
<1>7. f.s.wev # m.wev => BufferEmpty(f.s)
  <2>1. CASE Uncomplete(L)
    <3>1. f.s = [m EXCEPT !.high = <<Head(L)>>, !.low = Tail(L)]
      BY <1>1, <2>1 DEF Raising
    <3> QED BY <3>1 DEF Record
  <2>2. CASE ~Uncomplete(L) /\ H = << >> /\ L = << >>
    <3>1. f.s = [m EXCEPT !.high = H, !.low = L, !.wev = FALSE]
      BY <1>1, <2>2 DEF Raising
    <3> QED BY <2>2, <3>1 DEF Record, BufferEmpty
  <2>3. CASE ~Uncomplete(L) /\ ~(H = << >> /\ L = << >>)
    <3>1. f.s = [m EXCEPT !.high = H, !.low = L]
      BY <1>1, <2>3 DEF Raising
    <3> QED BY <3>1 DEF Record
  <2> QED BY <2>1, <2>2, <2>3
<1>8. Kept
  BY <1>1, <1>3, <1>4, <1>5
<1> QED BY <1>6, <1>7, <1>8

(* What is held after a list has been drained was held before. *)
LEMMA HeldDrain ==
    ASSUME NEW w \in Seq(Packet), NEW o \in Seq(Packet), NEW F, NEW F2, NEW L,
           PacketsOf(F2) \subseteq PacketsOf(F), Range(o) \subseteq PacketsOf(F)
    PROVE  Held(w \o o, F2, L) \subseteq Held(w, F, L)
<1> DEFINE v == w \o o
<1>1. /\ DOMAIN w = 1..Len(w) /\ DOMAIN o = 1..Len(o) /\ DOMAIN v = 1..(Len(w) + Len(o))
      /\ Len(w) \in Nat /\ Len(o) \in Nat
      /\ \A k \in 1..(Len(w) + Len(o)) : v[k] = IF k <= Len(w) THEN w[k] ELSE o[k - Len(w)]
  OBVIOUS
<1> HIDE DEF v
<1>2. \A k \in DOMAIN v : v[k] \in Range(w) \/ v[k] \in Range(o)
  <2> TAKE k \in DOMAIN v
  <2>1. CASE k <= Len(w)
    <3>1. k \in DOMAIN w /\ v[k] = w[k]
      BY <1>1, <2>1
    <3> QED BY <3>1 DEF Range
  <2>2. CASE ~(k <= Len(w))
    <3>1. k - Len(w) \in DOMAIN o /\ v[k] = o[k - Len(w)]
      BY <1>1, <2>2
    <3> QED BY <3>1 DEF Range
  <2> QED BY <2>1, <2>2
<1>3. Range(v) \subseteq Range(w) \cup PacketsOf(F)
  BY <1>2 DEF Range
<1> QED BY <1>3 DEF Held, v

(* send_buffer_ keeps wire and lists sound, and begins no packet that it does *)
(* not keep the rest of.                                                      *)
LEMMA FlushedSound ==
    ASSUME Types0, NEW m \in Record, NEW n, Enough(m, n), NEW f, Flush(m, n, f),
           NEW w \in Seq(Packet), Sound(w, m.high, m.low)
    PROVE  /\ Sound(w \o f.out, f.s.high, f.s.low)
           /\ NotTorn(w, m.high) => NotTorn(w \o f.out, f.s.high)
           /\ Held(w \o f.out, f.s.high, f.s.low) \subseteq Held(w, m.high, m.low)
<1>1. PICK o \in Seq(Packet), H \in Seq(Buffer), L \in Seq(Buffer) :
         FlushedLists(m, n, o, H, L) /\ Raising(m, H, L, f.s) /\ f.out = o
  BY FlushedParts
<1>2. m.high \in Seq(Buffer) /\ m.low \in Seq(Buffer)
  BY RecordFields
<1>3. /\ Units(m.high) \in Nat /\ Units(m.low) \in Nat /\ n \in Nat
      /\ n <= Units(m.high) + Units(m.low)
  BY <1>2, UnitsType DEF Enough
<1> DEFINE F == m.high
           G == m.low
           v == w \o o
<1>4. v \in Seq(Packet)
  OBVIOUS
<1>5. ASSUME ~Uncomplete(L) PROVE f.s.high = H /\ f.s.low = L
  <2>1. \/ f.s = [m EXCEPT !.high = H, !.low = L, !.wev = FALSE]
        \/ f.s = [m EXCEPT !.high = H, !.low = L]
    BY <1>1, <1>5 DEF Raising
  <2> QED BY <2>1 DEF Record
<1>6. ASSUME Uncomplete(L) PROVE f.s.high = <<Head(L)>> /\ f.s.low = Tail(L)
  <2>1. f.s = [m EXCEPT !.high = <<Head(L)>>, !.low = Tail(L)]
    BY <1>1, <1>6 DEF Raising
  <2> QED BY <2>1 DEF Record
<1>7. CASE n <= Units(F)
  <2>0. ~(n > Units(m.high))
    BY <1>3, <1>7
  <2>1. L = G /\ H = Drained(F, n).rest /\ o = Drained(F, n).out
    BY <1>1, <2>0 DEF FlushedLists
  <2>2. /\ Sound(v, H, L) /\ (NotTorn(w, F) => NotTorn(v, H))
        /\ PacketsOf(H) \subseteq PacketsOf(F) /\ Range(o) \subseteq PacketsOf(F)
    BY <1>2, <1>3, <1>7, <2>1, DrainSound
  <2>3. ~Uncomplete(L)
    <3> SUFFICES ASSUME L # << >> PROVE ~(Head(L).left < Size)
      BY DEF Uncomplete
    <3>1. 1 \in DOMAIN L /\ Head(L) = L[1]
      OBVIOUS
    <3>2. L[1].left = Size
      BY <2>2, <3>1 DEF Sound
    <3> QED BY <3>1, <3>2, SocketAssumption
  <2>4. Held(v, H, L) \subseteq Held(w, F, L)
    BY <2>2, HeldDrain
  <2> QED BY <1>1, <1>5, <2>1, <2>2, <2>3, <2>4
<1>8. CASE ~(n <= Units(F))
  <2> DEFINE D == Drained(F, Units(F))
             E == Drained(G, n - Units(F))
             w1 == w \o D.out
  <2>1. H = << >> /\ L = E.rest /\ o = D.out \o E.out
    BY <1>1, <1>3, <1>8 DEF FlushedLists
  <2>2. n - Units(F) \in Nat /\ n - Units(F) <= Units(G) /\ Units(F) <= Units(F)
    BY <1>3, <1>8
  <2>3. /\ D.rest \in Seq(Buffer) /\ D.out \in Seq(Packet) /\ Units(D.rest) = Units(F) - Units(F)
        /\ PacketsOf(D.rest) \subseteq PacketsOf(F) /\ Range(D.out) \subseteq PacketsOf(F)
        /\ Sound(w1, D.rest, G) /\ (NotTorn(w, F) => NotTorn(w1, D.rest))
    BY <1>2, <1>3, <2>2, DrainSound
  <2>4. D.rest = << >>
    <3>1. Units(D.rest) = 0
      BY <1>3, <2>3
    <3> QED BY <2>3, <3>1, UnitsType
  <2>5. w1 \in Seq(Packet)
    BY <2>3
  <2>6. Sound(w1, G, << >>) /\ \A k \in DOMAIN G : G[k].p \in lowp
    BY <1>2, <2>3, <2>4, <2>5, SoundLow
  <2>7. /\ E.rest \in Seq(Buffer) /\ E.out \in Seq(Packet)
        /\ PacketsOf(E.rest) \subseteq PacketsOf(G) /\ Range(E.out) \subseteq PacketsOf(G)
        /\ \A x \in Seq(Packet), Z \in Seq(Buffer) : Sound(x, G, Z) =>
                /\ Sound(x \o E.out, E.rest, Z)
                /\ NotTorn(x, G) => NotTorn(x \o E.out, E.rest)
    BY <1>2, <2>2, DrainSound
  <2> HIDE DEF D, E, F, G
  <2>8. w1 \o E.out = v
    <3>0. w \in Seq(Packet) /\ D.out \in Seq(Packet) /\ E.out \in Seq(Packet)
      BY <2>3, <2>7
    <3>1. (w \o D.out) \o E.out = w \o (D.out \o E.out)
      <4>1. ASSUME NEW a \in Seq(Packet), NEW b \in Seq(Packet), NEW c \in Seq(Packet)
            PROVE  (a \o b) \o c = a \o (b \o c)
        <5>1. (a \o b) \o c \in Seq(Packet) /\ a \o (b \o c) \in Seq(Packet)
          OBVIOUS
        <5>2. Len((a \o b) \o c) = Len(a \o (b \o c))
          OBVIOUS
        <5>3. \A k \in 1..Len((a \o b) \o c) : ((a \o b) \o c)[k] = (a \o (b \o c))[k]
          OBVIOUS
        <5> QED BY <5>1, <5>2, <5>3, SeqEqual
      <4> QED BY <3>0, <4>1, Zenon
    <3> QED BY <2>1, <3>1
  <2> HIDE DEF w1, v
  <2>9. << >> \in Seq(Buffer)
    OBVIOUS
  <2>10. Sound(v, L, << >>) /\ (NotTorn(w1, G) => NotTorn(v, L))
    <3>1. /\ Sound(w1 \o E.out, E.rest, << >>)
          /\ NotTorn(w1, G) => NotTorn(w1 \o E.out, E.rest)
      BY <2>5, <2>6, <2>7, <2>9
    <3> QED BY <2>1, <2>8, <3>1
  <2>11. NotTorn(w, F) => NotTorn(v, L)
    <3>1. NotTorn(w, F) => NotTorn(w1, << >>)
      BY <2>3, <2>4
    <3>2. NotTorn(w1, << >>) => NotTorn(w1, G)
      BY DEF NotTorn
    <3> QED BY <2>10, <3>1, <3>2
  <2>12. Held(v, L, << >>) \subseteq Held(w, F, G)
    <3>1. Held(v, L, << >>) \subseteq Held(w1, G, << >>)
      <4>1. Held(w1 \o E.out, L, << >>) \subseteq Held(w1, G, << >>)
        BY <2>1, <2>5, <2>7, HeldDrain
      <4> QED BY <2>8, <4>1
    <3>2. Held(w1, << >>, G) \subseteq Held(w, F, G)
      <4>1. PacketsOf(<< >>) \subseteq PacketsOf(F)
        BY DEF PacketsOf
      <4> QED BY <2>3, <4>1, HeldDrain DEF w1
    <3>3. Held(w1, G, << >>) = Held(w1, << >>, G)
      BY DEF Held, PacketsOf
    <3> QED BY <3>1, <3>2, <3>3
  <2>13. \A k \in DOMAIN L : L[k].p \in lowp
    <3>1. \A p \in PacketsOf(G) : p \in lowp
      BY <2>6 DEF PacketsOf
    <3>2. \A k \in DOMAIN L : L[k].p \in PacketsOf(G)
      BY <2>1, <2>7 DEF PacketsOf
    <3> QED BY <3>1, <3>2
  <2>14. CASE Uncomplete(L)
    <3>1. L # << >>
      BY <2>14 DEF Uncomplete
    <3>2. /\ Sound(v, <<Head(L)>>, Tail(L))
          /\ NotTorn(v, L) => NotTorn(v, <<Head(L)>>)
          /\ Held(v, <<Head(L)>>, Tail(L)) \subseteq Held(v, L, << >>)
      BY <1>4, <2>10, <2>13, <3>1, SoundRaise
    <3> QED BY <1>1, <1>6, <2>11, <2>12, <2>14, <3>2 DEF v, F, G
  <2>15. CASE ~Uncomplete(L)
    <3>1. \A k \in DOMAIN L : L[k].left = Size
      <4> TAKE k \in DOMAIN L
      <4>1. CASE k # 1
        BY <2>10, <4>1 DEF Sound
      <4>2. CASE k = 1
        <5>1. L # << >> /\ Head(L) = L[1] /\ L[1] \in Buffer
          BY <4>2
        <5>2. L[1].left \in 1..Size /\ Size \in Nat
          BY <5>1, BufferFields
        <5>3. ~(L[1].left < Size)
          BY <2>15, <5>1 DEF Uncomplete
        <5> QED BY <4>2, <5>2, <5>3
      <4> QED BY <4>1, <4>2
    <3>2. Sound(v, << >>, L)
      BY <1>4, <2>10, <2>13, <3>1, SoundLow
    <3>3. NotTorn(w, F) => NotTorn(v, << >>)
      <4> SUFFICES ASSUME NotTorn(v, L), NEW p \in Packet, Count(v, p) \in 1..(Size - 1) PROVE FALSE
        BY <2>11 DEF NotTorn
      <4>1. 1 \in DOMAIN L /\ L[1].left < Size
        BY DEF NotTorn
      <4> QED BY <3>1, <4>1, SocketAssumption
    <3>4. Held(v, << >>, L) = Held(v, L, << >>)
      BY DEF Held, PacketsOf
    <3> QED BY <1>1, <1>5, <2>1, <2>12, <2>15, <3>2, <3>3, <3>4 DEF v, F, G
  <2> QED BY <2>14, <2>15
<1> QED BY <1>7, <1>8
-----------------------------------------------------------------------------
(* What a step may do to slots, ids, locks and counts                        *)

(* The parts of the state have their types. *)
LEMMA Basics ==
    ASSUME Types0
    PROVE  /\ Id \subseteq Nat \ {0} /\ 0 \notin Id /\ alloc_id \in Nat
           /\ \A id \in Id : Hash(id) \in Slot /\ Of(id) = sock[Hash(id)] /\ Of(id) \in Record
           /\ \A i \in Slot : sock[i] \in Record
           /\ \A v \in Service : Calling(v) => call[v].id \in Id /\ call[v].p \in Packet
           /\ \A v \in Service : call[v].pc \in {"out", "trylock", "check", "write", "inc", "ask"}
           /\ \A k \in DOMAIN pipe : pipe[k] \in Requests /\ pipe[k].id \in Id
           /\ \A k \in DOMAIN pipe : DataAt(k) => pipe[k].p \in Packet
           /\ pipe # << >> => 1 \in DOMAIN pipe /\ pipe[1] = Req
<1>1. Id \subseteq Nat \ {0} /\ 0 \notin Id
  BY SocketAssumption DEF Id
<1>2. alloc_id \in Nat
  BY SocketAssumption DEF Types0
<1>3. ASSUME NEW id \in Id PROVE Hash(id) \in Slot
  <2>1. id \in Nat
    BY <1>1
  <2>2. id % MaxSocket \in 0..(MaxSocket - 1)
    BY <2>1, SocketAssumption
  <2> QED BY <2>2 DEF Hash, Slot
<1>4. \A i \in Slot : sock[i] \in Record
  BY DEF Types0
<1>5. ASSUME NEW v \in Service
      PROVE  /\ Calling(v) => call[v].id \in Id /\ call[v].p \in Packet
             /\ call[v].pc \in {"out", "trylock", "check", "write", "inc", "ask"}
  <2>1. call[v] = Out \/ call[v] \in [pc : {"trylock", "check", "write", "inc", "ask"}, id : Id, p : Packet]
    BY DEF Types0, CallRecord
  <2> QED BY <2>1 DEF Calling, Out
<1>6. ASSUME NEW k \in DOMAIN pipe
      PROVE  /\ pipe[k] \in Requests /\ pipe[k].id \in Id
             /\ DataAt(k) => pipe[k].p \in Packet
  <2>1. pipe[k] \in Requests
    BY DEF Types0
  <2> QED BY <2>1 DEF Requests, DataAt, SendOps
<1>7. pipe # << >> => 1 \in DOMAIN pipe /\ pipe[1] = Req
  <2>1. pipe \in Seq(Requests)
    BY DEF Types0
  <2> QED BY <2>1 DEF Req
<1> QED BY <1>1, <1>2, <1>3, <1>4, <1>5, <1>6, <1>7 DEF Of

(* Only slot i changes. *)
Moved(i) == sock' \in [Slot -> Record] /\ \A j \in Slot : j # i => sock'[j] = sock[j]

(* An assignment to a slot leaves the others alone. *)
LEMMA SetFacts ==
    ASSUME Types0, NEW i \in Slot, NEW s \in Record, Set(i, s)
    PROVE  Moved(i) /\ sock'[i] = s
BY DEF Types0, Set, Moved

(* No slot changes. *)
LEMMA SameFacts ==
    ASSUME Types0, UNCHANGED sock
    PROVE  \A i \in Slot : Moved(i) /\ sock'[i] = sock[i]
BY DEF Types0, Moved

(* A step on slot i that keeps its id, and ids stay allocated. *)
LEMMA SlotsStep ==
    ASSUME Types0, Slots, NEW i \in Slot, Moved(i), SlotSound(sock'[i]), sock'[i].id = sock[i].id,
           alloc_id' = alloc_id, Unborn(sock'[i]) => Unborn(sock[i]),
           \A id \in Id : known'[id] = "conn" =>
               known[id] = "conn" \/ (id = sock[i].id /\ ~Unborn(sock'[i])),
           io' # None => io' \in {io, i} /\ (io' = i => sock'[i].type \notin {"INVALID", "RESERVE"})
    PROVE  Slots'
<1>1. \A j \in Slot : sock'[j].id = sock[j].id /\ SlotSound(sock'[j])
                      /\ (j # i => sock'[j] = sock[j])
  BY DEF Moved, Slots
<1>2. \A j \in Slot : sock'[j].id # 0 => Hash(sock'[j].id) = j /\ sock'[j].id <= alloc_id'
  BY <1>1 DEF Slots
<1>3. \A j \in Slot : SlotSound(sock'[j]) <=> SlotSound(sock[j])'
  BY DEF SlotSound, NoData, BufferEmpty, Open
<1>4. ASSUME NEW j \in Slot, Unborn(sock'[j]) PROVE known'[sock'[j].id] # "conn"
  <2>1. Unborn(sock[j]) /\ sock[j].type # "INVALID"
    BY <1>1, <1>4 DEF Unborn
  <2>2. known[sock[j].id] # "conn" /\ sock[j].id # 0 /\ sock[j].id \in Id \cup {0}
    BY <2>1, RecordFields DEF Slots, SlotSound, Types0
  <2>3. j # i => sock[j].id # sock[i].id
    BY <2>2 DEF Slots
  <2> QED BY <1>1, <1>4, <2>2, <2>3
<1>5. io' # None => sock'[io'].type \notin {"INVALID", "RESERVE"}
  <2> SUFFICES ASSUME io' # None PROVE sock'[io'].type \notin {"INVALID", "RESERVE"}
    OBVIOUS
  <2>1. io' = i \/ (io' # i /\ io' = io)
    OBVIOUS
  <2>2. CASE io' = i
    BY <2>2
  <2>3. CASE io' # i /\ io' = io
    <3>1. io \in Slot /\ sock[io].type \notin {"INVALID", "RESERVE"}
      BY <2>3 DEF Types0, Slots
    <3> QED BY <1>1, <2>3, <3>1
  <2> QED BY <2>1, <2>2, <2>3
<1> HIDE DEF SlotSound
<1>6. \A x : Hash(x)' = Hash(x)
  BY DEF Hash
<1> QED BY <1>1, <1>2, <1>3, <1>4, <1>5, <1>6 DEF Slots

(* A request that a service may write: about an id that it was told of. *)
Fresh(r) == /\ r \in Requests /\ r.op \notin {"O", "L"} /\ known[r.id] # None
            /\ r.op \in SendOps => known[r.id] = "conn"

(* The pipe after a step: e requests were taken from its head, and a new one  *)
(* may have come at its end.                                                  *)
PipeMap(e) ==
    /\ e \in {0, 1} /\ pipe' \in Seq(Requests)
    /\ \A k \in DOMAIN pipe' :
         \/ k + e \in DOMAIN pipe /\ pipe'[k] = pipe[k + e]
         \/ Fresh(pipe'[k]) /\ \A l \in DOMAIN pipe' : l <= k
    /\ \A k \in DOMAIN pipe : k > e => k - e \in DOMAIN pipe' /\ pipe'[k - e] = pipe[k]

(* The pipe is left alone. *)
LEMMA PipeSame ==
    ASSUME Types0, UNCHANGED pipe
    PROVE  PipeMap(0)
<1>1. pipe \in Seq(Requests)
  BY DEF Types0
<1>2. \A k \in DOMAIN pipe : k + 0 = k /\ k - 0 = k
  BY <1>1
<1> QED BY <1>1, <1>2 DEF PipeMap

(* A request is taken from the pipe. *)
LEMMA PipeTail ==
    ASSUME Types0, pipe # << >>, NextRequest
    PROVE  /\ PipeMap(1) /\ DOMAIN pipe' \subseteq Nat /\ DOMAIN pipe \subseteq Nat
           /\ \A k \in Int : k \in DOMAIN pipe' <=> k + 1 \in DOMAIN pipe /\ k # 0
           /\ \A k \in DOMAIN pipe' : pipe'[k] = pipe[k + 1]
<1> DEFINE n == Len(pipe)
<1>1. pipe \in Seq(Requests) /\ pipe' = Tail(pipe)
  BY DEF Types0, NextRequest
<1>2. /\ n \in Nat /\ n # 0 /\ DOMAIN pipe = 1..n
      /\ pipe' \in Seq(Requests) /\ DOMAIN pipe' = 1..(n - 1)
      /\ \A k \in 1..(n - 1) : pipe'[k] = pipe[k + 1]
  BY <1>1
<1> HIDE DEF n
<1>3. /\ \A k \in 1..(n - 1) : k + 1 \in 1..n
      /\ \A k \in 1..n : k > 1 => k - 1 \in 1..(n - 1) /\ (k - 1) + 1 = k
      /\ \A k \in Int : k \in 1..(n - 1) <=> k + 1 \in 1..n /\ k # 0
  BY <1>2
<1>4. PipeMap(1)
  BY <1>2, <1>3 DEF PipeMap
<1> QED BY <1>2, <1>3, <1>4

(* A request is written into the pipe. *)
LEMMA PipeAppend ==
    ASSUME Types0, NEW r, Fresh(r), Ask(r)
    PROVE  /\ PipeMap(0) /\ Len(pipe) \in Nat /\ DOMAIN pipe = 1..Len(pipe)
           /\ DOMAIN pipe' = 1..(Len(pipe) + 1) /\ pipe'[Len(pipe) + 1] = r
           /\ \A k \in DOMAIN pipe : pipe'[k] = pipe[k]
<1> DEFINE n == Len(pipe)
<1>1. pipe \in Seq(Requests) /\ pipe' = Append(pipe, r) /\ r \in Requests
  BY DEF Types0, Ask, Fresh
<1>2. /\ n \in Nat /\ DOMAIN pipe = 1..n
      /\ pipe' \in Seq(Requests) /\ DOMAIN pipe' = 1..(n + 1)
      /\ \A k \in 1..n : pipe'[k] = pipe[k]
      /\ pipe'[n + 1] = r
  BY <1>1
<1>3. /\ \A k \in 1..(n + 1) : k \in 1..n \/ (k = n + 1 /\ \A l \in 1..(n + 1) : l <= k)
      /\ \A k \in 1..n : k + 0 = k /\ k - 0 = k /\ k \in 1..(n + 1)
  BY <1>2
<1> HIDE DEF n
<1>4. PipeMap(0)
  BY <1>2, <1>3 DEF PipeMap
<1> QED BY <1>2, <1>4 DEF n

(* Ids, streams and reservations of the slots stay. *)
SameIds ==
    \A j \in Slot : /\ sock'[j].id = sock[j].id /\ sock'[j].tcp = sock[j].tcp
                    /\ sock'[j].type = "RESERVE" <=> sock[j].type = "RESERVE"
(* Services are told of a connection at most. *)
MoreKnown ==
    /\ known' \in [Id -> {"listen", "conn", None}]
    /\ \A id \in Id : \/ known'[id] = known[id]
                      \/ /\ known'[id] = "conn" /\ id <= alloc_id
                         /\ Of(id).id = id => Of(id).tcp
(* A call goes on, or begins on a connection whose slot is still its own. *)
CallsAllowed ==
    \A v \in Service : call'[v].pc # "out" =>
        \/ Calling(v) /\ call'[v].id = call[v].id
        \/ call'[v].id \in Id /\ known[call'[v].id] = "conn" /\ Of(call'[v].id).id = call'[v].id

(* What is known of the ids stays true when slots keep their ids, services    *)
(* only learn more, and the pipe moves on.                                    *)
LEMMA IdsStep ==
    ASSUME Types0, Ids, SameIds, MoreKnown, CallsAllowed, alloc_id' = alloc_id,
           NEW e, PipeMap(e), e = 1 => ~OpenAt(1)
    PROVE  Ids'
<1>0. /\ \A id \in Id : Hash(id) \in Slot /\ Of(id) = sock[Hash(id)]
      /\ \A k \in DOMAIN pipe : pipe[k].id \in Id
      /\ \A v \in Service : Calling(v) => call[v].id \in Id
  BY Basics
<1>1. ASSUME NEW id \in Id
      PROVE  /\ sock'[Hash(id)].id = Of(id).id /\ (sock'[Hash(id)].tcp = Of(id).tcp)
             /\ sock'[Hash(id)].type = "RESERVE" <=> Of(id).type = "RESERVE"
  <2>1. Hash(id) \in Slot /\ Of(id) = sock[Hash(id)]
    BY <1>0
  <2> QED BY <2>1 DEF SameIds
<1>2. \A id \in Id : known[id] # None => known'[id] # None
  BY SocketAssumption DEF MoreKnown
<1>3. \A id \in Id : known[id] = "conn" => known'[id] = "conn"
  BY DEF MoreKnown
<1>4. \A id \in Id : known'[id] # None => id <= alloc_id'
  BY DEF MoreKnown, Ids
<1>5. \A id \in Id : known'[id] = "conn" /\ sock'[Hash(id)].id = id => sock'[Hash(id)].tcp
  BY <1>1 DEF MoreKnown, Ids
<1>6. ASSUME NEW v \in Service, call'[v].pc # "out"
      PROVE  known'[call'[v].id] = "conn" /\ sock'[Hash(call'[v].id)].id = call'[v].id
  <2>1. call'[v].id \in Id /\ known[call'[v].id] = "conn" /\ Of(call'[v].id).id = call'[v].id
    <3>1. CASE Calling(v) /\ call'[v].id = call[v].id
      BY <1>0, <3>1 DEF Ids
    <3>2. CASE ~(Calling(v) /\ call'[v].id = call[v].id)
      BY <1>6, <3>2 DEF CallsAllowed
    <3> QED BY <3>1, <3>2
  <2>2. ASSUME NEW id \in Id, known[id] = "conn", Of(id).id = id
        PROVE  known'[id] = "conn" /\ sock'[Hash(id)].id = id
    BY <1>1, <1>3, <2>2
  <2> QED BY <2>1, <2>2
<1>7. ASSUME NEW k \in DOMAIN pipe'
      PROVE  /\ pipe'[k].id \in Id /\ pipe'[k].id <= alloc_id'
             /\ pipe'[k].op \in SendOps => known'[pipe'[k].id] = "conn"
             /\ pipe'[k].op \notin {"O", "L"} => known'[pipe'[k].id] # None
             /\ pipe'[k].op \in {"O", "L"} =>
                  sock'[Hash(pipe'[k].id)].id = pipe'[k].id /\ sock'[Hash(pipe'[k].id)].type = "RESERVE"
  <2>1. CASE k + e \in DOMAIN pipe /\ pipe'[k] = pipe[k + e]
    <3> DEFINE r == pipe[k + e]
    <3>1. /\ r.id \in Id /\ r.id <= alloc_id /\ (r.op \in SendOps => known[r.id] = "conn")
          /\ r.op \notin {"O", "L"} => known[r.id] # None
          /\ r.op \in {"O", "L"} => Of(r.id).id = r.id /\ Of(r.id).type = "RESERVE"
      BY <1>0, <2>1 DEF Ids, DataAt, OpenAt
    <3> HIDE DEF r
    <3>2. /\ r.op \in SendOps => known'[r.id] = "conn"
          /\ r.op \notin {"O", "L"} => known'[r.id] # None
          /\ r.op \in {"O", "L"} => sock'[Hash(r.id)].id = r.id /\ sock'[Hash(r.id)].type = "RESERVE"
      BY <1>1, <1>2, <1>3, <3>1
    <3> QED BY <2>1, <3>1, <3>2 DEF r
  <2>2. CASE Fresh(pipe'[k])
    <3>1. pipe'[k].id \in Id
      BY <2>2 DEF Fresh, Requests
    <3>2. known[pipe'[k].id] # None /\ pipe'[k].op \notin {"O", "L"}
          /\ (pipe'[k].op \in SendOps => known[pipe'[k].id] = "conn")
      BY <2>2 DEF Fresh
    <3> QED BY <1>2, <1>3, <1>4, <3>1, <3>2
  <2> QED BY <2>1, <2>2 DEF PipeMap
<1>8. ASSUME NEW k \in DOMAIN pipe', NEW l \in DOMAIN pipe', k < l, pipe'[l].op \in {"O", "L"}
      PROVE  pipe'[k].id # pipe'[l].id
  <2>0. k \in Nat /\ l \in Nat /\ e \in Nat
    <3>1. pipe' \in Seq(Requests) /\ e \in {0, 1}
      BY DEF PipeMap
    <3>2. DOMAIN pipe' \subseteq Nat
      BY <3>1
    <3> QED BY <3>1, <3>2
  <2>1. l + e \in DOMAIN pipe /\ pipe'[l] = pipe[l + e]
    BY <1>8 DEF PipeMap, Fresh
  <2>2. k + e \in DOMAIN pipe /\ pipe'[k] = pipe[k + e]
    <3>1. ~(l <= k)
      BY <1>8, <2>0
    <3> QED BY <3>1 DEF PipeMap
  <2>3. k + e < l + e
    BY <1>8, <2>0
  <2> QED BY <1>8, <2>1, <2>2, <2>3 DEF Ids, OpenAt
<1>9. ASSUME NEW id \in Id, known'[id] = "listen", sock'[Hash(id)].id = id, sock'[Hash(id)].type = "RESERVE"
      PROVE  \E k \in DOMAIN pipe' : pipe'[k].op \in {"O", "L"} /\ pipe'[k].id = id
  <2>1. known[id] = "listen" /\ Of(id).id = id /\ Of(id).type = "RESERVE"
    BY <1>1, <1>9 DEF MoreKnown
  <2>2. PICK k \in DOMAIN pipe : OpenAt(k) /\ pipe[k].id = id
    BY <2>1 DEF Ids
  <2>3. k \in Nat \ {0}
    <3>1. pipe \in Seq(Requests)
      BY DEF Types0
    <3> QED BY <3>1
  <2>4. k > e
    BY <2>2, <2>3 DEF PipeMap
  <2>5. k - e \in DOMAIN pipe' /\ pipe'[k - e] = pipe[k]
    BY <2>4 DEF PipeMap
  <2> QED BY <2>2, <2>5 DEF OpenAt
<1> QED BY <1>4, <1>5, <1>6, <1>7, <1>8, <1>9 DEF Ids, DataAt, OpenAt, Calling, Of

(* A step of the socket thread that keeps the locks, and of a locked slot     *)
(* that it is open and has no rest of a direct write.                         *)
LEMMA LocksStep ==
    ASSUME Types0, Locks, NEW i \in Slot, Moved(i), UNCHANGED call, sock'[i].lock = sock[i].lock,
           sock[i].lock # None /\ Open(sock[i]) /\ sock[i].dw = None => Open(sock'[i]) /\ sock'[i].dw = None
    PROVE  Locks'
<1>0. /\ \A id \in Id : Hash(id) \in Slot /\ Of(id) = sock[Hash(id)]
      /\ \A v \in Service : Calling(v) => call[v].id \in Id
  BY Basics
<1>1. \A j \in Slot : sock'[j].lock = sock[j].lock
  BY DEF Moved
<1>2. ASSUME NEW v \in Service, call[v].pc \in {"check", "write"}
      PROVE  call[v].id \in Id /\ Hash(call[v].id) \in Slot /\ sock[Hash(call[v].id)].lock = v
             /\ sock'[Hash(call[v].id)].lock = v
  <2>1. call[v].id \in Id
    BY <1>0, <1>2 DEF Calling
  <2> QED BY <1>0, <1>1, <1>2, <2>1 DEF Locks
<1>3. ASSUME NEW v \in Service, call[v].pc = "write"
      PROVE  Open(sock'[Hash(call[v].id)]) /\ sock'[Hash(call[v].id)].dw = None
  <2>1. Hash(call[v].id) \in Slot /\ sock[Hash(call[v].id)].lock = v /\ v # None
    BY <1>2, <1>3, SocketAssumption
  <2>2. Open(sock[Hash(call[v].id)]) /\ sock[Hash(call[v].id)].dw = None
    BY <1>0, <1>2, <1>3 DEF Locks
  <2>3. CASE Hash(call[v].id) = i
    BY <2>1, <2>2, <2>3
  <2>4. CASE Hash(call[v].id) # i
    BY <2>1, <2>2, <2>4 DEF Moved
  <2> QED BY <2>3, <2>4
<1>4. \A j \in Slot : sock'[j].lock # None =>
         call[sock'[j].lock].pc \in {"check", "write"} /\ Hash(call[sock'[j].lock].id) = j
  BY <1>1 DEF Locks
<1>5. call' = call
  OBVIOUS
<1> QED BY <1>2, <1>3, <1>4, <1>5 DEF Locks, Of, Open

QueuedIn(q, id) == {k \in DOMAIN q : q[k].op \in SendOps /\ q[k].id = id}
AskingIn(c, id) == {v \in Service : c[v].pc = "ask" /\ c[v].id = id}

(* The requests and the calls that are counted are finitely many. *)
LEMMA CountForms ==
    ASSUME Types0
    PROVE  /\ \A id : Queued(id) = QueuedIn(pipe, id) /\ IsFiniteSet(QueuedIn(pipe, id))
                      /\ QueuedIn(pipe, id) \subseteq Nat /\ Cardinality(QueuedIn(pipe, id)) \in Nat
           /\ \A id : Asking(id) = AskingIn(call, id) /\ IsFiniteSet(AskingIn(call, id))
                      /\ Cardinality(AskingIn(call, id)) \in Nat
<1>1. pipe \in Seq(Requests)
  BY DEF Types0
<1>2. DOMAIN pipe = 1..Len(pipe) /\ Len(pipe) \in Nat
  BY <1>1
<1>3. IsFiniteSet(DOMAIN pipe) /\ DOMAIN pipe \subseteq Nat
  BY <1>2, FS_Interval
<1>4. ASSUME NEW id PROVE /\ IsFiniteSet(QueuedIn(pipe, id)) /\ QueuedIn(pipe, id) \subseteq Nat
                          /\ Cardinality(QueuedIn(pipe, id)) \in Nat
  <2>1. QueuedIn(pipe, id) \subseteq DOMAIN pipe
    BY DEF QueuedIn
  <2>2. IsFiniteSet(QueuedIn(pipe, id))
    BY <1>3, <2>1, FS_Subset
  <2> QED BY <1>3, <2>1, <2>2, FS_CardinalityType
<1>5. ASSUME NEW id PROVE /\ IsFiniteSet(AskingIn(call, id)) /\ Cardinality(AskingIn(call, id)) \in Nat
  <2>1. AskingIn(call, id) \subseteq Service
    BY DEF AskingIn
  <2>2. IsFiniteSet(AskingIn(call, id))
    BY <2>1, FS_Subset, SocketAssumption
  <2> QED BY <2>2, FS_CardinalityType
<1> QED BY <1>4, <1>5 DEF Queued, Asking, QueuedIn, AskingIn, DataAt

(* Counts, over the pipe and the calls as arguments. *)
LEMMA CountsForm ==
    ASSUME Types0
    PROVE  Counts <=> \A i \in Slot : sock[i].sending =
                        IF sock[i].tcp THEN Cardinality(QueuedIn(pipe, sock[i].id))
                                              + Cardinality(AskingIn(call, sock[i].id))
                                       ELSE 0
BY CountForms DEF Counts

(* As many requests are queued, and as many calls are about to queue one. *)
SameCount(id) ==
    /\ Cardinality(QueuedIn(pipe', id)) = Cardinality(QueuedIn(pipe, id))
    /\ Cardinality(AskingIn(call', id)) = Cardinality(AskingIn(call, id))

(* The counters stay right when nothing that is counted changes. *)
LEMMA CountsStep ==
    ASSUME Types0, Types0', Counts,
           \A j \in Slot : /\ sock'[j].id = sock[j].id /\ sock'[j].tcp = sock[j].tcp
                           /\ sock'[j].sending = sock[j].sending,
           \A id \in Id \cup {0} : SameCount(id)
    PROVE  Counts'
<1>1. \A i \in Slot : sock[i].sending =
                        IF sock[i].tcp THEN Cardinality(QueuedIn(pipe, sock[i].id))
                                              + Cardinality(AskingIn(call, sock[i].id))
                                       ELSE 0
  BY CountsForm
<1>2. ASSUME NEW i \in Slot
      PROVE  sock'[i].sending = IF sock'[i].tcp THEN Cardinality(QueuedIn(pipe', sock'[i].id))
                                                       + Cardinality(AskingIn(call', sock'[i].id))
                                ELSE 0
  <2>1. sock[i].id \in Id \cup {0}
    BY RecordFields DEF Types0
  <2>2. SameCount(sock[i].id)
    BY <2>1
  <2> QED BY <1>1, <2>2 DEF SameCount
<1>3. \A id : Queued(id)' = QueuedIn(pipe', id) /\ Asking(id)' = AskingIn(call', id)
  BY DEF Queued, Asking, QueuedIn, AskingIn, DataAt
<1> QED BY <1>2, <1>3 DEF Counts

(* Neither the pipe nor a call changes. *)
LEMMA QueuedSame ==
    ASSUME Types0, UNCHANGED <<pipe, call>>
    PROVE  \A id : SameCount(id)
BY DEF SameCount

(* No call begins or ends to ask. *)
LEMMA AskingSame ==
    ASSUME Types0, \A v \in Service : call'[v].pc = "ask" <=> call[v].pc = "ask",
           \A v \in Service : call[v].pc = "ask" => call'[v].id = call[v].id
    PROVE  \A id : AskingIn(call', id) = AskingIn(call, id)
BY DEF AskingIn

(* A request goes from the head of the pipe. *)
LEMMA QueuedTail ==
    ASSUME Types0, pipe # << >>, NextRequest, NEW id
    PROVE  Cardinality(QueuedIn(pipe', id)) =
             Cardinality(QueuedIn(pipe, id)) - (IF DataAt(1) /\ pipe[1].id = id THEN 1 ELSE 0)
<1> DEFINE S == QueuedIn(pipe, id) \ {1}
           T == QueuedIn(pipe', id)
<1>1. /\ \A k \in Int : k \in DOMAIN pipe' <=> k + 1 \in DOMAIN pipe /\ k # 0
      /\ \A k \in DOMAIN pipe' : pipe'[k] = pipe[k + 1]
      /\ DOMAIN pipe' \subseteq Nat /\ DOMAIN pipe \subseteq Nat
  BY PipeTail
<1>2. IsFiniteSet(QueuedIn(pipe, id)) /\ Cardinality(QueuedIn(pipe, id)) \in Nat
  BY CountForms
<1>3. /\ IsFiniteSet(S)
      /\ Cardinality(S) = Cardinality(QueuedIn(pipe, id)) - (IF 1 \in QueuedIn(pipe, id) THEN 1 ELSE 0)
  <2>1. CASE 1 \in QueuedIn(pipe, id)
    BY <1>2, <2>1, FS_RemoveElement
  <2>2. CASE 1 \notin QueuedIn(pipe, id)
    <3>1. S = QueuedIn(pipe, id)
      BY <2>2
    <3>2. (IF 1 \in QueuedIn(pipe, id) THEN 1 ELSE 0) = 0
      BY <2>2
    <3> HIDE DEF S
    <3> QED BY <1>2, <3>1, <3>2
  <2> QED BY <2>1, <2>2
<1>4. 1 \in QueuedIn(pipe, id) <=> DataAt(1) /\ pipe[1].id = id
  <2>1. 1 \in DOMAIN pipe
    BY Basics
  <2> QED BY <2>1 DEF QueuedIn, DataAt
<1>5. Cardinality(T) = Cardinality(S)
  <2>1. S \subseteq Int /\ T \subseteq Int
    BY <1>1 DEF QueuedIn
  <2>2. ASSUME NEW x \in Int PROVE x \in T <=> x + 1 \in S
    <3>1. x + 1 # 1 <=> x # 0
      OBVIOUS
    <3>2. x \in T <=> x \in DOMAIN pipe' /\ pipe'[x].op \in SendOps /\ pipe'[x].id = id
      BY DEF QueuedIn
    <3>3. x + 1 \in S <=> x + 1 \in DOMAIN pipe /\ pipe[x + 1].op \in SendOps /\ pipe[x + 1].id = id /\ x # 0
      BY <3>1 DEF QueuedIn
    <3> QED BY <1>1, <3>2, <3>3
  <2> HIDE DEF S, T
  <2> QED BY <1>3, <2>1, <2>2, ShiftCardinality
<1> QED BY <1>3, <1>4, <1>5

(* A request comes at the end of the pipe. *)
LEMMA QueuedAppend ==
    ASSUME Types0, NEW r, Fresh(r), Ask(r), NEW id
    PROVE  Cardinality(QueuedIn(pipe', id)) =
             Cardinality(QueuedIn(pipe, id)) + (IF r.op \in SendOps /\ r.id = id THEN 1 ELSE 0)
<1> DEFINE n == Len(pipe)
           Q == QueuedIn(pipe, id)
<1>1. /\ n \in Nat /\ DOMAIN pipe = 1..n /\ DOMAIN pipe' = 1..(n + 1) /\ pipe'[n + 1] = r
      /\ \A k \in 1..n : pipe'[k] = pipe[k]
  BY PipeAppend
<1>2. IsFiniteSet(Q) /\ Cardinality(Q) \in Nat
  BY CountForms
<1> HIDE DEF n
<1>3. \A k \in 1..(n + 1) : k \in 1..n \/ k = n + 1
  BY <1>1
<1>4. \A k \in 1..n : k \in 1..(n + 1) /\ k # n + 1
  BY <1>1
<1>5. n + 1 \in 1..(n + 1) /\ n + 1 \notin Q
  BY <1>1, <1>4 DEF QueuedIn
<1>6. CASE r.op \in SendOps /\ r.id = id
  <2>1. QueuedIn(pipe', id) = Q \cup {n + 1}
    BY <1>1, <1>3, <1>4, <1>5, <1>6 DEF QueuedIn
  <2> HIDE DEF Q
  <2>2. Cardinality(Q \cup {n + 1}) = Cardinality(Q) + 1
    BY <1>2, <1>5, FS_AddElement
  <2> QED BY <1>6, <2>1, <2>2 DEF Q
<1>7. CASE ~(r.op \in SendOps /\ r.id = id)
  <2>1. QueuedIn(pipe', id) = Q
    BY <1>1, <1>3, <1>4, <1>5, <1>7 DEF QueuedIn
  <2> QED BY <1>2, <1>7, <2>1
<1> QED BY <1>6, <1>7
-----------------------------------------------------------------------------
(* The steps of the socket thread on a slot that is in use                   *)

(* Slot i stays with its id and its lock. *)
Kept(i) ==
    /\ Moved(i) /\ SlotSound(sock'[i]) /\ sock'[i].id = sock[i].id /\ sock'[i].tcp = sock[i].tcp
    /\ sock'[i].type = "RESERVE" <=> sock[i].type = "RESERVE"
    /\ Unborn(sock'[i]) => Unborn(sock[i])
    /\ sock'[i].lock = sock[i].lock
    /\ sock[i].lock # None /\ Open(sock[i]) /\ sock[i].dw = None => Open(sock'[i]) /\ sock'[i].dw = None

(* force_close is due on slot i at most, and what services hear is that it is *)
(* connected.                                                                 *)
Told(i) ==
    /\ MoreKnown /\ alloc_id' = alloc_id
    /\ \A id \in Id : known'[id] = "conn" =>
         known[id] = "conn" \/ (id = sock[i].id /\ ~Unborn(sock'[i]))
    /\ io' # None => io' \in {io, i} /\ (io' = i => sock'[i].type \notin {"INVALID", "RESERVE"})

(* A step of the socket thread that changes slot i in one of the allowed      *)
(* ways.                                                                      *)
LEMMA ThreadKeeps ==
    ASSUME Types0, Slots, Ids, Locks, NEW i \in Slot, Kept(i), Told(i), UNCHANGED call,
           NEW e, PipeMap(e), e = 1 => ~OpenAt(1)
    PROVE  Slots' /\ Ids' /\ Locks'
<1>1. Slots'
  BY SlotsStep DEF Kept, Told
<1>2. SameIds
  BY DEF Kept, Moved, SameIds
<1>3. CallsAllowed
  BY DEF CallsAllowed, Calling
<1>4. Ids'
  BY <1>2, <1>3, IdsStep DEF Told
<1>5. Locks'
  BY LocksStep DEF Kept
<1> QED BY <1>1, <1>4, <1>5

(* With the known ids as they are. *)
LEMMA ToldNothing ==
    ASSUME Types0, NEW i \in Slot, UNCHANGED <<known, alloc_id>>,
           io' # None => io' \in {io, i} /\ (io' = i => sock'[i].type \notin {"INVALID", "RESERVE"})
    PROVE  Told(i)
BY DEF Told, MoreKnown, Types0

(* An untouched slot is kept. *)
LEMMA KeptSame ==
    ASSUME Types0, Slots, NEW i \in Slot, UNCHANGED sock
    PROVE  Kept(i) /\ sock'[i] = sock[i] /\ sock' \in [Slot -> Record]
BY SameFacts DEF Kept, Slots, Types0

(* A request that is not the one to open the slot finds it opened. *)
LEMMA HeadNotReserved ==
    ASSUME Types0, Slots, Ids, pipe # << >>, ~OpenAt(1), Of(Req.id).id = Req.id
    PROVE  Of(Req.id).type # "RESERVE"
<1>1. /\ 1 \in DOMAIN pipe /\ pipe[1] = Req /\ Req.id \in Id /\ Hash(Req.id) \in Slot
      /\ Of(Req.id) = sock[Hash(Req.id)]
  BY Basics
<1> SUFFICES ASSUME Of(Req.id).type = "RESERVE" PROVE FALSE
  OBVIOUS
<1>2. known[Req.id] \notin {None, "conn"}
  BY <1>1 DEF Ids, Slots, Unborn
<1>3. known[Req.id] = "listen"
  BY <1>1, <1>2 DEF Types0
<1>4. PICK k \in DOMAIN pipe : OpenAt(k) /\ pipe[k].id = Req.id
  BY <1>1, <1>3 DEF Ids
<1>5. 1 < k
  <2>1. pipe \in Seq(Requests)
    BY DEF Types0
  <2>2. k \in Nat /\ k # 0
    BY <2>1
  <2> QED BY <1>4, <2>2
<1> QED BY <1>1, <1>4, <1>5 DEF Ids

(* A request of another kind than D and P leaves the counts. *)
LEMMA TailCounts ==
    ASSUME Types0, Types0', Counts, pipe # << >>, NextRequest, ~DataAt(1), UNCHANGED call,
           \A j \in Slot : /\ sock'[j].id = sock[j].id /\ sock'[j].tcp = sock[j].tcp
                           /\ sock'[j].sending = sock[j].sending
    PROVE  Counts'
<1>1. ASSUME NEW id \in Id \cup {0} PROVE SameCount(id)
  <2>1. Cardinality(QueuedIn(pipe', id)) = Cardinality(QueuedIn(pipe, id)) - 0
    BY QueuedTail
  <2>2. Cardinality(QueuedIn(pipe, id)) \in Nat
    BY CountForms
  <2> QED BY <2>1, <2>2 DEF SameCount
<1> QED BY <1>1, CountsStep

(* Slot i is kept, and so is what the counter of its slot counts. *)
Shape(i) ==
    /\ Kept(i) /\ sock'[i].sending = sock[i].sending /\ Told(i) /\ sock' \in [Slot -> Record]
    /\ io' \in {i, None}

(* The socket thread does no more than to plan a force_close. *)
LEMMA ShapeSame ==
    ASSUME Types0, Slots, NEW i \in Slot, UNCHANGED <<sock, known, alloc_id>>, io = None,
           io' = None \/ (io' = i /\ sock[i].type \notin {"INVALID", "RESERVE"})
    PROVE  Shape(i)
<1>1. Kept(i) /\ sock'[i] = sock[i] /\ sock' \in [Slot -> Record]
  BY KeptSame
<1>2. Told(i)
  BY <1>1, ToldNothing
<1> QED BY <1>1, <1>2 DEF Shape

(* The fields that a step of the socket thread on a slot leaves alone. *)
Same(s, t) == t.id = s.id /\ t.tcp = s.tcp /\ t.sending = s.sending /\ t.lock = s.lock

(* The socket thread replaces slot i by s. *)
LEMMA ShapeSet ==
    ASSUME Types0, Slots, NEW i \in Slot, NEW s \in Record, Set(i, s), UNCHANGED <<known, alloc_id>>,
           Same(sock[i], s), SlotSound(s), s.type = "RESERVE" <=> sock[i].type = "RESERVE",
           Unborn(s) => Unborn(sock[i]),
           sock[i].lock # None /\ Open(sock[i]) /\ sock[i].dw = None => Open(s) /\ s.dw = None,
           io' = None \/ (io' = i /\ s.type \notin {"INVALID", "RESERVE"})
    PROVE  Shape(i) /\ sock'[i] = s
<1>1. Moved(i) /\ sock'[i] = s
  BY SetFacts
<1>2. Kept(i)
  BY <1>1 DEF Kept, Same
<1>3. Told(i)
  BY <1>1, ToldNothing
<1> QED BY <1>1, <1>2, <1>3 DEF Shape, Same, Moved

(* force_close leaves a slot that is sound, unused and without data. *)
LEMMA ForceClosedFacts ==
    ASSUME NEW s \in Record, SlotSound(s)
    PROVE  /\ ForceClosed(s) \in Record /\ Same(s, ForceClosed(s)) /\ SlotSound(ForceClosed(s))
           /\ ForceClosed(s).type = "INVALID" /\ NoData(ForceClosed(s))
<1> DEFINE t == ForceClosed(s)
<1>1. /\ t \in Record /\ t.id = s.id /\ t.tcp = s.tcp /\ t.sending = s.sending /\ t.lock = s.lock
      /\ t.type = "INVALID" /\ t.high = << >> /\ t.low = << >> /\ t.dw = None
  <2>1. << >> \in Seq(Buffer) /\ None \in Buffer \cup {None} /\ "INVALID" \in Types
    BY DEF Types
  <2>2. t = [s EXCEPT !.type = "INVALID", !.high = << >>, !.low = << >>, !.dw = None, !.wev = FALSE]
    BY DEF ForceClosed
  <2> HIDE DEF t
  <2> QED BY <2>1, <2>2 DEF Record
<1> HIDE DEF t
<1>2. NoData(t) /\ Same(s, t)
  BY <1>1 DEF NoData, BufferEmpty, Same
<1>3. SlotSound(t)
  BY <1>1, <1>2 DEF SlotSound, Open
<1> QED BY <1>1, <1>2, <1>3 DEF t

(* Steps that keep the slot keep the rest of the invariant. *)
LEMMA ShapeKeeps ==
    ASSUME Types0, Types0', SockInv, NEW i \in Slot, Shape(i), UNCHANGED call,
           \/ UNCHANGED pipe
           \/ pipe # << >> /\ NextRequest /\ ~OpenAt(1) /\ ~DataAt(1)
    PROVE  SockInv'
<1>1. Slots /\ Ids /\ Locks /\ Counts /\ Kept(i) /\ Told(i) /\ sock'[i].sending = sock[i].sending
  BY DEF SockInv, Shape
<1>2. \A j \in Slot : /\ sock'[j].id = sock[j].id /\ sock'[j].tcp = sock[j].tcp
                      /\ sock'[j].sending = sock[j].sending
  BY <1>1 DEF Kept, Moved
<1>3. CASE UNCHANGED pipe
  <2>1. PipeMap(0)
    BY <1>3, PipeSame
  <2>2. Slots' /\ Ids' /\ Locks'
    BY <1>1, <2>1, ThreadKeeps
  <2>3. Counts'
    BY <1>1, <1>2, <1>3, QueuedSame, CountsStep
  <2> QED BY <2>2, <2>3 DEF SockInv
<1>4. CASE pipe # << >> /\ NextRequest /\ ~OpenAt(1) /\ ~DataAt(1)
  <2>1. PipeMap(1)
    BY <1>4, PipeTail
  <2>2. Slots' /\ Ids' /\ Locks'
    BY <1>1, <1>4, <2>1, ThreadKeeps
  <2>3. Counts'
    BY <1>1, <1>2, <1>4, TailCounts
  <2> QED BY <2>2, <2>3 DEF SockInv
<1> QED BY <1>3, <1>4

(* start_socket *)
LEMMA CtrlStartKeeps ==
    ASSUME Types0, SockInv, CtrlStart
    PROVE  Types0' /\ SockInv' /\ Shape(Hash(Req.id))
<1> DEFINE i == Hash(Req.id)
<1>0. /\ pipe # << >> /\ Req.op = "S" /\ NextRequest /\ io = None
      /\ UNCHANGED <<alloc_id, call, known, wire, sentBy, lowp, work>>
  BY DEF CtrlStart, HasRequest, Free, Req
<1>1. /\ 1 \in DOMAIN pipe /\ pipe[1] = Req /\ Req.id \in Id /\ i \in Slot
      /\ Of(Req.id) = sock[i] /\ sock[i] \in Record
  BY <1>0, Basics
<1>2. Slots /\ Ids /\ Locks /\ Counts /\ SlotSound(sock[i])
  BY <1>1 DEF SockInv, Slots
<1>3. ~OpenAt(1) /\ ~DataAt(1) /\ PipeMap(1)
  BY <1>0, <1>1, PipeTail DEF OpenAt, DataAt, SendOps
<1> DEFINE s == [sock[i] EXCEPT !.type = IF @ = "PACCEPT" THEN "CONNECTED" ELSE "LISTEN"]
<1>5. Shape(i)
  <2>1. CASE sock[i].type \in {"PACCEPT", "PLISTEN"} /\ Set(i, s) /\ UNCHANGED io
    <3>1. /\ s \in Record /\ s.id = sock[i].id /\ s.tcp = sock[i].tcp /\ s.sending = sock[i].sending
          /\ s.lock = sock[i].lock /\ s.high = sock[i].high /\ s.low = sock[i].low /\ s.dw = sock[i].dw
          /\ s.type \in {"CONNECTED", "LISTEN"}
      BY <1>1 DEF Record, Types
    <3> HIDE DEF s
    <3>2. SlotSound(s)
      BY <1>2, <2>1, <3>1 DEF SlotSound, NoData, BufferEmpty, Open
    <3> HIDE DEF i
    <3> QED BY <1>0, <1>1, <1>2, <2>1, <3>1, <3>2, ShapeSet DEF Same, Open, Unborn
  <2>2. CASE UNCHANGED sock /\ (io' = io \/ (io' = i /\ sock[i].type \in {"PACCEPT", "PLISTEN"}))
    <3> HIDE DEF i
    <3> QED BY <1>0, <1>1, <1>2, <2>2, ShapeSame
  <2> QED BY <1>1, <2>1, <2>2 DEF CtrlStart
<1>6. Types0'
  BY <1>0, <1>1, <1>2, <1>3, <1>5 DEF Types0, PipeMap, Shape
<1>7. SockInv'
  BY <1>0, <1>1, <1>2, <1>3, <1>5, <1>6, ShapeKeeps
<1> QED BY <1>5, <1>6, <1>7

(* force_close *)
LEMMA ForceCloseKeeps ==
    ASSUME Types0, SockInv, ForceClose
    PROVE  Types0' /\ SockInv' /\ Shape(io)
<1> DEFINE i == io
<1>0. /\ io # None /\ io \in Slot /\ sock[io].lock = None /\ Set(io, ForceClosed(sock[io])) /\ io' = None
      /\ UNCHANGED <<alloc_id, pipe, call, known, wire, sentBy, lowp, work>>
  BY DEF ForceClose, Types0
<1>1. i \in Slot /\ sock[i] \in Record
  BY <1>0, Basics DEF Types0
<1>2. Slots /\ Ids /\ Locks /\ Counts /\ SlotSound(sock[i])
  BY <1>1 DEF SockInv, Slots
<1>5. Shape(i)
  <2>1. sock[i].type \notin {"INVALID", "RESERVE"}
    BY <1>0, <1>2 DEF Slots
  <2>2. /\ ForceClosed(sock[i]) \in Record /\ Same(sock[i], ForceClosed(sock[i]))
        /\ SlotSound(ForceClosed(sock[i])) /\ ForceClosed(sock[i]).type = "INVALID"
    BY <1>1, <1>2, ForceClosedFacts
  <2> QED BY <1>0, <1>1, <1>2, <2>1, <2>2, ShapeSet DEF Unborn
<1>6. Types0'
  BY <1>0, <1>1, <1>2, <1>5 DEF Types0, Shape
<1>7. SockInv'
  BY <1>0, <1>1, <1>2, <1>5, <1>6, ShapeKeeps
<1> QED BY <1>5, <1>6, <1>7

(* close_socket whose write fails *)
LEMMA CtrlCloseErrorKeeps ==
    ASSUME Types0, SockInv, CtrlCloseError
    PROVE  Types0' /\ SockInv' /\ Shape(Hash(Req.id))
<1> DEFINE i == Hash(Req.id)
<1>0. /\ pipe # << >> /\ Req.op \in {"K", "KS"} /\ NextRequest /\ io = None
      /\ UNCHANGED <<alloc_id, call, io, known, wire, sentBy, lowp, work>>
  BY DEF CtrlCloseError, HasRequest, Free, Req
<1>1. /\ 1 \in DOMAIN pipe /\ pipe[1] = Req /\ Req.id \in Id /\ i \in Slot
      /\ Of(Req.id) = sock[i] /\ sock[i] \in Record
  BY <1>0, Basics
<1>2. Slots /\ Ids /\ Locks /\ Counts /\ SlotSound(sock[i])
  BY <1>1 DEF SockInv, Slots
<1>3. ~OpenAt(1) /\ ~DataAt(1) /\ PipeMap(1)
  BY <1>0, <1>1, PipeTail DEF OpenAt, DataAt, SendOps
<1>4. /\ sock[i].id = Req.id /\ sock[i].type # "INVALID" /\ sock[i].lock = None
      /\ Set(i, ForceClosed(sock[i]))
  BY <1>1 DEF CtrlCloseError
<1>5. Shape(i)
  <2>1. sock[i].type # "RESERVE"
    BY <1>0, <1>1, <1>2, <1>3, <1>4, HeadNotReserved
  <2>2. /\ ForceClosed(sock[i]) \in Record /\ Same(sock[i], ForceClosed(sock[i]))
        /\ SlotSound(ForceClosed(sock[i])) /\ ForceClosed(sock[i]).type = "INVALID"
    BY <1>1, <1>2, ForceClosedFacts
  <2> HIDE DEF i
  <2> QED BY <1>0, <1>1, <1>2, <1>4, <2>1, <2>2, ShapeSet DEF Unborn
<1>6. Types0'
  BY <1>0, <1>1, <1>2, <1>3, <1>5 DEF Types0, PipeMap, Shape
<1>7. SockInv'
  BY <1>0, <1>1, <1>2, <1>3, <1>5, <1>6, ShapeKeeps
<1> QED BY <1>5, <1>6, <1>7

(* forward_message_tcp, at the end of the stream *)
LEMMA EventHangupKeeps ==
    ASSUME Types0, SockInv, NEW i \in Slot, EventHangup(i)
    PROVE  Types0' /\ SockInv' /\ Shape(i)
<1>0. /\ io = None /\ sock[i].type \in {"CONNECTED", "HALFCLOSE"} /\ io' = i
      /\ UNCHANGED <<sock, alloc_id, pipe, call, known, wire, sentBy, lowp, work>>
  BY DEF EventHangup, Free
<1>1. i \in Slot /\ sock[i] \in Record
  BY <1>0, Basics DEF Types0
<1>2. Slots /\ Ids /\ Locks /\ Counts /\ SlotSound(sock[i])
  BY <1>1 DEF SockInv, Slots
<1>5. Shape(i)
  BY <1>0, <1>1, <1>2, ShapeSame
<1>6. Types0'
  BY <1>0, <1>1, <1>2, <1>5 DEF Types0, Shape
<1>7. SockInv'
  BY <1>0, <1>1, <1>2, <1>5, <1>6, ShapeKeeps
<1> QED BY <1>5, <1>6, <1>7

(* send_buffer whose write fails *)
LEMMA EventWriteErrorKeeps ==
    ASSUME Types0, SockInv, NEW i \in Slot, EventWriteError(i)
    PROVE  Types0' /\ SockInv' /\ Shape(i)
<1>0. /\ io = None /\ sock[i].type \in {"CONNECTED", "HALFCLOSE"} /\ sock[i].lock = None /\ Set(i, ForceClosed(sock[i]))
      /\ UNCHANGED <<alloc_id, pipe, call, io, known, wire, sentBy, lowp, work>>
  BY DEF EventWriteError, Free
<1>1. i \in Slot /\ sock[i] \in Record
  BY <1>0, Basics DEF Types0
<1>2. Slots /\ Ids /\ Locks /\ Counts /\ SlotSound(sock[i])
  BY <1>1 DEF SockInv, Slots
<1>5. Shape(i)
  <2>2. /\ ForceClosed(sock[i]) \in Record /\ Same(sock[i], ForceClosed(sock[i]))
        /\ SlotSound(ForceClosed(sock[i])) /\ ForceClosed(sock[i]).type = "INVALID"
    BY <1>1, <1>2, ForceClosedFacts
  <2> QED BY <1>0, <1>1, <1>2, <2>2, ShapeSet DEF Unborn
<1>6. Types0'
  BY <1>0, <1>1, <1>2, <1>5 DEF Types0, Shape
<1>7. SockInv'
  BY <1>0, <1>1, <1>2, <1>5, <1>6, ShapeKeeps
<1> QED BY <1>5, <1>6, <1>7

(* report_connect *)
LEMMA EventConnectKeeps ==
    ASSUME Types0, SockInv, NEW i \in Slot, EventConnect(i)
    PROVE  Types0' /\ SockInv' /\ Shape(i)
<1>0. /\ io = None /\ sock[i].type = "CONNECTING"
      /\ UNCHANGED <<alloc_id, pipe, call, wire, sentBy, lowp, work>>
  BY DEF EventConnect, Free
<1>1. i \in Slot /\ sock[i] \in Record
  BY <1>0, Basics DEF Types0
<1>2. Slots /\ Ids /\ Locks /\ Counts /\ SlotSound(sock[i])
  BY <1>1 DEF SockInv, Slots
<1>3. sock[i].id \in Id /\ Hash(sock[i].id) = i /\ sock[i].id <= alloc_id /\ sock[i].tcp
  <2>1. sock[i].id # 0 /\ sock[i].tcp
    BY <1>0, <1>2 DEF SlotSound
  <2>2. sock[i].id \in Id
    BY <1>1, <2>1, RecordFields
  <2> QED BY <1>1, <1>2, <2>1, <2>2 DEF Slots
<1> DEFINE s == [sock[i] EXCEPT !.type = "CONNECTED", !.wev = IF NoMoreSending(sock[i]) THEN FALSE ELSE @]
<1>4. ASSUME Set(i, s), known' = [known EXCEPT ![sock[i].id] = "conn"], UNCHANGED io PROVE Shape(i)
  <2>1. /\ s \in Record /\ s.id = sock[i].id /\ s.tcp = sock[i].tcp /\ s.sending = sock[i].sending
        /\ s.lock = sock[i].lock /\ s.high = sock[i].high /\ s.low = sock[i].low /\ s.dw = sock[i].dw
        /\ s.type = "CONNECTED"
    BY <1>1 DEF Record, Types
  <2> HIDE DEF s
  <2>2. SlotSound(s)
    BY <1>0, <1>2, <2>1 DEF SlotSound, NoData, BufferEmpty, Open
  <2>3. Moved(i) /\ sock'[i] = s
    BY <1>4, <2>1, SetFacts
  <2>4. Kept(i)
    BY <1>0, <2>1, <2>2, <2>3 DEF Kept, Open, Unborn
  <2>5. /\ known' \in [Id -> {"listen", "conn", None}]
        /\ \A id \in Id : known'[id] = IF id = sock[i].id THEN "conn" ELSE known[id]
    BY <1>3, <1>4 DEF Types0
  <2>6. MoreKnown
    BY <1>3, <2>5 DEF MoreKnown, Of
  <2>7. Told(i)
    BY <1>0, <1>4, <2>1, <2>3, <2>5, <2>6 DEF Told, Unborn
  <2> QED BY <1>0, <1>4, <2>1, <2>3, <2>4, <2>7 DEF Shape, Moved
<1>5. Shape(i)
  <2>1. CASE io' = i /\ UNCHANGED <<sock, known>>
    BY <1>0, <1>1, <1>2, <2>1, ShapeSame
  <2> QED BY <1>4, <2>1 DEF EventConnect
<1>k. known' \in [Id -> {"listen", "conn", None}]
  BY <1>5 DEF Shape, Told, MoreKnown
<1>6. Types0'
  BY <1>0, <1>1, <1>2, <1>5, <1>k DEF Types0, Shape
<1>7. SockInv'
  BY <1>0, <1>1, <1>2, <1>5, <1>6, ShapeKeeps
<1> QED BY <1>5, <1>6, <1>7

(* What a flush leaves is again a sound slot; k is what close_socket or the   *)
(* event makes of it.                                                         *)
LEMMA FlushedSlot ==
    ASSUME Types0, NEW s \in Record, SlotSound(s), s.type \notin {"INVALID", "RESERVE"},
           NEW n, Enough(Merged(s), n), NEW f, Flush(Merged(s), n, f)
    PROVE  /\ f.s \in Record /\ f.out \in Seq(Packet) /\ f.s.type = s.type /\ Same(s, f.s) /\ f.s.dw = None
           /\ SlotSound(f.s)
           /\ ~NoData(f.s) => f.s.wev /\ ~NoData(s)
<1>1. /\ Merged(s) \in Record /\ Merged(s).dw = None
      /\ Merged(s).type = s.type /\ Merged(s).id = s.id /\ Merged(s).tcp = s.tcp
      /\ Merged(s).sending = s.sending /\ Merged(s).wev = s.wev /\ Merged(s).lock = s.lock
      /\ BufferEmpty(Merged(s)) <=> NoData(s)
  BY MergedFacts
<1> DEFINE m == Merged(s)
<1>2. /\ f.s \in Record /\ f.out \in Seq(Packet)
      /\ f.s.type = m.type /\ f.s.id = m.id /\ f.s.tcp = m.tcp /\ f.s.sending = m.sending
      /\ f.s.lock = m.lock /\ f.s.dw = m.dw
      /\ ~BufferEmpty(f.s) => f.s.wev = m.wev /\ ~BufferEmpty(m)
  <2> HIDE DEF m
  <2>1. m \in Record /\ Enough(m, n) /\ Flush(m, n, f)
    BY <1>1 DEF m
  <2> QED BY <2>1, FlushedType
<1>3. Same(s, f.s) /\ f.s.dw = None /\ f.s.type = s.type
  BY <1>1, <1>2 DEF Same
<1>4. ~NoData(f.s) => f.s.wev /\ ~NoData(s)
  <2> SUFFICES ASSUME ~NoData(f.s) PROVE f.s.wev /\ ~NoData(s)
    OBVIOUS
  <2>1. ~BufferEmpty(f.s)
    BY <1>3 DEF NoData
  <2>2. f.s.wev = s.wev /\ ~NoData(s)
    BY <1>1, <1>2, <2>1
  <2>3. s.wev
    BY <2>2 DEF SlotSound
  <2> QED BY <2>2, <2>3
<1>5. SlotSound(f.s)
  <2>1. s.tcp /\ s.id # 0 /\ (~Open(s) => NoData(s))
    BY DEF SlotSound
  <2> QED BY <1>3, <1>4, <2>1 DEF SlotSound, Same, Open
<1> QED BY <1>2, <1>3, <1>4, <1>5

(* send_buffer *)
LEMMA EventWriteKeeps ==
    ASSUME Types0, SockInv, NEW i \in Slot, NEW n, EventWrite(i, n)
    PROVE  Types0' /\ SockInv' /\ Shape(i)
<1> DEFINE s == sock[i]
           f == Flushed(Merged(s), n)
<1>0. /\ io = None /\ s.type \in {"CONNECTED", "HALFCLOSE"} /\ s.lock = None
      /\ n \in 0..(Units(Merged(s).high) + Units(s.low))
      /\ wire' = [wire EXCEPT ![s.id] = @ \o f.out]
      /\ Set(i, IF f.s.type = "HALFCLOSE" /\ BufferEmpty(f.s) THEN ForceClosed(f.s) ELSE f.s)
      /\ UNCHANGED <<alloc_id, pipe, call, io, known, sentBy, lowp, work>>
  BY DEF EventWrite, SendBuffer, Free
<1>1. s \in Record
  BY Basics
<1>2. Slots /\ SlotSound(s)
  BY DEF SockInv, Slots
<1>3. Enough(Merged(s), n) /\ Flush(Merged(s), n, f)
  <2>1. Units(Merged(s).high) \in Nat /\ Units(s.low) \in Nat /\ Merged(s).low = s.low
    BY <1>1, MergedFacts, RecordFields, UnitsType
  <2> QED BY <1>0, <2>1 DEF Enough, Flush
<1> HIDE DEF f
<1>4. /\ f.s \in Record /\ f.out \in Seq(Packet) /\ f.s.type = s.type /\ Same(s, f.s)
      /\ SlotSound(f.s)
  BY <1>0, <1>1, <1>2, <1>3, FlushedSlot
<1> DEFINE t == IF f.s.type = "HALFCLOSE" /\ BufferEmpty(f.s) THEN ForceClosed(f.s) ELSE f.s
<1>5. Shape(i)
  <2>1. t \in Record /\ Same(s, t) /\ SlotSound(t) /\ t.type \in {"CONNECTED", "HALFCLOSE", "INVALID"}
    <3>1. /\ ForceClosed(f.s) \in Record /\ Same(f.s, ForceClosed(f.s)) /\ SlotSound(ForceClosed(f.s))
          /\ ForceClosed(f.s).type = "INVALID"
      BY <1>4, ForceClosedFacts
    <3> QED BY <1>0, <1>4, <3>1 DEF Same
  <2> HIDE DEF t
  <2>2. Set(i, t) /\ io' = None /\ UNCHANGED <<known, alloc_id>>
    BY <1>0 DEF t
  <2> QED BY <1>0, <1>2, <2>1, <2>2, ShapeSet DEF Unborn
<1>6. Types0'
  <2>1. s.id \in Id
    <3>1. s.id # 0
      BY <1>0, <1>2 DEF SlotSound
    <3> QED BY <1>1, <3>1, RecordFields
  <2>2. wire' \in [Id -> Seq(Packet)]
    BY <1>0, <1>4, <2>1 DEF Types0
  <2> QED BY <1>0, <1>5, <2>2 DEF Types0, Shape
<1>7. SockInv'
  BY <1>0, <1>5, <1>6, ShapeKeeps
<1> QED BY <1>5, <1>6, <1>7

(* close_socket *)
LEMMA CtrlCloseKeeps ==
    ASSUME Types0, SockInv, NEW n, CtrlClose(n)
    PROVE  Types0' /\ SockInv' /\ Shape(Hash(Req.id))
<1> DEFINE i == Hash(Req.id)
           s == sock[i]
           flush == ~NoMoreSending(s) /\ s.lock = None
           f == IF flush THEN Flushed(Merged(s), n) ELSE [s |-> s, out |-> << >>]
<1>0. /\ pipe # << >> /\ Req.op \in {"K", "KS"} /\ NextRequest /\ io = None
      /\ UNCHANGED <<alloc_id, call, known, sentBy, lowp, work>>
  BY DEF CtrlClose, HasRequest, Free, Req
<1>1. /\ 1 \in DOMAIN pipe /\ pipe[1] = Req /\ Req.id \in Id /\ i \in Slot
      /\ Of(Req.id) = sock[i] /\ s \in Record
  BY <1>0, Basics
<1>2. Slots /\ Ids /\ SlotSound(s)
  BY <1>1 DEF SockInv, Slots
<1>3. ~OpenAt(1) /\ ~DataAt(1) /\ PipeMap(1)
  BY <1>0, <1>1, PipeTail DEF OpenAt, DataAt, SendOps
<1>4. \/ s.id # Req.id \/ s.type = "INVALID"
      \/ /\ s.id = Req.id /\ s.type # "INVALID"
         /\ n \in 0..(Units(Merged(s).high) + Units(s.low)) /\ (flush \/ n = 0)
         /\ wire' = [wire EXCEPT ![s.id] = @ \o f.out]
         /\ \/ f.s.type = "HALFCLOSE" /\ BufferEmpty(f.s) /\ flush /\ Set(i, ForceClosed(f.s)) /\ UNCHANGED io
            \/ Set(i, f.s) /\ io' = i
            \/ Set(i, [f.s EXCEPT !.type = "HALFCLOSE"]) /\ UNCHANGED io
  BY DEF CtrlClose
<1>5. Shape(i) /\ wire' \in [Id -> Seq(Packet)]
  <2>1. CASE s.id # Req.id \/ s.type = "INVALID"
    <3>1. UNCHANGED <<sock, wire, io>>
      BY <2>1 DEF CtrlClose
    <3> HIDE DEF i
    <3>2. Shape(i)
      BY <1>0, <1>1, <1>2, <3>1, ShapeSame
    <3> QED BY <3>1, <3>2 DEF Types0
  <2>2. CASE s.id = Req.id /\ s.type # "INVALID"
    <3>0. n \in 0..(Units(Merged(s).high) + Units(s.low)) /\ wire' = [wire EXCEPT ![s.id] = @ \o f.out]
      <4> HIDE DEF f, flush, i
      <4> QED BY <1>4, <2>2
    <3>1. s.type # "RESERVE"
      BY <1>0, <1>1, <1>2, <1>3, <2>2, HeadNotReserved
    <3>2. /\ f.s \in Record /\ f.out \in Seq(Packet) /\ f.s.type = s.type /\ Same(s, f.s)
          /\ SlotSound(f.s) /\ (f.s.dw = None \/ f.s.dw = s.dw)
          /\ ~NoData(f.s) => f.s.wev /\ ~NoData(s)
          /\ ~flush => f.s = s
      <4>1. CASE flush
        <5>1. f = Flushed(Merged(s), n)
          BY <4>1
        <5>2. Enough(Merged(s), n) /\ Flush(Merged(s), n, f)
          <6>1. Units(Merged(s).high) \in Nat /\ Units(s.low) \in Nat /\ Merged(s).low = s.low
            BY <1>1, MergedFacts, RecordFields, UnitsType
          <6>2. n \in Nat /\ n <= Units(Merged(s).high) + Units(Merged(s).low)
            <7> DEFINE a == Units(Merged(s).high)
                       b == Units(s.low)
            <7>1. a \in Nat /\ b \in Nat /\ n \in 0..(a + b)
              BY <3>0, <6>1
            <7> HIDE DEF a, b
            <7>2. n \in Nat /\ n <= a + b
              BY <7>1
            <7> QED BY <6>1, <7>2 DEF a, b
          <6> QED BY <5>1, <6>2 DEF Enough, Flush
        <5> HIDE DEF f
        <5> QED BY <1>1, <1>2, <2>2, <3>1, <4>1, <5>2, FlushedSlot
      <4>2. CASE ~flush
        <5>1. f.s = s /\ f.out = << >>
          BY <4>2
        <5> HIDE DEF f
        <5>2. ~NoData(s) => s.wev
          BY <1>2 DEF SlotSound
        <5> QED BY <1>1, <1>2, <5>1, <5>2 DEF Same
      <4> QED BY <4>1, <4>2
    <3> HIDE DEF f
    <3>3. wire' \in [Id -> Seq(Packet)]
      BY <1>1, <2>2, <3>0, <3>2 DEF Types0
    <3>4. CASE f.s.type = "HALFCLOSE" /\ BufferEmpty(f.s) /\ flush /\ Set(i, ForceClosed(f.s)) /\ UNCHANGED io
      <4>1. /\ ForceClosed(f.s) \in Record /\ Same(f.s, ForceClosed(f.s)) /\ SlotSound(ForceClosed(f.s))
            /\ ForceClosed(f.s).type = "INVALID"
        BY <3>2, ForceClosedFacts
      <4>2. Same(s, ForceClosed(f.s)) /\ s.lock = None
        BY <3>2, <3>4, <4>1 DEF Same
      <4> HIDE DEF i
      <4> QED BY <1>0, <1>1, <1>2, <3>1, <3>3, <3>4, <4>1, <4>2, ShapeSet DEF Unborn
    <3>5. CASE Set(i, f.s) /\ io' = i
      <4>1. s.lock # None => f.s = s
        BY <3>2
      <4> HIDE DEF i, flush
      <4> QED BY <1>0, <1>1, <1>2, <2>2, <3>1, <3>2, <3>3, <3>5, <4>1, ShapeSet DEF Unborn
    <3>6. CASE Set(i, [f.s EXCEPT !.type = "HALFCLOSE"]) /\ UNCHANGED io
      <4> DEFINE t == [f.s EXCEPT !.type = "HALFCLOSE"]
      <4>1. /\ t \in Record /\ Same(f.s, t) /\ t.type = "HALFCLOSE" /\ t.wev = f.s.wev /\ t.dw = f.s.dw
            /\ t.high = f.s.high /\ t.low = f.s.low
        BY <3>2 DEF Record, Same, Types
      <4>2. Set(i, t)
        BY <3>6
      <4> HIDE DEF t
      <4>3. Same(s, t) /\ (s.lock # None => t.dw = s.dw)
        <5>1. s.lock # None => f.s = s
          BY <3>2
        <5> QED BY <3>2, <4>1, <5>1 DEF Same
      <4>4. SlotSound(t)
        <5>1. NoData(t) <=> NoData(f.s)
          BY <4>1 DEF NoData, BufferEmpty
        <5>2. s.tcp /\ s.id # 0
          BY <1>2, <2>2, <3>1 DEF SlotSound
        <5> QED BY <3>2, <4>1, <4>3, <5>1, <5>2 DEF SlotSound, Same, Open
      <4> HIDE DEF i, flush
      <4> QED BY <1>0, <1>1, <1>2, <3>1, <3>3, <3>6, <4>1, <4>2, <4>3, <4>4, ShapeSet DEF Unborn, Open
    <3> HIDE DEF flush, i
    <3> QED BY <1>4, <2>2, <3>4, <3>5, <3>6 DEF f
  <2> QED BY <2>1, <2>2
<1>6. Types0'
  BY <1>0, <1>1, <1>3, <1>5 DEF Types0, Shape, PipeMap
<1>7. SockInv'
  BY <1>0, <1>1, <1>3, <1>5, <1>6, ShapeKeeps
<1> QED BY <1>5, <1>6, <1>7

(* send_socket changes the lists of the slot only. *)
LEMMA SendSocketFacts ==
    ASSUME Types0, NEW s \in Record, SlotSound(s), NEW r \in [op : SendOps, id : Id, p : Packet],
           s.id = r.id => ~Unborn(s)
    PROVE  /\ SendSocket(s, r) \in Record /\ Same(s, SendSocket(s, r)) /\ SlotSound(SendSocket(s, r))
           /\ SendSocket(s, r).type = s.type /\ SendSocket(s, r).dw = s.dw
<1> DEFINE b == [p |-> r.p, left |-> Size]
           t == SendSocket(s, r)
<1>1. b \in Buffer /\ s.high \in Seq(Buffer) /\ s.low \in Seq(Buffer)
  BY RecordFields, BufferFields
<1> HIDE DEF b
<1>2. Append(s.high, b) \in Seq(Buffer) /\ Append(s.low, b) \in Seq(Buffer)
  BY <1>1
<1>3. CASE s.id # r.id \/ s.type \in {"INVALID", "HALFCLOSE", "PACCEPT", "PLISTEN", "LISTEN"}
  BY <1>3 DEF SendSocket, Same
<1>4. CASE ~(s.id # r.id \/ s.type \in {"INVALID", "HALFCLOSE", "PACCEPT", "PLISTEN", "LISTEN"})
  <2>1. s.type = "CONNECTED"
    BY <1>4, RecordFields DEF Unborn, Types
  <2>2. CASE BufferEmpty(s)
    <3>1. t = [[s EXCEPT !.high = Append(@, b)] EXCEPT !.wev = TRUE]
      BY <1>4, <2>1, <2>2 DEF SendSocket, Appended, b
    <3> HIDE DEF t
    <3>2. /\ t \in Record /\ Same(s, t) /\ t.type = s.type /\ t.dw = s.dw /\ t.wev = TRUE
      BY <1>2, <3>1 DEF Record, Same
    <3>3. SlotSound(t)
      BY <2>1, <3>2 DEF SlotSound, Same, Open
    <3> QED BY <3>2, <3>3 DEF t
  <2>3. CASE ~BufferEmpty(s)
    <3>1. t = [s EXCEPT !.low = Append(@, b)] \/ t = [s EXCEPT !.high = Append(@, b)]
      BY <1>4, <2>1, <2>3 DEF SendSocket, Appended, b
    <3> HIDE DEF t
    <3>2. /\ t \in Record /\ Same(s, t) /\ t.type = s.type /\ t.dw = s.dw /\ t.wev = s.wev
      BY <1>2, <3>1 DEF Record, Same
    <3>3. s.wev = TRUE
      BY <2>1, <2>3, RecordFields DEF SlotSound, NoData, Open
    <3>4. SlotSound(t)
      BY <2>1, <3>2, <3>3 DEF SlotSound, Same, Open
    <3> QED BY <3>2, <3>4 DEF t
  <2> QED BY <2>2, <2>3
<1> QED BY <1>3, <1>4

(* The requests D and P *)
LEMMA CtrlSendKeeps ==
    ASSUME Types0, SockInv, CtrlSend
    PROVE  /\ Types0' /\ SockInv' /\ Kept(Hash(Req.id))
           /\ sock'[Hash(Req.id)].type = Of(Req.id).type
           /\ Of(Req.id).id = Req.id => ~Unborn(Of(Req.id))
<1> DEFINE i == Hash(Req.id)
           s == sock[i]
           t == SendSocket(s, Req)
           u == IF t.id = Req.id /\ t.tcp THEN [t EXCEPT !.sending = @ - 1] ELSE t
<1>0. /\ pipe # << >> /\ Req.op \in SendOps /\ NextRequest /\ io = None
      /\ UNCHANGED <<alloc_id, call, io, known, wire, sentBy, lowp, work>>
  BY DEF CtrlSend, Free, SendOps
<1>1. /\ 1 \in DOMAIN pipe /\ pipe[1] = Req /\ Req.id \in Id /\ i \in Slot
      /\ Of(Req.id) = sock[i] /\ s \in Record /\ Req \in Requests
  BY <1>0, Basics
<1>2. Slots /\ Ids /\ Locks /\ Counts /\ SlotSound(s)
  BY <1>1 DEF SockInv, Slots
<1>3. ~OpenAt(1) /\ DataAt(1) /\ PipeMap(1)
  BY <1>0, <1>1, PipeTail DEF OpenAt, DataAt, SendOps
<1>4. known[Req.id] = "conn" /\ Req \in [op : SendOps, id : Id, p : Packet]
  BY <1>0, <1>1, <1>2, <1>3 DEF Ids, Requests, SendOps
<1>5. s.id = Req.id => ~Unborn(s) /\ s.tcp
  BY <1>1, <1>2, <1>4 DEF Slots, Ids
<1>6. t \in Record /\ Same(s, t) /\ SlotSound(t) /\ t.type = s.type /\ t.dw = s.dw
  BY <1>1, <1>2, <1>4, <1>5, SendSocketFacts
<1>7. Set(i, u)
  BY <1>1 DEF CtrlSend
<1> HIDE DEF t
<1>8. /\ u \in Record /\ u.id = s.id /\ u.tcp = s.tcp /\ u.lock = s.lock /\ SlotSound(u) /\ u.type = s.type
      /\ u.dw = s.dw /\ u.sending = s.sending - (IF s.id = Req.id THEN 1 ELSE 0)
  <2>1. t.sending \in Int /\ t.id = s.id /\ t.tcp = s.tcp /\ t.sending = s.sending /\ t.lock = s.lock
    BY <1>6, RecordFields DEF Same
  <2>2. CASE s.id = Req.id
    <3> DEFINE c == t.sending - 1
    <3>0. c \in Int
      BY <2>1
    <3>1. u = [t EXCEPT !.sending = c]
      BY <1>5, <2>1, <2>2
    <3> HIDE DEF u, c
    <3>2. /\ u \in Record /\ u.id = t.id /\ u.tcp = t.tcp /\ u.lock = t.lock /\ u.type = t.type
          /\ u.high = t.high /\ u.low = t.low /\ u.wev = t.wev /\ u.dw = t.dw /\ u.sending = c
      BY <1>6, <3>0, <3>1 DEF Record
    <3>3. SlotSound(u)
      BY <1>6, <3>2 DEF SlotSound, NoData, BufferEmpty, Open
    <3> QED BY <1>6, <2>1, <2>2, <3>2, <3>3 DEF c
  <2>3. CASE s.id # Req.id
    <3>1. u = t
      BY <2>1, <2>3
    <3> HIDE DEF u
    <3> QED BY <1>6, <2>1, <2>3, <3>1
  <2> QED BY <2>2, <2>3
<1> HIDE DEF u
<1>9. Moved(i) /\ sock'[i] = u
  BY <1>1, <1>7, <1>8, SetFacts
<1>10. Kept(i)
  BY <1>8, <1>9 DEF Kept, Open, Unborn
<1>11. Told(i)
  BY <1>0, <1>1, ToldNothing
<1>12. Types0'
  BY <1>0, <1>3, <1>9 DEF Types0, Moved, PipeMap
<1>13. Slots' /\ Ids' /\ Locks'
  BY <1>0, <1>1, <1>2, <1>3, <1>10, <1>11, ThreadKeeps
<1>14. Counts'
  <2>1. \A j \in Slot : sock[j].sending =
                        IF sock[j].tcp THEN Cardinality(QueuedIn(pipe, sock[j].id))
                                              + Cardinality(AskingIn(call, sock[j].id))
                                       ELSE 0
    BY <1>2, CountsForm
  <2>2. ASSUME NEW j \in Slot
        PROVE  sock'[j].sending = IF sock'[j].tcp THEN Cardinality(QueuedIn(pipe', sock'[j].id))
                                                         + Cardinality(AskingIn(call', sock'[j].id))
                                  ELSE 0
    <3>1. sock'[j].id = sock[j].id /\ sock'[j].tcp = sock[j].tcp
      BY <1>8, <1>9 DEF Moved
    <3>2. sock'[j].sending = sock[j].sending - (IF sock[j].id = Req.id THEN 1 ELSE 0) /\ sock[j].sending \in Int
      <4>1. CASE j = i
        BY <1>1, <1>8, <1>9, <4>1, RecordFields
      <4>2. CASE j # i
        <5>1. sock[j].id # Req.id
          BY <1>1, <1>2, <4>2, Basics DEF Slots
        <5>2. sock'[j] = sock[j] /\ sock[j].sending \in Int
          BY <1>9, <4>2, RecordFields DEF Moved, Types0
        <5> QED BY <5>1, <5>2
      <4> QED BY <4>1, <4>2
    <3>3. sock[j].id = Req.id => sock[j].tcp
      <4>1. sock[j].id = Req.id => j = i
        BY <1>1, <1>2, Basics DEF Slots
      <4> QED BY <1>5, <4>1
    <3>4. Cardinality(QueuedIn(pipe', sock[j].id)) =
            Cardinality(QueuedIn(pipe, sock[j].id)) - (IF sock[j].id = Req.id THEN 1 ELSE 0)
      BY <1>0, <1>1, <1>3, QueuedTail
    <3>5. /\ Cardinality(QueuedIn(pipe, sock[j].id)) \in Nat
          /\ Cardinality(AskingIn(call, sock[j].id)) \in Nat
      BY CountForms
    <3>6. call' = call
      BY <1>0
    <3>7. CASE sock[j].tcp
      BY <2>1, <3>1, <3>2, <3>4, <3>5, <3>6, <3>7
    <3>8. CASE ~sock[j].tcp
      BY <2>1, <3>1, <3>2, <3>3, <3>8
    <3> QED BY <3>7, <3>8
  <2>3. \A id : Queued(id)' = QueuedIn(pipe', id) /\ Asking(id)' = AskingIn(call', id)
    BY DEF Queued, Asking, QueuedIn, AskingIn, DataAt
  <2> QED BY <2>2, <2>3 DEF Counts
<1> QED BY <1>1, <1>5, <1>8, <1>9, <1>10, <1>12, <1>13, <1>14 DEF SockInv

-----------------------------------------------------------------------------
(* The calls of the services                                                *)

(* Request writes a request about an id that is known. *)
LEMMA RequestKeeps ==
    ASSUME Types0, SockInv, NEW id \in Id, NEW op \in {"S", "K", "KS"}, Request(id, op)
    PROVE  Types0' /\ SockInv' /\ PipeMap(0)
<1> DEFINE r == [op |-> op, id |-> id]
<1>0. /\ known[id] # None /\ work < MaxWork /\ work' = work + 1 /\ Ask(r)
      /\ UNCHANGED <<sock, alloc_id, call, io, known, wire, sentBy, lowp>>
  BY DEF Request, Work
<1>1. Fresh(r) /\ r.op \notin SendOps
  <2>1. r \in [op : {"O", "L", "S", "K", "KS"}, id : Id] /\ r.op = op /\ r.id = id
    OBVIOUS
  <2> HIDE DEF r
  <2> QED BY <1>0, <2>1 DEF Fresh, Requests, SendOps
<1> HIDE DEF r
<1>2. PipeMap(0)
  BY <1>0, <1>1, PipeAppend
<1>3. Types0'
  <2>1. work' \in 0..MaxWork
    BY <1>0, SocketAssumption DEF Types0
  <2> QED BY <1>0, <1>2, <2>1 DEF Types0, PipeMap
<1>4. Slots /\ Ids /\ Locks /\ Counts /\ 0 \in Slot
  BY SocketAssumption DEF SockInv, Slot
<1>5. Kept(0) /\ sock' = sock
  BY <1>0, <1>4, KeptSame
<1>6. Told(0)
  BY <1>0, <1>4, <1>5, ToldNothing DEF Slots
<1>7. Slots' /\ Ids' /\ Locks'
  BY <1>0, <1>2, <1>4, <1>5, <1>6, ThreadKeeps
<1>8. Counts'
  <2>1. ASSUME NEW x \in Id \cup {0} PROVE SameCount(x)
    <3>1. Cardinality(QueuedIn(pipe', x)) = Cardinality(QueuedIn(pipe, x)) + 0
      BY <1>0, <1>1, QueuedAppend
    <3>2. Cardinality(QueuedIn(pipe, x)) \in Nat
      BY CountForms
    <3> QED BY <1>0, <3>1, <3>2 DEF SameCount
  <2> QED BY <1>3, <1>4, <1>5, <2>1, CountsStep
<1> QED BY <1>2, <1>3, <1>7, <1>8 DEF SockInv

(* Service v is at point pc now, with the same id and packet. *)
CallAt(v, pc) ==
    /\ call' \in [Service -> CallRecord] /\ \A w \in Service : w # v => call'[w] = call[w]
    /\ call'[v].pc = pc /\ (pc # "out" => call'[v].id = call[v].id /\ call'[v].p = call[v].p)

(* A call goes on to its next step, or ends. *)
LEMMA CallFacts ==
    ASSUME Types0, NEW v \in Service, Calling(v)
    PROVE  /\ \A pc \in {"check", "write", "inc", "ask"} : call' = [call EXCEPT ![v].pc = pc] => CallAt(v, pc)
           /\ call' = [call EXCEPT ![v] = Out] => CallAt(v, "out")
<1>1. call \in [Service -> CallRecord]
  BY DEF Types0
<1>2. call[v] \in [pc : {"trylock", "check", "write", "inc", "ask"}, id : Id, p : Packet]
  BY <1>1 DEF CallRecord, Calling, Out
<1>3. ASSUME NEW pc \in {"check", "write", "inc", "ask"}, call' = [call EXCEPT ![v].pc = pc]
      PROVE  CallAt(v, pc)
  <2> DEFINE c == [call[v] EXCEPT !.pc = pc]
  <2>1. c \in CallRecord /\ c.pc = pc /\ c.id = call[v].id /\ c.p = call[v].p
    BY <1>2 DEF CallRecord
  <2>2. call' = [call EXCEPT ![v] = c]
    BY <1>3
  <2> HIDE DEF c
  <2> QED BY <1>1, <2>1, <2>2 DEF CallAt
<1>4. ASSUME call' = [call EXCEPT ![v] = Out] PROVE CallAt(v, "out")
  <2>1. Out \in CallRecord /\ Out.pc = "out"
    BY DEF CallRecord, Out
  <2> QED BY <1>1, <1>4, <2>1 DEF CallAt
<1> QED BY <1>3, <1>4

(* The slot of a call is in use, and is its own. *)
LEMMA CallSlot ==
    ASSUME Types0, SockInv, NEW v \in Service, Calling(v)
    PROVE  /\ call[v].id \in Id /\ call[v].p \in Packet /\ Hash(call[v].id) \in Slot
           /\ Of(call[v].id) = sock[Hash(call[v].id)] /\ Of(call[v].id) \in Record
           /\ Of(call[v].id).id = call[v].id /\ Of(call[v].id).tcp /\ Of(call[v].id).type # "RESERVE"
           /\ SlotSound(Of(call[v].id)) /\ known[call[v].id] = "conn"
<1>1. /\ call[v].id \in Id /\ call[v].p \in Packet /\ Hash(call[v].id) \in Slot
      /\ Of(call[v].id) = sock[Hash(call[v].id)] /\ Of(call[v].id) \in Record
  BY Basics
<1>2. Of(call[v].id).id = call[v].id /\ Of(call[v].id).tcp /\ known[call[v].id] = "conn"
  BY <1>1 DEF SockInv, Ids
<1>3. SlotSound(Of(call[v].id))
  BY <1>1 DEF SockInv, Slots
<1>4. Of(call[v].id).type # "RESERVE"
  BY <1>2, <1>3 DEF SlotSound
<1> QED BY <1>1, <1>2, <1>3, <1>4

(* A step of a call touches its slot's lock, counter or rest of a write. *)
LEMMA CallSlots ==
    ASSUME Types0, SockInv, NEW v \in Service, Calling(v), NEW i \in Slot, i = Hash(call[v].id),
           Moved(i), SlotSound(sock'[i]), sock'[i].id = sock[i].id, sock'[i].tcp = sock[i].tcp,
           sock'[i].type = sock[i].type, UNCHANGED <<alloc_id, io, known>>, PipeMap(0),
           NEW pc, CallAt(v, pc)
    PROVE  Slots' /\ Ids'
<1>1. Slots /\ Ids
  BY DEF SockInv
<1>2. Slots'
  BY <1>1, SlotsStep DEF Slots, Unborn
<1>3. SameIds
  BY DEF SameIds, Moved
<1>4. MoreKnown
  BY DEF MoreKnown, Types0
<1>5. CallsAllowed
  BY DEF CallsAllowed, Calling, CallAt
<1>6. Ids'
  BY <1>1, <1>3, <1>4, <1>5, IdsStep
<1> QED BY <1>2, <1>6

(* The locks, when v leaves or keeps point pc with slot i in sock'. *)
LEMMA CallLocks ==
    ASSUME Types0, SockInv, NEW v \in Service, Calling(v), NEW i \in Slot, i = Hash(call[v].id),
           Moved(i), NEW pc, CallAt(v, pc),
           sock'[i].lock = IF pc \in {"check", "write"} THEN v
                           ELSE IF sock[i].lock = v THEN None ELSE sock[i].lock,
           pc \in {"check", "write"} => sock[i].lock \in {v, None},
           pc = "write" => Open(sock'[i]) /\ sock'[i].dw = None,
           sock[i].lock \notin {v, None} => Open(sock'[i]) = Open(sock[i]) /\ sock'[i].dw = sock[i].dw
    PROVE  Locks'
<1>0. /\ \A id \in Id : Hash(id) \in Slot /\ Of(id) = sock[Hash(id)]
      /\ \A w \in Service : Calling(w) => call[w].id \in Id
  BY Basics
<1>1. Locks
  BY DEF SockInv
<1>2. \A w \in Service : w # v => call'[w] = call[w]
  BY DEF CallAt
<1>3. call'[v].pc = pc /\ (pc # "out" => call'[v].id = call[v].id)
  BY DEF CallAt
<1>4. ASSUME NEW w \in Service, w # v, call[w].pc \in {"check", "write"}
      PROVE  /\ Hash(call[w].id) \in Slot /\ sock[Hash(call[w].id)].lock = w
             /\ sock'[Hash(call[w].id)].lock = w
             /\ call[w].pc = "write" => Open(sock'[Hash(call[w].id)]) /\ sock'[Hash(call[w].id)].dw = None
  <2>1. call[w].id \in Id /\ Hash(call[w].id) \in Slot /\ Of(call[w].id) = sock[Hash(call[w].id)]
    BY <1>0, <1>4 DEF Calling
  <2>2. sock[Hash(call[w].id)].lock = w
    BY <1>1, <1>4, <2>1 DEF Locks
  <2>3. call[w].pc = "write" => Open(sock[Hash(call[w].id)]) /\ sock[Hash(call[w].id)].dw = None
    BY <1>1, <2>1 DEF Locks
  <2>4. CASE Hash(call[w].id) = i
    <3>1. sock[i].lock = w /\ w \notin {v, None}
      BY <1>4, <2>2, <2>4, SocketAssumption
    <3>2. pc \notin {"check", "write"} /\ sock'[i].lock = w
      BY <3>1
    <3> QED BY <2>1, <2>2, <2>3, <2>4, <3>1, <3>2
  <2>5. CASE Hash(call[w].id) # i
    <3>1. sock'[Hash(call[w].id)] = sock[Hash(call[w].id)]
      BY <2>1, <2>5 DEF Moved
    <3> QED BY <2>1, <2>2, <2>3, <3>1
  <2> QED BY <2>4, <2>5
<1>5. ASSUME NEW j \in Slot, sock'[j].lock # None
      PROVE  call'[sock'[j].lock].pc \in {"check", "write"} /\ Hash(call'[sock'[j].lock].id) = j
  <2>1. CASE j = i
    <3>1. CASE pc \in {"check", "write"}
      BY <1>3, <2>1, <3>1
    <3>2. CASE pc \notin {"check", "write"}
      <4>1. sock'[i].lock = sock[i].lock /\ sock[i].lock \notin {v, None}
        BY <1>5, <2>1, <3>2
      <4>2. sock[i].lock \in Service
        BY <4>1, RecordFields DEF Types0
      <4> QED BY <1>1, <1>2, <2>1, <4>1, <4>2 DEF Locks
    <3> QED BY <3>1, <3>2
  <2>2. CASE j # i
    <3>1. sock'[j].lock = sock[j].lock /\ sock[j].lock # None
      BY <1>5, <2>2 DEF Moved
    <3>2. sock[j].lock \in Service
      BY <3>1, RecordFields DEF Types0
    <3>3. call[sock[j].lock].pc \in {"check", "write"} /\ Hash(call[sock[j].lock].id) = j
      BY <1>1, <3>1 DEF Locks
    <3>4. sock[j].lock # v
      BY <2>2, <3>3
    <3> QED BY <1>2, <3>1, <3>2, <3>3, <3>4
  <2> QED BY <2>1, <2>2
<1>6. ASSUME NEW w \in Service, call'[w].pc \in {"check", "write"}
      PROVE  /\ sock'[Hash(call'[w].id)].lock = w
             /\ call'[w].pc = "write" => Open(sock'[Hash(call'[w].id)]) /\ sock'[Hash(call'[w].id)].dw = None
  <2>1. CASE w = v
    BY <1>3, <1>6, <2>1
  <2>2. CASE w # v
    BY <1>2, <1>4, <1>6, <2>2
  <2> QED BY <2>1, <2>2
<1> QED BY <1>5, <1>6 DEF Locks, Of, Open

(* Of the other variables a step of a call changes the wire at most. *)
LEMMA CallTypes ==
    ASSUME Types0, NEW i, Moved(i), NEW v, NEW pc, CallAt(v, pc), PipeMap(0),
           wire' \in [Id -> Seq(Packet)], UNCHANGED <<alloc_id, io, known, sentBy, lowp, work>>
    PROVE  Types0'
BY DEF Types0, Moved, CallAt, PipeMap

(* The counts when neither the pipe nor who is about to ask changes. *)
LEMMA CallCounts ==
    ASSUME Types0, Types0', SockInv, NEW v \in Service, call[v].pc # "ask", NEW pc, pc # "ask", CallAt(v, pc),
           UNCHANGED pipe, NEW i \in Slot, Moved(i),
           sock'[i].id = sock[i].id, sock'[i].tcp = sock[i].tcp, sock'[i].sending = sock[i].sending
    PROVE  Counts'
<1>1. \A id : AskingIn(call', id) = AskingIn(call, id)
  BY AskingSame DEF CallAt
<1>2. \A id \in Id \cup {0} : SameCount(id)
  BY <1>1 DEF SameCount
<1>3. \A j \in Slot : /\ sock'[j].id = sock[j].id /\ sock'[j].tcp = sock[j].tcp
                      /\ sock'[j].sending = sock[j].sending
  BY DEF Moved
<1> QED BY <1>2, <1>3, CountsStep DEF SockInv

(* socket_trylock *)
LEMMA SendLockKeeps ==
    ASSUME Types0, SockInv, NEW v \in Service, SendLock(v)
    PROVE  Types0' /\ SockInv'
<1> DEFINE i == Hash(call[v].id)
           s == sock[i]
<1>0. call[v].pc = "trylock" /\ UNCHANGED <<alloc_id, pipe, io, known, wire, sentBy, lowp, work>>
  BY DEF SendLock
<1>1. Calling(v)
  BY <1>0 DEF Calling
<1>2. /\ call[v].id \in Id /\ i \in Slot /\ Of(call[v].id) = s /\ s \in Record
      /\ SlotSound(s) /\ s.type # "RESERVE" /\ Locks /\ PipeMap(0) /\ wire' \in [Id -> Seq(Packet)]
  BY <1>0, <1>1, CallSlot, PipeSame DEF SockInv, Types0
<1>3. s.lock # v
  BY <1>0, <1>2, SocketAssumption DEF Locks
<1>4. CASE s.lock = None /\ Set(i, [s EXCEPT !.lock = v]) /\ call' = [call EXCEPT ![v].pc = "check"]
  <2> DEFINE t == [s EXCEPT !.lock = v]
  <2>1. /\ t \in Record /\ t.id = s.id /\ t.tcp = s.tcp /\ t.type = s.type /\ t.sending = s.sending
        /\ t.high = s.high /\ t.low = s.low /\ t.wev = s.wev /\ t.dw = s.dw /\ t.lock = v
    BY <1>2 DEF Record
  <2>2. Set(i, t)
    BY <1>4
  <2> HIDE DEF t
  <2>3. SlotSound(t)
    BY <1>2, <2>1 DEF SlotSound, NoData, BufferEmpty, Open
  <2>4. Moved(i) /\ sock'[i] = t
    BY <1>2, <2>1, <2>2, SetFacts
  <2>5. CallAt(v, "check")
    BY <1>1, <1>4, CallFacts
  <2> HIDE DEF i
  <2>6. Types0'
    BY <1>0, <1>2, <2>4, <2>5, CallTypes
  <2>7. Slots' /\ Ids'
    BY <1>0, <1>1, <1>2, <2>1, <2>3, <2>4, <2>5, CallSlots DEF i
  <2>8. Locks'
    BY <1>1, <1>2, <1>4, <2>1, <2>4, <2>5, CallLocks, SocketAssumption DEF i
  <2>9. Counts'
    BY <1>0, <1>2, <2>1, <2>4, <2>5, <2>6, CallCounts
  <2> QED BY <2>6, <2>7, <2>8, <2>9 DEF SockInv
<1>5. CASE s.lock # None /\ call' = [call EXCEPT ![v].pc = "inc"] /\ UNCHANGED sock
  <2>1. Moved(i) /\ sock'[i] = s
    BY <1>2, <1>5, SameFacts
  <2>2. CallAt(v, "inc")
    BY <1>1, <1>5, CallFacts
  <2> HIDE DEF i
  <2>3. Types0'
    BY <1>0, <1>2, <2>1, <2>2, CallTypes
  <2>4. Slots' /\ Ids'
    BY <1>0, <1>1, <1>2, <2>1, <2>2, CallSlots DEF i
  <2>5. Locks'
    BY <1>1, <1>2, <1>3, <2>1, <2>2, CallLocks DEF i
  <2>6. Counts'
    BY <1>0, <1>2, <2>1, <2>2, <2>3, CallCounts
  <2> QED BY <2>3, <2>4, <2>5, <2>6 DEF SockInv
<1> QED BY <1>2, <1>4, <1>5 DEF SendLock

(* The second look, under the lock *)
LEMMA SendCheckKeeps ==
    ASSUME Types0, SockInv, NEW v \in Service, SendCheck(v)
    PROVE  Types0' /\ SockInv'
<1> DEFINE i == Hash(call[v].id)
           s == sock[i]
<1>0. call[v].pc = "check" /\ UNCHANGED <<alloc_id, pipe, io, known, wire, sentBy, lowp, work>>
  BY DEF SendCheck
<1>1. Calling(v)
  BY <1>0 DEF Calling
<1>2. /\ call[v].id \in Id /\ i \in Slot /\ Of(call[v].id) = s /\ s \in Record
      /\ SlotSound(s) /\ s.type # "RESERVE" /\ Locks /\ PipeMap(0) /\ wire' \in [Id -> Seq(Packet)]
  BY <1>0, <1>1, CallSlot, PipeSame DEF SockInv, Types0
<1>3. s.lock = v
  BY <1>0, <1>2 DEF Locks
<1>4. CASE Set(i, [s EXCEPT !.lock = None]) /\ call' = [call EXCEPT ![v].pc = "inc"]
  <2> DEFINE t == [s EXCEPT !.lock = None]
  <2>1. /\ t \in Record /\ t.id = s.id /\ t.tcp = s.tcp /\ t.type = s.type /\ t.sending = s.sending
        /\ t.high = s.high /\ t.low = s.low /\ t.wev = s.wev /\ t.dw = s.dw /\ t.lock = None
    BY <1>2 DEF Record
  <2>2. Set(i, t)
    BY <1>4
  <2> HIDE DEF t
  <2>3. SlotSound(t)
    BY <1>2, <2>1 DEF SlotSound, NoData, BufferEmpty, Open
  <2>4. Moved(i) /\ sock'[i] = t
    BY <1>2, <2>1, <2>2, SetFacts
  <2>5. CallAt(v, "inc")
    BY <1>1, <1>4, CallFacts
  <2> HIDE DEF i
  <2>6. Types0'
    BY <1>0, <1>2, <2>4, <2>5, CallTypes
  <2>7. Slots' /\ Ids'
    BY <1>0, <1>1, <1>2, <2>1, <2>3, <2>4, <2>5, CallSlots DEF i
  <2>8. Locks'
    BY <1>1, <1>2, <1>3, <2>1, <2>4, <2>5, CallLocks DEF i
  <2>9. Counts'
    BY <1>0, <1>2, <2>1, <2>4, <2>5, <2>6, CallCounts
  <2> QED BY <2>6, <2>7, <2>8, <2>9 DEF SockInv
<1>5. CASE CanDirectWrite(s, call[v].id) /\ call' = [call EXCEPT ![v].pc = "write"] /\ UNCHANGED sock
  <2>1. Moved(i) /\ sock'[i] = s
    BY <1>2, <1>5, SameFacts
  <2>2. CallAt(v, "write")
    BY <1>1, <1>5, CallFacts
  <2>0. Open(s) /\ s.dw = None
    BY <1>5 DEF CanDirectWrite, NoMoreSending, Open
  <2> HIDE DEF i
  <2>3. Types0'
    BY <1>0, <1>2, <2>1, <2>2, CallTypes
  <2>4. Slots' /\ Ids'
    BY <1>0, <1>1, <1>2, <2>1, <2>2, CallSlots DEF i
  <2>5. Locks'
    BY <1>1, <1>2, <1>3, <2>0, <2>1, <2>2, CallLocks DEF i
  <2>6. Counts'
    BY <1>0, <1>2, <2>1, <2>2, <2>3, CallCounts
  <2> QED BY <2>3, <2>4, <2>5, <2>6 DEF SockInv
<1> QED BY <1>2, <1>4, <1>5 DEF SendCheck

(* The direct write *)
LEMMA SendWriteKeeps ==
    ASSUME Types0, SockInv, NEW v \in Service, NEW n \in 0..Size, SendWrite(v, n)
    PROVE  Types0' /\ SockInv'
<1> DEFINE i == Hash(call[v].id)
           s == sock[i]
           p == call[v].p
           o == [k \in 1..n |-> p]
<1>0. /\ call[v].pc = "write" /\ UNCHANGED <<alloc_id, pipe, io, known, sentBy, lowp, work>>
      /\ wire' = [wire EXCEPT ![call[v].id] = @ \o o] /\ call' = [call EXCEPT ![v] = Out]
  BY DEF SendWrite
<1>1. Calling(v)
  BY <1>0 DEF Calling
<1>2. /\ call[v].id \in Id /\ p \in Packet /\ i \in Slot /\ Of(call[v].id) = s /\ s \in Record
      /\ SlotSound(s) /\ s.type # "RESERVE" /\ Locks /\ PipeMap(0)
  BY <1>0, <1>1, CallSlot, PipeSame DEF SockInv
<1>3. s.lock = v /\ Open(s) /\ n \in Nat /\ n <= Size /\ Size \in Nat
  BY <1>0, <1>2, SocketAssumption DEF Locks
<1>4. wire' \in [Id -> Seq(Packet)]
  <2>1. o \in Seq(Packet)
    BY <1>2, <1>3
  <2> HIDE DEF o
  <2> QED BY <1>0, <1>2, <2>1 DEF Types0
<1> DEFINE t == IF n = Size THEN [s EXCEPT !.lock = None]
                ELSE [s EXCEPT !.lock = None, !.wev = TRUE, !.dw = [p |-> p, left |-> Size - n]]
<1>5. Set(i, t)
  BY <1>2 DEF SendWrite
<1>6. /\ t \in Record /\ t.id = s.id /\ t.tcp = s.tcp /\ t.type = s.type /\ t.sending = s.sending
      /\ t.high = s.high /\ t.low = s.low /\ t.lock = None
      /\ (t.wev = TRUE \/ (t.wev = s.wev /\ t.dw = s.dw))
  <2>1. CASE n = Size
    <3>1. t = [s EXCEPT !.lock = None]
      BY <2>1
    <3> HIDE DEF t
    <3> QED BY <1>2, <3>1 DEF Record
  <2>2. CASE n # Size
    <3> DEFINE b == [p |-> p, left |-> Size - n]
    <3>1. Size - n \in 1..Size
      BY <1>3, <2>2
    <3>2. b \in Buffer
      BY <1>2, <3>1, BufferFields
    <3>3. t = [s EXCEPT !.lock = None, !.wev = TRUE, !.dw = b]
      BY <2>2
    <3> HIDE DEF t, b
    <3> QED BY <1>2, <3>2, <3>3 DEF Record
  <2> QED BY <2>1, <2>2
<1> HIDE DEF t
<1>7. SlotSound(t)
  BY <1>2, <1>3, <1>6 DEF SlotSound, NoData, BufferEmpty, Open
<1>8. Moved(i) /\ sock'[i] = t
  BY <1>2, <1>5, <1>6, SetFacts
<1>9. CallAt(v, "out")
  BY <1>0, <1>1, CallFacts
<1> HIDE DEF i
<1>10. Types0'
  BY <1>0, <1>2, <1>4, <1>8, <1>9, CallTypes
<1>11. Slots' /\ Ids'
  BY <1>0, <1>1, <1>2, <1>6, <1>7, <1>8, <1>9, CallSlots DEF i
<1>12. Locks'
  BY <1>1, <1>2, <1>3, <1>6, <1>8, <1>9, CallLocks DEF i
<1>13. Counts'
  BY <1>0, <1>2, <1>6, <1>8, <1>9, <1>10, CallCounts
<1> QED BY <1>10, <1>11, <1>12, <1>13 DEF SockInv

(* inc_sending_ref *)
LEMMA SendIncKeeps ==
    ASSUME Types0, SockInv, NEW v \in Service, SendInc(v)
    PROVE  Types0' /\ SockInv'
<1> DEFINE i == Hash(call[v].id)
           s == sock[i]
           c == s.sending + 1
           t == [s EXCEPT !.sending = c]
<1>0. /\ call[v].pc = "inc" /\ UNCHANGED <<alloc_id, pipe, io, known, wire, sentBy, lowp, work>>
      /\ call' = [call EXCEPT ![v].pc = "ask"]
  BY DEF SendInc
<1>1. Calling(v)
  BY <1>0 DEF Calling
<1>2. /\ call[v].id \in Id /\ i \in Slot /\ Of(call[v].id) = s /\ s \in Record /\ s.tcp /\ s.id = call[v].id
      /\ SlotSound(s) /\ s.type # "RESERVE" /\ Locks /\ Slots /\ PipeMap(0) /\ wire' \in [Id -> Seq(Packet)]
  BY <1>0, <1>1, CallSlot, PipeSame DEF SockInv, Types0
<1>3. s.lock # v
  BY <1>0, <1>2, SocketAssumption DEF Locks
<1>4. Set(i, t)
  BY <1>2 DEF SendInc
<1>5. /\ t \in Record /\ t.id = s.id /\ t.tcp = s.tcp /\ t.type = s.type /\ t.sending = c
      /\ t.high = s.high /\ t.low = s.low /\ t.wev = s.wev /\ t.dw = s.dw /\ t.lock = s.lock
  <2>1. c \in Int
    BY <1>2, RecordFields
  <2> HIDE DEF c
  <2> QED BY <1>2, <2>1 DEF Record
<1> HIDE DEF t
<1>6. SlotSound(t)
  BY <1>2, <1>5 DEF SlotSound, NoData, BufferEmpty, Open
<1>7. Moved(i) /\ sock'[i] = t
  BY <1>2, <1>4, <1>5, SetFacts
<1>8. CallAt(v, "ask")
  BY <1>0, <1>1, CallFacts
<1> HIDE DEF i
<1>9. Types0'
  BY <1>0, <1>2, <1>7, <1>8, CallTypes
<1>10. Slots' /\ Ids'
  BY <1>0, <1>1, <1>2, <1>5, <1>6, <1>7, <1>8, CallSlots DEF i
<1>11. Locks'
  BY <1>1, <1>2, <1>3, <1>5, <1>7, <1>8, CallLocks DEF i, Open
<1>12. Counts'
  <2>1. \A j \in Slot : sock[j].sending =
                        IF sock[j].tcp THEN Cardinality(QueuedIn(pipe, sock[j].id))
                                              + Cardinality(AskingIn(call, sock[j].id))
                                       ELSE 0
    BY CountsForm DEF SockInv
  <2>2. ASSUME NEW j \in Slot
        PROVE  sock'[j].sending = IF sock'[j].tcp THEN Cardinality(QueuedIn(pipe', sock'[j].id))
                                                         + Cardinality(AskingIn(call', sock'[j].id))
                                  ELSE 0
    <3>1. /\ Cardinality(QueuedIn(pipe, sock[j].id)) \in Nat /\ IsFiniteSet(AskingIn(call, sock[j].id))
          /\ Cardinality(AskingIn(call, sock[j].id)) \in Nat
      BY CountForms
    <3>2. CASE j = i
      <4>1. AskingIn(call', sock[j].id) = AskingIn(call, sock[j].id) \cup {v} /\ v \notin AskingIn(call, sock[j].id)
        BY <1>0, <1>2, <1>8, <3>2 DEF AskingIn, CallAt
      <4>2. Cardinality(AskingIn(call', sock[j].id)) = Cardinality(AskingIn(call, sock[j].id)) + 1
        BY <3>1, <4>1, FS_AddElement
      <4>3. sock'[j].sending = sock[j].sending + 1 /\ sock'[j].tcp /\ sock[j].tcp /\ sock'[j].id = sock[j].id
        BY <1>2, <1>5, <1>7, <3>2
      <4>4. pipe' = pipe
        BY <1>0
      <4>5. sock[j].sending = Cardinality(QueuedIn(pipe, sock[j].id)) + Cardinality(AskingIn(call, sock[j].id))
        BY <2>1, <4>3
      <4> QED BY <3>1, <4>2, <4>3, <4>4, <4>5
    <3>3. CASE j # i
      <4>1. sock'[j] = sock[j] /\ sock[j].id # call[v].id
        BY <1>2, <1>7, <3>3, Basics DEF Moved, Slots, i
      <4>2. AskingIn(call', sock[j].id) = AskingIn(call, sock[j].id)
        BY <1>0, <1>8, <4>1 DEF AskingIn, CallAt
      <4> QED BY <1>0, <2>1, <4>1, <4>2
    <3> QED BY <3>2, <3>3
  <2>3. \A id : Queued(id)' = QueuedIn(pipe', id) /\ Asking(id)' = AskingIn(call', id)
    BY DEF Queued, Asking, QueuedIn, AskingIn, DataAt
  <2> QED BY <2>2, <2>3 DEF Counts
<1> QED BY <1>9, <1>10, <1>11, <1>12 DEF SockInv

(* The request D or P is written *)
LEMMA SendAskKeeps ==
    ASSUME Types0, SockInv, NEW v \in Service, SendAsk(v)
    PROVE  Types0' /\ SockInv'
<1> DEFINE i == Hash(call[v].id)
           s == sock[i]
           r == [op |-> IF call[v].p \in lowp THEN "P" ELSE "D", id |-> call[v].id, p |-> call[v].p]
<1>0. /\ call[v].pc = "ask" /\ UNCHANGED <<sock, alloc_id, io, known, wire, sentBy, lowp, work>>
      /\ call' = [call EXCEPT ![v] = Out] /\ Ask(r)
  BY DEF SendAsk
<1>1. Calling(v)
  BY <1>0 DEF Calling
<1>2. /\ call[v].id \in Id /\ i \in Slot /\ Of(call[v].id) = s /\ s \in Record /\ s.tcp /\ s.id = call[v].id
      /\ SlotSound(s) /\ Locks /\ Slots /\ wire' \in [Id -> Seq(Packet)]
      /\ call[v].p \in Packet /\ known[call[v].id] = "conn"
  BY <1>0, <1>1, CallSlot DEF SockInv, Types0
<1>3. s.lock # v
  BY <1>0, <1>2, SocketAssumption DEF Locks
<1>4. Fresh(r) /\ r.op \in SendOps /\ r.id = call[v].id
  <2>1. r \in [op : SendOps, id : Id, p : Packet] /\ r.id = call[v].id /\ r.op \in SendOps
    BY <1>2 DEF SendOps
  <2> HIDE DEF r
  <2> QED BY <1>2, <2>1, SocketAssumption DEF Fresh, Requests, SendOps
<1> HIDE DEF r
<1>5. PipeMap(0)
  BY <1>0, <1>4, PipeAppend
<1>7. Moved(i) /\ sock'[i] = s
  BY <1>0, <1>2, SameFacts
<1>8. CallAt(v, "out")
  BY <1>0, <1>1, CallFacts
<1> HIDE DEF i
<1>9. Types0'
  BY <1>0, <1>2, <1>5, <1>7, <1>8, CallTypes
<1>10. Slots' /\ Ids'
  BY <1>0, <1>1, <1>2, <1>5, <1>7, <1>8, CallSlots DEF i
<1>11. Locks'
  BY <1>1, <1>2, <1>3, <1>7, <1>8, CallLocks DEF i
<1>12. Counts'
  <2>1. ASSUME NEW id PROVE Cardinality(QueuedIn(pipe', id)) + Cardinality(AskingIn(call', id))
                            = Cardinality(QueuedIn(pipe, id)) + Cardinality(AskingIn(call, id))
    <3>1. /\ Cardinality(QueuedIn(pipe, id)) \in Nat /\ IsFiniteSet(AskingIn(call, id))
          /\ Cardinality(AskingIn(call, id)) \in Nat
      BY CountForms
    <3>2. Cardinality(QueuedIn(pipe', id)) = Cardinality(QueuedIn(pipe, id)) + (IF r.id = id THEN 1 ELSE 0)
      BY <1>0, <1>4, QueuedAppend
    <3>3. CASE r.id = id
      <4>1. AskingIn(call', id) = AskingIn(call, id) \ {v} /\ v \in AskingIn(call, id)
        BY <1>0, <1>4, <1>8, <3>3 DEF AskingIn, CallAt
      <4>2. Cardinality(AskingIn(call', id)) = Cardinality(AskingIn(call, id)) - 1
        BY <3>1, <4>1, FS_RemoveElement
      <4> QED BY <3>1, <3>2, <3>3, <4>2
    <3>4. CASE r.id # id
      <4>1. AskingIn(call', id) = AskingIn(call, id)
        BY <1>0, <1>4, <1>8, <3>4 DEF AskingIn, CallAt
      <4> QED BY <3>1, <3>2, <3>4, <4>1
    <3> QED BY <3>3, <3>4
  <2>2. \A j \in Slot : sock[j].sending =
                        IF sock[j].tcp THEN Cardinality(QueuedIn(pipe, sock[j].id))
                                              + Cardinality(AskingIn(call, sock[j].id))
                                       ELSE 0
    BY CountsForm DEF SockInv
  <2>3. \A j \in Slot : sock[j].sending =
                        IF sock[j].tcp THEN Cardinality(QueuedIn(pipe', sock[j].id))
                                              + Cardinality(AskingIn(call', sock[j].id))
                                       ELSE 0
    BY <2>1, <2>2
  <2>4. \A id : Queued(id)' = QueuedIn(pipe', id) /\ Asking(id)' = AskingIn(call', id)
    BY DEF Queued, Asking, QueuedIn, AskingIn, DataAt
  <2> QED BY <1>0, <2>3, <2>4 DEF Counts
<1> QED BY <1>9, <1>10, <1>11, <1>12 DEF SockInv

(* socket_server_send begins *)
LEMMA SendStartKeeps ==
    ASSUME Types0, SockInv, NEW v \in Service, NEW id \in Id, NEW p \in Packet, NEW lp \in BOOLEAN,
           SendStart(v, id, p, lp)
    PROVE  /\ Types0' /\ SockInv'
           /\ call'[v].pc \in {"out", "trylock", "inc"} /\ \A w \in Service : w # v => call'[w] = call[w]
           /\ call'[v].pc # "out" => call'[v].id = id /\ call'[v].p = p /\ Of(id).id = id
           /\ sentBy' = [sentBy EXCEPT ![p] = v]
<1> DEFINE s == Of(id)
           c == IF s.id # id \/ s.type = "INVALID" THEN Out
                ELSE [pc |-> IF ~lp /\ CanDirectWrite(s, id) THEN "trylock" ELSE "inc", id |-> id, p |-> p]
<1>0. /\ call[v].pc = "out" /\ known[id] = "conn" /\ work < MaxWork /\ work' = work + 1
      /\ lowp' = (IF lp THEN lowp \cup {p} ELSE lowp) /\ sentBy' = [sentBy EXCEPT ![p] = v]
      /\ call' = [call EXCEPT ![v] = c]
      /\ UNCHANGED <<sock, alloc_id, pipe, io, known, wire>>
  BY DEF SendStart, Work
<1>1. /\ c \in CallRecord /\ c.pc \in {"out", "trylock", "inc"}
      /\ c.pc # "out" => c.id = id /\ c.p = p /\ Of(id).id = id
  BY DEF CallRecord, Out
<1> HIDE DEF c
<1>2. /\ call' \in [Service -> CallRecord] /\ call'[v] = c
      /\ \A w \in Service : w # v => call'[w] = call[w]
  BY <1>0, <1>1 DEF Types0
<1>3. Types0'
  <2>1. work' \in 0..MaxWork
    BY <1>0, SocketAssumption DEF Types0
  <2>2. sentBy' \in [Packet -> Service \cup {None}] /\ lowp' \subseteq Packet
    BY <1>0 DEF Types0
  <2> QED BY <1>0, <1>2, <2>1, <2>2 DEF Types0
<1>4. Slots /\ Ids /\ Locks /\ Counts /\ 0 \in Slot /\ PipeMap(0)
  BY <1>0, SocketAssumption, PipeSame DEF SockInv, Slot
<1>5. Kept(0) /\ sock' = sock
  BY <1>0, <1>4, KeptSame
<1>6. Told(0)
  BY <1>0, <1>4, <1>5, ToldNothing DEF Slots
<1>7. Slots'
  BY <1>4, <1>5, <1>6, SlotsStep DEF Kept, Told
<1>8. Ids'
  <2>1. CallsAllowed
    BY <1>0, <1>1, <1>2 DEF CallsAllowed, Calling
  <2>2. SameIds
    BY <1>5 DEF SameIds
  <2> QED BY <1>4, <1>6, <2>1, <2>2, IdsStep DEF Told
<1>9. Locks'
  <2>1. \A w \in Service : call'[w].pc \in {"check", "write"} => call'[w] = call[w]
    BY <1>1, <1>2
  <2>2. \A w \in Service : call[w].pc \in {"check", "write"} => call'[w] = call[w]
    BY <1>0, <1>2
  <2>3. \A j \in Slot : sock[j].lock # None => sock[j].lock \in Service
    BY RecordFields DEF Types0
  <2> QED BY <1>4, <1>5, <2>1, <2>2, <2>3 DEF Locks, Of, Open
<1>10. Counts'
  <2>1. \A x : AskingIn(call', x) = AskingIn(call, x)
    BY <1>0, <1>1, <1>2, AskingSame
  <2>2. \A x \in Id \cup {0} : SameCount(x)
    BY <1>0, <2>1 DEF SameCount
  <2> QED BY <1>3, <1>4, <1>5, <2>2, CountsStep
<1> QED BY <1>0, <1>1, <1>2, <1>3, <1>7, <1>8, <1>9, <1>10 DEF SockInv

-----------------------------------------------------------------------------
(* Slots that come into use                                                 *)

(* Nobody uses slot i, and nothing that is under way is about its id. *)
Unused(i) ==
    /\ \A v \in Service : Calling(v) => call[v].id # sock[i].id /\ Hash(call[v].id) # i
    /\ sock[i].lock = None

(* open_socket and listen_socket: the request finds the slot reserved for it. *)
LEMMA HeadReserved ==
    ASSUME Types0, SockInv, pipe # << >>, OpenAt(1)
    PROVE  /\ Req.id \in Id /\ Hash(Req.id) \in Slot /\ Of(Req.id) = sock[Hash(Req.id)] /\ Req = pipe[1]
           /\ 1 \in DOMAIN pipe
           /\ sock[Hash(Req.id)] \in Record /\ sock[Hash(Req.id)].id = Req.id
           /\ sock[Hash(Req.id)].type = "RESERVE"
           /\ ~sock[Hash(Req.id)].tcp /\ Unused(Hash(Req.id)) /\ known[Req.id] # "conn"
           /\ \A k \in DOMAIN pipe : DataAt(k) => pipe[k].id # Req.id
           /\ \A v \in Service : Calling(v) => call[v].id # Req.id
           /\ Req.id <= alloc_id
<1> DEFINE i == Hash(Req.id)
<1>1. Req.id \in Id /\ i \in Slot /\ Of(Req.id) = sock[i] /\ Req = pipe[1] /\ 1 \in DOMAIN pipe /\ sock[i] \in Record
  BY Basics
<1>2. sock[i].id = Req.id /\ sock[i].type = "RESERVE" /\ Req.id <= alloc_id
  BY <1>1 DEF SockInv, Ids
<1>3. ~sock[i].tcp /\ known[Req.id] # "conn" /\ sock[i].lock = None
  BY <1>1, <1>2 DEF SockInv, Slots, SlotSound, Unborn
<1>4. \A k \in DOMAIN pipe : DataAt(k) => pipe[k].id # Req.id
  BY <1>3 DEF SockInv, Ids
<1>5. ASSUME NEW v \in Service, Calling(v) PROVE call[v].id # Req.id /\ Hash(call[v].id) # i
  <2>1. call[v].id # Req.id
    BY <1>3, <1>5 DEF SockInv, Ids
  <2>2. Of(call[v].id).id = call[v].id
    BY <1>5 DEF SockInv, Ids
  <2> QED BY <1>2, <2>1, <2>2 DEF Of
<1> QED BY <1>1, <1>2, <1>3, <1>4, <1>5 DEF Unused

(* Calls and locks do not see a slot that nobody uses. *)
LEMMA UnusedLocks ==
    ASSUME Types0, SockInv, NEW i \in Slot, Unused(i), Moved(i), sock'[i].lock = None, UNCHANGED call
    PROVE  Locks'
<1>0. Locks /\ \A v \in Service : Calling(v) => call[v].id \in Id /\ Hash(call[v].id) \in Slot
                                                /\ Of(call[v].id) = sock[Hash(call[v].id)]
  BY Basics DEF SockInv
<1>1. ASSUME NEW v \in Service, call[v].pc \in {"check", "write"}
      PROVE  sock'[Hash(call[v].id)] = Of(call[v].id)
  <2>1. Calling(v)
    BY <1>1 DEF Calling
  <2> QED BY <1>0, <2>1 DEF Unused, Moved
<1>2. \A j \in Slot : sock'[j].lock # None => j # i /\ sock'[j] = sock[j]
  BY DEF Moved
<1>3. call' = call
  OBVIOUS
<1> QED BY <1>0, <1>1, <1>2, <1>3 DEF Locks, Of, Open

(* open_socket and listen_socket turn the reserved slot into one in use, or   *)
(* give it back.                                                              *)
LEMMA OpenKeeps ==
    ASSUME Types0, Types0', SockInv, pipe # << >>, OpenAt(1), NextRequest,
           NEW i \in Slot, i = Hash(Req.id), Moved(i),
           sock'[i].id = Req.id, sock'[i].sending = 0, SlotSound(sock'[i]), sock'[i].type # "RESERVE",
           sock'[i].lock = None, UNCHANGED <<alloc_id, call, io>>, io = None,
           \A id \in Id : id # Req.id => known'[id] = known[id],
           \/ known'[Req.id] = known[Req.id]
           \/ known'[Req.id] = "conn" /\ sock'[i].tcp /\ ~Unborn(sock'[i])
    PROVE  SockInv'
<1>0. /\ Req.id \in Id /\ Of(Req.id) = sock[i] /\ Req = pipe[1] /\ 1 \in DOMAIN pipe
      /\ sock[i] \in Record /\ sock[i].id = Req.id
      /\ sock[i].type = "RESERVE" /\ Req.id <= alloc_id
      /\ ~sock[i].tcp /\ Unused(i) /\ known[Req.id] # "conn"
      /\ \A k \in DOMAIN pipe : DataAt(k) => pipe[k].id # Req.id
      /\ \A v \in Service : Calling(v) => call[v].id # Req.id
  BY HeadReserved
<1>1. Slots /\ Ids /\ Locks /\ Counts
  BY DEF SockInv
<1>2. \A j \in Slot : sock'[j].id = sock[j].id /\ (j # i => sock'[j] = sock[j] /\ sock[j].id # Req.id)
  <2>1. \A j \in Slot : sock[j].id = Req.id => j = i
    BY <1>0, <1>1, Basics DEF Slots
  <2> QED BY <1>0, <2>1 DEF Moved
<1>3. Slots'
  <2>1. \A j \in Slot : SlotSound(sock'[j])
    BY <1>1, <1>2 DEF Slots
  <2>2. \A j \in Slot : sock'[j].id # 0 => Hash(sock'[j].id) = j /\ sock'[j].id <= alloc_id'
    BY <1>1, <1>2 DEF Slots
  <2>3. ASSUME NEW j \in Slot, Unborn(sock'[j]) PROVE known'[sock'[j].id] # "conn"
    <3>1. CASE j = i
      BY <1>0, <2>3, <3>1
    <3>2. CASE j # i
      <4>1. Unborn(sock[j]) /\ sock[j].id # Req.id /\ sock[j].type # "INVALID"
        BY <1>2, <2>3, <3>2 DEF Unborn
      <4>2. sock[j].id \in Id /\ known[sock[j].id] # "conn"
        <5>1. sock[j].id # 0
          BY <1>1, <4>1 DEF Slots, SlotSound
        <5> QED BY <1>1, <4>1, <5>1, Basics, RecordFields DEF Slots
      <4> QED BY <1>2, <4>1, <4>2
    <3> QED BY <3>1, <3>2
  <2>4. \A j \in Slot : SlotSound(sock'[j]) <=> SlotSound(sock[j])'
    BY DEF SlotSound, NoData, BufferEmpty, Open
  <2> QED BY <2>1, <2>2, <2>3, <2>4 DEF Slots, Unborn, Hash
<1>4. Ids'
  <2>0. /\ \A id \in Id : Hash(id) \in Slot /\ Of(id) = sock[Hash(id)]
        /\ \A k \in DOMAIN pipe : pipe[k].id \in Id
        /\ \A v \in Service : Calling(v) => call[v].id \in Id
    BY Basics
  <2>1. \A id \in Id : known'[id] # None => id <= alloc_id'
    BY <1>0, <1>1 DEF Ids
  <2>2. ASSUME NEW id \in Id, known'[id] = "conn", sock'[Hash(id)].id = id PROVE sock'[Hash(id)].tcp
    <3>1. CASE Hash(id) = i
      BY <1>0, <2>2, <3>1
    <3>2. CASE Hash(id) # i
      <4>1. id # Req.id /\ sock'[Hash(id)] = Of(id)
        BY <1>2, <2>0, <3>2
      <4> QED BY <1>1, <2>2, <4>1 DEF Ids
    <3> QED BY <3>1, <3>2
  <2>3. ASSUME NEW v \in Service, Calling(v)
        PROVE  known'[call[v].id] = "conn" /\ sock'[Hash(call[v].id)].id = call[v].id
    <3>1. call[v].id \in Id /\ call[v].id # Req.id
      BY <1>0, <2>0, <2>3
    <3>2. known[call[v].id] = "conn" /\ Of(call[v].id).id = call[v].id
      BY <1>1, <2>3 DEF Ids
    <3> QED BY <1>2, <2>0, <3>1, <3>2
  <2>4. /\ DOMAIN pipe' \subseteq Nat \ {0}
        /\ \A k \in DOMAIN pipe' : k + 1 \in DOMAIN pipe /\ pipe'[k] = pipe[k + 1]
        /\ \A k \in DOMAIN pipe : k # 1 => k - 1 \in DOMAIN pipe' /\ pipe'[k - 1] = pipe[k]
    <3>1. /\ DOMAIN pipe' \subseteq Nat /\ DOMAIN pipe \subseteq Nat
          /\ \A k \in Int : k \in DOMAIN pipe' <=> k + 1 \in DOMAIN pipe /\ k # 0
          /\ \A k \in DOMAIN pipe' : pipe'[k] = pipe[k + 1]
      BY PipeTail
    <3>2. 0 \notin DOMAIN pipe'
      BY <3>1
    <3>3. \A k \in DOMAIN pipe : k # 1 => k - 1 \in DOMAIN pipe' /\ pipe'[k - 1] = pipe[k]
      <4> TAKE k \in DOMAIN pipe
      <4> HAVE k # 1
      <4>1. k - 1 \in Int /\ (k - 1) + 1 = k /\ k - 1 # 0
        BY <3>1
      <4> QED BY <3>1, <4>1
    <3>4. \A k \in DOMAIN pipe' : k + 1 \in DOMAIN pipe
      BY <3>1
    <3> QED BY <3>1, <3>2, <3>3, <3>4
  <2>5. \A k \in DOMAIN pipe' : pipe'[k].op \in {"O", "L"} => pipe'[k].id # Req.id
    <3> TAKE k \in DOMAIN pipe'
    <3>1. 1 < k + 1 /\ k + 1 \in DOMAIN pipe /\ pipe'[k] = pipe[k + 1]
      BY <2>4
    <3> QED BY <1>0, <1>1, <3>1 DEF Ids, OpenAt
  <2>6. ASSUME NEW k \in DOMAIN pipe'
        PROVE  /\ pipe'[k].id <= alloc_id'
               /\ pipe'[k].op \in SendOps => known'[pipe'[k].id] = "conn"
               /\ pipe'[k].op \notin {"O", "L"} => known'[pipe'[k].id] # None
               /\ pipe'[k].op \in {"O", "L"} =>
                    sock'[Hash(pipe'[k].id)].id = pipe'[k].id /\ sock'[Hash(pipe'[k].id)].type = "RESERVE"
    <3> DEFINE r == pipe[k + 1]
    <3>1. r = pipe'[k] /\ r.id \in Id /\ k + 1 \in DOMAIN pipe
      BY <2>0, <2>4
    <3>2. /\ r.id <= alloc_id /\ (r.op \in SendOps => known[r.id] = "conn")
          /\ r.op \notin {"O", "L"} => known[r.id] # None
          /\ r.op \in {"O", "L"} => Of(r.id).id = r.id /\ Of(r.id).type = "RESERVE"
      BY <1>1, <3>1 DEF Ids, DataAt, OpenAt
    <3>3. r.op \in {"O", "L"} => r.id # Req.id
      BY <2>5, <3>1
    <3> HIDE DEF r
    <3>4. r.op \in {"O", "L"} => sock'[Hash(r.id)] = Of(r.id)
      BY <1>0, <1>2, <2>0, <3>1, <3>2, <3>3
    <3>5. known[r.id] # None => known'[r.id] # None
      BY <3>1, SocketAssumption
    <3>6. known[r.id] = "conn" => known'[r.id] = "conn"
      BY <3>1
    <3> QED BY <3>1, <3>2, <3>4, <3>5, <3>6
  <2>7. ASSUME NEW k \in DOMAIN pipe', NEW l \in DOMAIN pipe', k < l, pipe'[l].op \in {"O", "L"}
        PROVE  pipe'[k].id # pipe'[l].id
    <3>1. k + 1 < l + 1
      BY <2>4, <2>7
    <3> QED BY <1>1, <2>4, <2>7, <3>1 DEF Ids, OpenAt
  <2>8. ASSUME NEW id \in Id, known'[id] = "listen", sock'[Hash(id)].id = id, sock'[Hash(id)].type = "RESERVE"
        PROVE  \E k \in DOMAIN pipe' : pipe'[k].op \in {"O", "L"} /\ pipe'[k].id = id
    <3>1. Hash(id) # i /\ id # Req.id
      BY <2>8
    <3>2. known[id] = "listen" /\ Of(id).id = id /\ Of(id).type = "RESERVE"
      BY <1>2, <2>0, <2>8, <3>1
    <3>3. PICK k \in DOMAIN pipe : OpenAt(k) /\ pipe[k].id = id
      BY <1>1, <3>2 DEF Ids
    <3>4. k # 1
      BY <1>0, <3>1, <3>3
    <3> QED BY <2>4, <3>3, <3>4 DEF OpenAt
  <2> QED BY <2>1, <2>2, <2>3, <2>6, <2>7, <2>8 DEF Ids, DataAt, OpenAt, Calling, Of
<1>5. Locks'
  BY <1>0, UnusedLocks
<1>6. Counts'
  <2>1. ~DataAt(1)
    BY DEF DataAt, OpenAt, SendOps
  <2>2. ASSUME NEW id PROVE SameCount(id)
    <3>1. Cardinality(QueuedIn(pipe', id)) = Cardinality(QueuedIn(pipe, id)) - 0
      BY <2>1, QueuedTail
    <3>2. Cardinality(QueuedIn(pipe, id)) \in Nat
      BY CountForms
    <3> QED BY <3>1, <3>2 DEF SameCount
  <2>3. \A j \in Slot : sock[j].sending =
                        IF sock[j].tcp THEN Cardinality(QueuedIn(pipe, sock[j].id))
                                              + Cardinality(AskingIn(call, sock[j].id))
                                       ELSE 0
    BY <1>1, CountsForm
  <2>4. Cardinality(QueuedIn(pipe, Req.id)) + Cardinality(AskingIn(call, Req.id)) = 0
    <3>1. QueuedIn(pipe, Req.id) = {}
      BY <1>0 DEF QueuedIn, DataAt
    <3>2. AskingIn(call, Req.id) = {}
      BY <1>0 DEF AskingIn, Calling
    <3> QED BY <3>1, <3>2, FS_EmptySet
  <2>5. \A j \in Slot : sock'[j].sending =
                        IF sock'[j].tcp THEN Cardinality(QueuedIn(pipe', sock'[j].id))
                                              + Cardinality(AskingIn(call', sock'[j].id))
                                        ELSE 0
    <3> TAKE j \in Slot
    <3>1. SameCount(sock'[j].id)
      BY <2>2
    <3>2. CASE j = i
      BY <2>4, <3>1, <3>2 DEF SameCount
    <3>3. CASE j # i
      BY <1>2, <2>3, <3>1, <3>3 DEF SameCount
    <3> QED BY <3>2, <3>3
  <2>6. \A id : Queued(id)' = QueuedIn(pipe', id) /\ Asking(id)' = AskingIn(call', id)
    BY DEF Queued, Asking, QueuedIn, AskingIn, DataAt
  <2> QED BY <2>5, <2>6 DEF Counts
<1> QED BY <1>3, <1>4, <1>5, <1>6 DEF SockInv

(* The slot that new_fd sets up: a stream, with nothing to send. *)
NewFdSlot(id, type) ==
    [Closed EXCEPT !.type = type, !.id = id, !.tcp = TRUE, !.wev = (type = "CONNECTING")]

(* new_fd makes a sound slot without data. *)
LEMMA NewFdFacts ==
    ASSUME NEW id \in Id, NEW type \in {"CONNECTED", "CONNECTING", "PLISTEN"}
    PROVE  /\ NewFdSlot(id, type) \in Record /\ NewFdSlot(id, type).id = id /\ NewFdSlot(id, type).tcp = TRUE
           /\ NewFdSlot(id, type).type = type /\ NewFdSlot(id, type).sending = 0
           /\ NewFdSlot(id, type).lock = None
           /\ NoData(NewFdSlot(id, type)) /\ SlotSound(NewFdSlot(id, type))
<1> DEFINE s == NewFdSlot(id, type)
<1>0. id # 0 /\ None \in Buffer \cup {None} /\ None \in Service \cup {None} /\ type \in Types
      /\ << >> \in Seq(Buffer)
  BY SocketAssumption DEF Id, Types
<1> DEFINE b == (type = "CONNECTING")
<1>1. s = [type |-> type, id |-> id, tcp |-> TRUE, sending |-> 0, high |-> << >>, low |-> << >>,
           wev |-> b, dw |-> None, lock |-> None] /\ b \in BOOLEAN
  <2>1. s = [Closed EXCEPT !.type = type, !.id = id, !.tcp = TRUE, !.wev = b] /\ b \in BOOLEAN
    BY DEF NewFdSlot
  <2> HIDE DEF s, b
  <2> QED BY <2>1 DEF Closed
<1> HIDE DEF b
<1>2. s \in Record
  BY <1>0, <1>1 DEF Record
<1>3. /\ s.id = id /\ s.tcp = TRUE /\ s.type = type /\ s.sending = 0 /\ s.lock = None
      /\ s.high = << >> /\ s.low = << >> /\ s.dw = None
  BY <1>1
<1>4. NoData(s)
  BY <1>3 DEF NoData, BufferEmpty
<1>5. SlotSound(s)
  BY <1>0, <1>3, <1>4 DEF SlotSound, Open
<1> QED BY <1>2, <1>3, <1>4, <1>5 DEF s

(* open_socket and listen_socket *)
LEMMA CtrlOpenKeeps ==
    ASSUME Types0, SockInv, CtrlOpen
    PROVE  /\ Types0' /\ SockInv' /\ HasRequest("O") /\ NextRequest /\ Moved(Hash(Req.id))
           /\ sock'[Hash(Req.id)].id = Req.id /\ NoData(sock'[Hash(Req.id)]) /\ sock'[Hash(Req.id)].lock = None
           /\ \A id \in Id : id # Req.id => known'[id] = known[id]
<1> DEFINE i == Hash(Req.id)
           t == [sock[i] EXCEPT !.type = "INVALID"]
<1>0. /\ HasRequest("O") /\ NextRequest /\ UNCHANGED <<alloc_id, call, io, wire, sentBy, lowp, work>>
      /\ pipe # << >> /\ Req.op = "O" /\ io = None
  BY DEF CtrlOpen, HasRequest, Free, Req
<1>1. OpenAt(1)
  BY <1>0, Basics DEF OpenAt
<1>2. /\ Req.id \in Id /\ i \in Slot /\ Of(Req.id) = sock[i] /\ sock[i] \in Record /\ sock[i].id = Req.id
      /\ sock[i].type = "RESERVE" /\ ~sock[i].tcp /\ Unused(i) /\ known[Req.id] # "conn"
  BY <1>0, <1>1, HeadReserved
<1>3. /\ t \in Record /\ t.id = Req.id /\ ~t.tcp /\ t.type = "INVALID" /\ t.sending = 0 /\ t.lock = None
      /\ NoData(t) /\ SlotSound(t)
  <2>1. /\ t \in Record /\ t.id = sock[i].id /\ t.tcp = sock[i].tcp /\ t.type = "INVALID"
        /\ t.sending = sock[i].sending /\ t.lock = sock[i].lock /\ t.high = sock[i].high
        /\ t.low = sock[i].low /\ t.dw = sock[i].dw
    BY <1>2 DEF Record, Types
  <2>2. sock[i].sending = 0 /\ sock[i].lock = None /\ SlotSound(sock[i])
    BY <1>2 DEF SockInv, Counts, Unused, Slots
  <2>3. NoData(sock[i])
    BY <1>2, <2>2 DEF SlotSound, Open
  <2> HIDE DEF t
  <2>4. NoData(t)
    BY <2>1, <2>3 DEF NoData, BufferEmpty
  <2>5. SlotSound(t)
    BY <1>2, <2>1, <2>4 DEF SlotSound, Open
  <2> QED BY <1>2, <2>1, <2>2, <2>4, <2>5
<1>4. \/ Set(i, NewFdSlot(Req.id, "CONNECTED")) /\ known' = [known EXCEPT ![Req.id] = "conn"]
      \/ Set(i, NewFdSlot(Req.id, "CONNECTING")) /\ UNCHANGED known
      \/ Set(i, t) /\ UNCHANGED known
  BY <1>2 DEF CtrlOpen, NewFd, NewFdSlot
<1> HIDE DEF t
<1>5. PICK s \in Record : /\ Set(i, s) /\ s.id = Req.id /\ s.sending = 0 /\ SlotSound(s) /\ NoData(s)
                          /\ s.type \notin {"RESERVE"} /\ s.lock = None
                          /\ \/ UNCHANGED known
                             \/ known' = [known EXCEPT ![Req.id] = "conn"] /\ s.tcp = TRUE /\ ~Unborn(s)
  <2>1. CASE Set(i, NewFdSlot(Req.id, "CONNECTED")) /\ known' = [known EXCEPT ![Req.id] = "conn"]
    BY <1>2, <2>1, NewFdFacts DEF Unborn
  <2>2. CASE Set(i, NewFdSlot(Req.id, "CONNECTING")) /\ UNCHANGED known
    BY <1>2, <2>2, NewFdFacts
  <2>3. CASE Set(i, t) /\ UNCHANGED known
    BY <1>3, <2>3
  <2> QED BY <1>4, <2>1, <2>2, <2>3
<1>6. Moved(i) /\ sock'[i] = s
  BY <1>2, <1>5, SetFacts
<1>7. /\ known' \in [Id -> {"listen", "conn", None}] /\ \A id \in Id : id # Req.id => known'[id] = known[id]
      /\ known'[Req.id] = known[Req.id] \/ (known'[Req.id] = "conn" /\ s.tcp /\ ~Unborn(s))
  BY <1>2, <1>5 DEF Types0
<1>8. Types0'
  BY <1>0, <1>6, <1>7, PipeTail DEF Types0, Moved, PipeMap
<1> HIDE DEF i
<1>9. SockInv'
  BY <1>0, <1>1, <1>2, <1>5, <1>6, <1>7, <1>8, OpenKeeps DEF i
<1> QED BY <1>0, <1>5, <1>6, <1>7, <1>8, <1>9 DEF i

(* listen_socket *)
LEMMA CtrlListenKeeps ==
    ASSUME Types0, SockInv, CtrlListen
    PROVE  /\ Types0' /\ SockInv' /\ HasRequest("L") /\ NextRequest /\ Moved(Hash(Req.id))
           /\ sock'[Hash(Req.id)].id = Req.id /\ NoData(sock'[Hash(Req.id)]) /\ sock'[Hash(Req.id)].lock = None
<1> DEFINE i == Hash(Req.id)
           s == NewFdSlot(Req.id, "PLISTEN")
<1>0. /\ HasRequest("L") /\ NextRequest /\ UNCHANGED <<alloc_id, call, io, known, wire, sentBy, lowp, work>>
      /\ pipe # << >> /\ Req.op = "L" /\ io = None
  BY DEF CtrlListen, HasRequest, Free, Req
<1>1. OpenAt(1)
  BY <1>0, Basics DEF OpenAt
<1>2. Req.id \in Id /\ i \in Slot
  BY <1>0, <1>1, HeadReserved
<1>3. Set(i, s)
  BY DEF CtrlListen, NewFd, NewFdSlot
<1>4. /\ s \in Record /\ s.id = Req.id /\ s.sending = 0 /\ SlotSound(s) /\ NoData(s)
      /\ s.type = "PLISTEN" /\ s.lock = None
  BY <1>2, NewFdFacts
<1> HIDE DEF s
<1>6. Moved(i) /\ sock'[i] = s
  BY <1>2, <1>3, <1>4, SetFacts
<1>8. Types0'
  BY <1>0, <1>6, PipeTail DEF Types0, Moved, PipeMap
<1> HIDE DEF i
<1>9. SockInv'
  BY <1>0, <1>1, <1>2, <1>4, <1>6, <1>8, OpenKeeps DEF i
<1> QED BY <1>0, <1>4, <1>6, <1>8, <1>9 DEF i

(* reserve_id: the id is new, and its slot is free. *)
LEMMA ReserveFacts ==
    ASSUME Types0, SockInv, NEW s2, Reserve(s2)
    PROVE  /\ alloc_id' \in Id /\ alloc_id' > alloc_id /\ Hash(alloc_id') \in Slot
           /\ sock[Hash(alloc_id')].type = "INVALID" /\ Unused(Hash(alloc_id'))
           /\ Set(Hash(alloc_id'), [s2 EXCEPT !.id = alloc_id'])
<1> DEFINE free(id) == /\ Of(id).type = "INVALID"
                       /\ \A v \in Service : call[v].id # Of(id).id \/ call[v].pc = "out"
           ids == {i \in (alloc_id + 1)..MaxId : free(i)}
           id == CHOOSE i \in ids : \A j \in ids : i <= j
<1>1. ids # {} /\ alloc_id' = id /\ Set(Hash(id), [s2 EXCEPT !.id = id])
  BY DEF Reserve
<1>2. ids \subseteq Nat
  BY SocketAssumption DEF Types0
<1>3. \E i \in ids : \A j \in ids : i <= j
  <2> HIDE DEF ids
  <2> QED BY <1>1, <1>2, NatLeast
<1>4. id \in ids
  <2> HIDE DEF ids
  <2> QED BY <1>3
<1>5. id \in (alloc_id + 1)..MaxId /\ free(id)
  BY <1>4
<1>6. alloc_id' \in Id /\ alloc_id' > alloc_id
  BY <1>1, <1>5, SocketAssumption DEF Types0, Id
<1> DEFINE i == Hash(alloc_id')
<1>7. i \in Slot /\ Of(alloc_id') = sock[i]
  BY <1>6, Basics
<1>8. /\ sock[i].type = "INVALID"
      /\ \A v \in Service : call[v].id # sock[i].id \/ call[v].pc = "out"
  <2> HIDE DEF i
  <2>1. free(alloc_id')
    <3> HIDE DEF free, id
    <3> QED BY <1>1, <1>5
  <2> QED BY <1>7, <2>1
<1>9. ASSUME NEW v \in Service, Calling(v) PROVE call[v].id # sock[i].id /\ Hash(call[v].id) # i
  <2>1. call[v].id # sock[i].id
    BY <1>8, <1>9 DEF Calling
  <2>2. sock[Hash(call[v].id)].id = call[v].id
    BY <1>9 DEF SockInv, Ids, Of
  <2> QED BY <2>1, <2>2
<1>10. sock[i].lock = None
  <2> SUFFICES ASSUME sock[i].lock # None PROVE FALSE
    OBVIOUS
  <2>1. sock[i].lock \in Service
    BY <1>7, Basics, RecordFields
  <2>2. call[sock[i].lock].pc \in {"check", "write"} /\ Hash(call[sock[i].lock].id) = i
    BY <1>7 DEF SockInv, Locks
  <2> QED BY <1>9, <2>1, <2>2 DEF Calling
<1>11. Set(i, [s2 EXCEPT !.id = alloc_id'])
  <2> HIDE DEF id
  <2> QED BY <1>1
<1> QED BY <1>6, <1>7, <1>8, <1>9, <1>10, <1>11 DEF Unused

(* The pipe has one more request to open slot i for id at most. *)
PipeOpens(i, id) ==
    /\ \A k \in DOMAIN pipe : k \in DOMAIN pipe' /\ pipe'[k] = pipe[k]
    /\ \A k \in DOMAIN pipe' :
         \/ k \in DOMAIN pipe
         \/ /\ pipe'[k].op \in {"O", "L"} /\ pipe'[k].id = id /\ sock'[i].type = "RESERVE"
            /\ \A l \in DOMAIN pipe' : l # k => l \in DOMAIN pipe /\ ~(l > k)
(* Of the new id services hear no more than its slot allows. *)
ToldNew(i, id) ==
    /\ \A x \in Id : x # id => known'[x] = known[x]
    /\ known'[id] = "conn" => sock'[i].tcp /\ ~Unborn(sock'[i])
    /\ known'[id] = "listen" => \E k \in DOMAIN pipe' : pipe'[k].op \in {"O", "L"} /\ pipe'[k].id = id

(* reserve_id takes a free slot for an id that was never used. *)
LEMMA ReserveKeeps ==
    ASSUME Types0, Types0', SockInv, NEW id \in Id, id > alloc_id, alloc_id' = id,
           NEW i \in Slot, i = Hash(id), Moved(i), sock[i].type = "INVALID", Unused(i),
           sock'[i].id = id, sock'[i].sending = 0, SlotSound(sock'[i]), sock'[i].lock = None,
           UNCHANGED <<call, io>>, PipeOpens(i, id), ToldNew(i, id)
    PROVE  SockInv'
<1>0. /\ \A x \in Id : x \in Nat /\ Hash(x) \in Slot /\ Of(x) = sock[Hash(x)]
      /\ \A k \in DOMAIN pipe : pipe[k].id \in Id
      /\ \A v \in Service : Calling(v) => call[v].id \in Id
      /\ alloc_id \in Nat
  BY Basics
<1>1. Slots /\ Ids /\ Locks /\ Counts
  BY DEF SockInv
<1>2. /\ \A j \in Slot : j # i => sock'[j] = sock[j]
      /\ \A j \in Slot : sock[j].id \in Id \cup {0} /\ sock[j].id <= alloc_id
  <2>1. ASSUME NEW j \in Slot PROVE sock[j].id \in Id \cup {0} /\ sock[j].id <= alloc_id
    <3>1. sock[j].id \in Id \cup {0}
      BY RecordFields DEF Types0
    <3> QED BY <1>0, <1>1, <3>1 DEF Slots
  <2> QED BY <2>1 DEF Moved
<1>3. \A x \in Id : known[x] # None => x # id /\ known'[x] = known[x] /\ x <= id
  <2>1. \A x \in Id : known[x] # None => x <= alloc_id
    BY <1>1 DEF Ids
  <2>2. \A x \in Id : known[x] # None => x # id /\ x <= id
    BY <1>0, <2>1
  <2> QED BY <2>2 DEF ToldNew
<1>4. Slots'
  <2>1. \A j \in Slot : SlotSound(sock'[j])
    BY <1>1, <1>2 DEF Slots
  <2>2. ASSUME NEW j \in Slot, sock'[j].id # 0 PROVE Hash(sock'[j].id) = j /\ sock'[j].id <= alloc_id'
    <3>1. CASE j = i
      BY <1>0, <3>1
    <3>2. CASE j # i
      <4>1. Hash(sock[j].id) = j /\ sock[j].id <= alloc_id /\ sock[j].id \in Nat
        BY <1>0, <1>1, <1>2, <2>2, <3>2 DEF Slots
      <4> QED BY <1>0, <1>2, <3>2, <4>1
    <3> QED BY <3>1, <3>2
  <2>3. ASSUME NEW j \in Slot, Unborn(sock'[j]) PROVE known'[sock'[j].id] # "conn"
    <3>1. CASE j = i
      BY <2>3, <3>1 DEF ToldNew
    <3>2. CASE j # i
      <4>1. Unborn(sock[j]) /\ sock[j].type # "INVALID" /\ sock'[j].id = sock[j].id
        BY <1>2, <2>3, <3>2 DEF Unborn
      <4>2. sock[j].id # 0 /\ known[sock[j].id] # "conn"
        BY <1>1, <4>1 DEF Slots, SlotSound
      <4>3. sock[j].id \in Id /\ sock[j].id # id
        BY <1>0, <1>2, <4>2
      <4> QED BY <4>1, <4>2, <4>3 DEF ToldNew
    <3> QED BY <3>1, <3>2
  <2>4. io' # None => sock'[io'].type \notin {"INVALID", "RESERVE"}
    <3> SUFFICES ASSUME io # None PROVE sock'[io].type \notin {"INVALID", "RESERVE"}
      OBVIOUS
    <3>1. io \in Slot /\ sock[io].type \notin {"INVALID", "RESERVE"}
      BY <1>1 DEF Slots, Types0
    <3> QED BY <1>2, <3>1
  <2>5. \A j \in Slot : SlotSound(sock'[j]) <=> SlotSound(sock[j])'
    BY DEF SlotSound, NoData, BufferEmpty, Open
  <2> QED BY <2>1, <2>2, <2>3, <2>4, <2>5 DEF Slots, Unborn, Hash
<1>5. Ids'
  <2>1. \A x \in Id : known'[x] # None => x <= alloc_id'
    <3> TAKE x \in Id
    <3>1. CASE x = id
      BY <1>0, <3>1
    <3>2. CASE x # id
      BY <1>3, <3>2 DEF ToldNew
    <3> QED BY <3>1, <3>2
  <2>2. ASSUME NEW x \in Id, known'[x] = "conn", sock'[Hash(x)].id = x PROVE sock'[Hash(x)].tcp
    <3>1. CASE x = id
      BY <2>2, <3>1 DEF ToldNew
    <3>2. CASE x # id
      <4>1. Hash(x) # i /\ Hash(x) \in Slot /\ known[x] = "conn"
        BY <1>0, <2>2, <3>2 DEF ToldNew
      <4>2. sock'[Hash(x)] = Of(x)
        BY <1>0, <1>2, <4>1
      <4> QED BY <1>1, <2>2, <4>1, <4>2 DEF Ids
    <3> QED BY <3>1, <3>2
  <2>3. ASSUME NEW v \in Service, Calling(v)
        PROVE  known'[call[v].id] = "conn" /\ sock'[Hash(call[v].id)].id = call[v].id
    <3>1. call[v].id \in Id /\ known[call[v].id] = "conn" /\ Of(call[v].id).id = call[v].id
      BY <1>0, <1>1, <2>3 DEF Ids
    <3>2. Hash(call[v].id) # i /\ Hash(call[v].id) \in Slot
      BY <1>0, <2>3, <3>1 DEF Unused
    <3>3. known'[call[v].id] = "conn"
      BY <1>3, <3>1, SocketAssumption
    <3> QED BY <1>0, <1>2, <3>1, <3>2, <3>3
  <2>4. ASSUME NEW k \in DOMAIN pipe
        PROVE  /\ pipe[k].id \in Id /\ pipe[k].id <= alloc_id' /\ pipe[k].id # id
               /\ pipe[k].op \in SendOps => known'[pipe[k].id] = "conn"
               /\ pipe[k].op \notin {"O", "L"} => known'[pipe[k].id] # None
               /\ pipe[k].op \in {"O", "L"} =>
                    sock'[Hash(pipe[k].id)].id = pipe[k].id /\ sock'[Hash(pipe[k].id)].type = "RESERVE"
    <3> DEFINE r == pipe[k]
    <3>1. /\ r.id \in Id /\ r.id <= alloc_id /\ (r.op \in SendOps => known[r.id] = "conn")
          /\ r.op \notin {"O", "L"} => known[r.id] # None
          /\ r.op \in {"O", "L"} => Of(r.id).id = r.id /\ Of(r.id).type = "RESERVE"
      BY <1>0, <1>1 DEF Ids, DataAt, OpenAt
    <3> HIDE DEF r
    <3>2. r.id # id /\ r.id <= alloc_id' /\ r.id \in Nat
      BY <1>0, <3>1
    <3>3. known'[r.id] = known[r.id]
      BY <3>1, <3>2 DEF ToldNew
    <3>4. Hash(r.id) \in Slot /\ Of(r.id) = sock[Hash(r.id)]
      BY <1>0, <3>1
    <3>5. r.op \in {"O", "L"} => Hash(r.id) # i /\ sock'[Hash(r.id)] = Of(r.id)
      BY <1>2, <3>1, <3>4
    <3> QED BY <3>1, <3>2, <3>3, <3>5 DEF r
  <2>5. ASSUME NEW k \in DOMAIN pipe'
        PROVE  /\ pipe'[k].id <= alloc_id'
               /\ pipe'[k].op \in SendOps => known'[pipe'[k].id] = "conn"
               /\ pipe'[k].op \notin {"O", "L"} => known'[pipe'[k].id] # None
               /\ pipe'[k].op \in {"O", "L"} =>
                    sock'[Hash(pipe'[k].id)].id = pipe'[k].id /\ sock'[Hash(pipe'[k].id)].type = "RESERVE"
    <3>1. CASE k \in DOMAIN pipe
      <4>1. pipe'[k] = pipe[k]
        BY <3>1 DEF PipeOpens
      <4> QED BY <2>4, <3>1, <4>1
    <3>2. CASE pipe'[k].op \in {"O", "L"} /\ pipe'[k].id = id /\ sock'[i].type = "RESERVE"
      BY <1>0, <3>2 DEF SendOps
    <3> QED BY <3>1, <3>2 DEF PipeOpens
  <2>6. ASSUME NEW k \in DOMAIN pipe', NEW l \in DOMAIN pipe', k < l, pipe'[l].op \in {"O", "L"}
        PROVE  pipe'[k].id # pipe'[l].id
    <3>0. k \in Nat /\ l \in Nat
      <4>1. pipe' \in Seq(Requests)
        BY DEF Types0
      <4> QED BY <4>1
    <3>1. k \in DOMAIN pipe
      <4> SUFFICES ASSUME k \notin DOMAIN pipe PROVE FALSE
        OBVIOUS
      <4>1. l # k /\ l > k
        BY <2>6, <3>0
      <4> QED BY <4>1 DEF PipeOpens
    <3>2. pipe'[k] = pipe[k]
      BY <3>1 DEF PipeOpens
    <3>3. CASE l \in DOMAIN pipe
      <4>1. pipe'[l] = pipe[l]
        BY <3>3 DEF PipeOpens
      <4> QED BY <1>1, <2>6, <3>1, <3>2, <3>3, <4>1 DEF Ids, OpenAt
    <3>4. CASE l \notin DOMAIN pipe
      <4>1. pipe'[l].id = id
        BY <3>4 DEF PipeOpens
      <4> QED BY <2>4, <3>1, <3>2, <4>1
    <3> QED BY <3>3, <3>4
  <2>7. ASSUME NEW x \in Id, known'[x] = "listen", sock'[Hash(x)].id = x, sock'[Hash(x)].type = "RESERVE"
        PROVE  \E k \in DOMAIN pipe' : pipe'[k].op \in {"O", "L"} /\ pipe'[k].id = x
    <3>1. CASE x = id
      BY <2>7, <3>1 DEF ToldNew
    <3>2. CASE x # id
      <4>1. Hash(x) # i /\ Hash(x) \in Slot /\ known[x] = "listen"
        BY <1>0, <2>7, <3>2 DEF ToldNew
      <4>2. Of(x).id = x /\ Of(x).type = "RESERVE"
        BY <1>0, <1>2, <2>7, <4>1
      <4>3. PICK k \in DOMAIN pipe : OpenAt(k) /\ pipe[k].id = x
        BY <1>1, <4>1, <4>2 DEF Ids
      <4> QED BY <4>3 DEF OpenAt, PipeOpens
    <3> QED BY <3>1, <3>2
  <2> QED BY <2>1, <2>2, <2>3, <2>5, <2>6, <2>7 DEF Ids, DataAt, OpenAt, Calling, Of
<1>6. Locks'
  BY UnusedLocks
<1>7. Counts'
  <2>1. \A x : QueuedIn(pipe', x) = QueuedIn(pipe, x)
    <3> TAKE x
    <3>1. \A k \in DOMAIN pipe' : pipe'[k].op \in SendOps => k \in DOMAIN pipe
      BY DEF PipeOpens, SendOps
    <3>2. \A k \in DOMAIN pipe : k \in DOMAIN pipe' /\ pipe'[k] = pipe[k]
      BY DEF PipeOpens
    <3> QED BY <3>1, <3>2 DEF QueuedIn
  <2>2. \A j \in Slot : sock[j].sending =
                        IF sock[j].tcp THEN Cardinality(QueuedIn(pipe, sock[j].id))
                                              + Cardinality(AskingIn(call, sock[j].id))
                                       ELSE 0
    BY <1>1, CountsForm
  <2>3. Cardinality(QueuedIn(pipe, id)) + Cardinality(AskingIn(call, id)) = 0
    <3>1. \A k \in DOMAIN pipe : pipe[k].id # id
      <4>1. \A k \in DOMAIN pipe : pipe[k].id <= alloc_id
        BY <1>1 DEF Ids
      <4> QED BY <1>0, <4>1
    <3>2. QueuedIn(pipe, id) = {}
      BY <3>1 DEF QueuedIn
    <3>3. \A v \in Service : Calling(v) => call[v].id # id
      <4>1. \A v \in Service : Calling(v) => known[call[v].id] = "conn"
        BY <1>1 DEF Ids
      <4> QED BY <1>0, <1>3, <4>1, SocketAssumption
    <3>4. AskingIn(call, id) = {}
      BY <3>3 DEF AskingIn, Calling
    <3> QED BY <3>2, <3>4, FS_EmptySet
  <2>4. \A j \in Slot : sock'[j].sending =
                        IF sock'[j].tcp THEN Cardinality(QueuedIn(pipe', sock'[j].id))
                                              + Cardinality(AskingIn(call', sock'[j].id))
                                        ELSE 0
    <3> TAKE j \in Slot
    <3>1. CASE j = i
      BY <2>1, <2>3, <3>1
    <3>2. CASE j # i
      BY <1>2, <2>1, <2>2, <3>2
    <3> QED BY <3>1, <3>2
  <2>6. \A x : Queued(x)' = QueuedIn(pipe', x) /\ Asking(x)' = AskingIn(call', x)
    BY DEF Queued, Asking, QueuedIn, AskingIn, DataAt
  <2> QED BY <2>4, <2>6 DEF Counts
<1> QED BY <1>4, <1>5, <1>6, <1>7 DEF SockInv

(* The slot that reserve_id hands out, and report_accept fills in. *)
ReservedSlot(type, tcp, id) == [Closed EXCEPT !.type = type, !.tcp = tcp, !.id = id]

(* The slot that reserve_id fills is sound and without data. *)
LEMMA ReservedFacts ==
    ASSUME NEW id \in Id, NEW type, NEW tcp \in BOOLEAN,
           (type = "RESERVE" /\ ~tcp) \/ (type = "PACCEPT" /\ tcp)
    PROVE  /\ ReservedSlot(type, tcp, id) \in Record /\ ReservedSlot(type, tcp, id).id = id
           /\ ReservedSlot(type, tcp, id).tcp = tcp
           /\ ReservedSlot(type, tcp, id).type = type /\ ReservedSlot(type, tcp, id).sending = 0
           /\ ReservedSlot(type, tcp, id).lock = None
           /\ NoData(ReservedSlot(type, tcp, id)) /\ SlotSound(ReservedSlot(type, tcp, id))
<1> DEFINE s == ReservedSlot(type, tcp, id)
<1>0. id # 0 /\ None \in Buffer \cup {None} /\ None \in Service \cup {None} /\ type \in Types
      /\ << >> \in Seq(Buffer)
  BY SocketAssumption DEF Id, Types
<1>1. s = [type |-> type, id |-> id, tcp |-> tcp, sending |-> 0, high |-> << >>, low |-> << >>,
           wev |-> FALSE, dw |-> None, lock |-> None]
  <2>1. s = [Closed EXCEPT !.type = type, !.tcp = tcp, !.id = id]
    BY DEF ReservedSlot
  <2> HIDE DEF s
  <2> QED BY <2>1 DEF Closed
<1> HIDE DEF s
<1>2. s \in Record
  BY <1>0, <1>1 DEF Record
<1>3. /\ s.id = id /\ s.tcp = tcp /\ s.type = type /\ s.sending = 0 /\ s.lock = None
      /\ s.high = << >> /\ s.low = << >> /\ s.dw = None
  BY <1>1
<1>4. NoData(s)
  BY <1>3 DEF NoData, BufferEmpty
<1>5. SlotSound(s)
  BY <1>0, <1>3, <1>4 DEF SlotSound, Open
<1> QED BY <1>2, <1>3, <1>4, <1>5 DEF s

(* What the three users of reserve_id do. *)
Reserving(i, id) ==
    /\ id \in Id /\ id > alloc_id /\ alloc_id' = id /\ i \in Slot /\ i = Hash(id)
    /\ sock[i].type = "INVALID" /\ Unused(i) /\ Moved(i) /\ sock'[i].id = id
    /\ sock'[i].sending = 0 /\ SlotSound(sock'[i]) /\ NoData(sock'[i]) /\ sock'[i].lock = None
    /\ UNCHANGED <<call, io, wire, sentBy, lowp>>
    /\ PipeOpens(i, id)

(* What the three callers of reserve_id have in common. *)
LEMMA ReservingFacts ==
    ASSUME Types0, SockInv, NEW type, NEW tcp \in BOOLEAN,
           (type = "RESERVE" /\ ~tcp) \/ (type = "PACCEPT" /\ tcp),
           Reserve([Closed EXCEPT !.type = type, !.tcp = tcp]), Work, UNCHANGED <<call, io, wire, sentBy, lowp>>,
           \/ UNCHANGED pipe
           \/ type = "RESERVE" /\ \E op \in {"O", "L"} : Ask([op |-> op, id |-> alloc_id'])
    PROVE  /\ Reserving(Hash(alloc_id'), alloc_id') /\ sock'[Hash(alloc_id')].type = type
           /\ sock'[Hash(alloc_id')].tcp = tcp /\ work' \in 0..MaxWork
           /\ pipe' \in Seq(Requests) /\ sock' \in [Slot -> Record] /\ alloc_id' \in 0..MaxId
<1> DEFINE id == alloc_id'
           i == Hash(id)
           s2 == [Closed EXCEPT !.type = type, !.tcp = tcp]
           s == ReservedSlot(type, tcp, id)
<1>1. /\ id \in Id /\ id > alloc_id /\ i \in Slot /\ sock[i].type = "INVALID" /\ Unused(i)
      /\ Set(i, [s2 EXCEPT !.id = id])
  BY ReserveFacts
<1> HIDE DEF id
<1>2. [s2 EXCEPT !.id = id] = s
  BY DEF ReservedSlot, Closed
<1>3. /\ s \in Record /\ s.id = id /\ s.tcp = tcp /\ s.type = type /\ s.sending = 0 /\ s.lock = None
      /\ NoData(s) /\ SlotSound(s)
  BY <1>1, ReservedFacts
<1> HIDE DEF s, i
<1>4. Moved(i) /\ sock'[i] = s
  BY <1>1, <1>2, <1>3, SetFacts
<1>5. PipeOpens(i, id) /\ pipe' \in Seq(Requests)
  <2>1. CASE UNCHANGED pipe
    BY <2>1 DEF PipeOpens, Types0
  <2>2. ASSUME type = "RESERVE", NEW op \in {"O", "L"}, Ask([op |-> op, id |-> id])
        PROVE  PipeOpens(i, id) /\ pipe' \in Seq(Requests)
    <3> DEFINE r == [op |-> op, id |-> id]
    <3>1. r \in Requests /\ r.op \in {"O", "L"} /\ r.id = id
      BY <1>1, <2>2 DEF Requests
    <3>2. pipe \in Seq(Requests) /\ pipe' = Append(pipe, r)
      BY <2>2 DEF Ask, Types0
    <3> DEFINE n == Len(pipe)
    <3> HIDE DEF r
    <3>3. /\ n \in Nat /\ DOMAIN pipe = 1..n /\ pipe' \in Seq(Requests) /\ DOMAIN pipe' = 1..(n + 1)
          /\ \A k \in 1..n : pipe'[k] = pipe[k]
          /\ pipe'[n + 1] = r
      BY <3>1, <3>2
    <3> HIDE DEF n
    <3>4. /\ \A k \in 1..n : k \in 1..(n + 1)
          /\ \A k \in 1..(n + 1) : k \in 1..n \/ k = n + 1
          /\ \A l \in 1..(n + 1) : l # n + 1 => l \in 1..n /\ ~(l > n + 1)
      BY <3>3
    <3>5. /\ pipe'[n + 1].op \in {"O", "L"} /\ pipe'[n + 1].id = id /\ sock'[i].type = "RESERVE"
      BY <1>3, <1>4, <2>2, <3>1, <3>3
    <3> QED BY <3>3, <3>4, <3>5 DEF PipeOpens
  <2> QED BY <2>1, <2>2 DEF id
<1>6. work' \in 0..MaxWork
  BY SocketAssumption DEF Work, Types0
<1>7. sock' \in [Slot -> Record] /\ id \in 0..MaxId
  BY <1>1, <1>4, SocketAssumption DEF Moved, Id
<1>8. Reserving(i, id)
  BY <1>1, <1>3, <1>4, <1>5 DEF Reserving, i, id
<1> QED BY <1>3, <1>4, <1>5, <1>6, <1>7, <1>8 DEF i, id

(* Reserved, with its flag written out. *)
LEMMA ReservedForm == Reserved = [Closed EXCEPT !.type = "RESERVE", !.tcp = FALSE]
<1> DEFINE b == FALSE
           r == Reserved
           s == [Closed EXCEPT !.type = "RESERVE", !.tcp = b]
           c == [type |-> "RESERVE", id |-> 0, tcp |-> b, sending |-> 0, high |-> << >>, low |-> << >>,
                 wev |-> FALSE, dw |-> None, lock |-> None]
<1>1. r = c
  <2>1. r = [Closed EXCEPT !.type = "RESERVE"]
    BY DEF Reserved
  <2> HIDE DEF r
  <2> QED BY <2>1 DEF Closed
<1>2. s = c
  <2>1. b \in BOOLEAN /\ s = [Closed EXCEPT !.type = "RESERVE", !.tcp = b]
    OBVIOUS
  <2> HIDE DEF b, s
  <2> QED BY <2>1 DEF Closed
<1> QED BY <1>1, <1>2

(* socket_server_connect *)
LEMMA ConnectKeeps ==
    ASSUME Types0, SockInv, Connect
    PROVE  /\ Types0' /\ SockInv' /\ Reserving(Hash(alloc_id'), alloc_id') /\ ~sock'[Hash(alloc_id')].tcp
<1>1. /\ Reserve([Closed EXCEPT !.type = "RESERVE", !.tcp = FALSE]) /\ Work
      /\ Ask([op |-> "O", id |-> alloc_id']) /\ UNCHANGED <<call, io, known, wire, sentBy, lowp>>
  <2>1. Reserved = [Closed EXCEPT !.type = "RESERVE", !.tcp = FALSE]
    BY ReservedForm
  <2> QED BY <2>1 DEF Connect
<1> DEFINE id == alloc_id'
           i == Hash(id)
<1>2. /\ Reserving(i, id) /\ sock'[i].type = "RESERVE" /\ sock'[i].tcp = FALSE /\ work' \in 0..MaxWork
      /\ pipe' \in Seq(Requests) /\ sock' \in [Slot -> Record] /\ id \in 0..MaxId
  <2>1. /\ Reserve([Closed EXCEPT !.type = "RESERVE", !.tcp = FALSE]) /\ Work /\ FALSE \in BOOLEAN
        /\ UNCHANGED <<call, io, wire, sentBy, lowp>>
        /\ \E op \in {"O", "L"} : Ask([op |-> op, id |-> alloc_id'])
    BY <1>1
  <2> QED BY <2>1, ReservingFacts
<1>3. Types0'
  BY <1>1, <1>2 DEF Types0, Reserving
<1>4. ToldNew(i, id)
  <2>1. known[id] = None
    <3>1. id \in Id /\ id \in Nat /\ alloc_id \in Nat /\ ~(id <= alloc_id)
      BY <1>2, Basics DEF Reserving
    <3> QED BY <3>1 DEF SockInv, Ids
  <2> QED BY <1>1, <2>1, SocketAssumption DEF ToldNew
<1> HIDE DEF i, id
<1>5. SockInv'
  BY <1>2, <1>3, <1>4, ReserveKeeps DEF Reserving
<1> QED BY <1>2, <1>3, <1>5 DEF i, id

(* socket_server_listen *)
LEMMA ListenKeeps ==
    ASSUME Types0, SockInv, Listen
    PROVE  /\ Types0' /\ SockInv' /\ Reserving(Hash(alloc_id'), alloc_id') /\ ~sock'[Hash(alloc_id')].tcp
<1>1. /\ Reserve([Closed EXCEPT !.type = "RESERVE", !.tcp = FALSE]) /\ Work
      /\ Ask([op |-> "L", id |-> alloc_id']) /\ UNCHANGED <<call, io, wire, sentBy, lowp>>
      /\ known' = [known EXCEPT ![alloc_id'] = "listen"]
  <2>1. Reserved = [Closed EXCEPT !.type = "RESERVE", !.tcp = FALSE]
    BY ReservedForm
  <2> QED BY <2>1 DEF Listen
<1> DEFINE id == alloc_id'
           i == Hash(id)
<1>2. /\ Reserving(i, id) /\ sock'[i].type = "RESERVE" /\ sock'[i].tcp = FALSE /\ work' \in 0..MaxWork
      /\ pipe' \in Seq(Requests) /\ sock' \in [Slot -> Record] /\ id \in 0..MaxId
  <2>1. /\ Reserve([Closed EXCEPT !.type = "RESERVE", !.tcp = FALSE]) /\ Work /\ FALSE \in BOOLEAN
        /\ UNCHANGED <<call, io, wire, sentBy, lowp>>
        /\ \E op \in {"O", "L"} : Ask([op |-> op, id |-> alloc_id'])
    BY <1>1
  <2> QED BY <2>1, ReservingFacts
<1>3. Types0'
  BY <1>1, <1>2 DEF Types0, Reserving
<1>4. ToldNew(i, id)
  <2>1. id \in Id /\ known \in [Id -> {"listen", "conn", None}]
    BY <1>2 DEF Reserving, Types0
  <2>2. known'[id] = "listen" /\ \A x \in Id : x # id => known'[x] = known[x]
    BY <1>1, <2>1
  <2>3. \E k \in DOMAIN pipe' : pipe'[k].op \in {"O", "L"} /\ pipe'[k].id = id
    <3> DEFINE r == [op |-> "L", id |-> id]
    <3>1. r.op \in {"O", "L"} /\ r.id = id /\ r \in Requests
      BY <2>1 DEF Requests
    <3>2. pipe \in Seq(Requests) /\ pipe' = Append(pipe, r)
      BY <1>1 DEF Ask, Types0
    <3> HIDE DEF r
    <3>3. Len(pipe) + 1 \in DOMAIN pipe' /\ pipe'[Len(pipe) + 1] = r
      BY <3>1, <3>2
    <3> QED BY <3>1, <3>3
  <2> QED BY <2>2, <2>3 DEF ToldNew
<1> HIDE DEF i, id
<1>5. SockInv'
  BY <1>2, <1>3, <1>4, ReserveKeeps DEF Reserving
<1> QED BY <1>2, <1>3, <1>5 DEF i, id

(* report_accept *)
LEMMA EventAcceptKeeps ==
    ASSUME Types0, SockInv, NEW j \in Slot, EventAccept(j)
    PROVE  /\ Types0' /\ SockInv' /\ Reserving(Hash(alloc_id'), alloc_id') /\ UNCHANGED pipe
<1>1. /\ Reserve([Closed EXCEPT !.type = "PACCEPT", !.tcp = TRUE]) /\ Work
      /\ UNCHANGED <<pipe, call, io, wire, sentBy, lowp>>
      /\ known' = [known EXCEPT ![alloc_id'] = "conn"]
  BY DEF EventAccept
<1> DEFINE id == alloc_id'
           i == Hash(id)
<1>2. /\ Reserving(i, id) /\ sock'[i].type = "PACCEPT" /\ sock'[i].tcp = TRUE /\ work' \in 0..MaxWork
      /\ pipe' \in Seq(Requests) /\ sock' \in [Slot -> Record] /\ id \in 0..MaxId
  <2>1. /\ Reserve([Closed EXCEPT !.type = "PACCEPT", !.tcp = TRUE]) /\ Work /\ TRUE \in BOOLEAN
        /\ UNCHANGED <<call, io, wire, sentBy, lowp>> /\ UNCHANGED pipe
    BY <1>1
  <2> QED BY <2>1, ReservingFacts
<1>3. Types0'
  BY <1>1, <1>2 DEF Types0, Reserving
<1>4. ToldNew(i, id)
  <2>1. id \in Id /\ known \in [Id -> {"listen", "conn", None}]
    BY <1>2 DEF Reserving, Types0
  <2>2. known'[id] = "conn" /\ \A x \in Id : x # id => known'[x] = known[x]
    BY <1>1, <2>1
  <2> QED BY <1>2, <2>2 DEF ToldNew, Unborn
<1> HIDE DEF i, id
<1>5. SockInv'
  BY <1>2, <1>3, <1>4, ReserveKeeps DEF Reserving
<1> QED BY <1>1, <1>2, <1>3, <1>5 DEF i, id

-----------------------------------------------------------------------------
(* The invariant of slots, ids, locks and counts                            *)

(* Initially nothing is in use. *)
LEMMA SockInitially ==
    ASSUME SockInit
    PROVE  Types0 /\ SockInv
<1> DEFINE c == Closed
           o == Out
<1>0. /\ 0 \in Id \cup {0} /\ None \in Buffer \cup {None} /\ None \in Service \cup {None} /\ "INVALID" \in Types
      /\ << >> \in Seq(Buffer)
  BY DEF Types
<1>1. c = [type |-> "INVALID", id |-> 0, tcp |-> FALSE, sending |-> 0, high |-> << >>, low |-> << >>,
           wev |-> FALSE, dw |-> None, lock |-> None]
  BY DEF Closed
<1>2. o = [pc |-> "out", id |-> 0, p |-> 0] /\ o \in CallRecord
  BY DEF Out, CallRecord
<1>3. sock = [i \in Slot |-> c] /\ call = [v \in Service |-> o]
  BY DEF SockInit
<1> HIDE DEF c, o
<1>4. c \in Record
  BY <1>0, <1>1 DEF Record
<1>5. /\ c.type = "INVALID" /\ c.id = 0 /\ c.tcp = FALSE /\ c.sending = 0 /\ c.high = << >> /\ c.low = << >>
      /\ c.dw = None /\ c.lock = None
  BY <1>1
<1>6. SlotSound(c)
  BY <1>5 DEF SlotSound, NoData, BufferEmpty, Open
<1>7. /\ \A i \in Slot : sock[i] = c
      /\ \A v \in Service : call[v] = o /\ call[v].pc = "out"
      /\ sock \in [Slot -> Record] /\ call \in [Service -> CallRecord]
  BY <1>2, <1>3, <1>4
<1>8. Types0
  <2>1. alloc_id \in 0..MaxId /\ work \in 0..MaxWork
    BY SocketAssumption DEF SockInit
  <2>2. /\ pipe \in Seq(Requests) /\ io = None /\ known \in [Id -> {"listen", "conn", None}]
        /\ wire \in [Id -> Seq(Packet)] /\ sentBy \in [Packet -> Service \cup {None}] /\ lowp \subseteq Packet
    BY DEF SockInit
  <2> QED BY <1>7, <2>1, <2>2 DEF Types0
<1>9. DOMAIN pipe = {} /\ \A id \in Id : known[id] = None
  BY DEF SockInit
<1>10. Slots
  BY <1>5, <1>6, <1>7 DEF Slots, Unborn, SockInit
<1>11. Ids
  BY <1>7, <1>9, SocketAssumption DEF Ids, Calling
<1>12. Locks
  BY <1>5, <1>7 DEF Locks
<1>13. Counts
  BY <1>5, <1>7 DEF Counts
<1> QED BY <1>8, <1>10, <1>11, <1>12, <1>13 DEF SockInv

(* Every step keeps the types and the invariant of slots, ids, locks and      *)
(* counters.                                                                  *)
LEMMA SockStep ==
    ASSUME Types0, SockInv, [SockNext]_sockVars
    PROVE  Types0' /\ SockInv'
<1>1. CASE UNCHANGED sockVars
  BY <1>1 DEF sockVars, Types0, SockInv, Slots, Ids, Locks, Counts, SlotSound, NoData, BufferEmpty, Open, Unborn,
              Of, Hash, Calling, DataAt, OpenAt, Queued, Asking
<1>2. CASE Initiatives
  <2>1. CASE Connect
    BY <2>1, ConnectKeeps
  <2>2. CASE Listen
    BY <2>2, ListenKeeps
  <2>3. ASSUME NEW id \in Id, NEW op \in {"S", "K", "KS"}, Request(id, op) PROVE Types0' /\ SockInv'
    BY <2>3, RequestKeeps
  <2>4. ASSUME NEW v \in Service, NEW id \in Id, NEW p \in Packet, NEW lp \in BOOLEAN, SendStart(v, id, p, lp)
        PROVE  Types0' /\ SockInv'
    BY <2>4, SendStartKeeps
  <2>5. ASSUME NEW i \in Slot, EventAccept(i) \/ EventHangup(i) \/ EventWriteError(i) PROVE Types0' /\ SockInv'
    BY <2>5, EventAcceptKeeps, EventHangupKeeps, EventWriteErrorKeeps
  <2> QED BY <1>2, <2>1, <2>2, <2>3, <2>4, <2>5 DEF Initiatives
<1>3. CASE Ctrl
  <2>1. CASE CtrlOpen \/ CtrlListen
    BY <2>1, CtrlOpenKeeps, CtrlListenKeeps
  <2>2. CASE CtrlStart \/ CtrlSend
    BY <2>2, CtrlStartKeeps, CtrlSendKeeps
  <2>3. CASE CtrlCloseError \/ ForceClose
    BY <2>3, CtrlCloseErrorKeeps, ForceCloseKeeps
  <2>4. ASSUME NEW n, CtrlClose(n) PROVE Types0' /\ SockInv'
    BY <2>4, CtrlCloseKeeps
  <2> QED BY <1>3, <2>1, <2>2, <2>3, <2>4 DEF Ctrl
<1>4. ASSUME NEW v \in Service, Calls(v) PROVE Types0' /\ SockInv'
  <2>1. CASE SendLock(v) \/ SendCheck(v) \/ SendInc(v) \/ SendAsk(v)
    BY <2>1, SendLockKeeps, SendCheckKeeps, SendIncKeeps, SendAskKeeps
  <2>2. ASSUME NEW n \in 0..Size, SendWrite(v, n) PROVE Types0' /\ SockInv'
    BY <2>2, SendWriteKeeps
  <2> QED BY <1>4, <2>1, <2>2 DEF Calls
<1>5. ASSUME NEW i \in Slot, EventConnect(i) PROVE Types0' /\ SockInv'
  BY <1>5, EventConnectKeeps
<1>6. ASSUME NEW i \in Slot, NEW n, EventWrite(i, n) PROVE Types0' /\ SockInv'
  BY <1>6, EventWriteKeeps
<1> QED BY <1>1, <1>2, <1>3, <1>4, <1>5, <1>6 DEF SockNext

(* The invariant gives the types that the run checks; the counter is never    *)
(* negative.                                                                  *)
LEMMA SockTypes ==
    ASSUME Types0, SockInv
    PROVE  SockTypeOK
<1>1. ASSUME NEW i \in Slot
      PROVE  /\ sock[i].type \in Types /\ sock[i].id \in Id \cup {0} /\ sock[i].tcp \in BOOLEAN
             /\ sock[i].high \in Buffers /\ sock[i].low \in Buffers /\ sock[i].wev \in BOOLEAN
             /\ sock[i].dw = None \/ sock[i].dw \in [p : Packet, left : 1..Size]
             /\ sock[i].lock \in Service \cup {None}
  <2>1. sock[i] \in Record
    BY DEF Types0
  <2> QED BY <2>1 DEF Record, Buffers, Buffer
<1>2. ASSUME NEW i \in Slot PROVE sock[i].sending \in Nat
  <2>1. sock[i].sending = IF sock[i].tcp THEN Cardinality(QueuedIn(pipe, sock[i].id))
                                              + Cardinality(AskingIn(call, sock[i].id))
                                         ELSE 0
    BY CountsForm DEF SockInv
  <2> QED BY <2>1, CountForms
<1> QED BY <1>1, <1>2 DEF SockTypeOK, Types0

(* dec_sending_ref never finds the counter at 0: every slot, request and      *)
(* buffer has its type, for any number of services, sockets and packets.      *)
THEOREM SockTypeCorrect == SockSpec => []SockTypeOK
<1>1. SockInit => Types0 /\ SockInv
  BY SockInitially
<1>2. Types0 /\ SockInv /\ [SockNext]_sockVars => (Types0 /\ SockInv)'
  BY SockStep
<1>3. Types0 /\ SockInv => SockTypeOK
  BY SockTypes
<1> QED BY <1>1, <1>2, <1>3, PTL DEF SockSpec

(* inc_sending_ref, dec_sending_ref and sp_write: what is to be sent on an    *)
(* open socket is counted, and its write event is on.                         *)
THEOREM SendsAreKnown == SockSpec => []SendsKnown
<1>1. SockInit => Types0 /\ SockInv
  BY SockInitially
<1>2. Types0 /\ SockInv /\ [SockNext]_sockVars => (Types0 /\ SockInv)'
  BY SockStep
<1>3. ASSUME Types0, SockInv PROVE SendsKnown
  <2>1. SendingCounts
    <3>1. ASSUME NEW i \in Slot, Open(sock[i])
          PROVE  sock[i].sending = Cardinality(Queued(sock[i].id)) + Cardinality(Asking(sock[i].id))
      <4>1. sock[i].tcp
        BY <1>3, <3>1 DEF SockInv, Slots, SlotSound, Open
      <4> QED BY <1>3, <4>1 DEF SockInv, Counts
    <3> QED BY <3>1 DEF SendingCounts, Queued, Asking, DataAt, SendOps
  <2>2. WriteArmed
    BY <1>3 DEF SockInv, Slots, SlotSound, NoData, WriteArmed
  <2> QED BY <2>1, <2>2 DEF SendsKnown
<1> QED BY <1>1, <1>2, <1>3, PTL DEF SockSpec

-----------------------------------------------------------------------------
(* What a step may do to the wires                                          *)

(* Wires, after the step. *)
WiresNext ==
    /\ \A id \in Id : Sound(wire'[id], FrontIn(sock', id), LowIn(sock', id))
    /\ \A id \in Id : sock'[Hash(id)].id = id /\ sock'[Hash(id)].type # "INVALID"
                        => NotTorn(wire'[id], FrontIn(sock', id))
    /\ \A id \in Id : id > alloc_id' \/ (sock'[Hash(id)].id = id /\ ~sock'[Hash(id)].tcp) => wire'[id] = << >>

(* No request D or P is new, and e requests were taken. *)
DataMap(e) ==
    \A k \in DOMAIN pipe' : pipe'[k].op \in SendOps => k + e \in DOMAIN pipe /\ pipe'[k] = pipe[k + e]
(* Calls go on, or are over. *)
CallsKept ==
    \A v \in Service : call'[v].pc # "out" => Calling(v) /\ call'[v].id = call[v].id /\ call'[v].p = call[v].p

(* Packet q comes after nothing that is still to come to socket id. *)
Passed(q, id) ==
    /\ \A k \in DOMAIN pipe' : pipe'[k].op \in SendOps =>
         pipe'[k].p # q /\ (pipe'[k].id = id => Before(q, pipe'[k].p))
    /\ \A v \in Service : call'[v].pc # "out" => call'[v].p # q
HeldPassed == \A id \in Id : \A q \in HeldIn(sock', wire', id) : q \in HeldOf(id) \/ Passed(q, id)

(* Writing, after the step. *)
WritersClear ==
    \A v \in Service : call'[v].pc = "write" =>
        /\ \A k \in DOMAIN FrontIn(sock', call'[v].id) :
             /\ FrontIn(sock', call'[v].id)[k].left = Size
             /\ sentBy[FrontIn(sock', call'[v].id)[k].p] # v
        /\ \A k \in DOMAIN pipe' : pipe'[k].op \in SendOps /\ pipe'[k].id = call'[v].id => sentBy[pipe'[k].p] # v

(* Operators on the state after a step. *)
LEMMA NextViews ==
    /\ \A id : FrontOf(id)' = FrontIn(sock', id) /\ LowOf(id)' = LowIn(sock', id)
               /\ HeldOf(id)' = HeldIn(sock', wire', id)
    /\ \A w, F : NotTorn(w, F)' <=> NotTorn(w, F)
<1>1. \A id : FrontOf(id)' = FrontIn(sock', id)
  BY DEF FrontOf, FrontIn, Front, Merged, Hash
<1>2. \A id : LowOf(id)' = LowIn(sock', id)
  BY DEF LowOf, LowIn, Hash
<1>3. \A id : HeldOf(id)' = HeldIn(sock', wire', id)
  BY DEF HeldOf, HeldIn, Held, FrontIn, LowIn, Front, Merged, Hash, PacketsOf
<1>4. \A w, F : NotTorn(w, F)' <=> NotTorn(w, F)
  BY DEF NotTorn, Count
<1> QED BY <1>1, <1>2, <1>3, <1>4

(* Soundness after a step that sends no new packet. *)
LEMMA SoundNext ==
    ASSUME UNCHANGED <<sentBy, lowp>>, NEW id
    PROVE  Sound(wire[id], FrontOf(id), LowOf(id))' <=> Sound(wire'[id], FrontIn(sock', id), LowIn(sock', id))
<1>1. \A p, q : Before(p, q)' <=> Before(p, q)
  BY DEF Before
<1>2. FrontOf(id)' = FrontIn(sock', id) /\ LowOf(id)' = LowIn(sock', id)
  BY NextViews
<1> DEFINE F == FrontIn(sock', id)
           L == LowIn(sock', id)
<1> HIDE DEF F, L
<1>3. FrontOf(id)' = F /\ LowOf(id)' = L
  BY <1>2 DEF F, L
<1>4. Sound(wire[id], FrontOf(id), LowOf(id))' <=> Sound(wire'[id], F, L)
  BY <1>1, <1>3 DEF Sound, Whole, Count, Held, PacketsOf, Before
<1> QED BY <1>4 DEF F, L

(* The wires are sound after the step. *)
LEMMA WiresFollow ==
    ASSUME UNCHANGED <<sentBy, lowp>>, WiresNext
    PROVE  Wires'
<1>1. \A id \in Id : Sound(wire[id], FrontOf(id), LowOf(id))'
  BY SoundNext DEF WiresNext
<1>2. \A id \in Id : (Of(id).id = id /\ Of(id).type # "INVALID" => NotTorn(wire[id], FrontOf(id)))'
  <2>1. \A id \in Id : sock'[Hash(id)].id = id /\ sock'[Hash(id)].type # "INVALID"
                         => NotTorn(wire'[id], FrontIn(sock', id))
    BY DEF WiresNext
  <2> QED BY <2>1, NextViews DEF Of, NotTorn, Count
<1>3. \A id \in Id : (id > alloc_id \/ (Of(id).id = id /\ ~Of(id).tcp) => wire[id] = << >>)'
  BY DEF WiresNext, Of
<1> QED BY <1>1, <1>2, <1>3 DEF Wires

(* A step that keeps the wires sound, holds nothing back that may be          *)
(* overtaken, and leaves direct writes alone.                                 *)
LEMMA WireStep ==
    ASSUME Types0, Types0', WireInv, UNCHANGED <<sentBy, lowp>>, WiresNext, NEW e, DataMap(e), e \in {0, 1},
           CallsKept, HeldPassed, WritersClear
    PROVE  WireInv'
<1>1. Wires /\ Pending /\ Writing
  BY DEF WireInv
<1>2. Wires'
  BY WiresFollow
<1>3. Pending'
  <2>0. /\ DOMAIN pipe' \subseteq Nat /\ e \in Nat
        /\ \A k \in DOMAIN pipe' : pipe'[k].id \in Id /\ (pipe'[k].op \in SendOps => pipe'[k].p \in Packet)
        /\ \A v \in Service : Calling(v) => call[v].id \in Id
    <3>1. pipe' \in Seq(Requests)
      BY DEF Types0
    <3>2. DOMAIN pipe' \subseteq Nat /\ \A k \in DOMAIN pipe' : pipe'[k] \in Requests
      BY <3>1
    <3>3. \A k \in DOMAIN pipe' : pipe'[k].id \in Id /\ (pipe'[k].op \in SendOps => pipe'[k].p \in Packet)
      BY <3>2 DEF Requests, SendOps
    <3> QED BY <3>2, <3>3, Basics
  <2>1. ASSUME NEW k \in DOMAIN pipe', pipe'[k].op \in SendOps
        PROVE  /\ k + e \in DOMAIN pipe /\ pipe'[k] = pipe[k + e] /\ DataAt(k + e)
               /\ pipe'[k].p \notin HeldOf(pipe'[k].id)
               /\ sentBy[pipe'[k].p] # None
               /\ pipe'[k].op = "P" <=> pipe'[k].p \in lowp
               /\ \A q \in HeldOf(pipe'[k].id) : Before(q, pipe'[k].p)
    <3>1. k + e \in DOMAIN pipe /\ pipe'[k] = pipe[k + e] /\ DataAt(k + e)
      BY <2>1 DEF DataMap, DataAt
    <3> DEFINE l == k + e
    <3> HIDE DEF l
    <3>2. l \in DOMAIN pipe /\ pipe'[k] = pipe[l] /\ DataAt(l)
      BY <3>1 DEF l
    <3>3. /\ pipe[l].p \notin HeldOf(pipe[l].id)
          /\ sentBy[pipe[l].p] # None
          /\ pipe[l].op = "P" <=> pipe[l].p \in lowp
          /\ \A q \in HeldOf(pipe[l].id) : Before(q, pipe[l].p)
      BY <1>1, <3>2 DEF Pending
    <3> QED BY <3>1, <3>2, <3>3
  <2>2. ASSUME NEW k \in DOMAIN pipe', pipe'[k].op \in SendOps
        PROVE  /\ pipe'[k].p \notin HeldIn(sock', wire', pipe'[k].id)
               /\ \A q \in HeldIn(sock', wire', pipe'[k].id) : Before(q, pipe'[k].p)
    BY <2>0, <2>1, <2>2 DEF HeldPassed, Passed
  <2>3. ASSUME NEW k \in DOMAIN pipe', NEW l \in DOMAIN pipe', pipe'[k].op \in SendOps, pipe'[l].op \in SendOps, k < l
        PROVE  pipe'[k].p # pipe'[l].p /\ (pipe'[k].id = pipe'[l].id => Before(pipe'[k].p, pipe'[l].p))
    <3>1. k + e < l + e
      BY <2>0, <2>3
    <3>2. k + e \in DOMAIN pipe /\ l + e \in DOMAIN pipe /\ DataAt(k + e) /\ DataAt(l + e)
          /\ pipe'[k] = pipe[k + e] /\ pipe'[l] = pipe[l + e]
      BY <2>1, <2>3
    <3> QED BY <1>1, <3>1, <3>2 DEF Pending
  <2>4. ASSUME NEW v \in Service, call'[v].pc # "out"
        PROVE  /\ sentBy[call'[v].p] = v
               /\ \A q \in Packet : sentBy[q] = v => q <= call'[v].p
               /\ call'[v].p \notin HeldIn(sock', wire', call'[v].id)
               /\ \A k \in DOMAIN pipe' : pipe'[k].op \in SendOps => pipe'[k].p # call'[v].p
    <3>1. Calling(v) /\ call'[v].id = call[v].id /\ call'[v].p = call[v].p
      BY <2>4 DEF CallsKept
    <3>2. /\ sentBy[call[v].p] = v
          /\ \A q \in Packet : sentBy[q] = v => q <= call[v].p
          /\ call[v].p \notin HeldOf(call[v].id)
          /\ \A k \in DOMAIN pipe : DataAt(k) => pipe[k].p # call[v].p
      BY <1>1, <3>1 DEF Pending
    <3>3. call[v].p \notin HeldIn(sock', wire', call[v].id)
      BY <2>0, <2>4, <3>1, <3>2 DEF HeldPassed, Passed
    <3>4. \A k \in DOMAIN pipe' : pipe'[k].op \in SendOps => pipe'[k].p # call'[v].p
      BY <2>1, <3>1, <3>2
    <3> QED BY <3>1, <3>2, <3>3, <3>4
  <2>5. /\ \A p, q \in Packet : sentBy'[q] # None /\ p < q => sentBy'[p] # None
        /\ \A p \in lowp' : sentBy'[p] # None
    BY <1>1 DEF Pending
  <2>6. \A p, q : Before(p, q)' <=> Before(p, q)
    BY DEF Before
  <2>7. \A id : HeldOf(id)' = HeldIn(sock', wire', id)
    BY NextViews
  <2> HIDE DEF HeldIn
  <2>8. ASSUME NEW k \in DOMAIN pipe', pipe'[k].op \in SendOps
        PROVE  /\ pipe'[k].p \notin HeldOf(pipe[k].id)'
               /\ sentBy'[pipe'[k].p] # None
               /\ pipe'[k].op = "P" <=> pipe'[k].p \in lowp'
               /\ \A q \in HeldOf(pipe[k].id)' : Before(q, pipe'[k].p)
    <3>1. HeldOf(pipe[k].id)' = HeldIn(sock', wire', pipe'[k].id)
      BY NextViews DEF HeldOf, HeldIn
    <3> QED BY <2>1, <2>2, <2>8, <3>1
  <2>9. ASSUME NEW v \in Service, call'[v].pc # "out" PROVE call'[v].p \notin HeldOf(call[v].id)'
    <3>1. HeldOf(call[v].id)' = HeldIn(sock', wire', call'[v].id)
      BY NextViews DEF HeldOf, HeldIn
    <3> QED BY <2>4, <2>9, <3>1
  <2> QED BY <2>3, <2>4, <2>5, <2>6, <2>8, <2>9 DEF Pending, DataAt, Calling, Before
<1>4. Writing'
  BY NextViews DEF Writing, WritersClear, DataAt
<1> QED BY <1>2, <1>3, <1>4 DEF WireInv

(* No list of any socket changes. *)
SameLists == \A id \in Id : FrontIn(sock', id) = FrontOf(id) /\ LowIn(sock', id) = LowOf(id)
(* A socket is in use that was, or that is new; it has a stream if it had. *)
SameUse ==
    /\ \A id \in Id : sock'[Hash(id)].id = id /\ sock'[Hash(id)].type # "INVALID"
                        => (Of(id).id = id /\ Of(id).type # "INVALID") \/ id > alloc_id
    /\ \A id \in Id : id > alloc_id' \/ (sock'[Hash(id)].id = id /\ ~sock'[Hash(id)].tcp)
                        => id > alloc_id \/ (Of(id).id = id /\ ~Of(id).tcp)

(* On an empty wire no packet is torn. *)
LEMMA NothingWritten == \A F : NotTorn(<< >>, F)
<1>1. \A p : {k \in DOMAIN << >> : << >>[k] = p} = {}
  OBVIOUS
<1>2. \A p : Count(<< >>, p) = 0
  BY <1>1, FS_EmptySet DEF Count
<1> QED BY <1>2, SocketAssumption DEF NotTorn

(* A direct write under way is not disturbed by a step that keeps its list,   *)
(* and adds nothing to the pipe.                                              *)
LEMMA WritersStay ==
    ASSUME Types0, Ids, Writing, NEW e, DataMap(e),
           \A v \in Service : call'[v].pc = "write" =>
               /\ call[v].pc = "write" /\ call'[v].id = call[v].id
               /\ FrontIn(sock', call[v].id) = FrontOf(call[v].id)
    PROVE  WritersClear
<1> SUFFICES ASSUME NEW v \in Service, call'[v].pc = "write"
             PROVE  /\ \A k \in DOMAIN FrontIn(sock', call'[v].id) :
                         /\ FrontIn(sock', call'[v].id)[k].left = Size
                         /\ sentBy[FrontIn(sock', call'[v].id)[k].p] # v
                    /\ \A k \in DOMAIN pipe' : pipe'[k].op \in SendOps /\ pipe'[k].id = call'[v].id
                                               => sentBy[pipe'[k].p] # v
  BY DEF WritersClear
<1>1. call[v].pc = "write" /\ call'[v].id = call[v].id /\ FrontIn(sock', call[v].id) = FrontOf(call[v].id)
  OBVIOUS
<1>2. /\ \A k \in DOMAIN FrontOf(call[v].id) :
           FrontOf(call[v].id)[k].left = Size /\ sentBy[FrontOf(call[v].id)[k].p] # v
      /\ \A k \in DOMAIN pipe : DataAt(k) /\ pipe[k].id = call[v].id => sentBy[pipe[k].p] # v
  BY <1>1 DEF Writing
<1>3. ASSUME NEW k \in DOMAIN pipe', pipe'[k].op \in SendOps, pipe'[k].id = call'[v].id PROVE sentBy[pipe'[k].p] # v
  <2>1. k + e \in DOMAIN pipe /\ pipe'[k] = pipe[k + e]
    BY <1>3 DEF DataMap
  <2> QED BY <1>1, <1>2, <1>3, <2>1 DEF DataAt
<1> QED BY <1>1, <1>2, <1>3

(* A step that touches neither wire nor list. *)
LEMMA QuietWires ==
    ASSUME Types0, Types0', SockInv, WireInv, UNCHANGED <<sentBy, lowp, wire>>, NEW e, DataMap(e), e \in {0, 1},
           CallsKept, SameLists, SameUse, \A v \in Service : call'[v].pc = "write" => call[v].pc = "write"
    PROVE  WireInv'
<1>1. Wires /\ Writing /\ Ids
  BY DEF WireInv, SockInv
<1>2. WiresNext
  <2>1. \A id \in Id : Sound(wire'[id], FrontIn(sock', id), LowIn(sock', id))
    BY <1>1 DEF Wires, SameLists
  <2>2. ASSUME NEW id \in Id, sock'[Hash(id)].id = id, sock'[Hash(id)].type # "INVALID"
        PROVE  NotTorn(wire'[id], FrontIn(sock', id))
    <3>1. CASE id > alloc_id
      BY <1>1, <3>1, NothingWritten DEF Wires
    <3>2. CASE Of(id).id = id /\ Of(id).type # "INVALID"
      BY <1>1, <3>2 DEF Wires, SameLists
    <3> QED BY <2>2, <3>1, <3>2 DEF SameUse
  <2>3. \A id \in Id : id > alloc_id' \/ (sock'[Hash(id)].id = id /\ ~sock'[Hash(id)].tcp) => wire'[id] = << >>
    BY <1>1 DEF Wires, SameUse
  <2> QED BY <2>1, <2>2, <2>3 DEF WiresNext
<1>3. HeldPassed
  BY DEF HeldPassed, SameLists, HeldIn, HeldOf, FrontOf, LowOf
<1>4. WritersClear
  <2>1. \A v \in Service : call'[v].pc = "write" =>
               /\ call[v].pc = "write" /\ call'[v].id = call[v].id
               /\ FrontIn(sock', call[v].id) = FrontOf(call[v].id)
    <3> TAKE v \in Service
    <3> HAVE call'[v].pc = "write"
    <3>1. Calling(v) /\ call'[v].id = call[v].id /\ call[v].pc = "write"
      BY DEF CallsKept
    <3>2. call[v].id \in Id
      BY <3>1, Basics
    <3> QED BY <3>1, <3>2 DEF SameLists
  <2> QED BY <1>1, <2>1, WritersStay
<1> QED BY <1>2, <1>3, <1>4, WireStep

(* A step on slot i that keeps its id shows at no other socket. *)
LEMMA OtherLists ==
    ASSUME Types0, SockInv, NEW i \in Slot, Moved(i), sock'[i].id = sock[i].id
    PROVE  /\ \A id \in Id : id # sock[i].id =>
                /\ FrontIn(sock', id) = FrontOf(id) /\ LowIn(sock', id) = LowOf(id)
                /\ sock'[Hash(id)].id = id => sock'[Hash(id)] = Of(id)
           /\ sock[i].id # 0 =>
                /\ sock[i].id \in Id /\ Hash(sock[i].id) = i /\ Of(sock[i].id) = sock[i]
                /\ FrontIn(sock', sock[i].id) = Front(sock'[i]) /\ FrontOf(sock[i].id) = Front(sock[i])
                /\ LowIn(sock', sock[i].id) = sock'[i].low /\ LowOf(sock[i].id) = sock[i].low
<1>1. ASSUME NEW id \in Id, id # sock[i].id
      PROVE  /\ FrontIn(sock', id) = FrontOf(id) /\ LowIn(sock', id) = LowOf(id)
             /\ sock'[Hash(id)].id = id => sock'[Hash(id)] = Of(id)
  <2>1. Hash(id) \in Slot /\ Of(id) = sock[Hash(id)]
    BY Basics
  <2>2. CASE Hash(id) = i
    BY <1>1, <2>1, <2>2 DEF FrontIn, FrontOf, LowIn, LowOf
  <2>3. CASE Hash(id) # i
    <3>1. sock'[Hash(id)] = sock[Hash(id)]
      BY <2>1, <2>3 DEF Moved
    <3> QED BY <2>1, <3>1 DEF FrontIn, FrontOf, LowIn, LowOf
  <2> QED BY <2>2, <2>3
<1>2. ASSUME sock[i].id # 0
      PROVE  sock[i].id \in Id /\ Hash(sock[i].id) = i /\ Of(sock[i].id) = sock[i]
  BY <1>2, Basics, RecordFields DEF SockInv, Slots, Of
<1> QED BY <1>1, <1>2 DEF FrontIn, FrontOf, LowIn, LowOf

(* The data of two slots is the same. *)
SameData(s, t) == t.high = s.high /\ t.low = s.low /\ t.dw = s.dw

(* Slots with the same data have the same lists. *)
LEMMA SameFront ==
    ASSUME NEW s \in Record, NEW t \in Record, SameData(s, t)
    PROVE  Front(t) = Front(s) /\ t.low = s.low
<1>1. /\ s.dw = None => Front(s) = s.high
      /\ s.dw # None => Front(s) = <<s.dw>> \o s.high
  BY MergedFacts
<1>2. /\ t.dw = None => Front(t) = t.high
      /\ t.dw # None => Front(t) = <<t.dw>> \o t.high
  BY MergedFacts
<1>3. t.high = s.high /\ t.low = s.low /\ t.dw = s.dw
  BY DEF SameData
<1> QED BY <1>1, <1>2, <1>3

(* A step on slot i that keeps its id and its data. *)
LEMMA KeptWires ==
    ASSUME Types0, Types0', SockInv, WireInv, UNCHANGED <<sentBy, lowp, wire, alloc_id>>,
           NEW e, DataMap(e), e \in {0, 1}, CallsKept, \A v \in Service : call'[v].pc = "write" => call[v].pc = "write",
           NEW i \in Slot, Moved(i), sock'[i].id = sock[i].id, sock'[i].tcp = sock[i].tcp,
           SameData(sock[i], sock'[i]), sock'[i].type # "INVALID" => sock[i].type # "INVALID"
    PROVE  WireInv'
<1>1. /\ \A id \in Id : id # sock[i].id =>
            /\ FrontIn(sock', id) = FrontOf(id) /\ LowIn(sock', id) = LowOf(id)
            /\ sock'[Hash(id)].id = id => sock'[Hash(id)] = Of(id)
      /\ sock[i].id # 0 =>
            /\ sock[i].id \in Id /\ Hash(sock[i].id) = i /\ Of(sock[i].id) = sock[i]
            /\ FrontIn(sock', sock[i].id) = Front(sock'[i]) /\ FrontOf(sock[i].id) = Front(sock[i])
            /\ LowIn(sock', sock[i].id) = sock'[i].low /\ LowOf(sock[i].id) = sock[i].low
  BY OtherLists
<1>2. sock[i] \in Record /\ sock'[i] \in Record /\ 0 \notin Id
  BY Basics DEF Moved
<1>3. Front(sock'[i]) = Front(sock[i]) /\ sock'[i].low = sock[i].low
  BY <1>2, SameFront
<1>4. SameLists
  <2>1. ASSUME NEW id \in Id PROVE FrontIn(sock', id) = FrontOf(id) /\ LowIn(sock', id) = LowOf(id)
    <3>1. CASE id = sock[i].id
      BY <1>1, <1>2, <1>3, <3>1
    <3>2. CASE id # sock[i].id
      BY <1>1, <3>2
    <3> QED BY <3>1, <3>2
  <2> QED BY <2>1 DEF SameLists
<1>5. SameUse
  <2>1. ASSUME NEW id \in Id, sock'[Hash(id)].id = id
        PROVE  /\ Of(id).id = id /\ Of(id).tcp = sock'[Hash(id)].tcp
               /\ sock'[Hash(id)].type # "INVALID" => Of(id).type # "INVALID"
    <3>1. CASE id = sock[i].id
      BY <1>1, <1>2, <3>1
    <3>2. CASE id # sock[i].id
      BY <1>1, <2>1, <3>2
    <3> QED BY <3>1, <3>2
  <2> QED BY <2>1 DEF SameUse
<1> QED BY <1>4, <1>5, QuietWires

(* Requests taken from the pipe, or none. *)
LEMMA TailMap ==
    ASSUME Types0, pipe # << >>, NextRequest
    PROVE  DataMap(1)
BY PipeTail DEF DataMap

(* The pipe is left alone. *)
LEMMA SameMap ==
    ASSUME Types0, UNCHANGED pipe
    PROVE  DataMap(0)
<1>1. pipe \in Seq(Requests)
  BY DEF Types0
<1>2. \A k \in DOMAIN pipe : k + 0 = k
  BY <1>1
<1> QED BY <1>2 DEF DataMap

(* No call moves. *)
LEMMA SameCalls ==
    ASSUME UNCHANGED call
    PROVE  CallsKept /\ \A v \in Service : call'[v].pc = "write" => call[v].pc = "write"
BY DEF CallsKept, Calling

(* start_socket *)
LEMMA CtrlStartWires ==
    ASSUME Types0, SockInv, WireInv, CtrlStart
    PROVE  WireInv'
<1> DEFINE i == Hash(Req.id)
           s == [sock[i] EXCEPT !.type = IF @ = "PACCEPT" THEN "CONNECTED" ELSE "LISTEN"]
<1>0. /\ pipe # << >> /\ NextRequest
      /\ UNCHANGED <<alloc_id, call, known, wire, sentBy, lowp, work>>
      /\ UNCHANGED sock \/ (Set(i, s) /\ sock[i].type \in {"PACCEPT", "PLISTEN"})
  BY DEF CtrlStart, HasRequest, Of
<1>1. i \in Slot /\ sock[i] \in Record
  BY <1>0, Basics
<1>2. Types0' /\ SockInv' /\ Moved(i) /\ sock'[i].id = sock[i].id /\ sock'[i].tcp = sock[i].tcp
  BY CtrlStartKeeps DEF Shape, Kept
<1>3. SameData(sock[i], sock'[i]) /\ (sock'[i].type # "INVALID" => sock[i].type # "INVALID")
  <2>1. CASE UNCHANGED sock
    BY <2>1 DEF SameData
  <2>2. CASE Set(i, s) /\ sock[i].type \in {"PACCEPT", "PLISTEN"}
    <3>1. s \in Record /\ s.high = sock[i].high /\ s.low = sock[i].low /\ s.dw = sock[i].dw
      BY <1>1 DEF Record, Types
    <3> HIDE DEF s
    <3>2. sock'[i] = s
      BY <1>1, <2>2, <3>1, SetFacts
    <3> QED BY <2>2, <3>1, <3>2 DEF SameData
  <2> QED BY <1>0, <2>1, <2>2
<1> HIDE DEF i
<1> QED BY <1>0, <1>1, <1>2, <1>3, TailMap, SameCalls, KeptWires

(* forward_message_tcp, at the end of the stream *)
LEMMA EventHangupWires ==
    ASSUME Types0, SockInv, WireInv, NEW i \in Slot, EventHangup(i)
    PROVE  WireInv'
<1>0. UNCHANGED <<sock, alloc_id, pipe, call, known, wire, sentBy, lowp, work>>
  BY DEF EventHangup
<1>2. Types0' /\ SockInv' /\ Moved(i) /\ sock'[i].id = sock[i].id /\ sock'[i].tcp = sock[i].tcp
  BY EventHangupKeeps DEF Shape, Kept
<1>3. SameData(sock[i], sock'[i])
  BY <1>0 DEF SameData
<1> QED BY <1>0, <1>2, <1>3, SameMap, SameCalls, KeptWires

(* report_connect *)
LEMMA EventConnectWires ==
    ASSUME Types0, SockInv, WireInv, NEW i \in Slot, EventConnect(i)
    PROVE  WireInv'
<1> DEFINE s == [sock[i] EXCEPT !.type = "CONNECTED", !.wev = IF NoMoreSending(sock[i]) THEN FALSE ELSE @]
<1>0. /\ UNCHANGED <<alloc_id, pipe, call, wire, sentBy, lowp, work>> /\ sock[i].type = "CONNECTING"
      /\ UNCHANGED sock \/ Set(i, s)
  BY DEF EventConnect
<1>1. sock[i] \in Record
  BY Basics
<1>2. Types0' /\ SockInv' /\ Moved(i) /\ sock'[i].id = sock[i].id /\ sock'[i].tcp = sock[i].tcp
  BY EventConnectKeeps DEF Shape, Kept
<1>3. SameData(sock[i], sock'[i])
  <2>1. CASE UNCHANGED sock
    BY <2>1 DEF SameData
  <2>2. CASE Set(i, s)
    <3>1. s \in Record /\ s.high = sock[i].high /\ s.low = sock[i].low /\ s.dw = sock[i].dw
      BY <1>1 DEF Record, Types
    <3> HIDE DEF s
    <3>2. sock'[i] = s
      BY <1>1, <2>2, <3>1, SetFacts
    <3> QED BY <2>2, <3>1, <3>2 DEF SameData
  <2> QED BY <1>0, <2>1, <2>2
<1> QED BY <1>0, <1>2, <1>3, SameMap, SameCalls, KeptWires

(* socket_server_start, _close and _shutdown *)
LEMMA RequestWires ==
    ASSUME Types0, SockInv, WireInv, NEW id \in Id, NEW op \in {"S", "K", "KS"}, Request(id, op)
    PROVE  WireInv'
<1> DEFINE r == [op |-> op, id |-> id]
<1>0. /\ known[id] # None /\ Ask(r) /\ UNCHANGED <<sock, alloc_id, call, io, known, wire, sentBy, lowp>>
  BY DEF Request
<1>1. Fresh(r) /\ r.op \notin SendOps
  <2>1. r \in [op : {"O", "L", "S", "K", "KS"}, id : Id] /\ r.op = op /\ r.id = id
    OBVIOUS
  <2> HIDE DEF r
  <2> QED BY <1>0, <2>1 DEF Fresh, Requests, SendOps
<1> HIDE DEF r
<1>2. /\ Len(pipe) \in Nat /\ DOMAIN pipe = 1..Len(pipe)
      /\ DOMAIN pipe' = 1..(Len(pipe) + 1) /\ pipe'[Len(pipe) + 1] = r
      /\ \A k \in DOMAIN pipe : pipe'[k] = pipe[k]
  BY <1>0, <1>1, PipeAppend
<1>3. DataMap(0)
  <2>1. \A k \in DOMAIN pipe' : k = Len(pipe) + 1 \/ (k \in DOMAIN pipe /\ k + 0 = k)
    BY <1>2
  <2> QED BY <1>1, <1>2, <2>1 DEF DataMap
<1>4. Types0' /\ SockInv' /\ 0 \in Slot
  BY RequestKeeps, SocketAssumption DEF Slot
<1>5. Moved(0) /\ sock'[0] = sock[0] /\ SameData(sock[0], sock'[0])
  BY <1>0, <1>4, SameFacts DEF SameData
<1> QED BY <1>0, <1>3, <1>4, <1>5, SameCalls, KeptWires

(* A call that goes on, without a write. *)
LEMMA CallKept ==
    ASSUME Types0, NEW v \in Service, Calling(v), NEW pc, CallAt(v, pc)
    PROVE  CallsKept /\ (pc # "write" => \A w \in Service : call'[w].pc = "write" => call[w].pc = "write" /\ w # v)
BY DEF CallAt, CallsKept, Calling

(* socket_trylock *)
LEMMA SendLockWires ==
    ASSUME Types0, SockInv, WireInv, NEW v \in Service, SendLock(v)
    PROVE  WireInv'
<1> DEFINE i == Hash(call[v].id)
           s == sock[i]
           t == [s EXCEPT !.lock = v]
<1>0. /\ call[v].pc = "trylock" /\ UNCHANGED <<alloc_id, pipe, io, known, wire, sentBy, lowp, work>>
      /\ \/ Set(i, t) /\ call' = [call EXCEPT ![v].pc = "check"]
         \/ UNCHANGED sock /\ call' = [call EXCEPT ![v].pc = "inc"]
  BY DEF SendLock, Of
<1>1. Calling(v)
  BY <1>0 DEF Calling
<1>2. i \in Slot /\ s \in Record
  BY <1>1, CallSlot
<1>3. Types0' /\ SockInv'
  BY SendLockKeeps
<1>4. CallsKept /\ \A w \in Service : call'[w].pc = "write" => call[w].pc = "write"
  <2>1. CallAt(v, "check") \/ CallAt(v, "inc")
    BY <1>0, <1>1, CallFacts
  <2> QED BY <1>1, <2>1, CallKept
<1>5. /\ Moved(i) /\ sock'[i].id = s.id /\ sock'[i].tcp = s.tcp /\ sock'[i].type = s.type /\ SameData(s, sock'[i])
  <2>1. CASE UNCHANGED sock
    BY <1>2, <2>1, SameFacts DEF SameData
  <2>2. CASE Set(i, t)
    <3>1. /\ t \in Record /\ t.id = s.id /\ t.tcp = s.tcp /\ t.type = s.type
          /\ t.high = s.high /\ t.low = s.low /\ t.dw = s.dw
      BY <1>2 DEF Record
    <3> HIDE DEF t
    <3>2. Moved(i) /\ sock'[i] = t
      BY <1>2, <2>2, <3>1, SetFacts
    <3> QED BY <3>1, <3>2 DEF SameData
  <2> QED BY <1>0, <2>1, <2>2
<1> HIDE DEF i
<1> QED BY <1>0, <1>2, <1>3, <1>4, <1>5, SameMap, KeptWires

(* inc_sending_ref *)
LEMMA SendIncWires ==
    ASSUME Types0, SockInv, WireInv, NEW v \in Service, SendInc(v)
    PROVE  WireInv'
<1> DEFINE i == Hash(call[v].id)
           s == sock[i]
           c == s.sending + 1
           t == [s EXCEPT !.sending = c]
<1>0. /\ call[v].pc = "inc" /\ UNCHANGED <<alloc_id, pipe, io, known, wire, sentBy, lowp, work>>
      /\ call' = [call EXCEPT ![v].pc = "ask"]
  BY DEF SendInc
<1>1. Calling(v)
  BY <1>0 DEF Calling
<1>2. i \in Slot /\ s \in Record /\ Of(call[v].id) = s /\ s.id = call[v].id
  BY <1>1, CallSlot
<1>3. Types0' /\ SockInv'
  BY SendIncKeeps
<1>4. CallsKept /\ \A w \in Service : call'[w].pc = "write" => call[w].pc = "write"
  <2>1. CallAt(v, "ask")
    BY <1>0, <1>1, CallFacts
  <2> QED BY <1>1, <2>1, CallKept
<1>5. /\ Moved(i) /\ sock'[i].id = s.id /\ sock'[i].tcp = s.tcp /\ sock'[i].type = s.type /\ SameData(s, sock'[i])
  <2>1. CASE UNCHANGED sock
    BY <1>2, <2>1, SameFacts DEF SameData
  <2>2. CASE Set(i, t)
    <3>0. c \in Int
      BY <1>2, RecordFields
    <3> HIDE DEF c
    <3>1. /\ t \in Record /\ t.id = s.id /\ t.tcp = s.tcp /\ t.type = s.type
          /\ t.high = s.high /\ t.low = s.low /\ t.dw = s.dw
      BY <1>2, <3>0 DEF Record
    <3> HIDE DEF t
    <3>2. Moved(i) /\ sock'[i] = t
      BY <1>2, <2>2, <3>1, SetFacts
    <3> QED BY <3>1, <3>2 DEF SameData
  <2> QED BY <1>2, <2>1, <2>2 DEF SendInc
<1> HIDE DEF i
<1> QED BY <1>0, <1>2, <1>3, <1>4, <1>5, SameMap, KeptWires

(* The second look: with nothing queued for the socket, the direct write may  *)
(* begin.                                                                     *)
LEMMA SendCheckWires ==
    ASSUME Types0, SockInv, WireInv, NEW v \in Service, SendCheck(v)
    PROVE  WireInv'
<1> DEFINE i == Hash(call[v].id)
           s == sock[i]
           t == [s EXCEPT !.lock = None]
<1>0. /\ call[v].pc = "check" /\ UNCHANGED <<alloc_id, pipe, io, known, wire, sentBy, lowp, work>>
      /\ \/ Set(i, t) /\ call' = [call EXCEPT ![v].pc = "inc"]
         \/ UNCHANGED sock /\ call' = [call EXCEPT ![v].pc = "write"] /\ CanDirectWrite(s, call[v].id)
  BY DEF SendCheck, Of
<1>1. Calling(v)
  BY <1>0 DEF Calling
<1>2. i \in Slot /\ s \in Record /\ s.id = call[v].id /\ call[v].id \in Id /\ s.tcp
  BY <1>1, CallSlot
<1>3. Types0' /\ SockInv' /\ DataMap(0)
  BY <1>0, SendCheckKeeps, SameMap
<1>4. ASSUME Set(i, t), call' = [call EXCEPT ![v].pc = "inc"] PROVE WireInv'
  <2>1. CallAt(v, "inc")
    BY <1>1, <1>4, CallFacts
  <2>2. CallsKept /\ \A w \in Service : call'[w].pc = "write" => call[w].pc = "write"
    BY <1>1, <2>1, CallKept
  <2>3. /\ t \in Record /\ t.id = s.id /\ t.tcp = s.tcp /\ t.type = s.type
        /\ t.high = s.high /\ t.low = s.low /\ t.dw = s.dw
    BY <1>2 DEF Record
  <2> HIDE DEF t
  <2>4. Moved(i) /\ sock'[i] = t
    BY <1>2, <1>4, <2>3, SetFacts
  <2>5. SameData(s, sock'[i])
    BY <2>3, <2>4 DEF SameData
  <2> HIDE DEF i
  <2> QED BY <1>0, <1>2, <1>3, <2>2, <2>3, <2>4, <2>5, KeptWires
<1>5. ASSUME UNCHANGED sock, call' = [call EXCEPT ![v].pc = "write"], CanDirectWrite(s, call[v].id) PROVE WireInv'
  <2>1. CallAt(v, "write")
    BY <1>1, <1>5, CallFacts
  <2>2. CallsKept
    BY <1>1, <2>1, CallKept
  <2>3. Wires /\ Writing /\ Ids /\ Counts
    BY DEF WireInv, SockInv
  <2>4. \A id \in Id : FrontIn(sock', id) = FrontOf(id) /\ LowIn(sock', id) = LowOf(id)
    BY <1>5 DEF FrontOf, LowOf
  <2>5. WiresNext
    BY <1>0, <1>5, <2>3, <2>4 DEF WiresNext, Wires, Of
  <2>6. HeldPassed
    BY <1>0, <1>5 DEF HeldPassed, HeldOf
  <2>7. WritersClear
    <3>1. FrontIn(sock', call[v].id) = << >>
      <4>1. s.high = << >> /\ s.dw = None
        BY <1>5 DEF CanDirectWrite, NoMoreSending, BufferEmpty
      <4>2. Front(s) = << >>
        BY <1>2, <4>1, MergedFacts
      <4> QED BY <1>2, <1>5, <4>2 DEF FrontIn
    <3>2. \A k \in DOMAIN pipe : ~(DataAt(k) /\ pipe[k].id = call[v].id)
      <4>1. s.sending = 0 /\ s.sending = Cardinality(QueuedIn(pipe, s.id)) + Cardinality(AskingIn(call, s.id))
        BY <1>2, <1>5, <2>3, CountsForm DEF CanDirectWrite, NoMoreSending
      <4>2. Cardinality(QueuedIn(pipe, s.id)) = 0 /\ IsFiniteSet(QueuedIn(pipe, s.id))
        BY <4>1, CountForms
      <4>3. QueuedIn(pipe, s.id) = {}
        BY <4>2, FS_EmptySet
      <4> QED BY <1>2, <4>3 DEF QueuedIn, DataAt
    <3> SUFFICES ASSUME NEW w \in Service, call'[w].pc = "write"
                 PROVE  /\ \A k \in DOMAIN FrontIn(sock', call'[w].id) :
                             /\ FrontIn(sock', call'[w].id)[k].left = Size
                             /\ sentBy[FrontIn(sock', call'[w].id)[k].p] # w
                        /\ \A k \in DOMAIN pipe' : pipe'[k].op \in SendOps /\ pipe'[k].id = call'[w].id
                                                   => sentBy[pipe'[k].p] # w
      BY DEF WritersClear
    <3>3. CASE w = v
      <4>1. call'[w].id = call[v].id
        BY <2>1, <3>3 DEF CallAt
      <4>2. \A k \in DOMAIN pipe' : ~(pipe'[k].op \in SendOps /\ pipe'[k].id = call'[w].id)
        BY <1>0, <3>2, <4>1 DEF DataAt
      <4>3. DOMAIN FrontIn(sock', call'[w].id) = {}
        BY <3>1, <4>1
      <4> QED BY <4>2, <4>3
    <3>4. CASE w # v
      <4>1. call'[w] = call[w]
        BY <2>1, <3>4 DEF CallAt
      <4>2. FrontIn(sock', call'[w].id) = FrontOf(call[w].id)
        BY <1>5, <4>1 DEF FrontOf
      <4> QED BY <1>0, <2>3, <4>1, <4>2 DEF Writing, DataAt
    <3> QED BY <3>3, <3>4
  <2> QED BY <1>0, <1>3, <2>2, <2>5, <2>6, <2>7, WireStep
<1> QED BY <1>0, <1>4, <1>5

(* What a socket holds are packets. *)
LEMMA HeldPackets ==
    ASSUME Types0, NEW id \in Id
    PROVE  /\ FrontOf(id) \in Seq(Buffer) /\ LowOf(id) \in Seq(Buffer) /\ wire[id] \in Seq(Packet)
           /\ HeldOf(id) \subseteq Packet
           /\ \A a \in DOMAIN wire[id] : wire[id][a] \in HeldOf(id)
           /\ \A k \in DOMAIN FrontOf(id) : FrontOf(id)[k].p \in HeldOf(id)
           /\ \A k \in DOMAIN LowOf(id) : LowOf(id)[k].p \in HeldOf(id)
<1> DEFINE F == FrontOf(id)
           L == LowOf(id)
           w == wire[id]
<1>1. sock[Hash(id)] \in Record /\ w \in Seq(Packet)
  BY Basics DEF Types0
<1>2. F \in Seq(Buffer) /\ L \in Seq(Buffer)
  <2> DEFINE s == sock[Hash(id)]
  <2>0. s \in Record
    BY <1>1
  <2> HIDE DEF s
  <2>a. Front(s) \in Seq(Buffer)
    BY <2>0, MergedFacts
  <2>b. s.low \in Seq(Buffer) /\ << >> \in Seq(Buffer)
    BY <2>0, RecordFields
  <2>1. Front(sock[Hash(id)]) \in Seq(Buffer) /\ sock[Hash(id)].low \in Seq(Buffer) /\ << >> \in Seq(Buffer)
    BY <2>a, <2>b DEF s
  <2> QED BY <2>1 DEF FrontOf, LowOf, FrontIn, LowIn
<1>3. HeldOf(id) = Held(w, F, L)
  BY DEF HeldOf, HeldIn, FrontOf, LowOf
<1> HIDE DEF F, L, w
<1>4. /\ \A k \in DOMAIN F : F[k].p \in Packet
      /\ \A k \in DOMAIN L : L[k].p \in Packet
      /\ \A a \in DOMAIN w : w[a] \in Packet
  <2>1. \A k \in DOMAIN F : F[k] \in Buffer
    BY <1>2
  <2>2. \A k \in DOMAIN L : L[k] \in Buffer
    BY <1>2
  <2>3. \A a \in DOMAIN w : w[a] \in Packet
    BY <1>1
  <2> QED BY <2>1, <2>2, <2>3, BufferFields
<1>5. /\ \A a \in DOMAIN w : w[a] \in Held(w, F, L)
      /\ \A k \in DOMAIN F : F[k].p \in Held(w, F, L)
      /\ \A k \in DOMAIN L : L[k].p \in Held(w, F, L)
      /\ Held(w, F, L) \subseteq Packet
  BY <1>4 DEF Held, PacketsOf, Range
<1> QED BY <1>1, <1>2, <1>3, <1>5 DEF F, L, w

(* Pending, written out for the state after the step. *)
PendingNext ==
    /\ \A p, q \in Packet : sentBy'[q] # None /\ p < q => sentBy'[p] # None
    /\ \A p \in lowp' : sentBy'[p] # None
    /\ \A k \in DOMAIN pipe' : pipe'[k].op \in SendOps =>
         /\ pipe'[k].p \notin HeldIn(sock', wire', pipe'[k].id)
         /\ sentBy'[pipe'[k].p] # None
         /\ pipe'[k].op = "P" <=> pipe'[k].p \in lowp'
         /\ \A q \in HeldIn(sock', wire', pipe'[k].id) : Before(q, pipe[k].p)'
    /\ \A k, l \in DOMAIN pipe' : pipe'[k].op \in SendOps /\ pipe'[l].op \in SendOps /\ k < l =>
         pipe'[k].p # pipe'[l].p /\ (pipe'[k].id = pipe'[l].id => Before(pipe[k].p, pipe[l].p)')
    /\ \A v \in Service : call'[v].pc # "out" =>
         /\ sentBy'[call'[v].p] = v
         /\ \A q \in Packet : sentBy'[q] = v => q <= call'[v].p
         /\ call'[v].p \notin HeldIn(sock', wire', call'[v].id)
         /\ \A k \in DOMAIN pipe' : pipe'[k].op \in SendOps => pipe'[k].p # call'[v].p

(* Pending, from its written-out form. *)
LEMMA PendingFollows ==
    ASSUME PendingNext
    PROVE  Pending'
<1>1. \A k \in DOMAIN pipe' : HeldOf(pipe[k].id)' = HeldIn(sock', wire', pipe'[k].id)
  BY NextViews DEF HeldOf, HeldIn
<1>2. \A v \in Service : HeldOf(call[v].id)' = HeldIn(sock', wire', call'[v].id)
  BY NextViews DEF HeldOf, HeldIn
<1> QED BY <1>1, <1>2 DEF Pending, PendingNext, DataAt, Calling

(* The request D or P is written *)
LEMMA SendAskWires ==
    ASSUME Types0, SockInv, WireInv, NEW v \in Service, SendAsk(v)
    PROVE  WireInv'
<1> DEFINE id == call[v].id
           p == call[v].p
           r == [op |-> IF p \in lowp THEN "P" ELSE "D", id |-> id, p |-> p]
           n == Len(pipe)
<1>0. /\ call[v].pc = "ask" /\ UNCHANGED <<sock, alloc_id, io, known, wire, sentBy, lowp, work>>
      /\ call' = [call EXCEPT ![v] = Out] /\ Ask(r)
  BY DEF SendAsk
<1>1. Calling(v) /\ Wires /\ Pending /\ Writing
  BY <1>0 DEF Calling, WireInv
<1>2. /\ id \in Id /\ p \in Packet /\ known[id] = "conn"
  BY <1>1, CallSlot
<1>3. /\ r.op \in SendOps /\ r.id = id /\ r.p = p /\ (r.op = "P" <=> p \in lowp) /\ Fresh(r)
  <2>1. /\ r \in [op : SendOps, id : Id, p : Packet] /\ r.id = id /\ r.op \in SendOps /\ r.p = p
        /\ r.op = "P" <=> p \in lowp
    BY <1>2 DEF SendOps
  <2> HIDE DEF r
  <2> QED BY <1>2, <2>1, SocketAssumption DEF Fresh, Requests, SendOps
<1> HIDE DEF r
<1>4. /\ n \in Nat /\ DOMAIN pipe = 1..n /\ DOMAIN pipe' = 1..(n + 1) /\ pipe'[n + 1] = r
      /\ \A k \in DOMAIN pipe : pipe'[k] = pipe[k]
  BY <1>0, <1>3, PipeAppend
<1> HIDE DEF n
<1>5. /\ \A k \in DOMAIN pipe' : k \in Nat /\ ((k = n + 1 /\ pipe'[k] = r) \/ (k \in DOMAIN pipe /\ pipe'[k] = pipe[k]))
      /\ \A k \in DOMAIN pipe : k < n + 1 /\ ~(n + 1 < k)
      /\ ~(n + 1 < n + 1)
  BY <1>4
<1>6. Types0' /\ SockInv' /\ CallAt(v, "out")
  BY <1>0, <1>1, SendAskKeeps, CallFacts
<1>7. /\ sentBy[p] = v /\ v # None
      /\ \A q \in Packet : sentBy[q] = v => q <= p
      /\ p \notin HeldOf(id)
      /\ \A k \in DOMAIN pipe : DataAt(k) => pipe[k].p # p
  BY <1>1, SocketAssumption DEF Pending
<1> HIDE DEF id, p
<1>8. \A q \in Packet : Before(q, p)
  BY <1>7 DEF Before
<1>9. WiresNext
  BY <1>0, <1>1 DEF WiresNext, Wires, FrontOf, LowOf, Of
<1>10. Wires'
  BY <1>0, <1>9, WiresFollow
<1>11. /\ \A x, y : Before(x, y)' <=> Before(x, y)
       /\ \A x : HeldIn(sock', wire', x) = HeldOf(x)
  BY <1>0 DEF Before, HeldOf
<1>12. \A k \in DOMAIN pipe : DataAt(k) => pipe[k].id \in Id /\ pipe[k].p \in Packet
  BY Basics
<1>13. ASSUME NEW k \in DOMAIN pipe', pipe'[k].op \in SendOps
       PROVE  /\ pipe'[k].p \notin HeldOf(pipe'[k].id)
              /\ sentBy[pipe'[k].p] # None
              /\ pipe'[k].op = "P" <=> pipe'[k].p \in lowp
              /\ \A q \in HeldOf(pipe'[k].id) : Before(q, pipe'[k].p)
  <2>1. CASE k = n + 1 /\ pipe'[k] = r
    <3>1. \A q \in HeldOf(id) : Before(q, p)
      BY <1>2, <1>8, HeldPackets DEF id
    <3> QED BY <1>3, <1>7, <2>1, <3>1
  <2>2. CASE k \in DOMAIN pipe /\ pipe'[k] = pipe[k]
    BY <1>1, <1>13, <2>2 DEF Pending, DataAt
  <2> QED BY <1>5, <2>1, <2>2
<1>14. ASSUME NEW k \in DOMAIN pipe', NEW l \in DOMAIN pipe', pipe'[k].op \in SendOps, pipe'[l].op \in SendOps, k < l
       PROVE  pipe'[k].p # pipe'[l].p /\ (pipe'[k].id = pipe'[l].id => Before(pipe'[k].p, pipe'[l].p))
  <2>1. k \in DOMAIN pipe /\ pipe'[k] = pipe[k] /\ DataAt(k)
    BY <1>5, <1>14 DEF DataAt
  <2>2. CASE l = n + 1 /\ pipe'[l] = r
    BY <1>3, <1>7, <1>8, <1>12, <2>1, <2>2
  <2>3. CASE l \in DOMAIN pipe /\ pipe'[l] = pipe[l]
    BY <1>1, <1>14, <2>1, <2>3 DEF Pending, DataAt
  <2> QED BY <1>5, <2>2, <2>3
<1>15. ASSUME NEW w \in Service, call'[w].pc # "out"
       PROVE  /\ call'[w] = call[w] /\ w # v
              /\ sentBy[call'[w].p] = w
              /\ \A q \in Packet : sentBy[q] = w => q <= call'[w].p
              /\ call'[w].p \notin HeldOf(call'[w].id)
              /\ \A k \in DOMAIN pipe' : pipe'[k].op \in SendOps => pipe'[k].p # call'[w].p
  <2>1. w # v /\ call'[w] = call[w] /\ Calling(w)
    BY <1>6, <1>15 DEF CallAt, Calling
  <2>2. /\ sentBy[call[w].p] = w
        /\ \A q \in Packet : sentBy[q] = w => q <= call[w].p
        /\ call[w].p \notin HeldOf(call[w].id)
        /\ \A k \in DOMAIN pipe : DataAt(k) => pipe[k].p # call[w].p
    BY <1>1, <2>1 DEF Pending
  <2>3. \A k \in DOMAIN pipe' : pipe'[k].op \in SendOps => pipe'[k].p # call[w].p
    BY <1>3, <1>5, <1>7, <2>1, <2>2 DEF DataAt
  <2> QED BY <2>1, <2>2, <2>3
<1>16. Pending'
  <2>1. PendingNext
    <3>1. /\ \A x, y \in Packet : sentBy'[y] # None /\ x < y => sentBy'[x] # None
          /\ \A x \in lowp' : sentBy'[x] # None
      BY <1>0, <1>1 DEF Pending
    <3>2. \A k, l : /\ \A q : Before(q, pipe[k].p)' <=> Before(q, pipe'[k].p)
                    /\ Before(pipe[k].p, pipe[l].p)' <=> Before(pipe'[k].p, pipe'[l].p)
      BY <1>0 DEF Before
    <3> QED BY <1>0, <1>11, <1>13, <1>14, <1>15, <3>1, <3>2 DEF PendingNext
  <2> QED BY <2>1, PendingFollows
<1>17. Writing'
  <2>1. WritersClear
    <3> SUFFICES ASSUME NEW w \in Service, call'[w].pc = "write"
                 PROVE  /\ \A k \in DOMAIN FrontIn(sock', call'[w].id) :
                             /\ FrontIn(sock', call'[w].id)[k].left = Size
                             /\ sentBy[FrontIn(sock', call'[w].id)[k].p] # w
                        /\ \A k \in DOMAIN pipe' : pipe'[k].op \in SendOps /\ pipe'[k].id = call'[w].id
                                                   => sentBy[pipe'[k].p] # w
      BY DEF WritersClear
    <3>1. call'[w] = call[w] /\ w # v
      BY <1>15
    <3>2. FrontIn(sock', call'[w].id) = FrontOf(call[w].id)
      BY <1>0, <3>1 DEF FrontOf
    <3>3. \A k \in DOMAIN FrontOf(call[w].id) :
            FrontOf(call[w].id)[k].left = Size /\ sentBy[FrontOf(call[w].id)[k].p] # w
      BY <1>1, <3>1 DEF Writing
    <3>4. \A k \in DOMAIN pipe' : pipe'[k].op \in SendOps /\ pipe'[k].id = call'[w].id => sentBy[pipe'[k].p] # w
      BY <1>1, <1>3, <1>5, <1>7, <3>1 DEF Writing, DataAt
    <3> QED BY <3>2, <3>3, <3>4
  <2> QED BY <1>0, <2>1, NextViews DEF Writing, WritersClear, DataAt
<1> QED BY <1>10, <1>16, <1>17 DEF WireInv

(* A packet that is sent now is on no socket yet: the wires do not see it. *)
LEMMA SoundFresh ==
    ASSUME Types0, NEW id \in Id, NEW p, UNCHANGED <<sock, wire>>, p \notin HeldOf(id),
           \A q \in Packet : q # p => sentBy'[q] = sentBy[q] /\ (q \in lowp' <=> q \in lowp),
           Sound(wire[id], FrontOf(id), LowOf(id))
    PROVE  Sound(wire[id], FrontOf(id), LowOf(id))'
<1> DEFINE F == FrontOf(id)
           L == LowOf(id)
           w == wire[id]
           H == HeldOf(id)
<1>1. /\ H \subseteq Packet
      /\ \A a \in DOMAIN w : w[a] \in H
      /\ \A k \in DOMAIN F : F[k].p \in H
      /\ \A k \in DOMAIN L : L[k].p \in H
  BY HeldPackets
<1>2. FrontOf(id)' = F /\ LowOf(id)' = L /\ wire'[id] = w /\ H = Held(w, F, L)
  BY NextViews DEF FrontOf, LowOf, HeldOf, HeldIn
<1>3. Sound(w, F, L)
  OBVIOUS
<1> HIDE DEF F, L, w, H
<1>4. \A x \in H : x \in Packet /\ x # p /\ sentBy'[x] = sentBy[x] /\ (x \in lowp' <=> x \in lowp)
  BY <1>1 DEF H
<1>5. \A x, y \in H : Before(x, y)' <=> Before(x, y)
  <2> TAKE x, y \in H
  <2>1. {x, y} \cap lowp' = {} <=> {x, y} \cap lowp = {}
    BY <1>4
  <2> QED BY <1>4, <2>1 DEF Before
<1>6. /\ Whole(w)
      /\ \A k \in DOMAIN F : k # 1 => F[k].left = Size
      /\ \A k \in DOMAIN L : L[k].left = Size
      /\ \A k \in DOMAIN F : F[k].left = Size => F[k].p \notin Range(w)
      /\ \A k \in DOMAIN L : L[k].p \notin Range(w) /\ L[k].p \in lowp'
      /\ \A k, l \in DOMAIN F : F[k].p = F[l].p => k = l
      /\ \A k, l \in DOMAIN L : L[k].p = L[l].p => k = l
      /\ \A k \in DOMAIN F, l \in DOMAIN L : F[k].p # L[l].p
      /\ 1 \in DOMAIN F /\ F[1].left < Size =>
           /\ \A a \in DOMAIN w : w[a] = F[1].p => \A k \in a..Len(w) : w[k] = F[1].p
           /\ Count(w, F[1].p) = Size - F[1].left
  BY <1>1, <1>3, <1>4 DEF Sound
<1>7. /\ \A a, b \in DOMAIN w : a < b => Before(w[a], w[b])
      /\ \A a \in DOMAIN w, k \in DOMAIN F : Before(w[a], F[k].p)
      /\ \A k, l \in DOMAIN F : k < l => Before(F[k].p, F[l].p)
      /\ \A x \in H : sentBy[x] # None
  BY <1>2, <1>3 DEF Sound
<1>8. /\ \A a, b \in DOMAIN w : a < b => Before(wire[id][a], wire[id][b])'
      /\ \A a \in DOMAIN w, k \in DOMAIN F : Before(wire[id][a], FrontOf(id)[k].p)'
      /\ \A k, l \in DOMAIN F : k < l => Before(FrontOf(id)[k].p, FrontOf(id)[l].p)'
  <2>1. \A x, y \in H : (sentBy'[x] = sentBy'[y] /\ {x, y} \cap lowp' = {} => x <= y) <=> Before(x, y)
    BY <1>5 DEF Before
  <2> QED BY <1>1, <1>2, <1>7, <2>1 DEF Before
<1>9. \A x \in H : sentBy'[x] # None
  BY <1>4, <1>7
<1> QED BY <1>2, <1>6, <1>8, <1>9 DEF Sound, Whole, Count, Held, PacketsOf, Range

(* socket_server_send begins *)
LEMMA SendStartWires ==
    ASSUME Types0, SockInv, WireInv, NEW v \in Service, NEW id \in Id, NEW p \in Packet, NEW lp \in BOOLEAN,
           SendStart(v, id, p, lp)
    PROVE  WireInv'
<1>0. /\ UNCHANGED <<sock, alloc_id, pipe, io, known, wire>> /\ call[v].pc = "out"
      /\ lowp' = (IF lp THEN lowp \cup {p} ELSE lowp) /\ sentBy' = [sentBy EXCEPT ![p] = v]
      /\ sentBy[p] = None /\ \A q \in Packet : q < p => sentBy[q] # None
  BY DEF SendStart
<1>1. /\ Types0' /\ SockInv'
      /\ call'[v].pc \in {"out", "trylock", "inc"} /\ \A w \in Service : w # v => call'[w] = call[w]
      /\ call'[v].pc # "out" => call'[v].id = id /\ call'[v].p = p /\ Of(id).id = id
  BY SendStartKeeps
<1>2. Wires /\ Pending /\ Writing
  BY DEF WireInv
<1>3. /\ \A q \in Packet : q # p => sentBy'[q] = sentBy[q] /\ (q \in lowp' <=> q \in lowp)
      /\ sentBy'[p] = v /\ v # None /\ p \notin lowp /\ Packet \subseteq Nat /\ lowp' \subseteq Packet
  <2>1. p \notin lowp
    BY <1>0, <1>2 DEF Pending
  <2> QED BY <1>0, <2>1, SocketAssumption DEF Types0
<1>4. \A x \in Id : p \notin HeldOf(x) /\ HeldOf(x) \subseteq Packet
  <2> TAKE x \in Id
  <2>1. \A q \in Held(wire[x], FrontOf(x), LowOf(x)) : sentBy[q] # None
    BY <1>2 DEF Wires, Sound
  <2> QED BY <1>0, <2>1, HeldPackets DEF HeldOf, HeldIn, FrontOf, LowOf
<1>5. Wires'
  <2>1. \A x \in Id : Sound(wire[x], FrontOf(x), LowOf(x))'
    BY <1>0, <1>2, <1>3, <1>4, SoundFresh DEF Wires
  <2>2. \A x \in Id : (Of(x).id = x /\ Of(x).type # "INVALID" => NotTorn(wire[x], FrontOf(x)))'
    <3>1. \A x \in Id : sock'[Hash(x)].id = x /\ sock'[Hash(x)].type # "INVALID"
                           => NotTorn(wire'[x], FrontIn(sock', x))
      BY <1>0, <1>2 DEF Wires, FrontOf, Of
    <3> QED BY <3>1, NextViews DEF Of, NotTorn, Count
  <2>3. \A x \in Id : (x > alloc_id \/ (Of(x).id = x /\ ~Of(x).tcp) => wire[x] = << >>)'
    BY <1>0, <1>2 DEF Wires, Of
  <2> QED BY <2>1, <2>2, <2>3 DEF Wires
<1>6. /\ \A k \in DOMAIN pipe : DataAt(k) => pipe[k].p \in Packet /\ pipe[k].p # p /\ pipe[k].id \in Id
      /\ \A w \in Service : Calling(w) => call[w].p \in Packet /\ call[w].p # p /\ call[w].id \in Id
  <2>1. \A k \in DOMAIN pipe : DataAt(k) => sentBy[pipe[k].p] # None
    BY <1>2 DEF Pending
  <2>2. \A w \in Service : Calling(w) => sentBy[call[w].p] # None
    BY <1>2, SocketAssumption DEF Pending
  <2> QED BY <1>0, <2>1, <2>2, Basics
<1>7. /\ \A x : HeldIn(sock', wire', x) = HeldOf(x)
      /\ \A x : FrontIn(sock', x) = FrontOf(x)
  BY <1>0 DEF HeldOf, FrontOf
<1>8. \A x, y \in Packet : x # p /\ y # p =>
         ((sentBy'[x] = sentBy'[y] /\ {x, y} \cap lowp' = {} => x <= y) <=> Before(x, y))
  <2> TAKE x, y \in Packet
  <2> HAVE x # p /\ y # p
  <2>1. {x, y} \cap lowp' = {} <=> {x, y} \cap lowp = {}
    BY <1>3
  <2> QED BY <1>3, <2>1 DEF Before
<1>9. \A q \in Packet : sentBy[q] # None => q < p
  <2> TAKE q \in Packet
  <2> HAVE sentBy[q] # None
  <2>1. ~(p < q) /\ q # p
    BY <1>0, <1>2 DEF Pending
  <2> QED BY <1>3, <2>1
<1>10. Pending'
  <2>1. \A x, y \in Packet : sentBy'[y] # None /\ x < y => sentBy'[x] # None
    <3> TAKE x, y \in Packet
    <3> HAVE sentBy'[y] # None /\ x < y
    <3>1. CASE x = p
      BY <1>3, <3>1
    <3>2. CASE x # p /\ y = p
      BY <1>0, <1>3, <3>2
    <3>3. CASE x # p /\ y # p
      BY <1>2, <1>3, <3>3 DEF Pending
    <3> QED BY <3>1, <3>2, <3>3
  <2>2. \A x \in lowp' : sentBy'[x] # None
    <3> TAKE x \in lowp'
    <3>1. CASE x = p
      BY <1>3, <3>1
    <3>2. CASE x # p
      BY <1>2, <1>3, <3>2 DEF Pending
    <3> QED BY <3>1, <3>2
  <2>3. ASSUME NEW k \in DOMAIN pipe', pipe'[k].op \in SendOps
        PROVE  /\ pipe'[k].p \notin HeldIn(sock', wire', pipe'[k].id)
               /\ sentBy'[pipe'[k].p] # None
               /\ pipe'[k].op = "P" <=> pipe'[k].p \in lowp'
               /\ \A q \in HeldIn(sock', wire', pipe'[k].id) : Before(q, pipe[k].p)'
    <3>1. k \in DOMAIN pipe /\ pipe'[k] = pipe[k] /\ DataAt(k)
      BY <1>0, <2>3 DEF DataAt
    <3>2. /\ pipe[k].p \notin HeldOf(pipe[k].id)
          /\ sentBy[pipe[k].p] # None
          /\ pipe[k].op = "P" <=> pipe[k].p \in lowp
          /\ \A q \in HeldOf(pipe[k].id) : Before(q, pipe[k].p)
      BY <1>2, <3>1 DEF Pending
    <3>3. pipe[k].p \in Packet /\ pipe[k].p # p /\ pipe[k].id \in Id
      BY <1>6, <3>1
    <3>4. ASSUME NEW q \in HeldOf(pipe[k].id) PROVE Before(q, pipe[k].p)'
      <4>1. q \in Packet /\ q # p
        BY <1>4, <3>3, <3>4
      <4> QED BY <1>8, <3>1, <3>2, <3>3, <4>1 DEF Before
    <3> QED BY <1>3, <1>7, <3>1, <3>2, <3>3, <3>4
  <2>4. ASSUME NEW k \in DOMAIN pipe', NEW l \in DOMAIN pipe', pipe'[k].op \in SendOps, pipe'[l].op \in SendOps, k < l
        PROVE  pipe'[k].p # pipe'[l].p /\ (pipe'[k].id = pipe'[l].id => Before(pipe[k].p, pipe[l].p)')
    <3>1. k \in DOMAIN pipe /\ DataAt(k) /\ l \in DOMAIN pipe /\ DataAt(l) /\ pipe' = pipe
      BY <1>0, <2>4 DEF DataAt
    <3>2. pipe[k].p # pipe[l].p /\ (pipe[k].id = pipe[l].id => Before(pipe[k].p, pipe[l].p))
      BY <1>2, <2>4, <3>1 DEF Pending
    <3>3. pipe[k].p \in Packet /\ pipe[k].p # p /\ pipe[l].p \in Packet /\ pipe[l].p # p
      BY <1>6, <3>1
    <3> QED BY <1>8, <3>1, <3>2, <3>3 DEF Before
  <2>5. ASSUME NEW w \in Service, call'[w].pc # "out"
        PROVE  /\ sentBy'[call'[w].p] = w
               /\ \A q \in Packet : sentBy'[q] = w => q <= call'[w].p
               /\ call'[w].p \notin HeldIn(sock', wire', call'[w].id)
               /\ \A k \in DOMAIN pipe' : pipe'[k].op \in SendOps => pipe'[k].p # call'[w].p
    <3>1. CASE w = v
      <4>1. call'[w].id = id /\ call'[w].p = p
        BY <1>1, <2>5, <3>1
      <4>2. \A q \in Packet : sentBy'[q] = v => q <= p
        <5> TAKE q \in Packet
        <5> HAVE sentBy'[q] = v
        <5>1. q \in Nat /\ p \in Nat
          BY <1>3
        <5>2. CASE q = p
          BY <5>1, <5>2
        <5>3. CASE q # p
          <6>1. q < p
            BY <1>3, <1>9, <5>3
          <6> QED BY <5>1, <6>1
        <5> QED BY <5>2, <5>3
      <4>3. p \notin HeldIn(sock', wire', id)
        BY <1>4, <1>7
      <4>4. \A k \in DOMAIN pipe' : pipe'[k].op \in SendOps => pipe'[k].p # p
        BY <1>0, <1>6 DEF DataAt
      <4> QED BY <1>3, <3>1, <4>1, <4>2, <4>3, <4>4
    <3>2. CASE w # v
      <4>1. call'[w] = call[w] /\ Calling(w)
        BY <1>1, <2>5, <3>2 DEF Calling
      <4>2. /\ sentBy[call[w].p] = w
            /\ \A q \in Packet : sentBy[q] = w => q <= call[w].p
            /\ call[w].p \notin HeldOf(call[w].id)
            /\ \A k \in DOMAIN pipe : DataAt(k) => pipe[k].p # call[w].p
        BY <1>2, <4>1 DEF Pending
      <4>3. call[w].p \in Packet /\ call[w].p # p
        BY <1>6, <4>1
      <4>4. \A q \in Packet : sentBy'[q] = w => q <= call[w].p
        BY <1>3, <3>2, <4>2
      <4>5. \A k \in DOMAIN pipe' : pipe'[k].op \in SendOps => pipe'[k].p # call[w].p
        BY <1>0, <4>2 DEF DataAt
      <4>6. sentBy'[call[w].p] = w
        BY <1>3, <4>2, <4>3
      <4> QED BY <1>7, <4>1, <4>2, <4>4, <4>5, <4>6
    <3> QED BY <3>1, <3>2
  <2>6. PendingNext
    BY <2>1, <2>2, <2>3, <2>4, <2>5 DEF PendingNext
  <2> QED BY <2>6, PendingFollows
<1>11. Writing'
  <2>1. ASSUME NEW w \in Service, call'[w].pc = "write"
        PROVE  /\ \A k \in DOMAIN FrontIn(sock', call'[w].id) :
                    /\ FrontIn(sock', call'[w].id)[k].left = Size
                    /\ sentBy'[FrontIn(sock', call'[w].id)[k].p] # w
               /\ \A k \in DOMAIN pipe' : pipe'[k].op \in SendOps /\ pipe'[k].id = call'[w].id
                                          => sentBy'[pipe'[k].p] # w
    <3>1. w # v /\ call'[w] = call[w] /\ call[w].pc = "write" /\ Calling(w)
      BY <1>1, <2>1 DEF Calling
    <3>2. call[w].id \in Id
      BY <1>6, <3>1
    <3> DEFINE F == FrontOf(call[w].id)
    <3>3. \A k \in DOMAIN F : F[k].left = Size /\ sentBy[F[k].p] # w
      BY <1>2, <3>1 DEF Writing
    <3>4. \A k \in DOMAIN F : F[k].p \in Packet /\ F[k].p # p
      BY <1>4, <3>2, HeldPackets
    <3>5. FrontIn(sock', call'[w].id) = F
      BY <1>7, <3>1
    <3> HIDE DEF F
    <3>6. \A k \in DOMAIN pipe' : pipe'[k].op \in SendOps /\ pipe'[k].id = call'[w].id => sentBy'[pipe'[k].p] # w
      <4> TAKE k \in DOMAIN pipe'
      <4> HAVE pipe'[k].op \in SendOps /\ pipe'[k].id = call'[w].id
      <4>1. k \in DOMAIN pipe /\ DataAt(k) /\ pipe' = pipe /\ pipe[k].id = call[w].id
        BY <1>0, <3>1 DEF DataAt
      <4>2. sentBy[pipe[k].p] # w
        BY <1>2, <3>1, <4>1 DEF Writing
      <4> QED BY <1>3, <1>6, <4>1, <4>2
    <3> QED BY <1>3, <3>3, <3>4, <3>5, <3>6
  <2>2. \A w \in Service : FrontOf(call[w].id)' = FrontIn(sock', call'[w].id)
    BY NextViews DEF FrontOf
  <2> QED BY <2>1, <2>2 DEF Writing, DataAt
<1> QED BY <1>5, <1>10, <1>11 DEF WireInv

(* No direct write is under way on socket x. *)
NoWriterOn(x) == \A v \in Service : call'[v].pc = "write" => call[v].pc = "write" /\ call[v].id # x

(* The wire and the lists of slot i fit together after the step, and hold     *)
(* nothing that could overtake.                                               *)
SlotAgain(i) ==
    /\ Sound(wire'[sock[i].id], Front(sock'[i]), sock'[i].low)
    /\ sock'[i].type # "INVALID" => NotTorn(wire'[sock[i].id], Front(sock'[i]))
    /\ \A q \in Held(wire'[sock[i].id], Front(sock'[i]), sock'[i].low) :
         q \in HeldOf(sock[i].id) \/ Passed(q, sock[i].id)

(* A step on slot i that keeps its id and leaves it sound. *)
LEMMA SlotWires ==
    ASSUME Types0, Types0', SockInv, WireInv, UNCHANGED <<sentBy, lowp, alloc_id>>,
           NEW e, DataMap(e), e \in {0, 1}, CallsKept,
           NEW i \in Slot, Moved(i), sock'[i].id = sock[i].id, sock'[i].tcp, sock[i].id # 0,
           \A id \in Id : id # sock[i].id => wire'[id] = wire[id],
           SlotAgain(i), WritersClear
    PROVE  WireInv'
<1>1. /\ \A id \in Id : id # sock[i].id =>
            /\ FrontIn(sock', id) = FrontOf(id) /\ LowIn(sock', id) = LowOf(id)
            /\ sock'[Hash(id)].id = id => sock'[Hash(id)] = Of(id)
      /\ sock[i].id \in Id /\ Hash(sock[i].id) = i /\ Of(sock[i].id) = sock[i]
      /\ FrontIn(sock', sock[i].id) = Front(sock'[i]) /\ FrontOf(sock[i].id) = Front(sock[i])
      /\ LowIn(sock', sock[i].id) = sock'[i].low /\ LowOf(sock[i].id) = sock[i].low
  BY OtherLists
<1>2. Wires /\ ~(sock[i].id > alloc_id)
  <2>1. sock[i].id <= alloc_id /\ alloc_id \in Nat /\ sock[i].id \in Nat
    BY <1>1, Basics DEF SockInv, Slots
  <2> QED BY <2>1 DEF WireInv
<1>3. WiresNext
  <2>1. ASSUME NEW id \in Id
        PROVE  /\ Sound(wire'[id], FrontIn(sock', id), LowIn(sock', id))
               /\ sock'[Hash(id)].id = id /\ sock'[Hash(id)].type # "INVALID" => NotTorn(wire'[id], FrontIn(sock', id))
               /\ id > alloc_id' \/ (sock'[Hash(id)].id = id /\ ~sock'[Hash(id)].tcp) => wire'[id] = << >>
    <3>1. CASE id = sock[i].id
      BY <1>1, <1>2, <3>1 DEF SlotAgain
    <3>2. CASE id # sock[i].id
      <4>1. /\ wire'[id] = wire[id] /\ FrontIn(sock', id) = FrontOf(id) /\ LowIn(sock', id) = LowOf(id)
            /\ sock'[Hash(id)].id = id => sock'[Hash(id)] = Of(id)
        BY <1>1, <3>2
      <4> QED BY <1>2, <4>1 DEF Wires
    <3> QED BY <3>1, <3>2
  <2> QED BY <2>1 DEF WiresNext
<1>4. HeldPassed
  <2>1. ASSUME NEW id \in Id, NEW q \in HeldIn(sock', wire', id) PROVE q \in HeldOf(id) \/ Passed(q, id)
    <3>1. CASE id = sock[i].id
      BY <1>1, <2>1, <3>1 DEF SlotAgain, HeldIn
    <3>2. CASE id # sock[i].id
      BY <1>1, <2>1, <3>2 DEF HeldIn, HeldOf, FrontOf, LowOf
    <3> QED BY <3>1, <3>2
  <2> QED BY <2>1 DEF HeldPassed
<1> QED BY <1>3, <1>4, WireStep

(* The direct writes on other sockets see nothing of it. *)
LEMMA WritersElsewhere ==
    ASSUME Types0, SockInv, WireInv, NEW e, DataMap(e), CallsKept,
           NEW i \in Slot, Moved(i), sock'[i].id = sock[i].id, NoWriterOn(sock[i].id)
    PROVE  WritersClear
<1>1. \A id \in Id : id # sock[i].id => FrontIn(sock', id) = FrontOf(id)
  BY OtherLists
<1>2. \A v \in Service : call'[v].pc = "write" =>
               /\ call[v].pc = "write" /\ call'[v].id = call[v].id
               /\ FrontIn(sock', call[v].id) = FrontOf(call[v].id)
  <2> TAKE v \in Service
  <2> HAVE call'[v].pc = "write"
  <2>1. Calling(v) /\ call'[v].id = call[v].id /\ call[v].pc = "write" /\ call[v].id # sock[i].id
    BY DEF CallsKept, NoWriterOn
  <2>2. call[v].id \in Id
    BY <2>1, Basics
  <2> QED BY <1>1, <2>1, <2>2
<1> QED BY <1>2, WritersStay DEF SockInv, WireInv

(* Nobody writes on a socket whose lock is free. *)
LEMMA UnlockedSlot ==
    ASSUME Types0, SockInv, UNCHANGED call, NEW i \in Slot, sock[i].lock = None, sock[i].id # 0
    PROVE  NoWriterOn(sock[i].id)
<1>1. Hash(sock[i].id) = i /\ Of(sock[i].id) = sock[i]
  BY DEF SockInv, Slots, Of
<1>2. ASSUME NEW v \in Service, call'[v].pc = "write" PROVE call[v].pc = "write" /\ call[v].id # sock[i].id
  <2>1. call[v].pc = "write" /\ Of(call[v].id).lock = v /\ v # None
    BY <1>2, SocketAssumption DEF SockInv, Locks
  <2> QED BY <1>1, <2>1
<1> QED BY <1>2 DEF NoWriterOn

(* What is on the wire stays in order when the lists are thrown away. *)
LEMMA SoundEmpty ==
    ASSUME NEW w, NEW F, NEW L, Sound(w, F, L)
    PROVE  Sound(w, << >>, << >>) /\ Held(w, << >>, << >>) \subseteq Held(w, F, L)
<1>1. DOMAIN << >> = {}
  OBVIOUS
<1>2. Held(w, << >>, << >>) \subseteq Held(w, F, L)
  BY <1>1 DEF Held, PacketsOf
<1>3. /\ Whole(w)
      /\ \A a, b \in DOMAIN w : a < b => Before(w[a], w[b])
      /\ \A p \in Held(w, F, L) : sentBy[p] # None
  BY DEF Sound
<1> QED BY <1>1, <1>2, <1>3 DEF Sound

(* force_close throws the lists of a slot away. *)
LEMMA ClosedWires ==
    ASSUME Types0, Types0', SockInv, WireInv, UNCHANGED <<sentBy, lowp, alloc_id, wire, call>>,
           NEW e, DataMap(e), e \in {0, 1},
           NEW i \in Slot, Set(i, ForceClosed(sock[i])), sock[i].lock = None,
           sock[i].type \notin {"INVALID", "RESERVE"}
    PROVE  WireInv'
<1> DEFINE s == sock[i]
           t == ForceClosed(s)
<1>1. s \in Record /\ SlotSound(s) /\ s.tcp /\ s.id # 0
  BY Basics DEF SockInv, Slots, SlotSound
<1>2. t \in Record /\ Same(s, t) /\ t.type = "INVALID" /\ NoData(t)
  BY <1>1, ForceClosedFacts
<1> HIDE DEF t
<1>3. Moved(i) /\ sock'[i] = t
  BY <1>2, SetFacts DEF t
<1>4. sock'[i].id = s.id /\ sock'[i].tcp /\ CallsKept
  BY <1>1, <1>2, <1>3, SameCalls DEF Same
<1>5. Front(t) = << >> /\ t.low = << >>
  BY <1>2, MergedFacts DEF NoData, BufferEmpty
<1>6. /\ s.id \in Id /\ FrontOf(s.id) = Front(s) /\ LowOf(s.id) = s.low
  BY <1>1, <1>3, <1>4, OtherLists
<1>7. SlotAgain(i)
  <2>1. Sound(wire[s.id], FrontOf(s.id), LowOf(s.id))
    BY <1>6 DEF WireInv, Wires
  <2>2. /\ Sound(wire[s.id], << >>, << >>)
        /\ Held(wire[s.id], << >>, << >>) \subseteq HeldOf(s.id)
    BY <2>1, SoundEmpty DEF HeldOf, HeldIn, FrontOf, LowOf
  <2> QED BY <1>2, <1>3, <1>5, <2>2 DEF SlotAgain
<1>8. WritersClear
  BY <1>1, <1>3, <1>4, UnlockedSlot, WritersElsewhere
<1> QED BY <1>1, <1>3, <1>4, <1>7, <1>8, SlotWires

(* force_close *)
LEMMA ForceCloseWires ==
    ASSUME Types0, SockInv, WireInv, ForceClose
    PROVE  WireInv'
<1> DEFINE i == io
<1>0. /\ io # None /\ sock[i].lock = None /\ Set(i, ForceClosed(sock[i]))
      /\ UNCHANGED <<alloc_id, pipe, call, known, wire, sentBy, lowp, work>>
  BY DEF ForceClose
<1>1. i \in Slot /\ sock[i].type \notin {"INVALID", "RESERVE"}
  BY <1>0 DEF Types0, SockInv, Slots
<1>2. Types0' /\ DataMap(0)
  BY <1>0, ForceCloseKeeps, SameMap
<1> HIDE DEF i
<1> QED BY <1>0, <1>1, <1>2, ClosedWires

(* close_socket whose write fails *)
LEMMA CtrlCloseErrorWires ==
    ASSUME Types0, SockInv, WireInv, CtrlCloseError
    PROVE  WireInv'
<1> DEFINE i == Hash(Req.id)
<1>0. /\ pipe # << >> /\ NextRequest /\ Req.op \in {"K", "KS"}
      /\ UNCHANGED <<alloc_id, call, io, known, wire, sentBy, lowp, work>>
      /\ sock[i].id = Req.id /\ sock[i].type # "INVALID" /\ sock[i].lock = None /\ Set(i, ForceClosed(sock[i]))
  BY DEF CtrlCloseError, HasRequest, Of, Req
<1>1. 1 \in DOMAIN pipe /\ pipe[1] = Req /\ Req.id \in Id /\ i \in Slot /\ Of(Req.id) = sock[i]
  BY <1>0, Basics
<1>2. sock[i].type # "RESERVE"
  <2>1. ~OpenAt(1) /\ ~DataAt(1)
    BY <1>0, <1>1 DEF OpenAt, DataAt, SendOps
  <2> QED BY <1>0, <1>1, <2>1, HeadNotReserved DEF SockInv
<1>3. Types0' /\ DataMap(1)
  BY <1>0, CtrlCloseErrorKeeps, TailMap
<1> HIDE DEF i
<1> QED BY <1>0, <1>1, <1>2, <1>3, ClosedWires

(* The write fails *)
LEMMA EventWriteErrorWires ==
    ASSUME Types0, SockInv, WireInv, NEW i \in Slot, EventWriteError(i)
    PROVE  WireInv'
<1>0. /\ sock[i].type \in {"CONNECTED", "HALFCLOSE"} /\ sock[i].lock = None /\ Set(i, ForceClosed(sock[i]))
      /\ UNCHANGED <<alloc_id, pipe, call, io, known, wire, sentBy, lowp, work>>
  BY DEF EventWriteError
<1>1. Types0' /\ DataMap(0)
  BY <1>0, EventWriteErrorKeeps, SameMap
<1> QED BY <1>0, <1>1, ClosedWires

(* A reserved slot has neither list nor wire; open_socket and listen_socket   *)
(* give it neither.                                                           *)
LEMMA OpenedWires ==
    ASSUME Types0, Types0', SockInv, WireInv, pipe # << >>, OpenAt(1), NextRequest,
           UNCHANGED <<alloc_id, call, wire, sentBy, lowp>>,
           Moved(Hash(Req.id)), sock'[Hash(Req.id)].id = Req.id, NoData(sock'[Hash(Req.id)])
    PROVE  WireInv'
<1> DEFINE i == Hash(Req.id)
           s == sock[i]
           t == sock'[i]
<1>1. /\ i \in Slot /\ s \in Record /\ s.id = Req.id /\ s.type = "RESERVE" /\ ~s.tcp /\ Req.id \in Id /\ s.id # 0
  BY HeadReserved, Basics
<1>2. NoData(s) /\ t \in Record
  BY <1>1 DEF SockInv, Slots, SlotSound, Open, Moved
<1>3. SameData(s, t)
  BY <1>2 DEF SameData, NoData, BufferEmpty
<1>4. Front(t) = Front(s) /\ t.low = s.low
  BY <1>1, <1>2, <1>3, SameFront
<1> HIDE DEF i
<1>5. /\ \A id \in Id : id # s.id =>
            /\ FrontIn(sock', id) = FrontOf(id) /\ LowIn(sock', id) = LowOf(id)
            /\ sock'[Hash(id)].id = id => sock'[Hash(id)] = Of(id)
      /\ Hash(s.id) = i /\ Of(s.id) = s
      /\ FrontIn(sock', s.id) = Front(t) /\ FrontOf(s.id) = Front(s)
      /\ LowIn(sock', s.id) = t.low /\ LowOf(s.id) = s.low
  BY <1>1, OtherLists DEF i
<1>6. SameLists
  BY <1>4, <1>5 DEF SameLists
<1>7. SameUse
  <2>1. ASSUME NEW id \in Id, sock'[Hash(id)].id = id
        PROVE  Of(id).id = id /\ (sock'[Hash(id)].type # "INVALID" => Of(id).type # "INVALID")
               /\ (~sock'[Hash(id)].tcp => ~Of(id).tcp)
    <3>1. CASE id = s.id
      BY <1>1, <1>5, <3>1
    <3>2. CASE id # s.id
      BY <1>5, <2>1, <3>2
    <3> QED BY <3>1, <3>2
  <2> QED BY <2>1 DEF SameUse
<1> QED BY <1>6, <1>7, TailMap, SameCalls, QuietWires

(* open_socket *)
LEMMA CtrlOpenWires ==
    ASSUME Types0, SockInv, WireInv, CtrlOpen
    PROVE  WireInv'
<1>1. /\ UNCHANGED <<alloc_id, call, wire, sentBy, lowp>> /\ pipe # << >> /\ Req.op = "O" /\ NextRequest
  BY DEF CtrlOpen, HasRequest, Req
<1>2. OpenAt(1)
  BY <1>1, Basics DEF OpenAt
<1> QED BY <1>1, <1>2, CtrlOpenKeeps, OpenedWires

(* listen_socket *)
LEMMA CtrlListenWires ==
    ASSUME Types0, SockInv, WireInv, CtrlListen
    PROVE  WireInv'
<1>1. /\ UNCHANGED <<alloc_id, call, wire, sentBy, lowp>> /\ pipe # << >> /\ Req.op = "L" /\ NextRequest
  BY DEF CtrlListen, HasRequest, Req
<1>2. OpenAt(1)
  BY <1>1, Basics DEF OpenAt
<1> QED BY <1>1, <1>2, CtrlListenKeeps, OpenedWires

(* reserve_id takes a slot without data, and nothing was ever written to the  *)
(* id that it hands out.                                                      *)
LEMMA ReservedWires ==
    ASSUME Types0, Types0', SockInv, WireInv, NEW i, NEW x, Reserving(i, x)
    PROVE  WireInv'
<1> DEFINE s == sock[i]
           t == sock'[i]
<1>1. /\ x \in Id /\ x > alloc_id /\ alloc_id' = x /\ i \in Slot /\ i = Hash(x) /\ s.type = "INVALID"
      /\ Moved(i) /\ t.id = x /\ NoData(t) /\ UNCHANGED <<call, io, wire, sentBy, lowp>> /\ PipeOpens(i, x)
  BY DEF Reserving
<1>2. s \in Record /\ t \in Record /\ NoData(s) /\ x \in Nat /\ alloc_id \in Nat
  BY <1>1, Basics DEF SockInv, Slots, SlotSound, Open, Moved
<1>3. Front(s) = << >> /\ s.low = << >> /\ Front(t) = << >> /\ t.low = << >>
  BY <1>2, <1>1, MergedFacts DEF NoData, BufferEmpty
<1>4. ASSUME NEW id \in Id
      PROVE  /\ FrontIn(sock', id) = FrontOf(id) /\ LowIn(sock', id) = LowOf(id)
             /\ sock'[Hash(id)].id = id => id = x \/ sock'[Hash(id)] = Of(id)
  <2>1. Hash(id) \in Slot /\ Of(id) = sock[Hash(id)]
    BY Basics
  <2>2. CASE Hash(id) = i
    BY <1>1, <1>3, <2>1, <2>2 DEF FrontIn, LowIn, FrontOf, LowOf
  <2>3. CASE Hash(id) # i
    <3>1. sock'[Hash(id)] = sock[Hash(id)]
      BY <1>1, <2>1, <2>3 DEF Moved
    <3> QED BY <2>1, <3>1 DEF FrontIn, LowIn, FrontOf, LowOf
  <2> QED BY <2>2, <2>3
<1>5. SameLists
  BY <1>4 DEF SameLists
<1>6. SameUse
  <2>1. \A id \in Id : id > x => id > alloc_id
    BY <1>1, <1>2, Basics
  <2> QED BY <1>1, <1>4, <2>1 DEF SameUse
<1>7. DataMap(0)
  <2>1. \A k \in DOMAIN pipe' : pipe'[k].op \in SendOps => k \in DOMAIN pipe /\ pipe'[k] = pipe[k]
    BY <1>1 DEF PipeOpens, SendOps
  <2>2. \A k \in DOMAIN pipe : k + 0 = k
    <3>1. pipe \in Seq(Requests)
      BY DEF Types0
    <3> QED BY <3>1
  <2> QED BY <2>1, <2>2 DEF DataMap
<1> QED BY <1>1, <1>5, <1>6, <1>7, SameCalls, QuietWires

(* socket_server_connect, socket_server_listen and report_accept *)
LEMMA ReserveWires ==
    ASSUME Types0, SockInv, WireInv, Connect \/ Listen \/ \E j \in Slot : EventAccept(j)
    PROVE  WireInv'
<1>1. Types0' /\ Reserving(Hash(alloc_id'), alloc_id')
  BY ConnectKeeps, ListenKeeps, EventAcceptKeeps
<1> QED BY <1>1, ReservedWires

(* Slot t is what a flush left, or is closed. *)
AfterFlush(t, u) ==
    \/ t.type = "INVALID" /\ NoData(t)
    \/ t.high = u.high /\ t.low = u.low /\ t.dw = None

(* send_buffer on slot i, with nobody holding its lock *)
LEMMA FlushWires ==
    ASSUME Types0, Types0', SockInv, WireInv, UNCHANGED <<sentBy, lowp, alloc_id, call>>,
           NEW e, DataMap(e), e \in {0, 1},
           NEW i \in Slot, sock[i].lock = None, sock[i].type \notin {"INVALID", "RESERVE"},
           NEW n, Enough(Merged(sock[i]), n), NEW f, Flush(Merged(sock[i]), n, f),
           wire' = [wire EXCEPT ![sock[i].id] = @ \o f.out],
           Moved(i), sock'[i].id = sock[i].id, sock'[i].tcp, AfterFlush(sock'[i], f.s)
    PROVE  WireInv'
<1> DEFINE s == sock[i]
           t == sock'[i]
           x == s.id
           w == wire[x]
           m == Merged(s)
<1>1. s \in Record /\ t \in Record /\ SlotSound(s) /\ x # 0
  BY Basics DEF SockInv, Slots, SlotSound, Moved
<1>2. m \in Record /\ m.high = Front(s) /\ m.low = s.low
  BY <1>1, MergedFacts
<1>3. x \in Id /\ FrontOf(x) = Front(s) /\ LowOf(x) = s.low /\ Of(x) = s
  BY <1>1, OtherLists
<1>4. w \in Seq(Packet) /\ wire'[x] = w \o f.out /\ \A id \in Id : id # x => wire'[id] = wire[id]
  BY <1>3 DEF Types0
<1>5. Sound(w, m.high, m.low) /\ NotTorn(w, m.high) /\ HeldOf(x) = Held(w, m.high, m.low)
  BY <1>2, <1>3 DEF WireInv, Wires, HeldOf, HeldIn, FrontOf, LowOf
<1> HIDE DEF m, w
<1>6. /\ Sound(w \o f.out, f.s.high, f.s.low)
      /\ NotTorn(w \o f.out, f.s.high)
      /\ Held(w \o f.out, f.s.high, f.s.low) \subseteq Held(w, m.high, m.low)
  <2>1. Enough(m, n) /\ Flush(m, n, f)
    BY DEF m
  <2> QED BY <1>2, <1>4, <1>5, <2>1, FlushedSound
<1>7. SlotAgain(i)
  <2>1. CASE t.type = "INVALID" /\ NoData(t)
    <3>1. Front(t) = << >> /\ t.low = << >>
      BY <1>1, <2>1, MergedFacts DEF NoData, BufferEmpty
    <3>2. /\ Sound(w \o f.out, << >>, << >>)
          /\ Held(w \o f.out, << >>, << >>) \subseteq Held(w \o f.out, f.s.high, f.s.low)
      BY <1>6, SoundEmpty
    <3> QED BY <1>4, <1>5, <1>6, <2>1, <3>1, <3>2 DEF SlotAgain
  <2>2. CASE t.high = f.s.high /\ t.low = f.s.low /\ t.dw = None
    <3>1. Front(t) = f.s.high /\ t.low = f.s.low
      BY <1>1, <2>2, MergedFacts
    <3> QED BY <1>4, <1>5, <1>6, <3>1 DEF SlotAgain
  <2> QED BY <2>1, <2>2 DEF AfterFlush
<1>8. CallsKept /\ WritersClear
  BY <1>1, SameCalls, UnlockedSlot, WritersElsewhere
<1> QED BY <1>1, <1>4, <1>7, <1>8, SlotWires

(* The socket is writable *)
LEMMA EventWriteWires ==
    ASSUME Types0, SockInv, WireInv, NEW i \in Slot, NEW n, EventWrite(i, n)
    PROVE  WireInv'
<1> DEFINE s == sock[i]
           f == Flushed(Merged(s), n)
           t == IF f.s.type = "HALFCLOSE" /\ BufferEmpty(f.s) THEN ForceClosed(f.s) ELSE f.s
<1>0. /\ s.type \in {"CONNECTED", "HALFCLOSE"} /\ s.lock = None
      /\ n \in 0..(Units(Merged(s).high) + Units(s.low))
      /\ wire' = [wire EXCEPT ![s.id] = @ \o f.out] /\ Set(i, t)
      /\ UNCHANGED <<alloc_id, pipe, call, io, known, sentBy, lowp, work>>
  BY DEF EventWrite, SendBuffer
<1>1. s \in Record /\ SlotSound(s) /\ s.tcp
  BY <1>0, Basics DEF SockInv, Slots, SlotSound
<1>2. Enough(Merged(s), n) /\ Flush(Merged(s), n, f)
  <2>1. Units(Merged(s).high) \in Nat /\ Units(s.low) \in Nat /\ Merged(s).low = s.low
    BY <1>1, MergedFacts, RecordFields, UnitsType
  <2> QED BY <1>0, <2>1 DEF Enough, Flush
<1> HIDE DEF f
<1>3. f.s \in Record /\ Same(s, f.s) /\ f.s.dw = None /\ SlotSound(f.s)
  BY <1>0, <1>1, <1>2, FlushedSlot
<1>4. t \in Record /\ Same(s, t) /\ AfterFlush(t, f.s)
  <2>1. /\ ForceClosed(f.s) \in Record /\ Same(f.s, ForceClosed(f.s)) /\ NoData(ForceClosed(f.s))
        /\ ForceClosed(f.s).type = "INVALID"
    BY <1>3, ForceClosedFacts
  <2> QED BY <1>3, <2>1 DEF Same, AfterFlush
<1> HIDE DEF t
<1>5. Moved(i) /\ sock'[i] = t
  BY <1>0, <1>4, SetFacts
<1>6. Types0' /\ DataMap(0) /\ sock'[i].id = s.id /\ sock'[i].tcp
  BY <1>0, <1>1, <1>4, <1>5, EventWriteKeeps, SameMap DEF Same
<1> QED BY <1>0, <1>2, <1>4, <1>5, <1>6, FlushWires

(* close_socket *)
LEMMA CtrlCloseWires ==
    ASSUME Types0, SockInv, WireInv, NEW n, CtrlClose(n)
    PROVE  WireInv'
<1> DEFINE i == Hash(Req.id)
           s == sock[i]
           flush == ~NoMoreSending(s) /\ s.lock = None
           f == IF flush THEN Flushed(Merged(s), n) ELSE [s |-> s, out |-> << >>]
<1>0. /\ pipe # << >> /\ Req.op \in {"K", "KS"} /\ NextRequest
      /\ UNCHANGED <<alloc_id, call, known, sentBy, lowp, work>>
  BY DEF CtrlClose, HasRequest, Req
<1>1. /\ 1 \in DOMAIN pipe /\ pipe[1] = Req /\ Req.id \in Id /\ i \in Slot
      /\ Of(Req.id) = sock[i] /\ s \in Record
  BY <1>0, Basics
<1>2. SlotSound(s) /\ Ids
  BY <1>1 DEF SockInv, Slots
<1>3. ~OpenAt(1) /\ ~DataAt(1)
  BY <1>0, <1>1 DEF OpenAt, DataAt, SendOps
<1>4. Types0' /\ DataMap(1) /\ CallsKept /\ (\A v \in Service : call'[v].pc = "write" => call[v].pc = "write")
  BY <1>0, CtrlCloseKeeps, TailMap, SameCalls
<1>5. CASE s.id # Req.id \/ s.type = "INVALID"
  <2>1. UNCHANGED <<sock, wire>>
    BY <1>5 DEF CtrlClose
  <2> HIDE DEF i
  <2>2. Moved(i) /\ sock'[i] = s /\ SameData(s, sock'[i])
    BY <1>1, <2>1, SameFacts DEF SameData
  <2> QED BY <1>0, <1>1, <1>4, <2>1, <2>2, KeptWires
<1>6. CASE s.id = Req.id /\ s.type # "INVALID"
  <2>0. /\ n \in 0..(Units(Merged(s).high) + Units(s.low))
        /\ wire' = [wire EXCEPT ![s.id] = @ \o f.out]
        /\ \/ f.s.type = "HALFCLOSE" /\ BufferEmpty(f.s) /\ flush /\ Set(i, ForceClosed(f.s))
           \/ Set(i, f.s)
           \/ Set(i, [f.s EXCEPT !.type = "HALFCLOSE"])
    BY <1>6 DEF CtrlClose
  <2>00. n \in 0..(Units(Merged(s).high) + Units(s.low))
    <3> HIDE DEF i, flush, f
    <3> QED BY <2>0
  <2>1. s.type # "RESERVE"
    BY <1>0, <1>1, <1>2, <1>3, <1>6, HeadNotReserved DEF SockInv
  <2>2. s.tcp
    BY <1>2, <1>6, <2>1 DEF SlotSound
  <2>3. CASE flush
    <3>1. f = Flushed(Merged(s), n)
      BY <2>3
    <3>2. Enough(Merged(s), n) /\ Flush(Merged(s), n, f)
      <4>1. Units(Merged(s).high) \in Nat /\ Units(s.low) \in Nat /\ Merged(s).low = s.low
        BY <1>1, MergedFacts, RecordFields, UnitsType
      <4>2. n \in Nat /\ n <= Units(Merged(s).high) + Units(Merged(s).low)
        BY <2>00, <4>1
      <4> QED BY <3>1, <4>2 DEF Enough, Flush
    <3> HIDE DEF f
    <3>3. f.s \in Record /\ Same(s, f.s) /\ f.s.dw = None /\ SlotSound(f.s)
      BY <1>1, <1>2, <1>6, <2>1, <3>2, FlushedSlot
    <3> DEFINE Fits(t) == t \in Record /\ Same(s, t) /\ AfterFlush(t, f.s)
    <3>4. Fits(ForceClosed(f.s)) /\ Fits(f.s) /\ Fits([f.s EXCEPT !.type = "HALFCLOSE"])
      <4>1. /\ ForceClosed(f.s) \in Record /\ Same(f.s, ForceClosed(f.s)) /\ NoData(ForceClosed(f.s))
            /\ ForceClosed(f.s).type = "INVALID"
        BY <3>3, ForceClosedFacts
      <4> DEFINE t == [f.s EXCEPT !.type = "HALFCLOSE"]
      <4>2. /\ t \in Record /\ Same(f.s, t) /\ t.dw = f.s.dw /\ t.high = f.s.high /\ t.low = f.s.low
        BY <3>3 DEF Record, Same, Types
      <4> HIDE DEF t
      <4>3. Fits(ForceClosed(f.s)) /\ Fits(f.s) /\ Fits(t)
        BY <3>3, <4>1, <4>2 DEF Same, AfterFlush
      <4> QED BY <4>3 DEF t
    <3>5. \E t : Fits(t) /\ Set(i, t)
      <4> HIDE DEF Fits, i, flush
      <4> QED BY <2>0, <3>4
    <3> HIDE DEF i
    <3>6. PICK t : Fits(t) /\ Set(i, t)
      BY <3>5
    <3>7. Moved(i) /\ sock'[i] = t
      BY <1>1, <3>6, SetFacts
    <3>8. sock'[i].id = s.id /\ sock'[i].tcp /\ AfterFlush(sock'[i], f.s) /\ s.lock = None
      BY <2>2, <2>3, <3>6, <3>7 DEF Same
    <3> HIDE DEF flush, Fits
    <3> QED BY <1>0, <1>1, <1>4, <1>6, <2>0, <2>1, <3>2, <3>7, <3>8, FlushWires
  <2>4. CASE ~flush
    <3>1. f = [s |-> s, out |-> << >>] /\ f.s = s /\ f.out = << >>
      BY <2>4
    <3> HIDE DEF f, flush
    <3>2. UNCHANGED wire
      <4>1. s.id \in Id
        BY <1>1, <1>6
      <4>2. wire[s.id] \in Seq(Packet) /\ wire \in [Id -> Seq(Packet)]
        BY <4>1 DEF Types0
      <4>3. wire[s.id] \o << >> = wire[s.id]
        BY <4>2
      <4> QED BY <2>0, <3>1, <4>2, <4>3
    <3> DEFINE t == [s EXCEPT !.type = "HALFCLOSE"]
    <3>3. Set(i, s) \/ Set(i, t)
      BY <2>0, <2>4, <3>1
    <3>4. t \in Record /\ t.id = s.id /\ t.tcp = s.tcp /\ t.high = s.high /\ t.low = s.low /\ t.dw = s.dw
      BY <1>1 DEF Record, Types
    <3> HIDE DEF t, i
    <3>5. Moved(i) /\ (sock'[i] = s \/ sock'[i] = t)
      BY <1>1, <3>3, <3>4, SetFacts
    <3>6. sock'[i].id = s.id /\ sock'[i].tcp = s.tcp /\ SameData(s, sock'[i])
      BY <3>4, <3>5 DEF SameData
    <3> QED BY <1>0, <1>1, <1>4, <1>6, <3>2, <3>5, <3>6, KeptWires
  <2> QED BY <2>3, <2>4
<1> QED BY <1>5, <1>6

(* Buffer b of a whole packet that comes after all that the socket holds. *)
Joins(b, w, F, L) ==
    /\ b \in Buffer /\ b.left = Size /\ b.p \notin Held(w, F, L) /\ sentBy[b.p] # None
    /\ \A q \in Held(w, F, L) : Before(q, b.p)

(* append_sendbuffer, to a list *)
LEMMA AppendList ==
    ASSUME NEW F \in Seq(Buffer), NEW b \in Buffer
    PROVE  /\ Append(F, b) \in Seq(Buffer)
           /\ \A k \in DOMAIN F : k \in DOMAIN Append(F, b) /\ Append(F, b)[k] = F[k]
           /\ \A k \in DOMAIN Append(F, b) :
                \/ k \in DOMAIN F /\ Append(F, b)[k] = F[k]
                \/ k = Len(F) + 1 /\ Append(F, b)[k] = b
           /\ \A k \in DOMAIN F : k < Len(F) + 1 /\ ~(Len(F) + 1 < k) /\ k # Len(F) + 1
           /\ ~(Len(F) + 1 < Len(F) + 1)
           /\ PacketsOf(Append(F, b)) = PacketsOf(F) \cup {b.p}
<1> DEFINE G == Append(F, b)
           n == Len(F)
<1>1. /\ n \in Nat /\ DOMAIN F = 1..n /\ G \in Seq(Buffer) /\ DOMAIN G = 1..(n + 1) /\ G[n + 1] = b
      /\ \A k \in 1..n : G[k] = F[k]
  OBVIOUS
<1> HIDE DEF G, n
<1>2. \A k \in DOMAIN F : k \in DOMAIN G /\ G[k] = F[k] /\ k < n + 1 /\ ~(n + 1 < k) /\ k # n + 1
  BY <1>1
<1>3. /\ \A k \in DOMAIN G : (k \in DOMAIN F /\ G[k] = F[k]) \/ (k = n + 1 /\ G[k] = b)
      /\ ~(n + 1 < n + 1) /\ n + 1 \in DOMAIN G
  BY <1>1
<1>4. PacketsOf(G) = PacketsOf(F) \cup {b.p}
  <2>1. \A k \in DOMAIN G : G[k].p \in PacketsOf(F) \cup {b.p}
    BY <1>3 DEF PacketsOf
  <2>2. \A k \in DOMAIN F : F[k].p \in PacketsOf(G)
    <3> TAKE k \in DOMAIN F
    <3>1. k \in DOMAIN G /\ G[k].p = F[k].p
      BY <1>2
    <3> QED BY <3>1 DEF PacketsOf
  <2>3. b.p \in PacketsOf(G)
    BY <1>1, <1>3 DEF PacketsOf
  <2> QED BY <2>1, <2>2, <2>3 DEF PacketsOf
<1> QED BY <1>1, <1>2, <1>3, <1>4 DEF G, n

(* append_sendbuffer to the front, and to the low list *)
LEMMA SoundAppend ==
    ASSUME NEW w \in Seq(Packet), NEW F \in Seq(Buffer), NEW L \in Seq(Buffer), Sound(w, F, L),
           NEW b, Joins(b, w, F, L)
    PROVE  /\ Sound(w, Append(F, b), L)
           /\ NotTorn(w, F) => NotTorn(w, Append(F, b))
           /\ b.p \in lowp => Sound(w, F, Append(L, b))
           /\ Held(w, Append(F, b), L) = Held(w, F, L) \cup {b.p}
           /\ Held(w, F, Append(L, b)) = Held(w, F, L) \cup {b.p}
<1> DEFINE G == Append(F, b)
           M == Append(L, b)
           p == b.p
<1>0. /\ b \in Buffer /\ b.left = Size /\ p \notin Held(w, F, L) /\ sentBy[p] # None
      /\ \A q \in Held(w, F, L) : Before(q, p)
  BY DEF Joins
<1>1. /\ p \notin Range(w) /\ (\A k \in DOMAIN F : F[k].p # p) /\ (\A k \in DOMAIN L : L[k].p # p)
      /\ \A a \in DOMAIN w : Before(w[a], p)
      /\ \A k \in DOMAIN F : Before(F[k].p, p)
  BY <1>0 DEF Held, PacketsOf, Range
<1>2. /\ \A k \in DOMAIN F : k \in DOMAIN G /\ G[k] = F[k]
      /\ \A k \in DOMAIN G : (k \in DOMAIN F /\ G[k] = F[k]) \/ (k = Len(F) + 1 /\ G[k] = b)
      /\ \A k \in DOMAIN F : k < Len(F) + 1 /\ ~(Len(F) + 1 < k) /\ k # Len(F) + 1
      /\ ~(Len(F) + 1 < Len(F) + 1)
      /\ PacketsOf(G) = PacketsOf(F) \cup {p}
  BY <1>0, AppendList
<1>3. /\ \A k \in DOMAIN L : k \in DOMAIN M /\ M[k] = L[k]
      /\ \A k \in DOMAIN M : (k \in DOMAIN L /\ M[k] = L[k]) \/ (k = Len(L) + 1 /\ M[k] = b)
      /\ PacketsOf(M) = PacketsOf(L) \cup {p}
  BY <1>0, AppendList
<1> HIDE DEF G, M, p
<1>4. Held(w, G, L) = Held(w, F, L) \cup {p} /\ Held(w, F, M) = Held(w, F, L) \cup {p}
  BY <1>2, <1>3 DEF Held
<1>5. b.p = p
  BY DEF p
<1>6. /\ Whole(w)
      /\ \A k \in DOMAIN F : k # 1 => F[k].left = Size
      /\ \A k \in DOMAIN L : L[k].left = Size
      /\ \A k \in DOMAIN F : F[k].left = Size => F[k].p \notin Range(w)
      /\ \A k \in DOMAIN L : L[k].p \notin Range(w) /\ L[k].p \in lowp
      /\ \A k, l \in DOMAIN F : F[k].p = F[l].p => k = l
      /\ \A k, l \in DOMAIN L : L[k].p = L[l].p => k = l
      /\ \A k \in DOMAIN F, l \in DOMAIN L : F[k].p # L[l].p
      /\ \A a, c \in DOMAIN w : a < c => Before(w[a], w[c])
      /\ \A a \in DOMAIN w, k \in DOMAIN F : Before(w[a], F[k].p)
      /\ \A k, l \in DOMAIN F : k < l => Before(F[k].p, F[l].p)
      /\ \A q \in Held(w, F, L) : sentBy[q] # None
  BY DEF Sound
<1>7. 1 \in DOMAIN F /\ F[1].left < Size =>
         /\ \A a \in DOMAIN w : w[a] = F[1].p => \A k \in a..Len(w) : w[k] = F[1].p
         /\ Count(w, F[1].p) = Size - F[1].left
  BY DEF Sound
<1>8. 1 \in DOMAIN G /\ G[1].left < Size => 1 \in DOMAIN F /\ G[1] = F[1]
  BY <1>0, <1>2, SocketAssumption
<1>9. Sound(w, G, L)
  <2>1. \A k \in DOMAIN G : k # 1 => G[k].left = Size
    BY <1>0, <1>2, <1>6
  <2>2. \A k \in DOMAIN G : G[k].left = Size => G[k].p \notin Range(w)
    BY <1>1, <1>2, <1>5, <1>6
  <2>3. \A k, l \in DOMAIN G : G[k].p = G[l].p => k = l
    BY <1>1, <1>2, <1>5, <1>6
  <2>4. \A k \in DOMAIN G, l \in DOMAIN L : G[k].p # L[l].p
    BY <1>1, <1>2, <1>5, <1>6
  <2>5. \A a \in DOMAIN w, k \in DOMAIN G : Before(w[a], G[k].p)
    BY <1>1, <1>2, <1>5, <1>6
  <2>6. \A k, l \in DOMAIN G : k < l => Before(G[k].p, G[l].p)
    BY <1>1, <1>2, <1>5, <1>6
  <2>7. \A q \in Held(w, G, L) : sentBy[q] # None
    BY <1>0, <1>4, <1>6
  <2>8. 1 \in DOMAIN G /\ G[1].left < Size =>
          /\ \A a \in DOMAIN w : w[a] = G[1].p => \A k \in a..Len(w) : w[k] = G[1].p
          /\ Count(w, G[1].p) = Size - G[1].left
    BY <1>7, <1>8
  <2> QED BY <1>6, <2>1, <2>2, <2>3, <2>4, <2>5, <2>6, <2>7, <2>8 DEF Sound
<1>10. NotTorn(w, F) => NotTorn(w, G)
  BY <1>2 DEF NotTorn
<1>11. ASSUME p \in lowp PROVE Sound(w, F, M)
  <2>1. /\ \A k \in DOMAIN M : M[k].left = Size
        /\ \A k \in DOMAIN M : M[k].p \notin Range(w) /\ M[k].p \in lowp
        /\ \A k \in DOMAIN F, l \in DOMAIN M : F[k].p # M[l].p
    BY <1>0, <1>1, <1>3, <1>5, <1>6, <1>11
  <2>2. \A k, l \in DOMAIN M : M[k].p = M[l].p => k = l
    BY <1>1, <1>3, <1>5, <1>6
  <2>3. \A q \in Held(w, F, M) : sentBy[q] # None
    BY <1>0, <1>4, <1>6
  <2> QED BY <1>6, <1>7, <2>1, <2>2, <2>3 DEF Sound
<1> QED BY <1>4, <1>5, <1>9, <1>10, <1>11 DEF G, M

(* What send_socket does to the lists: nothing, or the packet joins the front *)
(* or, with low priority, the low list.                                       *)
LEMMA SendSocketLists ==
    ASSUME NEW s \in Record, NEW r \in [op : SendOps, id : Id, p : Packet], s.id = r.id, NEW t, t = SendSocket(s, r),
           t \in Record, NEW b, b = [p |-> r.p, left |-> Size]
    PROVE  \/ Front(t) = Front(s) /\ t.low = s.low
           \/ Front(t) = Append(Front(s), b) /\ t.low = s.low
           \/ Front(t) = Front(s) /\ t.low = Append(s.low, b) /\ r.op = "P"
<1>1. /\ s.dw = None => Front(s) = s.high
      /\ s.dw # None => Front(s) = <<s.dw>> \o s.high /\ s.dw \in Buffer
      /\ t.dw = None => Front(t) = t.high
      /\ t.dw # None => Front(t) = <<t.dw>> \o t.high
  BY MergedFacts
<1>2. b \in Buffer /\ s.high \in Seq(Buffer) /\ s.low \in Seq(Buffer)
  BY RecordFields, BufferFields
<1> DEFINE h == Append(s.high, b)
           l == Append(s.low, b)
<1>3. h \in Seq(Buffer) /\ l \in Seq(Buffer) /\ (s.dw # None => <<s.dw>> \o h = Append(<<s.dw>> \o s.high, b))
  <2>1. h \in Seq(Buffer) /\ l \in Seq(Buffer)
    BY <1>2
  <2>2. ASSUME s.dw # None PROVE <<s.dw>> \o h = Append(<<s.dw>> \o s.high, b)
    <3>1. <<s.dw>> \in Seq(Buffer)
      BY <1>1, <2>2
    <3> QED BY <1>2, <3>1, ConcatAppend
  <2> QED BY <2>1, <2>2
<1>4. \/ t = s
      \/ t = [s EXCEPT !.high = h, !.wev = TRUE]
      \/ t = [s EXCEPT !.high = h]
      \/ t = [s EXCEPT !.low = l] /\ r.op = "P"
  <2>1. [[s EXCEPT !.high = h] EXCEPT !.wev = TRUE] = [s EXCEPT !.high = h, !.wev = TRUE]
    OBVIOUS
  <2> QED BY <2>1 DEF SendSocket, Appended
<1> HIDE DEF h, l
<1>5. \/ t.high = s.high /\ t.low = s.low /\ t.dw = s.dw
      \/ t.high = h /\ t.low = s.low /\ t.dw = s.dw
      \/ t.high = s.high /\ t.low = l /\ t.dw = s.dw /\ r.op = "P"
  BY <1>3, <1>4 DEF Record
<1>6. /\ t.high = s.high /\ t.dw = s.dw => Front(t) = Front(s)
      /\ t.high = h /\ t.dw = s.dw => Front(t) = Append(Front(s), b)
  BY <1>1, <1>3 DEF h
<1> QED BY <1>5, <1>6 DEF l

(* The requests D and P *)
LEMMA CtrlSendWires ==
    ASSUME Types0, SockInv, WireInv, CtrlSend
    PROVE  WireInv'
<1> DEFINE i == Hash(Req.id)
           s == sock[i]
           t == SendSocket(s, Req)
           c == t.sending - 1
           u == IF t.id = Req.id /\ t.tcp THEN [t EXCEPT !.sending = c] ELSE t
           x == Req.id
           p == Req.p
           b == [p |-> p, left |-> Size]
<1>0. /\ pipe # << >> /\ Req.op \in SendOps /\ NextRequest
      /\ UNCHANGED <<alloc_id, call, io, known, wire, sentBy, lowp, work>>
  BY DEF CtrlSend, SendOps
<1>1. /\ 1 \in DOMAIN pipe /\ pipe[1] = Req /\ x \in Id /\ i \in Slot
      /\ Of(x) = sock[i] /\ s \in Record /\ Req \in Requests
  BY <1>0, Basics
<1>2. Slots /\ Ids /\ SlotSound(s) /\ Wires /\ Pending /\ Writing
  BY <1>1 DEF SockInv, Slots, WireInv
<1>3. DataAt(1) /\ DataMap(1) /\ DOMAIN pipe' \subseteq Nat
  BY <1>0, <1>1, PipeTail, TailMap DEF DataAt
<1>4. known[x] = "conn" /\ Req \in [op : SendOps, id : Id, p : Packet] /\ p \in Packet
  BY <1>0, <1>1, <1>2, <1>3 DEF Ids, Requests, SendOps
<1>5. s.id = x => ~Unborn(s) /\ s.tcp
  BY <1>1, <1>2, <1>4 DEF Slots, Ids
<1>6. t \in Record /\ Same(s, t)
  BY <1>1, <1>2, <1>4, <1>5, SendSocketFacts
<1>7. Set(i, u)
  BY <1>1 DEF CtrlSend
<1>8. Types0' /\ CallsKept /\ \A v \in Service : call'[v].pc = "write" => call[v].pc = "write"
  BY <1>0, CtrlSendKeeps, SameCalls
<1>9. Moved(i) /\ sock'[i].id = s.id /\ sock'[i].tcp = s.tcp /\ sock'[i].type = s.type
  BY <1>1, CtrlSendKeeps DEF Kept
<1>10. sock'[i] \in Record /\ SameData(t, sock'[i])
  <2> HIDE DEF t
  <2>1. c \in Int
    BY <1>6, RecordFields
  <2> HIDE DEF c
  <2>2. u \in Record /\ u.high = t.high /\ u.low = t.low /\ u.dw = t.dw
    <3>1. u = t \/ u = [t EXCEPT !.sending = c]
      OBVIOUS
    <3> HIDE DEF u
    <3> QED BY <1>6, <2>1, <3>1 DEF Record
  <2> HIDE DEF u
  <2>3. sock'[i] = u
    BY <1>1, <1>7, <2>2, SetFacts
  <2> QED BY <2>2, <2>3 DEF SameData
<1>11. Front(sock'[i]) = Front(t) /\ sock'[i].low = t.low
  BY <1>6, <1>10, SameFront
<1>12. CASE s.id # x
  <2>1. t = s
    BY <1>12 DEF SendSocket
  <2>2. SameData(s, sock'[i])
    BY <1>10, <2>1
  <2> HIDE DEF i, t
  <2> QED BY <1>0, <1>1, <1>3, <1>8, <1>9, <2>2, KeptWires
<1>13. CASE s.id = x
  <2>1. \/ Front(t) = Front(s) /\ t.low = s.low
        \/ Front(t) = Append(Front(s), b) /\ t.low = s.low
        \/ Front(t) = Front(s) /\ t.low = Append(s.low, b) /\ Req.op = "P"
    BY <1>1, <1>4, <1>6, <1>13, SendSocketLists
  <2>2. x # 0 /\ FrontOf(x) = Front(s) /\ LowOf(x) = s.low /\ sock'[i].tcp
    <3> HIDE DEF i
    <3>1. x # 0
      BY <1>1, Basics
    <3> QED BY <1>1, <1>5, <1>9, <1>13, <3>1, OtherLists
  <2> DEFINE w == wire[x]
             F == FrontOf(x)
             L == LowOf(x)
             F2 == Front(sock'[i])
             L2 == sock'[i].low
  <2>3. /\ w \in Seq(Packet) /\ F \in Seq(Buffer) /\ L \in Seq(Buffer) /\ HeldOf(x) = Held(w, F, L)
        /\ Sound(w, F, L) /\ (s.type # "INVALID" => NotTorn(w, F))
    BY <1>1, <1>2, <1>13, HeldPackets DEF Wires, HeldOf, HeldIn, FrontOf, LowOf
  <2>4. \/ F2 = F /\ L2 = L
        \/ F2 = Append(F, b) /\ L2 = L
        \/ F2 = F /\ L2 = Append(L, b) /\ Req.op = "P"
    <3> HIDE DEF t, u, c, b, i
    <3> QED BY <1>11, <2>1, <2>2
  <2>5. /\ p \notin HeldOf(x) /\ sentBy[p] # None /\ (Req.op = "P" => p \in lowp)
        /\ \A q \in HeldOf(x) : Before(q, p)
    BY <1>1, <1>2, <1>3 DEF Pending
  <2>6. b \in Buffer /\ b.p = p /\ b.left = Size
    BY <1>4, BufferFields
  <2>w. wire'[x] = w
    BY <1>0
  <2> HIDE DEF w, F, L, F2, L2, b, t, u, c
  <2>7. /\ Sound(w, Append(F, b), L)
        /\ NotTorn(w, F) => NotTorn(w, Append(F, b))
        /\ p \in lowp => Sound(w, F, Append(L, b))
        /\ Held(w, Append(F, b), L) = Held(w, F, L) \cup {p}
        /\ Held(w, F, Append(L, b)) = Held(w, F, L) \cup {p}
    <3>1. Joins(b, w, F, L)
      BY <2>3, <2>5, <2>6 DEF Joins
    <3> QED BY <2>3, <2>6, <3>1, SoundAppend
  <2>8. Passed(p, x)
    <3>1. ASSUME NEW k \in DOMAIN pipe', pipe'[k].op \in SendOps
          PROVE  pipe'[k].p # p /\ (pipe'[k].id = x => Before(p, pipe'[k].p))
      <4>1. k + 1 \in DOMAIN pipe /\ pipe'[k] = pipe[k + 1] /\ k \in Nat
        BY <1>3, <3>1 DEF DataMap
      <4>2. k # 0
        BY <1>0, <3>1, PipeTail
      <4>3. 1 < k + 1 /\ DataAt(k + 1)
        BY <3>1, <4>1, <4>2 DEF DataAt
      <4> QED BY <1>1, <1>2, <1>3, <4>1, <4>3 DEF Pending
    <3>2. \A v \in Service : call'[v].pc # "out" => call'[v].p # p
      BY <1>0, <1>1, <1>2, <1>3 DEF Pending, Calling
    <3> QED BY <3>1, <3>2 DEF Passed
  <2>9. SlotAgain(i)
    <3>1. Sound(w, F2, L2) /\ (s.type # "INVALID" => NotTorn(w, F2))
      BY <2>3, <2>4, <2>5, <2>7
    <3>2. \A q \in Held(w, F2, L2) : q \in HeldOf(x) \/ Passed(q, x)
      BY <2>3, <2>4, <2>7, <2>8
    <3> QED BY <1>9, <1>13, <2>w, <3>1, <3>2 DEF SlotAgain, F2, L2
  <2>10. WritersClear
    <3> SUFFICES ASSUME NEW v \in Service, call'[v].pc = "write"
                 PROVE  /\ \A k \in DOMAIN FrontIn(sock', call'[v].id) :
                             /\ FrontIn(sock', call'[v].id)[k].left = Size
                             /\ sentBy[FrontIn(sock', call'[v].id)[k].p] # v
                        /\ \A k \in DOMAIN pipe' : pipe'[k].op \in SendOps /\ pipe'[k].id = call'[v].id
                                                   => sentBy[pipe'[k].p] # v
      BY DEF WritersClear
    <3> DEFINE y == call[v].id
    <3>1. call[v].pc = "write" /\ call'[v].id = y /\ y \in Id
      BY <1>0, Basics DEF Calling
    <3>2. /\ \A k \in DOMAIN FrontOf(y) : FrontOf(y)[k].left = Size /\ sentBy[FrontOf(y)[k].p] # v
          /\ \A k \in DOMAIN pipe : DataAt(k) /\ pipe[k].id = y => sentBy[pipe[k].p] # v
      BY <1>2, <3>1 DEF Writing
    <3> HIDE DEF y
    <3>3. ASSUME NEW k \in DOMAIN pipe', pipe'[k].op \in SendOps, pipe'[k].id = y PROVE sentBy[pipe'[k].p] # v
      <4>1. k + 1 \in DOMAIN pipe /\ pipe'[k] = pipe[k + 1]
        BY <1>3, <3>3 DEF DataMap
      <4> QED BY <3>2, <3>3, <4>1 DEF DataAt
    <3>4. \A k \in DOMAIN FrontIn(sock', y) : FrontIn(sock', y)[k].left = Size /\ sentBy[FrontIn(sock', y)[k].p] # v
      <4>1. CASE y # x
        <5>1. FrontIn(sock', y) = FrontOf(y)
          <6> HIDE DEF i
          <6> QED BY <1>1, <1>9, <1>13, <3>1, <4>1, OtherLists
        <5> QED BY <3>2, <5>1
      <4>2. CASE y = x
        <5>1. FrontIn(sock', y) = F2
          <6> HIDE DEF i
          <6> QED BY <1>1, <1>9, <1>13, <2>2, <4>2, OtherLists DEF F2
        <5>2. sentBy[p] # v
          BY <1>1, <1>3, <3>2, <4>2
        <5>3. \A k \in DOMAIN F2 : (k \in DOMAIN F /\ F2[k] = F[k]) \/ F2[k] = b
          BY <2>3, <2>4, <2>6, AppendList
        <5>4. \A k \in DOMAIN F : F[k].left = Size /\ sentBy[F[k].p] # v
          BY <3>2, <4>2 DEF F
        <5> QED BY <2>6, <5>1, <5>2, <5>3, <5>4
      <4> QED BY <4>1, <4>2
    <3> QED BY <3>1, <3>3, <3>4
  <2> HIDE DEF i
  <2> QED BY <1>0, <1>1, <1>3, <1>8, <1>9, <1>13, <2>2, <2>9, <2>10, SlotWires
<1> QED BY <1>12, <1>13

(* The wire after a direct write of n units. *)
Written(w, p, n) == w \o [k \in 1..n |-> p]

(* The wire after a direct write: the old one, and the units of the packet    *)
(* after it.                                                                  *)
LEMMA WrittenFacts ==
    ASSUME NEW w \in Seq(Packet), NEW p \in Packet, NEW n \in Nat, p \notin Range(w)
    PROVE  /\ Written(w, p, n) \in Seq(Packet) /\ (n = 0 => Written(w, p, n) = w)
           /\ DOMAIN w \subseteq DOMAIN Written(w, p, n) /\ DOMAIN Written(w, p, n) \subseteq Nat
           /\ \A a \in DOMAIN w : Written(w, p, n)[a] = w[a] /\ w[a] # p
           /\ \A a \in DOMAIN Written(w, p, n) : a \notin DOMAIN w => Written(w, p, n)[a] = p /\ n # 0
           /\ \A a, c \in DOMAIN Written(w, p, n) : a <= c /\ c \in DOMAIN w => a \in DOMAIN w
           /\ \A a \in DOMAIN Written(w, p, n) : a..Len(Written(w, p, n)) \subseteq DOMAIN Written(w, p, n)
           /\ \A a, c \in DOMAIN Written(w, p, n) : a..c \subseteq DOMAIN Written(w, p, n)
           /\ Range(Written(w, p, n)) = Range(w) \cup (IF n = 0 THEN {} ELSE {p})
           /\ Count(Written(w, p, n), p) = n
           /\ \A q : q # p => Count(Written(w, p, n), q) = Count(w, q)
<1> DEFINE o == [k \in 1..n |-> p]
           v == Written(w, p, n)
           m == Len(w)
<1>1. o \in Seq(Packet) /\ Len(o) = n /\ \A k \in 1..n : o[k] = p
  OBVIOUS
<1>2. v = w \o o
  BY DEF Written
<1> HIDE DEF o, v
<1>3. /\ m \in Nat /\ DOMAIN w = 1..m /\ v \in Seq(Packet) /\ Len(v) = m + n /\ DOMAIN v = 1..(m + n)
      /\ \A k \in 1..(m + n) : v[k] = IF k <= m THEN w[k] ELSE o[k - m]
  <2>1. /\ m \in Nat /\ DOMAIN w = 1..m /\ w \o o \in Seq(Packet) /\ Len(w \o o) = m + Len(o)
        /\ DOMAIN (w \o o) = 1..(m + Len(o))
        /\ \A k \in 1..(m + Len(o)) : (w \o o)[k] = IF k <= m THEN w[k] ELSE o[k - m]
    BY <1>1
  <2> HIDE DEF m
  <2> QED BY <1>1, <1>2, <2>1
<1> HIDE DEF m
<1>4. /\ \A a \in 1..m : v[a] = w[a] /\ a \in 1..(m + n)
      /\ \A a \in 1..(m + n) : a \notin 1..m => a \in (m + 1)..(m + n) /\ a - m \in 1..n /\ n # 0 /\ ~(a <= m)
      /\ \A a \in (m + 1)..(m + n) : a \in 1..(m + n) /\ a \notin 1..m
  BY <1>3
<1>5. \A a \in 1..(m + n) : a \notin 1..m => v[a] = p
  BY <1>1, <1>3, <1>4
<1>6. \A a \in 1..m : w[a] # p
  BY <1>3 DEF Range
<1>7. /\ \A a, c \in 1..(m + n) : a <= c /\ c \in 1..m => a \in 1..m
      /\ \A a, c \in 1..(m + n) : a..c \subseteq 1..(m + n)
      /\ \A a \in 1..(m + n) : a..(m + n) \subseteq 1..(m + n)
      /\ n # 0 => m + 1 \in 1..(m + n) /\ m + 1 \notin 1..m
      /\ 1..(m + n) \subseteq Nat
  BY <1>3
<1>8. Range(v) = Range(w) \cup (IF n = 0 THEN {} ELSE {p})
  <2>1. \A a \in DOMAIN v : v[a] \in Range(w) \cup (IF n = 0 THEN {} ELSE {p})
    BY <1>3, <1>4, <1>5 DEF Range
  <2>2. \A a \in DOMAIN w : w[a] \in Range(v)
    BY <1>3, <1>4 DEF Range
  <2>3. n # 0 => p \in Range(v)
    BY <1>3, <1>5, <1>7 DEF Range
  <2> QED BY <2>1, <2>2, <2>3 DEF Range
<1>9. Count(v, p) = n
  <2>1. {k \in DOMAIN v : v[k] = p} = (m + 1)..(m + n)
    BY <1>3, <1>4, <1>5, <1>6
  <2>2. Cardinality((m + 1)..(m + n)) = IF m + 1 > m + n THEN 0 ELSE ((m + n) - (m + 1)) + 1
    BY <1>3, FS_Interval
  <2>3. (IF m + 1 > m + n THEN 0 ELSE ((m + n) - (m + 1)) + 1) = n
    BY <1>3
  <2> QED BY <2>1, <2>2, <2>3 DEF Count
<1>10. ASSUME NEW q, q # p PROVE Count(v, q) = Count(w, q)
  <2>1. {k \in DOMAIN v : v[k] = q} = {k \in DOMAIN w : w[k] = q}
    BY <1>3, <1>4, <1>5, <1>10
  <2> QED BY <2>1 DEF Count
<1>11. n = 0 => v = w
  <2>1. ASSUME n = 0 PROVE v = w
    <3>1. Len(v) = Len(w) /\ \A k \in 1..Len(v) : v[k] = w[k]
      BY <1>3, <1>4, <2>1 DEF m
    <3> QED BY <1>3, <3>1, SeqEqual
  <2> QED BY <2>1
<1> QED BY <1>3, <1>4, <1>5, <1>6, <1>7, <1>8, <1>9, <1>10, <1>11 DEF v

(* Packet p, written by service v while nothing of the socket is half sent,   *)
(* and nothing of the lists is its own.                                       *)
Direct(v, p, w, F, L) ==
    /\ p \in Packet /\ p \notin Held(w, F, L) /\ sentBy[p] = v /\ v # None
    /\ \A q \in Packet : sentBy[q] = v => q <= p
    /\ \A k \in DOMAIN F : F[k].left = Size /\ sentBy[F[k].p] # v

(* What the direct write leaves to the socket thread. *)
RestOf(p, n, F) == IF n = Size THEN F ELSE <<[p |-> p, left |-> Size - n]>> \o F

(* A direct write keeps the wire and the lists sound. *)
LEMMA DirectSound ==
    ASSUME NEW w \in Seq(Packet), NEW F \in Seq(Buffer), NEW L \in Seq(Buffer), Sound(w, F, L), NotTorn(w, F),
           NEW v, NEW p, Direct(v, p, w, F, L), NEW n \in 0..Size
    PROVE  /\ Sound(Written(w, p, n), RestOf(p, n, F), L)
           /\ NotTorn(Written(w, p, n), RestOf(p, n, F))
           /\ Held(Written(w, p, n), RestOf(p, n, F), L) \subseteq Held(w, F, L) \cup {p}
<1> DEFINE u == Written(w, p, n)
           G == RestOf(p, n, F)
           b == [p |-> p, left |-> Size - n]
<1>0. /\ p \in Packet /\ p \notin Held(w, F, L) /\ sentBy[p] = v /\ v # None /\ Packet \subseteq Nat
      /\ \A q \in Packet : sentBy[q] = v => q <= p
      /\ \A k \in DOMAIN F : F[k].left = Size /\ sentBy[F[k].p] # v
      /\ n \in Nat /\ n <= Size /\ Size \in Nat /\ Size >= 1
  BY SocketAssumption DEF Direct
<1>1. /\ p \notin Range(w) /\ (\A k \in DOMAIN F : F[k].p # p) /\ (\A k \in DOMAIN L : L[k].p # p)
      /\ \A a \in DOMAIN w : w[a] \in Packet
  <2>1. \A a \in DOMAIN w : w[a] \in Packet
    OBVIOUS
  <2> QED BY <1>0, <2>1 DEF Held, PacketsOf
<1>2. /\ u \in Seq(Packet) /\ (n = 0 => u = w)
      /\ DOMAIN w \subseteq DOMAIN u /\ DOMAIN u \subseteq Nat
      /\ \A a \in DOMAIN w : u[a] = w[a] /\ w[a] # p
      /\ \A a \in DOMAIN u : a \notin DOMAIN w => u[a] = p /\ n # 0
      /\ \A a, c \in DOMAIN u : a <= c /\ c \in DOMAIN w => a \in DOMAIN w
      /\ \A a \in DOMAIN u : a..Len(u) \subseteq DOMAIN u
      /\ \A a, c \in DOMAIN u : a..c \subseteq DOMAIN u
      /\ Range(u) = Range(w) \cup (IF n = 0 THEN {} ELSE {p})
      /\ Count(u, p) = n
      /\ \A q : q # p => Count(u, q) = Count(w, q)
  BY <1>0, <1>1, WrittenFacts
<1>3. /\ Whole(w)
      /\ \A k \in DOMAIN L : L[k].left = Size
      /\ \A k \in DOMAIN F : F[k].p \notin Range(w)
      /\ \A k \in DOMAIN L : L[k].p \notin Range(w) /\ L[k].p \in lowp
      /\ \A k, l \in DOMAIN F : F[k].p = F[l].p => k = l
      /\ \A k, l \in DOMAIN L : L[k].p = L[l].p => k = l
      /\ \A k \in DOMAIN F, l \in DOMAIN L : F[k].p # L[l].p
      /\ \A a, c \in DOMAIN w : a < c => Before(w[a], w[c])
      /\ \A a \in DOMAIN w, k \in DOMAIN F : Before(w[a], F[k].p)
      /\ \A k, l \in DOMAIN F : k < l => Before(F[k].p, F[l].p)
      /\ \A q \in Held(w, F, L) : sentBy[q] # None
  BY <1>0 DEF Sound
<1>4. /\ n = Size => G = F
      /\ n # Size => G = <<b>> \o F /\ b \in Buffer
  <2>1. n # Size => Size - n \in 1..Size
    BY <1>0
  <2> QED BY <1>0, <2>1, BufferFields DEF RestOf
<1>5. b.p = p /\ b.left = Size - n
  OBVIOUS
<1> HIDE DEF u, G, b
<1>6. ASSUME n # Size
      PROVE  /\ G[1] = b /\ 1 \in DOMAIN G /\ DOMAIN G \subseteq Nat
             /\ \A k \in DOMAIN G : k # 1 => k - 1 \in DOMAIN F /\ G[k] = F[k - 1]
             /\ PacketsOf(G) = {p} \cup PacketsOf(F)
  <2>1. G = <<b>> \o F /\ b \in Buffer
    BY <1>4, <1>6
  <2>2. G \in Seq(Buffer)
    BY <2>1, FrontList
  <2>3. DOMAIN G \subseteq Nat
    BY <2>2
  <2> QED BY <1>5, <2>1, <2>3, FrontList
<1>7. Whole(u)
  <2>1. ASSUME NEW a \in DOMAIN u, NEW c \in DOMAIN u, a < c, u[a] = u[c], NEW k \in a..c PROVE u[k] = u[a]
    <3>0. k \in DOMAIN u /\ a <= k /\ k <= c /\ a <= c
      <4>1. a \in Nat /\ c \in Nat
        BY <1>2
      <4>2. k \in DOMAIN u
        BY <1>2
      <4> QED BY <2>1, <4>1, <4>2
    <3>1. CASE c \in DOMAIN w
      <4>1. a \in DOMAIN w /\ k \in DOMAIN w
        BY <1>2, <3>0, <3>1
      <4>2. w[a] = w[c]
        BY <1>2, <2>1, <3>1, <4>1
      <4>3. w[k] = w[a]
        BY <1>3, <2>1, <3>1, <4>1, <4>2 DEF Whole
      <4> QED BY <1>2, <4>1, <4>3
    <3>2. CASE c \notin DOMAIN w
      <4>1. u[c] = p
        BY <1>2, <3>2
      <4>2. a \notin DOMAIN w
        BY <1>2, <2>1, <4>1
      <4>3. k \notin DOMAIN w
        BY <1>2, <3>0, <4>2
      <4> QED BY <1>2, <3>0, <4>2, <4>3
    <3> QED BY <3>1, <3>2
  <2> QED BY <2>1 DEF Whole
<1>8. \A x \in Packet : Before(x, p)
  BY <1>0 DEF Before
<1>9. \A k \in DOMAIN F : Before(p, F[k].p)
  BY <1>0 DEF Before
<1>10. \A a, c \in DOMAIN u : a < c => Before(u[a], u[c])
  <2>1. ASSUME NEW a \in DOMAIN u, NEW c \in DOMAIN u, a < c PROVE Before(u[a], u[c])
    <3>0. a <= c
      BY <1>2, <2>1
    <3>1. CASE c \in DOMAIN w
      <4>1. a \in DOMAIN w
        BY <1>2, <3>0, <3>1
      <4> QED BY <1>2, <1>3, <2>1, <3>1, <4>1
    <3>2. CASE c \notin DOMAIN w
      <4>1. u[c] = p /\ u[a] \in Packet
        BY <1>2, <3>2
      <4> QED BY <1>8, <4>1
    <3> QED BY <3>1, <3>2
  <2> QED BY <2>1 DEF Before
<1>11. \A a \in DOMAIN u, k \in DOMAIN F : Before(u[a], F[k].p)
  <2> TAKE a \in DOMAIN u, k \in DOMAIN F
  <2>1. CASE a \in DOMAIN w
    BY <1>2, <1>3, <2>1
  <2>2. CASE a \notin DOMAIN w
    BY <1>2, <1>9, <2>2
  <2> QED BY <2>1, <2>2
<1>12. Range(u) \subseteq Range(w) \cup {p}
  BY <1>2
<1>13. Held(u, G, L) \subseteq Held(w, F, L) \cup {p}
  <2>1. PacketsOf(G) \subseteq PacketsOf(F) \cup {p}
    BY <1>4, <1>6
  <2> QED BY <1>12, <2>1 DEF Held
<1>14. \A q \in Held(u, G, L) : sentBy[q] # None
  BY <1>0, <1>3, <1>13
<1>15. /\ \A k \in DOMAIN L : L[k].p \notin Range(u)
       /\ \A k \in DOMAIN F : F[k].p \notin Range(u)
  BY <1>1, <1>3, <1>12
<1>16. \A q \in Packet : q # p => ~(Count(u, q) \in 1..(Size - 1))
  <2> TAKE q \in Packet
  <2> HAVE q # p
  <2>1. Count(w, q) \in 1..(Size - 1) => 1 \in DOMAIN F /\ F[1].left < Size
    BY DEF NotTorn
  <2>2. 1 \in DOMAIN F => ~(F[1].left < Size)
    BY <1>0
  <2> QED BY <1>2, <2>1, <2>2
<1>17. CASE n = Size
  <2>1. G = F
    BY <1>4, <1>17
  <2>2. 1 \in DOMAIN F => ~(F[1].left < Size)
    BY <1>0
  <2>3. Sound(u, F, L)
    BY <1>0, <1>3, <1>7, <1>10, <1>11, <1>14, <1>15, <2>1, <2>2 DEF Sound
  <2>4. ~(Count(u, p) \in 1..(Size - 1))
    BY <1>0, <1>2, <1>17
  <2>5. NotTorn(u, F)
    BY <1>16, <2>4 DEF NotTorn
  <2> QED BY <1>13, <2>1, <2>3, <2>5 DEF u, G
<1>18. CASE n # Size
  <2>0. /\ G[1] = b /\ 1 \in DOMAIN G /\ DOMAIN G \subseteq Nat
        /\ \A k \in DOMAIN G : k # 1 => k - 1 \in DOMAIN F /\ G[k] = F[k - 1]
    BY <1>6, <1>18
  <2>1. \A k \in DOMAIN G : k # 1 => G[k].left = Size
    BY <1>0, <2>0
  <2>2. \A k \in DOMAIN G : G[k].left = Size => G[k].p \notin Range(u)
    <3> TAKE k \in DOMAIN G
    <3> HAVE G[k].left = Size
    <3>1. CASE k = 1
      <4>1. n = 0 /\ G[k].p = p
        BY <1>0, <1>5, <2>0, <3>1
      <4> QED BY <1>1, <1>2, <4>1
    <3>2. CASE k # 1
      BY <1>15, <2>0, <3>2
    <3> QED BY <3>1, <3>2
  <2>3. \A k, l \in DOMAIN G : G[k].p = G[l].p => k = l
    <3> TAKE k, l \in DOMAIN G
    <3> HAVE G[k].p = G[l].p
    <3>1. CASE k = 1 \/ l = 1
      BY <1>1, <1>5, <2>0, <3>1
    <3>2. CASE k # 1 /\ l # 1
      <4>1. k - 1 = l - 1
        BY <1>3, <2>0, <3>2
      <4>2. k \in Nat /\ l \in Nat
        BY <2>0
      <4> QED BY <4>1, <4>2
    <3> QED BY <3>1, <3>2
  <2>4. \A k \in DOMAIN G, l \in DOMAIN L : G[k].p # L[l].p
    BY <1>1, <1>3, <1>5, <2>0
  <2>5. \A a \in DOMAIN u, k \in DOMAIN G : Before(u[a], G[k].p)
    <3>1. \A a \in DOMAIN u : u[a] \in Packet
      BY <1>2
    <3> QED BY <1>5, <1>8, <1>11, <2>0, <3>1
  <2>6. \A k, l \in DOMAIN G : k < l => Before(G[k].p, G[l].p)
    <3> TAKE k, l \in DOMAIN G
    <3> HAVE k < l
    <3>0. k \in Nat /\ l \in Nat
      BY <2>0
    <3>1. CASE l = 1
      <4>1. k = 0
        BY <3>0, <3>1
      <4>2. G \in Seq(Buffer)
        BY <1>4, <1>18, FrontList
      <4> QED BY <4>1, <4>2
    <3>2. CASE l # 1 /\ k = 1
      BY <1>5, <1>9, <2>0, <3>2
    <3>3. CASE l # 1 /\ k # 1
      <4>1. k - 1 < l - 1
        BY <3>0
      <4> QED BY <1>3, <2>0, <3>3, <4>1
    <3> QED BY <3>1, <3>2, <3>3
  <2>7. /\ \A a \in DOMAIN u : u[a] = G[1].p => \A k \in a..Len(u) : u[k] = G[1].p
        /\ Count(u, G[1].p) = Size - G[1].left
    <3>1. G[1].p = p /\ G[1].left = Size - n
      BY <1>5, <2>0
    <3>2. Count(u, p) = Size - (Size - n)
      BY <1>0, <1>2
    <3>3. ASSUME NEW a \in DOMAIN u, u[a] = p, NEW k \in a..Len(u) PROVE u[k] = p
      <4>1. a \notin DOMAIN w
        BY <1>2, <3>3
      <4>2. k \in DOMAIN u
        BY <1>2
      <4>3. a <= k
        BY <1>2, <3>3
      <4> QED BY <1>2, <4>1, <4>2, <4>3
    <3> QED BY <3>1, <3>2, <3>3
  <2>8. Sound(u, G, L)
    BY <1>3, <1>7, <1>10, <1>14, <1>15, <2>1, <2>2, <2>3, <2>4, <2>5, <2>6, <2>7 DEF Sound
  <2>9. NotTorn(u, G)
    <3>1. Count(u, p) \in 1..(Size - 1) => G[1].p = p /\ G[1].left < Size
      BY <1>0, <1>2, <1>5, <2>0
    <3> QED BY <1>16, <2>0, <3>1 DEF NotTorn
  <2> QED BY <1>13, <2>8, <2>9 DEF u, G
<1> QED BY <1>17, <1>18

(* The direct write: the lock is held, so nobody else writes, and the packet  *)
(* is the last one that its service sent.                                     *)
LEMMA SendWriteWires ==
    ASSUME Types0, SockInv, WireInv, NEW v \in Service, NEW n \in 0..Size, SendWrite(v, n)
    PROVE  WireInv'
<1> DEFINE x == call[v].id
           i == Hash(x)
           s == sock[i]
           p == call[v].p
           b == [p |-> p, left |-> Size - n]
           t == IF n = Size THEN [s EXCEPT !.lock = None] ELSE [s EXCEPT !.lock = None, !.wev = TRUE, !.dw = b]
<1>0. /\ call[v].pc = "write" /\ UNCHANGED <<alloc_id, pipe, io, known, sentBy, lowp, work>>
      /\ wire' = [wire EXCEPT ![x] = Written(@, p, n)] /\ call' = [call EXCEPT ![v] = Out]
  BY DEF SendWrite, Written
<1>1. Calling(v)
  BY <1>0 DEF Calling
<1>2. /\ x \in Id /\ p \in Packet /\ i \in Slot /\ Of(x) = s /\ s \in Record /\ s.id = x /\ s.tcp
      /\ Locks /\ Wires /\ Pending /\ Writing /\ x # 0
  BY <1>1, CallSlot, Basics DEF SockInv, WireInv
<1>3. s.lock = v /\ Open(s) /\ s.dw = None /\ v # None
  BY <1>0, <1>2, SocketAssumption DEF Locks
<1>4. Types0' /\ DataMap(0) /\ CallAt(v, "out")
  BY <1>0, <1>1, SendWriteKeeps, SameMap, CallFacts
<1>5. Set(i, t)
  BY <1>2 DEF SendWrite
<1>6. /\ t \in Record /\ t.id = x /\ t.tcp /\ t.type = s.type /\ Front(t) = RestOf(p, n, Front(s)) /\ t.low = s.low
  <2>0. Front(s) = s.high
    BY <1>2, <1>3, MergedFacts
  <2>1. CASE n = Size
    <3>1. t = [s EXCEPT !.lock = None]
      BY <2>1
    <3> HIDE DEF t
    <3>2. /\ t \in Record /\ t.id = s.id /\ t.tcp = s.tcp /\ t.type = s.type /\ t.high = s.high
          /\ t.low = s.low /\ t.dw = s.dw
      BY <1>2, <3>1 DEF Record
    <3>3. Front(t) = t.high
      BY <1>3, <3>2, MergedFacts
    <3> QED BY <1>2, <2>0, <2>1, <3>2, <3>3 DEF RestOf
  <2>2. CASE n # Size
    <3>1. Size - n \in 1..Size
      BY <2>2, SocketAssumption
    <3>2. b \in Buffer
      BY <1>2, <3>1, BufferFields
    <3>3. t = [s EXCEPT !.lock = None, !.wev = TRUE, !.dw = b]
      BY <2>2
    <3>4. RestOf(p, n, Front(s)) = <<b>> \o s.high
      BY <2>0, <2>2 DEF RestOf
    <3> HIDE DEF t, b
    <3>5. /\ t \in Record /\ t.id = s.id /\ t.tcp = s.tcp /\ t.type = s.type /\ t.high = s.high
          /\ t.low = s.low /\ t.dw = b
      BY <1>2, <3>2, <3>3 DEF Record
    <3>6. b # None
      BY <3>2, SocketAssumption DEF Buffer
    <3>7. Front(t) = <<b>> \o s.high
      BY <3>5, <3>6, MergedFacts
    <3> QED BY <1>2, <3>4, <3>5, <3>7
  <2> QED BY <2>1, <2>2
<1> HIDE DEF t, b
<1>7. Moved(i) /\ sock'[i] = t
  BY <1>2, <1>5, <1>6, SetFacts
<1>8. FrontOf(x) = Front(s) /\ LowOf(x) = s.low
  <2> HIDE DEF i
  <2> QED BY <1>2, <1>6, <1>7, OtherLists
<1> DEFINE w == wire[x]
           F == FrontOf(x)
           L == LowOf(x)
<1>9. /\ w \in Seq(Packet) /\ F \in Seq(Buffer) /\ L \in Seq(Buffer) /\ HeldOf(x) = Held(w, F, L)
      /\ Sound(w, F, L) /\ NotTorn(w, F)
  BY <1>2, <1>3, HeldPackets DEF Wires, HeldOf, HeldIn, FrontOf, LowOf, Open
<1>10. wire'[x] = Written(w, p, n) /\ \A id \in Id : id # x => wire'[id] = wire[id]
  BY <1>0, <1>2 DEF Types0
<1>11. Direct(v, p, w, F, L)
  <2>1. /\ sentBy[p] = v
        /\ \A q \in Packet : sentBy[q] = v => q <= p
        /\ p \notin HeldOf(x)
    BY <1>1, <1>2 DEF Pending
  <2>2. \A k \in DOMAIN F : F[k].left = Size /\ sentBy[F[k].p] # v
    BY <1>0, <1>2 DEF Writing
  <2> QED BY <1>2, <1>3, <1>9, <2>1, <2>2 DEF Direct
<1>12. Passed(p, x)
  <2>1. ASSUME NEW k \in DOMAIN pipe', pipe'[k].op \in SendOps
        PROVE  pipe'[k].p # p /\ (pipe'[k].id = x => Before(p, pipe'[k].p))
    <3>1. k \in DOMAIN pipe /\ DataAt(k) /\ pipe' = pipe
      BY <1>0, <2>1 DEF DataAt
    <3>2. pipe[k].p # p
      BY <1>1, <1>2, <3>1 DEF Pending
    <3>3. pipe[k].id = x => sentBy[pipe[k].p] # v
      BY <1>0, <1>2, <3>1 DEF Writing
    <3>4. sentBy[p] = v
      BY <1>11 DEF Direct
    <3> QED BY <3>1, <3>2, <3>3, <3>4 DEF Before
  <2>2. ASSUME NEW u \in Service, call'[u].pc # "out" PROVE call'[u].p # p
    <3>1. u # v /\ call'[u] = call[u] /\ Calling(u)
      BY <1>4, <2>2 DEF CallAt, Calling
    <3>2. sentBy[call[u].p] = u /\ sentBy[p] = v
      BY <1>1, <1>2, <3>1 DEF Pending
    <3> QED BY <3>1, <3>2
  <2> QED BY <2>1, <2>2 DEF Passed
<1> HIDE DEF w, F, L
<1>13. SlotAgain(i)
  <2> DEFINE w2 == Written(w, p, n)
             F2 == RestOf(p, n, F)
  <2>1. Sound(w2, F2, L) /\ NotTorn(w2, F2) /\ Held(w2, F2, L) \subseteq Held(w, F, L) \cup {p}
    BY <1>9, <1>11, DirectSound
  <2>2. wire'[sock[i].id] = w2 /\ Front(sock'[i]) = F2 /\ sock'[i].low = L /\ sock[i].id = x
    BY <1>2, <1>6, <1>7, <1>8, <1>10 DEF F, L
  <2> HIDE DEF w2, F2, i
  <2> QED BY <1>9, <1>12, <2>1, <2>2 DEF SlotAgain
<1>14. CallsKept /\ NoWriterOn(x)
  <2>1. CallsKept
    BY <1>1, <1>4, CallKept
  <2>2. ASSUME NEW u \in Service, call'[u].pc = "write" PROVE call[u].pc = "write" /\ call[u].id # x
    <3>1. u # v /\ call[u].pc = "write"
      BY <1>4, <2>2 DEF CallAt
    <3>2. Of(call[u].id).lock = u
      BY <1>2, <3>1 DEF Locks
    <3> QED BY <1>2, <1>3, <3>1, <3>2
  <2> QED BY <2>1, <2>2 DEF NoWriterOn
<1> HIDE DEF i
<1>15. sock'[i].id = sock[i].id /\ sock'[i].tcp /\ sock[i].id = x
  BY <1>2, <1>6, <1>7
<1>16. WritersClear
  BY <1>2, <1>4, <1>7, <1>14, <1>15, WritersElsewhere
<1> QED BY <1>0, <1>2, <1>4, <1>7, <1>10, <1>13, <1>14, <1>15, <1>16, SlotWires

(* Nothing is written or queued at first. *)
LEMMA WireInitially ==
    ASSUME SockInit
    PROVE  WireInv
<1>0. /\ pipe = << >> /\ lowp = {} /\ sentBy = [p \in Packet |-> None]
      /\ wire = [i \in Id |-> << >>] /\ call = [v \in Service |-> Out]
  BY DEF SockInit
<1>1. Types0 /\ SockInv
  BY SockInitially
<1>2. ASSUME NEW id \in Id
      PROVE  FrontOf(id) = << >> /\ LowOf(id) = << >> /\ wire[id] = << >> /\ Of(id).id # id /\ HeldOf(id) = {}
  <2>1. Hash(id) \in Slot /\ 0 \notin Id
    BY <1>1, Basics
  <2>2. sock[Hash(id)].id = 0
    BY <2>1 DEF SockInit, Closed
  <2>3. FrontOf(id) = << >> /\ LowOf(id) = << >> /\ wire[id] = << >> /\ Of(id).id # id
    BY <1>0, <2>1, <2>2 DEF FrontOf, FrontIn, LowOf, LowIn, Of
  <2>4. HeldOf(id) = Held(<< >>, << >>, << >>)
    BY <2>3 DEF HeldOf, HeldIn, FrontOf, LowOf
  <2>5. Held(<< >>, << >>, << >>) = {}
    BY DEF Held, PacketsOf, Range
  <2> QED BY <2>3, <2>4, <2>5
<1>3. Sound(<< >>, << >>, << >>)
  <2>1. Held(<< >>, << >>, << >>) = {} /\ DOMAIN << >> = {}
    BY DEF Held, PacketsOf, Range
  <2> QED BY <2>1 DEF Sound, Whole
<1>4. Wires
  BY <1>2, <1>3 DEF Wires
<1>5. \A v \in Service : ~Calling(v) /\ call[v].pc = "out"
  BY <1>0 DEF Calling, Out
<1>6. Pending
  <2>1. DOMAIN pipe = {}
    BY <1>0
  <2> QED BY <1>0, <1>5, <2>1 DEF Pending
<1>7. Writing
  BY <1>5 DEF Writing
<1> QED BY <1>4, <1>6, <1>7 DEF WireInv

(* Every step keeps the wires sound. *)
LEMMA WireKeeps ==
    ASSUME Types0, SockInv, WireInv, [SockNext]_sockVars
    PROVE  WireInv'
<1>1. CASE UNCHANGED sockVars
  <2>1. Types0' /\ 0 \in Slot /\ UNCHANGED <<sock, alloc_id, pipe, call, wire, sentBy, lowp>>
    BY <1>1, SockStep, SocketAssumption DEF sockVars, Slot
  <2>2. Moved(0) /\ sock'[0] = sock[0] /\ SameData(sock[0], sock'[0])
    BY <2>1, SameFacts DEF SameData
  <2> QED BY <2>1, <2>2, SameMap, SameCalls, KeptWires
<1>2. CASE Initiatives
  <2>1. CASE Connect \/ Listen
    BY <2>1, ReserveWires
  <2>2. ASSUME NEW id \in Id, NEW op \in {"S", "K", "KS"}, Request(id, op) PROVE WireInv'
    BY <2>2, RequestWires
  <2>3. ASSUME NEW v \in Service, NEW id \in Id, NEW p \in Packet, NEW lp \in BOOLEAN, SendStart(v, id, p, lp)
        PROVE  WireInv'
    BY <2>3, SendStartWires
  <2>4. ASSUME NEW i \in Slot, EventAccept(i) \/ EventHangup(i) \/ EventWriteError(i) PROVE WireInv'
    BY <2>4, ReserveWires, EventHangupWires, EventWriteErrorWires
  <2> QED BY <1>2, <2>1, <2>2, <2>3, <2>4 DEF Initiatives
<1>3. CASE Ctrl
  <2>1. CASE CtrlOpen \/ CtrlListen
    BY <2>1, CtrlOpenWires, CtrlListenWires
  <2>2. CASE CtrlStart \/ CtrlSend
    BY <2>2, CtrlStartWires, CtrlSendWires
  <2>3. CASE CtrlCloseError \/ ForceClose
    BY <2>3, CtrlCloseErrorWires, ForceCloseWires
  <2>4. ASSUME NEW n, CtrlClose(n) PROVE WireInv'
    BY <2>4, CtrlCloseWires
  <2> QED BY <1>3, <2>1, <2>2, <2>3, <2>4 DEF Ctrl
<1>4. ASSUME NEW v \in Service, Calls(v) PROVE WireInv'
  <2>1. CASE SendLock(v) \/ SendCheck(v) \/ SendInc(v) \/ SendAsk(v)
    BY <2>1, SendLockWires, SendCheckWires, SendIncWires, SendAskWires
  <2>2. ASSUME NEW n \in 0..Size, SendWrite(v, n) PROVE WireInv'
    BY <2>2, SendWriteWires
  <2> QED BY <1>4, <2>1, <2>2 DEF Calls
<1>5. ASSUME NEW i \in Slot, EventConnect(i) PROVE WireInv'
  BY <1>5, EventConnectWires
<1>6. ASSUME NEW i \in Slot, NEW n, EventWrite(i, n) PROVE WireInv'
  BY <1>6, EventWriteWires
<1> QED BY <1>1, <1>2, <1>3, <1>4, <1>5, <1>6 DEF SockNext

(* Sound wires are what the peer relies on. *)
LEMMA WireMeans ==
    ASSUME Types0, SockInv, WireInv
    PROVE  WireIntact
<1>1. \A id \in Id : Sound(wire[id], FrontOf(id), LowOf(id))
  BY DEF WireInv, Wires
<1>2. PacketsWhole
  BY <1>1 DEF PacketsWhole, Sound, Whole
<1>3. PacketsInOrder
  <2>1. \A id \in Id : \A a, b \in DOMAIN wire[id] : a < b => Before(wire[id][a], wire[id][b])
    BY <1>1 DEF Sound
  <2> QED BY <2>1 DEF PacketsInOrder, Before
<1>4. NothingTorn
  <2> SUFFICES ASSUME NEW i \in Slot, Open(sock[i]), NEW p \in Packet, OnWire(sock[i].id, p) \in 1..(Size - 1)
               PROVE  Underway(sock[i].id, p)
    BY DEF NothingTorn
  <2> DEFINE s == sock[i]
             x == s.id
  <2>1. s \in Record /\ x # 0 /\ Hash(x) = i /\ s.type # "INVALID"
    BY Basics DEF SockInv, Slots, SlotSound, Open
  <2>2. x \in Id /\ Of(x) = s /\ FrontOf(x) = Front(s)
    <3>1. x \in Id
      BY <2>1, RecordFields
    <3> QED BY <2>1, <3>1, Basics DEF FrontOf, FrontIn
  <2>3. NotTorn(wire[x], Front(s))
    BY <2>1, <2>2 DEF WireInv, Wires
  <2>4. Count(wire[x], p) \in 1..(Size - 1)
    BY DEF OnWire, Count
  <2>5. 1 \in DOMAIN Front(s) /\ Front(s)[1].p = p
    BY <2>3, <2>4 DEF NotTorn
  <2>6. CASE s.dw # None
    <3>1. Front(s) = <<s.dw>> \o s.high /\ s.dw \in Buffer /\ s.high \in Seq(Buffer)
      BY <2>1, <2>6, MergedFacts, RecordFields
    <3>2. Front(s)[1] = s.dw
      BY <3>1, FrontList
    <3> QED BY <2>2, <2>5, <2>6, <3>2 DEF Underway
  <2>7. CASE s.dw = None
    <3>1. Front(s) = s.high /\ s.high \in Seq(Buffer)
      BY <2>1, <2>7, MergedFacts, RecordFields
    <3> DEFINE K == {k \in DOMAIN s.high : s.high[k].p = p}
    <3>2. 1 \in K
      BY <2>5, <3>1
    <3>3. IsFiniteSet(K)
      <4>1. K \subseteq 1..Len(s.high) /\ Len(s.high) \in Nat
        BY <3>1
      <4> HIDE DEF K
      <4>2. IsFiniteSet(1..Len(s.high))
        BY <4>1, FS_Interval
      <4> QED BY <4>1, <4>2, FS_Subset
    <3>4. Cardinality(K) # 0
      <4> HIDE DEF K
      <4> QED BY <3>2, <3>3, FS_EmptySet
    <3>5. InList(s.high, p)
      BY <3>4 DEF InList
    <3> QED BY <2>2, <3>5 DEF Underway
  <2> QED BY <2>6, <2>7
<1> QED BY <1>2, <1>3, <1>4 DEF WireIntact

(* The peer gets packets: the units of each together, those of one service in *)
(* order, and the rest of each one begun; whatever the number of services,    *)
(* sockets and packets, and however much the kernel takes at a time.          *)
THEOREM WireIsIntact == SockSpec => []WireIntact
<1> DEFINE Inv == Types0 /\ SockInv /\ WireInv
<1>1. SockInit => Inv
  BY SockInitially, WireInitially
<1>2. Inv /\ [SockNext]_sockVars => Inv'
  BY SockStep, WireKeeps
<1>3. Inv => WireIntact
  BY WireMeans
<1> QED BY <1>1, <1>2, <1>3, PTL DEF SockSpec
=============================================================================

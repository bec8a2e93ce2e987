----------------------------- MODULE LobbyProofs -----------------------------
(***************************************************************************)
(* The lobby for any number of connections, users and agents: the agent of *)
(* a room is the only one that runs, it outlives the members, whoever      *)
(* enters is answered, and no closed connection is registered.             *)
(***************************************************************************)
EXTENDS Lobby, FiniteSetTheorems, TLAPS

-----------------------------------------------------------------------------
(* The inductive invariant.                                                *)

Ops == {"open", "close", "login", "enter", "quit", "accept", "kick", "forward", "answer",
        "leave", "start", "disconnect"}
Mail == [op : Ops, fd : Fd \cup {Nil}, key : Key \cup {Nil}, ok : BOOLEAN]
CoPc == {"idle", "accept", "account", "kick", "disconnect", "section", "info", "launch", "cache", "start"}
AgPc == {"idle", "forward", "people", "leave", "dead"}

(* Sockets, the gate, and the tables of the watchdog. *)
TableTypes ==
    /\ owner \in [Fd -> Uid] /\ asked \in [Fd -> SUBSET {"login", "enter", "quit"}]
    /\ sock \in [Fd -> {"new", "pending", "up", "closing", "down"}]
    /\ conn \in [Fd -> {"none", "on", "off"}] /\ fwd \in [Fd -> Agent \cup {Nil}]
    /\ conns \subseteq Fd /\ logged \subseteq Fd /\ ufd \subseteq Fd /\ uroom \subseteq Fd
    /\ users \in [Uid -> Fd \cup {Nil}] /\ online_num \in Int

(* The coroutines of the watchdog and of the agents. *)
WorkTypes ==
    /\ csq \in Seq(Fd) /\ co \in [Key -> [pc : CoPc, vic : Fd \cup {Nil}]]
    /\ alive \subseteq Agent /\ aconns \in [Agent -> SUBSET Fd]
    /\ ag \in [Key -> [pc : AgPc, at : Agent \cup {Nil}, fd : Fd \cup {Nil}]]

(* What a client or the socket layer sends. *)
IsEvent(m) == m.op \in {"open", "close", "login", "enter", "quit"} /\ m.fd \in Fd /\ m.key = Nil /\ m.ok

(* Which letters there are in each mailbox, and on whose behalf. *)
GateLetter(m) ==
    \/ IsEvent(m)
    \/ m.op = "accept" /\ m.fd \in Fd /\ m.key = <<"open", m.fd>>
    \/ m.op = "kick" /\ m.fd \in Fd /\ m.key \in {"close", "login", "enter"} \X Fd
    \/ m.op = "forward" /\ m.fd \in Fd /\ m.key \in {"enter"} \X Fd
DogLetter(m) ==
    \/ IsEvent(m)
    \/ m.op = "answer" /\ m.key \in Key
    \/ m.op = "leave" /\ m.fd \in Fd /\ m.key \in Key
AgentLetter(m) ==
    \/ IsEvent(m)
    \/ m.op = "start" /\ m.key \in {"enter"} \X Fd
    \/ m.op = "disconnect" /\ m.fd \in Fd /\ m.key \in {"close", "login"} \X Fd
    \/ m.op = "answer" /\ m.key \in Key

GateMail == gmail \in Seq(Mail) /\ \A m \in Range(gmail) : GateLetter(m)
DogMail == dmail \in Seq(Mail) /\ \A m \in Range(dmail) : DogLetter(m)
AgentMail ==
    /\ amail \in [Agent -> Seq(Mail)]
    /\ \A a \in Agent : \A m \in Range(amail[a]) : AgentLetter(m)

(* An agent's coroutine serves a start (key "enter"), a disconnect or quit. *)
Jobs ==
    \A k \in Key :
        /\ k[1] = "open" => ag[k].pc = "idle" /\ ag[k].at = Nil
        /\ k[1] = "enter" => /\ ag[k].pc \in {"idle", "forward", "people", "dead"}
                             /\ ag[k].pc = "people" => ag[k].fd = Nil
        /\ ag[k].pc = "forward" => k[1] = "enter" /\ ag[k].fd \in Fd

(* The first of enter_room's section runs, and the others wait for it. *)
Active == {"info", "launch", "kick", "cache", "start"}
Section ==
    /\ \A i, j \in DOMAIN csq : csq[i] = csq[j] => i = j
    /\ \A i \in DOMAIN csq :
          IF i = 1 THEN co[<<"enter", csq[i]>>].pc \in Active
                   ELSE co[<<"enter", csq[i]>>].pc = "section"
    /\ \A f \in Fd : co[<<"enter", f>>].pc # "idle" => f \in Range(csq)
    /\ \A f \in Fd : co[<<"enter", f>>].pc = "kick" => co[<<"enter", f>>].vic = f
    /\ \A f \in Fd : \A w \in {"open", "quit"} : co[<<w, f>>].pc # "kick"

(* m is at most once in mailbox q. *)
Once(q, m) == \A i, j \in DOMAIN q : q[i] = m /\ q[j] = m => i = j

(* A connection's enter is served once; until then he is in no room. *)
Coming(f) == Event("enter", f) \in Range(gmail) \cup Range(dmail)
Before == {"section", "info", "launch", "kick", "cache"}    \* until he is a member
ServedOnce(f) ==
    /\ Once(gmail, Event("enter", f)) /\ Once(dmail, Event("enter", f))
    /\ Event("enter", f) \notin Range(gmail) \cap Range(dmail)
    /\ Coming(f) => "enter" \in asked[f]
    /\ Coming(f) \/ "enter" \notin asked[f] => co[<<"enter", f>>].pc = "idle" /\ f \notin uroom
    /\ co[<<"enter", f>>].pc \in Before => f \notin uroom
EnterOnce == \A f \in Fd : ServedOnce(f)

(* The room's agent is the only one that runs; one is launched only when   *)
(* there is none.                                                          *)
AgentInv ==
    /\ agent \in alive \cup {Nil}
    /\ OneAgent
    /\ \A f \in Fd : co[<<"enter", f>>].pc = "launch" => agent = Nil

MemberInv ==
    /\ members \subseteq Uid /\ IsFiniteSet(members) /\ member_count \in Nat
    /\ CountCoversMembers

(* The answer that registers a connection comes before its close. *)
OpenOrder ==
    \A f \in Fd : \A i \in DOMAIN dmail :
        dmail[i].op = "answer" /\ dmail[i].key = <<"open", f>> /\ dmail[i].ok
          => conn[f] # "none" \/ \E j \in DOMAIN dmail : i < j /\ dmail[j] = Event("close", f)

LobbyInv ==
    /\ TableTypes /\ WorkTypes /\ GateMail /\ DogMail /\ AgentMail
    /\ Jobs /\ Section /\ EnterOnce /\ AgentInv /\ MemberInv /\ EntryAnswered /\ OpenOrder

-----------------------------------------------------------------------------
(* Mailboxes.                                                              *)

(* A letter put at the end. *)
LEMMA RangeAppend ==
    ASSUME NEW S, NEW q \in Seq(S), NEW x \in S
    PROVE  /\ Append(q, x) \in Seq(S)
           /\ Range(Append(q, x)) = Range(q) \cup {x}
<1>1. /\ Append(q, x) \in Seq(S) /\ Len(Append(q, x)) = Len(q) + 1
      /\ DOMAIN Append(q, x) = 1..(Len(q) + 1) /\ DOMAIN q = 1..Len(q) /\ Len(q) \in Nat
      /\ \A i \in 1..Len(q) : Append(q, x)[i] = q[i]
      /\ Append(q, x)[Len(q) + 1] = x
  OBVIOUS
<1>2. \A i \in 1..(Len(q) + 1) : i \in 1..Len(q) \/ i = Len(q) + 1
  BY <1>1
<1>3. \A i \in 1..Len(q) : i \in 1..(Len(q) + 1)
  BY <1>1
<1>4. Len(q) + 1 \in 1..(Len(q) + 1)
  BY <1>1
<1> QED BY <1>1, <1>2, <1>3, <1>4, ZenonT(30) DEF Range

(* The first letter taken away. *)
LEMMA RangeTail ==
    ASSUME NEW S, NEW q \in Seq(S), q # << >>
    PROVE  /\ Tail(q) \in Seq(S) /\ Head(q) \in S
           /\ Range(q) = {Head(q)} \cup Range(Tail(q))
<1>1. /\ Tail(q) \in Seq(S) /\ Len(q) \in Nat /\ Len(q) >= 1
      /\ DOMAIN Tail(q) = 1..(Len(q) - 1) /\ DOMAIN q = 1..Len(q)
      /\ \A i \in 1..(Len(q) - 1) : Tail(q)[i] = q[i + 1]
      /\ Head(q) = q[1] /\ Head(q) \in S
  OBVIOUS
<1>2. \A i \in 1..Len(q) : i = 1 \/ (i - 1 \in 1..(Len(q) - 1) /\ q[i] = Tail(q)[i - 1])
  BY <1>1
<1>3. \A i \in 1..(Len(q) - 1) : i + 1 \in 1..Len(q)
  BY <1>1
<1>4. 1 \in 1..Len(q)
  BY <1>1
<1>5. Range(q) \subseteq {Head(q)} \cup Range(Tail(q))
  <2> SUFFICES ASSUME NEW i \in 1..Len(q) PROVE q[i] \in {Head(q)} \cup Range(Tail(q))
    BY <1>1 DEF Range
  <2>1. CASE i = 1
    BY <2>1, <1>1
  <2>2. CASE i # 1
    <3>1. i - 1 \in DOMAIN Tail(q) /\ q[i] = Tail(q)[i - 1]
      BY <2>2, <1>1, <1>2
    <3> QED BY <3>1 DEF Range
  <2> QED BY <2>1, <2>2
<1>6. {Head(q)} \cup Range(Tail(q)) \subseteq Range(q)
  <2>1. Head(q) \in Range(q)
    BY <1>1, <1>4 DEF Range
  <2>2. ASSUME NEW i \in 1..(Len(q) - 1) PROVE Tail(q)[i] \in Range(q)
    BY <1>1, <1>3 DEF Range
  <2> QED BY <1>1, <2>1, <2>2 DEF Range
<1> QED BY <1>1, <1>5, <1>6

(* Letters in a row put at the end. *)
LEMMA RangeConcat ==
    ASSUME NEW S, NEW q \in Seq(S), NEW r \in Seq(S)
    PROVE  q \o r \in Seq(S) /\ Range(q \o r) = Range(q) \cup Range(r)
<1>1. /\ q \o r \in Seq(S) /\ Len(q) \in Nat /\ Len(r) \in Nat
      /\ DOMAIN (q \o r) = 1..(Len(q) + Len(r)) /\ DOMAIN q = 1..Len(q) /\ DOMAIN r = 1..Len(r)
      /\ \A i \in 1..Len(q) : (q \o r)[i] = q[i]
      /\ \A i \in 1..Len(r) : (q \o r)[Len(q) + i] = r[i]
  OBVIOUS
<1>2. \A i \in 1..(Len(q) + Len(r)) : i \in 1..Len(q) \/ (i - Len(q) \in 1..Len(r) /\ (q \o r)[i] = r[i - Len(q)])
  BY <1>1
<1>3. \A i \in 1..Len(q) : i \in 1..(Len(q) + Len(r))
  BY <1>1
<1>4. \A i \in 1..Len(r) : Len(q) + i \in 1..(Len(q) + Len(r))
  BY <1>1
<1>5. Range(q \o r) \subseteq Range(q) \cup Range(r)
  BY <1>1, <1>2, ZenonT(30) DEF Range
<1>6. Range(q) \cup Range(r) \subseteq Range(q \o r)
  BY <1>1, <1>3, <1>4, ZenonT(30) DEF Range
<1> QED BY <1>1, <1>5, <1>6

(* A letter that is in a mailbox at most once stays so. *)
LEMMA OnceTail ==
    ASSUME NEW S, NEW q \in Seq(S), q # << >>, NEW x, Once(q, x)
    PROVE  Once(Tail(q), x) /\ (Head(q) = x => x \notin Range(Tail(q)))
<1>1. /\ Len(q) \in Nat /\ Len(q) >= 1
      /\ DOMAIN Tail(q) = 1..(Len(q) - 1) /\ DOMAIN q = 1..Len(q)
      /\ \A i \in 1..(Len(q) - 1) : Tail(q)[i] = q[i + 1]
      /\ Head(q) = q[1]
  OBVIOUS
<1>2. Once(Tail(q), x)
  BY <1>1 DEF Once
<1>3. ASSUME Head(q) = x, NEW i \in 1..(Len(q) - 1), Tail(q)[i] = x PROVE FALSE
  BY <1>1, <1>3 DEF Once
<1> QED BY <1>1, <1>2, <1>3 DEF Range

LEMMA OnceAppend ==
    ASSUME NEW S, NEW q \in Seq(S), NEW y \in S, NEW x, Once(q, x), y # x \/ x \notin Range(q)
    PROVE  Once(Append(q, y), x)
<1>1. /\ Len(q) \in Nat /\ DOMAIN Append(q, y) = 1..(Len(q) + 1) /\ DOMAIN q = 1..Len(q)
      /\ \A i \in 1..Len(q) : Append(q, y)[i] = q[i]
      /\ Append(q, y)[Len(q) + 1] = y
  OBVIOUS
<1>2. CASE y # x
  BY <1>1, <1>2 DEF Once
<1>3. CASE x \notin Range(q)
  <2>1. \A i \in 1..Len(q) : q[i] # x
    BY <1>1, <1>3 DEF Range
  <2> QED BY <1>1, <2>1 DEF Once
<1> QED BY <1>2, <1>3

LEMMA OnceConcat ==
    ASSUME NEW S, NEW q \in Seq(S), NEW r \in Seq(S), NEW x, Once(q, x), x \notin Range(r)
    PROVE  Once(q \o r, x)
<1>1. /\ Len(q) \in Nat /\ Len(r) \in Nat
      /\ DOMAIN (q \o r) = 1..(Len(q) + Len(r)) /\ DOMAIN q = 1..Len(q) /\ DOMAIN r = 1..Len(r)
      /\ \A i \in 1..Len(q) : (q \o r)[i] = q[i]
      /\ \A i \in 1..(Len(q) + Len(r)) : i > Len(q) => (q \o r)[i] = r[i - Len(q)] /\ i - Len(q) \in 1..Len(r)
  OBVIOUS
<1>2. \A i \in 1..Len(r) : r[i] # x
  BY <1>1 DEF Range
<1> QED BY <1>1, <1>2 DEF Once

(* A letter is a letter, and its parts are what it was made of. *)
LEMMA LetterIs ==
    ASSUME NEW op \in Ops, NEW fd \in Fd \cup {Nil}, NEW key \in Key \cup {Nil}, NEW ok \in BOOLEAN
    PROVE  /\ Msg(op, fd, key, ok) \in Mail
           /\ Msg(op, fd, key, ok).op = op /\ Msg(op, fd, key, ok).fd = fd
           /\ Msg(op, fd, key, ok).key = key /\ Msg(op, fd, key, ok).ok = ok
BY DEF Msg, Mail

(* Events of connections. *)
LEMMA EventIs ==
    ASSUME NEW op \in {"open", "close", "login", "enter", "quit"}, NEW f \in Fd
    PROVE  /\ Event(op, f) \in Mail /\ IsEvent(Event(op, f))
           /\ Event(op, f).op = op /\ Event(op, f).fd = f
           /\ Event(op, f).key = Nil /\ Event(op, f).ok
<1>1. op \in Ops /\ f \in Fd \cup {Nil} /\ Nil \in Key \cup {Nil} /\ TRUE \in BOOLEAN
  BY DEF Ops
<1>2. /\ Event(op, f) \in Mail /\ Event(op, f).op = op /\ Event(op, f).fd = f
      /\ Event(op, f).key = Nil /\ Event(op, f).ok
  BY <1>1 DEF Event, Msg, Mail
<1> QED BY <1>2, Zenon DEF IsEvent

(* Answers to calls. *)
LEMMA AnswerIs ==
    ASSUME NEW k \in Key, NEW ok \in BOOLEAN
    PROVE  /\ Answer(k, ok) \in Mail /\ Answer(k, ok).op = "answer" /\ Answer(k, ok).fd = Nil
           /\ Answer(k, ok).key = k /\ Answer(k, ok).ok = ok
BY DEF Answer, Msg, Mail, Ops

(* An event is named by its kind and its connection. *)
LEMMA EventUnique ==
    ASSUME NEW m \in Mail, IsEvent(m)
    PROVE  m = Event(m.op, m.fd)
BY DEF Mail, IsEvent, Event, Msg

(* Requests have a kind and a connection. *)
LEMMA KeyIs ==
    ASSUME NEW k \in Key
    PROVE  /\ k[1] \in {"open", "close", "login", "enter", "quit"} /\ k[2] \in Fd
           /\ k = <<k[1], k[2]>>
BY DEF Key

LEMMA KeyOf ==
    ASSUME NEW f \in Fd, NEW w \in {"open", "close", "login", "enter", "quit"}
    PROVE  /\ <<w, f>> \in Key /\ <<w, f>>[1] = w /\ <<w, f>>[2] = f
BY DEF Key

(* What the letter served next is. *)
LEMMA GateHead ==
    ASSUME GateMail, gmail # << >>
    PROVE  /\ Head(gmail) \in Mail /\ GateLetter(Head(gmail)) /\ Tail(gmail) \in Seq(Mail)
           /\ Range(gmail) = {Head(gmail)} \cup Range(Tail(gmail))
<1>1. gmail \in Seq(Mail) /\ gmail # << >>
  BY DEF GateMail
<1>2. /\ Head(gmail) \in Mail /\ Tail(gmail) \in Seq(Mail)
      /\ Range(gmail) = {Head(gmail)} \cup Range(Tail(gmail))
  BY <1>1, RangeTail
<1> QED BY <1>2 DEF GateMail

LEMMA DogHead ==
    ASSUME DogMail, dmail # << >>
    PROVE  /\ Head(dmail) \in Mail /\ DogLetter(Head(dmail)) /\ Tail(dmail) \in Seq(Mail)
           /\ Range(dmail) = {Head(dmail)} \cup Range(Tail(dmail))
<1>1. dmail \in Seq(Mail) /\ dmail # << >>
  BY DEF DogMail
<1>2. /\ Head(dmail) \in Mail /\ Tail(dmail) \in Seq(Mail)
      /\ Range(dmail) = {Head(dmail)} \cup Range(Tail(dmail))
  BY <1>1, RangeTail
<1> QED BY <1>2 DEF DogMail

LEMMA AgentHead ==
    ASSUME AgentMail, NEW a \in Agent, amail[a] # << >>
    PROVE  /\ Head(amail[a]) \in Mail /\ AgentLetter(Head(amail[a])) /\ Tail(amail[a]) \in Seq(Mail)
           /\ Range(amail[a]) = {Head(amail[a])} \cup Range(Tail(amail[a]))
<1>1. amail[a] \in Seq(Mail) /\ amail[a] # << >>
  BY DEF AgentMail
<1>2. /\ Head(amail[a]) \in Mail /\ Tail(amail[a]) \in Seq(Mail)
      /\ Range(amail[a]) = {Head(amail[a])} \cup Range(Tail(amail[a]))
  BY <1>1, RangeTail
<1> QED BY <1>2 DEF AgentMail

(* Serving and posting letters. *)
LEMMA GateServed ==
    ASSUME GateMail, gmail # << >>, gmail' = Tail(gmail) PROVE GateMail'
BY GateHead DEF GateMail

LEMMA GatePosted ==
    ASSUME GateMail, NEW m \in Mail, GateLetter(m), gmail' = Append(gmail, m) PROVE GateMail'
<1>1. gmail' \in Seq(Mail) /\ Range(gmail') = Range(gmail) \cup {m}
  BY RangeAppend DEF GateMail
<1> QED BY <1>1 DEF GateMail

LEMMA DogServed ==
    ASSUME DogMail, dmail # << >>, dmail' = Tail(dmail) PROVE DogMail'
BY DogHead DEF DogMail

LEMMA DogPosted ==
    ASSUME DogMail, NEW m \in Mail, DogLetter(m), dmail' = Append(dmail, m) PROVE DogMail'
<1>1. dmail' \in Seq(Mail) /\ Range(dmail') = Range(dmail) \cup {m}
  BY RangeAppend DEF DogMail
<1> QED BY <1>1 DEF DogMail

LEMMA AgentServed ==
    ASSUME AgentMail, NEW a \in Agent, amail[a] # << >>, amail' = [amail EXCEPT ![a] = Tail(@)]
    PROVE  AgentMail'
<1>1. Tail(amail[a]) \in Seq(Mail) /\ Range(Tail(amail[a])) \subseteq Range(amail[a])
  BY AgentHead
<1> QED BY <1>1 DEF AgentMail

LEMMA AgentPosted ==
    ASSUME AgentMail, NEW a \in Agent, NEW m \in Mail, AgentLetter(m),
           amail' = [amail EXCEPT ![a] = Append(@, m)]
    PROVE  AgentMail'
<1>1. amail[a] \in Seq(Mail)
  BY DEF AgentMail
<1>2. Append(amail[a], m) \in Seq(Mail) /\ Range(Append(amail[a], m)) = Range(amail[a]) \cup {m}
  BY <1>1, RangeAppend
<1> QED BY <1>1, <1>2 DEF AgentMail

-----------------------------------------------------------------------------
(* Types.                                                                  *)

(* close_conn's tail keeps the tables' types. *)
LEMMA ForgetTypes ==
    ASSUME LobbyInv, NEW k \in Key, NEW f, NEW users1 \in [Uid -> Fd \cup {Nil}],
           Forget(k, f, users1), UNCHANGED <<owner, asked, sock, conn, fwd, uroom>>
    PROVE  TableTypes'
<1>1. k[2] \in Fd /\ owner[k[2]] \in Uid
  BY KeyIs DEF LobbyInv, TableTypes
<1>2. users' = users1 \/ users' = [users1 EXCEPT ![owner[k[2]]] = k[2]]
  BY DEF Forget, Returned
<1>3. logged' = logged \/ logged' = logged \cup {k[2]}
  BY DEF Forget, Returned
<1>4. ufd' \subseteq ufd /\ online_num' = online_num - 1 /\ conns' = conns \ {f}
  BY DEF Forget
<1> QED BY <1>1, <1>2, <1>3, <1>4 DEF LobbyInv, TableTypes

(* The tables keep their types. *)
LEMMA TablesKept ==
    ASSUME LobbyInv, LobbyNext
    PROVE  TableTypes'
<1>1. UNCHANGED <<owner, asked, sock, conn, fwd, conns, logged, ufd, uroom, users, online_num>> =>
      TableTypes'
  BY DEF LobbyInv, TableTypes
<1>2. ASSUME NEW f \in Fd, LoginFails(f) \/ EnterFails(f) \/ EnterAgent(f) \/ EnterNotLaunched(f)
      PROVE TableTypes'
  BY <1>2, <1>1 DEF LoginFails, EnterFails, EnterAgent, EnterNotLaunched, clientVars, gateVars,
     tableVars
<1>3. ASSUME NEW f \in Fd, Entered(f) PROVE TableTypes'
  BY <1>3, <1>1 DEF Entered, clientVars, gateVars, tableVars
<1>4. ASSUME NEW f \in Fd, NEW a \in Agent, EnterLaunched(f, a) PROVE TableTypes'
  BY <1>4, <1>1 DEF EnterLaunched, clientVars, gateVars, tableVars
<1>5. ASSUME GateData \/ SocketOpen \/ SocketClose \/ Login PROVE TableTypes'
  BY <1>5, <1>1 DEF GateData, SocketOpen, SocketClose, Login, clientVars, gateVars, tableVars
<1>6. ASSUME EnterRoom \/ DogRefuses PROVE TableTypes'
  BY <1>6, <1>1 DEF EnterRoom, DogRefuses, clientVars, gateVars, tableVars
<1>7. ASSUME NEW k \in Key, CloseRaises(k) \/ AgentPeople(k) PROVE TableTypes'
  BY <1>7, <1>1 DEF CloseRaises, AgentPeople, clientVars, gateVars, tableVars
<1>8. ASSUME NEW a \in Agent, AgentStart(a) \/ AgentLogin(a) \/ AgentDisconnect(a) \/ AgentQuit(a)
      PROVE TableTypes'
  BY <1>8, <1>1 DEF AgentStart, AgentLogin, AgentDisconnect, AgentQuit, clientVars, gateVars,
     tableVars
<1>9. ASSUME NEW a \in Agent, AgentLeft(a) PROVE TableTypes'
  BY <1>9, <1>1 DEF AgentLeft, clientVars, gateVars, tableVars
<1>10. ASSUME NEW f \in Fd, Connect(f) PROVE TableTypes'
  BY <1>10 DEF Connect, LobbyInv, TableTypes, clientVars, gateVars, tableVars
<1>11. ASSUME NEW f \in Fd, Hangup(f) PROVE TableTypes'
  BY <1>11 DEF Hangup, LobbyInv, TableTypes, clientVars, gateVars, tableVars
<1>12. ASSUME NEW f \in Fd, GateTimeout(f) PROVE TableTypes'
  BY <1>12 DEF GateTimeout, LobbyInv, TableTypes, clientVars, gateVars, tableVars
<1>13. ASSUME NEW f \in Fd, NEW what \in {"login", "enter", "quit"}, Request(f, what) PROVE
      TableTypes'
  BY <1>13 DEF Request, LobbyInv, TableTypes, clientVars, gateVars, tableVars
<1>14. ASSUME NEW f \in Fd, SocketOpened(f) PROVE TableTypes'
  BY <1>14 DEF SocketOpened, LobbyInv, TableTypes, clientVars, gateVars, tableVars
<1>15. ASSUME NEW f \in Fd, LoginAccepted(f) PROVE TableTypes'
  <2> DEFINE k == <<"login", f>>
  <2>1. UNCHANGED <<owner, asked, sock, conn, fwd, conns, uroom, online_num>> /\ ufd' = ufd \cup {f}
    BY <1>15 DEF LoginAccepted, clientVars, gateVars, tableVars
  <2>2. users' = users \/ users' = [users EXCEPT ![owner[f]] = f]
    BY <1>15 DEF LoginAccepted, Returned
  <2>3. logged' = logged \/ logged' = logged \cup {f}
    BY <1>15 DEF LoginAccepted, Returned
  <2> QED BY <2>1, <2>2, <2>3 DEF LobbyInv, TableTypes
<1>16. ASSUME NEW f \in Fd, EnterMember(f) PROVE TableTypes'
  BY <1>16 DEF EnterMember, LobbyInv, TableTypes, clientVars, gateVars, tableVars
<1>17. ASSUME GateOpen PROVE TableTypes'
  <2>1. Head(gmail).fd \in Fd
    BY <1>17, GateHead DEF GateOpen, GateServes, LobbyInv, GateLetter, IsEvent
  <2> QED BY <1>17, <2>1 DEF GateOpen, LobbyInv, TableTypes, clientVars, gateVars, tableVars
<1>18. ASSUME GateAccept PROVE TableTypes'
  <2>1. Head(gmail).fd \in Fd
    BY <1>18, GateHead DEF GateAccept, GateServes, LobbyInv, GateLetter, IsEvent
  <2> QED BY <1>18, <2>1 DEF GateAccept, LobbyInv, TableTypes, clientVars, gateVars, tableVars
<1>19. ASSUME GateKick PROVE TableTypes'
  <2>1. Head(gmail).fd \in Fd
    BY <1>19, GateHead DEF GateKick, GateServes, LobbyInv, GateLetter, IsEvent
  <2> QED BY <1>19, <2>1 DEF GateKick, LobbyInv, TableTypes, clientVars, gateVars, tableVars
<1>20. ASSUME GateForward PROVE TableTypes'
  <2>1. Head(gmail).fd \in Fd
    BY <1>20, GateHead DEF GateForward, GateServes, LobbyInv, GateLetter, IsEvent
  <2>2. fwd' = fwd \/ \E a \in alive : fwd' = [fwd EXCEPT ![Head(gmail).fd] = IF
        conn[Head(gmail).fd] = "none" THEN @ ELSE a]
    BY <1>20 DEF GateForward
  <2>3. fwd' \in [Fd -> Agent \cup {Nil}]
    BY <2>1, <2>2 DEF LobbyInv, TableTypes, WorkTypes
  <2>4. UNCHANGED <<owner, asked, sock, conn, conns, logged, ufd, uroom, users, online_num>>
    BY <1>20 DEF GateForward, clientVars, tableVars
  <2> QED BY <2>3, <2>4 DEF LobbyInv, TableTypes
<1>21. ASSUME GateClose PROVE TableTypes'
  <2>1. Head(gmail).fd \in Fd
    BY <1>21, GateHead DEF GateClose, GateServes, LobbyInv, GateLetter, IsEvent
  <2> QED BY <1>21, <2>1 DEF GateClose, LobbyInv, TableTypes, clientVars, gateVars, tableVars
<1>22. ASSUME ExitMember PROVE TableTypes'
  <2>1. UNCHANGED <<owner, asked, sock, conn, fwd, conns, logged, ufd, users, online_num>>
    BY <1>22 DEF ExitMember, Exit, clientVars, gateVars, tableVars
  <2>2. uroom' \subseteq uroom
    BY <1>22 DEF ExitMember, Exit
  <2> QED BY <2>1, <2>2 DEF LobbyInv, TableTypes
<1>23. ASSUME NEW k \in Key, Kicked(k) PROVE TableTypes'
  <2>1. UNCHANGED <<owner, asked, sock, conn, fwd, uroom>>
    BY <1>23 DEF Kicked, clientVars, gateVars, tableVars
  <2>2. k[2] \in Fd /\ owner[k[2]] \in Uid /\ co[k].vic \in Fd \cup {Nil}
    BY KeyIs DEF LobbyInv, TableTypes, WorkTypes
  <2>3. CASE UNCHANGED <<conns, logged, ufd, users, online_num>>
    BY <2>1, <2>3 DEF LobbyInv, TableTypes
  <2>4. CASE \E users1 : /\ Forget(k, co[k].vic, users1)
                         /\ users1 \in {users, [users EXCEPT ![owner[co[k].vic]] = Nil]}
    <3>1. PICK users1 : /\ Forget(k, co[k].vic, users1)
                        /\ users1 \in {users, [users EXCEPT ![owner[co[k].vic]] = Nil]}
      BY <2>4
    <3>2. users1 \in [Uid -> Fd \cup {Nil}]
      BY <3>1 DEF LobbyInv, TableTypes
    <3> QED BY <2>1, <2>2, <3>1, <3>2, ForgetTypes
  <2> QED BY <1>23, <2>3, <2>4 DEF Kicked
<1>24. ASSUME NEW k \in Key, Reported(k) PROVE TableTypes'
  <2>1. UNCHANGED <<owner, asked, sock, conn, fwd, uroom>> /\ Forget(k, co[k].vic, users)
    BY <1>24 DEF Reported, clientVars, gateVars, tableVars
  <2>2. users \in [Uid -> Fd \cup {Nil}]
    BY DEF LobbyInv, TableTypes
  <2> QED BY <2>1, <2>2, ForgetTypes
<1> QED
  BY <1>2, <1>3, <1>4, <1>5, <1>6, <1>7, <1>8, <1>9, <1>10, <1>11, <1>12, <1>13, <1>14, <1>15,
     <1>16, <1>17, <1>18, <1>19, <1>20, <1>21, <1>22, <1>23, <1>24 DEF LobbyNext

(* What the section says of a coroutine of enter_room. *)
LEMMA EnterStates ==
    ASSUME LobbyInv, NEW f \in Fd
    PROVE  /\ co[<<"enter", f>>].pc \in Active \cup {"idle", "section"}
           /\ co[<<"enter", f>>].pc \in Active =>
                 /\ csq # << >> /\ Head(csq) = f
                 /\ \A g \in Fd \ {f} : co[<<"enter", g>>].pc \notin Active
<1>1. csq \in Seq(Fd) /\ Section
  BY DEF LobbyInv, WorkTypes
<1>2. ASSUME NEW g \in Fd, co[<<"enter", g>>].pc # "idle"
      PROVE  \E i \in DOMAIN csq : csq[i] = g
  BY <1>1, <1>2 DEF Section, Range
<1>3. ASSUME NEW g \in Fd, co[<<"enter", g>>].pc \in Active PROVE csq # << >> /\ Head(csq) = g
  <2>1. PICK i \in DOMAIN csq : csq[i] = g
    BY <1>2, <1>3 DEF Active
  <2>2. i = 1
    BY <1>1, <1>3, <2>1 DEF Section, Active
  <2> QED BY <1>1, <2>1, <2>2
<1>4. co[<<"enter", f>>].pc \in Active \cup {"idle", "section"}
  BY <1>1, <1>2 DEF Section
<1> QED BY <1>3, <1>4

(* The section passes on. *)
LEMMA ReleaseTypes ==
    ASSUME LobbyInv, csq # << >>, NEW k \in Key, Release(Rest(k))
    PROVE  /\ csq' = Tail(csq) /\ csq' \in Seq(Fd)
           /\ co' \in [Key -> [pc : CoPc, vic : Fd \cup {Nil}]]
<1>1. csq \in Seq(Fd) /\ co \in [Key -> [pc : CoPc, vic : Fd \cup {Nil}]]
  BY DEF LobbyInv, WorkTypes
<1>2. csq' = Tail(csq) /\ Tail(csq) \in Seq(Fd)
  BY <1>1 DEF Release
<1>3. Idle \in [pc : CoPc, vic : Fd \cup {Nil}]
  BY DEF Idle, CoPc
<1>4. Rest(k) \in [Key -> [pc : CoPc, vic : Fd \cup {Nil}]]
  BY <1>1, <1>3 DEF Rest
<1>5. CASE Tail(csq) = << >>
  BY <1>2, <1>4, <1>5 DEF Release
<1>6. CASE Tail(csq) # << >>
  <2>1. Head(Tail(csq)) \in Fd /\ <<"enter", Head(Tail(csq))>> \in Key
    BY <1>2, <1>6 DEF Key
  <2>2. co' = [Rest(k) EXCEPT ![<<"enter", Head(Tail(csq))>>].pc = "info"]
    BY <1>2, <1>6 DEF Release
  <2>3. "info" \in CoPc
    BY DEF CoPc
  <2> HIDE DEF Rest
  <2> QED BY <1>2, <1>4, <2>1, <2>2, <2>3
<1> QED BY <1>5, <1>6

(* A coroutine goes to another place. *)
LEMMA CoTypes ==
    ASSUME LobbyInv, NEW k \in Key, NEW pc \in CoPc, NEW vic \in Fd \cup {Nil},
           co' = At(k, pc, vic) \/ co' = Rest(k) \/ co' = co
    PROVE  co' \in [Key -> [pc : CoPc, vic : Fd \cup {Nil}]]
<1>1. co \in [Key -> [pc : CoPc, vic : Fd \cup {Nil}]]
  BY DEF LobbyInv, WorkTypes
<1>2. Idle \in [pc : CoPc, vic : Fd \cup {Nil}] /\ [pc |-> pc, vic |-> vic] \in [pc : CoPc, vic : Fd \cup {Nil}]
  BY DEF Idle, CoPc
<1> QED BY <1>1, <1>2 DEF At, Rest

(* An agent's coroutine goes to another place. *)
LEMMA WorkerTypes ==
    ASSUME LobbyInv, NEW k \in Key, NEW at \in Agent \cup {Nil}, NEW pc \in AgPc, NEW fd \in Fd \cup {Nil},
           Works(k, at, pc, fd)
    PROVE  ag' \in [Key -> [pc : AgPc, at : Agent \cup {Nil}, fd : Fd \cup {Nil}]]
<1>1. ag \in [Key -> [pc : AgPc, at : Agent \cup {Nil}, fd : Fd \cup {Nil}]]
  BY DEF LobbyInv, WorkTypes
<1>2. [pc |-> pc, at |-> at, fd |-> fd] \in [pc : AgPc, at : Agent \cup {Nil}, fd : Fd \cup {Nil}]
  OBVIOUS
<1> QED BY <1>1, <1>2 DEF Works

(* The coroutines keep their types. *)
LEMMA WorkKept ==
    ASSUME LobbyInv, LobbyNext
    PROVE  WorkTypes'
<1>1. UNCHANGED <<csq, co, alive, aconns, ag>> => WorkTypes'
  BY DEF LobbyInv, WorkTypes
<1>2. ASSUME NEW f \in Fd, Connect(f) \/ Hangup(f) \/ GateTimeout(f) PROVE WorkTypes'
  BY <1>2, <1>1 DEF Connect, Hangup, GateTimeout, agentVars
<1>3. ASSUME NEW f \in Fd, NEW what \in {"login", "enter", "quit"}, Request(f, what) PROVE
      WorkTypes'
  BY <1>3, <1>1 DEF Request, agentVars
<1>4. ASSUME GateOpen \/ GateAccept \/ GateKick \/ GateForward PROVE WorkTypes'
  BY <1>4, <1>1 DEF GateOpen, GateAccept, GateKick, GateForward, agentVars
<1>5. ASSUME GateData \/ GateClose \/ DogRefuses PROVE WorkTypes'
  BY <1>5, <1>1 DEF GateData, GateClose, DogRefuses, agentVars
<1>6. ASSUME NEW f \in Fd, SocketOpened(f) PROVE WorkTypes'
  <2>1. <<"open", f>> \in Key
    BY KeyOf
  <2>2. "idle" \in CoPc /\ Nil \in Fd \cup {Nil}
    BY DEF CoPc
  <2>3. co' = At(<<"open", f>>, "idle", Nil) \/ co' = Rest(<<"open", f>>) \/ co' = co
    BY <1>6 DEF SocketOpened
  <2>4. UNCHANGED <<csq, alive, aconns, ag>>
    BY <1>6 DEF SocketOpened, agentVars
  <2> QED BY <2>1, <2>2, <2>3, <2>4, CoTypes DEF LobbyInv, WorkTypes
<1>7. ASSUME NEW f \in Fd, LoginFails(f) PROVE WorkTypes'
  <2>1. <<"login", f>> \in Key
    BY KeyOf
  <2>2. "idle" \in CoPc /\ Nil \in Fd \cup {Nil}
    BY DEF CoPc
  <2>3. co' = At(<<"login", f>>, "idle", Nil) \/ co' = Rest(<<"login", f>>) \/ co' = co
    BY <1>7 DEF LoginFails
  <2>4. UNCHANGED <<csq, alive, aconns, ag>>
    BY <1>7 DEF LoginFails, agentVars
  <2> QED BY <2>1, <2>2, <2>3, <2>4, CoTypes DEF LobbyInv, WorkTypes
<1>8. ASSUME NEW f \in Fd, LoginAccepted(f) PROVE WorkTypes'
  <2>1. <<"login", f>> \in Key /\ <<"login", f>>[1] = "login"
    BY KeyOf
  <2>2. users[owner[f]] \in Fd \cup {Nil} /\ "kick" \in CoPc
    BY DEF LobbyInv, TableTypes, CoPc
  <2>3. co' = At(<<"login", f>>, "kick", users[owner[f]]) \/ co' = Rest(<<"login", f>>)
    BY <1>8, <2>1 DEF LoginAccepted, Returned
  <2>4. UNCHANGED <<csq, alive, aconns, ag>>
    BY <1>8 DEF LoginAccepted, agentVars
  <2> QED BY <2>1, <2>2, <2>3, <2>4, CoTypes DEF LobbyInv, WorkTypes
<1>9. ASSUME NEW f \in Fd, EnterFails(f) PROVE WorkTypes'
  <2>1. <<"enter", f>> \in Key
    BY KeyOf
  <2>2. csq # << >>
    BY <1>9, EnterStates DEF EnterFails, Resumes, Active
  <2>3. csq' \in Seq(Fd) /\ co' \in [Key -> [pc : CoPc, vic : Fd \cup {Nil}]]
    BY <1>9, <2>1, <2>2, ReleaseTypes DEF EnterFails
  <2>4. UNCHANGED <<alive, aconns, ag>>
    BY <1>9 DEF EnterFails, agentVars
  <2> QED BY <2>3, <2>4 DEF LobbyInv, WorkTypes
<1>10. ASSUME NEW f \in Fd, EnterAgent(f) PROVE WorkTypes'
  <2>1. <<"enter", f>> \in Key
    BY KeyOf
  <2>2. PICK pc \in {"launch", "cache"} : co' = At(<<"enter", f>>, pc, Nil)
    BY <1>10 DEF EnterAgent
  <2>3. UNCHANGED <<csq, alive, aconns, ag>> /\ pc \in CoPc
    BY <1>10 DEF EnterAgent, CoPc, agentVars
  <2> QED BY <2>1, <2>2, <2>3, CoTypes DEF LobbyInv, WorkTypes
<1>11. ASSUME NEW f \in Fd, NEW a \in Agent, EnterLaunched(f, a) PROVE WorkTypes'
  <2>1. <<"enter", f>> \in Key /\ "cache" \in CoPc
    BY KeyOf DEF CoPc
  <2>2. co' = At(<<"enter", f>>, "cache", Nil) /\ alive' = alive \cup {a} /\ UNCHANGED <<csq,
        aconns, ag>>
    BY <1>11 DEF EnterLaunched, agentVars
  <2> QED BY <2>1, <2>2, CoTypes DEF LobbyInv, WorkTypes
<1>12. ASSUME NEW f \in Fd, EnterNotLaunched(f) PROVE WorkTypes'
  <2>1. <<"enter", f>> \in Key
    BY KeyOf
  <2>2. PICK pc \in {"kick", "cache"}, vic \in Fd \cup {Nil} : co' = At(<<"enter", f>>, pc, vic)
    BY <1>12 DEF EnterNotLaunched
  <2>3. UNCHANGED <<csq, alive, aconns, ag>> /\ pc \in CoPc
    BY <1>12 DEF EnterNotLaunched, CoPc, agentVars
  <2> QED BY <2>1, <2>2, <2>3, CoTypes DEF LobbyInv, WorkTypes
<1>13. ASSUME NEW f \in Fd, EnterMember(f) PROVE WorkTypes'
  <2>1. <<"enter", f>> \in Key /\ "start" \in CoPc
    BY KeyOf DEF CoPc
  <2>2. csq # << >>
    BY <1>13, EnterStates DEF EnterMember, Active
  <2>3. UNCHANGED <<alive, aconns, ag>>
    BY <1>13 DEF EnterMember, agentVars
  <2>4. CASE agent = Nil
    <3>1. Release(Rest(<<"enter", f>>))
      BY <1>13, <2>4 DEF EnterMember
    <3> QED BY <2>1, <2>2, <2>3, <3>1, ReleaseTypes DEF LobbyInv, WorkTypes
  <2>5. CASE agent # Nil
    <3>1. co' = At(<<"enter", f>>, "start", Nil) /\ csq' = csq
      BY <1>13, <2>5 DEF EnterMember
    <3> QED BY <2>1, <2>3, <3>1, CoTypes DEF LobbyInv, WorkTypes
  <2> QED BY <2>4, <2>5
<1>14. ASSUME NEW f \in Fd, Entered(f) PROVE WorkTypes'
  <2>1. <<"enter", f>> \in Key
    BY KeyOf
  <2>2. csq # << >>
    BY <1>14, EnterStates DEF Entered, Resumes, Active
  <2>3. csq' \in Seq(Fd) /\ co' \in [Key -> [pc : CoPc, vic : Fd \cup {Nil}]]
    BY <1>14, <2>1, <2>2, ReleaseTypes DEF Entered
  <2>4. UNCHANGED <<alive, aconns, ag>>
    BY <1>14 DEF Entered, agentVars
  <2> QED BY <2>3, <2>4 DEF LobbyInv, WorkTypes
<1>15. ASSUME SocketOpen PROVE WorkTypes'
  <2> DEFINE f == Head(dmail).fd
  <2>1. f \in Fd
    BY <1>15, DogHead DEF SocketOpen, DogServes, LobbyInv, DogLetter, IsEvent
  <2>2. <<"open", f>> \in Key /\ "accept" \in CoPc /\ Nil \in Fd \cup {Nil}
    BY <2>1, KeyOf DEF CoPc
  <2>3. co' = At(<<"open", f>>, "accept", Nil) \/ co' = co
    BY <1>15 DEF SocketOpen
  <2>4. UNCHANGED <<csq, alive, aconns, ag>>
    BY <1>15 DEF SocketOpen, agentVars
  <2> HIDE DEF f
  <2> QED BY <2>2, <2>3, <2>4, CoTypes DEF LobbyInv, WorkTypes
<1>16. ASSUME SocketClose PROVE WorkTypes'
  <2> DEFINE f == Head(dmail).fd
  <2>1. f \in Fd
    BY <1>16, DogHead DEF SocketClose, DogServes, LobbyInv, DogLetter, IsEvent
  <2>2. <<"close", f>> \in Key /\ "kick" \in CoPc /\ f \in Fd \cup {Nil}
    BY <2>1, KeyOf DEF CoPc
  <2>3. co' = At(<<"close", f>>, "kick", f) \/ co' = co
    BY <1>16 DEF SocketClose
  <2>4. UNCHANGED <<csq, alive, aconns, ag>>
    BY <1>16 DEF SocketClose, agentVars
  <2> HIDE DEF f
  <2> QED BY <2>2, <2>3, <2>4, CoTypes DEF LobbyInv, WorkTypes
<1>17. ASSUME Login PROVE WorkTypes'
  <2> DEFINE f == Head(dmail).fd
  <2>1. f \in Fd
    BY <1>17, DogHead DEF Login, DogServes, LobbyInv, DogLetter, IsEvent
  <2>2. <<"login", f>> \in Key /\ "account" \in CoPc /\ Nil \in Fd \cup {Nil}
    BY <2>1, KeyOf DEF CoPc
  <2>3. co' = At(<<"login", f>>, "account", Nil) \/ co' = co
    BY <1>17 DEF Login
  <2>4. UNCHANGED <<csq, alive, aconns, ag>>
    BY <1>17 DEF Login, agentVars
  <2> HIDE DEF f
  <2> QED BY <2>2, <2>3, <2>4, CoTypes DEF LobbyInv, WorkTypes
<1>18. ASSUME EnterRoom PROVE WorkTypes'
  <2> DEFINE f == Head(dmail).fd
  <2>1. f \in Fd
    BY <1>18, DogHead DEF EnterRoom, DogServes, LobbyInv, DogLetter, IsEvent
  <2>2. <<"enter", f>> \in Key
    BY <2>1, KeyOf
  <2>3. \E pc \in {"info", "section"} : co' = At(<<"enter", f>>, pc, Nil) \/ co' = co
    BY <1>18 DEF EnterRoom
  <2>4. csq' = csq \/ csq' = Append(csq, f)
    BY <1>18 DEF EnterRoom
  <2>5. UNCHANGED <<alive, aconns, ag>>
    BY <1>18 DEF EnterRoom, agentVars
  <2> HIDE DEF f
  <2>6. PICK pc \in {"info", "section"} : co' = At(<<"enter", f>>, pc, Nil) \/ co' = co
    BY <2>3
  <2>7. co' \in [Key -> [pc : CoPc, vic : Fd \cup {Nil}]]
    <3>1. pc \in CoPc
      BY DEF CoPc
    <3> QED BY <2>2, <2>6, <3>1, CoTypes
  <2>8. csq' \in Seq(Fd)
    BY <2>1, <2>4 DEF LobbyInv, WorkTypes
  <2> QED BY <2>5, <2>7, <2>8 DEF LobbyInv, WorkTypes
<1>19. ASSUME ExitMember PROVE WorkTypes'
  <2>1. UNCHANGED <<csq, co, aconns>>
    BY <1>19 DEF ExitMember, Exit, agentVars
  <2>2. alive' \subseteq alive
    BY <1>19 DEF ExitMember, Exit, Kill
  <2>3. ag' = ag \/ ag' = [k \in Key |-> IF ag[k].at = agent THEN [ag[k] EXCEPT !.pc = "dead"]
        ELSE ag[k]]
    BY <1>19 DEF ExitMember, Exit, Kill
  <2>4. ag' \in [Key -> [pc : AgPc, at : Agent \cup {Nil}, fd : Fd \cup {Nil}]]
    <3>1. ag \in [Key -> [pc : AgPc, at : Agent \cup {Nil}, fd : Fd \cup {Nil}]] /\ "dead" \in AgPc
      BY DEF LobbyInv, WorkTypes, AgPc
    <3> QED BY <2>3, <3>1
  <2> QED BY <2>1, <2>2, <2>4 DEF LobbyInv, WorkTypes
<1>20. ASSUME NEW k \in Key, Kicked(k) PROVE WorkTypes'
  <2>1. UNCHANGED <<csq, alive, aconns, ag>>
    BY <1>20 DEF Kicked, agentVars
  <2>2. co[k].vic \in Fd \cup {Nil} /\ Nil \in Fd \cup {Nil}
    BY DEF LobbyInv, WorkTypes
  <2>3. co' = At(k, "disconnect", co[k].vic) \/ co' = At(k, "cache", Nil) \/ co' = Rest(k)
    BY <1>20 DEF Kicked, Forget, Returned
  <2>4. "disconnect" \in CoPc /\ "cache" \in CoPc
    BY DEF CoPc
  <2>5. co' \in [Key -> [pc : CoPc, vic : Fd \cup {Nil}]]
    BY <2>2, <2>3, <2>4, CoTypes
  <2> QED BY <2>1, <2>5 DEF LobbyInv, WorkTypes
<1>21. ASSUME NEW k \in Key, Reported(k) PROVE WorkTypes'
  <2>1. UNCHANGED <<csq, alive, aconns, ag>>
    BY <1>21 DEF Reported, agentVars
  <2>2. co' = At(k, "cache", Nil) \/ co' = Rest(k)
    BY <1>21 DEF Reported, Forget, Returned
  <2>3. "cache" \in CoPc /\ Nil \in Fd \cup {Nil}
    BY DEF CoPc
  <2> QED BY <2>1, <2>2, <2>3, CoTypes DEF LobbyInv, WorkTypes
<1>22. ASSUME NEW k \in Key, CloseRaises(k) PROVE WorkTypes'
  <2>1. k[1] # "enter"
    BY <1>22, KeyIs, EnterStates DEF CloseRaises, Resumes, Active
  <2>2. co' = Rest(k) /\ UNCHANGED <<csq, alive, aconns, ag>>
    BY <1>22, <2>1 DEF CloseRaises, agentVars
  <2>3. "idle" \in CoPc /\ Nil \in Fd \cup {Nil}
    BY DEF CoPc
  <2> QED BY <2>2, <2>3, CoTypes DEF LobbyInv, WorkTypes
<1>23. ASSUME NEW k \in Key, AgentPeople(k) PROVE WorkTypes'
  <2>1. UNCHANGED <<csq, co, alive, aconns>>
    BY <1>23 DEF AgentPeople, agentVars
  <2>2. PICK at \in {Nil, ag[k].at}, pc \in {"idle", "leave"} : Works(k, at, pc, Nil)
    BY <1>23 DEF AgentPeople
  <2>3. at \in Agent \cup {Nil} /\ pc \in AgPc /\ Nil \in Fd \cup {Nil}
    BY DEF LobbyInv, WorkTypes, AgPc
  <2> QED BY <2>1, <2>2, <2>3, WorkerTypes DEF LobbyInv, WorkTypes
<1>24. ASSUME NEW a \in Agent, AgentStart(a) PROVE WorkTypes'
  <2> DEFINE m == Head(amail[a])
  <2>1. m \in Mail /\ AgentLetter(m)
    BY <1>24, AgentHead DEF AgentStart, AgentServes, LobbyInv
  <2>2. m.key \in Key /\ m.fd \in Fd \cup {Nil}
    BY <1>24, <2>1 DEF AgentStart, AgentServes, AgentLetter, IsEvent, Mail, Key
  <2>3. ag' = ag \/ Works(m.key, a, "forward", m.fd)
    BY <1>24 DEF AgentStart
  <2>4. UNCHANGED <<csq, co, alive, aconns>>
    BY <1>24 DEF AgentStart, agentVars
  <2>5. a \in Agent \cup {Nil} /\ "forward" \in AgPc
    BY DEF AgPc
  <2> HIDE DEF m
  <2> QED BY <2>2, <2>3, <2>4, <2>5, WorkerTypes DEF LobbyInv, WorkTypes
<1>25. ASSUME NEW a \in Agent, AgentLogin(a) PROVE WorkTypes'
  <2> DEFINE m == Head(amail[a])
  <2>1. m \in Mail /\ AgentLetter(m)
    BY <1>25, AgentHead DEF AgentLogin, AgentServes, LobbyInv
  <2>2. m.key \in Key
    BY <1>25, <2>1 DEF AgentLogin, AgentServes, AgentLetter, IsEvent
  <2>3. Works(m.key, a, "people", Nil) \/ Works(m.key, Nil, "idle", Nil)
    BY <1>25 DEF AgentLogin
  <2>4. UNCHANGED <<csq, co, alive>>
    BY <1>25 DEF AgentLogin, agentVars
  <2>5. aconns' \in [Agent -> SUBSET Fd]
    <3>1. aconns' = aconns \/ (aconns' = [aconns EXCEPT ![a] = @ \cup {ag[m.key].fd}] /\
          ag[m.key].pc = "forward")
      BY <1>25 DEF AgentLogin
    <3>2. ag[m.key].pc = "forward" => ag[m.key].fd \in Fd
      BY <2>2 DEF LobbyInv, Jobs
    <3> QED BY <3>1, <3>2 DEF LobbyInv, WorkTypes
  <2>6. a \in Agent \cup {Nil} /\ {"people", "idle"} \subseteq AgPc /\ Nil \in Fd \cup {Nil} /\
        Nil \in Agent \cup {Nil}
    BY DEF AgPc
  <2> HIDE DEF m
  <2>7. ag' \in [Key -> [pc : AgPc, at : Agent \cup {Nil}, fd : Fd \cup {Nil}]]
    BY <2>2, <2>3, <2>6, WorkerTypes
  <2> QED BY <2>4, <2>5, <2>7 DEF LobbyInv, WorkTypes
<1>26. ASSUME NEW a \in Agent, AgentDisconnect(a) PROVE WorkTypes'
  <2> DEFINE m == Head(amail[a])
  <2>1. m \in Mail /\ AgentLetter(m)
    BY <1>26, AgentHead DEF AgentDisconnect, AgentServes, LobbyInv
  <2>2. m.key \in Key /\ m.fd \in Fd
    BY <1>26, <2>1 DEF AgentDisconnect, AgentServes, AgentLetter, IsEvent, Key
  <2>3. PICK fd \in {m.fd, Nil} : Works(m.key, a, "people", fd)
    BY <1>26 DEF AgentDisconnect
  <2>4. UNCHANGED <<csq, co, alive>> /\ aconns' = [aconns EXCEPT ![a] = @ \ {m.fd}]
    BY <1>26 DEF AgentDisconnect, agentVars
  <2>5. a \in Agent \cup {Nil} /\ "people" \in AgPc /\ fd \in Fd \cup {Nil}
    BY <2>2 DEF AgPc
  <2> HIDE DEF m
  <2>6. ag' \in [Key -> [pc : AgPc, at : Agent \cup {Nil}, fd : Fd \cup {Nil}]]
    BY <2>2, <2>3, <2>5, WorkerTypes
  <2> QED BY <2>4, <2>6 DEF LobbyInv, WorkTypes
<1>27. ASSUME NEW a \in Agent, AgentQuit(a) PROVE WorkTypes'
  <2> DEFINE m == Head(amail[a])
  <2>1. m \in Mail /\ AgentLetter(m)
    BY <1>27, AgentHead DEF AgentQuit, AgentServes, LobbyInv
  <2>2. <<"quit", m.fd>> \in Key
    BY <1>27, <2>1, KeyOf DEF AgentQuit, AgentServes, AgentLetter, IsEvent
  <2>3. ag' = ag \/ Works(<<"quit", m.fd>>, a, "leave", Nil)
    BY <1>27 DEF AgentQuit
  <2>4. UNCHANGED <<csq, co, alive>> /\ (aconns' = aconns \/ aconns' = [aconns EXCEPT ![a] = @ \
        {m.fd}])
    BY <1>27 DEF AgentQuit, agentVars
  <2>5. a \in Agent \cup {Nil} /\ "leave" \in AgPc /\ Nil \in Fd \cup {Nil}
    BY DEF AgPc
  <2> HIDE DEF m
  <2>6. ag' \in [Key -> [pc : AgPc, at : Agent \cup {Nil}, fd : Fd \cup {Nil}]]
    BY <2>2, <2>3, <2>5, WorkerTypes DEF LobbyInv, WorkTypes
  <2> QED BY <2>4, <2>6 DEF LobbyInv, WorkTypes
<1>28. ASSUME NEW a \in Agent, AgentLeft(a) PROVE WorkTypes'
  <2> DEFINE m == Head(amail[a])
  <2>1. m \in Mail /\ AgentLetter(m)
    BY <1>28, AgentHead DEF AgentLeft, AgentServes, LobbyInv
  <2>2. m.key \in Key
    BY <1>28, <2>1 DEF AgentLeft, AgentServes, AgentLetter, IsEvent
  <2>3. Works(m.key, Nil, "idle", Nil) /\ UNCHANGED <<csq, co, alive, aconns>>
    BY <1>28 DEF AgentLeft, agentVars
  <2>4. "idle" \in AgPc /\ Nil \in Fd \cup {Nil} /\ Nil \in Agent \cup {Nil}
    BY DEF AgPc
  <2> HIDE DEF m
  <2> QED BY <2>2, <2>3, <2>4, WorkerTypes DEF LobbyInv, WorkTypes
<1> QED
  BY <1>2, <1>3, <1>4, <1>5, <1>6, <1>7, <1>8, <1>9, <1>10, <1>11, <1>12, <1>13, <1>14, <1>15,
     <1>16, <1>17, <1>18, <1>19, <1>20, <1>21, <1>22, <1>23, <1>24, <1>25, <1>26, <1>27, <1>28 DEF
     LobbyNext

-----------------------------------------------------------------------------
(* The mailboxes.                                                          *)

(* A request posted to the gate. *)
LEMMA AskPosts ==
    ASSUME LobbyInv, NEW op \in Ops, NEW f \in Fd, NEW k \in Key, Ask(op, f, k),
           \/ op = "accept" /\ k = <<"open", f>>
           \/ op = "kick" /\ k[1] \in {"close", "login", "enter"}
           \/ op = "forward" /\ k[1] = "enter"
    PROVE  GateMail'
<1> DEFINE m == Msg(op, f, k, TRUE)
<1>1. f \in Fd \cup {Nil} /\ k \in Key \cup {Nil} /\ TRUE \in BOOLEAN
  OBVIOUS
<1>2. m \in Mail /\ m.op = op /\ m.fd = f /\ m.key = k
  BY <1>1 DEF Msg, Mail
<1>3. gmail' = Append(gmail, m)
  BY DEF Ask
<1> HIDE DEF m
<1>4. GateLetter(m)
  BY <1>2, KeyIs DEF GateLetter
<1> QED BY <1>2, <1>3, <1>4, GatePosted DEF LobbyInv

(* The gate's mailbox. *)
LEMMA GateMailKept ==
    ASSUME LobbyInv, LobbyNext
    PROVE  GateMail'
<1>1. UNCHANGED <<gmail>> => GateMail'
  BY DEF LobbyInv, GateMail
<1>2. ASSUME NEW f \in Fd, GateTimeout(f) \/ SocketOpened(f) \/ LoginFails(f) \/ EnterFails(f)
      PROVE GateMail'
  BY <1>2, <1>1 DEF GateTimeout, SocketOpened, LoginFails, EnterFails
<1>3. ASSUME NEW f \in Fd, EnterAgent(f) \/ EnterMember(f) \/ Entered(f) PROVE GateMail'
  BY <1>3, <1>1 DEF EnterAgent, EnterMember, Entered
<1>4. ASSUME NEW f \in Fd, NEW a \in Agent, EnterLaunched(f, a) PROVE GateMail'
  BY <1>4, <1>1 DEF EnterLaunched
<1>5. ASSUME Login \/ EnterRoom \/ ExitMember \/ DogRefuses PROVE GateMail'
  BY <1>5, <1>1 DEF Login, EnterRoom, ExitMember, DogRefuses, Exit
<1>6. ASSUME NEW k \in Key, Kicked(k) \/ Reported(k) \/ CloseRaises(k) \/ AgentPeople(k) PROVE
      GateMail'
  BY <1>6, <1>1 DEF Kicked, Reported, CloseRaises, AgentPeople
<1>7. ASSUME NEW a \in Agent, AgentLogin(a) \/ AgentDisconnect(a) \/ AgentQuit(a) \/ AgentLeft(a)
      PROVE GateMail'
  BY <1>7, <1>1 DEF AgentLogin, AgentDisconnect, AgentQuit, AgentLeft
<1>8. ASSUME NEW f \in Fd, Connect(f) PROVE GateMail'
  <2>1. gmail' = Append(gmail, Event("open", f))
    BY <1>8 DEF Connect
  <2>2. Event("open", f) \in Mail /\ GateLetter(Event("open", f))
    BY EventIs DEF GateLetter
  <2> QED BY <2>1, <2>2, GatePosted DEF LobbyInv
<1>9. ASSUME NEW f \in Fd, Hangup(f) PROVE GateMail'
  <2>1. gmail' = Append(gmail, Event("close", f))
    BY <1>9 DEF Hangup
  <2>2. Event("close", f) \in Mail /\ GateLetter(Event("close", f))
    BY EventIs DEF GateLetter
  <2> QED BY <2>1, <2>2, GatePosted DEF LobbyInv
<1>10. ASSUME NEW f \in Fd, NEW what \in {"login", "enter", "quit"}, Request(f, what) PROVE
      GateMail'
  <2>1. gmail' = Append(gmail, Event(what, f))
    BY <1>10 DEF Request
  <2>2. Event(what, f) \in Mail /\ GateLetter(Event(what, f))
    BY EventIs DEF GateLetter
  <2> QED BY <2>1, <2>2, GatePosted DEF LobbyInv
<1>11. ASSUME NEW f \in Fd, LoginAccepted(f) PROVE GateMail'
  <2>1. <<"login", f>> \in Key /\ <<"login", f>>[1] = "login" /\ "kick" \in Ops
    BY KeyOf DEF Ops
  <2>2. gmail' = gmail \/ (users[owner[f]] \in Fd /\ Ask("kick", users[owner[f]], <<"login", f>>))
    BY <1>11 DEF LoginAccepted, LobbyInv, TableTypes
  <2> QED BY <1>1, <2>1, <2>2, AskPosts DEF LobbyInv, GateMail
<1>12. ASSUME NEW f \in Fd, EnterNotLaunched(f) PROVE GateMail'
  <2>1. <<"enter", f>> \in Key /\ <<"enter", f>>[1] = "enter" /\ "kick" \in Ops
    BY KeyOf DEF Ops
  <2>2. gmail' = gmail \/ Ask("kick", f, <<"enter", f>>)
    BY <1>12 DEF EnterNotLaunched
  <2> QED BY <2>1, <2>2, AskPosts DEF LobbyInv, GateMail
<1>13. ASSUME GateOpen PROVE GateMail'
  BY <1>13, GateServed DEF GateOpen, GateServes, LobbyInv
<1>14. ASSUME GateAccept PROVE GateMail'
  BY <1>14, GateServed DEF GateAccept, GateServes, LobbyInv
<1>15. ASSUME GateKick PROVE GateMail'
  BY <1>15, GateServed DEF GateKick, GateServes, LobbyInv
<1>16. ASSUME GateForward PROVE GateMail'
  BY <1>16, GateServed DEF GateForward, GateServes, LobbyInv
<1>17. ASSUME GateData PROVE GateMail'
  BY <1>17, GateServed DEF GateData, GateServes, LobbyInv
<1>18. ASSUME GateClose PROVE GateMail'
  BY <1>18, GateServed DEF GateClose, GateServes, LobbyInv
<1>19. ASSUME SocketOpen PROVE GateMail'
  <2> DEFINE f == Head(dmail).fd
  <2>1. f \in Fd
    BY <1>19, DogHead DEF SocketOpen, DogServes, LobbyInv, DogLetter, IsEvent
  <2>2. <<"open", f>> \in Key /\ "accept" \in Ops
    BY <2>1, KeyOf DEF Ops
  <2>3. Ask("accept", f, <<"open", f>>)
    BY <1>19 DEF SocketOpen
  <2> HIDE DEF f
  <2> QED BY <2>1, <2>2, <2>3, AskPosts
<1>20. ASSUME SocketClose PROVE GateMail'
  <2> DEFINE f == Head(dmail).fd
  <2>1. f \in Fd
    BY <1>20, DogHead DEF SocketClose, DogServes, LobbyInv, DogLetter, IsEvent
  <2>2. <<"close", f>> \in Key /\ <<"close", f>>[1] = "close" /\ "kick" \in Ops
    BY <2>1, KeyOf DEF Ops
  <2>3. gmail' = gmail \/ Ask("kick", f, <<"close", f>>)
    BY <1>20 DEF SocketClose
  <2> HIDE DEF f
  <2> QED BY <2>1, <2>2, <2>3, AskPosts DEF LobbyInv, GateMail
<1>21. ASSUME NEW a \in Agent, AgentStart(a) PROVE GateMail'
  <2> DEFINE m == Head(amail[a])
  <2>1. m \in Mail /\ AgentLetter(m)
    BY <1>21, AgentHead DEF AgentStart, AgentServes, LobbyInv
  <2>2. m.key \in Key /\ m.key[1] = "enter" /\ m.fd \in Fd \cup {Nil} /\ "forward" \in Ops
    BY <1>21, <2>1 DEF AgentStart, AgentServes, AgentLetter, IsEvent, Mail, Key, Ops
  <2>3. gmail' = gmail \/ (m.fd # Nil /\ Ask("forward", m.fd, m.key))
    BY <1>21 DEF AgentStart
  <2> HIDE DEF m
  <2> QED BY <2>2, <2>3, AskPosts DEF LobbyInv, GateMail
<1> QED
  BY <1>2, <1>3, <1>4, <1>5, <1>6, <1>7, <1>8, <1>9, <1>10, <1>11, <1>12, <1>13, <1>14, <1>15,
     <1>16, <1>17, <1>18, <1>19, <1>20, <1>21 DEF LobbyNext

(* An answer posted to the watchdog. *)
LEMMA AnswerPosts ==
    ASSUME LobbyInv, NEW k \in Key, NEW ok \in BOOLEAN, dmail' = Append(dmail, Answer(k, ok))
    PROVE  DogMail'
<1>1. Answer(k, ok) \in Mail /\ DogLetter(Answer(k, ok))
  BY AnswerIs DEF DogLetter
<1> QED BY <1>1, DogPosted DEF LobbyInv

(* A leave posted to the watchdog. *)
LEMMA LeavePosts ==
    ASSUME LobbyInv, NEW k \in Key, NEW f \in Fd, dmail' = Append(dmail, Msg("leave", f, k, TRUE))
    PROVE  DogMail'
<1> DEFINE m == Msg("leave", f, k, TRUE)
<1>1. "leave" \in Ops /\ f \in Fd \cup {Nil} /\ k \in Key \cup {Nil} /\ TRUE \in BOOLEAN
  BY DEF Ops
<1>2. m \in Mail /\ m.op = "leave" /\ m.fd = f /\ m.key = k
  BY <1>1 DEF Msg, Mail
<1> HIDE DEF m
<1>3. DogLetter(m)
  BY <1>2 DEF DogLetter
<1> QED BY <1>2, <1>3, DogPosted DEF LobbyInv, m

(* What the kill of an agent adds to the watchdog's mailbox d: an error for *)
(* each start and disconnect that the agent had not served.                *)
LEMMA KillAnswers ==
    ASSUME LobbyInv, NEW a \in Agent, NEW d \in Seq(Mail), Kill(a, d)
    PROVE  \E r \in Seq(Mail) :
              /\ dmail' = d \o r
              /\ \A m \in Range(r) : \E l \in Range(amail[a]) :
                    /\ l.op \in {"start", "disconnect"} /\ l.key \in Key /\ l.key[1] # "open"
                    /\ m = Answer(l.key, FALSE)
<1> DEFINE pending == {i \in DOMAIN amail[a] : amail[a][i].op \in {"start", "disconnect"}}
<1>1. PICK q \in [1..Cardinality(pending) -> pending] :
            dmail' = d \o [i \in DOMAIN q |-> Answer(amail[a][q[i]].key, FALSE)]
  BY DEF Kill
<1> DEFINE r == [i \in DOMAIN q |-> Answer(amail[a][q[i]].key, FALSE)]
           n == Cardinality(pending)
<1>2. n \in Nat
  <2>1. amail[a] \in Seq(Mail)
    BY DEF LobbyInv, AgentMail
  <2>2. Len(amail[a]) \in Nat /\ pending \subseteq 1..Len(amail[a])
    BY <2>1
  <2>3. IsFiniteSet(1..Len(amail[a]))
    BY <2>2, FS_Interval
  <2> HIDE DEF pending
  <2>4. IsFiniteSet(pending)
    BY <2>2, <2>3, FS_Subset
  <2> QED BY <2>4, FS_CardinalityType
<1>3. ASSUME NEW i \in pending
      PROVE  /\ amail[a][i] \in Range(amail[a]) /\ amail[a][i].op \in {"start", "disconnect"}
             /\ amail[a][i].key \in Key /\ amail[a][i].key[1] # "open"
  <2>1. amail[a][i] \in Range(amail[a]) /\ amail[a][i].op \in {"start", "disconnect"}
    BY DEF Range
  <2>2. AgentLetter(amail[a][i])
    BY <2>1 DEF LobbyInv, AgentMail
  <2> QED BY <2>1, <2>2 DEF AgentLetter, IsEvent, Key
<1>4. \A i \in 1..n : q[i] \in pending
  OBVIOUS
<1>5. DOMAIN r = 1..n /\ \A i \in 1..n : r[i] = Answer(amail[a][q[i]].key, FALSE) /\ r[i] \in Mail
  <2>1. DOMAIN q = 1..n
    OBVIOUS
  <2>2. ASSUME NEW i \in 1..n PROVE Answer(amail[a][q[i]].key, FALSE) \in Mail
    <3>1. amail[a][q[i]].key \in Key
      BY <1>3, <1>4, Zenon
    <3> QED BY <3>1, AnswerIs
  <2> QED BY <2>1, <2>2, Zenon
<1>6. r \in Seq(Mail)
  <2>1. r = [i \in 1..n |-> r[i]]
    BY <1>5
  <2>2. \A i \in 1..n : r[i] \in Mail
    BY <1>5, Zenon
  <2> HIDE DEF r, n
  <2> QED BY <1>2, <2>1, <2>2
<1>7. \A m \in Range(r) : \E l \in Range(amail[a]) :
                    /\ l.op \in {"start", "disconnect"} /\ l.key \in Key /\ l.key[1] # "open"
                    /\ m = Answer(l.key, FALSE)
  <2> SUFFICES ASSUME NEW i \in 1..n
               PROVE  \E l \in Range(amail[a]) :
                    /\ l.op \in {"start", "disconnect"} /\ l.key \in Key /\ l.key[1] # "open"
                    /\ r[i] = Answer(l.key, FALSE)
    <3>1. Range(r) = {r[i] : i \in 1..n}
      BY <1>5 DEF Range
    <3> HIDE DEF r, n
    <3> QED BY <3>1, Zenon
  <2>1. q[i] \in pending /\ r[i] = Answer(amail[a][q[i]].key, FALSE)
    BY <1>4, <1>5, Zenon
  <2> QED BY <1>3, <2>1, Zenon
<1>8. dmail' = d \o r
  BY <1>1
<1> QED BY <1>6, <1>7, <1>8, Zenon

(* The watchdog's mailbox. *)
LEMMA DogMailKept ==
    ASSUME LobbyInv, LobbyNext
    PROVE  DogMail'
<1>1. UNCHANGED <<dmail>> => DogMail'
  BY DEF LobbyInv, DogMail
<1>2. ASSUME NEW f \in Fd, Connect(f) \/ Hangup(f) \/ GateTimeout(f) \/ LoginFails(f) PROVE DogMail'
  BY <1>2, <1>1 DEF Connect, Hangup, GateTimeout, LoginFails
<1>3. ASSUME NEW f \in Fd, LoginAccepted(f) \/ EnterFails(f) \/ EnterAgent(f) \/
      EnterNotLaunched(f) PROVE DogMail'
  BY <1>3, <1>1 DEF LoginAccepted, EnterFails, EnterAgent, EnterNotLaunched
<1>4. ASSUME NEW f \in Fd, EnterMember(f) PROVE DogMail'
  BY <1>4, <1>1 DEF EnterMember
<1>5. ASSUME NEW f \in Fd, NEW what \in {"login", "enter", "quit"}, Request(f, what) PROVE DogMail'
  BY <1>5, <1>1 DEF Request
<1>6. ASSUME NEW f \in Fd, NEW a \in Agent, EnterLaunched(f, a) PROVE DogMail'
  BY <1>6, <1>1 DEF EnterLaunched
<1>7. ASSUME GateForward PROVE DogMail'
  BY <1>7, <1>1 DEF GateForward
<1>8. ASSUME NEW a \in Agent, AgentDisconnect(a) PROVE DogMail'
  BY <1>8, <1>1 DEF AgentDisconnect
<1>9. ASSUME NEW f \in Fd, SocketOpened(f) PROVE DogMail'
  BY <1>9, DogServed DEF SocketOpened, Resumes, DogServes, LobbyInv
<1>10. ASSUME NEW f \in Fd, Entered(f) PROVE DogMail'
  BY <1>10, DogServed DEF Entered, Resumes, DogServes, LobbyInv
<1>11. ASSUME GateOpen PROVE DogMail'
  <2> DEFINE f == Head(gmail).fd
  <2>1. f \in Fd
    BY <1>11, GateHead DEF GateOpen, GateServes, LobbyInv, GateLetter, IsEvent
  <2>2. dmail' = Append(dmail, Event("open", f))
    BY <1>11 DEF GateOpen
  <2> HIDE DEF f
  <2>3. Event("open", f) \in Mail /\ DogLetter(Event("open", f))
    BY <2>1, EventIs DEF DogLetter
  <2> QED BY <2>2, <2>3, DogPosted DEF LobbyInv
<1>12. ASSUME GateAccept PROVE DogMail'
  <2> DEFINE m == Head(gmail)
             ok == conn[m.fd] # "none"
  <2>1. m.key \in Key
    <3>1. m.fd \in Fd /\ m.key = <<"open", m.fd>>
      BY <1>12, GateHead DEF GateAccept, GateServes, LobbyInv, GateLetter, IsEvent
    <3> HIDE DEF m
    <3>2. <<"open", m.fd>> \in Key
      BY <3>1, KeyOf
    <3> QED BY <3>1, <3>2
  <2>2. dmail' = Append(dmail, Answer(m.key, ok)) /\ ok \in BOOLEAN
    BY <1>12 DEF GateAccept
  <2> HIDE DEF m, ok
  <2> QED BY <2>1, <2>2, AnswerPosts
<1>13. ASSUME GateKick PROVE DogMail'
  <2> DEFINE m == Head(gmail)
  <2>1. m.key \in Key
    BY <1>13, GateHead, KeyOf DEF GateKick, GateServes, LobbyInv, GateLetter, IsEvent, Key
  <2>2. dmail' = Append(dmail, Answer(m.key, TRUE))
    BY <1>13 DEF GateKick
  <2> HIDE DEF m
  <2> QED BY <2>1, <2>2, AnswerPosts
<1>14. ASSUME GateData PROVE DogMail'
  <2> DEFINE m == Head(gmail)
  <2>1. m \in Mail /\ IsEvent(m)
    BY <1>14, GateHead DEF GateData, GateServes, LobbyInv, GateLetter
  <2>2. dmail' = dmail \/ dmail' = Append(dmail, m)
    BY <1>14 DEF GateData
  <2> HIDE DEF m
  <2> QED BY <2>1, <2>2, DogPosted DEF LobbyInv, DogMail, DogLetter
<1>15. ASSUME GateClose PROVE DogMail'
  <2> DEFINE f == Head(gmail).fd
  <2>1. f \in Fd
    BY <1>15, GateHead DEF GateClose, GateServes, LobbyInv, GateLetter, IsEvent
  <2>2. dmail' = Append(dmail, Event("close", f))
    BY <1>15 DEF GateClose
  <2> HIDE DEF f
  <2>3. Event("close", f) \in Mail /\ DogLetter(Event("close", f))
    BY <2>1, EventIs DEF DogLetter
  <2> QED BY <2>2, <2>3, DogPosted DEF LobbyInv
<1>16. ASSUME SocketOpen PROVE DogMail'
  BY <1>16, DogServed DEF SocketOpen, DogServes, LobbyInv
<1>17. ASSUME SocketClose PROVE DogMail'
  BY <1>17, DogServed DEF SocketClose, DogServes, LobbyInv
<1>18. ASSUME Login PROVE DogMail'
  BY <1>18, DogServed DEF Login, DogServes, LobbyInv
<1>19. ASSUME EnterRoom PROVE DogMail'
  BY <1>19, DogServed DEF EnterRoom, DogServes, LobbyInv
<1>20. ASSUME ExitMember PROVE DogMail'
  <2>1. dmail # << >> /\ DogMail
    BY <1>20 DEF ExitMember, LobbyInv
  <2>2. Tail(dmail) \in Seq(Mail) /\ Range(Tail(dmail)) \subseteq Range(dmail)
    BY <2>1, DogHead
  <2>3. CASE dmail' = Tail(dmail)
    BY <2>1, <2>3, DogServed
  <2>4. CASE agent # Nil /\ Kill(agent, Tail(dmail))
    <3>1. agent \in Agent
      BY <2>4 DEF LobbyInv, AgentInv, WorkTypes
    <3>2. PICK r \in Seq(Mail) :
              /\ dmail' = Tail(dmail) \o r
              /\ \A m \in Range(r) : \E l \in Range(amail[agent]) :
                    /\ l.op \in {"start", "disconnect"} /\ l.key \in Key /\ l.key[1] # "open"
                    /\ m = Answer(l.key, FALSE)
      BY <2>2, <2>4, <3>1, KillAnswers
    <3>3. \A m \in Range(r) : DogLetter(m)
      <4> SUFFICES ASSUME NEW m \in Range(r) PROVE DogLetter(m)
        OBVIOUS
      <4>1. PICK l \in Range(amail[agent]) : l.key \in Key /\ m = Answer(l.key, FALSE)
        BY <3>2
      <4> QED BY <4>1, AnswerIs DEF DogLetter
    <3>4. dmail' \in Seq(Mail) /\ Range(dmail') = Range(Tail(dmail)) \cup Range(r)
      <4>1. r \in Seq(Mail) /\ Tail(dmail) \in Seq(Mail) /\ dmail' = Tail(dmail) \o r
        BY <2>2, <3>2
      <4> QED BY <4>1, RangeConcat, ZenonT(30)
    <3> QED BY <2>1, <2>2, <3>3, <3>4 DEF DogMail
  <2> QED BY <1>20, <2>3, <2>4 DEF ExitMember, Exit
<1>21. ASSUME DogRefuses PROVE DogMail'
  BY <1>21, DogServed DEF DogRefuses, DogServes, LobbyInv
<1>22. ASSUME NEW k \in Key, Kicked(k) PROVE DogMail'
  BY <1>22, DogServed DEF Kicked, Resumes, DogServes, LobbyInv
<1>23. ASSUME NEW k \in Key, Reported(k) PROVE DogMail'
  BY <1>23, DogServed DEF Reported, Resumes, DogServes, LobbyInv
<1>24. ASSUME NEW k \in Key, CloseRaises(k) PROVE DogMail'
  BY <1>24, DogServed DEF CloseRaises, Resumes, DogServes, LobbyInv
<1>25. ASSUME NEW k \in Key, AgentPeople(k) PROVE DogMail'
  <2>1. CASE Reply(k, TRUE)
    BY <2>1, AnswerPosts DEF Reply
  <2>2. CASE ag[k].fd # Nil /\ dmail' = Append(dmail, Msg("leave", ag[k].fd, k, TRUE))
    <3>1. ag[k].fd \in Fd
      BY <2>2 DEF LobbyInv, WorkTypes
    <3> QED BY <2>2, <3>1, LeavePosts
  <2> QED BY <1>25, <2>1, <2>2 DEF AgentPeople
<1>26. ASSUME NEW a \in Agent, AgentStart(a) PROVE DogMail'
  <2> DEFINE m == Head(amail[a])
  <2>1. m.key \in Key
    BY <1>26, AgentHead DEF AgentStart, AgentServes, LobbyInv, AgentLetter, IsEvent, Key
  <2>2. dmail' = dmail \/ dmail' = Append(dmail, Answer(m.key, TRUE))
    BY <1>26 DEF AgentStart, Reply
  <2> HIDE DEF m
  <2> QED BY <2>1, <2>2, AnswerPosts DEF LobbyInv, DogMail
<1>27. ASSUME NEW a \in Agent, AgentLogin(a) PROVE DogMail'
  <2> DEFINE m == Head(amail[a])
  <2>1. m.key \in Key
    BY <1>27, AgentHead DEF AgentLogin, AgentServes, LobbyInv, AgentLetter, IsEvent, Key
  <2>2. dmail' = dmail \/ dmail' = Append(dmail, Answer(m.key, FALSE))
    BY <1>27 DEF AgentLogin, Reply
  <2> HIDE DEF m
  <2> QED BY <2>1, <2>2, AnswerPosts DEF LobbyInv, DogMail
<1>28. ASSUME NEW a \in Agent, AgentQuit(a) PROVE DogMail'
  <2> DEFINE f == Head(amail[a]).fd
  <2>1. f \in Fd /\ <<"quit", f>> \in Key
    BY <1>28, AgentHead, KeyOf DEF AgentQuit, AgentServes, LobbyInv, AgentLetter, IsEvent
  <2>2. dmail' = dmail \/ dmail' = Append(dmail, Msg("leave", f, <<"quit", f>>, TRUE))
    BY <1>28 DEF AgentQuit
  <2> HIDE DEF f
  <2> QED BY <2>1, <2>2, LeavePosts DEF LobbyInv, DogMail
<1>29. ASSUME NEW a \in Agent, AgentLeft(a) PROVE DogMail'
  <2> DEFINE m == Head(amail[a])
  <2>1. m.key \in Key
    BY <1>29, AgentHead DEF AgentLeft, AgentServes, LobbyInv, AgentLetter, IsEvent, Key
  <2>2. dmail' = dmail \/ dmail' = Append(dmail, Answer(m.key, TRUE))
    BY <1>29 DEF AgentLeft
  <2> HIDE DEF m
  <2> QED BY <2>1, <2>2, AnswerPosts DEF LobbyInv, DogMail
<1> QED
  BY <1>2, <1>3, <1>4, <1>5, <1>6, <1>7, <1>8, <1>9, <1>10, <1>11, <1>12, <1>13, <1>14, <1>15,
     <1>16, <1>17, <1>18, <1>19, <1>20, <1>21, <1>22, <1>23, <1>24, <1>25, <1>26, <1>27, <1>28,
     <1>29 DEF LobbyNext

(* close_conn reports to the agent only for a close or a login: who enters *)
(* is in no room yet.                                                      *)
LEMMA KickedKey ==
    ASSUME LobbyInv, NEW k \in Key, Kicked(k), co[k].vic \in uroom
    PROVE  k[1] \in {"close", "login"}
<1>1. co[k].pc = "kick" /\ k[1] \in {"open", "close", "login", "enter", "quit"} /\ k[2] \in Fd /\ k = <<k[1], k[2]>>
  BY KeyIs DEF Kicked, Resumes
<1>2. k[1] # "enter"
  BY <1>1 DEF LobbyInv, Section, EnterOnce, ServedOnce, Before
<1>3. k[1] \notin {"open", "quit"}
  BY <1>1 DEF LobbyInv, Section
<1> QED BY <1>1, <1>2, <1>3

(* The mailboxes of the agents. *)
LEMMA AgentMailKept ==
    ASSUME LobbyInv, LobbyNext
    PROVE  AgentMail'
<1>1. UNCHANGED <<amail>> => AgentMail'
  BY DEF LobbyInv, AgentMail
<1>2. ASSUME NEW f \in Fd, Connect(f) \/ Hangup(f) \/ GateTimeout(f) \/ SocketOpened(f) PROVE
      AgentMail'
  BY <1>2, <1>1 DEF Connect, Hangup, GateTimeout, SocketOpened
<1>3. ASSUME NEW f \in Fd, LoginFails(f) \/ LoginAccepted(f) \/ EnterFails(f) \/ EnterAgent(f)
      PROVE AgentMail'
  BY <1>3, <1>1 DEF LoginFails, LoginAccepted, EnterFails, EnterAgent
<1>4. ASSUME NEW f \in Fd, EnterNotLaunched(f) \/ Entered(f) PROVE AgentMail'
  BY <1>4, <1>1 DEF EnterNotLaunched, Entered
<1>5. ASSUME NEW f \in Fd, NEW what \in {"login", "enter", "quit"}, Request(f, what) PROVE
      AgentMail'
  BY <1>5, <1>1 DEF Request
<1>6. ASSUME NEW f \in Fd, NEW a \in Agent, EnterLaunched(f, a) PROVE AgentMail'
  BY <1>6, <1>1 DEF EnterLaunched
<1>7. ASSUME GateOpen \/ GateAccept \/ GateKick \/ GateClose PROVE AgentMail'
  BY <1>7, <1>1 DEF GateOpen, GateAccept, GateKick, GateClose
<1>8. ASSUME SocketOpen \/ SocketClose \/ Login \/ EnterRoom PROVE AgentMail'
  BY <1>8, <1>1 DEF SocketOpen, SocketClose, Login, EnterRoom
<1>9. ASSUME DogRefuses PROVE AgentMail'
  BY <1>9, <1>1 DEF DogRefuses
<1>10. ASSUME NEW k \in Key, Reported(k) \/ CloseRaises(k) \/ AgentPeople(k) PROVE AgentMail'
  BY <1>10, <1>1 DEF Reported, CloseRaises, AgentPeople
<1>11. ASSUME NEW f \in Fd, EnterMember(f) PROVE AgentMail'
  <2> DEFINE fd == IF f \in ufd THEN f ELSE Nil
             k == <<"enter", f>>
             m == Msg("start", fd, k, TRUE)
  <2>1. "start" \in Ops /\ fd \in Fd \cup {Nil} /\ k \in Key \cup {Nil} /\ TRUE \in BOOLEAN /\ k
        \in {"enter"} \X Fd
    BY KeyOf DEF Ops
  <2>2. amail' = amail \/ (agent # Nil /\ amail' = [amail EXCEPT ![agent] = Append(@, m)])
    BY <1>11 DEF EnterMember
  <2>3. agent # Nil => agent \in Agent
    BY DEF LobbyInv, AgentInv, WorkTypes
  <2> HIDE DEF fd, k
  <2>4. m \in Mail /\ m.op = "start" /\ m.key = k
    BY <2>1 DEF Msg, Mail
  <2> HIDE DEF m
  <2>5. AgentLetter(m)
    BY <2>1, <2>4 DEF AgentLetter
  <2> QED BY <2>2, <2>3, <2>4, <2>5, AgentPosted DEF LobbyInv, AgentMail
<1>12. ASSUME GateForward PROVE AgentMail'
  <2> DEFINE m == Head(gmail)
             ok == conn[m.fd] # "none"
             b == ag[m.key].at
  <2>1. m.key \in Key
    BY <1>12, GateHead DEF GateForward, GateServes, LobbyInv, GateLetter, IsEvent, Key
  <2>2. \/ amail' = amail
        \/ b \in alive /\ amail' = [amail EXCEPT ![b] = Append(@, Answer(m.key, ok))]
    BY <1>12 DEF GateForward
  <2>3. ok \in BOOLEAN /\ (b \in alive => b \in Agent)
    BY DEF LobbyInv, WorkTypes
  <2> HIDE DEF m, ok, b
  <2>4. Answer(m.key, ok) \in Mail /\ AgentLetter(Answer(m.key, ok))
    BY <2>1, <2>3, AnswerIs DEF AgentLetter
  <2> QED BY <2>2, <2>3, <2>4, AgentPosted DEF LobbyInv, AgentMail
<1>13. ASSUME GateData PROVE AgentMail'
  <2> DEFINE m == Head(gmail)
             b == fwd[m.fd]
  <2>1. m \in Mail /\ IsEvent(m)
    BY <1>13, GateHead DEF GateData, GateServes, LobbyInv, GateLetter
  <2>2. amail' = amail \/ (b \in alive /\ amail' = [amail EXCEPT ![b] = Append(@, m)])
    BY <1>13 DEF GateData
  <2>3. b \in alive => b \in Agent
    BY DEF LobbyInv, WorkTypes
  <2> HIDE DEF m, b
  <2> QED BY <2>1, <2>2, <2>3, AgentPosted DEF LobbyInv, AgentMail, AgentLetter
<1>14. ASSUME ExitMember PROVE AgentMail'
  <2> DEFINE m == Head(dmail)
             b == ag[m.key].at
  <2>1. DogLetter(m) /\ m.op = "leave"
    BY <1>14, DogHead DEF ExitMember, LobbyInv
  <2>2. m.key \in Key
    BY <2>1 DEF DogLetter, IsEvent
  <2>3. \/ amail' = amail
        \/ agent # Nil /\ amail' = [amail EXCEPT ![agent] = << >>]
        \/ b \in alive /\ amail' = [amail EXCEPT ![b] = Append(@, Answer(m.key, TRUE))]
    BY <1>14 DEF ExitMember, Exit, Kill
  <2>4. (b \in alive => b \in Agent) /\ (agent # Nil => agent \in Agent)
    BY DEF LobbyInv, AgentInv, WorkTypes
  <2> HIDE DEF m, b
  <2>5. Answer(m.key, TRUE) \in Mail /\ AgentLetter(Answer(m.key, TRUE))
    BY <2>2, AnswerIs DEF AgentLetter
  <2>6. << >> \in Seq(Mail) /\ Range(<< >>) = {}
    BY DEF Range
  <2>7. CASE agent # Nil /\ amail' = [amail EXCEPT ![agent] = << >>]
    BY <2>4, <2>6, <2>7 DEF LobbyInv, AgentMail
  <2> QED BY <2>3, <2>4, <2>5, <2>7, AgentPosted DEF LobbyInv, AgentMail
<1>15. ASSUME NEW k \in Key, Kicked(k) PROVE AgentMail'
  <2> DEFINE f == co[k].vic
             m == Msg("disconnect", f, k, TRUE)
  <2>1. CASE amail' = amail
    BY <2>1 DEF LobbyInv, AgentMail
  <2>2. CASE /\ f \in logged /\ f \in uroom /\ agent # Nil
             /\ amail' = [amail EXCEPT ![agent] = Append(@, m)]
    <3>1. f \in Fd /\ agent \in Agent
      BY <2>2 DEF LobbyInv, AgentInv, WorkTypes, TableTypes
    <3>2. k[1] \in {"close", "login"}
      BY <1>15, <2>2, <3>1, KickedKey
    <3>3. "disconnect" \in Ops /\ f \in Fd \cup {Nil} /\ k \in Key \cup {Nil} /\ TRUE \in BOOLEAN
      BY <3>1 DEF Ops
    <3>4. m \in Mail /\ m.op = "disconnect" /\ m.fd = f /\ m.key = k
      BY <3>3 DEF Msg, Mail
    <3> HIDE DEF m, f
    <3>5. AgentLetter(m)
      BY <3>1, <3>2, <3>4, KeyIs DEF AgentLetter
    <3> QED BY <2>2, <3>1, <3>4, <3>5, AgentPosted DEF LobbyInv
  <2> QED BY <1>15, <2>1, <2>2 DEF Kicked
<1>16. ASSUME NEW a \in Agent, AgentStart(a) PROVE AgentMail'
  BY <1>16, AgentServed DEF AgentStart, AgentServes, Served, LobbyInv
<1>17. ASSUME NEW a \in Agent, AgentLogin(a) PROVE AgentMail'
  BY <1>17, AgentServed DEF AgentLogin, AgentServes, Served, LobbyInv
<1>18. ASSUME NEW a \in Agent, AgentDisconnect(a) PROVE AgentMail'
  BY <1>18, AgentServed DEF AgentDisconnect, AgentServes, Served, LobbyInv
<1>19. ASSUME NEW a \in Agent, AgentQuit(a) PROVE AgentMail'
  BY <1>19, AgentServed DEF AgentQuit, AgentServes, Served, LobbyInv
<1>20. ASSUME NEW a \in Agent, AgentLeft(a) PROVE AgentMail'
  BY <1>20, AgentServed DEF AgentLeft, AgentServes, Served, LobbyInv
<1> QED
  BY <1>2, <1>3, <1>4, <1>5, <1>6, <1>7, <1>8, <1>9, <1>10, <1>11, <1>12, <1>13, <1>14, <1>15,
     <1>16, <1>17, <1>18, <1>19, <1>20 DEF LobbyNext

-----------------------------------------------------------------------------
(* The coroutines of the agents.                                           *)

LEMMA WorkerJobs ==
    ASSUME LobbyInv, NEW k \in Key, NEW at, NEW pc, NEW fd, Works(k, at, pc, fd),
           \/ k[1] = "enter" /\ pc = "forward" /\ fd \in Fd
           \/ k[1] = "enter" /\ pc = "people" /\ fd = Nil
           \/ k[1] \notin {"open", "enter"} /\ pc \in {"people", "leave"}
           \/ pc = "idle" /\ at = Nil
    PROVE  Jobs'
<1>1. ag \in [Key -> [pc : AgPc, at : Agent \cup {Nil}, fd : Fd \cup {Nil}]] /\ Jobs
  BY DEF LobbyInv, WorkTypes
<1>2. /\ ag'[k].pc = pc /\ ag'[k].fd = fd /\ ag'[k].at = at
      /\ \A l \in Key \ {k} : ag'[l] = ag[l]
  BY <1>1 DEF Works
<1> QED BY <1>1, <1>2 DEF Jobs

(* What an agent's coroutine may be at. *)
LEMMA JobsKept ==
    ASSUME LobbyInv, LobbyNext
    PROVE  Jobs'
<1>1. UNCHANGED <<ag>> => Jobs'
  BY DEF LobbyInv, Jobs
<1>2. ASSUME NEW f \in Fd, Connect(f) \/ Hangup(f) \/ GateTimeout(f) \/ SocketOpened(f) PROVE Jobs'
  BY <1>2, <1>1 DEF Connect, Hangup, GateTimeout, SocketOpened, agentVars
<1>3. ASSUME NEW f \in Fd, LoginFails(f) \/ LoginAccepted(f) \/ EnterFails(f) \/ EnterAgent(f)
      PROVE Jobs'
  BY <1>3, <1>1 DEF LoginFails, LoginAccepted, EnterFails, EnterAgent, agentVars
<1>4. ASSUME NEW f \in Fd, EnterNotLaunched(f) \/ EnterMember(f) \/ Entered(f) PROVE Jobs'
  BY <1>4, <1>1 DEF EnterNotLaunched, EnterMember, Entered, agentVars
<1>5. ASSUME NEW f \in Fd, NEW what \in {"login", "enter", "quit"}, Request(f, what) PROVE Jobs'
  BY <1>5, <1>1 DEF Request, agentVars
<1>6. ASSUME NEW f \in Fd, NEW a \in Agent, EnterLaunched(f, a) PROVE Jobs'
  BY <1>6, <1>1 DEF EnterLaunched, agentVars
<1>7. ASSUME GateOpen \/ GateAccept \/ GateKick \/ GateForward PROVE Jobs'
  BY <1>7, <1>1 DEF GateOpen, GateAccept, GateKick, GateForward, agentVars
<1>8. ASSUME GateData \/ GateClose \/ SocketOpen \/ SocketClose PROVE Jobs'
  BY <1>8, <1>1 DEF GateData, GateClose, SocketOpen, SocketClose, agentVars
<1>9. ASSUME Login \/ EnterRoom \/ DogRefuses PROVE Jobs'
  BY <1>9, <1>1 DEF Login, EnterRoom, DogRefuses, agentVars
<1>10. ASSUME NEW k \in Key, Kicked(k) \/ Reported(k) \/ CloseRaises(k) PROVE Jobs'
  BY <1>10, <1>1 DEF Kicked, Reported, CloseRaises, agentVars
<1>11. ASSUME ExitMember PROVE Jobs'
  <2>1. \/ ag' = ag
        \/ /\ agent # Nil
           /\ ag' = [k \in Key |-> IF ag[k].at = agent THEN [ag[k] EXCEPT !.pc = "dead"]
                                   ELSE ag[k]]
    BY <1>11 DEF ExitMember, Exit, Kill
  <2>2. ag \in [Key -> [pc : AgPc, at : Agent \cup {Nil}, fd : Fd \cup {Nil}]] /\ Jobs
    BY DEF LobbyInv, WorkTypes
  <2> QED BY <2>1, <2>2 DEF Jobs
<1>12. ASSUME NEW k \in Key, AgentPeople(k) PROVE Jobs'
  <2>1. ag[k].pc = "people" /\ k[1] # "open" /\ (k[1] = "enter" => ag[k].fd = Nil)
    BY <1>12 DEF AgentPeople, LobbyInv, Jobs
  <2>2. Works(k, Nil, "idle", Nil) \/ (ag[k].fd # Nil /\ Works(k, ag[k].at, "leave", Nil))
    BY <1>12 DEF AgentPeople
  <2> QED BY <2>1, <2>2, WorkerJobs
<1>13. ASSUME NEW a \in Agent, AgentStart(a) PROVE Jobs'
  <2> DEFINE m == Head(amail[a])
  <2>1. m \in Mail /\ AgentLetter(m)
    BY <1>13, AgentHead DEF AgentStart, AgentServes, LobbyInv
  <2>2. m.key \in Key /\ m.key[1] = "enter" /\ m.fd \in Fd \cup {Nil}
    BY <1>13, <2>1 DEF AgentStart, AgentServes, AgentLetter, IsEvent, Mail, Key
  <2>3. ag' = ag \/ (m.fd # Nil /\ Works(m.key, a, "forward", m.fd))
    BY <1>13 DEF AgentStart
  <2> HIDE DEF m
  <2> QED BY <2>2, <2>3, WorkerJobs DEF LobbyInv, Jobs
<1>14. ASSUME NEW a \in Agent, AgentLogin(a) PROVE Jobs'
  <2> DEFINE m == Head(amail[a])
  <2>1. m \in Mail /\ AgentLetter(m)
    BY <1>14, AgentHead DEF AgentLogin, AgentServes, LobbyInv
  <2>2. m.key \in Key
    BY <1>14, <2>1 DEF AgentLogin, AgentServes, AgentLetter, IsEvent
  <2>3. ag[m.key].pc = "forward" /\ (Works(m.key, a, "people", Nil) \/ Works(m.key, Nil, "idle",
        Nil))
    BY <1>14 DEF AgentLogin
  <2> HIDE DEF m
  <2>4. m.key[1] = "enter"
    BY <2>2, <2>3 DEF LobbyInv, Jobs
  <2> QED BY <2>2, <2>3, <2>4, WorkerJobs
<1>15. ASSUME NEW a \in Agent, AgentDisconnect(a) PROVE Jobs'
  <2> DEFINE m == Head(amail[a])
  <2>1. m \in Mail /\ AgentLetter(m)
    BY <1>15, AgentHead DEF AgentDisconnect, AgentServes, LobbyInv
  <2>2. m.key \in Key /\ m.key[1] \notin {"open", "enter"}
    BY <1>15, <2>1 DEF AgentDisconnect, AgentServes, AgentLetter, IsEvent, Key
  <2>3. PICK fd : Works(m.key, a, "people", fd)
    BY <1>15 DEF AgentDisconnect
  <2> HIDE DEF m
  <2> QED BY <2>2, <2>3, WorkerJobs
<1>16. ASSUME NEW a \in Agent, AgentQuit(a) PROVE Jobs'
  <2> DEFINE m == Head(amail[a])
  <2>1. m \in Mail /\ AgentLetter(m)
    BY <1>16, AgentHead DEF AgentQuit, AgentServes, LobbyInv
  <2>2. <<"quit", m.fd>> \in Key /\ <<"quit", m.fd>>[1] = "quit"
    BY <1>16, <2>1, KeyOf DEF AgentQuit, AgentServes, AgentLetter, IsEvent
  <2>3. ag' = ag \/ Works(<<"quit", m.fd>>, a, "leave", Nil)
    BY <1>16 DEF AgentQuit
  <2> HIDE DEF m
  <2> QED BY <2>2, <2>3, WorkerJobs DEF LobbyInv, Jobs
<1>17. ASSUME NEW a \in Agent, AgentLeft(a) PROVE Jobs'
  <2> DEFINE m == Head(amail[a])
  <2>1. m \in Mail /\ AgentLetter(m)
    BY <1>17, AgentHead DEF AgentLeft, AgentServes, LobbyInv
  <2>2. m.key \in Key
    BY <1>17, <2>1 DEF AgentLeft, AgentServes, AgentLetter, IsEvent
  <2>3. Works(m.key, Nil, "idle", Nil)
    BY <1>17 DEF AgentLeft
  <2> HIDE DEF m
  <2> QED BY <2>2, <2>3, WorkerJobs
<1> QED
  BY <1>2, <1>3, <1>4, <1>5, <1>6, <1>7, <1>8, <1>9, <1>10, <1>11, <1>12, <1>13, <1>14, <1>15,
     <1>16, <1>17 DEF LobbyNext

-----------------------------------------------------------------------------
(* The section of enter_room.                                              *)

(* A coroutine other than those of enter_room moves. *)
LEMMA OthersMove ==
    ASSUME LobbyInv, csq' = csq, NEW k \in Key, k[1] # "enter", NEW pc, NEW vic,
           co' = At(k, pc, vic) \/ co' = Rest(k) \/ co' = co,
           k[1] \in {"open", "quit"} => pc # "kick"
    PROVE  Section'
<1>1. co \in [Key -> [pc : CoPc, vic : Fd \cup {Nil}]] /\ Section
  BY DEF LobbyInv, WorkTypes
<1>2. ASSUME NEW f \in Fd PROVE <<"enter", f>> \in Key /\ <<"enter", f>> # k
  <2>1. <<"enter", f>> \in Key /\ <<"enter", f>>[1] = "enter"
    BY KeyOf
  <2> QED BY <2>1
<1>3. \A f \in Fd : co'[<<"enter", f>>] = co[<<"enter", f>>]
  BY <1>1, <1>2 DEF At, Rest
<1>4. ASSUME NEW f \in Fd, NEW w \in {"open", "quit"} PROVE co'[<<w, f>>].pc # "kick"
  <2>1. co[<<w, f>>].pc # "kick"
    BY <1>1 DEF Section
  <2>4. <<w, f>> \in Key /\ <<w, f>>[1] = w
    BY KeyOf
  <2>2. CASE k = <<w, f>>
    BY <1>1, <2>1, <2>2, <2>4 DEF At, Rest, Idle
  <2>3. CASE k # <<w, f>>
    BY <1>1, <2>1, <2>3, <2>4 DEF At, Rest
  <2> QED BY <2>2, <2>3
<1>5. csq \in Seq(Fd) /\ \A i \in DOMAIN csq : csq[i] \in Fd
  BY DEF LobbyInv, WorkTypes
<1> QED BY <1>1, <1>3, <1>4, <1>5 DEF Section

(* The owner of the section moves and keeps it. *)
LEMMA OwnerMoves ==
    ASSUME LobbyInv, csq' = csq, NEW f \in Fd, co[<<"enter", f>>].pc \in Active,
           NEW pc \in Active, NEW vic, pc = "kick" => vic = f,
           co' = At(<<"enter", f>>, pc, vic)
    PROVE  Section'
<1>1. co \in [Key -> [pc : CoPc, vic : Fd \cup {Nil}]] /\ Section /\ csq \in Seq(Fd)
  BY DEF LobbyInv, WorkTypes
<1>2. csq # << >> /\ Head(csq) = f
  BY EnterStates
<1>3. csq[1] = f /\ 1 \in DOMAIN csq /\ \A i \in DOMAIN csq : csq[i] \in Fd
  BY <1>1, <1>2
<1>4. \A i \in DOMAIN csq : i # 1 => csq[i] # f
  BY <1>1, <1>3 DEF Section
<1>5. \A g \in Fd : /\ <<"enter", g>> \in Key
                    /\ g # f => <<"enter", g>> # <<"enter", f>>
                    /\ \A w \in {"open", "quit"} : <<w, g>> \in Key /\ <<w, g>> # <<"enter", f>>
  BY KeyOf
<1>6. /\ \A g \in Fd : g # f => co'[<<"enter", g>>] = co[<<"enter", g>>]
      /\ \A g \in Fd : \A w \in {"open", "quit"} : co'[<<w, g>>] = co[<<w, g>>]
      /\ co'[<<"enter", f>>].pc = pc /\ co'[<<"enter", f>>].vic = vic
  BY <1>1, <1>5 DEF At
<1>7. \A i, j \in DOMAIN csq' : csq'[i] = csq'[j] => i = j
  BY <1>1 DEF Section
<1>8. ASSUME NEW i \in DOMAIN csq'
      PROVE  IF i = 1 THEN co'[<<"enter", csq'[i]>>].pc \in Active
                      ELSE co'[<<"enter", csq'[i]>>].pc = "section"
  <2>1. CASE i = 1
    BY <1>3, <1>6, <2>1
  <2>2. CASE i # 1
    <3>1. co[<<"enter", csq[i]>>].pc = "section" /\ csq[i] \in Fd /\ csq[i] # f
      BY <1>1, <1>3, <1>4, <2>2 DEF Section
    <3> QED BY <1>6, <2>2, <3>1
  <2> QED BY <2>1, <2>2
<1>9. \A g \in Fd : co'[<<"enter", g>>].pc # "idle" => g \in Range(csq')
  <2>1. f \in Range(csq)
    BY <1>3 DEF Range
  <2> QED BY <1>1, <1>6, <2>1 DEF Section
<1>10. \A g \in Fd : co'[<<"enter", g>>].pc = "kick" => co'[<<"enter", g>>].vic = g
  BY <1>1, <1>6 DEF Section
<1>11. ASSUME NEW g \in Fd, NEW w \in {"open", "quit"} PROVE co'[<<w, g>>].pc # "kick"
  <2>1. co[<<w, g>>].pc # "kick"
    BY <1>1 DEF Section
  <2>2. co'[<<w, g>>] = co[<<w, g>>]
    BY <1>6
  <2> QED BY <2>1, <2>2
<1> QED BY <1>7, <1>8, <1>9, <1>10, <1>11 DEF Section

(* The owner of the section leaves it, and the next in line goes on. *)
LEMMA OwnerLeaves ==
    ASSUME LobbyInv, NEW f \in Fd, co[<<"enter", f>>].pc \in Active, Release(Rest(<<"enter", f>>))
    PROVE  /\ Section' /\ co'[<<"enter", f>>].pc = "idle"
           /\ \A g \in Fd \ {f} : \/ co'[<<"enter", g>>] = co[<<"enter", g>>]
                                  \/ co[<<"enter", g>>].pc = "section" /\ co'[<<"enter", g>>].pc = "info"
<1>1. co \in [Key -> [pc : CoPc, vic : Fd \cup {Nil}]] /\ Section /\ csq \in Seq(Fd)
  BY DEF LobbyInv, WorkTypes
<1>2. csq # << >> /\ Head(csq) = f
  BY EnterStates
<1>3. csq[1] = f /\ Len(csq) \in Nat /\ Len(csq) >= 1 /\ DOMAIN csq = 1..Len(csq)
      /\ \A i \in DOMAIN csq : csq[i] \in Fd
  BY <1>1, <1>2
<1>4. \A i \in DOMAIN csq : i # 1 => csq[i] # f /\ co[<<"enter", csq[i]>>].pc = "section"
  BY <1>1, <1>3 DEF Section
<1>5. csq' = Tail(csq) /\ DOMAIN csq' = 1..(Len(csq) - 1) /\ \A i \in 1..(Len(csq) - 1) : csq'[i] = csq[i + 1]
  BY <1>1, <1>2 DEF Release
<1>6. \A g \in Fd : /\ <<"enter", g>> \in Key
                    /\ \A h \in Fd : g # h => <<"enter", g>> # <<"enter", h>>
                    /\ \A w \in {"open", "quit"}, h \in Fd : <<w, g>> \in Key /\ <<w, g>> # <<"enter", h>>
  BY KeyOf
<1>7. CASE Tail(csq) = << >>
  <2>1. Len(csq) = 1
    <3>1. Len(Tail(csq)) = Len(csq) - 1
      BY <1>1, <1>2
    <3> QED BY <1>3, <1>7, <3>1
  <2>2. co' = Rest(<<"enter", f>>)
    BY <1>7 DEF Release
  <2>3. /\ \A g \in Fd : g # f => co'[<<"enter", g>>] = co[<<"enter", g>>]
        /\ \A g \in Fd : \A w \in {"open", "quit"} : co'[<<w, g>>] = co[<<w, g>>]
        /\ co'[<<"enter", f>>].pc = "idle"
    BY <1>1, <1>6, <2>2 DEF Rest, Idle
  <2>4. DOMAIN csq' = {}
    BY <1>5, <2>1
  <2>5. \A g \in Fd : g # f => co[<<"enter", g>>].pc = "idle"
    BY <1>1, <1>3, <2>1 DEF Section, Range
  <2>6. \A g \in Fd : co'[<<"enter", g>>].pc = "idle"
    BY <2>3, <2>5
  <2>7. ASSUME NEW g \in Fd, NEW w \in {"open", "quit"} PROVE co'[<<w, g>>].pc # "kick"
    <3>1. co[<<w, g>>].pc # "kick"
      BY <1>1 DEF Section
    <3>2. co'[<<w, g>>] = co[<<w, g>>]
      BY <2>3
    <3> QED BY <3>1, <3>2
  <2>8. Section'
    BY <2>4, <2>6, <2>7 DEF Section
  <2> QED BY <2>3, <2>8
<1>8. CASE Tail(csq) # << >>
  <2> DEFINE h == csq[2]
  <2>1. Len(csq) >= 2 /\ 2 \in DOMAIN csq
    BY <1>1, <1>3, <1>8
  <2>2. h \in Fd /\ h # f /\ Head(Tail(csq)) = h
    BY <1>1, <1>2, <1>3, <1>4, <1>8, <2>1
  <2>3. co' = [Rest(<<"enter", f>>) EXCEPT ![<<"enter", h>>].pc = "info"]
    BY <1>8, <2>2 DEF Release
  <2> HIDE DEF h
  <2>4. /\ \A g \in Fd : g # f /\ g # h => co'[<<"enter", g>>] = co[<<"enter", g>>]
        /\ \A g \in Fd : \A w \in {"open", "quit"} : co'[<<w, g>>] = co[<<w, g>>]
        /\ co'[<<"enter", f>>].pc = "idle" /\ co'[<<"enter", h>>].pc = "info"
    <3>1. Rest(<<"enter", f>>) \in [Key -> [pc : CoPc, vic : Fd \cup {Nil}]]
      BY <1>1 DEF Rest, Idle, CoPc
    <3>2. /\ \A g \in Fd : g # f => Rest(<<"enter", f>>)[<<"enter", g>>] = co[<<"enter", g>>]
          /\ \A g \in Fd : \A w \in {"open", "quit"} : Rest(<<"enter", f>>)[<<w, g>>] = co[<<w, g>>]
          /\ Rest(<<"enter", f>>)[<<"enter", f>>].pc = "idle"
      BY <1>1, <1>6 DEF Rest, Idle
    <3> QED BY <1>6, <2>2, <2>3, <3>1, <3>2
  <2>5. \A i, j \in DOMAIN csq' : csq'[i] = csq'[j] => i = j
    <3> SUFFICES ASSUME NEW i \in 1..(Len(csq) - 1), NEW j \in 1..(Len(csq) - 1), csq'[i] = csq'[j]
                 PROVE  i = j
      BY <1>5
    <3>1. i + 1 \in DOMAIN csq /\ j + 1 \in DOMAIN csq /\ csq[i + 1] = csq[j + 1]
      BY <1>3, <1>5
    <3>2. i + 1 = j + 1
      BY <1>1, <3>1 DEF Section
    <3> QED BY <3>2
  <2>6. ASSUME NEW i \in DOMAIN csq'
        PROVE  IF i = 1 THEN co'[<<"enter", csq'[i]>>].pc \in Active
                        ELSE co'[<<"enter", csq'[i]>>].pc = "section"
    <3>1. CASE i = 1
      <4>1. csq'[i] = h
        BY <1>5, <2>1, <3>1, <1>3 DEF h
      <4> QED BY <2>4, <3>1, <4>1 DEF Active
    <3>2. CASE i # 1
      <4>1. i + 1 \in DOMAIN csq /\ i + 1 # 2 /\ i + 1 # 1 /\ csq'[i] = csq[i + 1]
        BY <1>3, <1>5, <3>2
      <4>2. csq[i + 1] # h /\ csq[i + 1] # f /\ csq[i + 1] \in Fd /\ co[<<"enter", csq[i + 1]>>].pc = "section"
        BY <1>1, <1>3, <1>4, <2>1, <4>1 DEF Section, h
      <4> QED BY <2>4, <3>2, <4>1, <4>2
    <3> QED BY <3>1, <3>2
  <2>7. ASSUME NEW g \in Fd, co'[<<"enter", g>>].pc # "idle" PROVE g \in Range(csq')
    <3>1. PICK i \in DOMAIN csq : csq[i] = g /\ i # 1
      <4>1. g # f
        BY <2>4, <2>7
      <4>2. CASE g = h
        BY <2>1, <4>2 DEF h
      <4>3. CASE g # h
        <5>1. co[<<"enter", g>>].pc # "idle"
          BY <2>4, <2>7, <4>1, <4>3
        <5>2. g \in Range(csq)
          BY <1>1, <5>1 DEF Section
        <5> QED BY <1>3, <4>1, <5>2 DEF Range
      <4> QED BY <4>2, <4>3
    <3>2. i - 1 \in DOMAIN csq' /\ csq'[i - 1] = g
      BY <1>3, <1>5, <3>1
    <3> QED BY <3>2 DEF Range
  <2>8. \A g \in Fd : co'[<<"enter", g>>].pc = "kick" => co'[<<"enter", g>>].vic = g
    BY <1>1, <2>4 DEF Section
  <2>9. ASSUME NEW g \in Fd, NEW w \in {"open", "quit"} PROVE co'[<<w, g>>].pc # "kick"
    <3>1. co[<<w, g>>].pc # "kick"
      BY <1>1 DEF Section
    <3>2. co'[<<w, g>>] = co[<<w, g>>]
      BY <2>4
    <3> QED BY <3>1, <3>2
  <2>10. Section'
    BY <2>5, <2>6, <2>7, <2>8, <2>9 DEF Section
  <2>11. co[<<"enter", h>>].pc = "section"
    BY <1>4, <2>1 DEF h
  <2> QED BY <2>4, <2>10, <2>11
<1> QED BY <1>7, <1>8

(* A user in no room asks to enter, and takes his place in the line. *)
LEMMA OneComes ==
    ASSUME LobbyInv, NEW f \in Fd, co[<<"enter", f>>].pc = "idle", csq' = Append(csq, f),
           co' = At(<<"enter", f>>, IF csq = << >> THEN "info" ELSE "section", Nil)
    PROVE  Section'
<1>1. co \in [Key -> [pc : CoPc, vic : Fd \cup {Nil}]] /\ Section /\ csq \in Seq(Fd)
  BY DEF LobbyInv, WorkTypes
<1>2. /\ Len(csq) \in Nat /\ DOMAIN csq = 1..Len(csq) /\ DOMAIN csq' = 1..(Len(csq) + 1)
      /\ \A i \in 1..Len(csq) : csq'[i] = csq[i] /\ csq[i] \in Fd
      /\ csq'[Len(csq) + 1] = f
  BY <1>1
<1>3. \A i \in DOMAIN csq : csq[i] # f
  BY <1>1 DEF Section, Active
<1>4. \A g \in Fd : /\ <<"enter", g>> \in Key
                    /\ g # f => <<"enter", g>> # <<"enter", f>>
                    /\ \A w \in {"open", "quit"} : <<w, g>> \in Key /\ <<w, g>> # <<"enter", f>>
  BY KeyOf
<1>5. /\ \A g \in Fd : g # f => co'[<<"enter", g>>] = co[<<"enter", g>>]
      /\ \A g \in Fd : \A w \in {"open", "quit"} : co'[<<w, g>>] = co[<<w, g>>]
      /\ co'[<<"enter", f>>].pc = IF csq = << >> THEN "info" ELSE "section"
  BY <1>1, <1>4 DEF At
<1>6. \A i, j \in DOMAIN csq' : csq'[i] = csq'[j] => i = j
  <2> SUFFICES ASSUME NEW i \in 1..(Len(csq) + 1), NEW j \in 1..(Len(csq) + 1), csq'[i] = csq'[j]
               PROVE  i = j
    BY <1>2
  <2>1. CASE i \in DOMAIN csq /\ j \in DOMAIN csq
    BY <1>1, <1>2, <2>1 DEF Section
  <2>2. CASE i \notin DOMAIN csq
    <3>1. i = Len(csq) + 1 /\ csq'[j] = f
      BY <1>2, <2>2
    <3> QED BY <1>2, <1>3, <3>1
  <2>3. CASE j \notin DOMAIN csq
    <3>1. j = Len(csq) + 1 /\ csq'[i] = f
      BY <1>2, <2>3
    <3> QED BY <1>2, <1>3, <3>1
  <2> QED BY <2>1, <2>2, <2>3
<1>7. ASSUME NEW i \in DOMAIN csq'
      PROVE  IF i = 1 THEN co'[<<"enter", csq'[i]>>].pc \in Active
                      ELSE co'[<<"enter", csq'[i]>>].pc = "section"
  <2>1. CASE i \in DOMAIN csq
    <3>1. csq'[i] = csq[i] /\ csq[i] \in Fd /\ csq[i] # f
      BY <1>2, <1>3, <2>1
    <3>2. co'[<<"enter", csq'[i]>>] = co[<<"enter", csq[i]>>]
      BY <1>5, <3>1
    <3> QED BY <1>1, <2>1, <3>2 DEF Section
  <2>2. CASE i \notin DOMAIN csq
    <3>1. i = Len(csq) + 1 /\ csq'[i] = f
      BY <1>2, <2>2
    <3>2. i = 1 <=> csq = << >>
      BY <1>1, <1>2, <3>1
    <3> QED BY <1>5, <3>1, <3>2 DEF Active
  <2> QED BY <2>1, <2>2
<1>8. \A g \in Fd : co'[<<"enter", g>>].pc # "idle" => g \in Range(csq')
  <2>1. Range(csq') = Range(csq) \cup {f}
    BY <1>1, RangeAppend
  <2> QED BY <1>1, <1>5, <2>1 DEF Section
<1>9. \A g \in Fd : co'[<<"enter", g>>].pc = "kick" => co'[<<"enter", g>>].vic = g
  BY <1>1, <1>5 DEF Section
<1>10. ASSUME NEW g \in Fd, NEW w \in {"open", "quit"} PROVE co'[<<w, g>>].pc # "kick"
  <2>1. co[<<w, g>>].pc # "kick"
    BY <1>1 DEF Section
  <2>2. co'[<<w, g>>] = co[<<w, g>>]
    BY <1>5
  <2> QED BY <2>1, <2>2
<1> QED BY <1>6, <1>7, <1>8, <1>9, <1>10 DEF Section

(* What close_conn's caller goes on to. *)
LEMMA KickedMoves ==
    ASSUME LobbyInv, NEW k \in Key, Kicked(k)
    PROVE  /\ csq' = csq
           /\ k[1] = "enter" => co' = At(k, "cache", Nil) /\ co[k].pc = "kick"
           /\ k[1] # "enter" => co' = At(k, "disconnect", co[k].vic) \/ co' = Rest(k)
<1>1. csq' = csq /\ co[k].pc = "kick"
  BY DEF Kicked, Resumes
<1>2. ASSUME k[1] = "enter" PROVE co[k].vic \notin uroom
  BY <1>2, KickedKey
<1>3. k[1] # "enter" => co' = At(k, "disconnect", co[k].vic) \/ co' = Rest(k)
  BY DEF Kicked, Forget, Returned
<1>4. k[1] = "enter" => co' = At(k, "cache", Nil)
  BY <1>2 DEF Kicked, Forget, Returned
<1> QED BY <1>1, <1>3, <1>4

(* Only close and login wait for the agent's answer to a disconnect. *)
LEMMA WaitsKey ==
    ASSUME LobbyInv, NEW k \in Key, co[k].pc = "disconnect"
    PROVE  k[1] # "enter"
BY KeyIs, EnterStates DEF Active

(* One coroutine of enter_room runs, the others wait in line. *)
LEMMA SectionKept ==
    ASSUME LobbyInv, LobbyNext
    PROVE  Section'
<1>1. UNCHANGED <<csq, co>> => Section'
  BY DEF LobbyInv, Section
<1>2. ASSUME NEW f \in Fd, Connect(f) \/ Hangup(f) \/ GateTimeout(f) PROVE Section'
  BY <1>2, <1>1 DEF Connect, Hangup, GateTimeout
<1>3. ASSUME NEW f \in Fd, NEW what \in {"login", "enter", "quit"}, Request(f, what) PROVE Section'
  BY <1>3, <1>1 DEF Request
<1>4. ASSUME GateOpen \/ GateAccept \/ GateKick \/ GateForward PROVE Section'
  BY <1>4, <1>1 DEF GateOpen, GateAccept, GateKick, GateForward
<1>5. ASSUME GateData \/ GateClose \/ ExitMember \/ DogRefuses PROVE Section'
  BY <1>5, <1>1 DEF GateData, GateClose, ExitMember, DogRefuses, Exit
<1>6. ASSUME NEW k \in Key, AgentPeople(k) PROVE Section'
  BY <1>6, <1>1 DEF AgentPeople
<1>7. ASSUME NEW a \in Agent, AgentStart(a) \/ AgentLogin(a) \/ AgentDisconnect(a) \/ AgentQuit(a)
      PROVE Section'
  BY <1>7, <1>1 DEF AgentStart, AgentLogin, AgentDisconnect, AgentQuit
<1>8. ASSUME NEW a \in Agent, AgentLeft(a) PROVE Section'
  BY <1>8, <1>1 DEF AgentLeft
<1>9. ASSUME NEW f \in Fd, SocketOpened(f) PROVE Section'
  <2>1. <<"open", f>> \in Key /\ <<"open", f>>[1] = "open"
    BY KeyOf
  <2>2. csq' = csq /\ (co' = Rest(<<"open", f>>))
    BY <1>9, <2>1 DEF SocketOpened, Returned
  <2> QED BY <2>1, <2>2, OthersMove
<1>10. ASSUME NEW f \in Fd, LoginFails(f) PROVE Section'
  <2>1. <<"login", f>> \in Key /\ <<"login", f>>[1] = "login"
    BY KeyOf
  <2>2. csq' = csq /\ (co' = Rest(<<"login", f>>))
    BY <1>10, <2>1 DEF LoginFails, Returned
  <2> QED BY <2>1, <2>2, OthersMove
<1>11. ASSUME NEW f \in Fd, LoginAccepted(f) PROVE Section'
  <2>1. <<"login", f>> \in Key /\ <<"login", f>>[1] = "login"
    BY KeyOf
  <2>2. csq' = csq /\ (co' = At(<<"login", f>>, "kick", users[owner[f]]) \/ co' = Rest(<<"login",
        f>>))
    BY <1>11, <2>1 DEF LoginAccepted, Returned
  <2> QED BY <2>1, <2>2, OthersMove
<1>12. ASSUME NEW f \in Fd, EnterFails(f) PROVE Section'
  <2>1. co[<<"enter", f>>].pc \in Active /\ Release(Rest(<<"enter", f>>))
    BY <1>12 DEF EnterFails, Resumes, Active
  <2> QED BY <2>1, OwnerLeaves
<1>13. ASSUME NEW f \in Fd, EnterAgent(f) PROVE Section'
  <2>1. co[<<"enter", f>>].pc \in Active /\ csq' = csq
    BY <1>13 DEF EnterAgent, Active
  <2>2. PICK pc \in {"launch", "cache"} : co' = At(<<"enter", f>>, pc, Nil)
    BY <1>13 DEF EnterAgent
  <2>3. pc \in Active /\ pc # "kick"
    BY DEF Active
  <2> QED BY <2>1, <2>2, <2>3, OwnerMoves
<1>14. ASSUME NEW f \in Fd, NEW a \in Agent, EnterLaunched(f, a) PROVE Section'
  <2>1. co[<<"enter", f>>].pc \in Active /\ csq' = csq /\ co' = At(<<"enter", f>>, "cache", Nil)
    BY <1>14 DEF EnterLaunched, Active
  <2>2. "cache" \in Active
    BY DEF Active
  <2> QED BY <2>1, <2>2, OwnerMoves
<1>15. ASSUME NEW f \in Fd, EnterNotLaunched(f) PROVE Section'
  <2>1. co[<<"enter", f>>].pc \in Active /\ csq' = csq
    BY <1>15 DEF EnterNotLaunched, Active
  <2>2. co' = At(<<"enter", f>>, "kick", f) \/ co' = At(<<"enter", f>>, "cache", Nil)
    BY <1>15 DEF EnterNotLaunched
  <2>3. "cache" \in Active /\ "kick" \in Active
    BY DEF Active
  <2> QED BY <2>1, <2>2, <2>3, OwnerMoves
<1>16. ASSUME NEW f \in Fd, EnterMember(f) PROVE Section'
  <2>1. co[<<"enter", f>>].pc \in Active
    BY <1>16 DEF EnterMember, Active
  <2>2. CASE agent = Nil
    BY <1>16, <2>1, <2>2, OwnerLeaves DEF EnterMember
  <2>3. CASE agent # Nil
    <3>1. csq' = csq /\ co' = At(<<"enter", f>>, "start", Nil) /\ "start" \in Active
      BY <1>16, <2>3 DEF EnterMember, Active
    <3> QED BY <2>1, <3>1, OwnerMoves
  <2> QED BY <2>2, <2>3
<1>17. ASSUME NEW f \in Fd, Entered(f) PROVE Section'
  <2>1. co[<<"enter", f>>].pc \in Active /\ Release(Rest(<<"enter", f>>))
    BY <1>17 DEF Entered, Resumes, Active
  <2> QED BY <2>1, OwnerLeaves
<1>18. ASSUME SocketOpen PROVE Section'
  <2> DEFINE f == Head(dmail).fd
  <2>1. f \in Fd
    BY <1>18, DogHead DEF SocketOpen, DogServes, LobbyInv, DogLetter, IsEvent
  <2>2. <<"open", f>> \in Key /\ <<"open", f>>[1] = "open"
    BY <2>1, KeyOf
  <2>3. csq' = csq /\ (co' = co \/ co' = At(<<"open", f>>, "accept", Nil))
    BY <1>18 DEF SocketOpen
  <2> HIDE DEF f
  <2> QED BY <2>2, <2>3, OthersMove
<1>19. ASSUME SocketClose PROVE Section'
  <2> DEFINE f == Head(dmail).fd
  <2>1. f \in Fd
    BY <1>19, DogHead DEF SocketClose, DogServes, LobbyInv, DogLetter, IsEvent
  <2>2. <<"close", f>> \in Key /\ <<"close", f>>[1] = "close"
    BY <2>1, KeyOf
  <2>3. csq' = csq /\ (co' = co \/ co' = At(<<"close", f>>, "kick", f))
    BY <1>19 DEF SocketClose
  <2> HIDE DEF f
  <2> QED BY <2>2, <2>3, OthersMove
<1>20. ASSUME Login PROVE Section'
  <2> DEFINE f == Head(dmail).fd
  <2>1. f \in Fd
    BY <1>20, DogHead DEF Login, DogServes, LobbyInv, DogLetter, IsEvent
  <2>2. <<"login", f>> \in Key /\ <<"login", f>>[1] = "login"
    BY <2>1, KeyOf
  <2>3. csq' = csq /\ (co' = co \/ co' = At(<<"login", f>>, "account", Nil))
    BY <1>20 DEF Login
  <2> HIDE DEF f
  <2> QED BY <2>2, <2>3, OthersMove
<1>21. ASSUME EnterRoom PROVE Section'
  <2> DEFINE f == Head(dmail).fd
  <2>1. Head(dmail) \in Mail /\ IsEvent(Head(dmail)) /\ Head(dmail).op = "enter" /\ Head(dmail)
        \in Range(dmail)
    BY <1>21, DogHead DEF EnterRoom, DogServes, LobbyInv, DogLetter
  <2>2. f \in Fd /\ Event("enter", f) \in Range(dmail)
    BY <2>1, EventUnique DEF IsEvent
  <2>3. \/ UNCHANGED <<csq, co>>
        \/ /\ csq' = Append(csq, f)
           /\ co' = At(<<"enter", f>>, IF csq = << >> THEN "info" ELSE "section", Nil)
    BY <1>21 DEF EnterRoom
  <2> HIDE DEF f
  <2>4. co[<<"enter", f>>].pc = "idle"
    BY <2>2 DEF LobbyInv, EnterOnce, ServedOnce, Coming
  <2> QED BY <1>1, <2>2, <2>3, <2>4, OneComes
<1>22. ASSUME NEW k \in Key, Kicked(k) PROVE Section'
  <2>1. CASE k[1] = "enter"
    <3>1. k = <<"enter", k[2]>> /\ k[2] \in Fd
      BY <2>1, KeyIs
    <3>2. csq' = csq /\ co' = At(k, "cache", Nil) /\ co[k].pc \in Active /\ "cache" \in Active
      BY <1>22, <2>1, KickedMoves DEF Active
    <3> QED BY <3>1, <3>2, OwnerMoves
  <2>2. CASE k[1] # "enter"
    <3>1. csq' = csq /\ (co' = At(k, "disconnect", co[k].vic) \/ co' = Rest(k))
      BY <1>22, <2>2, KickedMoves
    <3> QED BY <2>2, <3>1, OthersMove
  <2> QED BY <2>1, <2>2
<1>23. ASSUME NEW k \in Key, Reported(k) PROVE Section'
  <2>1. k[1] # "enter"
    BY <1>23, WaitsKey DEF Reported, Resumes
  <2>2. csq' = csq /\ co' = Rest(k)
    BY <1>23, <2>1 DEF Reported, Forget, Returned
  <2> QED BY <2>1, <2>2, OthersMove
<1>24. ASSUME NEW k \in Key, CloseRaises(k) PROVE Section'
  <2>1. k[1] # "enter"
    BY <1>24, WaitsKey DEF CloseRaises, Resumes
  <2>2. csq' = csq /\ co' = Rest(k)
    BY <1>24, <2>1 DEF CloseRaises
  <2> QED BY <2>1, <2>2, OthersMove
<1> QED
  BY <1>2, <1>3, <1>4, <1>5, <1>6, <1>7, <1>8, <1>9, <1>10, <1>11, <1>12, <1>13, <1>14, <1>15,
     <1>16, <1>17, <1>18, <1>19, <1>20, <1>21, <1>22, <1>23, <1>24 DEF LobbyNext

-----------------------------------------------------------------------------
(* Nobody is served an enter twice.                                        *)

(* Steps in which the mailboxes gain no enter. *)
GateQuiet ==
    \/ gmail' = gmail
    \/ gmail # << >> /\ gmail' = Tail(gmail)
    \/ \E m \in Mail : m.op # "enter" /\ gmail' = Append(gmail, m)
DogQuiet ==
    \/ dmail' = dmail
    \/ dmail # << >> /\ dmail' = Tail(dmail)
    \/ \E m \in Mail : m.op # "enter" /\ dmail' = Append(dmail, m)
    \/ /\ dmail # << >>
       /\ \E r \in Seq(Mail) : (\A m \in Range(r) : m.op # "enter") /\ dmail' = Tail(dmail) \o r

(* Steps in which nobody starts to enter. *)
EnterQuiet ==
    \A f \in Fd :
        /\ co[<<"enter", f>>].pc = "idle" => co'[<<"enter", f>>].pc = "idle"
        /\ co'[<<"enter", f>>].pc \in Before => co[<<"enter", f>>].pc \in Before

LEMMA GateKeepsEnter ==
    ASSUME LobbyInv, GateQuiet, NEW f \in Fd
    PROVE  /\ Once(gmail', Event("enter", f))
           /\ Event("enter", f) \in Range(gmail') => Event("enter", f) \in Range(gmail)
<1>1. gmail \in Seq(Mail) /\ Once(gmail, Event("enter", f))
  BY DEF LobbyInv, GateMail, EnterOnce, ServedOnce
<1>2. Event("enter", f).op = "enter"
  BY EventIs
<1>3. CASE gmail' = gmail
  BY <1>1, <1>3
<1>4. CASE gmail # << >> /\ gmail' = Tail(gmail)
  BY <1>1, <1>4, OnceTail, RangeTail
<1>5. CASE \E m \in Mail : m.op # "enter" /\ gmail' = Append(gmail, m)
  <2>1. PICK m \in Mail : m # Event("enter", f) /\ gmail' = Append(gmail, m)
    BY <1>2, <1>5
  <2> QED BY <1>1, <2>1, OnceAppend, RangeAppend
<1> QED BY <1>3, <1>4, <1>5 DEF GateQuiet

LEMMA DogKeepsEnter ==
    ASSUME LobbyInv, DogQuiet, NEW f \in Fd
    PROVE  /\ Once(dmail', Event("enter", f))
           /\ Event("enter", f) \in Range(dmail') => Event("enter", f) \in Range(dmail)
<1> DEFINE e == Event("enter", f)
<1>1. dmail \in Seq(Mail) /\ Once(dmail, e)
  BY DEF LobbyInv, DogMail, EnterOnce, ServedOnce
<1>2. e.op = "enter"
  BY EventIs
<1> SUFFICES Once(dmail', e) /\ (e \in Range(dmail') => e \in Range(dmail))
  OBVIOUS
<1> HIDE DEF e
<1>3. CASE dmail' = dmail
  BY <1>1, <1>3
<1>4. CASE dmail # << >> /\ dmail' = Tail(dmail)
  BY <1>1, <1>4, OnceTail, RangeTail
<1>5. CASE \E m \in Mail : m.op # "enter" /\ dmail' = Append(dmail, m)
  <2>1. PICK m \in Mail : m # e /\ dmail' = Append(dmail, m)
    BY <1>2, <1>5
  <2> QED BY <1>1, <2>1, OnceAppend, RangeAppend
<1>6. CASE /\ dmail # << >>
           /\ \E r \in Seq(Mail) : (\A m \in Range(r) : m.op # "enter") /\ dmail' = Tail(dmail) \o r
  <2>1. PICK r \in Seq(Mail) : (\A m \in Range(r) : m.op # "enter") /\ dmail' = Tail(dmail) \o r
    BY <1>6
  <2>2. e \notin Range(r)
    BY <1>2, <2>1
  <2>3. Tail(dmail) \in Seq(Mail) /\ Once(Tail(dmail), e) /\ Range(Tail(dmail)) \subseteq Range(dmail)
    BY <1>1, <1>6, OnceTail, RangeTail
  <2>4. Once(Tail(dmail) \o r, e) /\ Range(Tail(dmail) \o r) = Range(Tail(dmail)) \cup Range(r)
    <3>1. Once(Tail(dmail) \o r, e)
      BY <2>2, <2>3, OnceConcat
    <3>2. Range(Tail(dmail) \o r) = Range(Tail(dmail)) \cup Range(r)
      BY <2>1, <2>3, RangeConcat, ZenonT(30)
    <3> QED BY <3>1, <3>2
  <2> QED BY <2>1, <2>2, <2>3, <2>4
<1> QED BY <1>3, <1>4, <1>5, <1>6 DEF DogQuiet

(* A connection whose enter does not move. *)
LEMMA QuietFor ==
    ASSUME LobbyInv, NEW f \in Fd,
           Once(gmail', Event("enter", f)), Once(dmail', Event("enter", f)),
           Event("enter", f) \in Range(gmail') => Event("enter", f) \in Range(gmail),
           Event("enter", f) \in Range(dmail') => Event("enter", f) \in Range(dmail),
           "enter" \in asked'[f] <=> "enter" \in asked[f],
           co[<<"enter", f>>].pc = "idle" => co'[<<"enter", f>>].pc = "idle",
           co'[<<"enter", f>>].pc \in Before => co[<<"enter", f>>].pc \in Before,
           f \in uroom' => f \in uroom \/ (/\ co[<<"enter", f>>].pc # "idle"
                                           /\ co'[<<"enter", f>>].pc \notin Before)
    PROVE  ServedOnce(f)'
<1>1. ServedOnce(f)
  BY DEF LobbyInv, EnterOnce
<1> QED BY <1>1 DEF ServedOnce, Coming

LEMMA QuietStep ==
    ASSUME LobbyInv, GateQuiet, DogQuiet, EnterQuiet, asked' = asked,
           \A f \in uroom' \ uroom : /\ co[<<"enter", f>>].pc # "idle"
                                     /\ co'[<<"enter", f>>].pc \notin Before
    PROVE  EnterOnce'
<1> SUFFICES ASSUME NEW f \in Fd PROVE ServedOnce(f)'
  BY DEF EnterOnce
<1>1. /\ Once(gmail', Event("enter", f)) /\ Once(dmail', Event("enter", f))
      /\ Event("enter", f) \in Range(gmail') => Event("enter", f) \in Range(gmail)
      /\ Event("enter", f) \in Range(dmail') => Event("enter", f) \in Range(dmail)
  BY GateKeepsEnter, DogKeepsEnter
<1>2. /\ co[<<"enter", f>>].pc = "idle" => co'[<<"enter", f>>].pc = "idle"
      /\ co'[<<"enter", f>>].pc \in Before => co[<<"enter", f>>].pc \in Before
  BY DEF EnterQuiet
<1>3. f \in uroom' => f \in uroom \/ (/\ co[<<"enter", f>>].pc # "idle"
                                      /\ co'[<<"enter", f>>].pc \notin Before)
  OBVIOUS
<1> QED BY <1>1, <1>2, <1>3, QuietFor

(* What the moves of the coroutines mean for those who enter. *)
LEMMA OthersQuiet ==
    ASSUME LobbyInv, NEW k \in Key, k[1] # "enter", NEW pc, NEW vic,
           co' = At(k, pc, vic) \/ co' = Rest(k) \/ co' = co
    PROVE  EnterQuiet /\ \A f \in Fd : co'[<<"enter", f>>] = co[<<"enter", f>>]
<1>1. co \in [Key -> [pc : CoPc, vic : Fd \cup {Nil}]]
  BY DEF LobbyInv, WorkTypes
<1>2. ASSUME NEW f \in Fd PROVE <<"enter", f>> \in Key /\ <<"enter", f>> # k
  <2>1. <<"enter", f>> \in Key /\ <<"enter", f>>[1] = "enter"
    BY KeyOf
  <2> QED BY <2>1
<1>3. \A f \in Fd : co'[<<"enter", f>>] = co[<<"enter", f>>]
  BY <1>1, <1>2 DEF At, Rest
<1> QED BY <1>3 DEF EnterQuiet

LEMMA OwnerQuiet ==
    ASSUME LobbyInv, NEW f \in Fd, co[<<"enter", f>>].pc \in Active, NEW pc, NEW vic,
           pc \in Before => co[<<"enter", f>>].pc \in Before,
           co' = At(<<"enter", f>>, pc, vic)
    PROVE  /\ EnterQuiet /\ co'[<<"enter", f>>].pc = pc
           /\ \A g \in Fd \ {f} : co'[<<"enter", g>>] = co[<<"enter", g>>]
<1>1. co \in [Key -> [pc : CoPc, vic : Fd \cup {Nil}]]
  BY DEF LobbyInv, WorkTypes
<1>2. ASSUME NEW g \in Fd PROVE <<"enter", g>> \in Key /\ (g # f => <<"enter", g>> # <<"enter", f>>)
  BY KeyOf
<1>3. /\ co'[<<"enter", f>>].pc = pc
      /\ \A g \in Fd : g # f => co'[<<"enter", g>>] = co[<<"enter", g>>]
  BY <1>1, <1>2 DEF At
<1>4. co[<<"enter", f>>].pc # "idle"
  BY DEF Active
<1> QED BY <1>3, <1>4 DEF EnterQuiet

LEMMA LeaverQuiet ==
    ASSUME LobbyInv, NEW f \in Fd, co[<<"enter", f>>].pc \in Active, Release(Rest(<<"enter", f>>))
    PROVE  EnterQuiet
<1>1. /\ co'[<<"enter", f>>].pc = "idle"
      /\ \A g \in Fd \ {f} : \/ co'[<<"enter", g>>] = co[<<"enter", g>>]
                             \/ co[<<"enter", g>>].pc = "section" /\ co'[<<"enter", g>>].pc = "info"
  BY OwnerLeaves
<1>2. co[<<"enter", f>>].pc # "idle"
  BY DEF Active
<1> QED BY <1>1, <1>2 DEF EnterQuiet, Before

(* The letters that are no enter. *)
LEMMA AnswerQuiet ==
    ASSUME NEW k \in Key, NEW ok \in BOOLEAN, dmail' = Append(dmail, Answer(k, ok))
    PROVE  DogQuiet
BY AnswerIs DEF DogQuiet

LEMMA LeaveQuiet ==
    ASSUME NEW k \in Key, NEW f \in Fd, dmail' = Append(dmail, Msg("leave", f, k, TRUE))
    PROVE  DogQuiet
<1> DEFINE m == Msg("leave", f, k, TRUE)
<1>1. "leave" \in Ops /\ f \in Fd \cup {Nil} /\ k \in Key \cup {Nil} /\ TRUE \in BOOLEAN
  BY DEF Ops
<1>2. m \in Mail /\ m.op = "leave"
  BY <1>1 DEF Msg, Mail
<1>3. dmail' = Append(dmail, m)
  OBVIOUS
<1> HIDE DEF m
<1> QED BY <1>2, <1>3 DEF DogQuiet

LEMMA AskQuiet ==
    ASSUME NEW op \in Ops, op # "enter", NEW f \in Fd, NEW k \in Key, Ask(op, f, k)
    PROVE  GateQuiet
<1> DEFINE m == Msg(op, f, k, TRUE)
<1>1. f \in Fd \cup {Nil} /\ k \in Key \cup {Nil} /\ TRUE \in BOOLEAN
  OBVIOUS
<1>2. m \in Mail /\ m.op = op
  BY <1>1 DEF Msg, Mail
<1>3. gmail' = Append(gmail, m)
  BY DEF Ask
<1> HIDE DEF m
<1> QED BY <1>2, <1>3 DEF GateQuiet

LEMMA EventQuiet ==
    ASSUME NEW op \in {"open", "close", "login", "quit"}, NEW f \in Fd
    PROVE  /\ gmail' = Append(gmail, Event(op, f)) => GateQuiet
           /\ dmail' = Append(dmail, Event(op, f)) => DogQuiet
<1>1. Event(op, f) \in Mail /\ Event(op, f).op # "enter"
  BY EventIs
<1> QED BY <1>1 DEF GateQuiet, DogQuiet

(* An enter is served once, before the user is in a room. *)
LEMMA EnterOnceKept ==
    ASSUME LobbyInv, LobbyNext
    PROVE  EnterOnce'
<1>1. UNCHANGED <<gmail, dmail, asked, co, uroom>> => EnterOnce'
  BY DEF LobbyInv, EnterOnce, ServedOnce, Coming
<1>2. ASSUME NEW f \in Fd, GateTimeout(f) PROVE EnterOnce'
  BY <1>2, <1>1 DEF GateTimeout, clientVars, tableVars
<1>3. ASSUME NEW a \in Agent, AgentDisconnect(a) PROVE EnterOnce'
  BY <1>3, <1>1 DEF AgentDisconnect, clientVars, tableVars
<1>4. ASSUME NEW f \in Fd, Connect(f) PROVE EnterOnce'
  <2>1. GateQuiet /\ DogQuiet
    BY <1>4, EventQuiet DEF Connect, DogQuiet
  <2>9. EnterQuiet /\ asked' = asked /\ uroom' = uroom
    BY <1>4 DEF Connect, EnterQuiet, clientVars, tableVars
  <2> QED BY <2>1, <2>9, QuietStep
<1>5. ASSUME NEW f \in Fd, Hangup(f) PROVE EnterOnce'
  <2>1. GateQuiet /\ DogQuiet
    BY <1>5, EventQuiet DEF Hangup, DogQuiet
  <2>9. EnterQuiet /\ asked' = asked /\ uroom' = uroom
    BY <1>5 DEF Hangup, EnterQuiet, clientVars, tableVars
  <2> QED BY <2>1, <2>9, QuietStep
<1>6. ASSUME NEW f \in Fd, NEW what \in {"login", "enter", "quit"}, Request(f, what) PROVE
      EnterOnce'
  <2> DEFINE e(g) == Event("enter", g)
  <2>1. /\ gmail' = Append(gmail, Event(what, f)) /\ what \notin asked[f]
        /\ UNCHANGED <<dmail, co, uroom>>
        /\ asked' = [asked EXCEPT ![f] = @ \cup {what}] /\ gmail \in Seq(Mail)
    BY <1>6 DEF Request, tableVars, LobbyInv, GateMail
  <2>2. SUFFICES ASSUME NEW g \in Fd PROVE ServedOnce(g)'
    BY DEF EnterOnce
  <2>3. ServedOnce(g)
    BY DEF LobbyInv, EnterOnce
  <2>4. Event(what, f) \in Mail /\ Event(what, f).op = what /\ Event(what, f).fd = f
        /\ e(g).op = "enter" /\ e(g).fd = g
    BY EventIs
  <2>5. Range(gmail') = Range(gmail) \cup {Event(what, f)}
    BY <2>1, <2>4, RangeAppend
  <2>6. CASE what = "enter" /\ g = f
    <3>1. e(g) \notin Range(gmail) /\ e(g) \notin Range(dmail)
      BY <2>1, <2>3, <2>6 DEF ServedOnce, Coming
    <3>2. Once(gmail', e(g))
      BY <2>1, <2>3, <2>4, <3>1, OnceAppend DEF ServedOnce
    <3>3. "enter" \in asked'[g]
      BY <2>1, <2>6 DEF LobbyInv, TableTypes
    <3>4. co[<<"enter", g>>].pc = "idle" /\ g \notin uroom
      BY <2>1, <2>3, <2>6 DEF ServedOnce
    <3>5. co'[<<"enter", g>>].pc = "idle" /\ g \notin uroom' /\ dmail' = dmail /\ "idle" \notin
          Before
      BY <2>1, <3>4 DEF Before
    <3> QED BY <2>3, <3>1, <3>2, <3>3, <3>5 DEF ServedOnce, Coming
  <2>7. CASE what # "enter" \/ g # f
    <3>1. e(g) # Event(what, f)
      BY <2>4, <2>7
    <3>2. Once(gmail', e(g))
      BY <2>1, <2>3, <2>4, <3>1, OnceAppend DEF ServedOnce
    <3>3. "enter" \in asked'[g] <=> "enter" \in asked[g]
      BY <2>1, <2>7 DEF LobbyInv, TableTypes
    <3>4. e(g) \in Range(gmail') => e(g) \in Range(gmail)
      BY <2>5, <3>1
    <3>5. Once(dmail', e(g))
      BY <2>1, <2>3 DEF ServedOnce
    <3> QED BY <2>1, <3>2, <3>3, <3>4, <3>5, QuietFor
  <2> QED BY <2>6, <2>7
<1>7. ASSUME NEW f \in Fd, SocketOpened(f) PROVE EnterOnce'
  <2>1. <<"open", f>> \in Key /\ <<"open", f>>[1] = "open" /\ co' = Rest(<<"open", f>>)
    BY <1>7, KeyOf DEF SocketOpened
  <2>2. EnterQuiet
    BY <2>1, OthersQuiet
  <2>3. GateQuiet /\ DogQuiet /\ asked' = asked /\ uroom' = uroom
    BY <1>7 DEF SocketOpened, Resumes, DogServes, GateQuiet, DogQuiet, clientVars
  <2> QED BY <2>2, <2>3, QuietStep
<1>8. ASSUME NEW f \in Fd, LoginFails(f) PROVE EnterOnce'
  <2>1. <<"login", f>> \in Key /\ <<"login", f>>[1] = "login" /\ co' = Rest(<<"login", f>>)
    BY <1>8, KeyOf DEF LoginFails
  <2>2. EnterQuiet
    BY <2>1, OthersQuiet
  <2>3. GateQuiet /\ DogQuiet /\ asked' = asked /\ uroom' = uroom
    BY <1>8 DEF LoginFails, GateQuiet, DogQuiet, clientVars, tableVars
  <2> QED BY <2>2, <2>3, QuietStep
<1>9. ASSUME NEW f \in Fd, LoginAccepted(f) PROVE EnterOnce'
  <2>1. <<"login", f>> \in Key /\ <<"login", f>>[1] = "login" /\ "kick" \in Ops
    BY KeyOf DEF Ops
  <2>2. co' = At(<<"login", f>>, "kick", users[owner[f]]) \/ co' = Rest(<<"login", f>>)
    BY <1>9, <2>1 DEF LoginAccepted, Returned
  <2>3. EnterQuiet
    BY <2>1, <2>2, OthersQuiet
  <2>4. gmail' = gmail \/ (users[owner[f]] \in Fd /\ Ask("kick", users[owner[f]], <<"login", f>>))
    BY <1>9 DEF LoginAccepted, LobbyInv, TableTypes
  <2>5. GateQuiet
    BY <2>1, <2>4, AskQuiet DEF GateQuiet
  <2>6. DogQuiet /\ asked' = asked /\ uroom' = uroom
    BY <1>9 DEF LoginAccepted, DogQuiet, clientVars
  <2> QED BY <2>3, <2>5, <2>6, QuietStep
<1>10. ASSUME NEW f \in Fd, EnterFails(f) PROVE EnterOnce'
  <2>1. EnterQuiet
    BY <1>10, LeaverQuiet DEF EnterFails, Active
  <2>2. GateQuiet /\ DogQuiet /\ asked' = asked /\ uroom' = uroom
    BY <1>10 DEF EnterFails, GateQuiet, DogQuiet, clientVars, tableVars
  <2> QED BY <2>1, <2>2, QuietStep
<1>11. ASSUME NEW f \in Fd, EnterAgent(f) PROVE EnterOnce'
  <2>1. co[<<"enter", f>>].pc \in Active \cap Before /\ \E pc : co' = At(<<"enter", f>>, pc, Nil)
    BY <1>11 DEF EnterAgent, Active, Before
  <2>2. EnterQuiet
    BY <2>1, OwnerQuiet
  <2>3. GateQuiet /\ DogQuiet /\ asked' = asked /\ uroom' = uroom
    BY <1>11 DEF EnterAgent, GateQuiet, DogQuiet, clientVars, tableVars
  <2> QED BY <2>2, <2>3, QuietStep
<1>12. ASSUME NEW f \in Fd, NEW a \in Agent, EnterLaunched(f, a) PROVE EnterOnce'
  <2>1. co[<<"enter", f>>].pc \in Active \cap Before /\ co' = At(<<"enter", f>>, "cache", Nil)
    BY <1>12 DEF EnterLaunched, Active, Before
  <2>2. EnterQuiet
    BY <2>1, OwnerQuiet
  <2>3. GateQuiet /\ DogQuiet /\ asked' = asked /\ uroom' = uroom
    BY <1>12 DEF EnterLaunched, GateQuiet, DogQuiet, clientVars, tableVars
  <2> QED BY <2>2, <2>3, QuietStep
<1>13. ASSUME NEW f \in Fd, EnterNotLaunched(f) PROVE EnterOnce'
  <2>1. co[<<"enter", f>>].pc \in Active \cap Before
    BY <1>13 DEF EnterNotLaunched, Active, Before
  <2>2. co' = At(<<"enter", f>>, "kick", f) \/ co' = At(<<"enter", f>>, "cache", Nil)
    BY <1>13 DEF EnterNotLaunched
  <2>3. EnterQuiet
    BY <2>1, <2>2, OwnerQuiet
  <2>4. <<"enter", f>> \in Key /\ "kick" \in Ops /\ (gmail' = gmail \/ Ask("kick", f, <<"enter",
        f>>))
    BY <1>13, KeyOf DEF EnterNotLaunched, Ops
  <2>5. GateQuiet
    BY <2>4, AskQuiet DEF GateQuiet
  <2>6. DogQuiet /\ asked' = asked /\ uroom' = uroom
    BY <1>13 DEF EnterNotLaunched, DogQuiet, clientVars, tableVars
  <2> QED BY <2>3, <2>5, <2>6, QuietStep
<1>14. ASSUME NEW f \in Fd, EnterMember(f) PROVE EnterOnce'
  <2>1. co[<<"enter", f>>].pc \in Active /\ co[<<"enter", f>>].pc # "idle"
    BY <1>14 DEF EnterMember, Active
  <2>2. EnterQuiet /\ co'[<<"enter", f>>].pc \notin Before
    <3>1. CASE agent = Nil
      BY <1>14, <2>1, <3>1, LeaverQuiet, OwnerLeaves DEF EnterMember, Before
    <3>2. CASE agent # Nil
      <4>1. co' = At(<<"enter", f>>, "start", Nil) /\ "start" \notin Before
        BY <1>14, <3>2 DEF EnterMember, Before
      <4> QED BY <2>1, <4>1, OwnerQuiet
    <3> QED BY <3>1, <3>2
  <2>3. GateQuiet /\ DogQuiet /\ asked' = asked /\ uroom' = uroom \cup {f}
    BY <1>14 DEF EnterMember, GateQuiet, DogQuiet, clientVars
  <2>4. \A g \in uroom' \ uroom : co[<<"enter", g>>].pc # "idle" /\ co'[<<"enter", g>>].pc \notin
        Before
    BY <2>1, <2>2, <2>3
  <2> QED BY <2>2, <2>3, <2>4, QuietStep
<1>15. ASSUME NEW f \in Fd, Entered(f) PROVE EnterOnce'
  <2>1. EnterQuiet
    BY <1>15, LeaverQuiet DEF Entered, Resumes, Active
  <2>2. GateQuiet /\ DogQuiet /\ asked' = asked /\ uroom' = uroom
    BY <1>15 DEF Entered, Resumes, DogServes, GateQuiet, DogQuiet, clientVars, tableVars
  <2> QED BY <2>1, <2>2, QuietStep
<1>16. ASSUME GateOpen PROVE EnterOnce'
  <2> DEFINE f == Head(gmail).fd
  <2>1. f \in Fd
    BY <1>16, GateHead DEF GateOpen, GateServes, LobbyInv, GateLetter, IsEvent
  <2>2. dmail' = Append(dmail, Event("open", f))
    BY <1>16 DEF GateOpen
  <2> HIDE DEF f
  <2>7. DogQuiet
    BY <2>1, <2>2, EventQuiet
  <2>8. GateQuiet
    BY <1>16 DEF GateOpen, GateServes, GateQuiet
  <2>9. EnterQuiet /\ asked' = asked /\ uroom' = uroom
    BY <1>16 DEF GateOpen, EnterQuiet, clientVars, tableVars
  <2> QED BY <2>7, <2>8, <2>9, QuietStep
<1>17. ASSUME GateAccept PROVE EnterOnce'
  <2> DEFINE m == Head(gmail)
             ok == conn[m.fd] # "none"
  <2>1. m.key \in Key
    <3>1. m.fd \in Fd /\ m.key = <<"open", m.fd>>
      BY <1>17, GateHead DEF GateAccept, GateServes, LobbyInv, GateLetter, IsEvent
    <3> HIDE DEF m
    <3>2. <<"open", m.fd>> \in Key
      BY <3>1, KeyOf
    <3> QED BY <3>1, <3>2
  <2>2. dmail' = Append(dmail, Answer(m.key, ok)) /\ ok \in BOOLEAN
    BY <1>17 DEF GateAccept
  <2> HIDE DEF m, ok
  <2>7. DogQuiet
    BY <2>1, <2>2, AnswerQuiet
  <2>8. GateQuiet
    BY <1>17 DEF GateAccept, GateServes, GateQuiet
  <2>9. EnterQuiet /\ asked' = asked /\ uroom' = uroom
    BY <1>17 DEF GateAccept, EnterQuiet, clientVars, tableVars
  <2> QED BY <2>7, <2>8, <2>9, QuietStep
<1>18. ASSUME GateKick PROVE EnterOnce'
  <2> DEFINE m == Head(gmail)
  <2>1. m.key \in Key
    BY <1>18, GateHead, KeyOf DEF GateKick, GateServes, LobbyInv, GateLetter, IsEvent, Key
  <2>2. dmail' = Append(dmail, Answer(m.key, TRUE))
    BY <1>18 DEF GateKick
  <2> HIDE DEF m
  <2>7. DogQuiet
    BY <2>1, <2>2, AnswerQuiet
  <2>8. GateQuiet
    BY <1>18 DEF GateKick, GateServes, GateQuiet
  <2>9. EnterQuiet /\ asked' = asked /\ uroom' = uroom
    BY <1>18 DEF GateKick, EnterQuiet, clientVars, tableVars
  <2> QED BY <2>7, <2>8, <2>9, QuietStep
<1>19. ASSUME GateForward PROVE EnterOnce'
  <2>7. DogQuiet
    BY <1>19 DEF GateForward, DogQuiet
  <2>8. GateQuiet
    BY <1>19 DEF GateForward, GateServes, GateQuiet
  <2>9. EnterQuiet /\ asked' = asked /\ uroom' = uroom
    BY <1>19 DEF GateForward, EnterQuiet, clientVars, tableVars
  <2> QED BY <2>7, <2>8, <2>9, QuietStep
<1>20. ASSUME GateData PROVE EnterOnce'
  <2> DEFINE m == Head(gmail)
  <2>1. m \in Mail /\ IsEvent(m) /\ m \in Range(gmail) /\ gmail # << >> /\ gmail' = Tail(gmail)
    BY <1>20, GateHead DEF GateData, GateServes, LobbyInv, GateLetter
  <2>2. (dmail' = dmail \/ dmail' = Append(dmail, m)) /\ UNCHANGED <<asked, co, uroom>>
    BY <1>20 DEF GateData, clientVars, tableVars
  <2>3. gmail \in Seq(Mail) /\ dmail \in Seq(Mail)
    BY DEF LobbyInv, GateMail, DogMail
  <2>4. SUFFICES ASSUME NEW g \in Fd PROVE ServedOnce(g)'
    BY DEF EnterOnce
  <2> DEFINE e == Event("enter", g)
  <2>5. ServedOnce(g)
    BY DEF LobbyInv, EnterOnce
  <2>6. Once(gmail', e) /\ (m = e => e \notin Range(gmail')) /\ Range(gmail') \subseteq Range(gmail)
    <3>1. Once(gmail, e)
      BY <2>5 DEF ServedOnce
    <3> HIDE DEF e
    <3> QED BY <2>1, <2>3, <3>1, OnceTail, RangeTail
  <2>7. /\ Range(dmail') \subseteq Range(dmail) \cup {m}
        /\ m = e => e \notin Range(dmail)
    <3>1. dmail' = Append(dmail, m) => Range(dmail') = Range(dmail) \cup {m}
      BY <2>1, <2>3, RangeAppend
    <3>2. m = e => e \notin Range(dmail)
      BY <2>1, <2>5 DEF ServedOnce
    <3> QED BY <2>2, <3>1, <3>2
  <2>8. Once(dmail', e)
    <3>1. Once(dmail, e)
      BY <2>5 DEF ServedOnce
    <3>2. m # e \/ e \notin Range(dmail)
      BY <2>7
    <3> HIDE DEF e, m
    <3> QED BY <2>1, <2>2, <2>3, <3>1, <3>2, OnceAppend
  <2>9. CASE m = e
    <3>1. e \notin Range(gmail') /\ Coming(g)
      BY <2>1, <2>6, <2>9 DEF Coming
    <3>2. "enter" \in asked[g] /\ co[<<"enter", g>>].pc = "idle" /\ g \notin uroom
      BY <2>5, <3>1 DEF ServedOnce
    <3>3. "enter" \in asked'[g] /\ co'[<<"enter", g>>].pc = "idle" /\ g \notin uroom'
      BY <2>2, <3>2
    <3> QED BY <2>6, <2>8, <3>1, <3>3 DEF ServedOnce
  <2>10. CASE m # e
    <3>1. e \in Range(dmail') => e \in Range(dmail)
      BY <2>2, <2>7, <2>10
    <3>2. e \in Range(gmail') => e \in Range(gmail)
      BY <2>6
    <3> QED BY <2>2, <2>6, <2>8, <3>1, <3>2, QuietFor
  <2> QED BY <2>9, <2>10
<1>21. ASSUME GateClose PROVE EnterOnce'
  <2> DEFINE f == Head(gmail).fd
  <2>1. f \in Fd
    BY <1>21, GateHead DEF GateClose, GateServes, LobbyInv, GateLetter, IsEvent
  <2>2. dmail' = Append(dmail, Event("close", f))
    BY <1>21 DEF GateClose
  <2> HIDE DEF f
  <2>7. DogQuiet
    BY <2>1, <2>2, EventQuiet
  <2>8. GateQuiet
    BY <1>21 DEF GateClose, GateServes, GateQuiet
  <2>9. EnterQuiet /\ asked' = asked /\ uroom' = uroom
    BY <1>21 DEF GateClose, EnterQuiet, clientVars, tableVars
  <2> QED BY <2>7, <2>8, <2>9, QuietStep
<1>22. ASSUME SocketOpen PROVE EnterOnce'
  <2> DEFINE f == Head(dmail).fd
  <2>1. f \in Fd
    BY <1>22, DogHead DEF SocketOpen, DogServes, LobbyInv, DogLetter, IsEvent
  <2>2. <<"open", f>> \in Key /\ <<"open", f>>[1] = "open"
    BY <2>1, KeyOf
  <2>3. co' = co \/ co' = At(<<"open", f>>, "accept", Nil)
    BY <1>22 DEF SocketOpen
  <2>4. Ask("accept", f, <<"open", f>>)
    BY <1>22 DEF SocketOpen
  <2>5. DogQuiet /\ asked' = asked /\ uroom' = uroom
    BY <1>22 DEF SocketOpen, DogServes, DogQuiet, clientVars, tableVars
  <2> HIDE DEF f
  <2>6. EnterQuiet
    BY <2>2, <2>3, OthersQuiet
  <2>7. GateQuiet
    <3>1. {"accept", "kick"} \subseteq Ops
      BY DEF Ops
    <3> QED BY <2>1, <2>2, <2>4, <3>1, AskQuiet DEF GateQuiet
  <2> QED BY <2>5, <2>6, <2>7, QuietStep
<1>23. ASSUME SocketClose PROVE EnterOnce'
  <2> DEFINE f == Head(dmail).fd
  <2>1. f \in Fd
    BY <1>23, DogHead DEF SocketClose, DogServes, LobbyInv, DogLetter, IsEvent
  <2>2. <<"close", f>> \in Key /\ <<"close", f>>[1] = "close"
    BY <2>1, KeyOf
  <2>3. co' = co \/ co' = At(<<"close", f>>, "kick", f)
    BY <1>23 DEF SocketClose
  <2>4. gmail' = gmail \/ Ask("kick", f, <<"close", f>>)
    BY <1>23 DEF SocketClose
  <2>5. DogQuiet /\ asked' = asked /\ uroom' = uroom
    BY <1>23 DEF SocketClose, DogServes, DogQuiet, clientVars, tableVars
  <2> HIDE DEF f
  <2>6. EnterQuiet
    BY <2>2, <2>3, OthersQuiet
  <2>7. GateQuiet
    <3>1. {"accept", "kick"} \subseteq Ops
      BY DEF Ops
    <3> QED BY <2>1, <2>2, <2>4, <3>1, AskQuiet DEF GateQuiet
  <2> QED BY <2>5, <2>6, <2>7, QuietStep
<1>24. ASSUME Login PROVE EnterOnce'
  <2> DEFINE f == Head(dmail).fd
  <2>1. f \in Fd
    BY <1>24, DogHead DEF Login, DogServes, LobbyInv, DogLetter, IsEvent
  <2>2. <<"login", f>> \in Key /\ <<"login", f>>[1] = "login"
    BY <2>1, KeyOf
  <2>3. co' = co \/ co' = At(<<"login", f>>, "account", Nil)
    BY <1>24 DEF Login
  <2>4. gmail' = gmail
    BY <1>24 DEF Login
  <2>5. DogQuiet /\ asked' = asked /\ uroom' = uroom
    BY <1>24 DEF Login, DogServes, DogQuiet, clientVars, tableVars
  <2> HIDE DEF f
  <2>6. EnterQuiet
    BY <2>2, <2>3, OthersQuiet
  <2>7. GateQuiet
    <3>1. {"accept", "kick"} \subseteq Ops
      BY DEF Ops
    <3> QED BY <2>1, <2>2, <2>4, <3>1, AskQuiet DEF GateQuiet
  <2> QED BY <2>5, <2>6, <2>7, QuietStep
<1>25. ASSUME EnterRoom PROVE EnterOnce'
  <2> DEFINE f == Head(dmail).fd
  <2>1. /\ Head(dmail) \in Mail /\ IsEvent(Head(dmail)) /\ Head(dmail).op = "enter"
        /\ Head(dmail) \in Range(dmail) /\ dmail # << >> /\ dmail' = Tail(dmail)
    BY <1>25, DogHead DEF EnterRoom, DogServes, LobbyInv, DogLetter
  <2>2. f \in Fd /\ Event("enter", f) = Head(dmail)
    BY <2>1, EventUnique DEF IsEvent
  <2>3. UNCHANGED <<gmail, asked, uroom>>
    BY <1>25 DEF EnterRoom, clientVars, tableVars
  <2>4. SUFFICES ASSUME NEW g \in Fd PROVE ServedOnce(g)'
    BY DEF EnterOnce
  <2> DEFINE e == Event("enter", g)
  <2>5. ServedOnce(g)
    BY DEF LobbyInv, EnterOnce
  <2>6. Once(dmail', e) /\ (Head(dmail) = e => e \notin Range(dmail')) /\ Range(dmail') \subseteq
        Range(dmail)
    <3>1. Once(dmail, e) /\ dmail \in Seq(Mail)
      BY <2>5 DEF ServedOnce, LobbyInv, DogMail
    <3> HIDE DEF e
    <3> QED BY <2>1, <3>1, OnceTail, RangeTail
  <2>7. CASE g = f
    <3>1. e = Head(dmail) /\ e \in Range(dmail) /\ Coming(g)
      BY <2>1, <2>2, <2>7 DEF Coming
    <3>2. e \notin Range(gmail') /\ e \notin Range(dmail')
      BY <2>3, <2>5, <2>6, <3>1 DEF ServedOnce
    <3>3. "enter" \in asked'[g] /\ g \notin uroom'
      BY <2>3, <2>5, <3>1 DEF ServedOnce
    <3>4. Once(gmail', e)
      BY <2>3, <2>5 DEF ServedOnce
    <3> QED BY <2>6, <3>2, <3>3, <3>4 DEF ServedOnce, Coming
  <2>8. CASE g # f
    <3>1. co'[<<"enter", g>>] = co[<<"enter", g>>]
      <4>1. \E pc : co' = At(<<"enter", f>>, pc, Nil) \/ co' = co
        BY <1>25 DEF EnterRoom
      <4>2. <<"enter", g>> \in Key /\ <<"enter", g>> # <<"enter", f>>
        BY <2>2, <2>8, KeyOf
      <4>3. co \in [Key -> [pc : CoPc, vic : Fd \cup {Nil}]]
        BY DEF LobbyInv, WorkTypes
      <4> HIDE DEF f
      <4> QED BY <4>1, <4>2, <4>3 DEF At
    <3>2. Once(gmail', e)
      BY <2>3, <2>5 DEF ServedOnce
    <3>3. e \in Range(dmail') => e \in Range(dmail)
      BY <2>6
    <3> QED BY <2>3, <2>6, <3>1, <3>2, <3>3, QuietFor
  <2> QED BY <2>7, <2>8
<1>26. ASSUME ExitMember PROVE EnterOnce'
  <2>1. DogQuiet
    <3>1. dmail # << >>
      BY <1>26 DEF ExitMember
    <3>2. CASE dmail' = Tail(dmail)
      BY <3>1, <3>2 DEF DogQuiet
    <3>3. CASE agent # Nil /\ Kill(agent, Tail(dmail))
      <4>1. agent \in Agent /\ Tail(dmail) \in Seq(Mail)
        BY <3>1, <3>3, DogHead DEF LobbyInv, AgentInv, WorkTypes
      <4>2. PICK r \in Seq(Mail) :
              /\ dmail' = Tail(dmail) \o r
              /\ \A m \in Range(r) : \E l \in Range(amail[agent]) :
                    /\ l.op \in {"start", "disconnect"} /\ l.key \in Key /\ l.key[1] # "open"
                    /\ m = Answer(l.key, FALSE)
        BY <3>3, <4>1, KillAnswers
      <4>3. ASSUME NEW m \in Range(r) PROVE m.op # "enter"
        <5>1. PICK l \in Range(amail[agent]) : l.key \in Key /\ m = Answer(l.key, FALSE)
          BY <4>2
        <5> QED BY <5>1, AnswerIs
      <4> QED BY <3>1, <4>2, <4>3 DEF DogQuiet
    <3> QED BY <1>26, <3>2, <3>3 DEF ExitMember, Exit
  <2>2. GateQuiet /\ EnterQuiet /\ asked' = asked
    BY <1>26 DEF ExitMember, Exit, GateQuiet, EnterQuiet, clientVars
  <2>3. uroom' \subseteq uroom
    BY <1>26 DEF ExitMember, Exit
  <2> QED BY <2>1, <2>2, <2>3, QuietStep
<1>27. ASSUME DogRefuses PROVE EnterOnce'
  <2>1. GateQuiet /\ DogQuiet /\ EnterQuiet /\ asked' = asked /\ uroom' = uroom
    BY <1>27 DEF DogRefuses, DogServes, GateQuiet, DogQuiet, EnterQuiet, clientVars, tableVars
  <2> QED BY <2>1, QuietStep
<1>28. ASSUME NEW k \in Key, Kicked(k) PROVE EnterOnce'
  <2>1. GateQuiet /\ DogQuiet /\ asked' = asked /\ uroom' = uroom
    BY <1>28 DEF Kicked, Resumes, DogServes, GateQuiet, DogQuiet, clientVars
  <2>2. CASE k[1] = "enter"
    <3>1. k = <<"enter", k[2]>> /\ k[2] \in Fd
      BY <2>2, KeyIs
    <3>2. co' = At(k, "cache", Nil) /\ co[k].pc \in Active \cap Before
      BY <1>28, <2>2, KickedMoves DEF Active, Before
    <3>3. EnterQuiet
      BY <3>1, <3>2, OwnerQuiet
    <3> QED BY <2>1, <3>3, QuietStep
  <2>3. CASE k[1] # "enter"
    <3>1. co' = At(k, "disconnect", co[k].vic) \/ co' = Rest(k)
      BY <1>28, <2>3, KickedMoves
    <3>2. EnterQuiet
      BY <2>3, <3>1, OthersQuiet
    <3> QED BY <2>1, <3>2, QuietStep
  <2> QED BY <2>2, <2>3
<1>29. ASSUME NEW k \in Key, Reported(k) PROVE EnterOnce'
  <2>1. k[1] # "enter"
    BY <1>29, WaitsKey DEF Reported, Resumes
  <2>2. co' = Rest(k)
    BY <1>29, <2>1 DEF Forget, Returned, Reported
  <2>3. EnterQuiet
    BY <2>1, <2>2, OthersQuiet
  <2>4. GateQuiet /\ DogQuiet /\ asked' = asked /\ uroom' = uroom
    BY <1>29 DEF Reported, Resumes, DogServes, GateQuiet, DogQuiet, clientVars, tableVars
  <2> QED BY <2>3, <2>4, QuietStep
<1>30. ASSUME NEW k \in Key, CloseRaises(k) PROVE EnterOnce'
  <2>1. k[1] # "enter"
    BY <1>30, WaitsKey DEF CloseRaises, Resumes
  <2>2. co' = Rest(k)
    BY <1>30, <2>1 DEF CloseRaises
  <2>3. EnterQuiet
    BY <2>1, <2>2, OthersQuiet
  <2>4. GateQuiet /\ DogQuiet /\ asked' = asked /\ uroom' = uroom
    BY <1>30 DEF CloseRaises, Resumes, DogServes, GateQuiet, DogQuiet, clientVars, tableVars
  <2> QED BY <2>3, <2>4, QuietStep
<1>31. ASSUME NEW k \in Key, AgentPeople(k) PROVE EnterOnce'
  <2>1. DogQuiet
    <3>1. CASE Reply(k, TRUE)
      BY <3>1, AnswerQuiet DEF Reply
    <3>2. CASE ag[k].fd # Nil /\ dmail' = Append(dmail, Msg("leave", ag[k].fd, k, TRUE))
      <4>1. ag[k].fd \in Fd
        BY <3>2 DEF LobbyInv, WorkTypes
      <4> QED BY <3>2, <4>1, LeaveQuiet
    <3> QED BY <1>31, <3>1, <3>2 DEF AgentPeople
  <2>2. GateQuiet
    BY <1>31 DEF AgentPeople, GateQuiet
  <2>9. EnterQuiet /\ asked' = asked /\ uroom' = uroom
    BY <1>31 DEF AgentPeople, EnterQuiet, clientVars, tableVars
  <2> QED BY <2>1, <2>2, <2>9, QuietStep
<1>32. ASSUME NEW a \in Agent, AgentStart(a) PROVE EnterOnce'
  <2> DEFINE m == Head(amail[a])
  <2>1. m.key \in Key /\ m.fd \in Fd \cup {Nil}
    BY <1>32, AgentHead DEF AgentStart, AgentServes, LobbyInv, AgentLetter, IsEvent, Mail, Key
  <2>2. dmail' = dmail \/ dmail' = Append(dmail, Answer(m.key, TRUE))
    BY <1>32 DEF AgentStart, Reply
  <2>3. gmail' = gmail \/ (m.fd # Nil /\ Ask("forward", m.fd, m.key))
    BY <1>32 DEF AgentStart
  <2>9. EnterQuiet /\ asked' = asked /\ uroom' = uroom
    BY <1>32 DEF AgentStart, EnterQuiet, clientVars, tableVars
  <2> HIDE DEF m
  <2>4. DogQuiet
    BY <2>1, <2>2, AnswerQuiet DEF DogQuiet
  <2>5. GateQuiet
    <3>1. "forward" \in Ops
      BY DEF Ops
    <3> QED BY <2>1, <2>3, <3>1, AskQuiet DEF GateQuiet
  <2> QED BY <2>4, <2>5, <2>9, QuietStep
<1>33. ASSUME NEW a \in Agent, AgentLogin(a) PROVE EnterOnce'
  <2> DEFINE m == Head(amail[a])
  <2>1. m.key \in Key /\ m.fd \in Fd \cup {Nil}
    BY <1>33, AgentHead DEF AgentLogin, AgentServes, LobbyInv, AgentLetter, IsEvent, Mail, Key
  <2>2. dmail' = dmail \/ dmail' = Append(dmail, Answer(m.key, FALSE))
    BY <1>33 DEF AgentLogin, Reply
  <2>3. gmail' = gmail
    BY <1>33 DEF AgentLogin
  <2>9. EnterQuiet /\ asked' = asked /\ uroom' = uroom
    BY <1>33 DEF AgentLogin, EnterQuiet, clientVars, tableVars
  <2> HIDE DEF m
  <2>4. DogQuiet
    BY <2>1, <2>2, AnswerQuiet DEF DogQuiet
  <2>5. GateQuiet
    BY <2>3 DEF GateQuiet
  <2> QED BY <2>4, <2>5, <2>9, QuietStep
<1>34. ASSUME NEW a \in Agent, AgentQuit(a) PROVE EnterOnce'
  <2> DEFINE f == Head(amail[a]).fd
  <2>1. f \in Fd /\ <<"quit", f>> \in Key
    BY <1>34, AgentHead, KeyOf DEF AgentQuit, AgentServes, LobbyInv, AgentLetter, IsEvent
  <2>2. dmail' = dmail \/ dmail' = Append(dmail, Msg("leave", f, <<"quit", f>>, TRUE))
    BY <1>34 DEF AgentQuit
  <2>3. GateQuiet
    BY <1>34 DEF AgentQuit, GateQuiet
  <2>9. EnterQuiet /\ asked' = asked /\ uroom' = uroom
    BY <1>34 DEF AgentQuit, EnterQuiet, clientVars, tableVars
  <2> HIDE DEF f
  <2>4. DogQuiet
    BY <2>1, <2>2, LeaveQuiet DEF DogQuiet
  <2> QED BY <2>3, <2>4, <2>9, QuietStep
<1>35. ASSUME NEW a \in Agent, AgentLeft(a) PROVE EnterOnce'
  <2> DEFINE m == Head(amail[a])
  <2>1. m.key \in Key /\ m.fd \in Fd \cup {Nil}
    BY <1>35, AgentHead DEF AgentLeft, AgentServes, LobbyInv, AgentLetter, IsEvent, Mail, Key
  <2>2. dmail' = dmail \/ dmail' = Append(dmail, Answer(m.key, TRUE))
    BY <1>35 DEF AgentLeft, Reply
  <2>3. gmail' = gmail
    BY <1>35 DEF AgentLeft
  <2>9. EnterQuiet /\ asked' = asked /\ uroom' = uroom
    BY <1>35 DEF AgentLeft, EnterQuiet, clientVars, tableVars
  <2> HIDE DEF m
  <2>4. DogQuiet
    BY <2>1, <2>2, AnswerQuiet DEF DogQuiet
  <2>5. GateQuiet
    BY <2>3 DEF GateQuiet
  <2> QED BY <2>4, <2>5, <2>9, QuietStep
<1> QED
  BY <1>2, <1>3, <1>4, <1>5, <1>6, <1>7, <1>8, <1>9, <1>10, <1>11, <1>12, <1>13, <1>14, <1>15,
     <1>16, <1>17, <1>18, <1>19, <1>20, <1>21, <1>22, <1>23, <1>24, <1>25, <1>26, <1>27, <1>28,
     <1>29, <1>30, <1>31, <1>32, <1>33, <1>34, <1>35 DEF LobbyNext

-----------------------------------------------------------------------------
(* The room's agent and its members.                                       *)

LEMMA AgentStays ==
    ASSUME LobbyInv, UNCHANGED <<agent, alive>>,
           \A f \in Fd : co'[<<"enter", f>>].pc = "launch" => co[<<"enter", f>>].pc = "launch"
    PROVE  AgentInv'
BY DEF LobbyInv, AgentInv, OneAgent

(* At most one agent runs, and the room knows it. *)
LEMMA AgentInvKept ==
    ASSUME LobbyInv, LobbyNext
    PROVE  AgentInv'
<1>1. UNCHANGED <<agent, alive, co>> => AgentInv'
  BY DEF LobbyInv, AgentInv, OneAgent
<1>2. ASSUME NEW f \in Fd, Connect(f) \/ Hangup(f) \/ GateTimeout(f) PROVE AgentInv'
  BY <1>2, <1>1 DEF Connect, Hangup, GateTimeout, roomVars, agentVars
<1>3. ASSUME NEW f \in Fd, NEW what \in {"login", "enter", "quit"}, Request(f, what) PROVE AgentInv'
  BY <1>3, <1>1 DEF Request, roomVars, agentVars
<1>4. ASSUME GateOpen \/ GateAccept \/ GateKick \/ GateForward PROVE AgentInv'
  BY <1>4, <1>1 DEF GateOpen, GateAccept, GateKick, GateForward, roomVars, agentVars
<1>5. ASSUME GateData \/ GateClose \/ DogRefuses PROVE AgentInv'
  BY <1>5, <1>1 DEF GateData, GateClose, DogRefuses, roomVars, agentVars
<1>6. ASSUME NEW k \in Key, AgentPeople(k) PROVE AgentInv'
  BY <1>6, <1>1 DEF AgentPeople, roomVars, agentVars
<1>7. ASSUME NEW a \in Agent, AgentStart(a) \/ AgentLogin(a) \/ AgentDisconnect(a) \/ AgentQuit(a)
      PROVE AgentInv'
  BY <1>7, <1>1 DEF AgentStart, AgentLogin, AgentDisconnect, AgentQuit, roomVars, agentVars
<1>8. ASSUME NEW a \in Agent, AgentLeft(a) PROVE AgentInv'
  BY <1>8, <1>1 DEF AgentLeft, roomVars, agentVars
<1>9. ASSUME NEW f \in Fd, SocketOpened(f) PROVE AgentInv'
  <2>1. <<"open", f>> \in Key /\ <<"open", f>>[1] = "open"
    BY KeyOf
  <2>2. UNCHANGED <<agent, alive>> /\ (co' = Rest(<<"open", f>>))
    BY <1>9, <2>1 DEF SocketOpened, Returned, roomVars, agentVars
  <2>3. \A g \in Fd : co'[<<"enter", g>>] = co[<<"enter", g>>]
    BY <2>1, <2>2, OthersQuiet
  <2> QED BY <2>2, <2>3, AgentStays
<1>10. ASSUME NEW f \in Fd, LoginFails(f) PROVE AgentInv'
  <2>1. <<"login", f>> \in Key /\ <<"login", f>>[1] = "login"
    BY KeyOf
  <2>2. UNCHANGED <<agent, alive>> /\ (co' = Rest(<<"login", f>>))
    BY <1>10, <2>1 DEF LoginFails, Returned, roomVars, agentVars
  <2>3. \A g \in Fd : co'[<<"enter", g>>] = co[<<"enter", g>>]
    BY <2>1, <2>2, OthersQuiet
  <2> QED BY <2>2, <2>3, AgentStays
<1>11. ASSUME NEW f \in Fd, LoginAccepted(f) PROVE AgentInv'
  <2>1. <<"login", f>> \in Key /\ <<"login", f>>[1] = "login"
    BY KeyOf
  <2>2. UNCHANGED <<agent, alive>> /\ (co' = At(<<"login", f>>, "kick", users[owner[f]]) \/ co' =
        Rest(<<"login", f>>))
    BY <1>11, <2>1 DEF LoginAccepted, Returned, roomVars, agentVars
  <2>3. \A g \in Fd : co'[<<"enter", g>>] = co[<<"enter", g>>]
    BY <2>1, <2>2, OthersQuiet
  <2> QED BY <2>2, <2>3, AgentStays
<1>12. ASSUME NEW f \in Fd, EnterFails(f) PROVE AgentInv'
  <2>1. co[<<"enter", f>>].pc \in Active /\ Release(Rest(<<"enter", f>>)) /\ UNCHANGED <<agent,
        alive>>
    BY <1>12 DEF EnterFails, Resumes, Active, roomVars, agentVars
  <2>2. \A g \in Fd : co'[<<"enter", g>>].pc = "launch" => co[<<"enter", g>>].pc = "launch"
    BY <2>1, OwnerLeaves
  <2> QED BY <2>1, <2>2, AgentStays
<1>13. ASSUME NEW f \in Fd, EnterAgent(f) PROVE AgentInv'
  <2>1. co[<<"enter", f>>].pc \in Active \cap Before /\ UNCHANGED <<agent, alive>>
    BY <1>13 DEF EnterAgent, Active, Before, roomVars, agentVars
  <2>2. CASE agent = Nil
    BY <2>1, <2>2 DEF LobbyInv, AgentInv, OneAgent
  <2>3. CASE agent # Nil
    <3>1. co' = At(<<"enter", f>>, "cache", Nil)
      BY <1>13, <2>3 DEF EnterAgent
    <3>2. co'[<<"enter", f>>].pc = "cache" /\ \A g \in Fd \ {f} : co'[<<"enter", g>>] =
          co[<<"enter", g>>]
      BY <2>1, <3>1, OwnerQuiet
    <3> QED BY <2>1, <3>2, AgentStays
  <2> QED BY <2>2, <2>3
<1>14. ASSUME NEW f \in Fd, NEW a \in Agent, EnterLaunched(f, a) PROVE AgentInv'
  <2>1. co[<<"enter", f>>].pc \in Active \cap Before /\ co[<<"enter", f>>].pc = "launch"
        /\ agent' = a /\ alive' = alive \cup {a} /\ co' = At(<<"enter", f>>, "cache", Nil)
    BY <1>14 DEF EnterLaunched, Active, Before
  <2>2. agent = Nil /\ alive \subseteq {agent} /\ alive \subseteq Agent
    BY <2>1 DEF LobbyInv, AgentInv, OneAgent, WorkTypes
  <2>3. alive = {}
    BY <2>2, LobbyAssumption
  <2>4. co'[<<"enter", f>>].pc = "cache" /\ \A g \in Fd \ {f} : co'[<<"enter", g>>] =
        co[<<"enter", g>>]
    BY <2>1, OwnerQuiet
  <2>5. \A g \in Fd \ {f} : co[<<"enter", g>>].pc # "launch"
    BY <2>1, EnterStates DEF Active
  <2> QED BY <2>1, <2>3, <2>4, <2>5 DEF AgentInv, OneAgent
<1>15. ASSUME NEW f \in Fd, EnterNotLaunched(f) PROVE AgentInv'
  <2>1. co[<<"enter", f>>].pc \in Active \cap Before /\ UNCHANGED <<agent, alive>>
    BY <1>15 DEF EnterNotLaunched, Active, Before, roomVars, agentVars
  <2>2. co' = At(<<"enter", f>>, "kick", f) \/ co' = At(<<"enter", f>>, "cache", Nil)
    BY <1>15 DEF EnterNotLaunched
  <2>3. /\ co'[<<"enter", f>>].pc \in {"kick", "cache"}
        /\ \A g \in Fd \ {f} : co'[<<"enter", g>>] = co[<<"enter", g>>]
    BY <2>1, <2>2, OwnerQuiet
  <2> QED BY <2>1, <2>3, AgentStays
<1>16. ASSUME NEW f \in Fd, EnterMember(f) PROVE AgentInv'
  <2>1. co[<<"enter", f>>].pc \in Active /\ UNCHANGED <<agent, alive>>
    BY <1>16 DEF EnterMember, Active, agentVars
  <2>2. CASE agent = Nil
    BY <2>1, <2>2 DEF LobbyInv, AgentInv, OneAgent
  <2>3. CASE agent # Nil
    <3>1. co' = At(<<"enter", f>>, "start", Nil) /\ "start" \notin Before
      BY <1>16, <2>3 DEF EnterMember, Before
    <3>2. co'[<<"enter", f>>].pc = "start" /\ \A g \in Fd \ {f} : co'[<<"enter", g>>] =
          co[<<"enter", g>>]
      BY <2>1, <3>1, OwnerQuiet
    <3> QED BY <2>1, <3>2, AgentStays
  <2> QED BY <2>2, <2>3
<1>17. ASSUME NEW f \in Fd, Entered(f) PROVE AgentInv'
  <2>1. co[<<"enter", f>>].pc \in Active /\ Release(Rest(<<"enter", f>>)) /\ UNCHANGED <<agent,
        alive>>
    BY <1>17 DEF Entered, Resumes, Active, roomVars, agentVars
  <2>2. \A g \in Fd : co'[<<"enter", g>>].pc = "launch" => co[<<"enter", g>>].pc = "launch"
    BY <2>1, OwnerLeaves
  <2> QED BY <2>1, <2>2, AgentStays
<1>18. ASSUME SocketOpen PROVE AgentInv'
  <2> DEFINE f == Head(dmail).fd
  <2>1. f \in Fd
    BY <1>18, DogHead DEF SocketOpen, DogServes, LobbyInv, DogLetter, IsEvent
  <2>2. <<"open", f>> \in Key /\ <<"open", f>>[1] = "open"
    BY <2>1, KeyOf
  <2>3. UNCHANGED <<agent, alive>> /\ (co' = co \/ co' = At(<<"open", f>>, "accept", Nil))
    BY <1>18 DEF SocketOpen, roomVars, agentVars
  <2> HIDE DEF f
  <2>4. \A g \in Fd : co'[<<"enter", g>>] = co[<<"enter", g>>]
    BY <2>2, <2>3, OthersQuiet
  <2> QED BY <2>3, <2>4, AgentStays
<1>19. ASSUME SocketClose PROVE AgentInv'
  <2> DEFINE f == Head(dmail).fd
  <2>1. f \in Fd
    BY <1>19, DogHead DEF SocketClose, DogServes, LobbyInv, DogLetter, IsEvent
  <2>2. <<"close", f>> \in Key /\ <<"close", f>>[1] = "close"
    BY <2>1, KeyOf
  <2>3. UNCHANGED <<agent, alive>> /\ (co' = co \/ co' = At(<<"close", f>>, "kick", f))
    BY <1>19 DEF SocketClose, roomVars, agentVars
  <2> HIDE DEF f
  <2>4. \A g \in Fd : co'[<<"enter", g>>] = co[<<"enter", g>>]
    BY <2>2, <2>3, OthersQuiet
  <2> QED BY <2>3, <2>4, AgentStays
<1>20. ASSUME Login PROVE AgentInv'
  <2> DEFINE f == Head(dmail).fd
  <2>1. f \in Fd
    BY <1>20, DogHead DEF Login, DogServes, LobbyInv, DogLetter, IsEvent
  <2>2. <<"login", f>> \in Key /\ <<"login", f>>[1] = "login"
    BY <2>1, KeyOf
  <2>3. UNCHANGED <<agent, alive>> /\ (co' = co \/ co' = At(<<"login", f>>, "account", Nil))
    BY <1>20 DEF Login, roomVars, agentVars
  <2> HIDE DEF f
  <2>4. \A g \in Fd : co'[<<"enter", g>>] = co[<<"enter", g>>]
    BY <2>2, <2>3, OthersQuiet
  <2> QED BY <2>3, <2>4, AgentStays
<1>21. ASSUME EnterRoom PROVE AgentInv'
  <2> DEFINE f == Head(dmail).fd
  <2>1. f \in Fd
    BY <1>21, DogHead DEF EnterRoom, DogServes, LobbyInv, DogLetter, IsEvent
  <2>2. UNCHANGED <<agent, alive>>
    BY <1>21 DEF EnterRoom, roomVars, agentVars
  <2>3. \E pc \in {"info", "section"} : co' = At(<<"enter", f>>, pc, Nil) \/ co' = co
    BY <1>21 DEF EnterRoom
  <2> HIDE DEF f
  <2>4. co \in [Key -> [pc : CoPc, vic : Fd \cup {Nil}]]
    BY DEF LobbyInv, WorkTypes
  <2>5. ASSUME NEW g \in Fd, co'[<<"enter", g>>].pc = "launch" PROVE co[<<"enter", g>>].pc =
        "launch"
    <3>1. <<"enter", g>> \in Key
      BY KeyOf
    <3>2. PICK pc \in {"info", "section"} : co' = At(<<"enter", f>>, pc, Nil) \/ co' = co
      BY <2>3
    <3>3. CASE co' = co
      BY <2>5, <3>3
    <3>4. CASE co' = At(<<"enter", f>>, pc, Nil) /\ <<"enter", g>> = <<"enter", f>>
      BY <2>4, <2>5, <3>1, <3>4 DEF At
    <3>5. CASE co' = At(<<"enter", f>>, pc, Nil) /\ <<"enter", g>> # <<"enter", f>>
      BY <2>4, <2>5, <3>1, <3>5 DEF At
    <3> QED BY <3>2, <3>3, <3>4, <3>5
  <2> QED BY <2>2, <2>5, AgentStays
<1>22. ASSUME ExitMember PROVE AgentInv'
  <2>1. co' = co
    BY <1>22 DEF ExitMember, Exit
  <2>2. UNCHANGED <<agent, alive>> \/ (agent' = Nil /\ alive' = alive \ {agent})
    BY <1>22 DEF ExitMember, Exit, Kill
  <2> QED BY <2>1, <2>2 DEF LobbyInv, AgentInv, OneAgent
<1>23. ASSUME NEW k \in Key, Kicked(k) PROVE AgentInv'
  <2>1. UNCHANGED <<agent, alive>>
    BY <1>23 DEF Kicked, roomVars, agentVars
  <2>2. CASE k[1] = "enter"
    <3>1. k = <<"enter", k[2]>> /\ k[2] \in Fd
      BY <2>2, KeyIs
    <3>2. co' = At(k, "cache", Nil) /\ co[k].pc \in Active \cap Before
      BY <1>23, <2>2, KickedMoves DEF Active, Before
    <3> DEFINE f == k[2]
    <3>3. /\ co' = At(<<"enter", f>>, "cache", Nil) /\ co[<<"enter", f>>].pc \in Active
          /\ co[<<"enter", f>>].pc \in Before /\ f \in Fd
      BY <3>1, <3>2
    <3> HIDE DEF f
    <3>5. /\ co'[<<"enter", f>>].pc = "cache"
          /\ \A g \in Fd \ {f} : co'[<<"enter", g>>] = co[<<"enter", g>>]
      BY <3>3, OwnerQuiet
    <3> QED BY <2>1, <3>5, AgentStays
  <2>3. CASE k[1] # "enter"
    <3>1. co' = At(k, "disconnect", co[k].vic) \/ co' = Rest(k)
      BY <1>23, <2>3, KickedMoves
    <3>2. \A g \in Fd : co'[<<"enter", g>>] = co[<<"enter", g>>]
      BY <2>3, <3>1, OthersQuiet
    <3> QED BY <2>1, <3>2, AgentStays
  <2> QED BY <2>2, <2>3
<1>24. ASSUME NEW k \in Key, Reported(k) PROVE AgentInv'
  <2>1. k[1] # "enter"
    BY <1>24, WaitsKey DEF Reported, Resumes
  <2>2. co' = Rest(k) /\ UNCHANGED <<agent, alive>>
    BY <1>24, <2>1 DEF Forget, Returned, Reported, roomVars, agentVars
  <2>3. \A g \in Fd : co'[<<"enter", g>>] = co[<<"enter", g>>]
    BY <2>1, <2>2, OthersQuiet
  <2> QED BY <2>2, <2>3, AgentStays
<1>25. ASSUME NEW k \in Key, CloseRaises(k) PROVE AgentInv'
  <2>1. k[1] # "enter"
    BY <1>25, WaitsKey DEF CloseRaises, Resumes
  <2>2. co' = Rest(k) /\ UNCHANGED <<agent, alive>>
    BY <1>25, <2>1 DEF CloseRaises, roomVars, agentVars
  <2>3. \A g \in Fd : co'[<<"enter", g>>] = co[<<"enter", g>>]
    BY <2>1, <2>2, OthersQuiet
  <2> QED BY <2>2, <2>3, AgentStays
<1> QED
  BY <1>2, <1>3, <1>4, <1>5, <1>6, <1>7, <1>8, <1>9, <1>10, <1>11, <1>12, <1>13, <1>14, <1>15,
     <1>16, <1>17, <1>18, <1>19, <1>20, <1>21, <1>22, <1>23, <1>24, <1>25 DEF LobbyNext

(* The count covers the members. *)
LEMMA MemberInvKept ==
    ASSUME LobbyInv, LobbyNext
    PROVE  MemberInv'
<1>1. UNCHANGED <<members, member_count>> => MemberInv'
  BY DEF LobbyInv, MemberInv, CountCoversMembers
<1>2. ASSUME NEW f \in Fd, Connect(f) \/ Hangup(f) \/ GateTimeout(f) \/ SocketOpened(f) PROVE
      MemberInv'
  BY <1>2, <1>1 DEF Connect, Hangup, GateTimeout, SocketOpened, roomVars
<1>3. ASSUME NEW f \in Fd, LoginFails(f) \/ LoginAccepted(f) \/ EnterFails(f) \/ EnterAgent(f)
      PROVE MemberInv'
  BY <1>3, <1>1 DEF LoginFails, LoginAccepted, EnterFails, EnterAgent, roomVars
<1>4. ASSUME NEW f \in Fd, EnterNotLaunched(f) \/ Entered(f) PROVE MemberInv'
  BY <1>4, <1>1 DEF EnterNotLaunched, Entered, roomVars
<1>5. ASSUME NEW f \in Fd, NEW what \in {"login", "enter", "quit"}, Request(f, what) PROVE
      MemberInv'
  BY <1>5, <1>1 DEF Request, roomVars
<1>6. ASSUME NEW f \in Fd, NEW a \in Agent, EnterLaunched(f, a) PROVE MemberInv'
  BY <1>6, <1>1 DEF EnterLaunched, roomVars
<1>7. ASSUME GateOpen \/ GateAccept \/ GateKick \/ GateForward PROVE MemberInv'
  BY <1>7, <1>1 DEF GateOpen, GateAccept, GateKick, GateForward, roomVars
<1>8. ASSUME GateData \/ GateClose \/ SocketOpen \/ SocketClose PROVE MemberInv'
  BY <1>8, <1>1 DEF GateData, GateClose, SocketOpen, SocketClose, roomVars
<1>9. ASSUME Login \/ EnterRoom \/ DogRefuses PROVE MemberInv'
  BY <1>9, <1>1 DEF Login, EnterRoom, DogRefuses, roomVars
<1>10. ASSUME NEW k \in Key, Kicked(k) \/ Reported(k) \/ CloseRaises(k) \/ AgentPeople(k) PROVE
      MemberInv'
  BY <1>10, <1>1 DEF Kicked, Reported, CloseRaises, AgentPeople, roomVars
<1>11. ASSUME NEW a \in Agent, AgentStart(a) \/ AgentLogin(a) \/ AgentDisconnect(a) \/
      AgentQuit(a) PROVE MemberInv'
  BY <1>11, <1>1 DEF AgentStart, AgentLogin, AgentDisconnect, AgentQuit, roomVars
<1>12. ASSUME NEW a \in Agent, AgentLeft(a) PROVE MemberInv'
  BY <1>12, <1>1 DEF AgentLeft, roomVars
<1>13. ASSUME NEW f \in Fd, EnterMember(f) PROVE MemberInv'
  <2>1. owner[f] \in Uid /\ IsFiniteSet(members) /\ members \subseteq Uid
        /\ member_count \in Nat /\ member_count >= Cardinality(members)
    BY DEF LobbyInv, TableTypes, MemberInv, CountCoversMembers
  <2>2. f \notin uroom
    BY <1>13 DEF EnterMember, LobbyInv, EnterOnce, ServedOnce, Before
  <2>3. members' = members \cup {owner[f]} /\ member_count' = member_count + 1
    BY <1>13, <2>2 DEF EnterMember
  <2>4. /\ IsFiniteSet(members')
        /\ Cardinality(members') = Cardinality(members) \/ Cardinality(members') =
           Cardinality(members) + 1
    BY <2>1, <2>3, FS_AddElement
  <2>5. Cardinality(members) \in Nat
    BY <2>1, FS_CardinalityType
  <2> QED BY <2>1, <2>3, <2>4, <2>5 DEF MemberInv, CountCoversMembers
<1>14. ASSUME ExitMember PROVE MemberInv'
  <2> DEFINE u == owner[Head(dmail).fd]
  <2>1. /\ IsFiniteSet(members) /\ members \subseteq Uid
        /\ member_count \in Nat /\ member_count >= Cardinality(members)
    BY DEF LobbyInv, MemberInv, CountCoversMembers
  <2>2. \/ UNCHANGED <<members, member_count>>
        \/ u \in members /\ members' = members \ {u} /\ member_count' = member_count - 1
    BY <1>14 DEF ExitMember, Exit
  <2> HIDE DEF u
  <2>3. CASE UNCHANGED <<members, member_count>>
    BY <1>1, <2>3
  <2>4. CASE u \in members /\ members' = members \ {u} /\ member_count' = member_count - 1
    <3>1. IsFiniteSet(members') /\ Cardinality(members') = Cardinality(members) - 1
      BY <2>1, <2>4, FS_RemoveElement
    <3>2. Cardinality(members') \in Nat
      BY <3>1, FS_CardinalityType
    <3>3. Cardinality(members) \in Nat
      BY <2>1, FS_CardinalityType
    <3> QED BY <2>1, <2>4, <3>1, <3>2, <3>3 DEF MemberInv, CountCoversMembers
  <2> QED BY <2>2, <2>3, <2>4
<1> QED
  BY <1>2, <1>3, <1>4, <1>5, <1>6, <1>7, <1>8, <1>9, <1>10, <1>11, <1>12, <1>13, <1>14 DEF LobbyNext

-----------------------------------------------------------------------------
(* Who enters is answered.                                                 *)

(* The watchdog's mailbox loses no answer to f's start. *)
AnswersStay(f) ==
    \A m \in Range(dmail) : m.op = "answer" /\ m.key = <<"enter", f>> => m \in Range(dmail')
(* The room's agent keeps f's start. *)
StartsStay(f) ==
    agent # Nil => \A m \in Range(amail[agent]) :
                      m.op = "start" /\ m.key = <<"enter", f>> => m \in Range(amail'[agent])

LEMMA AnswerStays ==
    ASSUME LobbyInv, NEW f \in Fd, co[<<"enter", f>>].pc = "start", owner[f] \in members,
           agent' = agent, ag'[<<"enter", f>>] = ag[<<"enter", f>>], AnswersStay(f), StartsStay(f)
    PROVE  Answered(f)'
<1>1. Answered(f)
  BY DEF LobbyInv, EntryAnswered
<1>2. CASE \E m \in Range(dmail) : m.op = "answer" /\ m.key = <<"enter", f>>
  BY <1>2 DEF AnswersStay, Answered
<1>3. CASE agent # Nil /\ ag[<<"enter", f>>].pc \in {"forward", "people"} /\ ag[<<"enter", f>>].at = agent
  BY <1>3 DEF Answered
<1>4. CASE agent # Nil /\ \E m \in Range(amail[agent]) : m.op = "start" /\ m.key = <<"enter", f>>
  BY <1>4 DEF StartsStay, Answered
<1> QED BY <1>1, <1>2, <1>3, <1>4 DEF Answered

(* Nobody moves to "start". *)
LEMMA EntryKept ==
    ASSUME LobbyInv, owner' = owner, members' \subseteq members, agent' = agent,
           \A f \in Fd : co'[<<"enter", f>>].pc = "start" =>
              /\ co[<<"enter", f>>].pc = "start"
              /\ ag'[<<"enter", f>>] = ag[<<"enter", f>>] /\ AnswersStay(f) /\ StartsStay(f)
    PROVE  EntryAnswered'
<1> SUFFICES ASSUME NEW f \in Fd, co'[<<"enter", f>>].pc = "start", owner'[f] \in members'
             PROVE  Answered(f)'
  BY DEF EntryAnswered
<1> QED BY AnswerStays

(* Letters stay when another is served or posted. *)
LEMMA DogLettersStay ==
    ASSUME LobbyInv, NEW f \in Fd,
           \/ dmail' = dmail
           \/ \E m \in Mail : dmail' = Append(dmail, m)
           \/ /\ dmail # << >> /\ dmail' = Tail(dmail)
              /\ Head(dmail).op # "answer" \/ Head(dmail).key # <<"enter", f>>
    PROVE  AnswersStay(f)
<1>1. dmail \in Seq(Mail)
  BY DEF LobbyInv, DogMail
<1>2. CASE \E m \in Mail : dmail' = Append(dmail, m)
  BY <1>1, <1>2, RangeAppend DEF AnswersStay
<1>3. CASE /\ dmail # << >> /\ dmail' = Tail(dmail)
           /\ Head(dmail).op # "answer" \/ Head(dmail).key # <<"enter", f>>
  <2>1. Range(dmail) = {Head(dmail)} \cup Range(dmail')
    BY <1>1, <1>3, RangeTail
  <2> QED BY <1>3, <2>1 DEF AnswersStay
<1> QED BY <1>2, <1>3 DEF AnswersStay

LEMMA AgentLettersStay ==
    ASSUME LobbyInv, NEW f \in Fd,
           \/ amail' = amail
           \/ \E a \in Agent : \E m \in Mail : amail' = [amail EXCEPT ![a] = Append(@, m)]
           \/ \E a \in Agent :
                 /\ amail[a] # << >> /\ amail' = [amail EXCEPT ![a] = Tail(@)]
                 /\ Head(amail[a]).op # "start" \/ Head(amail[a]).key # <<"enter", f>>
    PROVE  StartsStay(f)
<1> SUFFICES ASSUME agent # Nil, NEW l \in Range(amail[agent]), l.op = "start", l.key = <<"enter", f>>
             PROVE  l \in Range(amail'[agent])
  BY DEF StartsStay
<1>1. agent \in Agent /\ amail \in [Agent -> Seq(Mail)]
  BY DEF LobbyInv, AgentInv, WorkTypes, AgentMail
<1>2. CASE \E a \in Agent : \E m \in Mail : amail' = [amail EXCEPT ![a] = Append(@, m)]
  <2>1. PICK a \in Agent, m \in Mail : amail' = [amail EXCEPT ![a] = Append(@, m)]
    BY <1>2
  <2>2. CASE a = agent
    <3>1. amail'[agent] = Append(amail[agent], m) /\ amail[agent] \in Seq(Mail)
      BY <1>1, <2>1, <2>2
    <3> QED BY <3>1, RangeAppend
  <2>3. CASE a # agent
    BY <1>1, <2>1, <2>3
  <2> QED BY <2>2, <2>3
<1>3. CASE \E a \in Agent :
                 /\ amail[a] # << >> /\ amail' = [amail EXCEPT ![a] = Tail(@)]
                 /\ Head(amail[a]).op # "start" \/ Head(amail[a]).key # <<"enter", f>>
  <2>1. PICK a \in Agent : /\ amail[a] # << >> /\ amail' = [amail EXCEPT ![a] = Tail(@)]
                           /\ Head(amail[a]).op # "start" \/ Head(amail[a]).key # <<"enter", f>>
    BY <1>3
  <2>2. CASE a = agent
    <3>1. amail'[agent] = Tail(amail[agent]) /\ amail[agent] \in Seq(Mail) /\ amail[agent] # << >>
      BY <1>1, <2>1, <2>2
    <3>2. Range(amail[agent]) = {Head(amail[agent])} \cup Range(amail'[agent])
      BY <3>1, RangeTail
    <3> QED BY <2>1, <2>2, <3>2
  <2>3. CASE a # agent
    BY <1>1, <2>1, <2>3
  <2> QED BY <2>2, <2>3
<1> QED BY <1>2, <1>3

(* An answer that the watchdog gets. *)
LEMMA AnswerArrives ==
    ASSUME LobbyInv, NEW f \in Fd, NEW ok \in BOOLEAN, dmail' = Append(dmail, Answer(<<"enter", f>>, ok))
    PROVE  Answered(f)'
<1>1. <<"enter", f>> \in Key /\ dmail \in Seq(Mail)
  BY KeyOf DEF LobbyInv, DogMail
<1>2. /\ Answer(<<"enter", f>>, ok) \in Mail /\ Answer(<<"enter", f>>, ok).op = "answer"
      /\ Answer(<<"enter", f>>, ok).key = <<"enter", f>>
  BY <1>1, AnswerIs
<1>3. Answer(<<"enter", f>>, ok) \in Range(dmail')
  BY <1>1, <1>2, RangeAppend
<1> QED BY <1>2, <1>3 DEF Answered

(* When the owner of the section is elsewhere, nobody is at "start". *)
LEMMA NobodyStarts ==
    ASSUME LobbyInv, NEW f \in Fd, co[<<"enter", f>>].pc \in Active \ {"start"}
    PROVE  \A g \in Fd : co[<<"enter", g>>].pc # "start"
BY EnterStates DEF Active

LEMMA NobodyWaits ==
    ASSUME LobbyInv, \A f \in Fd : co'[<<"enter", f>>].pc # "start"
    PROVE  EntryAnswered'
BY DEF EntryAnswered

(* The agent that runs is the room's. *)
LEMMA RunsForRoom ==
    ASSUME LobbyInv, NEW a \in alive
    PROVE  a = agent /\ a \in Agent /\ agent # Nil
BY LobbyAssumption DEF LobbyInv, AgentInv, OneAgent, WorkTypes

(* An agent's coroutine of another request does not concern f. *)
LEMMA OtherWorks ==
    ASSUME LobbyInv, NEW k \in Key, NEW at, NEW pc, NEW fd, Works(k, at, pc, fd),
           NEW f \in Fd, k # <<"enter", f>>
    PROVE  ag'[<<"enter", f>>] = ag[<<"enter", f>>]
<1>1. ag \in [Key -> [pc : AgPc, at : Agent \cup {Nil}, fd : Fd \cup {Nil}]] /\ <<"enter", f>> \in Key
  BY KeyOf DEF LobbyInv, WorkTypes
<1> QED BY <1>1 DEF Works

LEMMA HisWorks ==
    ASSUME LobbyInv, NEW f \in Fd, NEW at, NEW pc, NEW fd, Works(<<"enter", f>>, at, pc, fd),
           pc \in {"forward", "people"}, at = agent, agent # Nil, agent' = agent
    PROVE  Answered(f)'
<1>1. ag \in [Key -> [pc : AgPc, at : Agent \cup {Nil}, fd : Fd \cup {Nil}]] /\ <<"enter", f>> \in Key
  BY KeyOf DEF LobbyInv, WorkTypes
<1>2. ag'[<<"enter", f>>].pc = pc /\ ag'[<<"enter", f>>].at = at
  BY <1>1 DEF Works
<1> QED BY <1>2 DEF Answered

(* Who waits for the answer to his start, and is a member, has it on its way. *)
LEMMA EntryAnsweredKept ==
    ASSUME LobbyInv, LobbyNext
    PROVE  EntryAnswered'
<1>1. UNCHANGED <<owner, co, members, dmail, agent, ag, amail>> => EntryAnswered'
  BY DEF LobbyInv, EntryAnswered, Answered
<1>2. ASSUME NEW f \in Fd, Connect(f) \/ Hangup(f) \/ GateTimeout(f) PROVE EntryAnswered'
  BY <1>2, <1>1 DEF Connect, Hangup, GateTimeout, clientVars, roomVars, agentVars
<1>3. ASSUME NEW f \in Fd, NEW what \in {"login", "enter", "quit"}, Request(f, what) PROVE
      EntryAnswered'
  BY <1>3, <1>1 DEF Request, clientVars, roomVars, agentVars
<1>4. ASSUME NEW f \in Fd, SocketOpened(f) PROVE EntryAnswered'
  <2>1. <<"open", f>> \in Key /\ <<"open", f>>[1] = "open"
    BY KeyOf
  <2>2. UNCHANGED <<owner, members, agent, ag>> /\ (co' = Rest(<<"open", f>>))
    BY <1>4, <2>1 DEF SocketOpened, Returned, clientVars, roomVars, agentVars
  <2>3. \A g \in Fd : co'[<<"enter", g>>] = co[<<"enter", g>>]
    BY <2>1, <2>2, OthersQuiet
  <2>4. ASSUME NEW g \in Fd PROVE AnswersStay(g) /\ StartsStay(g)
    <3>1. amail' = amail
      BY <1>4 DEF SocketOpened
    <3>2. dmail # << >> /\ dmail' = Tail(dmail) /\ Head(dmail).key = <<"open", f>>
      BY <1>4 DEF SocketOpened, Resumes, DogServes
    <3>3. <<"open", f>> # <<"enter", g>>
      OBVIOUS
    <3> QED BY <3>1, <3>2, <3>3, DogLettersStay, AgentLettersStay
  <2> QED BY <2>2, <2>3, <2>4, EntryKept
<1>5. ASSUME NEW f \in Fd, LoginFails(f) PROVE EntryAnswered'
  <2>1. <<"login", f>> \in Key /\ <<"login", f>>[1] = "login"
    BY KeyOf
  <2>2. UNCHANGED <<owner, members, agent, ag>> /\ (co' = Rest(<<"login", f>>))
    BY <1>5, <2>1 DEF LoginFails, Returned, clientVars, roomVars, agentVars
  <2>3. \A g \in Fd : co'[<<"enter", g>>] = co[<<"enter", g>>]
    BY <2>1, <2>2, OthersQuiet
  <2>4. ASSUME NEW g \in Fd PROVE AnswersStay(g) /\ StartsStay(g)
    <3>1. amail' = amail
      BY <1>5 DEF LoginFails
    <3>2. dmail' = dmail
      BY <1>5 DEF LoginFails
    <3>3. <<"login", f>> # <<"enter", g>>
      OBVIOUS
    <3> QED BY <3>1, <3>2, <3>3, DogLettersStay, AgentLettersStay
  <2> QED BY <2>2, <2>3, <2>4, EntryKept
<1>6. ASSUME NEW f \in Fd, LoginAccepted(f) PROVE EntryAnswered'
  <2>1. <<"login", f>> \in Key /\ <<"login", f>>[1] = "login"
    BY KeyOf
  <2>2. UNCHANGED <<owner, members, agent, ag>> /\ (co' = At(<<"login", f>>, "kick",
        users[owner[f]]) \/ co' = Rest(<<"login", f>>))
    BY <1>6, <2>1 DEF LoginAccepted, Returned, clientVars, roomVars, agentVars
  <2>3. \A g \in Fd : co'[<<"enter", g>>] = co[<<"enter", g>>]
    BY <2>1, <2>2, OthersQuiet
  <2>4. ASSUME NEW g \in Fd PROVE AnswersStay(g) /\ StartsStay(g)
    <3>1. amail' = amail
      BY <1>6 DEF LoginAccepted
    <3>2. dmail' = dmail
      BY <1>6 DEF LoginAccepted
    <3>3. <<"login", f>> # <<"enter", g>>
      OBVIOUS
    <3> QED BY <3>1, <3>2, <3>3, DogLettersStay, AgentLettersStay
  <2> QED BY <2>2, <2>3, <2>4, EntryKept
<1>7. ASSUME NEW f \in Fd, EnterFails(f) PROVE EntryAnswered'
  <2>1. co[<<"enter", f>>].pc \in Active \ {"start"} /\ Release(Rest(<<"enter", f>>))
    BY <1>7 DEF EnterFails, Active
  <2>2. \A g \in Fd : co'[<<"enter", g>>].pc # "start"
    BY <2>1, NobodyStarts, OwnerLeaves
  <2> QED BY <2>2, NobodyWaits
<1>8. ASSUME NEW f \in Fd, EnterAgent(f) PROVE EntryAnswered'
  <2>1. co[<<"enter", f>>].pc \in Active \ {"start"} /\ co[<<"enter", f>>].pc \in Before
    BY <1>8 DEF EnterAgent, Active, Before
  <2>2. \E pc \in {"launch", "cache"} : \E vic : co' = At(<<"enter", f>>, pc, vic)
    BY <1>8 DEF EnterAgent
  <2>3. co'[<<"enter", f>>].pc # "start" /\ \A g \in Fd \ {f} : co'[<<"enter", g>>] =
        co[<<"enter", g>>]
    BY <2>1, <2>2, OwnerQuiet
  <2>4. \A g \in Fd : co'[<<"enter", g>>].pc # "start"
    BY <2>1, <2>3, NobodyStarts
  <2> QED BY <2>4, NobodyWaits
<1>9. ASSUME NEW f \in Fd, NEW a \in Agent, EnterLaunched(f, a) PROVE EntryAnswered'
  <2>1. co[<<"enter", f>>].pc \in Active \ {"start"} /\ co[<<"enter", f>>].pc \in Before
    BY <1>9 DEF EnterLaunched, Active, Before
  <2>2. \E pc \in {"cache"} : \E vic : co' = At(<<"enter", f>>, pc, vic)
    BY <1>9 DEF EnterLaunched
  <2>3. co'[<<"enter", f>>].pc # "start" /\ \A g \in Fd \ {f} : co'[<<"enter", g>>] =
        co[<<"enter", g>>]
    BY <2>1, <2>2, OwnerQuiet
  <2>4. \A g \in Fd : co'[<<"enter", g>>].pc # "start"
    BY <2>1, <2>3, NobodyStarts
  <2> QED BY <2>4, NobodyWaits
<1>10. ASSUME NEW f \in Fd, EnterNotLaunched(f) PROVE EntryAnswered'
  <2>1. co[<<"enter", f>>].pc \in Active \ {"start"} /\ co[<<"enter", f>>].pc \in Before
    BY <1>10 DEF EnterNotLaunched, Active, Before
  <2>2. \E pc \in {"kick", "cache"} : \E vic : co' = At(<<"enter", f>>, pc, vic)
    BY <1>10 DEF EnterNotLaunched
  <2>3. co'[<<"enter", f>>].pc # "start" /\ \A g \in Fd \ {f} : co'[<<"enter", g>>] =
        co[<<"enter", g>>]
    BY <2>1, <2>2, OwnerQuiet
  <2>4. \A g \in Fd : co'[<<"enter", g>>].pc # "start"
    BY <2>1, <2>3, NobodyStarts
  <2> QED BY <2>4, NobodyWaits
<1>11. ASSUME NEW f \in Fd, EnterMember(f) PROVE EntryAnswered'
  <2>1. co[<<"enter", f>>].pc \in Active \ {"start"} /\ agent' = agent
    BY <1>11 DEF EnterMember, Active
  <2>2. CASE agent = Nil
    <3>1. \A g \in Fd : co'[<<"enter", g>>].pc # "start"
      BY <1>11, <2>1, <2>2, NobodyStarts, OwnerLeaves DEF EnterMember
    <3> QED BY <3>1, NobodyWaits
  <2>3. CASE agent # Nil
    <3> DEFINE k == <<"enter", f>>
               fd == IF f \in ufd THEN f ELSE Nil
               m == Msg("start", fd, k, TRUE)
    <3>1. co' = At(k, "start", Nil) /\ amail' = [amail EXCEPT ![agent] = Append(@, m)]
      BY <1>11, <2>3 DEF EnterMember
    <3>2. "start" \notin Before
      BY DEF Before
    <3>3. \A g \in Fd \ {f} : co'[<<"enter", g>>] = co[<<"enter", g>>]
      BY <2>1, <3>1, <3>2, OwnerQuiet
    <3>4. \A g \in Fd \ {f} : co'[<<"enter", g>>].pc # "start"
      BY <2>1, <3>3, NobodyStarts
    <3>5. "start" \in Ops /\ fd \in Fd \cup {Nil} /\ k \in Key \cup {Nil} /\ TRUE \in BOOLEAN
      BY KeyOf DEF Ops
    <3>6. agent \in Agent /\ amail \in [Agent -> Seq(Mail)]
      BY <2>3 DEF LobbyInv, AgentInv, WorkTypes, AgentMail
    <3> HIDE DEF fd, k
    <3>7. m \in Mail /\ m.op = "start" /\ m.key = k
      BY <3>5 DEF Msg, Mail
    <3> HIDE DEF m
    <3>8. amail'[agent] = Append(amail[agent], m) /\ amail[agent] \in Seq(Mail)
      BY <3>1, <3>6
    <3>9. m \in Range(amail'[agent])
      BY <3>7, <3>8, RangeAppend
    <3>10. Answered(f)'
      BY <2>1, <2>3, <3>7, <3>9 DEF Answered, k
    <3> QED BY <3>4, <3>10 DEF EntryAnswered
  <2> QED BY <2>2, <2>3
<1>12. ASSUME NEW f \in Fd, Entered(f) PROVE EntryAnswered'
  <2>1. co[<<"enter", f>>].pc \in Active /\ Release(Rest(<<"enter", f>>)) /\ UNCHANGED <<owner,
        members, agent, ag>>
    BY <1>12 DEF Entered, Resumes, Active, clientVars, roomVars, agentVars
  <2>2. ASSUME NEW g \in Fd, co'[<<"enter", g>>].pc = "start"
        PROVE  g # f /\ co[<<"enter", g>>].pc = "start"
    BY <2>1, <2>2, OwnerLeaves
  <2>3. ASSUME NEW g \in Fd, g # f PROVE AnswersStay(g) /\ StartsStay(g)
    <3>1. amail' = amail /\ dmail # << >> /\ dmail' = Tail(dmail) /\ Head(dmail).key = <<"enter",
          f>>
      BY <1>12 DEF Entered, Resumes, DogServes
    <3>2. <<"enter", f>> # <<"enter", g>>
      BY <2>3
    <3> QED BY <3>1, <3>2, DogLettersStay, AgentLettersStay
  <2> QED BY <2>1, <2>2, <2>3, EntryKept
<1>13. ASSUME GateOpen PROVE EntryAnswered'
  <2> DEFINE f == Head(gmail).fd
  <2>1. f \in Fd
    BY <1>13, GateHead DEF GateOpen, GateServes, LobbyInv, GateLetter, IsEvent
  <2>3. dmail' = Append(dmail, Event("open", f))
    BY <1>13 DEF GateOpen
  <2>4. Event("open", f) \in Mail
    BY <2>1, EventIs
  <2>5. amail' = amail
    BY <1>13 DEF GateOpen
  <2>6. UNCHANGED <<owner, members, agent, co, ag>>
    BY <1>13 DEF GateOpen, clientVars, roomVars, agentVars
  <2> HIDE DEF f
  <2>7. ASSUME NEW g \in Fd PROVE AnswersStay(g) /\ StartsStay(g)
    BY <2>3, <2>4, <2>5, DogLettersStay, AgentLettersStay
  <2> QED BY <2>6, <2>7, EntryKept
<1>14. ASSUME GateAccept PROVE EntryAnswered'
  <2> DEFINE m == Head(gmail)
             ok == conn[m.fd] # "none"
  <2>1. m.key \in Key /\ ok \in BOOLEAN
    BY <1>14, GateHead, KeyOf DEF GateAccept, GateServes, LobbyInv, GateLetter, IsEvent, Key
  <2>3. dmail' = Append(dmail, Answer(m.key, ok))
    BY <1>14 DEF GateAccept
  <2>4. Answer(m.key, ok) \in Mail
    <3> HIDE DEF m, ok
    <3> QED BY <2>1, AnswerIs
  <2>5. amail' = amail
    BY <1>14 DEF GateAccept
  <2>6. UNCHANGED <<owner, members, agent, co, ag>>
    BY <1>14 DEF GateAccept, clientVars, roomVars, agentVars
  <2> HIDE DEF m, ok
  <2>7. ASSUME NEW g \in Fd PROVE AnswersStay(g) /\ StartsStay(g)
    BY <2>3, <2>4, <2>5, DogLettersStay, AgentLettersStay
  <2> QED BY <2>6, <2>7, EntryKept
<1>15. ASSUME GateKick PROVE EntryAnswered'
  <2> DEFINE m == Head(gmail)
             ok == TRUE
  <2>1. m.key \in Key /\ ok \in BOOLEAN
    BY <1>15, GateHead, KeyOf DEF GateKick, GateServes, LobbyInv, GateLetter, IsEvent, Key
  <2>3. dmail' = Append(dmail, Answer(m.key, ok))
    BY <1>15 DEF GateKick
  <2>4. Answer(m.key, ok) \in Mail
    <3> HIDE DEF m, ok
    <3> QED BY <2>1, AnswerIs
  <2>5. amail' = amail
    BY <1>15 DEF GateKick
  <2>6. UNCHANGED <<owner, members, agent, co, ag>>
    BY <1>15 DEF GateKick, clientVars, roomVars, agentVars
  <2> HIDE DEF m, ok
  <2>7. ASSUME NEW g \in Fd PROVE AnswersStay(g) /\ StartsStay(g)
    BY <2>3, <2>4, <2>5, DogLettersStay, AgentLettersStay
  <2> QED BY <2>6, <2>7, EntryKept
<1>16. ASSUME GateForward PROVE EntryAnswered'
  <2> DEFINE m == Head(gmail)
             ok == conn[m.fd] # "none"
             b == ag[m.key].at
  <2>1. m.key \in Key /\ ok \in BOOLEAN
    BY <1>16, GateHead DEF GateForward, GateServes, LobbyInv, GateLetter, IsEvent, Key
  <2>2. \/ amail' = amail
        \/ b \in alive /\ amail' = [amail EXCEPT ![b] = Append(@, Answer(m.key, ok))]
    BY <1>16 DEF GateForward
  <2>3. UNCHANGED <<owner, members, agent, co, ag, dmail>>
    BY <1>16 DEF GateForward, clientVars, roomVars, agentVars
  <2> HIDE DEF m, ok, b
  <2>4. Answer(m.key, ok) \in Mail /\ (b \in alive => b \in Agent)
    BY <2>1, AnswerIs DEF LobbyInv, WorkTypes
  <2>5. ASSUME NEW g \in Fd PROVE AnswersStay(g) /\ StartsStay(g)
    BY <2>2, <2>3, <2>4, DogLettersStay, AgentLettersStay
  <2> QED BY <2>3, <2>5, EntryKept
<1>17. ASSUME GateData PROVE EntryAnswered'
  <2> DEFINE m == Head(gmail)
             b == fwd[m.fd]
  <2>1. m \in Mail /\ (b \in alive => b \in Agent)
    BY <1>17, GateHead DEF GateData, GateServes, LobbyInv, WorkTypes
  <2>2. /\ amail' = amail \/ (b \in alive /\ amail' = [amail EXCEPT ![b] = Append(@, m)])
        /\ dmail' = dmail \/ dmail' = Append(dmail, m)
    BY <1>17 DEF GateData
  <2>3. UNCHANGED <<owner, members, agent, co, ag>>
    BY <1>17 DEF GateData, clientVars, roomVars, agentVars
  <2> HIDE DEF m, b
  <2>4. ASSUME NEW g \in Fd PROVE AnswersStay(g) /\ StartsStay(g)
    BY <2>1, <2>2, DogLettersStay, AgentLettersStay
  <2> QED BY <2>3, <2>4, EntryKept
<1>18. ASSUME GateClose PROVE EntryAnswered'
  <2> DEFINE f == Head(gmail).fd
  <2>1. f \in Fd
    BY <1>18, GateHead DEF GateClose, GateServes, LobbyInv, GateLetter, IsEvent
  <2>3. dmail' = Append(dmail, Event("close", f))
    BY <1>18 DEF GateClose
  <2>4. Event("close", f) \in Mail
    BY <2>1, EventIs
  <2>5. amail' = amail
    BY <1>18 DEF GateClose
  <2>6. UNCHANGED <<owner, members, agent, co, ag>>
    BY <1>18 DEF GateClose, clientVars, roomVars, agentVars
  <2> HIDE DEF f
  <2>7. ASSUME NEW g \in Fd PROVE AnswersStay(g) /\ StartsStay(g)
    BY <2>3, <2>4, <2>5, DogLettersStay, AgentLettersStay
  <2> QED BY <2>6, <2>7, EntryKept
<1>19. ASSUME SocketOpen PROVE EntryAnswered'
  <2> DEFINE f == Head(dmail).fd
  <2>1. f \in Fd
    BY <1>19, DogHead DEF SocketOpen, DogServes, LobbyInv, DogLetter, IsEvent
  <2>2. <<"open", f>> \in Key /\ <<"open", f>>[1] = "open"
    BY <2>1, KeyOf
  <2>3. UNCHANGED <<owner, members, agent, ag>> /\ (co' = co \/ co' = At(<<"open", f>>, "accept",
        Nil))
    BY <1>19 DEF SocketOpen, clientVars, roomVars, agentVars
  <2>4. amail' = amail /\ dmail # << >> /\ dmail' = Tail(dmail) /\ Head(dmail).op # "answer"
    BY <1>19 DEF SocketOpen, DogServes
  <2> HIDE DEF f
  <2>5. \A g \in Fd : co'[<<"enter", g>>] = co[<<"enter", g>>]
    BY <2>2, <2>3, OthersQuiet
  <2>6. ASSUME NEW g \in Fd PROVE AnswersStay(g) /\ StartsStay(g)
    BY <2>4, DogLettersStay, AgentLettersStay
  <2> QED BY <2>3, <2>5, <2>6, EntryKept
<1>20. ASSUME SocketClose PROVE EntryAnswered'
  <2> DEFINE f == Head(dmail).fd
  <2>1. f \in Fd
    BY <1>20, DogHead DEF SocketClose, DogServes, LobbyInv, DogLetter, IsEvent
  <2>2. <<"close", f>> \in Key /\ <<"close", f>>[1] = "close"
    BY <2>1, KeyOf
  <2>3. UNCHANGED <<owner, members, agent, ag>> /\ (co' = co \/ co' = At(<<"close", f>>, "kick", f))
    BY <1>20 DEF SocketClose, clientVars, roomVars, agentVars
  <2>4. amail' = amail /\ dmail # << >> /\ dmail' = Tail(dmail) /\ Head(dmail).op # "answer"
    BY <1>20 DEF SocketClose, DogServes
  <2> HIDE DEF f
  <2>5. \A g \in Fd : co'[<<"enter", g>>] = co[<<"enter", g>>]
    BY <2>2, <2>3, OthersQuiet
  <2>6. ASSUME NEW g \in Fd PROVE AnswersStay(g) /\ StartsStay(g)
    BY <2>4, DogLettersStay, AgentLettersStay
  <2> QED BY <2>3, <2>5, <2>6, EntryKept
<1>21. ASSUME Login PROVE EntryAnswered'
  <2> DEFINE f == Head(dmail).fd
  <2>1. f \in Fd
    BY <1>21, DogHead DEF Login, DogServes, LobbyInv, DogLetter, IsEvent
  <2>2. <<"login", f>> \in Key /\ <<"login", f>>[1] = "login"
    BY <2>1, KeyOf
  <2>3. UNCHANGED <<owner, members, agent, ag>> /\ (co' = co \/ co' = At(<<"login", f>>,
        "account", Nil))
    BY <1>21 DEF Login, clientVars, roomVars, agentVars
  <2>4. amail' = amail /\ dmail # << >> /\ dmail' = Tail(dmail) /\ Head(dmail).op # "answer"
    BY <1>21 DEF Login, DogServes
  <2> HIDE DEF f
  <2>5. \A g \in Fd : co'[<<"enter", g>>] = co[<<"enter", g>>]
    BY <2>2, <2>3, OthersQuiet
  <2>6. ASSUME NEW g \in Fd PROVE AnswersStay(g) /\ StartsStay(g)
    BY <2>4, DogLettersStay, AgentLettersStay
  <2> QED BY <2>3, <2>5, <2>6, EntryKept
<1>22. ASSUME EnterRoom PROVE EntryAnswered'
  <2> DEFINE f == Head(dmail).fd
  <2>1. f \in Fd
    BY <1>22, DogHead DEF EnterRoom, DogServes, LobbyInv, DogLetter, IsEvent
  <2>2. UNCHANGED <<owner, members, agent, ag>>
    BY <1>22 DEF EnterRoom, clientVars, roomVars, agentVars
  <2>3. \E pc \in {"info", "section"} : co' = At(<<"enter", f>>, pc, Nil) \/ co' = co
    BY <1>22 DEF EnterRoom
  <2>4. amail' = amail /\ dmail # << >> /\ dmail' = Tail(dmail) /\ Head(dmail).op # "answer"
    BY <1>22 DEF EnterRoom, DogServes
  <2> HIDE DEF f
  <2>5. co \in [Key -> [pc : CoPc, vic : Fd \cup {Nil}]]
    BY DEF LobbyInv, WorkTypes
  <2>6. ASSUME NEW g \in Fd, co'[<<"enter", g>>].pc = "start" PROVE co[<<"enter", g>>].pc = "start"
    <3>1. <<"enter", g>> \in Key
      BY KeyOf
    <3>2. PICK pc \in {"info", "section"} : co' = At(<<"enter", f>>, pc, Nil) \/ co' = co
      BY <2>3
    <3>3. CASE co' = co
      BY <2>6, <3>3
    <3>4. CASE co' = At(<<"enter", f>>, pc, Nil) /\ <<"enter", g>> = <<"enter", f>>
      BY <2>5, <2>6, <3>1, <3>4 DEF At
    <3>5. CASE co' = At(<<"enter", f>>, pc, Nil) /\ <<"enter", g>> # <<"enter", f>>
      BY <2>5, <2>6, <3>1, <3>5 DEF At
    <3> QED BY <3>2, <3>3, <3>4, <3>5
  <2>7. ASSUME NEW g \in Fd PROVE AnswersStay(g) /\ StartsStay(g)
    BY <2>4, DogLettersStay, AgentLettersStay
  <2> QED BY <2>2, <2>6, <2>7, EntryKept
<1>23. ASSUME ExitMember PROVE EntryAnswered'
  <2> DEFINE m == Head(dmail)
             b == ag[m.key].at
  <2>1. DogLetter(m) /\ m.op = "leave" /\ dmail # << >>
    BY <1>23, DogHead DEF ExitMember, LobbyInv
  <2>2. m.key \in Key
    BY <2>1 DEF DogLetter, IsEvent
  <2>3. owner' = owner /\ co' = co /\ members' \subseteq members
    BY <1>23 DEF ExitMember, Exit, clientVars
  <2>4. CASE member_count' <= 0
    <3>1. IsFiniteSet(members') /\ member_count' >= Cardinality(members')
      BY MemberInvKept DEF MemberInv, CountCoversMembers
    <3>2. Cardinality(members') \in Nat /\ member_count' \in Nat
      BY <3>1, FS_CardinalityType, MemberInvKept DEF MemberInv
    <3>3. Cardinality(members') = 0
      BY <2>4, <3>1, <3>2
    <3>4. members' = {}
      BY <3>1, <3>3, FS_EmptySet
    <3> QED BY <3>4 DEF EntryAnswered
  <2>5. CASE ~(member_count' <= 0 /\ agent # Nil)
    <3>1. /\ dmail' = Tail(dmail) /\ UNCHANGED <<agent, ag>>
          /\ amail' = amail \/ (b \in alive /\ amail' = [amail EXCEPT ![b] = Append(@,
             Answer(m.key, TRUE))])
      BY <1>23, <2>5 DEF ExitMember, Exit
    <3> HIDE DEF b
    <3>2. Answer(m.key, TRUE) \in Mail /\ (b \in alive => b \in Agent)
      BY <2>2, AnswerIs DEF LobbyInv, WorkTypes
    <3>3. Head(dmail).op # "answer"
      BY <2>1
    <3> HIDE DEF m
    <3>4. ASSUME NEW g \in Fd PROVE AnswersStay(g) /\ StartsStay(g)
      BY <2>1, <3>1, <3>2, <3>3, DogLettersStay, AgentLettersStay
    <3> QED BY <2>3, <3>1, <3>4, EntryKept
  <2> QED BY <2>4, <2>5
<1>24. ASSUME DogRefuses PROVE EntryAnswered'
  <2>1. UNCHANGED <<owner, members, agent, co, ag>>
    BY <1>24 DEF DogRefuses, clientVars, roomVars, agentVars
  <2>2. amail' = amail /\ dmail # << >> /\ dmail' = Tail(dmail) /\ Head(dmail).op # "answer"
    BY <1>24 DEF DogRefuses, DogServes
  <2>3. ASSUME NEW g \in Fd PROVE AnswersStay(g) /\ StartsStay(g)
    BY <2>2, DogLettersStay, AgentLettersStay
  <2> QED BY <2>1, <2>3, EntryKept
<1>25. ASSUME NEW k \in Key, Kicked(k) PROVE EntryAnswered'
  <2> DEFINE f == co[k].vic
             m == Msg("disconnect", f, k, TRUE)
  <2>1. UNCHANGED <<owner, members, agent, ag>> /\ dmail # << >> /\ dmail' = Tail(dmail) /\
        Head(dmail).key = k
    BY <1>25 DEF Kicked, Resumes, DogServes, clientVars, roomVars, agentVars
  <2>2. ASSUME NEW g \in Fd PROVE StartsStay(g)
    <3>1. CASE amail' = amail
      BY <3>1, AgentLettersStay
    <3>2. CASE /\ f \in logged /\ agent # Nil
               /\ amail' = [amail EXCEPT ![agent] = Append(@, m)]
      <4>1. f \in Fd /\ agent \in Agent
        BY <3>2 DEF LobbyInv, AgentInv, WorkTypes, TableTypes
      <4>2. "disconnect" \in Ops /\ f \in Fd \cup {Nil} /\ k \in Key \cup {Nil} /\ TRUE \in BOOLEAN
        BY <4>1 DEF Ops
      <4>3. m \in Mail
        BY <4>2 DEF Msg, Mail
      <4> HIDE DEF m, f
      <4> QED BY <3>2, <4>1, <4>3, AgentLettersStay
    <3> QED BY <1>25, <3>1, <3>2 DEF Kicked
  <2>3. CASE k[1] = "enter"
    <3>1. k = <<"enter", k[2]>> /\ k[2] \in Fd
      BY <2>3, KeyIs
    <3>2. co' = At(k, "cache", Nil) /\ co[k].pc \in Active \ {"start"} /\ co[k].pc \in Before
      BY <1>25, <2>3, KickedMoves DEF Active, Before
    <3> DEFINE e == k[2]
    <3>3. /\ co' = At(<<"enter", e>>, "cache", Nil) /\ co[<<"enter", e>>].pc \in Active
          /\ co[<<"enter", e>>].pc \in Before /\ e \in Fd
      BY <3>1, <3>2
    <3> HIDE DEF e
    <3>5. /\ co'[<<"enter", e>>].pc = "cache"
          /\ \A g \in Fd \ {e} : co'[<<"enter", g>>] = co[<<"enter", g>>]
      BY <3>3, OwnerQuiet
    <3>4. \A g \in Fd : co'[<<"enter", g>>].pc # "start"
      <4>1. co[<<"enter", e>>].pc \in Active \ {"start"}
        BY <3>1, <3>2 DEF e
      <4> QED BY <3>3, <3>5, <4>1, NobodyStarts
    <3> QED BY <3>4, NobodyWaits
  <2>4. CASE k[1] # "enter"
    <3>1. co' = At(k, "disconnect", co[k].vic) \/ co' = Rest(k)
      BY <1>25, <2>4, KickedMoves
    <3>2. \A g \in Fd : co'[<<"enter", g>>] = co[<<"enter", g>>]
      BY <2>4, <3>1, OthersQuiet
    <3>3. ASSUME NEW g \in Fd PROVE AnswersStay(g)
      <4>1. k # <<"enter", g>>
        BY <2>4
      <4> QED BY <2>1, <4>1, DogLettersStay
    <3> QED BY <2>1, <2>2, <3>2, <3>3, EntryKept
  <2> QED BY <2>3, <2>4
<1>26. ASSUME NEW k \in Key, Reported(k) PROVE EntryAnswered'
  <2>1. k[1] # "enter"
    BY <1>26, WaitsKey DEF Reported, Resumes
  <2>2. co' = Rest(k) /\ UNCHANGED <<owner, members, agent, ag>>
    BY <1>26, <2>1 DEF Forget, Returned, Reported, clientVars, roomVars, agentVars
  <2>3. amail' = amail /\ dmail # << >> /\ dmail' = Tail(dmail) /\ Head(dmail).key = k
    BY <1>26 DEF Reported, Resumes, DogServes
  <2>4. \A g \in Fd : co'[<<"enter", g>>] = co[<<"enter", g>>]
    BY <2>1, <2>2, OthersQuiet
  <2>5. ASSUME NEW g \in Fd PROVE AnswersStay(g) /\ StartsStay(g)
    <3>1. k # <<"enter", g>>
      BY <2>1
    <3> QED BY <2>3, <3>1, DogLettersStay, AgentLettersStay
  <2> QED BY <2>2, <2>4, <2>5, EntryKept
<1>27. ASSUME NEW k \in Key, CloseRaises(k) PROVE EntryAnswered'
  <2>1. k[1] # "enter"
    BY <1>27, WaitsKey DEF CloseRaises, Resumes
  <2>2. co' = Rest(k) /\ UNCHANGED <<owner, members, agent, ag>>
    BY <1>27, <2>1 DEF CloseRaises, clientVars, roomVars, agentVars
  <2>3. amail' = amail /\ dmail # << >> /\ dmail' = Tail(dmail) /\ Head(dmail).key = k
    BY <1>27 DEF CloseRaises, Resumes, DogServes
  <2>4. \A g \in Fd : co'[<<"enter", g>>] = co[<<"enter", g>>]
    BY <2>1, <2>2, OthersQuiet
  <2>5. ASSUME NEW g \in Fd PROVE AnswersStay(g) /\ StartsStay(g)
    <3>1. k # <<"enter", g>>
      BY <2>1
    <3> QED BY <2>3, <3>1, DogLettersStay, AgentLettersStay
  <2> QED BY <2>2, <2>4, <2>5, EntryKept
<1>28. ASSUME NEW k \in Key, AgentPeople(k) PROVE EntryAnswered'
  <2>1. ag[k].pc = "people" /\ (k[1] = "enter" => ag[k].fd = Nil) /\ amail' = amail
    BY <1>28 DEF AgentPeople, LobbyInv, Jobs
  <2>2. \/ dmail' = Append(dmail, Answer(k, TRUE)) /\ Works(k, Nil, "idle", Nil)
        \/ /\ ag[k].fd # Nil /\ dmail' = Append(dmail, Msg("leave", ag[k].fd, k, TRUE))
           /\ Works(k, ag[k].at, "leave", Nil)
    BY <1>28 DEF AgentPeople, Reply
  <2>20. UNCHANGED <<owner, members, agent, co>>
    BY <1>28 DEF AgentPeople, clientVars, roomVars, agentVars
  <2>21. SUFFICES ASSUME NEW g \in Fd, co[<<"enter", g>>].pc = "start", owner[g] \in members
                  PROVE  Answered(g)'
    BY <2>20 DEF EntryAnswered
  <2>3. CASE k = <<"enter", g>>
    <3>1. dmail' = Append(dmail, Answer(<<"enter", g>>, TRUE))
      BY <2>1, <2>2, <2>3
    <3> QED BY <3>1, AnswerArrives
  <2>4. CASE k # <<"enter", g>>
    <3>1. ag'[<<"enter", g>>] = ag[<<"enter", g>>]
      BY <2>2, <2>4, OtherWorks
    <3>2. \E m \in Mail : dmail' = Append(dmail, m)
      <4>1. Answer(k, TRUE) \in Mail
        BY AnswerIs
      <4>2. ag[k].fd # Nil => Msg("leave", ag[k].fd, k, TRUE) \in Mail
        <5>1. "leave" \in Ops /\ ag[k].fd \in Fd \cup {Nil} /\ k \in Key \cup {Nil} /\ TRUE \in
              BOOLEAN
          BY DEF Ops, LobbyInv, WorkTypes
        <5> QED BY <5>1, LetterIs, Zenon
      <4> QED BY <2>2, <4>1, <4>2
    <3>3. AnswersStay(g) /\ StartsStay(g)
      BY <2>1, <3>2, DogLettersStay, AgentLettersStay
    <3> QED BY <2>20, <2>21, <3>1, <3>3, AnswerStays
  <2> QED BY <2>3, <2>4
<1>29. ASSUME NEW a \in Agent, AgentStart(a) PROVE EntryAnswered'
  <2> DEFINE m == Head(amail[a])
  <2>1. m \in Mail /\ AgentLetter(m) /\ a \in alive
    BY <1>29, AgentHead DEF AgentStart, AgentServes, LobbyInv
  <2>2. a = agent /\ agent # Nil
    BY <2>1, RunsForRoom
  <2>3. amail[a] # << >> /\ amail' = [amail EXCEPT ![a] = Tail(@)]
    BY <1>29 DEF AgentStart, AgentServes, Served
  <2>4. m.key \in Key /\ m.key[1] = "enter" /\ m.fd \in Fd \cup {Nil}
    BY <1>29, <2>1 DEF AgentStart, AgentServes, AgentLetter, IsEvent, Mail, Key
  <2>5. \/ Works(m.key, a, "forward", m.fd) /\ dmail' = dmail
        \/ dmail' = Append(dmail, Answer(m.key, TRUE)) /\ ag' = ag
    BY <1>29 DEF AgentStart, Reply
  <2>20. UNCHANGED <<owner, members, agent, co>>
    BY <1>29 DEF AgentStart, clientVars, roomVars, agentVars
  <2>21. SUFFICES ASSUME NEW g \in Fd, co[<<"enter", g>>].pc = "start", owner[g] \in members
                  PROVE  Answered(g)'
    BY <2>20 DEF EntryAnswered
  <2> HIDE DEF m
  <2>6. CASE m.key = <<"enter", g>>
    <3>1. CASE Works(m.key, a, "forward", m.fd)
      BY <2>2, <2>6, <2>20, <3>1, HisWorks
    <3>2. CASE dmail' = Append(dmail, Answer(m.key, TRUE))
      BY <2>6, <3>2, AnswerArrives
    <3> QED BY <2>5, <3>1, <3>2
  <2>7. CASE m.key # <<"enter", g>>
    <3>1. ag'[<<"enter", g>>] = ag[<<"enter", g>>]
      BY <2>4, <2>5, <2>7, OtherWorks
    <3>2. Answer(m.key, TRUE) \in Mail
      BY <2>4, AnswerIs
    <3>3. AnswersStay(g)
      BY <2>5, <3>2, DogLettersStay
    <3>4. StartsStay(g)
      BY <2>3, <2>7, AgentLettersStay DEF m
    <3> QED BY <2>20, <2>21, <3>1, <3>3, <3>4, AnswerStays
  <2> QED BY <2>6, <2>7
<1>30. ASSUME NEW a \in Agent, AgentLogin(a) PROVE EntryAnswered'
  <2> DEFINE m == Head(amail[a])
  <2>1. m \in Mail /\ AgentLetter(m) /\ a \in alive
    BY <1>30, AgentHead DEF AgentLogin, AgentServes, LobbyInv
  <2>2. a = agent /\ agent # Nil
    BY <2>1, RunsForRoom
  <2>3. amail[a] # << >> /\ amail' = [amail EXCEPT ![a] = Tail(@)]
    BY <1>30 DEF AgentLogin, AgentServes, Served
  <2>4. m.key \in Key /\ m.op # "start"
    BY <1>30, <2>1 DEF AgentLogin, AgentServes, AgentLetter, IsEvent
  <2>5. \/ Works(m.key, a, "people", Nil) /\ dmail' = dmail
        \/ dmail' = Append(dmail, Answer(m.key, FALSE)) /\ Works(m.key, Nil, "idle", Nil)
    BY <1>30 DEF AgentLogin, Reply
  <2>20. UNCHANGED <<owner, members, agent, co>>
    BY <1>30 DEF AgentLogin, clientVars, roomVars, agentVars
  <2>21. SUFFICES ASSUME NEW g \in Fd, co[<<"enter", g>>].pc = "start", owner[g] \in members
                  PROVE  Answered(g)'
    BY <2>20 DEF EntryAnswered
  <2>10. StartsStay(g)
    BY <2>3, <2>4, AgentLettersStay
  <2> HIDE DEF m
  <2>6. CASE m.key = <<"enter", g>>
    <3>1. CASE Works(m.key, a, "people", Nil)
      BY <2>2, <2>6, <2>20, <3>1, HisWorks
    <3>2. CASE dmail' = Append(dmail, Answer(m.key, FALSE))
      BY <2>6, <3>2, AnswerArrives
    <3> QED BY <2>5, <3>1, <3>2
  <2>7. CASE m.key # <<"enter", g>>
    <3>1. ag'[<<"enter", g>>] = ag[<<"enter", g>>]
      BY <2>4, <2>5, <2>7, OtherWorks
    <3>2. Answer(m.key, FALSE) \in Mail
      BY <2>4, AnswerIs
    <3>3. AnswersStay(g)
      BY <2>5, <3>2, DogLettersStay
    <3> QED BY <2>10, <2>20, <2>21, <3>1, <3>3, AnswerStays
  <2> QED BY <2>6, <2>7
<1>31. ASSUME NEW a \in Agent, AgentDisconnect(a) PROVE EntryAnswered'
  <2> DEFINE m == Head(amail[a])
  <2>1. m \in Mail /\ AgentLetter(m) /\ a \in alive
    BY <1>31, AgentHead DEF AgentDisconnect, AgentServes, LobbyInv
  <2>2. a = agent /\ agent # Nil
    BY <2>1, RunsForRoom
  <2>3. amail[a] # << >> /\ amail' = [amail EXCEPT ![a] = Tail(@)]
    BY <1>31 DEF AgentDisconnect, AgentServes, Served
  <2>4. m.key \in Key /\ m.key[1] # "enter" /\ m.op # "start"
    BY <1>31, <2>1 DEF AgentDisconnect, AgentServes, AgentLetter, IsEvent, Key
  <2>5. dmail' = dmail /\ \E fd : Works(m.key, a, "people", fd)
    BY <1>31 DEF AgentDisconnect
  <2>20. UNCHANGED <<owner, members, agent, co>>
    BY <1>31 DEF AgentDisconnect, clientVars, roomVars, agentVars
  <2>21. SUFFICES ASSUME NEW g \in Fd, co[<<"enter", g>>].pc = "start", owner[g] \in members
                  PROVE  Answered(g)'
    BY <2>20 DEF EntryAnswered
  <2>10. StartsStay(g)
    BY <2>3, <2>4, AgentLettersStay
  <2> HIDE DEF m
  <2>6. m.key # <<"enter", g>>
    BY <2>4
  <2>7. ag'[<<"enter", g>>] = ag[<<"enter", g>>]
    BY <2>4, <2>5, <2>6, OtherWorks
  <2>8. AnswersStay(g)
    BY <2>5, DogLettersStay
  <2> QED BY <2>7, <2>8, <2>10, <2>20, <2>21, AnswerStays
<1>32. ASSUME NEW a \in Agent, AgentQuit(a) PROVE EntryAnswered'
  <2> DEFINE m == Head(amail[a])
  <2>1. m \in Mail /\ AgentLetter(m) /\ a \in alive
    BY <1>32, AgentHead DEF AgentQuit, AgentServes, LobbyInv
  <2>2. a = agent /\ agent # Nil
    BY <2>1, RunsForRoom
  <2>3. amail[a] # << >> /\ amail' = [amail EXCEPT ![a] = Tail(@)]
    BY <1>32 DEF AgentQuit, AgentServes, Served
  <2>4. m.fd \in Fd /\ <<"quit", m.fd>> \in Key /\ m.op # "start"
    BY <1>32, <2>1, KeyOf DEF AgentQuit, AgentServes, AgentLetter, IsEvent
  <2>5. /\ ag' = ag \/ Works(<<"quit", m.fd>>, a, "leave", Nil)
        /\ dmail' = dmail \/ dmail' = Append(dmail, Msg("leave", m.fd, <<"quit", m.fd>>, TRUE))
    BY <1>32 DEF AgentQuit
  <2>20. UNCHANGED <<owner, members, agent, co>>
    BY <1>32 DEF AgentQuit, clientVars, roomVars, agentVars
  <2>21. SUFFICES ASSUME NEW g \in Fd, co[<<"enter", g>>].pc = "start", owner[g] \in members
                  PROVE  Answered(g)'
    BY <2>20 DEF EntryAnswered
  <2>10. StartsStay(g)
    BY <2>3, <2>4, AgentLettersStay
  <2> HIDE DEF m
  <2>6. <<"quit", m.fd>> # <<"enter", g>>
    OBVIOUS
  <2>7. ag'[<<"enter", g>>] = ag[<<"enter", g>>]
    BY <2>4, <2>5, <2>6, OtherWorks
  <2>8. AnswersStay(g)
    <3>1. /\ "leave" \in Ops /\ m.fd \in Fd \cup {Nil}
          /\ <<"quit", m.fd>> \in Key \cup {Nil} /\ TRUE \in BOOLEAN
      BY <2>4 DEF Ops
    <3>2. Msg("leave", m.fd, <<"quit", m.fd>>, TRUE) \in Mail
      BY <3>1, LetterIs, Zenon
    <3> QED BY <2>5, <3>2, DogLettersStay
  <2> QED BY <2>7, <2>8, <2>10, <2>20, <2>21, AnswerStays
<1>33. ASSUME NEW a \in Agent, AgentLeft(a) PROVE EntryAnswered'
  <2> DEFINE m == Head(amail[a])
  <2>1. m \in Mail /\ AgentLetter(m) /\ a \in alive
    BY <1>33, AgentHead DEF AgentLeft, AgentServes, LobbyInv
  <2>2. a = agent /\ agent # Nil
    BY <2>1, RunsForRoom
  <2>3. amail[a] # << >> /\ amail' = [amail EXCEPT ![a] = Tail(@)]
    BY <1>33 DEF AgentLeft, AgentServes, Served
  <2>4. m.key \in Key /\ m.op # "start" /\ ag[m.key].pc = "leave"
    BY <1>33, <2>1 DEF AgentLeft, AgentServes, AgentLetter, IsEvent
  <2>5. /\ Works(m.key, Nil, "idle", Nil)
        /\ dmail' = dmail \/ dmail' = Append(dmail, Answer(m.key, TRUE))
    BY <1>33 DEF AgentLeft
  <2>20. UNCHANGED <<owner, members, agent, co>>
    BY <1>33 DEF AgentLeft, clientVars, roomVars, agentVars
  <2>21. SUFFICES ASSUME NEW g \in Fd, co[<<"enter", g>>].pc = "start", owner[g] \in members
                  PROVE  Answered(g)'
    BY <2>20 DEF EntryAnswered
  <2>10. StartsStay(g)
    BY <2>3, <2>4, AgentLettersStay
  <2> HIDE DEF m
  <2>6. m.key # <<"enter", g>>
    <3>1. <<"enter", g>> \in Key /\ <<"enter", g>>[1] = "enter"
      BY KeyOf
    <3>2. ag[<<"enter", g>>].pc # "leave"
      BY <3>1 DEF LobbyInv, Jobs
    <3> QED BY <2>4, <3>2
  <2>7. ag'[<<"enter", g>>] = ag[<<"enter", g>>]
    BY <2>4, <2>5, <2>6, OtherWorks
  <2>8. AnswersStay(g)
    BY <2>4, <2>5, AnswerIs, DogLettersStay
  <2> QED BY <2>7, <2>8, <2>10, <2>20, <2>21, AnswerStays
<1> QED
  BY <1>2, <1>3, <1>4, <1>5, <1>6, <1>7, <1>8, <1>9, <1>10, <1>11, <1>12, <1>13, <1>14, <1>15,
     <1>16, <1>17, <1>18, <1>19, <1>20, <1>21, <1>22, <1>23, <1>24, <1>25, <1>26, <1>27, <1>28,
     <1>29, <1>30, <1>31, <1>32, <1>33 DEF LobbyNext

-----------------------------------------------------------------------------
(* A connection is registered before its close is served.                  *)

(* Letter i of the watchdog's mailbox would register f, which is open still *)
(* or whose close comes later.                                             *)
Registers(q, i, f) == q[i].op = "answer" /\ q[i].key = <<"open", f>> /\ q[i].ok
ClosedAfter(q, i, f) == \E j \in DOMAIN q : i < j /\ q[j] = Event("close", f)

LEMMA OrderServed ==
    ASSUME LobbyInv, dmail # << >>, NEW r \in Seq(Mail), dmail' = Tail(dmail) \o r,
           \A m \in Range(r) : m.op = "answer" => ~m.ok, conn' = conn
    PROVE  OpenOrder'
<1>1. dmail \in Seq(Mail) /\ OpenOrder
  BY DEF LobbyInv, DogMail
<1>2. /\ Len(dmail) \in Nat /\ Len(dmail) >= 1 /\ DOMAIN dmail = 1..Len(dmail) /\ Len(r) \in Nat
      /\ Tail(dmail) \in Seq(Mail) /\ Len(Tail(dmail)) = Len(dmail) - 1 /\ DOMAIN r = 1..Len(r)
      /\ \A i \in 1..(Len(dmail) - 1) : Tail(dmail)[i] = dmail[i + 1]
  BY <1>1
<1>3. /\ DOMAIN dmail' = 1..(Len(dmail) - 1 + Len(r))
      /\ \A i \in 1..(Len(dmail) - 1) : dmail'[i] = Tail(dmail)[i]
      /\ \A i \in DOMAIN dmail' : i > Len(dmail) - 1 => i - (Len(dmail) - 1) \in DOMAIN r
                                                        /\ dmail'[i] = r[i - (Len(dmail) - 1)]
  BY <1>2
<1> SUFFICES ASSUME NEW f \in Fd, NEW i \in DOMAIN dmail', Registers(dmail', i, f), conn[f] = "none"
             PROVE  ClosedAfter(dmail', i, f)
  BY DEF OpenOrder, Registers, ClosedAfter
<1>4. i \in 1..(Len(dmail) - 1)
  <2> SUFFICES ASSUME i > Len(dmail) - 1 PROVE FALSE
    BY <1>2, <1>3
  <2>1. i - (Len(dmail) - 1) \in DOMAIN r /\ dmail'[i] = r[i - (Len(dmail) - 1)]
    BY <1>3
  <2>2. dmail'[i] \in Range(r)
    BY <2>1 DEF Range
  <2> QED BY <2>2 DEF Registers
<1>5. i + 1 \in DOMAIN dmail /\ dmail'[i] = dmail[i + 1]
  BY <1>2, <1>3, <1>4
<1>6. ClosedAfter(dmail, i + 1, f)
  BY <1>1, <1>5 DEF OpenOrder, Registers, ClosedAfter
<1>7. PICK j \in DOMAIN dmail : i + 1 < j /\ dmail[j] = Event("close", f)
  BY <1>6 DEF ClosedAfter
<1>8. j - 1 \in DOMAIN dmail' /\ i < j - 1 /\ dmail'[j - 1] = dmail[j]
  BY <1>2, <1>3, <1>4, <1>7
<1> QED BY <1>7, <1>8 DEF ClosedAfter

LEMMA OrderTail ==
    ASSUME LobbyInv, dmail # << >>, dmail' = Tail(dmail), conn' = conn
    PROVE  OpenOrder'
<1>1. << >> \in Seq(Mail) /\ Range(<< >>) = {}
  BY DEF Range
<1>2. dmail' = Tail(dmail) \o << >>
  BY DogHead DEF LobbyInv
<1> QED BY <1>1, <1>2, OrderServed

(* A letter is posted, and connections may be closed. *)
LEMMA OrderPosted ==
    ASSUME LobbyInv, NEW m \in Mail, dmail' = Append(dmail, m),
           \A f \in Fd : /\ m.op = "answer" /\ m.key = <<"open", f>> /\ m.ok => conn'[f] # "none"
                         /\ conn'[f] = "none" => conn[f] = "none" \/ m = Event("close", f)
    PROVE  OpenOrder'
<1>1. dmail \in Seq(Mail) /\ OpenOrder
  BY DEF LobbyInv, DogMail
<1>2. /\ Len(dmail) \in Nat /\ DOMAIN dmail = 1..Len(dmail) /\ DOMAIN dmail' = 1..(Len(dmail) + 1)
      /\ \A i \in 1..Len(dmail) : dmail'[i] = dmail[i]
      /\ dmail'[Len(dmail) + 1] = m
  BY <1>1
<1> SUFFICES ASSUME NEW f \in Fd, NEW i \in DOMAIN dmail', Registers(dmail', i, f), conn'[f] = "none"
             PROVE  ClosedAfter(dmail', i, f)
  BY DEF OpenOrder, Registers, ClosedAfter
<1>3. i \in DOMAIN dmail
  <2>1. i # Len(dmail) + 1
    BY <1>2 DEF Registers
  <2> QED BY <1>2, <2>1
<1>4. Registers(dmail, i, f)
  BY <1>2, <1>3 DEF Registers
<1>5. CASE conn[f] = "none"
  <2>1. PICK j \in DOMAIN dmail : i < j /\ dmail[j] = Event("close", f)
    BY <1>1, <1>3, <1>4, <1>5 DEF OpenOrder, Registers
  <2>2. j \in DOMAIN dmail' /\ dmail'[j] = dmail[j]
    BY <1>2
  <2> QED BY <2>1, <2>2 DEF ClosedAfter
<1>6. CASE m = Event("close", f)
  <2>1. Len(dmail) + 1 \in DOMAIN dmail' /\ i < Len(dmail) + 1
    BY <1>2, <1>3
  <2> QED BY <1>2, <1>6, <2>1 DEF ClosedAfter
<1> QED BY <1>5, <1>6

LEMMA OrderOther ==
    ASSUME LobbyInv, NEW m \in Mail, dmail' = Append(dmail, m), m.op # "answer" \/ m.key[1] # "open",
           conn' = conn
    PROVE  OpenOrder'
<1>1. ASSUME NEW f \in Fd PROVE ~(m.op = "answer" /\ m.key = <<"open", f>>)
  OBVIOUS
<1> QED BY <1>1, OrderPosted

LEMMA OrderConn ==
    ASSUME LobbyInv, dmail' = dmail, \A f \in Fd : conn'[f] = "none" => conn[f] = "none"
    PROVE  OpenOrder'
BY DEF LobbyInv, OpenOrder

(* The answers of an agent are to no open. *)
LEMMA OrderAnswer ==
    ASSUME LobbyInv, NEW k \in Key, k[1] # "open", NEW ok \in BOOLEAN,
           dmail' = Append(dmail, Answer(k, ok)), conn' = conn
    PROVE  OpenOrder'
<1>1. Answer(k, ok) \in Mail /\ Answer(k, ok).key = k
  BY AnswerIs
<1> QED BY <1>1, OrderOther

LEMMA OrderLeave ==
    ASSUME LobbyInv, NEW k \in Key, NEW f \in Fd, dmail' = Append(dmail, Msg("leave", f, k, TRUE)),
           conn' = conn
    PROVE  OpenOrder'
<1> DEFINE m == Msg("leave", f, k, TRUE)
<1>1. "leave" \in Ops /\ f \in Fd \cup {Nil} /\ k \in Key \cup {Nil} /\ TRUE \in BOOLEAN
  BY DEF Ops
<1>2. m \in Mail /\ m.op = "leave"
  BY <1>1 DEF Msg, Mail
<1>3. dmail' = Append(dmail, m)
  OBVIOUS
<1> HIDE DEF m
<1> QED BY <1>2, <1>3, OrderOther

(* The answer to accept stands before the close in the watchdog's mailbox. *)
LEMMA OpenOrderKept ==
    ASSUME LobbyInv, LobbyNext
    PROVE  OpenOrder'
<1>1. UNCHANGED <<dmail, conn>> => OpenOrder'
  BY DEF LobbyInv, OpenOrder
<1>2. ASSUME NEW f \in Fd, Connect(f) \/ Hangup(f) \/ LoginFails(f) \/ LoginAccepted(f) PROVE
      OpenOrder'
  BY <1>2, <1>1 DEF Connect, Hangup, LoginFails, LoginAccepted, gateVars
<1>3. ASSUME NEW f \in Fd, EnterFails(f) \/ EnterAgent(f) \/ EnterNotLaunched(f) \/ EnterMember(f)
      PROVE OpenOrder'
  BY <1>3, <1>1 DEF EnterFails, EnterAgent, EnterNotLaunched, EnterMember, gateVars
<1>4. ASSUME NEW f \in Fd, NEW what \in {"login", "enter", "quit"}, Request(f, what) PROVE
      OpenOrder'
  BY <1>4, <1>1 DEF Request, gateVars
<1>5. ASSUME NEW f \in Fd, NEW a \in Agent, EnterLaunched(f, a) PROVE OpenOrder'
  BY <1>5, <1>1 DEF EnterLaunched, gateVars
<1>6. ASSUME GateForward PROVE OpenOrder'
  BY <1>6, <1>1 DEF GateForward, gateVars
<1>7. ASSUME NEW a \in Agent, AgentDisconnect(a) PROVE OpenOrder'
  BY <1>7, <1>1 DEF AgentDisconnect, gateVars
<1>8. ASSUME NEW f \in Fd, GateTimeout(f) PROVE OpenOrder'
  <2>1. dmail' = dmail /\ conn' = [conn EXCEPT ![f] = "off"] /\ conn \in [Fd -> {"none", "on",
        "off"}]
    BY <1>8 DEF GateTimeout, LobbyInv, TableTypes
  <2>2. \A g \in Fd : conn'[g] = "none" => conn[g] = "none"
    BY <2>1
  <2> QED BY <2>1, <2>2, OrderConn
<1>9. ASSUME NEW f \in Fd, SocketOpened(f) PROVE OpenOrder'
  BY <1>9, OrderTail DEF SocketOpened, Resumes, DogServes, gateVars
<1>10. ASSUME NEW f \in Fd, Entered(f) PROVE OpenOrder'
  BY <1>10, OrderTail DEF Entered, Resumes, DogServes, gateVars
<1>11. ASSUME GateOpen PROVE OpenOrder'
  <2> DEFINE f == Head(gmail).fd
             m == Event("open", f)
  <2>1. f \in Fd
    BY <1>11, GateHead DEF GateOpen, GateServes, LobbyInv, GateLetter, IsEvent
  <2>2. dmail' = Append(dmail, m) /\ conn' = [conn EXCEPT ![f] = "on"] /\ conn \in [Fd -> {"none",
        "on", "off"}]
    BY <1>11 DEF GateOpen, LobbyInv, TableTypes
  <2>3. m \in Mail /\ m.op = "open"
    BY <2>1, EventIs
  <2>4. \A g \in Fd : conn'[g] = "none" => conn[g] = "none" \/ m = Event("close", g)
    BY <2>1, <2>2
  <2> HIDE DEF m
  <2> QED BY <2>2, <2>3, <2>4, OrderPosted
<1>12. ASSUME GateAccept PROVE OpenOrder'
  <2> DEFINE l == Head(gmail)
             ok == conn[l.fd] # "none"
             m == Answer(l.key, ok)
  <2>1. l.fd \in Fd /\ l.key = <<"open", l.fd>> /\ l.key \in Key
    <3>1. l.fd \in Fd /\ l.key = <<"open", l.fd>>
      BY <1>12, GateHead DEF GateAccept, GateServes, LobbyInv, GateLetter, IsEvent
    <3> HIDE DEF l
    <3>2. <<"open", l.fd>> \in Key
      BY <3>1, KeyOf
    <3> QED BY <3>1, <3>2
  <2>2. dmail' = Append(dmail, m) /\ conn' = conn /\ ok \in BOOLEAN
    BY <1>12 DEF GateAccept, gateVars
  <2>3. m \in Mail /\ m.key = l.key /\ m.ok = ok
    <3> HIDE DEF l, ok
    <3> QED BY <2>1, <2>2, AnswerIs
  <2>4. ASSUME NEW f \in Fd, m.op = "answer", m.key = <<"open", f>>, m.ok PROVE conn'[f] # "none"
    <3>1. l.fd = f
      BY <2>1, <2>3, <2>4
    <3>2. ok
      BY <2>3, <2>4
    <3> QED BY <2>2, <3>1, <3>2
  <2> HIDE DEF m
  <2> QED BY <2>2, <2>3, <2>4, OrderPosted
<1>13. ASSUME GateKick PROVE OpenOrder'
  <2> DEFINE l == Head(gmail)
             m == Answer(l.key, TRUE)
  <2>1. l.fd \in Fd /\ l.key \in Key /\ l.key[1] # "open"
    BY <1>13, GateHead DEF GateKick, GateServes, LobbyInv, GateLetter, IsEvent, Key
  <2>2. dmail' = Append(dmail, m) /\ conn' = [conn EXCEPT ![l.fd] = IF @ = "on" THEN "off" ELSE @]
    BY <1>13 DEF GateKick
  <2> HIDE DEF l
  <2>3. m \in Mail /\ m.key = l.key
    BY <2>1, AnswerIs
  <2>4. ASSUME NEW f \in Fd PROVE m.key # <<"open", f>>
    <3>1. <<"open", f>>[1] = "open"
      BY KeyOf
    <3> QED BY <2>1, <2>3, <3>1, Zenon
  <2>5. \A f \in Fd : conn'[f] = "none" => conn[f] = "none"
    BY <2>1, <2>2 DEF LobbyInv, TableTypes
  <2> HIDE DEF m
  <2> QED BY <2>2, <2>3, <2>4, <2>5, OrderPosted
<1>14. ASSUME GateData PROVE OpenOrder'
  <2> DEFINE m == Head(gmail)
  <2>1. m \in Mail /\ IsEvent(m)
    BY <1>14, GateHead DEF GateData, GateServes, LobbyInv, GateLetter
  <2>2. (dmail' = dmail \/ dmail' = Append(dmail, m)) /\ conn' = conn
    BY <1>14 DEF GateData, gateVars
  <2>3. m.op # "answer"
    BY <2>1 DEF IsEvent
  <2> HIDE DEF m
  <2> QED BY <2>1, <2>2, <2>3, OrderOther, OrderConn
<1>15. ASSUME GateClose PROVE OpenOrder'
  <2> DEFINE f == Head(gmail).fd
             m == Event("close", f)
  <2>1. f \in Fd
    BY <1>15, GateHead DEF GateClose, GateServes, LobbyInv, GateLetter, IsEvent
  <2>2. dmail' = Append(dmail, m) /\ conn' = [conn EXCEPT ![f] = "none"] /\ conn \in [Fd ->
        {"none", "on", "off"}]
    BY <1>15 DEF GateClose, LobbyInv, TableTypes
  <2>3. m \in Mail /\ m.op = "close"
    BY <2>1, EventIs
  <2>4. \A g \in Fd : conn'[g] = "none" => conn[g] = "none" \/ m = Event("close", g)
    BY <2>1, <2>2
  <2> HIDE DEF m
  <2> QED BY <2>2, <2>3, <2>4, OrderPosted
<1>16. ASSUME SocketOpen PROVE OpenOrder'
  BY <1>16, OrderTail DEF SocketOpen, DogServes, gateVars
<1>17. ASSUME SocketClose PROVE OpenOrder'
  BY <1>17, OrderTail DEF SocketClose, DogServes, gateVars
<1>18. ASSUME Login PROVE OpenOrder'
  BY <1>18, OrderTail DEF Login, DogServes, gateVars
<1>19. ASSUME EnterRoom PROVE OpenOrder'
  BY <1>19, OrderTail DEF EnterRoom, DogServes, gateVars
<1>20. ASSUME ExitMember PROVE OpenOrder'
  <2>1. dmail # << >> /\ conn' = conn
    BY <1>20 DEF ExitMember, Exit, gateVars
  <2>2. CASE dmail' = Tail(dmail)
    BY <2>1, <2>2, OrderTail
  <2>3. CASE agent # Nil /\ Kill(agent, Tail(dmail))
    <3>1. agent \in Agent /\ Tail(dmail) \in Seq(Mail)
      BY <2>1, <2>3, DogHead DEF LobbyInv, AgentInv, WorkTypes
    <3>2. PICK r \in Seq(Mail) :
              /\ dmail' = Tail(dmail) \o r
              /\ \A m \in Range(r) : \E l \in Range(amail[agent]) :
                    /\ l.op \in {"start", "disconnect"} /\ l.key \in Key /\ l.key[1] # "open"
                    /\ m = Answer(l.key, FALSE)
      BY <2>3, <3>1, KillAnswers
    <3>3. ASSUME NEW m \in Range(r) PROVE ~m.ok
      <4>1. PICK l \in Range(amail[agent]) : l.key \in Key /\ m = Answer(l.key, FALSE)
        BY <3>2
      <4> QED BY <4>1, AnswerIs
    <3> QED BY <2>1, <3>2, <3>3, OrderServed
  <2> QED BY <1>20, <2>2, <2>3 DEF ExitMember, Exit
<1>21. ASSUME DogRefuses PROVE OpenOrder'
  BY <1>21, OrderTail DEF DogRefuses, DogServes, gateVars
<1>22. ASSUME NEW k \in Key, Kicked(k) PROVE OpenOrder'
  BY <1>22, OrderTail DEF Kicked, Resumes, DogServes, gateVars
<1>23. ASSUME NEW k \in Key, Reported(k) PROVE OpenOrder'
  BY <1>23, OrderTail DEF Reported, Resumes, DogServes, gateVars
<1>24. ASSUME NEW k \in Key, CloseRaises(k) PROVE OpenOrder'
  BY <1>24, OrderTail DEF CloseRaises, Resumes, DogServes, gateVars
<1>25. ASSUME NEW k \in Key, AgentPeople(k) PROVE OpenOrder'
  <2>1. k[1] # "open" /\ conn' = conn
    BY <1>25 DEF AgentPeople, LobbyInv, Jobs, gateVars
  <2>2. CASE Reply(k, TRUE)
    BY <2>1, <2>2, OrderAnswer DEF Reply
  <2>3. CASE ag[k].fd # Nil /\ dmail' = Append(dmail, Msg("leave", ag[k].fd, k, TRUE))
    <3>1. ag[k].fd \in Fd
      BY <2>3 DEF LobbyInv, WorkTypes
    <3> QED BY <2>1, <2>3, <3>1, OrderLeave
  <2> QED BY <1>25, <2>2, <2>3 DEF AgentPeople
<1>26. ASSUME NEW a \in Agent, AgentStart(a) PROVE OpenOrder'
  <2> DEFINE m == Head(amail[a])
  <2>1. m.key \in Key
    BY <1>26, AgentHead DEF AgentStart, AgentServes, LobbyInv, AgentLetter, IsEvent, Key
  <2>2. m.key[1] # "open"
    BY <1>26, AgentHead DEF AgentStart, AgentServes, LobbyInv, AgentLetter, IsEvent
  <2>3. (dmail' = dmail \/ dmail' = Append(dmail, Answer(m.key, TRUE))) /\ conn' = conn
    BY <1>26 DEF AgentStart, Reply, gateVars
  <2> HIDE DEF m
  <2> QED BY <2>1, <2>2, <2>3, OrderAnswer, OrderConn
<1>27. ASSUME NEW a \in Agent, AgentLogin(a) PROVE OpenOrder'
  <2> DEFINE m == Head(amail[a])
  <2>1. m.key \in Key
    BY <1>27, AgentHead DEF AgentLogin, AgentServes, LobbyInv, AgentLetter, IsEvent, Key
  <2>2. m.key[1] # "open"
    <3>1. ag[m.key].pc = "forward"
      BY <1>27 DEF AgentLogin
    <3> HIDE DEF m
    <3> QED BY <2>1, <3>1 DEF LobbyInv, Jobs
  <2>3. (dmail' = dmail \/ dmail' = Append(dmail, Answer(m.key, FALSE))) /\ conn' = conn
    BY <1>27 DEF AgentLogin, Reply, gateVars
  <2> HIDE DEF m
  <2> QED BY <2>1, <2>2, <2>3, OrderAnswer, OrderConn
<1>28. ASSUME NEW a \in Agent, AgentQuit(a) PROVE OpenOrder'
  <2> DEFINE f == Head(amail[a]).fd
  <2>1. f \in Fd /\ <<"quit", f>> \in Key
    BY <1>28, AgentHead, KeyOf DEF AgentQuit, AgentServes, LobbyInv, AgentLetter, IsEvent
  <2>2. (dmail' = dmail \/ dmail' = Append(dmail, Msg("leave", f, <<"quit", f>>, TRUE))) /\ conn'
        = conn
    BY <1>28 DEF AgentQuit, gateVars
  <2> HIDE DEF f
  <2> QED BY <2>1, <2>2, OrderLeave, OrderConn
<1>29. ASSUME NEW a \in Agent, AgentLeft(a) PROVE OpenOrder'
  <2> DEFINE m == Head(amail[a])
  <2>1. m.key \in Key
    BY <1>29, AgentHead DEF AgentLeft, AgentServes, LobbyInv, AgentLetter, IsEvent, Key
  <2>2. m.key[1] # "open"
    <3>1. ag[m.key].pc = "leave"
      BY <1>29 DEF AgentLeft
    <3> HIDE DEF m
    <3> QED BY <2>1, <3>1 DEF LobbyInv, Jobs
  <2>3. (dmail' = dmail \/ dmail' = Append(dmail, Answer(m.key, TRUE))) /\ conn' = conn
    BY <1>29 DEF AgentLeft, Reply, gateVars
  <2> HIDE DEF m
  <2> QED BY <2>1, <2>2, <2>3, OrderAnswer, OrderConn
<1> QED
  BY <1>2, <1>3, <1>4, <1>5, <1>6, <1>7, <1>8, <1>9, <1>10, <1>11, <1>12, <1>13, <1>14, <1>15,
     <1>16, <1>17, <1>18, <1>19, <1>20, <1>21, <1>22, <1>23, <1>24, <1>25, <1>26, <1>27, <1>28,
     <1>29 DEF LobbyNext

-----------------------------------------------------------------------------
(* The theorems.                                                           *)

(* The initial states have the invariant. *)
LEMMA LobbyStarts ==
    ASSUME LobbyInit
    PROVE  LobbyInv
<1>1. << >> \in Seq(Mail) /\ << >> \in Seq(Fd) /\ Range(<< >>) = {} /\ DOMAIN << >> = {}
  BY DEF Range
<1>2. Idle \in [pc : CoPc, vic : Fd \cup {Nil}] /\ Idle.pc = "idle"
  BY DEF Idle, CoPc
<1>3. TableTypes
  BY DEF LobbyInit, TableTypes
<1>4. WorkTypes
  BY <1>1, <1>2 DEF LobbyInit, WorkTypes, AgPc
<1>5. GateMail /\ DogMail /\ AgentMail
  BY <1>1 DEF LobbyInit, GateMail, DogMail, AgentMail
<1>6. \A k \in Key : /\ co[k] = Idle /\ ag[k].pc = "idle" /\ ag[k].at = Nil /\ ag[k].fd = Nil
  BY DEF LobbyInit
<1>7. Jobs
  BY <1>6 DEF Jobs
<1>8. ASSUME NEW f \in Fd, NEW w \in {"open", "close", "login", "enter", "quit"}
      PROVE  co[<<w, f>>].pc = "idle"
  <2>1. <<w, f>> \in Key
    BY KeyOf
  <2> QED BY <1>2, <1>6, <2>1
<1>9. Section
  BY <1>1, <1>8 DEF LobbyInit, Section
<1>10. EnterOnce
  BY <1>1, <1>8 DEF LobbyInit, EnterOnce, ServedOnce, Coming, Once, Before
<1>11. AgentInv
  BY <1>8 DEF LobbyInit, AgentInv, OneAgent
<1>12. MemberInv
  BY FS_EmptySet DEF LobbyInit, MemberInv, CountCoversMembers
<1>13. EntryAnswered
  BY DEF LobbyInit, EntryAnswered
<1>14. OpenOrder
  BY <1>1 DEF LobbyInit, OpenOrder
<1> QED BY <1>3, <1>4, <1>5, <1>7, <1>9, <1>10, <1>11, <1>12, <1>13, <1>14 DEF LobbyInv

(* Every step keeps it. *)
LEMMA LobbySteps ==
    ASSUME LobbyInv, [LobbyNext]_lobbyVars
    PROVE  LobbyInv'
<1>1. CASE LobbyNext
  BY <1>1, TablesKept, WorkKept, GateMailKept, DogMailKept, AgentMailKept, JobsKept, SectionKept,
     EnterOnceKept, AgentInvKept, MemberInvKept, EntryAnsweredKept, OpenOrderKept DEF LobbyInv
<1>2. CASE UNCHANGED lobbyVars
  <2>1. /\ UNCHANGED <<owner, sock, asked, gmail, dmail, amail, conn, fwd>>
        /\ UNCHANGED <<conns, logged, ufd, uroom, users, online_num, members, member_count, agent>>
        /\ UNCHANGED <<csq, co, alive, aconns, ag>>
    BY <1>2 DEF lobbyVars, clientVars, gateVars, tableVars, roomVars, agentVars
  <2>2. TableTypes' /\ WorkTypes'
    BY <2>1 DEF LobbyInv, TableTypes, WorkTypes
  <2>3. GateMail' /\ DogMail' /\ AgentMail' /\ Jobs'
    BY <2>1 DEF LobbyInv, GateMail, DogMail, AgentMail, Jobs
  <2>4. Section'
    BY <2>1 DEF LobbyInv, Section
  <2>5. EnterOnce'
    BY <2>1 DEF LobbyInv, EnterOnce, ServedOnce, Coming
  <2>6. AgentInv' /\ MemberInv'
    BY <2>1 DEF LobbyInv, AgentInv, OneAgent, MemberInv, CountCoversMembers
  <2>7. EntryAnswered'
    BY <2>1 DEF LobbyInv, EntryAnswered, Answered
  <2>8. OpenOrder'
    BY <2>1 DEF LobbyInv, OpenOrder
  <2> QED BY <2>2, <2>3, <2>4, <2>5, <2>6, <2>7, <2>8 DEF LobbyInv
<1> QED BY <1>1, <1>2

(* The invariant holds in every state the gate, the watchdog and the       *)
(* agents can reach, whatever order their mailboxes are served in.         *)
THEOREM LobbyCorrect == LobbySpec => []LobbyInv
<1>1. LobbyInit => LobbyInv
  BY LobbyStarts
<1>2. LobbyInv /\ [LobbyNext]_lobbyVars => LobbyInv'
  BY LobbySteps
<1> QED BY <1>1, <1>2, PTL DEF LobbySpec

(* Every table, socket and coroutine of the lobby has its type, member_count *)
(* is never negative, and room.agent never names a service that exit_member *)
(* killed.                                                                  *)
THEOREM LobbyTypeCorrect == LobbySpec => []LobbyTypeOK
<1>1. LobbyInv => LobbyTypeOK
  BY DEF LobbyInv, TableTypes, WorkTypes, AgentInv, MemberInv, LobbyTypeOK
<1> QED BY <1>1, LobbyCorrect, PTL

(* Through every interleaving of enter_room, leave_agent and the kill of   *)
(* the agent: the only agent that runs is the one mgr knows, the start of a *)
(* member is answered, and member_count covers the members, so exit_member *)
(* kills the agent of an empty room only.                                  *)
THEOREM RoomServed == LobbySpec => []MembersServed
<1>1. LobbyInv => MembersServed
  BY DEF LobbyInv, AgentInv, MemberInv, MembersServed
<1> QED BY <1>1, LobbyCorrect, PTL

(* Which steps change the connections that the watchdog has registered. *)
LEMMA ConnsChange ==
    ASSUME LobbyNext
    PROVE  \/ conns' = conns
           \/ \E f \in Fd : SocketOpened(f)
           \/ \E k \in Key : Kicked(k) \/ Reported(k)
<1>1. ASSUME NEW f \in Fd, Connect(f) \/ Hangup(f) \/ GateTimeout(f) \/ LoginFails(f)
      PROVE  conns' = conns
  BY <1>1 DEF Connect, Hangup, GateTimeout, LoginFails, tableVars
<1>2. ASSUME NEW f \in Fd, LoginAccepted(f) \/ EnterFails(f) \/ EnterAgent(f) \/ EnterNotLaunched(f)
      PROVE  conns' = conns
  BY <1>2 DEF LoginAccepted, EnterFails, EnterAgent, EnterNotLaunched, tableVars
<1>3. ASSUME NEW f \in Fd, EnterMember(f) \/ Entered(f)
      PROVE  conns' = conns
  BY <1>3 DEF EnterMember, Entered, tableVars
<1>4. ASSUME NEW f \in Fd, NEW what \in {"login", "enter", "quit"}, Request(f, what)
      PROVE  conns' = conns
  BY <1>4 DEF Request, tableVars
<1>5. ASSUME NEW f \in Fd, NEW a \in Agent, EnterLaunched(f, a)
      PROVE  conns' = conns
  BY <1>5 DEF EnterLaunched, tableVars
<1>6. ASSUME GateOpen \/ GateAccept \/ GateKick \/ GateForward
      PROVE  conns' = conns
  BY <1>6 DEF GateOpen, GateAccept, GateKick, GateForward, tableVars
<1>7. ASSUME GateData \/ GateClose \/ SocketOpen \/ SocketClose
      PROVE  conns' = conns
  BY <1>7 DEF GateData, GateClose, SocketOpen, SocketClose, tableVars
<1>8. ASSUME Login \/ EnterRoom \/ ExitMember \/ DogRefuses
      PROVE  conns' = conns
  BY <1>8 DEF Login, EnterRoom, ExitMember, DogRefuses, Exit, tableVars
<1>9. ASSUME NEW k \in Key, CloseRaises(k) \/ AgentPeople(k)
      PROVE  conns' = conns
  BY <1>9 DEF CloseRaises, AgentPeople, tableVars
<1>10. ASSUME NEW a \in Agent, AgentStart(a) \/ AgentLogin(a) \/ AgentDisconnect(a) \/ AgentQuit(a)
      PROVE  conns' = conns
  BY <1>10 DEF AgentStart, AgentLogin, AgentDisconnect, AgentQuit, tableVars
<1>11. ASSUME NEW a \in Agent, AgentLeft(a)
      PROVE  conns' = conns
  BY <1>11 DEF AgentLeft, tableVars
<1> QED
  BY <1>1, <1>2, <1>3, <1>4, <1>5, <1>6, <1>7, <1>8, <1>9, <1>10, <1>11 DEF LobbyNext

(* SOCKET.open registers a connection after its call of accept has yielded; *)
(* it never registers one whose close the watchdog has already served.     *)
THEOREM OpenBeforeClose == LobbySpec => RegisteredOpen
<1>1. ASSUME LobbyInv, [LobbyNext]_lobbyVars
      PROVE  [\A f \in conns' \ conns : conn[f] # "none" \/ Event("close", f) \in Range(dmail)]_lobbyVars
  <2> SUFFICES ASSUME LobbyNext, NEW f \in conns' \ conns
               PROVE  conn[f] # "none" \/ Event("close", f) \in Range(dmail)
    BY <1>1
  <2>1. SocketOpened(f) /\ f \in Fd
    <3>1. ASSUME NEW g \in Fd, SocketOpened(g) PROVE f = g
      BY <3>1 DEF SocketOpened
    <3>2. ASSUME NEW k \in Key, Kicked(k) \/ Reported(k) PROVE FALSE
      BY <3>2 DEF Kicked, Reported, Forget
    <3>3. CASE conns' = conns
      BY <3>3
    <3> QED BY <3>1, <3>2, <3>3, ConnsChange
  <2>2. dmail # << >> /\ Head(dmail).op = "answer" /\ Head(dmail).key = <<"open", f>> /\ Head(dmail).ok
    BY <2>1 DEF SocketOpened, Resumes, DogServes
  <2>3. dmail \in Seq(Mail) /\ OpenOrder
    BY <1>1 DEF LobbyInv, DogMail
  <2>4. 1 \in DOMAIN dmail /\ dmail[1] = Head(dmail)
    BY <2>2, <2>3
  <2> QED BY <2>1, <2>2, <2>3, <2>4 DEF OpenOrder, Range
<1> QED BY <1>1, LobbyCorrect, PTL DEF LobbySpec, RegisteredOpen
=============================================================================

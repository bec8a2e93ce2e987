------------------------------- MODULE Lobby -------------------------------
(***************************************************************************)
(* The lobby: the gate service (server_gate.lua on snax.gateserver), the   *)
(* watchdog with the room manager (watchdog.lua, room/mgr.lua) and the     *)
(* agent of one room (agent.lua, room/cmd.lua), with the messages between  *)
(* them.  Each service has one mailbox, served in order; a message starts  *)
(* a coroutine, which runs until it calls another service and goes on when *)
(* the answer is served.  A kill drops the agent: requests still in its    *)
(* mailbox are answered with an error, its coroutines vanish unanswered.   *)
(*                                                                         *)
(* Every connection belongs to one user and logs in at most once, so the   *)
(* user table made by a login is named by its connection.  The room is a   *)
(* permanent one: no room card, no club, no password.  What a game decides *)
(* (may the user leave) and what the account service answers are choices.  *)
(***************************************************************************)
EXTENDS Integers, Sequences, FiniteSets, SequencesExt

CONSTANTS
    Fd, Uid,
    Agent,      \* the agent services that may be launched, used in any order
    Nil

ASSUME LobbyAssumption == Nil \notin Fd \cup Uid \cup Agent

VARIABLES
    owner,      \* the user behind each connection
    sock,       \* a client's socket: "new", "pending", "up", "closing", "down"
    asked,      \* what each client has sent
    gmail, dmail, amail,        \* mailboxes of the gate, the watchdog, each agent
    conn,       \* the gate's connection[fd]: "none", "on" (true), "off" (false)
    fwd,        \* the gate's c.agent
    conns,      \* the watchdog's g.conns
    logged,     \* the connections whose conns[fd].user is set
    ufd, uroom, \* the user tables: user.fd is set, user.roomid is set
    users,      \* g.users: uid -> user table
    online_num,
    members, member_count, agent,   \* the room: members, member_count, agent
    csq,        \* the enter_room calls in the section, its owner first
    co,         \* the watchdog's coroutines
    alive,      \* the agents that run
    aconns,     \* an agent's g.conns
    ag          \* the agents' coroutines, by the request they serve

clientVars == <<owner, sock, asked>>
gateVars == <<conn, fwd>>
tableVars == <<conns, logged, ufd, uroom, users, online_num>>
roomVars == <<members, member_count, agent>>
agentVars == <<alive, aconns, ag>>
lobbyVars == <<clientVars, gmail, dmail, amail, gateVars, tableVars, roomVars, csq, co, agentVars>>

(* Requests: who asked, on behalf of which connection. *)
Key == {"open", "close", "login", "enter", "quit"} \X Fd
Msg(op, fd, key, ok) == [op |-> op, fd |-> fd, key |-> key, ok |-> ok]
Event(op, fd) == Msg(op, fd, Nil, TRUE)
Answer(key, ok) == Msg("answer", Nil, key, ok)

Idle == [pc |-> "idle", vic |-> Nil]
Rest(k) == [co EXCEPT ![k] = Idle]
At(k, pc, vic) == [co EXCEPT ![k] = [pc |-> pc, vic |-> vic]]

LobbyInit ==
    /\ owner \in [Fd -> Uid]
    /\ sock = [f \in Fd |-> "new"] /\ asked = [f \in Fd |-> {}]
    /\ gmail = << >> /\ dmail = << >> /\ amail = [a \in Agent |-> << >>]
    /\ conn = [f \in Fd |-> "none"] /\ fwd = [f \in Fd |-> Nil]
    /\ conns = {} /\ logged = {} /\ ufd = {} /\ uroom = {}
    /\ users = [u \in Uid |-> Nil] /\ online_num = 0
    /\ members = {} /\ member_count = 0 /\ agent = Nil
    /\ csq = << >> /\ co = [k \in Key |-> Idle]
    /\ alive = {} /\ aconns = [a \in Agent |-> {}]
    /\ ag = [k \in Key |-> [pc |-> "idle", at |-> Nil, fd |-> Nil]]

-----------------------------------------------------------------------------
(* Clients and sockets.                                                    *)

Connect(f) ==
    /\ sock[f] = "new"
    /\ sock' = [sock EXCEPT ![f] = "pending"]
    /\ gmail' = Append(gmail, Event("open", f))
    /\ UNCHANGED <<owner, asked, dmail, amail, gateVars, tableVars, roomVars, csq, co, agentVars>>

(* A client sends a request; quit is sent by one that asked to enter. *)
Request(f, what) ==
    /\ sock[f] = "up" /\ what \notin asked[f]
    /\ what = "quit" => "enter" \in asked[f]
    /\ asked' = [asked EXCEPT ![f] = @ \cup {what}]
    /\ gmail' = Append(gmail, Event(what, f))
    /\ UNCHANGED <<owner, sock, dmail, amail, gateVars, tableVars, roomVars, csq, co, agentVars>>

(* The client hangs up, or the close that the gate asked for is done. *)
Hangup(f) ==
    /\ sock[f] \in {"up", "closing"}
    /\ sock' = [sock EXCEPT ![f] = "down"]
    /\ gmail' = Append(gmail, Event("close", f))
    /\ UNCHANGED <<owner, asked, dmail, amail, gateVars, tableVars, roomVars, csq, co, agentVars>>

-----------------------------------------------------------------------------
(* The gate serves its mailbox.                                            *)

GateServes(op) == gmail # << >> /\ Head(gmail).op = op /\ gmail' = Tail(gmail)

(* handler.connect *)
GateOpen ==
    /\ GateServes("open")
    /\ LET f == Head(gmail).fd IN
         conn' = [conn EXCEPT ![f] = "on"] /\ dmail' = Append(dmail, Event("open", f))
    /\ UNCHANGED <<clientVars, amail, fwd, tableVars, roomVars, csq, co, agentVars>>

(* CMD.accept: openclient starts the socket. *)
GateAccept ==
    /\ GateServes("accept")
    /\ LET m == Head(gmail) IN
         /\ fwd' = [fwd EXCEPT ![m.fd] = Nil]
         /\ sock' = [sock EXCEPT ![m.fd] = IF @ = "pending" /\ conn[m.fd] = "on" THEN "up" ELSE @]
         /\ dmail' = Append(dmail, Answer(m.key, conn[m.fd] # "none"))
    /\ UNCHANGED <<owner, asked, amail, conn, tableVars, roomVars, csq, co, agentVars>>

(* CMD.kick: closeclient, which does nothing when it did so before. *)
GateKick ==
    /\ GateServes("kick")
    /\ LET m == Head(gmail) IN
         /\ conn' = [conn EXCEPT ![m.fd] = IF @ = "on" THEN "off" ELSE @]
         /\ sock' = [sock EXCEPT ![m.fd] = IF conn[m.fd] = "on" /\ @ = "up" THEN "closing" ELSE @]
         /\ dmail' = Append(dmail, Answer(m.key, TRUE))
    /\ UNCHANGED <<owner, asked, amail, fwd, tableVars, roomVars, csq, co, agentVars>>

(* CMD.forward, called by an agent: the requests go to it from now on.     *)
(* The answer to an agent that has been killed is lost.                    *)
GateForward ==
    /\ GateServes("forward")
    /\ LET m == Head(gmail)
           a == ag[m.key].at IN
         IF a \notin alive THEN UNCHANGED <<fwd, amail>>
         ELSE /\ fwd' = [fwd EXCEPT ![m.fd] = IF conn[m.fd] = "none" THEN @ ELSE a]
              /\ amail' = [amail EXCEPT ![a] = Append(@, Answer(m.key, conn[m.fd] # "none"))]
    /\ UNCHANGED <<clientVars, dmail, conn, tableVars, roomVars, csq, co, agentVars>>

(* handler.message: to the agent, or to the watchdog when there is none.   *)
GateData ==
    /\ \E op \in {"login", "enter", "quit"} : GateServes(op)
    /\ LET m == Head(gmail)
           a == fwd[m.fd] IN
         /\ dmail' = IF conn[m.fd] = "on" /\ a = Nil THEN Append(dmail, m) ELSE dmail
         /\ amail' = IF conn[m.fd] = "on" /\ a \in alive
                       THEN [amail EXCEPT ![a] = Append(@, m)] ELSE amail
    /\ UNCHANGED <<clientVars, gateVars, tableVars, roomVars, csq, co, agentVars>>

(* Mutant of GateClose: the close overtakes what the watchdog has yet to serve. *)
GateCloseFirst ==
    /\ GateServes("close")
    /\ LET f == Head(gmail).fd IN
         /\ conn' = [conn EXCEPT ![f] = "none"] /\ fwd' = [fwd EXCEPT ![f] = Nil]
         /\ dmail' = <<Event("close", f)>> \o dmail
    /\ UNCHANGED <<clientVars, amail, tableVars, roomVars, csq, co, agentVars>>

(* handler.disconnect, then gateserver's close_fd. *)
GateClose ==
    /\ GateServes("close")
    /\ LET f == Head(gmail).fd IN
         /\ conn' = [conn EXCEPT ![f] = "none"] /\ fwd' = [fwd EXCEPT ![f] = Nil]
         /\ dmail' = Append(dmail, Event("close", f))
    /\ UNCHANGED <<clientVars, amail, tableVars, roomVars, csq, co, agentVars>>

(* The gate's timer_call: a client from whom nothing has come for long is  *)
(* closed.  Bounds: nothing of it waits in the mailbox, which is served    *)
(* much faster than the timeout; and one socket is being closed at a time. *)
GateTimeout(f) ==
    /\ conn[f] = "on" /\ sock[f] = "up" /\ \A i \in DOMAIN gmail : gmail[i].fd # f
    /\ \A e \in Fd : sock[e] # "closing"
    /\ conn' = [conn EXCEPT ![f] = "off"]
    /\ sock' = [sock EXCEPT ![f] = "closing"]
    /\ UNCHANGED <<owner, asked, gmail, dmail, amail, fwd, tableVars, roomVars, csq, co, agentVars>>

-----------------------------------------------------------------------------
(* The watchdog: connections and logins.                                   *)

DogServes(op) == dmail # << >> /\ Head(dmail).op = op /\ dmail' = Tail(dmail)
(* The answer to the call in which coroutine k waits at pc. *)
Resumes(k, pc, ok) ==
    /\ DogServes("answer") /\ Head(dmail).key = k /\ Head(dmail).ok = ok
    /\ co[k].pc = pc

Ask(op, fd, k) == gmail' = Append(gmail, Msg(op, fd, k, TRUE))

(* SOCKET.open up to the call of accept. *)
SocketOpen ==
    /\ DogServes("open")
    /\ LET f == Head(dmail).fd
           k == <<"open", f>> IN
         Ask("accept", f, k) /\ co' = At(k, "accept", Nil)
    /\ UNCHANGED <<clientVars, amail, gateVars, tableVars, roomVars, csq, agentVars>>

(* The rest of SOCKET.open: the connection is registered. *)
SocketOpened(f) ==
    /\ Resumes(<<"open", f>>, "accept", TRUE)
    /\ conns' = conns \cup {f} /\ online_num' = online_num + 1
    /\ co' = Rest(<<"open", f>>)
    /\ UNCHANGED <<clientVars, gmail, amail, gateVars, logged, ufd, uroom, users,
                   roomVars, csq, agentVars>>

(* SOCKET.close or SOCKET.error: close_conn up to its first call. *)
SocketClose ==
    /\ DogServes("close")
    /\ LET f == Head(dmail).fd
           k == <<"close", f>> IN
         IF f \in conns THEN Ask("kick", f, k) /\ co' = At(k, "kick", f)
                        ELSE UNCHANGED <<gmail, co>>
    /\ UNCHANGED <<clientVars, amail, gateVars, tableVars, roomVars, csq, agentVars>>

(* What coroutine k does once close_conn has returned: SOCKET.close ends;  *)
(* login binds the user table of its own connection, which raises when     *)
(* that connection is gone; enter_room goes on to refresh the cache.       *)
Returned(k, conns1, users1) ==
    LET f == k[2] IN
    /\ users' = IF k[1] = "login" THEN [users1 EXCEPT ![owner[f]] = f] ELSE users1
    /\ logged' = IF k[1] = "login" /\ f \in conns1 THEN logged \cup {f} ELSE logged
    /\ co' = IF k[1] = "enter" THEN At(k, "cache", Nil) ELSE Rest(k)

(* The tail of close_conn(f). *)
Forget(k, f, users1) ==
    /\ ufd' = IF f \in logged THEN ufd \ {f} ELSE ufd
    /\ online_num' = online_num - 1
    /\ conns' = conns \ {f}
    /\ Returned(k, conns \ {f}, users1)

(* close_conn after the kick: a user in a room is reported to its agent.   *)
Kicked(k) ==
    LET f    == co[k].vic
        his  == f \in logged /\ f \in ufd
        room == his /\ f \in uroom
    IN  /\ Resumes(k, "kick", TRUE)
        /\ \/ /\ room /\ agent # Nil
              /\ amail' = [amail EXCEPT ![agent] = Append(@, Msg("disconnect", f, k, TRUE))]
              /\ co' = At(k, "disconnect", f)
              /\ UNCHANGED <<conns, logged, ufd, users, online_num>>
           \/ /\ ~room \/ agent = Nil
              /\ Forget(k, f, IF his /\ ~room THEN [users EXCEPT ![owner[f]] = Nil] ELSE users)
              /\ UNCHANGED amail
        /\ UNCHANGED <<clientVars, gmail, gateVars, uroom, roomVars, csq, agentVars>>

(* close_conn after the agent's answer. *)
Reported(k) ==
    /\ Resumes(k, "disconnect", TRUE)
    /\ Forget(k, co[k].vic, users)
    /\ UNCHANGED <<clientVars, gmail, amail, gateVars, uroom, roomVars, csq, agentVars>>

(* mgr.login up to the call of the account service. *)
Login ==
    /\ DogServes("login")
    /\ co' = At(<<"login", Head(dmail).fd>>, "account", Nil)
    /\ UNCHANGED <<clientVars, gmail, amail, gateVars, tableVars, roomVars, csq, agentVars>>

(* The account service refuses. *)
LoginFails(f) ==
    /\ co[<<"login", f>>].pc = "account"
    /\ co' = Rest(<<"login", f>>)
    /\ UNCHANGED <<clientVars, gmail, dmail, amail, gateVars, tableVars, roomVars, csq, agentVars>>

(* It accepts: a new user table; an older connection of the user is closed *)
(* first (close_conn finds nothing to do when it is gone).                 *)
LoginAccepted(f) ==
    LET k == <<"login", f>>
        r == users[owner[f]]
    IN  /\ co[k].pc = "account"
        /\ ufd' = ufd \cup {f}
        /\ IF r # Nil /\ r \in ufd /\ r \in conns
             THEN /\ Ask("kick", r, k) /\ co' = At(k, "kick", r)
                  /\ UNCHANGED <<users, logged>>
             ELSE Returned(k, conns, users) /\ UNCHANGED gmail
        /\ UNCHANGED <<clientVars, dmail, amail, gateVars, conns, uroom, online_num,
                       roomVars, csq, agentVars>>

-----------------------------------------------------------------------------
(* The watchdog: rooms.                                                    *)

(* The section's owner leaves it; the coroutine next in line goes on. *)
Release(co1) ==
    LET rest == Tail(csq) IN
    /\ csq' = rest
    /\ co' = IF rest = << >> THEN co1 ELSE [co1 EXCEPT ![<<"enter", Head(rest)>>].pc = "info"]

(* mgr.cmd and enter_room up to its section; a connection without a user,  *)
(* or whose user has gone, is refused.                                     *)
EnterRoom ==
    /\ DogServes("enter")
    /\ LET f == Head(dmail).fd IN
         IF f \in conns /\ f \in logged /\ f \in ufd
           THEN /\ csq' = Append(csq, f)
                /\ co' = At(<<"enter", f>>, IF csq = << >> THEN "info" ELSE "section", Nil)
           ELSE UNCHANGED <<csq, co>>
    /\ UNCHANGED <<clientVars, gmail, amail, gateVars, tableVars, roomVars, agentVars>>

(* What enter_room asks of the account service fails. *)
EnterFails(f) ==
    /\ co[<<"enter", f>>].pc = "info"
    /\ Release(Rest(<<"enter", f>>))
    /\ UNCHANGED <<clientVars, gmail, dmail, amail, gateVars, tableVars, roomVars, agentVars>>

(* _enter_room: an agent is launched when the room has none. *)
EnterAgent(f) ==
    /\ co[<<"enter", f>>].pc = "info"
    /\ co' = At(<<"enter", f>>, IF agent = Nil THEN "launch" ELSE "cache", Nil)
    /\ UNCHANGED <<clientVars, gmail, dmail, amail, gateVars, tableVars, roomVars, csq, agentVars>>

EnterLaunched(f, a) ==
    /\ co[<<"enter", f>>].pc = "launch"
    /\ a \notin alive /\ aconns[a] = {} /\ a \notin {ag[k].at : k \in Key}
    /\ agent' = a /\ alive' = alive \cup {a}
    /\ co' = At(<<"enter", f>>, "cache", Nil)
    /\ UNCHANGED <<clientVars, gmail, dmail, amail, gateVars, tableVars, members, member_count,
                   csq, aconns, ag>>

(* No agent could be launched: the connection is closed, and enter_room    *)
(* goes on all the same.                                                   *)
EnterNotLaunched(f) ==
    LET k == <<"enter", f>> IN
    /\ co[k].pc = "launch"
    /\ IF f \in ufd /\ f \in conns
         THEN Ask("kick", f, k) /\ co' = At(k, "kick", f)
         ELSE co' = At(k, "cache", Nil) /\ UNCHANGED gmail
    /\ UNCHANGED <<clientVars, dmail, amail, gateVars, tableVars, roomVars, csq, agentVars>>

(* The user becomes a member, and the agent is told to start him; without  *)
(* an agent the call raises and the section is left.                       *)
EnterMember(f) ==
    LET k == <<"enter", f>> IN
    /\ co[k].pc = "cache"
    /\ members' = members \cup {owner[f]}
    /\ member_count' = IF f \in uroom THEN member_count ELSE member_count + 1
    /\ uroom' = uroom \cup {f}
    /\ IF agent = Nil THEN Release(Rest(k)) /\ UNCHANGED amail
       ELSE /\ amail' = [amail EXCEPT ![agent] =
                           Append(@, Msg("start", IF f \in ufd THEN f ELSE Nil, k, TRUE))]
            /\ co' = At(k, "start", Nil) /\ UNCHANGED csq
    /\ UNCHANGED <<clientVars, gmail, dmail, gateVars, conns, logged, ufd, users, online_num,
                   agent, agentVars>>

Entered(f) ==
    /\ \E ok \in BOOLEAN : Resumes(<<"enter", f>>, "start", ok)
    /\ Release(Rest(<<"enter", f>>))
    /\ UNCHANGED <<clientVars, gmail, amail, gateVars, tableVars, roomVars, agentVars>>

(* A call of close_conn fails: the coroutine ends where it is. *)
CloseRaises(k) ==
    /\ Resumes(k, "disconnect", FALSE)
    /\ IF k[1] = "enter" THEN Release(Rest(k)) ELSE co' = Rest(k) /\ UNCHANGED csq
    /\ UNCHANGED <<clientVars, gmail, amail, gateVars, tableVars, roomVars, agentVars>>

(* The agent dies: the requests in its mailbox are answered with an error, *)
(* in the order q of their places.                                         *)
Kill(a, dmail1) ==
    LET pending == {i \in DOMAIN amail[a] : amail[a][i].op \in {"start", "disconnect"}}
    IN  /\ alive' = alive \ {a}
        /\ \E q \in [1..Cardinality(pending) -> pending] :
             /\ \A i, j \in DOMAIN q : i < j => q[i] < q[j]
             /\ dmail' = dmail1 \o [i \in DOMAIN q |-> Answer(amail[a][q[i]].key, FALSE)]
        /\ amail' = [amail EXCEPT ![a] = << >>]
        /\ ag' = [k \in Key |-> IF ag[k].at = a THEN [ag[k] EXCEPT !.pc = "dead"] ELSE ag[k]]

(* exit_member of user u, if he is known and a member.  The last member    *)
(* (at member_count = last) takes the agent with him and leaves            *)
(* room.agent = left; the agent that asked is answered when it still runs. *)
Exit(m, u, left, last) ==
    LET out  == users[u] # Nil /\ u \in members
        n    == IF out THEN member_count - 1 ELSE member_count
        from == ag[m.key].at
    IN  /\ uroom' = IF out THEN uroom \ {users[u]} ELSE uroom
        /\ members' = IF out THEN members \ {u} ELSE members
        /\ member_count' = n
        /\ IF n <= last /\ agent # Nil
             THEN Kill(agent, Tail(dmail)) /\ agent' = left
             ELSE /\ dmail' = Tail(dmail)
                  /\ amail' = IF from \in alive
                                THEN [amail EXCEPT ![from] = Append(@, Answer(m.key, TRUE))]
                                ELSE amail
                  /\ UNCHANGED <<agent, alive, ag>>
        /\ UNCHANGED <<clientVars, gmail, gateVars, conns, logged, ufd, users, online_num, csq, co,
                       aconns>>

(* Mutant of ExitMember: the room still names the agent that was killed. *)
ExitMemberKeepsAgent ==
    /\ dmail # << >> /\ Head(dmail).op = "leave"
    /\ Exit(Head(dmail), owner[Head(dmail).fd], agent, 0)

(* Mutant of ExitMember: the agent is killed under the last member. *)
ExitMemberTooEarly ==
    /\ dmail # << >> /\ Head(dmail).op = "leave"
    /\ Exit(Head(dmail), owner[Head(dmail).fd], Nil, 1)

(* CMD.leave_agent. *)
ExitMember ==
    /\ dmail # << >> /\ Head(dmail).op = "leave"
    /\ Exit(Head(dmail), owner[Head(dmail).fd], Nil, 0)

-----------------------------------------------------------------------------
(* The agents.                                                             *)

AgentServes(a, op) == a \in alive /\ amail[a] # << >> /\ Head(amail[a]).op = op
Served(a) == [amail EXCEPT ![a] = Tail(@)]
Works(k, a, pc, fd) == ag' = [ag EXCEPT ![k] = [pc |-> pc, at |-> a, fd |-> fd]]
Reply(k, ok) == dmail' = Append(dmail, Answer(k, ok))

(* CMD.start up to the call of the gate; without a connection there is     *)
(* nobody to log in.                                                       *)
AgentStart(a) ==
    /\ AgentServes(a, "start")
    /\ LET m == Head(amail[a]) IN
         \/ m.fd # Nil /\ Ask("forward", m.fd, m.key) /\ Works(m.key, a, "forward", m.fd) /\ UNCHANGED dmail
         \/ m.fd = Nil /\ Reply(m.key, TRUE) /\ UNCHANGED <<gmail, ag>>
    /\ amail' = Served(a)
    /\ UNCHANGED <<clientVars, gateVars, tableVars, roomVars, csq, co, alive, aconns>>

(* CMD.start goes on: cmd.login; or the gate knows no such connection. *)
AgentLogin(a) ==
    /\ AgentServes(a, "answer")
    /\ LET m == Head(amail[a])
           k == m.key IN
         /\ ag[k].pc = "forward" /\ ag[k].at = a
         /\ \/ /\ m.ok /\ aconns' = [aconns EXCEPT ![a] = @ \cup {ag[k].fd}]
               /\ Works(k, a, "people", Nil) /\ UNCHANGED dmail
            \/ ~m.ok /\ Works(k, Nil, "idle", Nil) /\ Reply(k, FALSE) /\ UNCHANGED aconns
    /\ amail' = Served(a)
    /\ UNCHANGED <<clientVars, gmail, gateVars, tableVars, roomVars, csq, co, alive>>

(* CMD.disconnect up to update_room_people; fd is Nil when the agent does  *)
(* not know the connection.                                                *)
AgentDisconnect(a) ==
    /\ AgentServes(a, "disconnect")
    /\ LET m == Head(amail[a]) IN
         /\ aconns' = [aconns EXCEPT ![a] = @ \ {m.fd}]
         /\ Works(m.key, a, "people", IF m.fd \in aconns[a] THEN m.fd ELSE Nil)
    /\ amail' = Served(a)
    /\ UNCHANGED <<clientVars, gmail, dmail, gateVars, tableVars, roomVars, csq, co, alive>>

(* After update_room_people: the request is done, or (disconnect of a user *)
(* whom the game lets go) the user leaves.                                 *)
AgentPeople(k) ==
    /\ ag[k].pc = "people"
    /\ \/ Reply(k, TRUE) /\ Works(k, Nil, "idle", Nil)
       \/ /\ ag[k].fd # Nil
          /\ dmail' = Append(dmail, Msg("leave", ag[k].fd, k, TRUE))
          /\ Works(k, ag[k].at, "leave", Nil)
    /\ UNCHANGED <<clientVars, gmail, amail, gateVars, tableVars, roomVars, csq, co, alive, aconns>>

(* cmd.quit_room: the user leaves.  post_leave has cleared user.fd, so the *)
(* kick after it names no connection.                                      *)
AgentQuit(a) ==
    /\ AgentServes(a, "quit")
    /\ LET f == Head(amail[a]).fd
           k == <<"quit", f>> IN
         IF f \in aconns[a]
           THEN /\ aconns' = [aconns EXCEPT ![a] = @ \ {f}]
                /\ dmail' = Append(dmail, Msg("leave", f, k, TRUE))
                /\ Works(k, a, "leave", Nil)
           ELSE UNCHANGED <<aconns, dmail, ag>>
    /\ amail' = Served(a)
    /\ UNCHANGED <<clientVars, gmail, gateVars, tableVars, roomVars, csq, co, alive>>

(* leave_agent has returned. *)
AgentLeft(a) ==
    /\ AgentServes(a, "answer")
    /\ LET k == Head(amail[a]).key IN
         /\ ag[k].pc = "leave" /\ ag[k].at = a
         /\ Works(k, Nil, "idle", Nil)
         /\ dmail' = IF k[1] = "quit" THEN dmail ELSE Append(dmail, Answer(k, TRUE))
    /\ amail' = Served(a)
    /\ UNCHANGED <<clientVars, gmail, gateVars, tableVars, roomVars, csq, co, alive, aconns>>

(* A request the watchdog has no handler for. *)
DogRefuses ==
    /\ DogServes("quit")
    /\ UNCHANGED <<clientVars, gmail, amail, gateVars, tableVars, roomVars, csq, co, agentVars>>

LobbyNext ==
    \/ \E f \in Fd :
         \/ Connect(f) \/ Hangup(f) \/ GateTimeout(f)
         \/ SocketOpened(f) \/ LoginFails(f) \/ LoginAccepted(f)
         \/ EnterFails(f) \/ EnterAgent(f) \/ EnterNotLaunched(f) \/ EnterMember(f) \/ Entered(f)
         \/ \E what \in {"login", "enter", "quit"} : Request(f, what)
         \/ \E a \in Agent : EnterLaunched(f, a)
    \/ GateOpen \/ GateAccept \/ GateKick \/ GateForward \/ GateData \/ GateClose
    \/ SocketOpen \/ SocketClose \/ Login \/ EnterRoom \/ ExitMember \/ DogRefuses
    \/ \E k \in Key : Kicked(k) \/ Reported(k) \/ CloseRaises(k) \/ AgentPeople(k)
    \/ \E a \in Agent : \/ AgentStart(a) \/ AgentLogin(a) \/ AgentDisconnect(a)
                        \/ AgentQuit(a) \/ AgentLeft(a)

LobbySpec == LobbyInit /\ [][LobbyNext]_lobbyVars

-----------------------------------------------------------------------------
(* Properties.                                                             *)

(* Every variable has its type, and the room's agent is one that runs:     *)
(* room.agent never names a service that was killed.                       *)
LobbyTypeOK ==
    /\ sock \in [Fd -> {"new", "pending", "up", "closing", "down"}]
    /\ conn \in [Fd -> {"none", "on", "off"}] /\ fwd \in [Fd -> Agent \cup {Nil}]
    /\ conns \subseteq Fd /\ logged \subseteq Fd /\ ufd \subseteq Fd /\ uroom \subseteq Fd
    /\ users \in [Uid -> Fd \cup {Nil}] /\ online_num \in Int
    /\ members \subseteq Uid /\ member_count \in Nat /\ agent \in alive \cup {Nil}
    /\ \A k \in Key : co[k].vic \in Fd \cup {Nil} /\ ag[k].at \in Agent \cup {Nil}

(* SOCKET.open registers the connection after a call that yields; still a  *)
(* connection is never registered once its close has been served, because  *)
(* the answer to accept is in the mailbox before the close that follows.   *)
RegisteredOpen ==
    [][\A f \in conns' \ conns : conn[f] # "none" \/ Event("close", f) \in Range(dmail)]_lobbyVars

(* enter_room runs one at a time (cs), though launching an agent yields:   *)
(* the only agent that runs is the one the room knows.                     *)
OneAgent == alive \subseteq {agent}

(* The answer to the agent's start is on its way: in the watchdog's        *)
(* mailbox, with the agent, or in the agent's mailbox.                     *)
Answered(f) ==
      LET k == <<"enter", f>> IN
      \/ \E m \in Range(dmail) : m.op = "answer" /\ m.key = k
      \/ /\ agent # Nil
         /\ \/ ag[k].pc \in {"forward", "people"} /\ ag[k].at = agent
            \/ \E m \in Range(amail[agent]) : m.op = "start" /\ m.key = k

(* A user who enters is counted before the agent is told to start him, so  *)
(* nobody else's leaving kills the agent under the call (exit_member kills *)
(* it at member_count = 0).                                                *)
EntryAnswered ==
    \A f \in Fd : co[<<"enter", f>>].pc = "start" /\ owner[f] \in members => Answered(f)

(* The section of enter_room is always left: its owner's call is answered. *)
SectionLeft == \A f \in Fd : co[<<"enter", f>>].pc = "start" => Answered(f)

(* The count never falls below the members, so the agent is only killed    *)
(* when the room is empty (exit_member kills at member_count = 0).         *)
CountCoversMembers == member_count >= Cardinality(members)

(* The one agent of the room serves whoever enters and outlives its members. *)
MembersServed == OneAgent /\ EntryAnswered /\ CountCoversMembers
============================================================================

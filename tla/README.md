# Verification of the SDY game server

SDY (闪电游服务端) is a game server in Lua on the actor framework skynet, which the repository
carries in its own copy. Members play games for coins in rooms: hongbao (red packets), guessing
(rock, paper, scissors), pk10, daboluo and poker. The coins are kept by an account server
outside this repository, which the rooms call over HTTP. This directory holds TLA+ models of
the parts in which coins can go astray and of the parts of skynet they stand on, the TLC runs
that check them and the TLAPS proofs about them.

All paths below are relative to the repository (`src/`). "Line" means a line of the source.

## 1. The system

### How it runs

Skynet is a process of *services* with one message queue each. Worker threads take a service's
queue from a global queue, dispatch some of its messages and put it back; a timer thread and a
socket thread send messages too (`skynet/skynet-src`, C). A Lua service runs each message in a
coroutine (`skynet/lualib/skynet.lua`). So a service executes one coroutine at a time, and a
coroutine gives up control only when it yields: at `skynet.call`, at an HTTP request, at a
database call, or in the queue of a critical section. Then other messages of the same service
are dispatched in coroutines of their own. A handler is atomic between two yields and nothing
more: what it read before a call may be stale when the call returns. The models of the game
keep exactly this, **one action per stretch between two yields**; the models of the kernel
have **one action per critical section or atomic instruction** of a thread.

Each room is one agent service (`server/logic/agent.lua`). It handles the messages of its
members and a timer of one second (`timer_call`, agent.lua:237), which re-arms itself
before it runs the tick, so that an error in a tick does not stop it. The HTTP client gives
up after three seconds; database calls have no timeout.

A client's packet passes the socket thread, the gate (which cuts the stream into packets), the
watchdog or the agent; its answer goes the other way through `socket_server`, which services
write to directly when nothing else is being sent.

### Components

| component | state | operations | talks to |
|---|---|---|---|
| scheduler, `skynet-src/skynet_{server,mq,start}.c` | contexts with reference counts, queues, the global queue | launch, send, dispatch, kill, release | all threads |
| message queue ring, `skynet_mq.c` | ring buffer, overload mark | push, pop, expand | scheduler |
| handle table, `skynet_handle.c` | slots, names | register, retire, grab, name | scheduler, under the lock |
| timing wheel, `skynet_timer.c` | near list, four levels, clock | add, shift, execute | sends messages |
| lock, `rwlock.h` | write flag, count of readers | read and write lock | handle table, modules |
| socket server, `socket_server.c` | slots, write lists, control pipe | connect, listen, send, close, events | services, kernel |
| Lua runtime, `lualib/skynet.lua` | coroutines, sessions, queues of woken and failed ones | call, ret, sleep, wait, wakeup, fork, exit | scheduler, peers |
| serialisation, `lualib-src/lua-seri.c` | block chain | pack, unpack | every message |
| gate, `lua-netpack.c`, `snax/gateserver.lua` | incomplete packets, packet queue, clients | filter, pop, open, close | socket thread, watchdog |
| HTTP client, `lualib/http`, `skynet/socket.lua`, `lua-socket.c` | socket pool, receive buffer | connect, read, shut down, close | socket server |
| critical section, `skynet/lualib/skynet/queue.lua` | owner, nesting depth, queue of waiters | enter, leave | `skynet.wait` / `wakeup` |
| database pool, `common/mysqlpool.lua`, `db_mgr.lua` | connections | execute, stop, start | MySQL |
| lobby, `room/mgr.lua`, `watchdog.lua`, `server_gate.lua` | connections, users, rooms | open, close, login, enter, exit, kill an agent | agents, gate, caches |
| agent, `agent.lua`, `room/cmd.lua`, `room/room_logic.lua` | connections and users of the room | dispatch, login, disconnect, timer | lobby, game logic |
| hongbao round, `hongbao/{cmd,step,logic}.lua` | step and its time, banker and stake, players, bets, packets | rob, bid, leave the seat, bet, open, tick | account client, database, section |
| hongbao packets, `hongbao/poker_utils.lua` | none | draw packets, classify, pay | called by the round |
| hongbao rewards, `hongbao/core.lua` | records in the database | streaks, special points, reports | account client, database |
| guessing game, `guessing/*.lua` | step and its time, bets, fists, winner | bet, show a fist, quit, tick | account client, database, lobby |
| pk10, `pk10/*.lua` | issue, bets by door, banker | bet, bank, tick, pay out | account client, database |
| daboluo, poker | hands, bets | bet, play, tick | account client, database |
| account client, `user/ctcore.lua`, `cthttp.lua` | none | freeze, return, win, lose, diamonds | account server (external) |
| friends, clubs, users, caches | tables in the database, caches | requests, messages, membership | database |

`PROJECT.json` lists them all, with the ones that are left out and the reason.

### What is hard, and what makes each part correct

* *Scheduler.* Threads hold contexts while others retire them; a queue may be pushed, popped,
  handed out and released at the same moment. Correct: counts are exact, a queue is with one
  worker and never lost, messages are handled, the node ends.
* *Ring, handles, timers, packets, serialisation.* Growth and wrapping at the limits, in every
  position. Correct: nothing is lost or reordered, everything registered is found, timers fire
  in their tick.
* *Lock and section.* Arrivals and departures in any order. Correct: exclusive, nobody is
  forgotten; the section is first come first served.
* *Socket server.* Direct writes race with the socket thread; a write takes a part of a packet;
  a slot is closed and used again. Correct: packets arrive whole and in order, and a half-closed
  socket drains.
* *Lua runtime.* Coroutines are woken, fail, raise, and the peer or the service exits. Correct:
  no coroutine is forgotten, calls return, requests are answered once.
* *HTTP client.* Two timers race with late data and late connections. Correct: a request ends,
  skips no byte, and leaves no socket behind.
* *Database pool.* Statements restart the pool under one another. Correct: statements end, run
  at most twice, and the pool recovers (it does not, see section 5).
* *Lobby.* Closing of sockets, kicks and room exits overlap; lobby and agent call each other,
  and the lobby kills the agent. Correct: a room has one agent, which outlives its members; no
  closed connection is registered; the section of `enter_room` is left (it is not, see section 5).
* *Hongbao round.* Five kinds of handlers overlap, each with up to five calls; the answer of
  a call may be late, an error, or lost after it was applied. Correct: the seat is
  consistent, the banker can pay what was bet against him, no coins appear, vanish or stay
  behind, and every round ends.
* *Packets and pay-outs.* Sixteen classes, four kinds of bets, rates of the winner or of the
  banker; in pk10 doors take from worse doors and shares are cut to cents. Correct: nobody is
  paid more than was pledged, every packet that can be dealt can be settled, sums are exact.
* *Guessing game.* Settlement by the timer, by quitting and by a void game can be under way
  at once. Correct: a game is settled at most once, and it ends.

The list `hazards` in `PROJECT.json` names the places, each with its line.

## 2. Modules

| module | models | uses |
|---|---|---|
| `SkynetServer` | contexts, workers, global queue, launch and kill | |
| `SkynetMq` | the ring buffer of a message queue, refines `FifoQueue` | instantiates `FifoQueue` |
| `FifoQueue` | what a message queue promises | |
| `SkynetHandle` | the handle table and the names | |
| `SkynetTimer` | the timing wheel | |
| `RWLock` | the reader-writer spinlock | |
| `SocketServer`, `SocketServerProofs` | the TCP half of the socket server; theorems about it | |
| `SkynetLua` | coroutines and sessions of a Lua service | |
| `SkynetProofs` | theorems about scheduler and Lua runtime | `SkynetServer`, `SkynetLua` |
| `LuaSeri` | packing and unpacking of messages | |
| `NetPack` | the gate's reassembly of packets and its clients | |
| `HttpSocket` | one HTTP request over `skynet.socket` and its receive buffer | |
| `DbPool` | the database pool | |
| `FifoLock` | what a critical section promises: a line of coroutines, its head inside | |
| `SkynetQueue` | `skynet.queue`, refines `FifoLock` | instantiates `FifoLock` |
| `PrimitivesProofs` | theorems about the section, the lock, the ring, the handle table and the timing wheel | `SkynetQueue`, `RWLock`, `SkynetMq`, `SkynetHandle`, `SkynetTimer` |
| `Lobby`, `LobbyProofs` | gate, watchdog with the room manager, and the agent of one room; theorems about them | |
| `HongbaoRoom`, `HongbaoRoomProofs` | one hongbao room: cmd, step, logic, the account calls; theorems about it | |
| `CowResult` | classes, rates and pay-outs as operators | |
| `Settlement` | betting, dealing and settling one round with the real amounts | `CowResult` |
| `RedPacket` | the packet generator | `CowResult` |
| `SettlementProofs` | theorems about classes, pay-outs and packets | `Settlement`, `RedPacket` |
| `GuessingRoom`, `GuessingRoomProofs` | one guessing room; theorems about it | |
| `Pk10Result` | the pay-out of pk10, with and without a banker | |
| `DataTheorems` | induction over numbers and finite sets, and what finite sums are | |
| `MCWaiting` | `SkynetQueue`, `RWLock`, `DbPool`, `HttpSocket` side by side | those |
| `MCStructures` | `SkynetTimer`, `SkynetMq`, `SkynetHandle`, `NetPack`, `Settlement`, `RedPacket`, `Pk10Result`, `LuaSeri` side by side | those |
| `MCSkynet` | `SkynetServer` and `SkynetLua` side by side | those |
| `MCSocketServer`, `MCLobby`, `MCDbPool`, `MCHongbaoRoom`, `MCGuessingRoom` | constants for TLC | the module named |

The three "side by side" modules are sums: a variable `part` says which component runs, and
the others stay as they began. They share no state, so a run of the sum is a run of each.

The parts rest on each other by what they are shown to promise. `HongbaoRoom` uses the section
as the abstract lock (`line`: owner first, then the waiters), which `SkynetQueue` is shown to
implement; it lets a settlement bring every bettor the full gain, the full loss or nothing, and
`Settlement` and `CowResult` show that the amounts the code computes stay within these pledges.
`SkynetServer` keeps the messages of a queue as a sequence, which `SkynetMq` is shown to
implement. That one coroutine of a service runs at a time, on which every module about Lua code
rests, is `OneWorkerPerQueue` of `SkynetServer` together with `SkynetLua`.

### State and actions

*SkynetServer.* `th[t].stack` holds the labels at which thread `t` goes on; an action is one
label of a kernel function (`SendGrab`, `SendPush`, `DispatchPop`, `Delete`, ...). A callback may send,
launch another service, kill one, abort the node or do nothing.

*SkynetMq, SkynetHandle, SkynetTimer.* The fields of the C structures, one action per function
(each holds a lock); `skynet_context_new` stores the handle in a step of its own, and the timer
thread gives its lock up while it sends. The timer's `left` and `line` count what is left of
each delay independently of the wheel.

*RWLock.* Every read or atomic update of the two words is a step.

*SocketServer.* A packet is `Size` units, and a write takes as many as it likes. Calls of
services go through their stages (`SendCheck`, `SendWrite`, `SendInc`, `SendAsk`, ...), the
socket thread reads the control pipe (`Ctrl...`) and handles events (`Event...`). Four simplifications:
`CanDirectWrite` looks at the fields of a slot at once, where the code reads them one after the other with no lock
against `dec_sending_ref` (1503-1506, 1121-1127); that is why the code looks again with the lock, as the model
does. `sending` is a number, where the code has 16 bits with a tag of the id and waits busily at 0xffff (1067). A slot is
not reserved while a call on its last id is under way. And services use an id of `connect` after they
were told that it is connected, as `socket.lua` does; the C interface returns it at once (1494-1501).

*SkynetLua.* The tables of `skynet.lua` under their names; `frames` counts the outer calls of
`suspend`, which a raise unwinds. A coroutine's body does any sequence of call, sleep, wait,
wakeup, fork, deferred answer, answer, raise, return and exit. It answers a request once: a second `ret` or
`response` raises inside `suspend` (skynet.lua:172-174, 191-193). `Quit` is the end: outer frames of `suspend` that
would still hand out errors (skynet.lua:247-260) are gone, and so are messages the worker has yet to dispatch (section 5).

*LuaSeri, NetPack.* Bytes are digits to a small base, so that the boundaries of words and
lengths are small numbers. `NetPack` includes the gateserver's table of connections.

*HttpSocket.* The coroutine of the request (`main`), the forked one that connects (`opener`),
the two timers, the entry of `socket_pool`, the receive buffer with its nodes, and the socket
server and the peer as the environment.

*DbPool.* `tables` are the values the variable `pool` has had, because `stop` walks an old one.
Each query, connect and disconnect ends a step.

*Lobby.* A mailbox and the suspended coroutines of gate, watchdog and agent; a message starts a
coroutine, which runs to its next call. A kill drops the agent: requests in its mailbox are
answered by errors, its coroutines vanish. What a game or the account server decides is a choice.
`GateKick` leaves out the second close message for an id that is gone, which nobody handles, and `Forget` takes the
update of the cache (mgr.lua:75), a yield that reads nothing back, together with what follows.

*Pk10Result.* One action per turn of the loop over the doors; amounts in cents.

*SkynetQueue.* `current_thread`, `ref` and `thread_queue` are the source's locals. The
actions are a call that enters, a call that waits, the wake-up, and the return (by value or
by error: `xpcall` makes them the same).

*HongbaoRoom.* `game_step`, `game_time`, `banker`, `bankerGameCoin`, `bankerSurplusCoin`,
`players`, `bet_data`, `packets` are the fields of `g` with these names (`total_bet_data`
holds the same bets grouped by kind and is represented by `bet_data`); `line` is the section
of `cmd.betting`; `task[k]` says at which call coroutine `k` is suspended and what it holds
in its locals; `acct` is the account server with balances, frozen coins, the owner's income
and the room's diamonds. `unsettled` is a history variable: the coins of bets in rounds whose settlement
raised (section 5). The constant `TenFrom` is the number of packets from which one can be 10.00, which
has no class; `Through` are the steps whose tick finds no bet under way any more (section 3). After the record of
a bet the code holds the section while it saves a report and the step (logic.lua:584, 609), which touch no
state of the model; `BetCoinFrozen` leaves it at the record. `Disconnect` leaves out `leave_agent` of `post_leave`
(logic.lua:69), which is in `Lobby`. The table of actions:

| action | code |
|---|---|
| `RobBanker`, `RobGoldFrozen`, `RobCoinFrozen`, `RobStartsGame` | `cmd.rob_banker`, `logic.rob_banker` up to and after each of its calls |
| `BiaoBanker`, `BiaoCoinFrozen`, `BiaoDone` | `logic.biao_banker` |
| `DownBanker`, `DownReturned`, `DownCleared` | `logic.down_banker`, also called by the settlement, the void round and `game_over` (`CallDown`) |
| `Betting`, `BetResumed`, `BetCoinFrozen` | `cmd.betting`, the section, `logic.beter` |
| `OpenRedPacket` | `cmd.open_red_packet` |
| `TickSend`, `SendAssigned`, `SendDone` | `logic.send_packet` |
| `TickWaitResult`, `ResultLogged` ... `ResultDone` | `logic.game_result` |
| `TickFlow`, `FlowGoldReturned` ... `FlowDone` | `logic.game_flow_bureau` |
| `TickResult`, `StartGoldFrozen` | `game_over`, `game_start` |
| other `Tick...` | the steps of `step.lua` |
| `Disconnect`, `Login` | `room/cmd.lua` |

The owner may change `banker_type` while the room runs (`game_room_info_modify`), and the
code asks the database for it three times in a round; each query finds one of `BankerTypes`.

*GuessingRoom.* Likewise; `members` is the lobby's count of the room, whose agent is killed
when it is empty, with whatever it is doing. `lost` is a history variable: the coins frozen for bets that the
room does not know of because the answer was lost. `Left` takes `exit_member` and the removal from `users` in one step.

*Settlement.* Amounts are in half coins, packets in cents, so that the rate 8.5 and
the halved loss against "he" are integers. The bets are those of the menu: a point that has no name never gets a
pay-out (section 5). Likewise in *Pk10Result* bets are on doors that exist and of amounts above 0, which `pk10/cmd.lua:51-57` leaves
to the client.

*RedPacket.* `size` is the number of people, any of `Sizes`. One action per turn of the loop of `randomRedPacket`. The source computes in
floating point: an exact quotient may come out just below the integer and lose a cent in
`math.floor`; `Rounding` allows this. Other quotients are at least 1/140000 away from an
integer, far more than the error of a double.

### Definitions called "Mutant of ..."

Next to a definition there may be a variant with a plausible mistake: a check dropped, a
reset forgotten, an order swapped. `PROJECT.json` names for each checked property a variant
under which TLC finds it violated. No specification uses the variants.

## 3. Runs

Nine runs pass, three show a disagreement between the code and what it says of itself. The
properties of a run are conjunctions of named parts where several parts make one claim.

| run | instance | states | shows |
|---|---|---|---|
| `waiting` | four coroutines at the section, three threads at the lock, two statements at the pool, one HTTP request | 45 thousand | `SectionSafe` (exclusion, no failed assertion, no lost wake-up), refinement of `FifoLock`, `LockExclusion`, `ReadsSound` (no byte skipped, no assertion of the socket library), `WaitingEnds` (waiters and writers enter, statements end), `SocketReleased` (a request ends and leaves no socket), types with at most two executions of a statement |
| `structures` | the data structures and pay-outs, one at a time | 790 thousand | `FiresOnTime`, `FiresInOrder`, refinement of `FifoQueue`, `RegisteredFound` (handles and names), `GateExact` (packets reassembled, clients counted), `RoundTrip`, `SettlementFair` (within the pledges, better packets pay no less), `PacketsDealt` (no cent lost, no packet empty, up to eleven have a class each), `PayoutExact` (pk10: against a reference, no cent lost, nobody loses more than was frozen) |
| `kernel` | two workers and an outside thread; one Lua service with a peer | 160 thousand | `RefCount`, `QueueSafe` (one worker per queue, no queue lost, no callback before init), `ServerLive` (messages handled, killed services deleted, workers leave), `LuaSafe` (waiters known, queues drained, requests answered once), `LuaLive` (calls return, woken coroutines run, deferred answers given) |
| `socket` | two services, three packets, two slots, three ids | 104 thousand | `WireIntact` (packets whole, in order, none torn), `SendsKnown` (`sending` is exact, the write event is on), `HalfClosedDrains` |
| `lobby` | two connections, two users, two agents | 2.3 million | `MembersServed` (one agent, entries answered, the count covers the members), `RegisteredOpen` |
| `room_bets` | 2 members, 2 coroutines, bets overlap bets and ticks, both faults, both banker types, a fee of the seat, several rounds | 510 thousand | types, the banker is a player, bets of one member never clash, `BetsCovered` (the banker is solvent, bets are backed, bettors are players), coins are conserved |
| `room_round` | 3 members, 2 coroutines, bets overlap bets and ticks, both banker types, bids, points without a name, packets of 10.00, fairness | 110 thousand | nothing stays frozen but the bets of a round whose settlement raised; the coins of every other bet leave the game |
| `guess_overlap` | 2 coroutines; bets, quits and ticks overlap bets, quits and ticks; failing calls and lost answers, members leave and return | 1.1 million | types, `CoinsAccounted` (conserved, settled at most once, frozen coins belong to bets) |
| `guess_round` | handler by handler, fairness, also a fist that is none of the three | 2.7 thousand | every game ends for good, nothing stays frozen |
| `room_two_robbers` | **violation** | | two robbers, see section 5 |
| `lobby_section` | **violation** | | the section of `enter_room` is not left, see section 5 |
| `db_restart` | **violation** | | the pool does not recover, see section 5 |

### Bounds

* *Kernel.* Two workers, one with weight -1 (one message at a time) and one with weight 0 (all
  there are), and one thread outside: the least with which a push, a pop and a release can meet.
  Two services, of which one is launched while the node runs and may fail its init; one message
  besides the errors the kernel sends; two kills or aborts. The booted one is also the monitor.
* *Lua service.* Three coroutines, two sessions and one request of the peer: a caller, one that
  wakes it or fails, and one that handles a request. Two places in the wake-up queue, one fork.
* *Socket server.* Packets of two units, so that a write can take a part; two services, three
  packets, four calls; two slots and three ids, so that the slot of a closed socket is used again, also while a
  request about the old one is still in the pipe. Between two uses of a slot 65536 ids are handed out, so a slot is
  not reserved while a call on its last id is under way.
* *Lobby.* Two connections of one or two users and two agents: a second login, a kick, a
  kill and a new launch all happen. Each connection logs in once.
* *Structures.* Timer: `TIME_NEAR` and `TIME_LEVEL` are 2, so that the clock wraps after 32 ticks; delays up to 15.
  Ring: grows from 2. Handles: 2 bits, so that they wrap after 4 launches, with a table that
  starts with one slot; three names. Gate: three connections, of which two are admitted, one
  hash chain, a queue of 2 that grows, packets of lengths 0, 1 and 2 with a byte of two values.
  Serialisation: a byte of two values, blocks of 3 bytes, short lengths up to 2, tables of depth 2,
  two arguments out of 32 at the boundaries. Settlement: two bettors, 14 kinds of bets, 10
  packets and 4 of the banker; the stake covers two doubled bets and not four points, so that
  a bet can be refused for the banker's lack of coins. Packets: 5, 11 and 12; the draws are the least
  while more than five packets are to go, two or three values of their range for the next ones, and the whole upper range at
  the end, where the put-back happens. With twelve packets these draws reach one of 10.00; with eleven none does. pk10: three doors, two gamblers, four bets of 1 or 2, a
  banker with 5 coins, so that his average is not whole. `MCStructures` also evaluates, once,
  that each of the 999 amounts below 10.00 has one of the sixteen classes.
* *Waiting.* Section: four coroutines, nesting 2. Pool: two statements, two connections, one
  outage. HTTP: an answer of five bytes cut anywhere, three reads of one or three bytes or a line
  with a separator of two bytes.
* *Rooms.* Two suspended coroutines are enough for every race of two handlers, which is the kind
  of race the code has (a value read before a call and used after it). In `room_round` three
  members allow a banker and two bettors, with whom a round can have too few bets; `TenFrom` is 3 instead of 12, so that
  each full round may raise, and one of the bets is on a point without a name. There is one diamond, so one round is
  settled or raises, before and after void ones. `room_bets`
  has two members: one bettor's two bets already compete for the surplus, and with two diamonds in
  the room there are several rounds. The fee of the seat is 2 of 3 coins.
* `Through`. A call to the account server is given up after three seconds. Packets are counted 16 seconds or more after the
  last bet was admitted and settled 57 seconds after it, so with `"send"` and `"wait_result"` in `Through` these ticks find
  no bet under way; a void round is refunded after two seconds, so `"flow"` says that the account server answers
  within two. What the timing excludes is in section 5. `room_bets` needs `"wait_result"` only.
* `Duration` is 0 or 1 tick instead of 10 to 60: a step can end at any tick, so every
  order of ticks and answers that the real lengths allow happens; `TimeCap` stops
  `game_time` from counting on. In `GuessingRoom` `TimeCap` also stays below 8, because
  `run` compares `game_time`, not the step, with the number of the last step (guessing/step.lua:9): it
  skips the tick at which `game_time` is 8, which only makes a step a second longer.
* `Coins` and `InitBal` are chosen so that a bid, a second bet and a settlement can each be
  refused for lack of coins. `PumpUnit` makes the owner's share a whole coin.
* In `guess_overlap` the amounts and fists are single values: the order of events, not the amounts, is the question
  there, and drawn fists are all three. A leave or a punch is not suspended together with another handler; both
  move no coins.
* `Overlap` restricts which handlers may be suspended together. Section 5 says which pairs are
  left out and what they break.
* Symmetry is used for members, coroutines and connections in safety runs only; no action tells
  them apart.

### Fairness

In a sum no fair step of a component is enabled while another is the part that runs.

* `SkynetServer`: every thread goes on (weak fairness), an init function ends, the timer wakes a
  sleeping worker, and the timer thread notices that no context is left. Callbacks owe nothing
  but to return.
* `SkynetLua`: a body that runs ends or yields, `suspend` goes on, messages that were sent
  arrive, and messages keep coming (every service of the game has a timer of one second).
* `SocketServer`: a call goes on, the socket thread reads its pipe, connecting ends; strong
  fairness of the write event says that the peer keeps reading.
* `RWLock`: every thread in a lock or unlock goes on.
* `SkynetQueue`: a woken coroutine is resumed and a body returns; strong fairness of the last
  return, because a body may nest again and again.
* `DbPool`: statements go on, and the database comes up again after an outage.
* `HttpSocket`: the service handles its messages, timers fire, an attempt to connect ends, the
  socket server answers. The peer owes nothing: it may stop at any byte. (A close with unsent data is answered
  when the data has gone out, socket_server.c:894-921, which needs the peer; a request that times out shuts its socket
  down, and that is answered at once.)
* `HongbaoRoom`: weak fairness of every suspended coroutine (an HTTP call is answered or
  given up after three seconds, which is what `SocketReleased` shows; that the database answers
  is an assumption on the database) and strong fairness of the tick. The timer fires every
  second whatever the members do. Where a handler may not overlap the tick, or a step is in `Through`, members could keep
  the room busy at every moment at which a tick would fit; strong fairness excludes only that.
* `GuessingRoom`: weak fairness of the tick and of suspended coroutines. No fairness is assumed of the
  members: they may stop betting, bidding or showing fists at any time, and a game that is tied
  for ever is named as an exception in `GameEnds`. `guess_round` assumes that clients show a fist
  only after they were told to (`EarlyPunch = FALSE`) and stay connected; section 5 says what
  happens otherwise.

## 4. Proofs

TLAPS checks these for all values of the constants, under the named assumptions of the modules.
The assumptions are small: the value for "nothing" is none of the members, services or agents, no batch of
transfers, no table of packets or fists and no number; amounts are naturals; the bets have the types of the menu;
sets of threads, members and coroutines are finite; the ring starts with a size of at least 2, the handle table
with a power of two; the lists of the timer are at least two on each level and a delay, an `int` in the code,
is below half of the clock; the weight of a worker is one of the table of `skynet_start.c` (-1 to 3); the draws of the
packet generator lie in its ranges. TLC evaluates them in the runs. A theorem with "(run ...)" states a
property of that run. Some theorems have a hypothesis besides (`ASSUME` in the theorem); it is named below with the
behaviour that makes it necessary.

*DataTheorems.* What the other proofs need of data. The induction theorems of the library take an operator,
so induction is stated here for sets of numbers: a set of naturals that is not empty has a least
element (from the well-foundedness of the naturals), and one with 0 and each successor is all of them. On it rest
the existence of recursively defined functions, step by step over a number or a
finite set, and the finite sums: the sum of a function over a finite set is a number, changes with
one value by the difference, is monotonic, and the sum of sums is the sum.

*PrimitivesProofs.*

* The section: `SectionTypeCorrect`, `SectionIsSafe` (`SectionSafe`, run `waiting`; from
  `MutualExclusionHolds`, `AssertionHolds`, `NoWakeupLost`), and `SectionRefinesFifo`: with the mapping that puts
  the owner in front of the waiters, every step of `SkynetQueue` is a step of `FifoLock` or leaves it alone.
  The inductive invariant says that the owner is exactly the coroutine with a positive depth or the one
  being woken, that waiters are distinct and outside, and that a free section has no waiters.
* The lock: `LockTypeCorrect` and `LockSafe`, for any finite set of threads. Exclusion is not
  inductive: a writer enters because `read` is 0, so `LockInv` adds that `read` is the number of readers that
  are announced (`Announced`) and that `write` is set exactly while one thread drains or writes.
* The ring: `RingCorrect` (`RingOK`), `MqTypeCorrect` and `QueueRefinesFifo` (`ImplementsFifoQueue`, run `structures`)
  for every initial size. `RingOK` is inductive: head and tail lie in the buffer, and the cells between them hold
  messages. The refinement maps the cells from head to tail, around the end, to the queue. A push that fills
  the buffer doubles it and moves head to 0; the proof shows cell by cell that the contents are the old ones with
  the message appended. `MqTypeCorrect` includes that the loop of `skynet_mq_pop` that doubles `threshold` ends.
* The handle table: `HandleTypeCorrect` (`HandleTypeOK`) and `RegisteredAlwaysFound` (`RegisteredFound`, run
  `structures`), for any number of services and names and any width of a handle. The inductive invariant
  `HandleInv` says that every context in the table is where its handle, or the handle it is about to
  store, says (`TableInv`), and that the names ascend (`Ascending`). A registration finds a free slot or the table is
  full; if it is full it doubles. In a table of size n two contexts differ in their handles modulo n, so they
  do modulo 2n, which is the assertion of the rehash; after it half of the slots are free. The table
  fills only with as many contexts as it has slots, so it does not outgrow `HANDLE_MASK`. These steps need
  what remainders by n and 2n have to do with each other, and a pigeonhole argument. For
  names, the binary search is shown to end, to find a name that is there and otherwise the place
  where it keeps the order. Hypothesis `OneByOne`: services are launched one after the other, and are no more than
  there are handles. With two launches at once a context whose handle is not stored yet is rehashed as handle 0
  (section 5); with more contexts than handles the code asserts.
* The timing wheel: `TimerTypeCorrect` (`TimerTypeOK`), `TimersFireOnTime` (`FiresOnTime`) and `TimersFireInOrder`
  (the action property `FiresInOrder`), both of run `structures`, for every `TIME_NEAR`, `TIME_LEVEL` and
  set of timers. TLC checked the invariant `TimerInv` with lists of 2 and of 3 before it was proved. It says that
  each timer's expiry is the clock plus what is left of its delay, around the wrap (`DueIn`); that it is in the
  list to which it belongs (`InPlace`): near if it is due in the current block of `TIME_NEAR` ticks, otherwise on the
  level whose block does not hold both times while the block above does; that what was taken is due (`SentDue`);
  and that every list is in the order of adding (`InOrder`). `FiresOnTime` alone is not inductive. A tick leaves a
  timer where it belongs unless the clock enters its block, and then `timer_shift` moves exactly its list
  (`Reaches`, `TickKeeps`), at time 0 the list 0 of the last level. The order is kept because a list is moved
  only when near and the levels below are empty (`ShiftSorted`). That delays are below half of the clock is used
  where a timer of the current block has to lie ahead (`Ahead`).

*SettlementProofs.* For every bet, packet and number of bettors.

* `CoinWithinPledge`: for all packets that have a class, the pay-out lies between what `beter` froze
  from the bettor and what it pledged of the banker's stake. It rests on bounds of the rates (`DoubleRate`,
  `DxdsRate`) and on `PointTypeRange`.
* `SettleTypeCorrect` and `SettlementIsFair` (`SettlementFair`, run `structures`). The invariant `SettleInv` says
  that the surplus and the pledges of all bets add up to the stake and that a settled round paid each
  bettor the sum of his bets. With `CoinWithinPledge`, summed over bets and bettors, nobody loses more than he
  froze and the banker no more than he staked; that better hands win more is shown from the classes.
* `CentsConserved` (the packets and the rest add up to what was put in, none is empty) and
  `DealtPacketsClassified` (`PacketsDealt`, run `structures`), for any number of packets: besides, if they are at most
  eleven each has a class. A draw lies between half and twice the mean of what is left, which bounds what can be left
  when so many packets are due (`MostRemaining`), and so the next draw: with eleven packets none
  reaches 10.00; with twelve one can (section 5).

*SkynetProofs*, the scheduler. `ServerTypeCorrect`, `ReferencesCounted` (`RefCount`, run `kernel`) and
`QueuesSafe` (`QueueSafe`, run `kernel`), for any number of workers, other threads and services. The
inductive invariant `ServerInv` has four parts, and each needs the others:
* `ServerTypeOK`: the types; a count of references is never negative only because of `RefInv`.
* `ThreadsOK`: which labels can be below which on a thread's stack, and which locals are set at
  which label. A kernel function is called from several places, so without it a return could go
  anywhere and a local could be read before it was set.
* `RefInv`: the count of a context is the number of places at which a thread owns a reference, plus one
  for the handle table; the thread whose release made it 0 has the context in its local `victim`,
  alone. The lemmas say how the cardinality of the places changes when one place is taken or left.
* `QueueInv`: a queue is at one position of the global queue or in one local of one thread, never both;
  `in_global` is set exactly then, or while the queue waits for init; it is released only after its
  context was; and a queue that can be found belongs to a service whose `init` is set.

`OneWorkerPerQueue`, on which the models of Lua code rest, is a part of `QueueSafe`.

*SkynetProofs*, the Lua runtime. `LuaTypeCorrect` (`LuaTypeOK`), `ServiceSafe` (`LuaSafe`, run `kernel`) and
`DeferredNotLost` (`DeferredAnswered`, the part of `LuaLive` that is no liveness), for any number of
coroutines, sessions and requests. TLC checked the invariant `LuaInv` with two sessions and two requests
(2.7 million states) before it was proved. Its parts:

* `LuaTypes`: the types.
* `LuaPlaces`: the pool has no coroutine twice, and those in the pool, forked or running are in that state. So
  what `co_create` returns waits for nothing.
* `Waits`: a session leads to the coroutine that waits for it, and no other waits for the same; the sleepers'
  and callers' tables agree. `WaitersKnown` is the half of it that does not say that the table leads
  nowhere else, and alone it is not inductive.
* `Woken`: as long as nothing was disturbed, everybody in `wakeup_queue` still sleeps and is there once, so
  `dispatch_wakeup` never stops before the queue is empty; in phase `err` it is empty, and in
  `fork` both queues are and all frames have returned.
* `Answers`: a request has one coroutine, and as long as it is not answered either that coroutine or its
  closure may answer it, not both.
* `Watched`: the count of the peer covers requests in hand and answers deferred.

*SocketServerProofs.* `SockTypeCorrect` (`SockTypeOK`), `SendsAreKnown` (`SendsKnown`) and `WireIsIntact`
(`WireIntact`), all of run `socket`, for any number of services, slots, ids and packets of any size. TLC
finds the invariant true of that run's instance. `SockInv`:

* `Slots`, `Ids`: the fields of a slot belong together; its id is one that was allocated and hashes to it; a
  request in the pipe or a call under way is about an id that services were told of; and a slot reserved for
  a socket has the request that opens it in the pipe, before any other about it.
* `Locks`: a service that writes directly holds the lock of its slot, the connection is open and no other
  direct write is left over.
* `Counts`: `sending` of a stream is the number of requests `D` and `P` of its id in the pipe plus the calls that
  counted and have not written their request. So a slot whose count is 0 can be released and its id
  used again, and no request finds another connection in its slot.

`WireInv`, on top of it, follows each packet: `Wires` says of every connection that what went out are whole packets,
except the one at the head of the list that is half sent, and that a packet is in one place at a
time; `Pending` that packets of one service in the pipe come after those it already handed over; `Writing` that
a service that may write directly has nothing of its own in the list or in the pipe. `send_buffer` is
a loop, so its lemmas are inductions over the units written.

*LobbyProofs.* `LobbyTypeCorrect` (`LobbyTypeOK`), `RoomServed` (`MembersServed`) and `OpenBeforeClose`
(the action property `RegisteredOpen`), all of run `lobby`, for any number of connections, users and
agents. TLC checked the invariant `LobbyInv` on the instance of run `lobby` before it was proved. Its parts:

* `TableTypes`, `WorkTypes`: the types of the tables and of the suspended coroutines.
* `GateMail`, `DogMail`, `AgentMail`: which letters a mailbox can hold, and on whose behalf; a handler
  relies on the connection or the waiting coroutine that its letter names.
* `Jobs`: which coroutines of an agent serve which call.
* `Section`: the line of `enter_room` has no connection twice, its first runs and the others wait.
* `EnterOnce`: an enter is at most once under way, and until it is served the connection
  is in no room. So the entry that counts a member counts a new one.
* `AgentInv`: the only agent that runs is the room's, and an `enter_room` that launches one found none.
  `OneAgent` alone is not inductive: the launch yields, and only `Section` says that nobody
  else launches meanwhile.
* `MemberInv`: `member_count` covers the members, so at 0 there is no member left.
* `EntryAnswered`: the start of a counted member is in the agent's mailbox, with the agent, or answered.
  It rests on `MemberInv`: an agent is killed at count 0 only.
* `OpenOrder`: the answer to `accept` that registers a connection is in the watchdog's mailbox before its
  close, or the connection is still open.

*HongbaoRoomProofs.* `TypeCorrect`, `BankerAlwaysPlayer`, `BetsNeverClash`, for any number of
members and coroutines, any overlap, any fault. `OneBetPerUser` is not inductive: a
bet is compared with the recorded ones before the account call and recorded after it. The
strengthening `IInv` adds `Serialised` (a coroutine that waits for the account call of a bet
is at the head of the line, so no two do) and `Admissible` (its bet still clashes with none
recorded). `BankerIsPlayer` needs that every handler which will put a member into the seat holds
a member (`TaskOK`). The proof has a lemma for each group of actions: those that only
move a coroutine, those that change the seat, those that change the line, the ticks.

The coins are proved in four theorems with hypotheses on what may overlap. Each adds a layer to `IInv`; TLC
checks the layers with the instance of `room_bets`, `NInv` with its overlap and faults taken out.

* `CoinsAlwaysConserved` (`CoinsConserved`, run `room_bets`), hypothesis `BetOverlapOnly`: bets overlap bets
  and ticks, nothing else overlaps; any faults. `OInv` says who can be suspended together with whom, and where.
  `HInv` says that each batch under way adds up to 0 and that a freeze is in hand with the bet it is for; then
  whatever part of the calls fails, coins only move. The sums over members are those of `DataTheorems`.
* `BetsAlwaysBacked` (`BetsBacked` and `BettorsArePlayers`, parts of `BetsCovered`), same hypothesis: recorded bets
  are frozen at the account server and belong to players.
* `BetsAlwaysCovered` (`BetsCovered`, run `room_bets`), hypotheses `BetOverlapOnly` and `Timely`: no bet waits for the
  account server when its round is settled; any fee, any faults. `LInv` adds to the risk of the recorded bets the
  bet on its way: the surplus it will write and its pledge are the surplus of now. `Closed` says that no bet is
  under way while a settlement is. A bet that outlives its round writes a stale surplus (section 5).
* `NothingEverStranded` (`NothingStranded`, run `room_round`), hypothesis `Strict`: bets overlap bets and ticks, but are
  answered before packets are counted, a void round is refunded or a round is settled, and the account
  server neither fails nor loses answers. Bets on any point, known or not, and any number of packets: what a settlement that
  raises leaves behind is counted in `unsettled` (`Counted`). `NInv` gives, for every place where a handler waits, what
  the account server holds of each member (`Kept`): his stake and his bets, in the middle of a settlement what
  the batch will release and what stays with the banker, and so on. At rest it is exactly what the room owes him.

The hypotheses are the edges that section 5 describes: a late bet, bid, rob or down strands or loses coins, a failed
call leaves coins frozen (the code does not retry), and in `room_two_robbers` TLC shows the case of two robs.

*GuessingRoomProofs.* `GuessTypeCorrect` (`TypeOK`, run `guess_overlap`) for any overlap and fault, and
`GuessCoinsAccounted` (`CoinsAccounted`, run `guess_overlap`), hypothesis `FistsAlone`: no tick starts while another
draws fists. Any number of bets, also of one member, quits, leaves, punches and settlements may be suspended together,
and calls may fail or be booked without an answer. The invariant `GInv` has six parts:

* `TypeOK` and `BetShape`: the types; nobody bets nothing.
* `Exclusive`: one tick at a time draws fists.
* `Ledger`: some coins of each member went to the other, and those and what is still frozen of him are no more than
  `Staked`, all that was ever frozen for him; so the coins of each are what he began with, what he won and what he
  lost. What went is a witness: no variable holds it. A freeze raises `Staked` by the bet whether its answer arrives
  (`bet_data`) or not (`lost`), and a settlement moves coins from frozen to what went, because the account server refuses one that
  gives back what is not frozen.
* `StepInv`: fists are shown by members who have bet, and the result is only waited for after a tie.
* `Suspended`: the settlement a coroutine waits for gives coins back and takes from the one what it gives to the
  other (`Fair`); a freeze is of the bet it will record; while fists are drawn, everybody else has one (`Ready`).

Without `FistsAlone` it does not hold: while a tick draws missing fists, another may start a tied game again, so that the
result is waited for with no outcome and `game_result` takes from both. The draw waits for the database only.

Only model-checked:

* Liveness under fairness (`ServerLive`, `LuaLive`, `WaitingEnds`, `SocketReleased`, `HalfClosedDrains`,
  `GameEnds` and the like), which this prover cannot do.
* What `RECURSIVE` operators compute: `RoundTrip` of `LuaSeri`, `GateExact` of `NetPack`, `ReadsSound` of
  `HttpSocket` and `PayoutExact` of `Pk10Result`. The prover cannot take such a module; they are checked for all
  inputs up to the bounds.
* The database pool (`DbPool`).
* The type invariants of the modules that put components side by side (`WaitingTypeOK`, `StructTypeOK`,
  `SkynetTypeOK`): most of their parts are proved, each for its component.
* The cases outside of the hypotheses above.

## 5. What the models showed

### Shown by a run

* **Two robbers** (`room_two_robbers`). `cmd.rob_banker` checks that the seat is free and
  `logic.rob_banker` takes it after two account calls (logic.lua:215). Two members who rob
  at once both have their stakes frozen; the second replaces the first, whose stake stays
  frozen for ever.
* **The section of `enter_room`** (`lobby_section`). `exit_member` kills the agent when
  `member_count` is 0 (mgr.lua:597), also while `_enter_room` waits for this agent to start a
  user. A start that the agent has already taken from its mailbox is never answered, the
  critical section is never left, and nobody enters any room. `MembersServed` shows that it needs a
  user who was taken off the count by a quit or disconnect of his earlier connection.
* **The pool** (`db_restart`). A statement that fails restarts the pool; if the database is
  still down `connect` raises inside `start` and the pool stays empty. From then on `getconn`'s
  assertion (mysqlpool.lua:16) raises before anything could start it again.

### Seen while choosing constants and overlaps of the passing runs

Kernel and library:

* `skynet_context_new` writes `ctx->init` after it has released its reference
  (skynet_server.c:164-170); if the service was killed meanwhile the context is already freed.
* A context is in the handle table before its handle is stored. If two services are launched at
  once and the table doubles in between, the new one is rehashed as handle 0 and the assertion of
  skynet_handle.c:60 can fail. `RegisteredFound` fails with `Launchers = 2`. After a wrap of the
  handles a service may also get handle 0 in harbor 0, which the code means to reserve.
* A socket that is half closed only because a request is still in the pipe is not closed when
  that request arrives (socket_server.c:912): nothing is left to trigger it.
* A coroutine that raises unwinds all frames of `suspend` (skynet.lua:156): coroutines that were
  woken and calls that failed wait until the service gets its next message. A coroutine that is
  woken twice stops `dispatch_wakeup` early, and the entry left behind can break a later sleep. An
  error that is reported twice for a session resumes nothing and raises.
* After `skynet.exit` the worker still dispatches what is left of its batch to the service that was retired
  (skynet_server.c:316-338); callers of such requests may get no answer. The models end at the exit.
* The timer of an HTTP request clears the receive buffer, but data that comes later is still
  pushed; `NothingSkipped` is stated for a socket that was not shut down. A refused client of the
  gate is reported to the handler as disconnected although it was never connected.

Lobby:

* A `close_conn` that waits for a killed agent stays where it is, and its connection stays in
  `g.conns`. Two closes of one connection at once decrement `online_num` twice (mgr.lua:58). A
  second login leaves the first user table behind as a member that is not counted.

Hongbao:

* *A packet of 10.00* (poker_utils.lua:99). With twelve packets a single one can reach 10.00,
  whose last three digits are 0.00. It has no class, `getCowData` returns nothing and `getResult`
  raises: the round is not settled, and its bets and diamonds stay frozen. With eleven packets or fewer no packet
  reaches it, which `DealtPacketsClassified` proves. The generator's run deals it, and in the room any round of `TenFrom` packets
  may raise.
* *A bet on an unknown point.* `cmd.betting` checks that a bet on a special point has a `bet_sub_type`, not which
  (cmd.lua:72-77). One above 16 is frozen and recorded; then looking up its name raises at the end of `beter` (logic.lua:578),
  again in `wait_send` (logic.lua:646-648), where the step is already set, and in `getResult` (poker_utils.lua:757-759), called
  by `game_result` after the step was set: the round is over and none of its bets is settled. All of them, and the
  diamonds, stay frozen. `NothingStranded` and `StakesReleased` count them as `unsettled`.
* *Leaving in the settlement* (cmd.lua:34). `down_banker` is admitted in step result while
  `game_result` may be suspended. The stake is returned and the seat cleared; the settlement then
  books a stake that is gone or writes the seat's coins back. `NothingStranded` fails if
  `{"down", "tick"}` overlap.
* *A late bet* (logic.lua:523). The step is checked before the account call only. A bet
  answered after the round is over is recorded into nothing, and its coins stay frozen; one recorded after the
  packets were counted gets none, and `getResult` raises. `NothingStranded` fails if `{"bet", "tick"}` overlap and
  `Through` lacks `"send"`, `"flow"` or `"wait_result"`. One call, given up after three seconds, is not that late, except for the
  refund of a void round, two seconds after the betting. But a bet may wait in the section behind slow ones, and its
  step is not checked again when its turn comes: six slow calls reach the counting, nineteen the settlement.
* *A late bet in a later round* (logic.lua:543). `beter` reads the banker's surplus before the account
  call (logic.lua:497) and writes it, less the pledge, after it. If a settlement has meanwhile stored
  the banker's coins less the fee of the seat (logic.lua:894-927, 972; the fee is
  `hb_rob_banker_pump_rate`, config.lua:93), the stale and larger surplus replaces the new one, and the next
  round admits bets beyond the banker's coins: `Solvent` fails with `RobPump > 0` if
  `{"bet", "tick"}` overlap and `Through` lacks `"wait_result"`.
* *A late bid* (logic.lua:382). A bid answered after the betting has begun replaces the banker
  and empties `players`; the new banker may have bet against himself, and the settlement
  then books his two entries as one. `BettorsArePlayers` and `CoinsConserved` fail if `"biao"`
  overlaps bets and ticks.
* *Diamonds.* A rob that is refused for lack of coins leaves the diamonds of the round frozen
  (logic.lua:212). With `banker_type` 2 `rob_banker` freezes them and `game_start(false)`, meant
  for further rounds by its comment (step.lua:42), freezes them again.
* *Rewards* (core.lua:356). The streak reward adds the S1 counter instead of its own, and a long
  streak indexes past the configured rewards.

Guessing:

* *Two bets* (guessing/logic.lua:126). `betting` has no critical section: two bets of one member
  sent together are both frozen and recorded, and only the first is ever returned; the coins of the second stay
  frozen. `CoinsAccounted` counts them among what was staked.
* *A lost answer.* A freeze that was booked but not answered is not recorded, and nothing returns its coins
  (`lost`). A settlement that was booked but not answered leaves the game in its step.
* *A late bet* (guessing/logic.lua:197). It sets the step to bet_end whatever the
  step is; a game that was quit meanwhile comes back.
* *An early fist* (guessing/cmd.lua:28). Fists are admitted in step bet_end, one second before
  the bets are counted. If both members show one although one has not bet, the void game is
  skipped and `punch_end` raises at every tick. `GameEnds` fails with `EarlyPunch`.
* *An unknown fist* (guessing/logic.lua:247) is answered with an error and then played.
* *A bettor who lost his connection* (guessing/logic.lua:503) is not in `g.users`, and
  `quit_game` does not return his bet. `GameEnds` fails with `Leavers`.
* *Two ticks in `punch_end`* (guessing/logic.lua:288) with a tie in between can settle a game
  without a winner. The timer re-arms itself before a tick runs, so a database call of more than a second is enough.

pk10 (read, not modelled, except for the last two):

* A login sets `g.game_step` and `g.round` itself (pk10/logic.lua:66), so the tick finds them
  unchanged and skips the step's handler, which runs once per step (pk10/step.lua:27): a
  settlement may be skipped or entered again, and an old draw paid on new bets.
* The banker may leave while the settlement is suspended (pk10/cmd.lua:31); a settlement that
  the account server refuses is followed by the clearing of the bets.
* By rounding, the last bettor of a losing door may gain cents; and with a banker, bets on only
  one door are not paid at all.

## 6. Not modelled

`PROJECT.json` gives the reason for each. Of the game: rewards and records, robots and cheat tables,
the step control of pk10, daboluo, poker, users, friends, clubs, caches, the web interface,
start-up and text utilities; of the hongbao round the scratch display and the gifts, of the
agent chat and the vote on dissolving a room. `common/lru.lua` and the sorted set are not
used by the services. Of skynet: the UDP half of the socket server, `bind`, socket options,
harbor and cluster, statistics, logging and debugging, and the glue that binds C functions to Lua.

Not this repository's own logic, and left alone: jemalloc, the Lua interpreter, lpeg, cjson,
md5 and other vendored C code. They are by far most of the C code (about 70 of
85 thousand lines), so the models can only ever cover a small share of the C lines: the core of
the game is in Lua, the kernel has about five thousand lines of C, and its Lua libraries in C another eight thousand.

## 7. Plan

Done: section, hongbao round, pay-out, packets, guessing game; scheduler, queue, handles, timer,
lock, socket server; Lua runtime, serialisation, gate, HTTP client, database pool; lobby; pay-out of
pk10.

Proved: section, lock, ring, handle table and timing wheel; scheduler, Lua runtime and socket server; lobby; pay-outs, settlement
and packets; types, seat, bets and coins of the hongbao round; types and coins of the guessing game.

Next, proofs:

1. `DbPool`: types, and that a connection is in one place.
2. `HttpSocket`, `NetPack`, `LuaSeri`, `Pk10Result`: recursive functions instead of the `RECURSIVE` operators first.

Next, models: step control of pk10, rewards of hongbao, ranking of hands in daboluo against a
reference order, friends and clubs.

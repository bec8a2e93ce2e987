---------------------------- MODULE HongbaoRoom ----------------------------
(***************************************************************************)
(* One hongbao room: the agent service that runs hongbao/cmd.lua,          *)
(* hongbao/step.lua and hongbao/logic.lua.                                 *)
(*                                                                         *)
(* A round goes                                                            *)
(*   none -> biao -> biao_end -> bet -> bet_end -> send -> qiang           *)
(*        -> wait_result -> result          (or bet_end -> flow -> result) *)
(* driven by a one-second timer, while the members rob or bid for the      *)
(* banker's seat, leave it, bet and open packets.  Every message and every *)
(* tick runs in a coroutine of its own.  A coroutine yields at each HTTP   *)
(* call to the account server and at each database call; other coroutines  *)
(* run meanwhile, so what a handler read before the call may be stale when *)
(* it goes on.  A handler is therefore one action per stretch between two  *)
(* yields; `task` records where each suspended coroutine stands.           *)
(*                                                                         *)
(* The account server is external: it applies a batch of transfers as a    *)
(* whole, refuses one that would overdraw an account, and its answer may   *)
(* be an error although nothing was wrong ("fail", not applied) or be lost *)
(* after the batch was applied ("lost": the HTTP client times out).        *)
(***************************************************************************)
EXTENDS Integers, Sequences, FiniteSets, FiniteSetsExt, Functions

CONSTANTS
    User,        \* members of the room
    Coroutine,   \* bound: coroutines of the service suspended at once
    None,        \* Lua's nil
    Coins,       \* amounts a member may rob or bid with
    BetMenu,     \* bets a client may place, see BetType
    BankerTypes, \* banker_type a query may find: 1 a banker plays one round, 2 he stays
    LimitAmt,    \* gameBankerLimitAmt: least stake of a banker
    MinBet,      \* hb_minimum_bet: bettors needed, else the round is void
    Duration,    \* length of each step in ticks
    TimeCap,     \* bound: game_time is not counted further
    RobPump,     \* hb_rob_banker_pump_rate: owner's fee per bettor
    PumpUnit,    \* the owner takes one coin of every PumpUnit coins won
    InitBal,     \* coins of every member at the start
    InitGold,    \* rounds the room's diamonds pay for at the start
    TenFrom,     \* packets from which on one may be 10.00, which has no class (12)
    Faults,      \* account server faults considered, a subset of {"fail", "lost"}
    Overlap,     \* bound: the pairs of handlers of which one may start while the
                 \* other is suspended; in the program all, AllKinds
    Through      \* bound: the steps that are so long after the betting that the tick
                 \* which ends them finds no bet waiting for the account server

Steps == {"none", "biao", "biao_end", "bet", "bet_end", "send", "qiang",
          "wait_result", "result", "flow"}

Kinds == {"rob", "biao", "down", "bet", "tick"}
AllKinds == {{x, y} : x, y \in Kinds}

(* type and sub_type select the game; `reduce` is what the bet may cost the *)
(* banker (bankerReduceCoin), `game_coin` what it may cost the bettor.  A   *)
(* bet whose value or whose type 3 sub_type is out of range is turned down  *)
(* before anything happens; the sub_type of the others is not checked.      *)
BetType == [type : 1..4, sub_type : Nat, reduce : Nat, game_coin : Nat]

ASSUME RoomAssumption ==
    /\ IsFiniteSet(User) /\ None \notin User /\ None \notin Coroutine
    /\ \A S \in SUBSET User : S # None
    /\ None \notin [User -> Seq(BetMenu)]
    /\ Coins \subseteq Nat /\ BetMenu \subseteq BetType
    /\ BankerTypes \subseteq {1, 2} /\ BankerTypes # {}
    /\ LimitAmt \in Nat /\ MinBet \in Nat \ {0} /\ RobPump \in Nat /\ PumpUnit \in Nat \ {0}
    /\ Duration \in [Steps -> Nat] /\ TimeCap \in Nat
    /\ \A st \in Steps : Duration[st] < TimeCap
    /\ InitBal \in Nat /\ InitGold \in Nat
    /\ TenFrom \in Nat
    /\ Faults \subseteq {"fail", "lost"} /\ Overlap \subseteq AllKinds /\ Through \subseteq Steps

(* nil is neither a batch of transfers nor a table of packets. *)
ASSUME NoneAssumption ==
    /\ None \notin [bal : [User -> Int], frozen : [User -> Int], owner : Int]
    /\ \A S \in SUBSET User : None \notin [S -> [value : BOOLEAN, open : BOOLEAN]]

VARIABLES
    game_step, game_time,
    banker,             \* g.banker
    bankerGameCoin,     \* coins of the banker that are in the game
    bankerSurplusCoin,  \* what of them is not yet pledged against a bet
    players,            \* g.players: banker and bettors, or None
    bet_data,           \* g.bet_data: the bets of each member, or None
    packets,            \* g.packets: the packet of each player, or None
    unsettled,          \* history: coins of bets that getResult could not settle
    away,               \* members without a connection
    offline,            \* members whose user record is flagged offline
    line,               \* the skynet.queue of cmd.betting: its owner, then the waiters
    task,               \* the suspended coroutines
    acct                \* the account server (external)

clock == <<game_step, game_time>>
seat  == <<banker, bankerGameCoin, bankerSurplusCoin, players>>
bets  == <<bet_data, packets, unsettled>>
gone  == <<away, offline>>
room  == <<clock, seat, bets, gone>>
vars  == <<room, line, task, acct>>

-----------------------------------------------------------------------------
(* The account server.                                                     *)

NoCoins == [u \in User |-> 0]
NoBatch == [bal |-> NoCoins, frozen |-> NoCoins, owner |-> 0]

(* type 0: coins of u go into the game; type 1: they come back.  A transfer *)
(* that names no customer is refused.                                      *)
Freeze(u, c) == IF u = None THEN None
                ELSE [NoBatch EXCEPT !.bal[u] = -c, !.frozen[u] = c]
Return(u, c) == Freeze(u, -c)

Covered(b) == b # None /\ \A u \in User : /\ acct.bal[u] + b.bal[u] >= 0
                              /\ acct.frozen[u] + b.frozen[u] >= 0

Booked(b) == [acct EXCEPT !.bal = [u \in User |-> @[u] + b.bal[u]],
                          !.frozen = [u \in User |-> @[u] + b.frozen[u]],
                          !.owner = @ + b.owner]

(* operAcct answers the caller with `reply`. *)
OperAcct(b, reply) ==
    \/ reply = "ok" /\ Covered(b) /\ acct' = Booked(b)
    \/ reply = "error" /\ ~Covered(b) /\ UNCHANGED acct
    \/ reply = "error" /\ "fail" \in Faults /\ UNCHANGED acct
    \/ reply = "error" /\ "lost" \in Faults /\ Covered(b) /\ acct' = Booked(b)

(* The room's diamonds, in units of one round: d of them move from the      *)
(* balance to the frozen ones, `used` of the frozen ones are consumed.      *)
OperGold(d, used, reply) ==
    LET free == acct.gold - d
        held == acct.goldFrozen + d - used
        done == [acct EXCEPT !.gold = free, !.goldFrozen = held]
    IN \/ reply = "ok" /\ free >= 0 /\ held >= 0 /\ acct' = done
       \/ reply = "B002" /\ ~(free >= 0 /\ held >= 0) /\ UNCHANGED acct
       \/ reply = "error" /\ "fail" \in Faults /\ UNCHANGED acct
       \/ reply = "error" /\ "lost" \in Faults /\ free >= 0 /\ held >= 0 /\ acct' = done

-----------------------------------------------------------------------------
(* Coroutines.                                                             *)

(* pc: the call the coroutine waits for; u, coin, bet: its arguments;       *)
(* batch: the transfers asked for; next: what follows down_banker.          *)
Idle == [pc |-> "idle", u |-> None, coin |-> 0, batch |-> NoBatch, bet |-> None, next |-> "end"]

At(k, pc) == task[k].pc = pc
Goto(k, t) == task' = [task EXCEPT ![k] = t]
Done(k) == Goto(k, Idle)

(* logic.down_banker up to its account call: the banker's coins as they are *)
(* now go back to u.  next says what the caller does afterwards.            *)
CallDown(k, u, next) ==
    Goto(k, [Idle EXCEPT !.pc = "down_acct", !.u = u, !.next = next,
                         !.batch = Return(u, bankerGameCoin)])

(* The handler that a suspended coroutine runs. *)
Kind(pc) == CASE pc \in {"rob_gold", "rob_coin", "rob_db"}      -> "rob"
              [] pc \in {"biao_new", "biao_back", "biao_more"} -> "biao"
              [] pc \in {"down_acct", "down_db"}               -> "down"
              [] pc \in {"bet_wait", "bet_coin"}               -> "bet"
              [] OTHER                                         -> "tick"

(* A message or a tick is dispatched in a free coroutine. *)
CanStart(k, kind) ==
    /\ At(k, "idle")
    /\ \A j \in Coroutine : At(j, "idle") \/ {kind, Kind(task[j].pc)} \in Overlap

Bettors == IF bet_data = None THEN {} ELSE {u \in User : bet_data[u] # << >>}
(* What the bets of u may cost u, and what they may cost the banker. *)
Staked(u) ==
    IF u \in Bettors THEN SumFunction([i \in DOMAIN bet_data[u] |-> bet_data[u][i].game_coin]) ELSE 0
Exposure(u) ==
    IF u \in Bettors THEN SumFunction([i \in DOMAIN bet_data[u] |-> bet_data[u][i].reduce]) ELSE 0

Init ==
    /\ game_step = "none" /\ game_time = 0
    /\ banker = None /\ bankerGameCoin = 0 /\ bankerSurplusCoin = 0
    /\ players = None /\ bet_data = None /\ packets = None /\ unsettled = NoCoins
    /\ away = {} /\ offline = {}
    /\ line = << >>
    /\ task = [k \in Coroutine |-> Idle]
    /\ acct = [bal |-> [u \in User |-> InitBal], frozen |-> NoCoins, owner |-> 0,
               gold |-> InitGold, goldFrozen |-> 0]

-----------------------------------------------------------------------------
(* Taking the banker's seat.                                               *)

(* cmd.rob_banker and the checks of logic.rob_banker; then freezeRoomGold. *)
RobBanker(k, u, coin) ==
    /\ CanStart(k, "rob") /\ u \notin away
    /\ banker = None
    /\ coin >= LimitAmt
    /\ Goto(k, [Idle EXCEPT !.pc = "rob_gold", !.u = u, !.coin = coin])
    /\ UNCHANGED <<room, line, acct>>

RobGoldFrozen(k) ==
    /\ At(k, "rob_gold")
    /\ \E reply \in {"ok", "B002", "error"} :
         /\ OperGold(1, 0, reply)
         /\ IF reply = "ok"
              THEN Goto(k, [task[k] EXCEPT !.pc = "rob_coin",
                                           !.batch = Freeze(task[k].u, task[k].coin)])
              ELSE Done(k)
    /\ UNCHANGED <<room, line>>

(* The robber's coins are frozen: he becomes the banker.  The source does  *)
(* not look at g.banker again.                                             *)
RobCoinFrozen(k) ==
    /\ At(k, "rob_coin")
    /\ \E reply \in {"ok", "error"} :
         /\ OperAcct(task[k].batch, reply)
         /\ IF reply = "ok"
              THEN /\ banker' = task[k].u
                   /\ bankerGameCoin' = task[k].coin
                   /\ bankerSurplusCoin' = task[k].coin
                   /\ players' = (IF players = None THEN {} ELSE players) \cup {task[k].u}
                   /\ Goto(k, [task[k] EXCEPT !.pc = "rob_db"])
              ELSE Done(k) /\ UNCHANGED seat
    /\ UNCHANGED <<clock, bets, gone, line>>

(* save_report_info and query_room_info answered: game_start(isBiao).  The *)
(* owner may change banker_type between two (game_room_info_modify).       *)
RobStartsGame(k) ==
    /\ At(k, "rob_db")
    /\ \/ /\ 2 \in BankerTypes
          /\ Goto(k, [Idle EXCEPT !.pc = "start_gold"])
          /\ UNCHANGED clock
       \/ /\ 1 \in BankerTypes
          /\ Done(k)
          /\ game_time' = 0 /\ game_step' = "biao"
    /\ UNCHANGED <<seat, bets, gone, line, acct>>

(* game_start(false): the diamonds of the next round are frozen and the    *)
(* betting starts (beter_start clears the bets); without diamonds the      *)
(* banker is taken down.                                                   *)
StartGoldFrozen(k) ==
    /\ At(k, "start_gold")
    /\ \E reply \in {"ok", "B002", "error"} :
         /\ OperGold(1, 0, reply)
         /\ IF reply = "ok"
              THEN /\ game_time' = 0 /\ game_step' = "bet"
                   /\ bet_data' = None
                   /\ Done(k)
              ELSE /\ IF reply = "B002" /\ players # None /\ banker # None
                        THEN CallDown(k, banker, "reset")
                        ELSE Done(k)
                   /\ UNCHANGED <<clock, bet_data>>
    /\ UNCHANGED <<seat, packets, unsettled, gone, line>>

(* cmd.biao_banker and the checks of logic.biao_banker; then the bidder's  *)
(* coins are frozen, or the difference if the banker raises his own bid.   *)
BiaoBanker(k, u, coin) ==
    /\ CanStart(k, "biao") /\ u \notin away
    /\ game_step = "biao"
    /\ coin > bankerGameCoin
    /\ Goto(k, IF u = banker
                 THEN [Idle EXCEPT !.pc = "biao_more", !.u = u, !.coin = coin,
                                   !.batch = Freeze(u, coin - bankerGameCoin)]
                 ELSE [Idle EXCEPT !.pc = "biao_new", !.u = u, !.coin = coin,
                                   !.batch = Freeze(u, coin)])
    /\ UNCHANGED <<room, line, acct>>

(* The newcomer's coins are frozen: those of the banker go back.           *)
BiaoCoinFrozen(k) ==
    /\ At(k, "biao_new")
    /\ \E reply \in {"ok", "error"} :
         /\ OperAcct(task[k].batch, reply)
         /\ IF reply = "ok"
              THEN Goto(k, [task[k] EXCEPT !.pc = "biao_back",
                                           !.batch = Return(banker, bankerGameCoin)])
              ELSE Done(k)
    /\ UNCHANGED <<room, line>>

(* The bidder is the banker; the players of the round start over.          *)
BiaoDone(k) ==
    /\ task[k].pc \in {"biao_back", "biao_more"}
    /\ \E reply \in {"ok", "error"} :
         /\ OperAcct(task[k].batch, reply)
         /\ IF reply = "ok"
              THEN /\ banker' = task[k].u
                   /\ bankerGameCoin' = task[k].coin
                   /\ bankerSurplusCoin' = task[k].coin
                   /\ players' = {task[k].u}
              ELSE UNCHANGED seat
    /\ Done(k)
    /\ UNCHANGED <<clock, bets, gone, line>>

(* cmd.down_banker: only the banker, and not during a round.               *)
DownBanker(k, u) ==
    /\ CanStart(k, "down") /\ u \notin away
    /\ u = banker
    /\ game_step \in {"none", "result"}
    /\ CallDown(k, u, "end")
    /\ UNCHANGED <<room, line, acct>>

DownReturned(k) ==
    /\ At(k, "down_acct")
    /\ \E reply \in {"ok", "error"} :
         /\ OperAcct(task[k].batch, reply)
         /\ \/ /\ reply = "ok"
               /\ Goto(k, [task[k] EXCEPT !.pc = "down_db"])
               /\ UNCHANGED clock
            \/ /\ reply = "error"
               /\ Done(k)
               /\ IF task[k].next = "reset"
                    THEN game_time' = 0 /\ game_step' = "none"
                    ELSE UNCHANGED clock
    /\ UNCHANGED <<seat, bets, gone, line>>

(* Mutant of DownCleared: g.banker is left behind. *)
DownClearedKeepsBanker(k) ==
    /\ At(k, "down_db")
    /\ bankerGameCoin' = 0 /\ bankerSurplusCoin' = 0 /\ players' = None
    /\ IF task[k].next = "reset"
         THEN game_time' = 0 /\ game_step' = "none"
         ELSE game_time' = Duration["result"] /\ UNCHANGED game_step
    /\ Done(k)
    /\ UNCHANGED <<banker, bets, gone, line, acct>>

(* The seat is cleared; the result step is made to end at the next tick.   *)
DownCleared(k) ==
    /\ At(k, "down_db")
    /\ banker' = None /\ bankerGameCoin' = 0 /\ bankerSurplusCoin' = 0 /\ players' = None
    /\ IF task[k].next = "reset"
         THEN game_time' = 0 /\ game_step' = "none"
         ELSE game_time' = Duration["result"] /\ UNCHANGED game_step
    /\ Done(k)
    /\ UNCHANGED <<bets, gone, line, acct>>

-----------------------------------------------------------------------------
(* Betting.  line is the FIFO lock that skynet.queue implements.           *)

(* Mutant of Beter: what the bet may cost the banker is not pledged. *)
BeterUnpledged(k, u, b, held, rest) ==
    LET all     == IF bet_data = None THEN [v \in User |-> << >>] ELSE bet_data
        clash   == \E i \in DOMAIN all[u] : \/ all[u][i].type # b.type
                                            \/ b.type # 4
                                            \/ all[u][i].sub_type = b.sub_type
        surplus == bankerSurplusCoin - b.reduce
    IN /\ bet_data' = all
       /\ IF clash \/ surplus < 0
            THEN Done(k) /\ line' = rest
            ELSE /\ Goto(k, [Idle EXCEPT !.pc = "bet_coin", !.u = u, !.bet = b,
                                         !.coin = bankerSurplusCoin,
                                         !.batch = Freeze(u, b.game_coin)])
                 /\ line' = held

(* logic.beter up to the freeze of the bettor's coins, inside the section. *)
(* rest is the line if the bet is turned down.                             *)
Beter(k, u, b, held, rest) ==
    LET all     == IF bet_data = None THEN [v \in User |-> << >>] ELSE bet_data
        clash   == \E i \in DOMAIN all[u] : \/ all[u][i].type # b.type
                                            \/ b.type # 4
                                            \/ all[u][i].sub_type = b.sub_type
        surplus == bankerSurplusCoin - b.reduce
    IN /\ bet_data' = all
       /\ IF clash \/ surplus < 0
            THEN Done(k) /\ line' = rest
            ELSE /\ Goto(k, [Idle EXCEPT !.pc = "bet_coin", !.u = u, !.bet = b,
                                         !.coin = surplus,
                                         !.batch = Freeze(u, b.game_coin)])
                 /\ line' = held

(* Mutant of Betting: beter is called without the section. *)
BettingUnqueued(k, u, b) ==
    /\ CanStart(k, "bet") /\ u \notin away
    /\ game_step = "bet"
    /\ u # banker
    /\ Beter(k, u, b, Append(line, k), line)
    /\ UNCHANGED <<clock, seat, packets, unsettled, gone, acct>>

(* cmd.betting: the step and the bettor are checked before the section. *)
Betting(k, u, b) ==
    /\ CanStart(k, "bet") /\ u \notin away
    /\ game_step = "bet"
    /\ u # banker
    /\ IF line = << >>
         THEN Beter(k, u, b, <<k>>, << >>)
         ELSE /\ line' = Append(line, k)
              /\ Goto(k, [Idle EXCEPT !.pc = "bet_wait", !.u = u, !.bet = b])
              /\ UNCHANGED bet_data
    /\ UNCHANGED <<clock, seat, packets, unsettled, gone, acct>>

(* The section was handed over to a waiting bet. *)
BetResumed(k) ==
    /\ At(k, "bet_wait") /\ line # << >> /\ Head(line) = k
    /\ Beter(k, task[k].u, task[k].bet, line, Tail(line))
    /\ UNCHANGED <<clock, seat, packets, unsettled, gone, acct>>

(* logic.beter after the freeze.  recorded: does the reply let the bet be   *)
(* recorded; who: the entry made in g.players.  If the bets were cleared    *)
(* meanwhile the handler raises, and the section is left anyway; so it is   *)
(* when the name of an unknown point is looked up after the record.         *)
RecordBet(k, recorded(_), who) ==
    /\ At(k, "bet_coin")
    /\ \E reply \in {"ok", "error"} :
         /\ OperAcct(task[k].batch, reply)
         /\ IF recorded(reply) /\ bet_data # None
              THEN /\ bet_data' = [bet_data EXCEPT ![task[k].u] = Append(@, task[k].bet)]
                   /\ bankerSurplusCoin' = task[k].coin
                   /\ players' = (IF players = None THEN {} ELSE players) \cup who
              ELSE UNCHANGED <<bet_data, bankerSurplusCoin, players>>
    /\ Done(k) /\ line' = Tail(line)
    /\ UNCHANGED <<clock, banker, bankerGameCoin, packets, unsettled, gone>>

(* The bettor's coins are frozen: the bet is recorded. *)
BetCoinFrozen(k) == RecordBet(k, LAMBDA r : r = "ok", {task[k].u})

(* cmd.open_red_packet: the banker must not open the first packet. *)
OpenRedPacket(u) ==
    /\ u \notin away
    /\ game_step = "qiang" /\ packets # None
    /\ u = banker => \E v \in DOMAIN packets : packets[v].open
    /\ u \in DOMAIN packets
    /\ packets' = [packets EXCEPT ![u].open = TRUE]
    /\ UNCHANGED <<clock, seat, bet_data, unsettled, gone, line, task, acct>>

-----------------------------------------------------------------------------
(* Settlement.  getResult gives every bettor a gain, a loss or a draw; the *)
(* amounts it can give are those checked in module CowResult.              *)

Outcome == {"win", "lose", "draw"}

Change(o, u) == CASE o[u] = "win"  -> Exposure(u)
                  [] o[u] = "lose" -> -Staked(u)
                  [] o[u] = "draw" -> 0

(* The owner's share of what somebody won. *)
Pump(c) == IF c > 0 THEN c \div PumpUnit ELSE 0

(* What the banker wins from the bettors, and his coins after it (line 843  *)
(* or 856).                                                                 *)
Won(o) == - SumFunction([u \in Bettors |-> Change(o, u)])
CoinAfter(o) == bankerGameCoin + Won(o) - Pump(Won(o))

(* The fee for the seat: RobPump per bettor, at most what is left. *)
SeatFee(o) ==
    LET fee == Cardinality(Bettors) * RobPump
    IN  IF CoinAfter(o) < fee THEN CoinAfter(o) ELSE fee

(* The batch of logic.game_result: everybody's coins come back, gains and  *)
(* losses are booked, the owner gets his shares, the banker's coins go in  *)
(* again.  The result has one entry per user: a bettor who is the banker   *)
(* is settled as the banker.  stake: what comes back to the banker, fee:   *)
(* what he pays for the seat, share: what a bettor pays of his gain.       *)
Settlement(o, stake, fee, share(_)) ==
    LET others == Bettors \ {banker}
        keeps  == CoinAfter(o) - SeatFee(o)
    IN [bal |-> [u \in User |->
                   IF u = banker THEN stake + Won(o) - Pump(Won(o)) - fee - keeps
                   ELSE IF u \in others THEN Staked(u) + Change(o, u) - share(Change(o, u))
                   ELSE 0],
        frozen |-> [u \in User |->
                   IF u = banker THEN keeps - stake
                   ELSE IF u \in others THEN -Staked(u)
                   ELSE 0],
        owner |-> Pump(Won(o)) + SumFunction([u \in others |-> Pump(Change(o, u))]) + SeatFee(o)]

(* Mutant of SettleBatch: the owner gets the shares of the bettors, who     *)
(* keep them.                                                               *)
SettleBatchDoublePump(o) == Settlement(o, bankerGameCoin, SeatFee(o), LAMBDA c : 0)

SettleBatch(o) == Settlement(o, bankerGameCoin, SeatFee(o), Pump)

(* getResult indexes the packet and the player of the banker and of every  *)
(* bettor, and raises if one is missing.                                   *)
Complete ==
    /\ packets # None /\ players # None /\ bet_data # None
    /\ \A u \in Bettors \cup {banker} :
         u \in DOMAIN packets /\ packets[u].value /\ u \in players

(* It also raises on a point that has no name (stringCowCfg).              *)
Known(b) == b.type = 4 => b.sub_type \in 1..16
ResultDefined == Complete /\ \A u \in Bettors : \A i \in DOMAIN bet_data[u] : Known(bet_data[u][i])

(* And it may raise on a packet of 10.00, which getCowData does not know.  *)
ResultRaises == ~ResultDefined \/ Cardinality(DOMAIN packets) >= TenFrom

(* reply to addResultLog: the banker is looked up again (line 947). *)
ResultLogged(k) ==
    /\ At(k, "result_log")
    /\ IF players = None
         THEN Done(k)
         ELSE Goto(k, [task[k] EXCEPT !.pc = "result_gold", !.u = banker])
    /\ UNCHANGED <<room, line, acct>>

(* reply to reduceRoomGold: the diamonds of the round are used up. *)
ResultGoldUsed(k) ==
    /\ At(k, "result_gold")
    /\ \E reply \in {"ok", "B002", "error"} :
         /\ OperGold(0, 1, reply)
         /\ IF reply = "ok" /\ task[k].u # None
              THEN Goto(k, [task[k] EXCEPT !.pc = "result_acct"])
              ELSE Done(k)
    /\ UNCHANGED <<room, line>>

ResultBooked(k) ==
    /\ At(k, "result_acct")
    /\ \E reply \in {"ok", "error"} :
         /\ OperAcct(task[k].batch, reply)
         /\ IF reply = "ok"
              THEN Goto(k, [task[k] EXCEPT !.pc = "result_db"])
              ELSE Done(k)
    /\ UNCHANGED <<room, line>>

(* Mutant of ResultStored: the fee is forgotten. *)
ResultStoredWithoutFee(k) ==
    /\ At(k, "result_db")
    /\ bankerSurplusCoin' = bankerGameCoin
    /\ Goto(k, [task[k] EXCEPT !.pc = "result_more"])
    /\ UNCHANGED <<clock, banker, bankerGameCoin, players, bets, gone, line, acct>>

ResultStored(k) ==
    /\ At(k, "result_db")
    /\ bankerGameCoin' = task[k].coin /\ bankerSurplusCoin' = task[k].coin
    /\ Goto(k, [task[k] EXCEPT !.pc = "result_more"])
    /\ UNCHANGED <<clock, banker, players, bets, gone, line, acct>>

(* After handleResult, updateGameRound and query_room_info: does the banker *)
(* leave the seat?                                                          *)
ResultDone(k) ==
    /\ At(k, "result_more")
    /\ \E type \in BankerTypes :
         IF /\ banker # None /\ type = 2
            /\ task[k].u \notin offline /\ bankerGameCoin >= LimitAmt
           THEN Done(k)
           ELSE CallDown(k, task[k].u, "end")
    /\ UNCHANGED <<room, line, acct>>

(* logic.game_flow_bureau: too few bets, the round is void. *)
FlowGoldReturned(k) ==
    /\ At(k, "flow_gold")
    /\ \E reply \in {"ok", "B002", "error"} :
         /\ OperGold(-1, 0, reply)
         /\ IF reply = "ok" THEN Goto(k, [task[k] EXCEPT !.pc = "flow_db"]) ELSE Done(k)
    /\ UNCHANGED <<room, line>>

FlowRefund(k) ==
    /\ At(k, "flow_db")
    /\ bankerSurplusCoin' = IF task[k].u = None THEN bankerSurplusCoin ELSE bankerGameCoin
    /\ IF Bettors = {} \/ task[k].u = None
         THEN Done(k)
         ELSE Goto(k, [task[k] EXCEPT !.pc = "flow_acct",
                         !.batch = [bal |-> [u \in User |-> Staked(u)],
                                    frozen |-> [u \in User |-> -Staked(u)],
                                    owner |-> 0]])
    /\ UNCHANGED <<clock, banker, bankerGameCoin, players, bets, gone, line, acct>>

FlowRefunded(k) ==
    /\ At(k, "flow_acct")
    /\ \E reply \in {"ok", "error"} :
         /\ OperAcct(task[k].batch, reply)
         /\ IF reply = "ok" THEN Goto(k, [task[k] EXCEPT !.pc = "flow_mode"]) ELSE Done(k)
    /\ UNCHANGED <<room, line>>

FlowDone(k) ==
    /\ At(k, "flow_mode")
    /\ \/ 1 \in BankerTypes /\ CallDown(k, task[k].u, "end")
       \/ 2 \in BankerTypes /\ Done(k)
    /\ UNCHANGED <<room, line, acct>>

-----------------------------------------------------------------------------
(* The timer: step.run, once a second.                                     *)

NextTime == IF game_time >= TimeCap THEN game_time ELSE game_time + 1

(* No bet waits for the account server any more. *)
BetsThrough == \A j \in Coroutine : Kind(task[j].pc) # "bet"

(* The tick finds the step running for `limit` ticks. *)
Due(k, step, limit) == /\ CanStart(k, "tick") /\ game_step = step /\ NextTime >= limit
                       /\ step \in Through => BetsThrough

TickWaits(k) ==
    /\ CanStart(k, "tick")
    /\ game_step \in {"biao", "biao_end", "bet", "bet_end", "send", "qiang", "wait_result"}
                  => NextTime < Duration[game_step]
    /\ game_step = "result" => NextTime <= Duration["result"]
    /\ game_step # "flow"
    /\ game_time' = NextTime
    /\ UNCHANGED <<game_step, seat, bets, gone, line, task, acct>>

(* Mutant of Advance: the step after the bids is step_rob. *)
AdvanceToRob(step) ==
    game_time' = 0 /\ game_step' = IF step = "biao_end" THEN "rob" ELSE step

Advance(step) == game_time' = 0 /\ game_step' = step

TickBiao(k) ==
    /\ Due(k, "biao", Duration["biao"]) /\ Advance("biao_end")
    /\ UNCHANGED <<seat, bets, gone, line, task, acct>>

(* beter_start clears the bets. *)
TickBiaoEnd(k) ==
    /\ Due(k, "biao_end", Duration["biao_end"]) /\ Advance("bet")
    /\ bet_data' = None
    /\ UNCHANGED <<seat, packets, unsettled, gone, line, task, acct>>

(* Mutant of TickBet: the timer starts again instead of the next step. *)
TickBetAgain(k) ==
    /\ Due(k, "bet", Duration["bet"]) /\ Advance("bet")
    /\ UNCHANGED <<seat, bets, gone, line, task, acct>>

TickBet(k) ==
    /\ Due(k, "bet", Duration["bet"]) /\ Advance("bet_end")
    /\ UNCHANGED <<seat, bets, gone, line, task, acct>>

(* wait_send raises on an unknown point when the step is already set. *)
TickBetEnd(k) ==
    /\ Due(k, "bet_end", Duration["bet_end"])
    /\ Advance(IF Cardinality(Bettors) < MinBet THEN "flow" ELSE "send")
    /\ UNCHANGED <<seat, bets, gone, line, task, acct>>

(* send_packet counts the packets, then asks the database how to draw them; *)
(* the step changes only when send_packet is through.                       *)
TickSend(k) ==
    /\ Due(k, "send", Duration["send"])
    /\ game_time' = NextTime
    /\ Goto(k, [Idle EXCEPT !.pc = "send_db", !.coin = Cardinality(Bettors) + 1])
    /\ UNCHANGED <<game_step, seat, bets, gone, line, acct>>

(* Every player gets a packet while there are packets. *)
SendAssigned(k) ==
    /\ At(k, "send_db")
    /\ IF players = None
         THEN Done(k) /\ UNCHANGED packets
         ELSE /\ \E lucky \in SUBSET players :
                   /\ Cardinality(lucky) = Min({Cardinality(players), task[k].coin})
                   /\ packets' = [u \in players |-> [value |-> u \in lucky, open |-> FALSE]]
              /\ IF banker \in players
                   THEN Goto(k, [task[k] EXCEPT !.pc = "send_log"])
                   ELSE Done(k)
    /\ UNCHANGED <<clock, seat, bet_data, unsettled, gone, line, acct>>

SendDone(k) ==
    /\ At(k, "send_log") /\ Advance("qiang") /\ Done(k)
    /\ UNCHANGED <<seat, bets, gone, line, acct>>

(* wait_game_result opens what is still closed, in any order.  At a packet  *)
(* whose owner is no longer a player it raises, having opened that packet   *)
(* and perhaps others; the next tick goes on with the rest.                 *)
Opened(S) == packets' = [u \in DOMAIN packets |->
                           IF u \in S THEN [packets[u] EXCEPT !.open = TRUE] ELSE packets[u]]

TickQiang(k) ==
    LET closed == IF packets = None THEN {} ELSE {u \in DOMAIN packets : ~packets[u].open}
        lost   == IF players = None THEN {} ELSE closed \ players
    IN /\ Due(k, "qiang", Duration["qiang"])
       /\ IF packets = None \/ (players = None /\ closed # {})
            THEN game_time' = NextTime /\ UNCHANGED <<game_step, packets>>
          ELSE IF lost # {}
            THEN /\ game_time' = NextTime /\ UNCHANGED game_step
                 /\ \E u \in lost, S \in SUBSET (closed \ lost) : Opened(S \cup {u})
            ELSE Advance("wait_result") /\ Opened(closed)
       /\ UNCHANGED <<seat, bet_data, unsettled, gone, line, task, acct>>

(* goto_result and game_result up to addResultLog; bankerGameCoin already   *)
(* counts the gain or loss, before the account server has booked it.  If    *)
(* getResult raises the step has changed all the same, and the bets of the  *)
(* round stay frozen: unsettled notes those that were complete.             *)
TickWaitResult(k) ==
    /\ Due(k, "wait_result", Duration["wait_result"]) /\ Advance("result")
    /\ \/ /\ ResultDefined
          /\ \E o \in [Bettors -> Outcome] :
               /\ bankerGameCoin' = CoinAfter(o)
               /\ Goto(k, [Idle EXCEPT !.pc = "result_log", !.coin = CoinAfter(o) - SeatFee(o),
                                       !.batch = SettleBatch(o)])
          /\ UNCHANGED unsettled
       \/ /\ ResultRaises
          /\ unsettled' = IF Complete THEN [u \in User |-> unsettled[u] + Staked(u)] ELSE unsettled
          /\ UNCHANGED <<bankerGameCoin, task>>
    /\ UNCHANGED <<banker, bankerSurplusCoin, players, bet_data, packets, gone, line, acct>>

(* The round is over (game_over): an offline banker leaves the seat, another *)
(* one goes on; without a banker the room rests.                            *)
TickResult(k) ==
    /\ Due(k, "result", Duration["result"] + 1)
    /\ bet_data' = None /\ packets' = None
    /\ IF banker = None
         THEN Advance("none") /\ players' = None /\ UNCHANGED task
         ELSE /\ game_time' = 0
              /\ IF players = None \/ banker \notin players
                   THEN UNCHANGED <<task, players>>
                 ELSE IF banker \in offline
                   THEN CallDown(k, banker, "end") /\ UNCHANGED players
                   ELSE /\ players' = {banker}
                        /\ Goto(k, [Idle EXCEPT !.pc = "start_gold"])
              /\ UNCHANGED game_step
    /\ UNCHANGED <<banker, bankerGameCoin, bankerSurplusCoin, unsettled, gone, line, acct>>

TickFlow(k) ==
    /\ Due(k, "flow", 0) /\ Advance("result")
    /\ IF players = None THEN UNCHANGED task
       ELSE Goto(k, [Idle EXCEPT !.pc = "flow_gold", !.u = banker])
    /\ UNCHANGED <<seat, bets, gone, line, acct>>

-----------------------------------------------------------------------------
(* A member's connection is lost, and comes back (room/cmd.lua).  Between  *)
(* rounds a member who is free (get_user_free) leaves the room and his     *)
(* record is dropped without the flag.                                     *)
Disconnect(u) ==
    /\ u \notin away /\ away' = away \cup {u}
    /\ offline' = IF game_step = "none" /\ u # banker /\ u \notin Bettors
                    THEN offline ELSE offline \cup {u}
    /\ UNCHANGED <<clock, seat, bets, line, task, acct>>

Login(u) ==
    /\ u \in away /\ away' = away \ {u} /\ offline' = offline \ {u}
    /\ UNCHANGED <<clock, seat, bets, line, task, acct>>

-----------------------------------------------------------------------------
Command ==
    \E u \in User :
      \/ \E k \in Coroutine, c \in Coins : RobBanker(k, u, c) \/ BiaoBanker(k, u, c)
      \/ \E k \in Coroutine : DownBanker(k, u)
      \/ \E k \in Coroutine, b \in BetMenu : Betting(k, u, b)
      \/ OpenRedPacket(u)
      \/ Disconnect(u)
      \/ Login(u)

Resume(k) ==
    \/ RobGoldFrozen(k) \/ RobCoinFrozen(k) \/ RobStartsGame(k) \/ StartGoldFrozen(k)
    \/ BiaoCoinFrozen(k) \/ BiaoDone(k) \/ DownReturned(k) \/ DownCleared(k)
    \/ BetResumed(k) \/ BetCoinFrozen(k)
    \/ SendAssigned(k) \/ SendDone(k)
    \/ ResultLogged(k) \/ ResultGoldUsed(k) \/ ResultBooked(k) \/ ResultStored(k) \/ ResultDone(k)
    \/ FlowGoldReturned(k) \/ FlowRefund(k) \/ FlowRefunded(k) \/ FlowDone(k)

Tick(k) ==
    \/ TickWaits(k) \/ TickBiao(k) \/ TickBiaoEnd(k) \/ TickBet(k) \/ TickBetEnd(k)
    \/ TickSend(k) \/ TickQiang(k) \/ TickWaitResult(k) \/ TickResult(k) \/ TickFlow(k)

Next == Command \/ \E k \in Coroutine : Resume(k) \/ Tick(k)

Spec == Init /\ [][Next]_vars

(* The timer fires and every call is answered: skynet.timeout re-arms the  *)
(* timer before the tick runs, and the HTTP client gives up after three    *)
(* seconds.  Strong fairness for the tick: without Overlap members may     *)
(* keep the room busy between ticks, but not forever.                      *)
Fairness ==
    /\ \A k \in Coroutine : WF_vars(Resume(k))
    /\ SF_vars(\E k \in Coroutine : Tick(k))

FairSpec == Spec /\ Fairness

-----------------------------------------------------------------------------
(* Properties.                                                             *)

PCs == {"idle", "rob_gold", "rob_coin", "rob_db", "start_gold", "biao_new", "biao_back",
        "biao_more", "down_acct", "down_db", "bet_wait", "bet_coin", "send_db", "send_log",
        "result_log", "result_gold", "result_acct", "result_db", "result_more",
        "flow_gold", "flow_db", "flow_acct", "flow_mode"}

Packet == [value : BOOLEAN, open : BOOLEAN]

(* Types of the room's state and of what its suspended coroutines hold.    *)
TypeOK ==
    /\ game_step \in Steps /\ game_time \in Nat
    /\ banker \in User \cup {None}
    /\ players \in (SUBSET User) \cup {None}
    /\ bet_data \in [User -> Seq(BetMenu)] \cup {None}
    /\ packets # None => packets \in [DOMAIN packets -> Packet] /\ DOMAIN packets \subseteq User
    /\ unsettled \in [User -> Nat]
    /\ away \subseteq User /\ offline \subseteq User
    /\ line \in Seq(Coroutine)
    /\ task = [k \in Coroutine |-> task[k]]
    /\ \A k \in Coroutine : /\ task[k].pc \in PCs
                             /\ task[k].u \in User \cup {None}
                             /\ task[k].bet \in BetMenu \cup {None}

(* Whoever sits in the banker's seat is one of the players, whatever        *)
(* handlers are suspended: game_over reads g.players[g.banker].offline      *)
(* (step.lua:17) and raises at every tick of the result step otherwise,     *)
(* which would stop the room for good.                                      *)
BankerIsPlayer == banker # None => players # None /\ banker \in players

(* A member has one bet, or several bets of type 4 (the special points) on  *)
(* different points, although he may send bets while earlier ones wait for  *)
(* the account server (logic.lua:451-463, cmd.lua:80).                      *)
NoClash(seq, b) == \A i \in DOMAIN seq : /\ seq[i].type = 4 /\ b.type = 4
                                         /\ seq[i].sub_type # b.sub_type
OneBetPerUser ==
    bet_data # None =>
      \A u \in User : \A i, j \in DOMAIN bet_data[u] :
         i # j => /\ bet_data[u][i].type = 4 /\ bet_data[u][j].type = 4
                  /\ bet_data[u][i].sub_type # bet_data[u][j].sub_type

Quiet == \A k \in Coroutine : At(k, "idle")

(* The bets of the round are neither settled nor refunded. *)
InPlay == game_step \in {"bet", "bet_end", "send", "qiang", "wait_result"}

(* The banker's coins cover everything the recorded bets may cost him, from *)
(* the first bet to the settlement: bankerSurplusCoin, written after the    *)
(* account call from a value read before it (logic.lua:497, 543), does not  *)
(* lose a pledge.                                                           *)
Solvent == InPlay => SumFunction([u \in Bettors |-> Exposure(u)]) <= bankerGameCoin

(* Every recorded bet is backed by coins of the bettor frozen on the account *)
(* server, which settlement and refund take back (logic.lua:809-823).        *)
BetsBacked == InPlay => \A u \in Bettors : acct.frozen[u] >= Staked(u)

(* The coins frozen on the account server are exactly the banker's stake,   *)
(* the bets in play and the bets that getResult raised on, because of an    *)
(* unknown point or a packet of 10.00, whenever no handler is under way: no *)
(* other coin of a member stays behind in the game.                         *)
NothingStranded ==
    Quiet => \A u \in User :
       acct.frozen[u] = (IF u = banker THEN bankerGameCoin ELSE 0)
                        + (IF InPlay \/ game_step = "flow" THEN Staked(u) ELSE 0)
                        + unsettled[u]

(* The coins of the members and of the owner's shares are conserved by every *)
(* rob, bid, bet, refund and settlement, also when the account server's      *)
(* answers fail or get lost.                                                 *)
CoinsConserved ==
    SumFunction([u \in User |-> acct.bal[u] + acct.frozen[u]]) + acct.owner
      = InitBal * Cardinality(User)

(* Every bettor is one of the players: wait_game_result and getResult index  *)
(* g.players by the bettors (logic.lua:774, poker_utils.lua:556).            *)
BettorsArePlayers == InPlay /\ Bettors # {} => players # None /\ Bettors \subseteq players

(* The bets of a round can be settled: pledged by the banker, backed by the  *)
(* bettors, and made by players.                                             *)
BetsCovered == Solvent /\ BetsBacked /\ BettorsArePlayers

(* Every bet is settled or refunded: its coins leave the game, but for those *)
(* that getResult raised on, unless the bettor has become the banker         *)
(* meanwhile.                                                                *)
StakesReleased ==
    \A u \in User : u \in Bettors ~> (acct.frozen[u] = unsettled[u] \/ u = banker)
=============================================================================

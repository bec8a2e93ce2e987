------------------------- MODULE HongbaoRoomProofs -------------------------
(***************************************************************************)
(* The invariants of HongbaoRoom, for every number of members and of       *)
(* suspended coroutines and every menu of bets.  Types, the seat and the   *)
(* clashes of bets do not depend on which handlers overlap or how the      *)
(* account server fails; what the coins need is said with each theorem.    *)
(*                                                                         *)
(* OneBetPerUser is not inductive: a bet is checked against the recorded   *)
(* ones before the account call and recorded after it.  The strengthening  *)
(* says that the coroutine waiting for that call heads the line of the     *)
(* section (Serialised), so that nobody else records a bet meanwhile, and  *)
(* that its bet still clashes with none (Admissible).                      *)
(*                                                                         *)
(* The coins.  What a coroutine carries from one call to the next, the     *)
(* batch of transfers, adds up to nothing (Held), and every recorded bet   *)
(* has brought its coins (BInv) and its pledge (LInv).  The steps of Next  *)
(* are first sorted by what they do to the seat, the bets and the coins    *)
(* (Sorted); each invariant is then proved sort by sort.                   *)
(* Last, NInv says what the account server holds of every member at each   *)
(* place where a handler waits; so nothing is stranded when none does.     *)
(***************************************************************************)
EXTENDS HongbaoRoom, DataTheorems, TLAPS

(* Suspended coroutines that act for a member. *)
ForUser == {"rob_gold", "rob_coin", "rob_db", "biao_new", "biao_back", "biao_more",
            "bet_wait", "bet_coin"}

Record(t) == DOMAIN t = {"pc", "u", "coin", "batch", "bet", "next"}

Fine(t) ==
    /\ Record(t)
    /\ t.pc \in PCs /\ t.u \in User \cup {None} /\ t.bet \in BetMenu \cup {None}
    /\ t.pc \in ForUser => t.u \in User
    /\ t.pc \in {"bet_wait", "bet_coin"} => t.bet \in BetMenu

TaskOK == task = [k \in Coroutine |-> task[k]] /\ \A k \in Coroutine : Fine(task[k])

ClockOK == game_step \in Steps /\ game_time \in Nat
SeatOK  == banker \in User \cup {None} /\ players \in (SUBSET User) \cup {None}
BetsOK  == bet_data \in [User -> Seq(BetMenu)] \cup {None}
PacketsOK == packets # None => packets \in [DOMAIN packets -> Packet] /\ DOMAIN packets \subseteq User
GoneOK  == away \subseteq User /\ offline \subseteq User
LineOK  == line \in Seq(Coroutine)

RoomOK == ClockOK /\ SeatOK /\ BetsOK /\ PacketsOK /\ GoneOK /\ LineOK

Serialised == \A k \in Coroutine : At(k, "bet_coin") => line # << >> /\ Head(line) = k

Admissible ==
    \A k \in Coroutine : At(k, "bet_coin") /\ bet_data # None
                           => NoClash(bet_data[task[k].u], task[k].bet)

IInv == TaskOK /\ RoomOK /\ BankerIsPlayer /\ Serialised /\ Admissible /\ OneBetPerUser

-----------------------------------------------------------------------------
(* Coroutines.                                                             *)

(* Moving one coroutine to a well-formed place leaves the others alone. *)
LEMMA GotoFacts ==
    ASSUME TaskOK, NEW k \in Coroutine, NEW t, Fine(t), Goto(k, t)
    PROVE  /\ TaskOK'
           /\ task'[k] = t
           /\ \A j \in Coroutine : j # k => task'[j] = task[j]
<1>1. task' = [j \in Coroutine |-> IF j = k THEN t ELSE task[j]]
  BY DEF TaskOK, Goto
<1>2. task'[k] = t /\ \A j \in Coroutine : j # k => task'[j] = task[j]
  BY <1>1
<1>3. task' = [j \in Coroutine |-> task'[j]]
  BY <1>1
<1>4. \A j \in Coroutine : Fine(task'[j])
  BY <1>2 DEF TaskOK
<1> QED BY <1>2, <1>3, <1>4 DEF TaskOK, Fine, Record

(* An idle coroutine is well-formed. *)
LEMMA IdleFine == Fine(Idle)
BY DEF Fine, Idle, Record, PCs, ForUser

-----------------------------------------------------------------------------
(* Most steps record no bet and leave the section as it is.                *)

(* Coroutine k is moved, if at all, neither from nor to the account call   *)
(* of a bet.                                                               *)
Quietly(k) ==
    \/ task' = task
    \/ /\ task[k].pc # "bet_coin"
       /\ \E t : Fine(t) /\ t.pc # "bet_coin" /\ Goto(k, t)

(* Such a step keeps the section and the recorded bets in order. *)
LEMMA Frame ==
    ASSUME IInv, task' = task \/ \E k \in Coroutine : Quietly(k), line' = line,
           bet_data' = bet_data \/ bet_data' = None,
           RoomOK', BankerIsPlayer'
    PROVE  IInv'
<1>1. /\ TaskOK'
      /\ \A j \in Coroutine : task'[j].pc = "bet_coin" => task'[j] = task[j]
  <2>1. CASE task' = task
    BY <2>1 DEF IInv, TaskOK, Fine, Record
  <2>2. CASE task' # task
    <3>1. PICK k \in Coroutine : \E t : Fine(t) /\ t.pc # "bet_coin" /\ Goto(k, t)
      BY <2>2 DEF Quietly
    <3> PICK t : Fine(t) /\ t.pc # "bet_coin" /\ Goto(k, t)
      BY <3>1
    <3>2. /\ TaskOK'
          /\ task'[k] = t
          /\ \A j \in Coroutine : j # k => task'[j] = task[j]
      BY GotoFacts DEF IInv
    <3> QED BY <3>2
  <2> QED BY <2>1, <2>2
<1>2. Serialised'
  BY <1>1 DEF IInv, Serialised, At
<1>3. Admissible'
  BY <1>1 DEF IInv, Admissible, At
<1>4. OneBetPerUser'
  BY DEF IInv, OneBetPerUser
<1> QED BY <1>1, <1>2, <1>3, <1>4 DEF IInv

(* A coroutine that ends, or goes to another call, does so quietly. *)
LEMMA QuietEnd ==
    ASSUME NEW k \in Coroutine, task[k].pc # "bet_coin", Done(k)
    PROVE  Quietly(k)
<1>1. Fine(Idle) /\ Idle.pc # "bet_coin"
  BY IdleFine DEF Idle
<1> QED BY <1>1 DEF Quietly, Done

LEMMA QuietTo ==
    ASSUME NEW k \in Coroutine, task[k].pc # "bet_coin",
           NEW t, Fine(t), t.pc # "bet_coin", Goto(k, t)
    PROVE  Quietly(k)
BY DEF Quietly

(* logic.down_banker is called for the banker or for nobody. *)
LEMMA QuietDown ==
    ASSUME NEW k \in Coroutine, task[k].pc # "bet_coin", NEW u \in User \cup {None}, NEW n,
           CallDown(k, u, n)
    PROVE  Quietly(k)
<1> DEFINE t == [Idle EXCEPT !.pc = "down_acct", !.u = u, !.next = n,
                             !.batch = Return(u, bankerGameCoin)]
<1>1. Fine(t) /\ t.pc # "bet_coin"
  BY DEF Fine, Record, Idle, PCs, ForUser
<1>2. Goto(k, t)
  BY DEF CallDown
<1> HIDE DEF t
<1> QED BY <1>1, <1>2, QuietTo

(* A step that leaves the room alone keeps its types. *)
LEMMA RoomKept ==
    ASSUME IInv, UNCHANGED <<room, line>>
    PROVE  RoomOK' /\ BankerIsPlayer' /\ bet_data' = bet_data /\ line' = line
BY DEF IInv, room, clock, seat, bets, gone, RoomOK, ClockOK, SeatOK, BetsOK, PacketsOK,
       GoneOK, LineOK, BankerIsPlayer

(* The length of a step, and the time counted by a tick. *)
LEMMA DurationType == Duration["result"] \in Nat
<1>1. Duration \in [Steps -> Nat]
  BY RoomAssumption
<1> QED BY <1>1 DEF Steps

LEMMA NextTimeType == ClockOK => NextTime \in Nat
BY DEF ClockOK, NextTime

-----------------------------------------------------------------------------
(* The banker's seat.                                                      *)

(* cmd.rob_banker. *)
LEMMA RobBankerStep ==
    ASSUME IInv, NEW k \in Coroutine, NEW u \in User, NEW c \in Coins, RobBanker(k, u, c)
    PROVE  IInv'
<1>1. Quietly(k)
  <2> DEFINE t == [Idle EXCEPT !.pc = "rob_gold", !.u = u, !.coin = c]
  <2>1. Fine(t) /\ t.pc # "bet_coin"
    BY DEF IInv, RoomOK, SeatOK, TaskOK, At, Fine, Record, PCs, ForUser, Idle, RobBanker
  <2>2. task[k].pc # "bet_coin" /\ (Goto(k, t))
    BY DEF RobBanker, At, CanStart
  <2> HIDE DEF t
  <2> QED BY <2>1, <2>2, QuietTo
<1> QED BY <1>1, RoomKept, Frame DEF RobBanker

(* The answer to freezeRoomGold. *)
LEMMA RobGoldFrozenStep ==
    ASSUME IInv, NEW k \in Coroutine, RobGoldFrozen(k)
    PROVE  IInv'
<1>1. Quietly(k)
  <2> DEFINE t == [task[k] EXCEPT !.pc = "rob_coin", !.batch = Freeze(task[k].u, task[k].coin)]
  <2>1. Fine(t) /\ t.pc # "bet_coin"
    BY DEF IInv, RoomOK, SeatOK, TaskOK, At, Fine, Record, PCs, ForUser, RobGoldFrozen
  <2>2. task[k].pc # "bet_coin" /\ (Goto(k, t) \/ Done(k))
    BY DEF RobGoldFrozen, At
  <2> HIDE DEF t
  <2> QED BY <2>1, <2>2, QuietTo, QuietEnd
<1> QED BY <1>1, RoomKept, Frame DEF RobGoldFrozen

(* The robber sits down: he is entered in g.players with g.banker. *)
LEMMA RobCoinFrozenStep ==
    ASSUME IInv, NEW k \in Coroutine, RobCoinFrozen(k)
    PROVE  IInv'
<1>1. Quietly(k)
  <2> DEFINE t == [task[k] EXCEPT !.pc = "rob_db"]
  <2>1. Fine(t) /\ t.pc # "bet_coin"
    BY DEF IInv, RoomOK, SeatOK, TaskOK, At, Fine, Record, PCs, ForUser, RobCoinFrozen
  <2>2. task[k].pc # "bet_coin" /\ (Goto(k, t) \/ Done(k))
    BY DEF RobCoinFrozen, At
  <2> HIDE DEF t
  <2> QED BY <2>1, <2>2, QuietTo, QuietEnd
<1>2. task[k].u \in User
  BY DEF IInv, TaskOK, RobCoinFrozen, At, Fine, ForUser
<1>3. RoomOK' /\ BankerIsPlayer'
  BY <1>2, RoomAssumption DEF IInv, RobCoinFrozen, clock, seat, bets, gone, RoomOK, ClockOK, SeatOK,
         BetsOK, PacketsOK, GoneOK, LineOK, BankerIsPlayer
<1> QED BY <1>1, <1>3, Frame DEF RobCoinFrozen, bets

(* game_start after a rob. *)
LEMMA RobStartsGameStep ==
    ASSUME IInv, NEW k \in Coroutine, RobStartsGame(k)
    PROVE  IInv'
<1>1. Quietly(k)
  <2> DEFINE t == [Idle EXCEPT !.pc = "start_gold"]
  <2>1. Fine(t) /\ t.pc # "bet_coin"
    BY DEF IInv, RoomOK, SeatOK, TaskOK, At, Fine, Record, PCs, ForUser, Idle, RobStartsGame
  <2>2. task[k].pc # "bet_coin" /\ (Goto(k, t) \/ Done(k))
    BY DEF RobStartsGame, At
  <2> HIDE DEF t
  <2> QED BY <2>1, <2>2, QuietTo, QuietEnd
<1>2. RoomOK' /\ BankerIsPlayer'
  BY DEF IInv, RobStartsGame, clock, seat, bets, gone, RoomOK, ClockOK, SeatOK, BetsOK,
         PacketsOK, GoneOK, LineOK,
         BankerIsPlayer, Steps
<1> QED BY <1>1, <1>2, Frame DEF RobStartsGame, bets

(* game_start(false). *)
LEMMA StartGoldFrozenStep ==
    ASSUME IInv, NEW k \in Coroutine, StartGoldFrozen(k)
    PROVE  IInv'
<1>1. Quietly(k)
  <2>2. task[k].pc # "bet_coin" /\ (Done(k) \/ CallDown(k, banker, "reset"))
    BY DEF StartGoldFrozen, At
  <2>3. banker \in User \cup {None} /\ task[k].u \in User \cup {None}
    BY DEF IInv, RoomOK, SeatOK, TaskOK, Fine
  <2> QED BY <2>2, <2>3, QuietDown, QuietEnd
<1>2. RoomOK' /\ BankerIsPlayer'
  BY DEF IInv, StartGoldFrozen, clock, seat, bets, gone, RoomOK, ClockOK, SeatOK, BetsOK,
         PacketsOK, GoneOK, LineOK,
         BankerIsPlayer, Steps
<1> QED BY <1>1, <1>2, Frame DEF StartGoldFrozen, bets

(* cmd.biao_banker. *)
LEMMA BiaoBankerStep ==
    ASSUME IInv, NEW k \in Coroutine, NEW u \in User, NEW c \in Coins, BiaoBanker(k, u, c)
    PROVE  IInv'
<1>1. Quietly(k)
  <2> DEFINE s == [Idle EXCEPT !.pc = "biao_more", !.u = u, !.coin = c,
                               !.batch = Freeze(u, c - bankerGameCoin)]
             t == [Idle EXCEPT !.pc = "biao_new", !.u = u, !.coin = c, !.batch = Freeze(u, c)]
  <2>1. Fine(s) /\ s.pc # "bet_coin" /\ Fine(t) /\ t.pc # "bet_coin"
    BY DEF Idle, Fine, Record, PCs, ForUser
  <2>2. task[k].pc # "bet_coin" /\ Goto(k, IF u = banker THEN s ELSE t)
    BY DEF BiaoBanker, CanStart, At
  <2> HIDE DEF s, t
  <2> QED BY <2>1, <2>2, QuietTo
<1> QED BY <1>1, RoomKept, Frame DEF BiaoBanker

(* The bidder's coins are frozen. *)
LEMMA BiaoCoinFrozenStep ==
    ASSUME IInv, NEW k \in Coroutine, BiaoCoinFrozen(k)
    PROVE  IInv'
<1>1. Quietly(k)
  <2> DEFINE t == [task[k] EXCEPT !.pc = "biao_back",
                                    !.batch = Return(banker, bankerGameCoin)]
  <2>1. Fine(t) /\ t.pc # "bet_coin"
    BY DEF IInv, RoomOK, SeatOK, TaskOK, At, Fine, Record, PCs, ForUser, BiaoCoinFrozen
  <2>2. task[k].pc # "bet_coin" /\ (Goto(k, t) \/ Done(k))
    BY DEF BiaoCoinFrozen, At
  <2> HIDE DEF t
  <2> QED BY <2>1, <2>2, QuietTo, QuietEnd
<1> QED BY <1>1, RoomKept, Frame DEF BiaoCoinFrozen

(* The bidder sits down: g.players starts over with him. *)
LEMMA BiaoDoneStep ==
    ASSUME IInv, NEW k \in Coroutine, BiaoDone(k)
    PROVE  IInv'
<1>1. Quietly(k)
  <2>2. task[k].pc # "bet_coin" /\ (Done(k))
    BY DEF BiaoDone, At
  <2> QED BY <2>2, QuietEnd
<1>2. task[k].u \in User
  BY DEF IInv, TaskOK, BiaoDone, Fine, ForUser
<1>3. RoomOK' /\ BankerIsPlayer'
  BY <1>2, RoomAssumption DEF IInv, BiaoDone, clock, seat, bets, gone, RoomOK, ClockOK, SeatOK,
         BetsOK, PacketsOK, GoneOK, LineOK, BankerIsPlayer
<1> QED BY <1>1, <1>3, Frame DEF BiaoDone, bets

(* cmd.down_banker. *)
LEMMA DownBankerStep ==
    ASSUME IInv, NEW k \in Coroutine, NEW u \in User, DownBanker(k, u)
    PROVE  IInv'
<1>1. Quietly(k)
  <2>2. task[k].pc # "bet_coin" /\ (CallDown(k, u, "end"))
    BY DEF DownBanker, At, CanStart
  <2>3. banker \in User \cup {None} /\ task[k].u \in User \cup {None}
    BY DEF IInv, RoomOK, SeatOK, TaskOK, Fine
  <2> QED BY <2>2, <2>3, QuietDown
<1> QED BY <1>1, RoomKept, Frame DEF DownBanker

(* The answer to the transfer of down_banker. *)
LEMMA DownReturnedStep ==
    ASSUME IInv, NEW k \in Coroutine, DownReturned(k)
    PROVE  IInv'
<1>1. Quietly(k)
  <2> DEFINE t == [task[k] EXCEPT !.pc = "down_db"]
  <2>1. Fine(t) /\ t.pc # "bet_coin"
    BY DEF IInv, RoomOK, SeatOK, TaskOK, At, Fine, Record, PCs, ForUser, DownReturned
  <2>2. task[k].pc # "bet_coin" /\ (Goto(k, t) \/ Done(k))
    BY DEF DownReturned, At
  <2> HIDE DEF t
  <2> QED BY <2>1, <2>2, QuietTo, QuietEnd
<1>2. RoomOK' /\ BankerIsPlayer'
  BY DEF IInv, DownReturned, clock, seat, bets, gone, RoomOK, ClockOK, SeatOK, BetsOK,
         PacketsOK, GoneOK, LineOK,
         BankerIsPlayer, Steps
<1> QED BY <1>1, <1>2, Frame DEF DownReturned, bets

(* The seat is cleared together with g.players. *)
LEMMA DownClearedStep ==
    ASSUME IInv, NEW k \in Coroutine, DownCleared(k)
    PROVE  IInv'
<1>1. Quietly(k)
  <2>2. task[k].pc # "bet_coin" /\ (Done(k))
    BY DEF DownCleared, At
  <2> QED BY <2>2, QuietEnd
<1>2. ClockOK'
  BY DurationType DEF IInv, RoomOK, ClockOK, DownCleared, Steps
<1>3. SeatOK' /\ BetsOK' /\ PacketsOK' /\ GoneOK' /\ LineOK' /\ BankerIsPlayer'
  BY DEF IInv, DownCleared, clock, seat, bets, gone, RoomOK, SeatOK, BetsOK, PacketsOK, GoneOK, LineOK,
         BankerIsPlayer, Steps, Advance
<1>4. RoomOK' /\ BankerIsPlayer'
  BY <1>2, <1>3 DEF RoomOK
<1> QED BY <1>1, <1>4, Frame DEF DownCleared, bets

-----------------------------------------------------------------------------
(* Settlement and void rounds.                                             *)

(* addResultLog answered. *)
LEMMA ResultLoggedStep ==
    ASSUME IInv, NEW k \in Coroutine, ResultLogged(k)
    PROVE  IInv'
<1>1. Quietly(k)
  <2> DEFINE t == [task[k] EXCEPT !.pc = "result_gold", !.u = banker]
  <2>1. Fine(t) /\ t.pc # "bet_coin"
    BY DEF IInv, RoomOK, SeatOK, TaskOK, At, Fine, Record, PCs, ForUser, ResultLogged
  <2>2. task[k].pc # "bet_coin" /\ (Goto(k, t) \/ Done(k))
    BY DEF ResultLogged, At
  <2> HIDE DEF t
  <2> QED BY <2>1, <2>2, QuietTo, QuietEnd
<1> QED BY <1>1, RoomKept, Frame DEF ResultLogged

(* The answer to reduceRoomGold. *)
LEMMA ResultGoldUsedStep ==
    ASSUME IInv, NEW k \in Coroutine, ResultGoldUsed(k)
    PROVE  IInv'
<1>1. Quietly(k)
  <2> DEFINE t == [task[k] EXCEPT !.pc = "result_acct"]
  <2>1. Fine(t) /\ t.pc # "bet_coin"
    BY DEF IInv, RoomOK, SeatOK, TaskOK, At, Fine, Record, PCs, ForUser, ResultGoldUsed
  <2>2. task[k].pc # "bet_coin" /\ (Goto(k, t) \/ Done(k))
    BY DEF ResultGoldUsed, At
  <2> HIDE DEF t
  <2> QED BY <2>1, <2>2, QuietTo, QuietEnd
<1> QED BY <1>1, RoomKept, Frame DEF ResultGoldUsed

(* The answer to the settlement batch. *)
LEMMA ResultBookedStep ==
    ASSUME IInv, NEW k \in Coroutine, ResultBooked(k)
    PROVE  IInv'
<1>1. Quietly(k)
  <2> DEFINE t == [task[k] EXCEPT !.pc = "result_db"]
  <2>1. Fine(t) /\ t.pc # "bet_coin"
    BY DEF IInv, RoomOK, SeatOK, TaskOK, At, Fine, Record, PCs, ForUser, ResultBooked
  <2>2. task[k].pc # "bet_coin" /\ (Goto(k, t) \/ Done(k))
    BY DEF ResultBooked, At
  <2> HIDE DEF t
  <2> QED BY <2>1, <2>2, QuietTo, QuietEnd
<1> QED BY <1>1, RoomKept, Frame DEF ResultBooked

(* The banker's coins are written. *)
LEMMA ResultStoredStep ==
    ASSUME IInv, NEW k \in Coroutine, ResultStored(k)
    PROVE  IInv'
<1>1. Quietly(k)
  <2> DEFINE t == [task[k] EXCEPT !.pc = "result_more"]
  <2>1. Fine(t) /\ t.pc # "bet_coin"
    BY DEF IInv, RoomOK, SeatOK, TaskOK, At, Fine, Record, PCs, ForUser, ResultStored
  <2>2. task[k].pc # "bet_coin" /\ (Goto(k, t))
    BY DEF ResultStored, At
  <2> HIDE DEF t
  <2> QED BY <2>1, <2>2, QuietTo
<1>2. RoomOK' /\ BankerIsPlayer'
  BY DEF IInv, ResultStored, clock, seat, bets, gone, RoomOK, ClockOK, SeatOK, BetsOK,
         PacketsOK, GoneOK, LineOK,
         BankerIsPlayer
<1> QED BY <1>1, <1>2, Frame DEF ResultStored, bets

(* The end of game_result. *)
LEMMA ResultDoneStep ==
    ASSUME IInv, NEW k \in Coroutine, ResultDone(k)
    PROVE  IInv'
<1>1. Quietly(k)
  <2>2. task[k].pc # "bet_coin" /\ (Done(k) \/ CallDown(k, task[k].u, "end"))
    BY DEF ResultDone, At
  <2>3. banker \in User \cup {None} /\ task[k].u \in User \cup {None}
    BY DEF IInv, RoomOK, SeatOK, TaskOK, Fine
  <2> QED BY <2>2, <2>3, QuietDown, QuietEnd
<1> QED BY <1>1, RoomKept, Frame DEF ResultDone

(* The answer to returnRoomGold. *)
LEMMA FlowGoldReturnedStep ==
    ASSUME IInv, NEW k \in Coroutine, FlowGoldReturned(k)
    PROVE  IInv'
<1>1. Quietly(k)
  <2> DEFINE t == [task[k] EXCEPT !.pc = "flow_db"]
  <2>1. Fine(t) /\ t.pc # "bet_coin"
    BY DEF IInv, RoomOK, SeatOK, TaskOK, At, Fine, Record, PCs, ForUser, FlowGoldReturned
  <2>2. task[k].pc # "bet_coin" /\ (Goto(k, t) \/ Done(k))
    BY DEF FlowGoldReturned, At
  <2> HIDE DEF t
  <2> QED BY <2>1, <2>2, QuietTo, QuietEnd
<1> QED BY <1>1, RoomKept, Frame DEF FlowGoldReturned

(* The refunds of a void round are asked for. *)
LEMMA FlowRefundStep ==
    ASSUME IInv, NEW k \in Coroutine, FlowRefund(k)
    PROVE  IInv'
<1>1. Quietly(k)
  <2> DEFINE t == [task[k] EXCEPT !.pc = "flow_acct",
                 !.batch = [bal |-> [u \in User |-> Staked(u)],
                            frozen |-> [u \in User |-> -Staked(u)], owner |-> 0]]
  <2>1. Fine(t) /\ t.pc # "bet_coin"
    BY DEF IInv, RoomOK, SeatOK, TaskOK, At, Fine, Record, PCs, ForUser, FlowRefund
  <2>2. task[k].pc # "bet_coin" /\ (Goto(k, t) \/ Done(k))
    BY DEF FlowRefund, At
  <2> HIDE DEF t
  <2> QED BY <2>1, <2>2, QuietTo, QuietEnd
<1>2. RoomOK' /\ BankerIsPlayer'
  BY DEF IInv, FlowRefund, clock, seat, bets, gone, RoomOK, ClockOK, SeatOK, BetsOK,
         PacketsOK, GoneOK, LineOK,
         BankerIsPlayer
<1> QED BY <1>1, <1>2, Frame DEF FlowRefund, bets

(* The answer to the refunds. *)
LEMMA FlowRefundedStep ==
    ASSUME IInv, NEW k \in Coroutine, FlowRefunded(k)
    PROVE  IInv'
<1>1. Quietly(k)
  <2> DEFINE t == [task[k] EXCEPT !.pc = "flow_mode"]
  <2>1. Fine(t) /\ t.pc # "bet_coin"
    BY DEF IInv, RoomOK, SeatOK, TaskOK, At, Fine, Record, PCs, ForUser, FlowRefunded
  <2>2. task[k].pc # "bet_coin" /\ (Goto(k, t) \/ Done(k))
    BY DEF FlowRefunded, At
  <2> HIDE DEF t
  <2> QED BY <2>1, <2>2, QuietTo, QuietEnd
<1> QED BY <1>1, RoomKept, Frame DEF FlowRefunded

(* The end of game_flow_bureau. *)
LEMMA FlowDoneStep ==
    ASSUME IInv, NEW k \in Coroutine, FlowDone(k)
    PROVE  IInv'
<1>1. Quietly(k)
  <2>2. task[k].pc # "bet_coin" /\ (Done(k) \/ CallDown(k, task[k].u, "end"))
    BY DEF FlowDone, At
  <2>3. banker \in User \cup {None} /\ task[k].u \in User \cup {None}
    BY DEF IInv, RoomOK, SeatOK, TaskOK, Fine
  <2> QED BY <2>2, <2>3, QuietDown, QuietEnd
<1> QED BY <1>1, RoomKept, Frame DEF FlowDone

-----------------------------------------------------------------------------
(* The timer.                                                              *)

(* A tick within a step. *)
LEMMA TickWaitsStep ==
    ASSUME IInv, NEW k \in Coroutine, TickWaits(k)
    PROVE  IInv'
<1>1. Quietly(k)
  BY DEF TickWaits, Quietly
<1>2. ClockOK'
  BY NextTimeType DEF IInv, RoomOK, ClockOK, TickWaits
<1>3. SeatOK' /\ BetsOK' /\ PacketsOK' /\ GoneOK' /\ LineOK' /\ BankerIsPlayer'
  BY DEF IInv, TickWaits, clock, seat, bets, gone, RoomOK, SeatOK, BetsOK, PacketsOK, GoneOK, LineOK,
         BankerIsPlayer, Steps, Advance
<1>4. RoomOK' /\ BankerIsPlayer'
  BY <1>2, <1>3 DEF RoomOK
<1> QED BY <1>1, <1>4, Frame DEF TickWaits, bets

(* The end of the bids. *)
LEMMA TickBiaoStep ==
    ASSUME IInv, NEW k \in Coroutine, TickBiao(k)
    PROVE  IInv'
<1>1. Quietly(k)
  BY DEF TickBiao, Quietly
<1>2. RoomOK' /\ BankerIsPlayer'
  BY RoomAssumption DEF IInv, TickBiao, Advance, NextTime, clock, seat, bets, gone, RoomOK, ClockOK,
         SeatOK, BetsOK, PacketsOK, GoneOK, LineOK, BankerIsPlayer, Steps
<1> QED BY <1>1, <1>2, Frame DEF TickBiao, bets

(* The start of the bets. *)
LEMMA TickBiaoEndStep ==
    ASSUME IInv, NEW k \in Coroutine, TickBiaoEnd(k)
    PROVE  IInv'
<1>1. Quietly(k)
  BY DEF TickBiaoEnd, Quietly
<1>2. RoomOK' /\ BankerIsPlayer'
  BY RoomAssumption DEF IInv, TickBiaoEnd, Advance, NextTime, clock, seat, bets, gone, RoomOK, ClockOK,
         SeatOK, BetsOK, PacketsOK, GoneOK, LineOK, BankerIsPlayer, Steps
<1> QED BY <1>1, <1>2, Frame DEF TickBiaoEnd, bets

(* The end of the bets. *)
LEMMA TickBetStep ==
    ASSUME IInv, NEW k \in Coroutine, TickBet(k)
    PROVE  IInv'
<1>1. Quietly(k)
  BY DEF TickBet, Quietly
<1>2. RoomOK' /\ BankerIsPlayer'
  BY RoomAssumption DEF IInv, TickBet, Advance, NextTime, clock, seat, bets, gone, RoomOK, ClockOK,
         SeatOK, BetsOK, PacketsOK, GoneOK, LineOK, BankerIsPlayer, Steps
<1> QED BY <1>1, <1>2, Frame DEF TickBet, bets

(* The packets are due, or the round is void. *)
LEMMA TickBetEndStep ==
    ASSUME IInv, NEW k \in Coroutine, TickBetEnd(k)
    PROVE  IInv'
<1>1. Quietly(k)
  BY DEF TickBetEnd, Quietly
<1>2. RoomOK' /\ BankerIsPlayer'
  BY RoomAssumption DEF IInv, TickBetEnd, Advance, NextTime, clock, seat, bets, gone, RoomOK, ClockOK,
         SeatOK, BetsOK, PacketsOK, GoneOK, LineOK, BankerIsPlayer, Steps
<1> QED BY <1>1, <1>2, Frame DEF TickBetEnd, bets

(* send_packet starts. *)
LEMMA TickSendStep ==
    ASSUME IInv, NEW k \in Coroutine, TickSend(k)
    PROVE  IInv'
<1>1. Quietly(k)
  <2> DEFINE t == [Idle EXCEPT !.pc = "send_db", !.coin = Cardinality(Bettors) + 1]
  <2>1. Fine(t) /\ t.pc # "bet_coin"
    BY DEF IInv, RoomOK, SeatOK, TaskOK, At, Fine, Record, PCs, ForUser, Idle, TickSend
  <2>2. task[k].pc # "bet_coin" /\ (Goto(k, t))
    BY DEF TickSend, At, Due, CanStart
  <2> HIDE DEF t
  <2> QED BY <2>1, <2>2, QuietTo
<1>2. ClockOK'
  BY NextTimeType DEF IInv, RoomOK, ClockOK, TickSend
<1>3. SeatOK' /\ BetsOK' /\ PacketsOK' /\ GoneOK' /\ LineOK' /\ BankerIsPlayer'
  BY DEF IInv, TickSend, clock, seat, bets, gone, RoomOK, SeatOK, BetsOK, PacketsOK, GoneOK, LineOK,
         BankerIsPlayer, Steps, Advance
<1>4. RoomOK' /\ BankerIsPlayer'
  BY <1>2, <1>3 DEF RoomOK
<1> QED BY <1>1, <1>4, Frame DEF TickSend, bets

(* Every player gets a packet. *)
LEMMA SendAssignedStep ==
    ASSUME IInv, NEW k \in Coroutine, SendAssigned(k)
    PROVE  IInv'
<1>1. Quietly(k)
  <2> DEFINE t == [task[k] EXCEPT !.pc = "send_log"]
  <2>1. Fine(t) /\ t.pc # "bet_coin"
    BY DEF IInv, RoomOK, SeatOK, TaskOK, At, Fine, Record, PCs, ForUser, SendAssigned
  <2>2. task[k].pc # "bet_coin" /\ (Goto(k, t) \/ Done(k))
    BY DEF SendAssigned, At
  <2> HIDE DEF t
  <2> QED BY <2>1, <2>2, QuietTo, QuietEnd
<1>2. PacketsOK'
  <2>1. CASE players = None
    BY <2>1 DEF IInv, RoomOK, PacketsOK, SendAssigned
  <2>2. CASE players # None
    <3>1. PICK lucky \in SUBSET players :
            packets' = [u \in players |-> [value |-> u \in lucky, open |-> FALSE]]
      BY <2>2 DEF SendAssigned
    <3>2. players \subseteq User /\ DOMAIN packets' = players
      BY <2>2, <3>1 DEF IInv, RoomOK, SeatOK
    <3>3. \A u \in players : packets'[u] \in Packet
      BY <3>1 DEF Packet
    <3> QED BY <3>1, <3>2, <3>3 DEF PacketsOK
  <2> QED BY <2>1, <2>2
<1>3. ClockOK' /\ SeatOK' /\ BetsOK' /\ GoneOK' /\ LineOK' /\ BankerIsPlayer'
  BY DEF IInv, SendAssigned, clock, seat, bets, gone, RoomOK, ClockOK, SeatOK, BetsOK, GoneOK, LineOK,
         BankerIsPlayer, Steps, Advance
<1>4. RoomOK' /\ BankerIsPlayer'
  BY <1>2, <1>3 DEF RoomOK
<1> QED BY <1>1, <1>4, Frame DEF SendAssigned, bets

(* send_packet is through. *)
LEMMA SendDoneStep ==
    ASSUME IInv, NEW k \in Coroutine, SendDone(k)
    PROVE  IInv'
<1>1. Quietly(k)
  <2>2. task[k].pc # "bet_coin" /\ (Done(k))
    BY DEF SendDone, At
  <2> QED BY <2>2, QuietEnd
<1>2. RoomOK' /\ BankerIsPlayer'
  BY DEF IInv, SendDone, clock, seat, bets, gone, RoomOK, ClockOK, SeatOK, BetsOK,
         PacketsOK, GoneOK, LineOK,
         BankerIsPlayer, Steps, Advance
<1> QED BY <1>1, <1>2, Frame DEF SendDone, bets

(* wait_game_result opens the packets. *)
LEMMA TickQiangStep ==
    ASSUME IInv, NEW k \in Coroutine, TickQiang(k)
    PROVE  IInv'
<1>1. Quietly(k)
  BY DEF TickQiang, Quietly
<1>2. PacketsOK' /\ ClockOK'
  <2>1. ClockOK'
    BY NextTimeType DEF IInv, RoomOK, ClockOK, TickQiang, Advance, Steps
  <2>2. CASE packets' = packets
    BY <2>1, <2>2 DEF IInv, RoomOK, PacketsOK
  <2>3. ASSUME packets # None, NEW S, Opened(S) PROVE PacketsOK'
    <3>1. DOMAIN packets' = DOMAIN packets /\ DOMAIN packets \subseteq User
      BY <2>3 DEF Opened, IInv, RoomOK, PacketsOK
    <3>2. \A u \in DOMAIN packets : packets[u] \in Packet /\ [packets[u] EXCEPT !.open = TRUE] \in Packet
      BY <2>3 DEF IInv, RoomOK, PacketsOK, Packet
    <3>3. packets' = [u \in DOMAIN packets |->
                        IF u \in S THEN [packets[u] EXCEPT !.open = TRUE] ELSE packets[u]]
      BY <2>3 DEF Opened
    <3>4. packets' \in [DOMAIN packets -> Packet]
      BY <3>2, <3>3
    <3> QED BY <3>1, <3>4 DEF PacketsOK
  <2>4. packets' = packets \/ (packets # None /\ \E S : Opened(S))
    BY Zenon DEF TickQiang
  <2> QED BY <2>1, <2>2, <2>3, <2>4
<1>3. SeatOK' /\ BetsOK' /\ GoneOK' /\ LineOK' /\ BankerIsPlayer'
  BY DEF IInv, TickQiang, seat, gone, RoomOK, SeatOK, BetsOK, GoneOK, LineOK, BankerIsPlayer
<1>4. RoomOK' /\ BankerIsPlayer'
  BY <1>2, <1>3 DEF RoomOK
<1> QED BY <1>1, <1>4, Frame DEF TickQiang, bets

(* goto_result: the settlement starts, or raises. *)
LEMMA TickWaitResultStep ==
    ASSUME IInv, NEW k \in Coroutine, TickWaitResult(k)
    PROVE  IInv'
<1>1. task' = task \/ Quietly(k)
  <2>1. CASE task' = task
    BY <2>1
  <2>2. CASE task' # task
    <3>1. PICK o \in [Bettors -> Outcome] :
            Goto(k, [Idle EXCEPT !.pc = "result_log", !.coin = CoinAfter(o) - SeatFee(o),
                                 !.batch = SettleBatch(o)])
      BY <2>2 DEF TickWaitResult
    <3> DEFINE t == [Idle EXCEPT !.pc = "result_log", !.coin = CoinAfter(o) - SeatFee(o),
                                 !.batch = SettleBatch(o)]
    <3>2. Fine(t) /\ t.pc # "bet_coin"
      BY DEF Fine, Record, Idle, PCs, ForUser
    <3>3. task[k].pc # "bet_coin" /\ Goto(k, t)
      BY <3>1 DEF TickWaitResult, Due, CanStart, At
    <3> HIDE DEF t
    <3> QED BY <3>2, <3>3, QuietTo
  <2> QED BY <2>1, <2>2
<1>2. RoomOK' /\ BankerIsPlayer'
  BY DEF IInv, TickWaitResult, Advance, bets, gone, RoomOK, ClockOK, SeatOK, BetsOK, PacketsOK,
         GoneOK, LineOK, BankerIsPlayer, Steps
<1> QED BY <1>1, <1>2, Frame DEF TickWaitResult, bets

(* game_over: the bets are cleared, the banker stays the only player. *)
LEMMA TickResultStep ==
    ASSUME IInv, NEW k \in Coroutine, TickResult(k)
    PROVE  IInv'
<1>1. task' = task \/ Quietly(k)
  <2> DEFINE t == [Idle EXCEPT !.pc = "start_gold"]
  <2>1. Fine(t) /\ t.pc # "bet_coin"
    BY DEF Fine, Record, Idle, PCs, ForUser
  <2>2. task[k].pc # "bet_coin" /\ (task' = task \/ CallDown(k, banker, "end") \/ Goto(k, t))
    BY DEF TickResult, Due, CanStart, At
  <2> HIDE DEF t
  <2>3. banker \in User \cup {None}
    BY DEF IInv, RoomOK, SeatOK
  <2> QED BY <2>1, <2>2, <2>3, QuietTo, QuietDown
<1>2. ClockOK' /\ BetsOK' /\ PacketsOK' /\ GoneOK' /\ LineOK'
  BY DEF IInv, TickResult, Advance, gone, RoomOK, ClockOK, BetsOK, PacketsOK, GoneOK, LineOK, Steps
<1>3. SeatOK' /\ BankerIsPlayer'
  BY RoomAssumption DEF IInv, TickResult, Advance, RoomOK, SeatOK, BankerIsPlayer
<1> QED BY <1>1, <1>2, <1>3, Frame DEF RoomOK, TickResult

(* A void round: game_flow_bureau starts. *)
LEMMA TickFlowStep ==
    ASSUME IInv, NEW k \in Coroutine, TickFlow(k)
    PROVE  IInv'
<1>1. task' = task \/ Quietly(k)
  <2> DEFINE t == [Idle EXCEPT !.pc = "flow_gold", !.u = banker]
  <2>1. Fine(t) /\ t.pc # "bet_coin"
    BY DEF IInv, RoomOK, SeatOK, Fine, Record, Idle, PCs, ForUser
  <2>2. task[k].pc # "bet_coin" /\ (task' = task \/ Goto(k, t))
    BY DEF TickFlow, Due, CanStart, At
  <2> HIDE DEF t
  <2> QED BY <2>1, <2>2, QuietTo
<1>2. RoomOK' /\ BankerIsPlayer'
  BY DEF IInv, TickFlow, Advance, seat, bets, gone, RoomOK, ClockOK, SeatOK, BetsOK, PacketsOK,
         GoneOK, LineOK, BankerIsPlayer, Steps
<1> QED BY <1>1, <1>2, Frame DEF TickFlow, bets

-----------------------------------------------------------------------------
(* Members.                                                                *)

(* cmd.open_red_packet. *)
LEMMA OpenRedPacketStep ==
    ASSUME IInv, NEW u \in User, OpenRedPacket(u)
    PROVE  IInv'
<1>1. PacketsOK'
  <2>1. packets # None /\ packets \in [DOMAIN packets -> Packet] /\ DOMAIN packets \subseteq User
    BY Zenon DEF IInv, RoomOK, PacketsOK, OpenRedPacket
  <2>2. packets' = [packets EXCEPT ![u].open = TRUE]
    BY DEF OpenRedPacket
  <2>3. DOMAIN packets' = DOMAIN packets
    BY <2>1, <2>2
  <2>4. packets' \in [DOMAIN packets -> Packet]
    BY <2>1, <2>2 DEF Packet
  <2> QED BY <2>1, <2>3, <2>4 DEF PacketsOK
<1>2. ClockOK' /\ SeatOK' /\ BetsOK' /\ GoneOK' /\ LineOK' /\ BankerIsPlayer'
  BY DEF IInv, OpenRedPacket, clock, seat, gone, RoomOK, ClockOK, SeatOK, BetsOK, GoneOK, LineOK,
         BankerIsPlayer
<1> QED BY <1>1, <1>2, Frame DEF RoomOK, OpenRedPacket

(* A connection is lost or comes back. *)
LEMMA ConnectionStep ==
    ASSUME IInv, NEW u \in User, Disconnect(u) \/ Login(u)
    PROVE  IInv'
<1>1. RoomOK' /\ BankerIsPlayer'
  BY DEF IInv, Disconnect, Login, clock, seat, bets, RoomOK, ClockOK, SeatOK, BetsOK, PacketsOK,
         GoneOK, LineOK, BankerIsPlayer
<1> QED BY <1>1, Frame DEF Disconnect, Login, bets

-----------------------------------------------------------------------------
(* Bets.                                                                   *)

(* logic.beter up to the account call, by the coroutine that heads the     *)
(* line: no other coroutine is between its check and its record.           *)
LEMMA BeterStep ==
    ASSUME IInv, NEW k \in Coroutine, NEW u \in User, NEW b \in BetMenu, NEW held, NEW rest,
           Beter(k, u, b, held, rest), task[k].pc # "bet_coin",
           \A j \in Coroutine : task[j].pc # "bet_coin",
           held \in Seq(Coroutine), held # << >>, Head(held) = k, rest \in Seq(Coroutine),
           UNCHANGED <<clock, seat, packets, gone>>
    PROVE  IInv'
<1> DEFINE all == IF bet_data = None THEN [v \in User |-> << >>] ELSE bet_data
           clash == \E i \in DOMAIN all[u] : \/ all[u][i].type # b.type
                                             \/ b.type # 4
                                             \/ all[u][i].sub_type = b.sub_type
           t == [Idle EXCEPT !.pc = "bet_coin", !.u = u, !.bet = b,
                             !.coin = bankerSurplusCoin - b.reduce,
                             !.batch = Freeze(u, b.game_coin)]
<1>1. all \in [User -> Seq(BetMenu)]
  BY DEF IInv, RoomOK, BetsOK
<1>2. /\ bet_data' = all
      /\ \/ Done(k) /\ line' = rest
         \/ ~clash /\ Goto(k, t) /\ line' = held
  BY DEF Beter
<1>3. Fine(t) /\ t.pc = "bet_coin" /\ t.u = u /\ t.bet = b
  BY DEF Fine, Record, Idle, PCs, ForUser
<1>4. ~clash => NoClash(all[u], b)
  BY DEF NoClash
<1>5. \A v \in User : \A i, j \in DOMAIN all[v] :
        i # j => /\ all[v][i].type = 4 /\ all[v][j].type = 4
                 /\ all[v][i].sub_type # all[v][j].sub_type
  BY DEF IInv, OneBetPerUser
<1> HIDE DEF all, clash, t
<1>6. RoomOK' /\ BankerIsPlayer'
  BY <1>1, <1>2 DEF IInv, clock, seat, gone, RoomOK, ClockOK, SeatOK, BetsOK, PacketsOK, GoneOK,
         LineOK, BankerIsPlayer
<1>7. OneBetPerUser'
  BY <1>2, <1>5 DEF OneBetPerUser
<1>8. CASE Done(k) /\ line' = rest
  <2>1. /\ TaskOK' /\ task'[k] = Idle
        /\ \A j \in Coroutine : j # k => task'[j] = task[j]
    BY <1>8, GotoFacts, IdleFine DEF IInv, Done
  <2>2. \A j \in Coroutine : task'[j].pc # "bet_coin"
    BY <2>1 DEF Idle
  <2> QED BY <1>6, <1>7, <2>1, <2>2 DEF IInv, Serialised, Admissible, At
<1>9. CASE ~clash /\ Goto(k, t) /\ line' = held
  <2>1. /\ TaskOK' /\ task'[k] = t
        /\ \A j \in Coroutine : j # k => task'[j] = task[j]
    BY <1>3, <1>9, GotoFacts DEF IInv
  <2>2. \A j \in Coroutine : task'[j].pc = "bet_coin" => j = k
    BY <2>1
  <2>3. Serialised'
    BY <1>9, <2>2 DEF Serialised, At
  <2>4. Admissible'
    BY <1>2, <1>3, <1>4, <1>9, <2>1, <2>2 DEF Admissible, At
  <2> QED BY <1>6, <1>7, <2>1, <2>3, <2>4 DEF IInv
<1> QED BY <1>2, <1>8, <1>9

(* cmd.betting: the bet is taken at once, or waits in line. *)
LEMMA BettingStep ==
    ASSUME IInv, NEW k \in Coroutine, NEW u \in User, NEW b \in BetMenu, Betting(k, u, b)
    PROVE  IInv'
<1>1. task[k].pc = "idle" /\ UNCHANGED <<clock, seat, packets, gone>>
  BY DEF Betting, CanStart, At
<1>2. CASE line = << >>
  <2>1. Beter(k, u, b, <<k>>, << >>)
    BY <1>2 DEF Betting
  <2>2. \A j \in Coroutine : task[j].pc # "bet_coin"
    BY <1>2 DEF IInv, Serialised, At
  <2>3. <<k>> \in Seq(Coroutine) /\ <<k>> # << >> /\ Head(<<k>>) = k /\ << >> \in Seq(Coroutine)
    OBVIOUS
  <2> QED BY <1>1, <2>1, <2>2, <2>3, BeterStep
<1>3. CASE line # << >>
  <2> DEFINE t == [Idle EXCEPT !.pc = "bet_wait", !.u = u, !.bet = b]
  <2>1. Fine(t) /\ t.pc # "bet_coin"
    BY DEF Fine, Record, Idle, PCs, ForUser
  <2>2. line' = Append(line, k) /\ Goto(k, t) /\ bet_data' = bet_data
    BY <1>3 DEF Betting
  <2> HIDE DEF t
  <2>3. /\ TaskOK' /\ task'[k] = t
        /\ \A j \in Coroutine : j # k => task'[j] = task[j]
    BY <2>1, <2>2, GotoFacts DEF IInv
  <2>4. line \in Seq(Coroutine)
    BY DEF IInv, RoomOK, LineOK
  <2>5. line' \in Seq(Coroutine) /\ line' # << >> /\ Head(line') = Head(line)
    BY <1>3, <2>2, <2>4
  <2>6. \A j \in Coroutine : task'[j].pc = "bet_coin" => task'[j] = task[j]
    BY <2>1, <2>3
  <2>7. Serialised'
    BY <2>5, <2>6 DEF IInv, Serialised, At
  <2>8. Admissible' /\ OneBetPerUser'
    BY <2>2, <2>6 DEF IInv, Admissible, OneBetPerUser, At
  <2>9. RoomOK' /\ BankerIsPlayer'
    BY <1>1, <2>2, <2>5 DEF IInv, clock, seat, gone, RoomOK, ClockOK, SeatOK, BetsOK, PacketsOK,
         GoneOK, LineOK, BankerIsPlayer
  <2> QED BY <2>3, <2>7, <2>8, <2>9 DEF IInv
<1> QED BY <1>2, <1>3

(* The head of a sequence of coroutines is one of them, and what follows   *)
(* it is a sequence again.                                                 *)
LEMMA LineParts ==
    ASSUME NEW q \in Seq(Coroutine), q # << >>
    PROVE  Head(q) \in Coroutine /\ Tail(q) \in Seq(Coroutine)
OBVIOUS

(* The section was handed over to a waiting bet. *)
LEMMA BetResumedStep ==
    ASSUME IInv, NEW k \in Coroutine, BetResumed(k)
    PROVE  IInv'
<1>1. /\ task[k].pc = "bet_wait" /\ line # << >> /\ Head(line) = k
      /\ Beter(k, task[k].u, task[k].bet, line, Tail(line))
      /\ UNCHANGED <<clock, seat, packets, gone>>
  BY DEF BetResumed, At
<1>2. task[k].u \in User /\ task[k].bet \in BetMenu
  BY <1>1 DEF IInv, TaskOK, Fine, ForUser
<1>3. \A j \in Coroutine : task[j].pc # "bet_coin"
  BY <1>1 DEF IInv, Serialised, At
<1>4. line \in Seq(Coroutine) /\ Tail(line) \in Seq(Coroutine)
  BY <1>1, LineParts DEF IInv, RoomOK, LineOK
<1> QED BY <1>1, <1>2, <1>3, <1>4, BeterStep

(* A bet that clashes with none of a member's bets is added to them. *)
LEMMA AppendNoClash ==
    ASSUME NEW q \in Seq(BetMenu), NEW b \in BetMenu, NoClash(q, b),
           \A i, j \in DOMAIN q : i # j => /\ q[i].type = 4 /\ q[j].type = 4
                                           /\ q[i].sub_type # q[j].sub_type
    PROVE  \A i, j \in DOMAIN Append(q, b) :
             i # j => /\ Append(q, b)[i].type = 4 /\ Append(q, b)[j].type = 4
                      /\ Append(q, b)[i].sub_type # Append(q, b)[j].sub_type
<1>1. DOMAIN Append(q, b) = 1..(Len(q) + 1) /\ DOMAIN q = 1..Len(q)
  OBVIOUS
<1>2. \A i \in 1..Len(q) : Append(q, b)[i] = q[i]
  OBVIOUS
<1>3. Append(q, b)[Len(q) + 1] = b
  OBVIOUS
<1>4. Len(q) \in Nat /\ \A i \in 1..(Len(q) + 1) : i \in 1..Len(q) \/ i = Len(q) + 1
  OBVIOUS
<1> HIDE DEF NoClash
<1>5. \A i \in 1..Len(q) : q[i].type = 4 /\ b.type = 4 /\ q[i].sub_type # b.sub_type
  BY <1>1 DEF NoClash
<1> QED BY <1>1, <1>2, <1>3, <1>4, <1>5

(* The bet is recorded, or the handler raises; the section is left. *)
LEMMA BetCoinFrozenStep ==
    ASSUME IInv, NEW k \in Coroutine, BetCoinFrozen(k)
    PROVE  IInv'
<1>1. /\ task[k].pc = "bet_coin" /\ Done(k) /\ line' = Tail(line)
      /\ UNCHANGED <<clock, banker, packets, gone>>
      /\ \/ bet_data' = bet_data /\ players' = players
         \/ /\ bet_data # None
            /\ bet_data' = [bet_data EXCEPT ![task[k].u] = Append(@, task[k].bet)]
            /\ players' = (IF players = None THEN {} ELSE players) \cup {task[k].u}
  BY DEF BetCoinFrozen, RecordBet, At
<1>2. task[k].u \in User /\ task[k].bet \in BetMenu
  BY <1>1 DEF IInv, TaskOK, Fine, ForUser
<1>3. line \in Seq(Coroutine) /\ line # << >> /\ Head(line) = k /\ Tail(line) \in Seq(Coroutine)
  BY <1>1, LineParts DEF IInv, Serialised, At, RoomOK, LineOK
<1>4. /\ TaskOK' /\ task'[k] = Idle
      /\ \A j \in Coroutine : j # k => task'[j] = task[j]
  BY <1>1, GotoFacts, IdleFine DEF IInv, Done
<1>5. \A j \in Coroutine : task'[j].pc # "bet_coin"
  <2>1. \A j \in Coroutine : task[j].pc = "bet_coin" => j = k
    BY <1>3 DEF IInv, Serialised, At
  <2> QED BY <1>4, <2>1 DEF Idle
<1>6. Serialised' /\ Admissible'
  BY <1>5 DEF Serialised, Admissible, At
<1>7. BetsOK' /\ OneBetPerUser'
  <2>1. CASE bet_data' = bet_data
    BY <2>1 DEF IInv, RoomOK, BetsOK, OneBetPerUser
  <2>2. CASE /\ bet_data # None
             /\ bet_data' = [bet_data EXCEPT ![task[k].u] = Append(@, task[k].bet)]
    <3> DEFINE w == task[k].u
               q == bet_data[w]
               b == task[k].bet
    <3>1. bet_data \in [User -> Seq(BetMenu)] /\ q \in Seq(BetMenu)
      BY <1>2, <2>2 DEF IInv, RoomOK, BetsOK
    <3>2. NoClash(q, b)
      BY <1>1, <2>2 DEF IInv, Admissible, At
    <3>3. \A v \in User : \A i, j \in DOMAIN bet_data[v] :
            i # j => /\ bet_data[v][i].type = 4 /\ bet_data[v][j].type = 4
                     /\ bet_data[v][i].sub_type # bet_data[v][j].sub_type
      BY <2>2 DEF IInv, OneBetPerUser
    <3>4. \A i, j \in DOMAIN Append(q, b) :
            i # j => /\ Append(q, b)[i].type = 4 /\ Append(q, b)[j].type = 4
                     /\ Append(q, b)[i].sub_type # Append(q, b)[j].sub_type
      BY <1>2, <3>1, <3>2, <3>3, AppendNoClash
    <3>5. /\ bet_data' \in [User -> Seq(BetMenu)]
          /\ bet_data'[w] = Append(q, b)
          /\ \A v \in User : v # w => bet_data'[v] = bet_data[v]
      BY <1>2, <2>2, <3>1
    <3> HIDE DEF w, q, b
    <3>6. ASSUME NEW v \in User
          PROVE  \A i, j \in DOMAIN bet_data'[v] :
            i # j => /\ bet_data'[v][i].type = 4 /\ bet_data'[v][j].type = 4
                     /\ bet_data'[v][i].sub_type # bet_data'[v][j].sub_type
      <4>1. CASE v = w
        BY <3>4, <3>5, <4>1
      <4>2. CASE v # w
        BY <3>3, <3>5, <4>2
      <4> QED BY <4>1, <4>2
    <3> QED BY <3>5, <3>6 DEF BetsOK, OneBetPerUser
  <2> QED BY <1>1, <2>1, <2>2
<1>8. SeatOK' /\ BankerIsPlayer'
  BY <1>1, <1>2, RoomAssumption DEF IInv, RoomOK, SeatOK, BankerIsPlayer
<1>9. ClockOK' /\ PacketsOK' /\ GoneOK' /\ LineOK'
  BY <1>1, <1>3 DEF IInv, clock, gone, RoomOK, ClockOK, PacketsOK, GoneOK, LineOK
<1> QED BY <1>4, <1>6, <1>7, <1>8, <1>9 DEF IInv, RoomOK

-----------------------------------------------------------------------------
(* The invariant.                                                          *)

(* The room starts empty. *)
LEMMA InitIInv == Init => IInv
<1> SUFFICES ASSUME Init PROVE IInv
  OBVIOUS
<1>1. TaskOK
  BY IdleFine DEF Init, TaskOK
<1>2. RoomOK /\ BankerIsPlayer
  BY DEF Init, RoomOK, ClockOK, SeatOK, BetsOK, PacketsOK, GoneOK, LineOK, BankerIsPlayer, Steps
<1>3. Serialised /\ Admissible
  BY DEF Init, Serialised, Admissible, At, Idle
<1>4. OneBetPerUser
  BY DEF Init, OneBetPerUser
<1> QED BY <1>1, <1>2, <1>3, <1>4 DEF IInv

(* Every message of a member keeps the invariant. *)
LEMMA CommandStep == IInv /\ Command => IInv'
<1> SUFFICES ASSUME IInv, Command PROVE IInv'
  OBVIOUS
<1>1. PICK u \in User :
        \/ \E k \in Coroutine, c \in Coins : RobBanker(k, u, c) \/ BiaoBanker(k, u, c)
        \/ \E k \in Coroutine : DownBanker(k, u)
        \/ \E k \in Coroutine, b \in BetMenu : Betting(k, u, b)
        \/ OpenRedPacket(u)
        \/ Disconnect(u)
        \/ Login(u)
  BY DEF Command
<1>2. CASE \E k \in Coroutine, c \in Coins : RobBanker(k, u, c) \/ BiaoBanker(k, u, c)
  BY <1>2, RobBankerStep, BiaoBankerStep
<1>3. CASE \E k \in Coroutine : DownBanker(k, u)
  BY <1>3, DownBankerStep
<1>4. CASE \E k \in Coroutine, b \in BetMenu : Betting(k, u, b)
  BY <1>4, BettingStep
<1>5. CASE OpenRedPacket(u) \/ Disconnect(u) \/ Login(u)
  BY <1>5, OpenRedPacketStep, ConnectionStep
<1> QED BY <1>1, <1>2, <1>3, <1>4, <1>5

(* Every answer to a suspended coroutine keeps the invariant. *)
LEMMA ResumeStep == ASSUME IInv, NEW k \in Coroutine, Resume(k) PROVE IInv'
BY RobGoldFrozenStep, RobCoinFrozenStep, RobStartsGameStep, StartGoldFrozenStep,
   BiaoCoinFrozenStep, BiaoDoneStep, DownReturnedStep, DownClearedStep, BetResumedStep,
   BetCoinFrozenStep, SendAssignedStep, SendDoneStep, ResultLoggedStep, ResultGoldUsedStep,
   ResultBookedStep, ResultStoredStep, ResultDoneStep, FlowGoldReturnedStep, FlowRefundStep,
   FlowRefundedStep, FlowDoneStep
   DEF Resume

(* Every tick keeps the invariant. *)
LEMMA TickStep == ASSUME IInv, NEW k \in Coroutine, Tick(k) PROVE IInv'
BY TickWaitsStep, TickBiaoStep, TickBiaoEndStep, TickBetStep, TickBetEndStep, TickSendStep,
   TickQiangStep, TickWaitResultStep, TickResultStep, TickFlowStep
   DEF Tick

(* IInv is inductive. *)
LEMMA Inductive == IInv /\ [Next]_vars => IInv'
<1>1. ASSUME IInv, UNCHANGED vars PROVE IInv'
  <2>1. RoomOK' /\ BankerIsPlayer' /\ bet_data' = bet_data /\ line' = line
    BY <1>1, RoomKept DEF vars
  <2> QED BY <1>1, <2>1, Frame DEF vars
<1>2. ASSUME IInv, Next PROVE IInv'
  BY <1>2, CommandStep, ResumeStep, TickStep DEF Next
<1> QED BY <1>1, <1>2

LEMMA Invariance == Spec => []IInv
BY InitIInv, Inductive, PTL DEF Spec

(* Whoever sits in the banker's seat is one of the players, so that game_over *)
(* (step.lua:17) never raises: in every room, for every interleaving of robs, *)
(* bids, bets, ticks and account answers.                                     *)
THEOREM BankerAlwaysPlayer == Spec => []BankerIsPlayer
<1>1. IInv => BankerIsPlayer
  BY DEF IInv
<1> QED BY <1>1, Invariance, PTL

(* A member never holds two bets that exclude each other, although his bets  *)
(* are checked before an account call and recorded after it: the section of  *)
(* cmd.betting is enough, for any number of members and suspended bets.      *)
THEOREM BetsNeverClash == Spec => []OneBetPerUser
<1>1. IInv => OneBetPerUser
  BY DEF IInv
<1> QED BY <1>1, Invariance, PTL

-----------------------------------------------------------------------------
(* The coins of a room.                                                    *)

(* Places of a suspended coroutine: a bet; a rob or a bid; and what a tick  *)
(* starts or down_banker, of which the settlement and the refund are part.  *)
BetPC    == {"bet_wait", "bet_coin"}
SoloPC   == {"rob_gold", "rob_coin", "rob_db", "biao_new", "biao_back", "biao_more"}
SettlePC == {"result_log", "result_gold", "result_acct", "result_db"}
AfterPC  == SettlePC \cup {"result_more", "flow_gold", "flow_db", "flow_acct", "flow_mode"}
MixPC    == AfterPC \cup {"start_gold", "down_acct", "down_db", "send_db", "send_log"}
AcctPC   == {"rob_coin", "biao_new", "biao_back", "biao_more", "down_acct", "bet_coin",
             "result_acct", "flow_acct"}

(* Bets overlap bets and ticks only; and they do overlap ticks. *)
BetOverlapOnly == Overlap \subseteq {{"bet"}, {"bet", "tick"}}
Mixed == {"bet", "tick"} \in Overlap

(* A coroutine waiting at p may be suspended while another waits at q. *)
Meets(p, q) ==
    \/ p = "idle" \/ q = "idle"
    \/ p \in BetPC /\ q \in BetPC
    \/ Mixed /\ p \in BetPC /\ q \in MixPC
    \/ Mixed /\ p \in MixPC /\ q \in BetPC

Alone == \A j, k \in Coroutine : j # k => Meets(task[j].pc, task[k].pc)

(* The step s and the banker b at which a coroutine waits as t does. *)
Placed(t, s, b) ==
    /\ t.pc \in {"rob_gold", "rob_coin"} => b = None
    /\ t.pc \in {"rob_db", "start_gold"} => b # None /\ s \in {"none", "result"}
    /\ t.pc \in {"down_acct", "down_db"} => s \in {"none", "result"}
    /\ t.pc \in {"biao_new", "biao_back", "biao_more"} => s = "biao"
    /\ t.pc \in {"send_db", "send_log"} => s = "send"
    /\ t.pc \in AfterPC => s = "result"
    /\ t.pc \in BetPC => t.u # b

Seated  == banker = None => game_step \in {"none", "result"}
NotSelf == InPlay => banker \notin Bettors

OInv == /\ Alone /\ Seated /\ NotSelf
        /\ \A k \in Coroutine : Placed(task[k], game_step, banker)

(* Batches of transfers that create and destroy no coin. *)
Batch == [bal : [User -> Int], frozen : [User -> Int], owner : Int]
Net(b) == SumFunction([u \in User |-> b.bal[u] + b.frozen[u]]) + b.owner
Balanced(b) == b # None => b \in Batch /\ Net(b) = 0

Held(t) == /\ t.coin \in Int /\ Balanced(t.batch)
           /\ t.pc = "bet_coin" => t.batch = Freeze(t.u, t.bet.game_coin)

AcctOK == acct \in [bal : [User -> Int], frozen : [User -> Int], owner : Int,
                    gold : Int, goldFrozen : Int]

(* Nobody has less than nothing in the game. *)
NoDebt == \A u \in User : acct.frozen[u] >= 0

HInv == /\ AcctOK /\ NoDebt /\ bankerGameCoin \in Int /\ bankerSurplusCoin \in Int
        /\ CoinsConserved
        /\ \A k \in Coroutine : Held(task[k])

BInv == BetsBacked /\ BettorsArePlayers

(* What the recorded bets may cost the banker. *)
Risk == SumFunction([u \in Bettors |-> Exposure(u)])

(* What a bet on its way has been promised: with the banker b, whose coins  *)
(* are g and whose surplus is s; p: the bets of the round are being taken.  *)
Pledge(t, b, g, s, p) ==
    /\ t.coin \in Nat
    /\ t.pc = "bet_coin" => (b # None => t.coin <= g) /\ (p => t.coin + t.bet.reduce = s)

Taken == InPlay /\ bet_data # None

(* No bet is under way any more when its round is settled, nor then while   *)
(* the settlement is.                                                       *)
Timely == "wait_result" \in Through
Closed == \A j, k \in Coroutine : task[j].pc \in SettlePC => task[k].pc \notin BetPC

LInv == /\ bankerGameCoin \in Nat /\ bankerSurplusCoin \in Nat
        /\ banker # None => bankerSurplusCoin <= bankerGameCoin
        /\ InPlay => Risk + bankerSurplusCoin <= bankerGameCoin
        /\ \A k \in Coroutine :
             Pledge(task[k], banker, bankerGameCoin, bankerSurplusCoin, Taken)

-----------------------------------------------------------------------------
(* Steps, sorted by what they do to the seat, the bets and the coins.      *)

(* Those suspended with k: nobody, bets alone, and whoever k may join at p. *)
OthersIdle(k) == \A j \in Coroutine : j # k => task[j].pc = "idle"
OthersBet(k)  == \A j \in Coroutine : j # k => \/ task[j].pc = "idle"
                                               \/ Mixed /\ task[j].pc \in BetPC
Company(k, p) == \A j \in Coroutine : j # k => Meets(task[j].pc, p)

Moved(k, t) ==
    /\ task'[k] = t /\ Company(k, t.pc)
    /\ \A j \in Coroutine : j # k => task'[j] = task[j]

AcctKept == /\ AcctOK' /\ acct'.bal = acct.bal /\ acct'.frozen = acct.frozen
            /\ acct'.owner = acct.owner
AcctBooked(k) == /\ task[k].pc \in AcctPC
                 /\ Covered(task[k].batch) /\ acct' = Booked(task[k].batch)

SeatStill == banker' = banker /\ bankerGameCoin' = bankerGameCoin /\ bankerSurplusCoin' = bankerSurplusCoin
RoomStill == SeatStill /\ game_step' = game_step /\ players' = players /\ bet_data' = bet_data

(* Nothing that the coins depend on changes. *)
Resting == RoomStill /\ task' = task /\ acct' = acct

(* A coroutine goes from one call to the next, or ends. *)
SameLoad(k, t) == t.coin = task[k].coin /\ t.batch = task[k].batch
NoLoad(t) == t.coin = 0 /\ t.batch = NoBatch

Turn(k, t) ==
    \/ t = Idle
    \/ t.pc = "rob_gold" /\ t.coin \in Nat /\ t.batch = NoBatch /\ banker = None
    \/ /\ task[k].pc = "rob_gold" /\ t.pc = "rob_coin" /\ t.u \in User
       /\ t.coin = task[k].coin /\ t.batch = Freeze(t.u, t.coin)
    \/ task[k].pc = "rob_db" /\ t.pc = "start_gold" /\ NoLoad(t)
    \/ /\ game_step \in {"none", "result"} /\ t.pc = "down_acct"
       /\ t.u \in User \cup {None} /\ t.coin = 0 /\ t.batch = Return(t.u, bankerGameCoin)
    \/ /\ game_step = "biao" /\ t.pc \in {"biao_new", "biao_more"} /\ t.u \in User
       /\ t.coin \in Nat /\ t.batch \in {Freeze(t.u, t.coin), Freeze(t.u, t.coin - bankerGameCoin)}
    \/ /\ task[k].pc = "biao_new" /\ t.pc = "biao_back"
       /\ t.coin = task[k].coin /\ t.batch = Return(banker, bankerGameCoin)
    \/ game_step = "bet" /\ t.pc = "bet_wait" /\ t.u # banker /\ NoLoad(t)
    \/ game_step = "send" /\ t.pc = "send_db" /\ t.coin \in Nat /\ t.batch = NoBatch
    \/ /\ SameLoad(k, t)
       /\ \/ task[k].pc = "down_acct" /\ t.pc = "down_db"
          \/ task[k].pc = "send_db" /\ t.pc = "send_log"
          \/ task[k].pc = "result_log" /\ t.pc = "result_gold"
          \/ task[k].pc = "result_gold" /\ t.pc = "result_acct"
          \/ task[k].pc = "result_acct" /\ t.pc = "result_db"
          \/ task[k].pc = "flow_gold" /\ t.pc = "flow_db"
          \/ task[k].pc = "flow_acct" /\ t.pc = "flow_mode"

Turning(k, t) == RoomStill /\ Moved(k, t) /\ Turn(k, t) /\ (AcctKept \/ AcctBooked(k))

(* A robber or a bidder takes the seat. *)
Seating(k, t) ==
    /\ task[k].pc \in {"rob_coin", "biao_back", "biao_more"} /\ OthersIdle(k)
    /\ banker' = task[k].u /\ task[k].u \in User
    /\ bankerGameCoin' = task[k].coin /\ bankerSurplusCoin' = task[k].coin
    /\ game_step' = game_step /\ bet_data' = bet_data
    /\ \/ t = Idle
       \/ task[k].pc = "rob_coin" /\ t.pc = "rob_db" /\ SameLoad(k, t)
    /\ Moved(k, t) /\ AcctBooked(k)

(* The seat is cleared. *)
Clearing(k) ==
    /\ task[k].pc = "down_db" /\ OthersBet(k)
    /\ banker' = None /\ bankerGameCoin' = 0 /\ bankerSurplusCoin' = 0
    /\ game_step' \in {game_step, "none"} /\ bet_data' = bet_data
    /\ Moved(k, Idle) /\ AcctKept

(* The round goes to another step and the bets stay. *)
Stepping(k, t) ==
    /\ SeatStill /\ players' = players /\ bet_data' = bet_data /\ OthersBet(k)
    /\ banker = None => game_step' \in {"none", "result"}
    /\ game_step' # "bet" /\ (InPlay' => InPlay)
    /\ \/ t = Idle
       \/ t = task[k] /\ t.pc = "idle"
       \/ t.pc = "flow_gold" /\ NoLoad(t) /\ game_step' = "result"
    /\ Moved(k, t) /\ (AcctKept \/ (task[k].pc = "down_acct" /\ AcctBooked(k)))

(* The betting starts. *)
Opening(k, t) ==
    /\ SeatStill /\ players' = players /\ bet_data' = None /\ OthersBet(k)
    /\ banker # None /\ game_step' = "bet"
    /\ t = Idle \/ (t = task[k] /\ t.pc = "idle")
    /\ Moved(k, t) /\ AcctKept

(* The round is over. *)
Ending(k, t) ==
    /\ SeatStill /\ bet_data' = None /\ OthersBet(k)
    /\ game_step' \in {"none", "result"} /\ (game_step' = "none" => banker = None)
    /\ \/ t = task[k] /\ t.pc = "idle"
       \/ t.pc = "start_gold" /\ banker # None /\ NoLoad(t)
       \/ t.pc = "down_acct" /\ t.u \in User /\ t.coin = 0 /\ t.batch = Return(t.u, bankerGameCoin)
    /\ Moved(k, t) /\ AcctKept

(* A bet is checked inside the section. *)
Taking(k, t) ==
    /\ SeatStill /\ game_step' = game_step /\ players' = players
    /\ bet_data' = IF bet_data = None THEN [v \in User |-> << >>] ELSE bet_data
    /\ \A j \in Coroutine : task[j].pc # "bet_coin"
    /\ \/ t = Idle
       \/ /\ t.pc = "bet_coin" /\ t.u \in User \ {banker} /\ t.bet \in BetMenu
          /\ t.coin = bankerSurplusCoin - t.bet.reduce /\ ~(t.coin < 0)
          /\ t.batch = Freeze(t.u, t.bet.game_coin)
          /\ game_step = "bet" \/ task[k].pc = "bet_wait"
    /\ Moved(k, t) /\ AcctKept

(* A bet is recorded. *)
Recording(k) ==
    /\ task[k].pc = "bet_coin" /\ bet_data # None
    /\ bet_data' = [bet_data EXCEPT ![task[k].u] = Append(@, task[k].bet)]
    /\ bankerSurplusCoin' = task[k].coin
    /\ players' = (IF players = None THEN {} ELSE players) \cup {task[k].u}
    /\ game_step' = game_step /\ banker' = banker /\ bankerGameCoin' = bankerGameCoin
    /\ Moved(k, Idle) /\ AcctBooked(k)

(* The round is settled. *)
Settling(k, t, o) ==
    /\ game_step = "wait_result" /\ game_step' = "result" /\ OthersBet(k)
    /\ "wait_result" \in Through => BetsThrough
    /\ ResultDefined /\ bankerGameCoin' = CoinAfter(o)
    /\ banker' = banker /\ bankerSurplusCoin' = bankerSurplusCoin
    /\ players' = players /\ bet_data' = bet_data
    /\ t.pc = "result_log" /\ t.coin = CoinAfter(o) - SeatFee(o) /\ t.batch = SettleBatch(o)
    /\ Moved(k, t) /\ AcctKept

(* What the settlement leaves the banker is his stake in the next round. *)
Storing(k, t) ==
    /\ task[k].pc = "result_db" /\ t.pc = "result_more" /\ SameLoad(k, t)
    /\ bankerGameCoin' = task[k].coin /\ bankerSurplusCoin' = task[k].coin
    /\ banker' = banker /\ game_step' = game_step /\ players' = players /\ bet_data' = bet_data
    /\ Moved(k, t) /\ AcctKept

(* The bets of a void round are refunded. *)
Refunding(k, t) ==
    /\ task[k].pc = "flow_db" /\ bankerSurplusCoin' \in {bankerSurplusCoin, bankerGameCoin}
    /\ banker' = banker /\ bankerGameCoin' = bankerGameCoin
    /\ game_step' = game_step /\ players' = players /\ bet_data' = bet_data
    /\ \/ t = Idle
       \/ /\ t.pc = "flow_acct" /\ t.coin = task[k].coin
          /\ t.batch = [bal |-> [u \in User |-> Staked(u)],
                        frozen |-> [u \in User |-> -Staked(u)], owner |-> 0]
    /\ Moved(k, t) /\ AcctKept

Sorted(k, t) ==
    \/ Turning(k, t) \/ Seating(k, t) \/ Clearing(k) \/ Stepping(k, t) \/ Opening(k, t)
    \/ Ending(k, t) \/ Taking(k, t) \/ Recording(k)
    \/ (\E o \in [Bettors -> Outcome] : Settling(k, t, o)) \/ Storing(k, t) \/ Refunding(k, t)

-----------------------------------------------------------------------------
(* Who is suspended with whom.                                             *)

(* A rob, a bid and a command to leave the seat start alone. *)
LEMMA StartSolo ==
    ASSUME BetOverlapOnly, NEW k \in Coroutine, NEW kind \in {"rob", "biao", "down"},
           CanStart(k, kind)
    PROVE  OthersIdle(k)
<1>1. \A x : {kind, x} \notin Overlap
  BY DEF BetOverlapOnly
<1> QED BY <1>1 DEF CanStart, OthersIdle, At

(* A tick finds only bets suspended. *)
LEMMA StartTick ==
    ASSUME BetOverlapOnly, IInv, NEW k \in Coroutine, CanStart(k, "tick")
    PROVE  OthersBet(k)
<1> SUFFICES ASSUME NEW j \in Coroutine, j # k, task[j].pc # "idle"
             PROVE  Mixed /\ task[j].pc \in BetPC
  BY DEF OthersBet
<1>1. {"tick", Kind(task[j].pc)} \in Overlap
  BY DEF CanStart, At
<1>2. Kind(task[j].pc) = "bet" /\ Mixed
  BY <1>1 DEF BetOverlapOnly, Mixed
<1>3. task[j].pc \in BetPC
  BY <1>2 DEF Kind, BetPC
<1> QED BY <1>2, <1>3

(* A bet finds bets and what a tick has started. *)
LEMMA StartBet ==
    ASSUME BetOverlapOnly, IInv, NEW k \in Coroutine, CanStart(k, "bet"), NEW p \in BetPC
    PROVE  Company(k, p)
<1> SUFFICES ASSUME NEW j \in Coroutine, j # k, task[j].pc # "idle"
             PROVE  Meets(task[j].pc, p)
  BY DEF Company, Meets
<1>1. {"bet", Kind(task[j].pc)} \in Overlap
  BY DEF CanStart, At
<1>2. Kind(task[j].pc) = "bet" \/ (Kind(task[j].pc) = "tick" /\ Mixed)
  BY <1>1 DEF BetOverlapOnly, Mixed
<1>3. task[j].pc \in PCs
  BY DEF IInv, TaskOK, Fine
<1>4. CASE Kind(task[j].pc) = "bet"
  BY <1>4 DEF Kind, BetPC, Meets
<1>5. CASE Kind(task[j].pc) = "tick" /\ Mixed
  <2>1. task[j].pc \in MixPC
    BY <1>3, <1>5 DEF Kind, MixPC, AfterPC, SettlePC, PCs
  <2> QED BY <1>5, <2>1 DEF Meets
<1> QED BY <1>2, <1>4, <1>5

(* A coroutine that goes on keeps the company it has. *)
LEMMA MoveOn ==
    ASSUME IInv, OInv, NEW k \in Coroutine, NEW t, Goto(k, t),
           \/ t.pc = "idle"
           \/ task[k].pc \in SoloPC
           \/ task[k].pc \in MixPC /\ t.pc \in MixPC
           \/ task[k].pc \in BetPC /\ t.pc \in BetPC
    PROVE  Moved(k, t)
<1>1. task' = [task EXCEPT ![k] = t] /\ task = [j \in Coroutine |-> task[j]]
  BY DEF Goto, IInv, TaskOK
<1>2. task'[k] = t /\ \A j \in Coroutine : j # k => task'[j] = task[j]
  BY <1>1
<1>3. Company(k, task[k].pc)
  BY DEF OInv, Alone, Company
<1>4. Company(k, t.pc)
  <2>1. CASE t.pc = "idle"
    BY <2>1 DEF Company, Meets
  <2>2. CASE task[k].pc \in SoloPC
    BY <2>2, <1>3 DEF Company, Meets, SoloPC, BetPC, MixPC, AfterPC, SettlePC
  <2>3. CASE task[k].pc \in MixPC /\ t.pc \in MixPC
    BY <2>3, <1>3 DEF Company, Meets, BetPC, MixPC, AfterPC, SettlePC
  <2>4. CASE task[k].pc \in BetPC /\ t.pc \in BetPC
    BY <2>4, <1>3 DEF Company, Meets, BetPC, MixPC, AfterPC, SettlePC
  <2> QED BY <2>1, <2>2, <2>3, <2>4
<1> QED BY <1>2, <1>4 DEF Moved

(* A coroutine that starts joins the others. *)
LEMMA MoveIn ==
    ASSUME IInv, NEW k \in Coroutine, NEW t, Goto(k, t),
           \/ OthersIdle(k)
           \/ OthersBet(k) /\ t.pc \in MixPC
           \/ Company(k, t.pc)
    PROVE  Moved(k, t)
<1>1. task' = [task EXCEPT ![k] = t] /\ task = [j \in Coroutine |-> task[j]]
  BY DEF Goto, IInv, TaskOK
<1>2. task'[k] = t /\ \A j \in Coroutine : j # k => task'[j] = task[j]
  BY <1>1
<1>3. Company(k, t.pc)
  BY DEF Company, Meets, OthersIdle, OthersBet
<1> QED BY <1>2, <1>3 DEF Moved

(* A tick that suspends nothing. *)
LEMMA MoveNone ==
    ASSUME NEW k \in Coroutine, task' = task, task[k].pc = "idle"
    PROVE  Moved(k, task[k])
BY DEF Moved, Company, Meets

(* Who is suspended while a coroutine waits for the answer to a call. *)
LEMMA WithSolo ==
    ASSUME OInv, NEW k \in Coroutine, task[k].pc \in SoloPC
    PROVE  OthersIdle(k) /\ OthersBet(k)
BY DEF OInv, Alone, Meets, SoloPC, BetPC, MixPC, AfterPC, SettlePC, OthersIdle, OthersBet

(* While a tick's work or down_banker waits, the others suspended are bets. *)
LEMMA WithMix ==
    ASSUME OInv, NEW k \in Coroutine, task[k].pc \in MixPC
    PROVE  OthersBet(k)
BY DEF OInv, Alone, Meets, BetPC, MixPC, AfterPC, SettlePC, OthersBet

(* Idle in detail. *)
LEMMA IdleFields == Idle.pc = "idle" /\ NoLoad(Idle) /\ Idle.u = None
BY DEF Idle, NoLoad

(* The account server's answers. *)
LEMMA AcctAnswer ==
    ASSUME AcctOK, NEW k \in Coroutine, task[k].pc \in AcctPC, NEW reply,
           OperAcct(task[k].batch, reply)
    PROVE  /\ AcctKept \/ AcctBooked(k)
           /\ reply = "ok" => AcctBooked(k)
<1>1. acct' = acct => AcctKept
  BY DEF AcctKept, AcctOK
<1>2. \/ Covered(task[k].batch) /\ acct' = Booked(task[k].batch)
      \/ reply # "ok" /\ acct' = acct
  BY DEF OperAcct
<1> QED BY <1>1, <1>2 DEF AcctBooked

(* A call about diamonds moves no coin. *)
LEMMA GoldAnswer ==
    ASSUME AcctOK, NEW d \in Int, NEW used \in Int, NEW reply, OperGold(d, used, reply)
    PROVE  AcctKept
<1>1. \/ acct' = acct
      \/ acct' = [acct EXCEPT !.gold = acct.gold - d, !.goldFrozen = acct.goldFrozen + d - used]
  BY DEF OperGold
<1>2. acct.gold - d \in Int /\ acct.goldFrozen + d - used \in Int
  BY DEF AcctOK
<1>3. ASSUME NEW x \in Int, NEW y \in Int, acct' = [acct EXCEPT !.gold = x, !.goldFrozen = y]
      PROVE  AcctKept
  <2>1. /\ acct'.bal = acct.bal /\ acct'.frozen = acct.frozen /\ acct'.owner = acct.owner
        /\ acct' \in [bal : [User -> Int], frozen : [User -> Int], owner : Int,
                      gold : Int, goldFrozen : Int]
    BY <1>3 DEF AcctOK
  <2> QED BY <2>1 DEF AcctKept, AcctOK
<1>4. acct' = acct => AcctKept
  BY DEF AcctKept, AcctOK
<1> QED BY <1>1, <1>2, <1>3, <1>4

(* An untouched account server. *)
LEMMA AcctSame == ASSUME AcctOK, acct' = acct PROVE AcctKept
BY DEF AcctKept, AcctOK

(* A call of down_banker. *)
LEMMA DownLoad ==
    ASSUME NEW k \in Coroutine, NEW u, NEW n, CallDown(k, u, n)
    PROVE  \E t : /\ Goto(k, t) /\ t.pc = "down_acct" /\ t.u = u /\ t.coin = 0
                  /\ t.batch = Return(u, bankerGameCoin)
<1> DEFINE t == [Idle EXCEPT !.pc = "down_acct", !.u = u, !.next = n,
                             !.batch = Return(u, bankerGameCoin)]
<1>1. /\ t.pc = "down_acct" /\ t.u = u /\ t.coin = 0
      /\ t.batch = Return(u, bankerGameCoin)
  BY DEF Idle
<1>2. Goto(k, t)
  BY DEF CallDown
<1> HIDE DEF t
<1> QED BY <1>1, <1>2

-----------------------------------------------------------------------------
(* The steps are sorted.                                                   *)

(* What the rest of this part takes for granted. *)
Base == BetOverlapOnly /\ IInv /\ OInv /\ AcctOK

(* rob_banker starts: a turn. *)
LEMMA SortRobBanker ==
    ASSUME Base, NEW k \in Coroutine, NEW u \in User, NEW c \in Coins, RobBanker(k, u, c)
    PROVE  \E t : Sorted(k, t)
<1> DEFINE t == [Idle EXCEPT !.pc = "rob_gold", !.u = u, !.coin = c]
<1>1. t.pc = "rob_gold" /\ t.coin = c /\ t.batch = NoBatch
  BY DEF Idle
<1>2. c \in Nat
  BY RoomAssumption
<1>3. Goto(k, t) /\ CanStart(k, "rob") /\ banker = None /\ UNCHANGED <<room, acct>>
  BY DEF RobBanker
<1> HIDE DEF t
<1>4. Moved(k, t)
  BY <1>3, StartSolo, MoveIn DEF Base
<1>5. Turn(k, t) /\ RoomStill
  BY <1>1, <1>2, <1>3 DEF Turn, RoomStill, SeatStill, room, clock, seat, bets
<1> QED BY <1>3, <1>4, <1>5, AcctSame DEF Base, Sorted, Turning

(* The robber's diamonds are frozen: a turn. *)
LEMMA SortRobGoldFrozen ==
    ASSUME Base, NEW k \in Coroutine, RobGoldFrozen(k)
    PROVE  \E t : Sorted(k, t)
<1> DEFINE t == [task[k] EXCEPT !.pc = "rob_coin", !.batch = Freeze(task[k].u, task[k].coin)]
<1>0. task[k].u \in User /\ Record(task[k]) /\ task[k].pc = "rob_gold"
  BY DEF Base, IInv, TaskOK, Fine, ForUser, RobGoldFrozen, At
<1>1. /\ t.pc = "rob_coin" /\ t.u = task[k].u /\ t.coin = task[k].coin
      /\ t.batch = Freeze(t.u, t.coin)
  BY <1>0 DEF Record
<1>2. /\ Goto(k, t) \/ Goto(k, Idle)
      /\ RoomStill /\ \E reply : OperGold(1, 0, reply)
  BY DEF RobGoldFrozen, Done, RoomStill, SeatStill, room, clock, seat, bets
<1> HIDE DEF t
<1>3. Moved(k, t) \/ Moved(k, Idle)
  BY <1>0, <1>2, MoveOn, IdleFields DEF Base, SoloPC
<1>4. Turn(k, t) /\ Turn(k, Idle)
  BY <1>0, <1>1 DEF Turn
<1>5. AcctKept
  BY <1>2, GoldAnswer DEF Base
<1> QED BY <1>2, <1>3, <1>4, <1>5 DEF Sorted, Turning

(* The robber's coins are frozen: he is seated, or the rob ends. *)
LEMMA SortRobCoinFrozen ==
    ASSUME Base, NEW k \in Coroutine, RobCoinFrozen(k)
    PROVE  \E t : Sorted(k, t)
<1> DEFINE t == [task[k] EXCEPT !.pc = "rob_db"]
<1>0. task[k].u \in User /\ Record(task[k]) /\ task[k].pc = "rob_coin"
  BY DEF Base, IInv, TaskOK, Fine, ForUser, RobCoinFrozen, At
<1>1. t.pc = "rob_db" /\ SameLoad(k, t)
  BY <1>0 DEF Record, SameLoad
<1>2. PICK reply \in {"ok", "error"} :
        /\ OperAcct(task[k].batch, reply)
        /\ IF reply = "ok"
              THEN /\ banker' = task[k].u
                   /\ bankerGameCoin' = task[k].coin
                   /\ bankerSurplusCoin' = task[k].coin
                   /\ Goto(k, t)
              ELSE Goto(k, Idle) /\ UNCHANGED seat
  BY DEF RobCoinFrozen, Done
<1>3. game_step' = game_step /\ bet_data' = bet_data
  BY DEF RobCoinFrozen, clock, bets
<1> HIDE DEF t
<1>4. AcctKept \/ AcctBooked(k)
  BY <1>0, <1>2, AcctAnswer DEF Base, AcctPC
<1>5. CASE reply = "ok"
  <2>1. Moved(k, t) /\ OthersIdle(k)
    BY <1>0, <1>2, <1>5, MoveOn, WithSolo DEF Base, SoloPC
  <2>2. AcctBooked(k)
    BY <1>0, <1>2, <1>5, AcctAnswer DEF Base, AcctPC
  <2>3. Seating(k, t)
    BY <1>0, <1>1, <1>2, <1>3, <1>5, <2>1, <2>2 DEF Seating
  <2> QED BY <2>3 DEF Sorted
<1>6. CASE reply # "ok"
  <2>1. Moved(k, Idle)
    BY <1>2, <1>6, MoveOn, IdleFields DEF Base
  <2>2. Turning(k, Idle)
    BY <1>2, <1>3, <1>4, <1>6, <2>1 DEF Turning, Turn, RoomStill, SeatStill, seat
  <2> QED BY <2>2 DEF Sorted
<1> QED BY <1>5, <1>6

(* game_start after a rob: a turn, or the step of the bids. *)
LEMMA SortRobStartsGame ==
    ASSUME Base, NEW k \in Coroutine, RobStartsGame(k)
    PROVE  \E t : Sorted(k, t)
<1> DEFINE t == [Idle EXCEPT !.pc = "start_gold"]
<1>0. task[k].pc = "rob_db" /\ acct' = acct /\ bet_data' = bet_data /\ SeatStill /\ players' = players
  BY DEF RobStartsGame, At, seat, bets, SeatStill
<1>1. t.pc = "start_gold" /\ NoLoad(t)
  BY DEF Idle, NoLoad
<1>2. \/ Goto(k, t) /\ game_step' = game_step
      \/ Goto(k, Idle) /\ game_step' = "biao"
  BY DEF RobStartsGame, Done, clock
<1> HIDE DEF t
<1>3. AcctKept /\ OthersBet(k) /\ banker # None
  BY <1>0, AcctSame, WithSolo DEF Base, SoloPC, OInv, Placed
<1>4. CASE Goto(k, t) /\ game_step' = game_step
  <2>1. Moved(k, t)
    BY <1>0, <1>4, MoveOn DEF Base, SoloPC
  <2>2. Turning(k, t)
    BY <1>0, <1>1, <1>3, <1>4, <2>1 DEF Turning, Turn, RoomStill
  <2> QED BY <2>2 DEF Sorted
<1>5. CASE Goto(k, Idle) /\ game_step' = "biao"
  <2>1. Moved(k, Idle)
    BY <1>5, MoveOn, IdleFields DEF Base
  <2>2. ~InPlay' /\ game_step' # "bet"
    BY <1>5 DEF InPlay
  <2>3. Stepping(k, Idle)
    BY <1>0, <1>3, <2>1, <2>2 DEF Stepping
  <2> QED BY <2>3 DEF Sorted
<1> QED BY <1>2, <1>4, <1>5

(* The round's diamonds are frozen: the betting opens, or the banker goes. *)
LEMMA SortStartGoldFrozen ==
    ASSUME Base, NEW k \in Coroutine, StartGoldFrozen(k)
    PROVE  \E t : Sorted(k, t)
<1>0. task[k].pc = "start_gold" /\ SeatStill /\ players' = players
  BY DEF StartGoldFrozen, At, seat, SeatStill
<1>1. PICK reply \in {"ok", "B002", "error"} :
        /\ OperGold(1, 0, reply)
        /\ IF reply = "ok"
              THEN /\ game_step' = "bet" /\ bet_data' = None /\ Goto(k, Idle)
              ELSE /\ CallDown(k, banker, "reset") \/ Goto(k, Idle)
                   /\ game_step' = game_step /\ bet_data' = bet_data
  BY DEF StartGoldFrozen, Done, clock
<1>2. AcctKept /\ OthersBet(k) /\ banker # None /\ game_step \in {"none", "result"}
  BY <1>0, <1>1, GoldAnswer, WithMix DEF Base, MixPC, AfterPC, OInv, Placed
<1>3. CASE reply = "ok"
  <2>1. Moved(k, Idle)
    BY <1>1, <1>3, MoveOn, IdleFields DEF Base
  <2>2. Opening(k, Idle)
    BY <1>0, <1>1, <1>2, <1>3, <2>1 DEF Opening
  <2> QED BY <2>2 DEF Sorted
<1>4. CASE reply # "ok" /\ Goto(k, Idle)
  <2>1. Moved(k, Idle)
    BY <1>4, MoveOn, IdleFields DEF Base
  <2>2. Turning(k, Idle)
    BY <1>0, <1>1, <1>2, <1>4, <2>1 DEF Turning, Turn, RoomStill
  <2> QED BY <2>2 DEF Sorted
<1>5. CASE reply # "ok" /\ CallDown(k, banker, "reset")
  <2>1. PICK t : /\ Goto(k, t) /\ t.pc = "down_acct" /\ t.u = banker /\ t.coin = 0
                 /\ t.batch = Return(banker, bankerGameCoin)
    BY <1>5, DownLoad
  <2>2. Moved(k, t)
    BY <1>0, <2>1, MoveOn DEF Base, MixPC
  <2>3. banker \in User \cup {None}
    BY DEF Base, IInv, RoomOK, SeatOK
  <2>4. Turning(k, t)
    BY <1>0, <1>1, <1>2, <1>5, <2>1, <2>2, <2>3 DEF Turning, Turn, RoomStill
  <2> QED BY <2>4 DEF Sorted
<1> QED BY <1>1, <1>3, <1>4, <1>5

(* biao_banker starts: a turn. *)
LEMMA SortBiaoBanker ==
    ASSUME Base, NEW k \in Coroutine, NEW u \in User, NEW c \in Coins, BiaoBanker(k, u, c)
    PROVE  \E t : Sorted(k, t)
<1> DEFINE s == [Idle EXCEPT !.pc = "biao_more", !.u = u, !.coin = c,
                             !.batch = Freeze(u, c - bankerGameCoin)]
           t == [Idle EXCEPT !.pc = "biao_new", !.u = u, !.coin = c, !.batch = Freeze(u, c)]
<1>1. /\ s.pc = "biao_more" /\ s.u = u /\ s.coin = c /\ s.batch = Freeze(u, c - bankerGameCoin)
      /\ t.pc = "biao_new" /\ t.u = u /\ t.coin = c /\ t.batch = Freeze(u, c)
  BY DEF Idle
<1>2. c \in Nat
  BY RoomAssumption
<1>3. /\ Goto(k, s) \/ Goto(k, t)
      /\ CanStart(k, "biao") /\ game_step = "biao" /\ acct' = acct /\ RoomStill
  BY DEF BiaoBanker, RoomStill, SeatStill, room, clock, seat, bets
<1> HIDE DEF s, t
<1>4. Moved(k, s) \/ Moved(k, t)
  BY <1>3, StartSolo, MoveIn DEF Base
<1>5. Turn(k, s) /\ Turn(k, t)
  BY <1>1, <1>2, <1>3 DEF Turn
<1> QED BY <1>3, <1>4, <1>5, AcctSame DEF Base, Sorted, Turning

(* The bidder's coins are frozen: a turn. *)
LEMMA SortBiaoCoinFrozen ==
    ASSUME Base, NEW k \in Coroutine, BiaoCoinFrozen(k)
    PROVE  \E t : Sorted(k, t)
<1> DEFINE t == [task[k] EXCEPT !.pc = "biao_back", !.batch = Return(banker, bankerGameCoin)]
<1>0. Record(task[k]) /\ task[k].pc = "biao_new"
  BY DEF Base, IInv, TaskOK, Fine, BiaoCoinFrozen, At
<1>1. /\ t.pc = "biao_back" /\ t.coin = task[k].coin
      /\ t.batch = Return(banker, bankerGameCoin)
  BY <1>0 DEF Record
<1>2. /\ Goto(k, t) \/ Goto(k, Idle)
      /\ RoomStill /\ \E reply : OperAcct(task[k].batch, reply)
  BY DEF BiaoCoinFrozen, Done, RoomStill, SeatStill, room, clock, seat, bets
<1> HIDE DEF t
<1>3. Moved(k, t) \/ Moved(k, Idle)
  BY <1>0, <1>2, MoveOn, IdleFields DEF Base, SoloPC
<1>4. Turn(k, t) /\ Turn(k, Idle)
  BY <1>0, <1>1 DEF Turn
<1>5. AcctKept \/ AcctBooked(k)
  BY <1>0, <1>2, AcctAnswer DEF Base, AcctPC
<1> QED BY <1>2, <1>3, <1>4, <1>5 DEF Sorted, Turning

(* The bid is through: the bidder is seated, or the bid ends. *)
LEMMA SortBiaoDone ==
    ASSUME Base, NEW k \in Coroutine, BiaoDone(k)
    PROVE  \E t : Sorted(k, t)
<1>0. task[k].u \in User /\ task[k].pc \in {"biao_back", "biao_more"}
  BY DEF Base, IInv, TaskOK, Fine, ForUser, BiaoDone
<1>1. PICK reply \in {"ok", "error"} :
        /\ OperAcct(task[k].batch, reply)
        /\ IF reply = "ok"
              THEN /\ banker' = task[k].u
                   /\ bankerGameCoin' = task[k].coin
                   /\ bankerSurplusCoin' = task[k].coin
              ELSE UNCHANGED seat
  BY DEF BiaoDone
<1>2. game_step' = game_step /\ bet_data' = bet_data /\ Goto(k, Idle)
  BY DEF BiaoDone, clock, bets, Done
<1>3. AcctKept \/ AcctBooked(k)
  BY <1>0, <1>1, AcctAnswer DEF Base, AcctPC
<1>4. Moved(k, Idle) /\ OthersIdle(k)
  BY <1>0, <1>2, MoveOn, IdleFields, WithSolo DEF Base, SoloPC
<1>5. CASE reply = "ok"
  <2>1. AcctBooked(k)
    BY <1>0, <1>1, <1>5, AcctAnswer DEF Base, AcctPC
  <2>2. Seating(k, Idle)
    BY <1>0, <1>1, <1>2, <1>4, <1>5, <2>1 DEF Seating
  <2> QED BY <2>2 DEF Sorted
<1>6. CASE reply # "ok"
  <2>1. Turning(k, Idle)
    BY <1>1, <1>2, <1>3, <1>4, <1>6 DEF Turning, Turn, RoomStill, SeatStill, seat
  <2> QED BY <2>1 DEF Sorted
<1> QED BY <1>5, <1>6

(* down_banker starts: a turn. *)
LEMMA SortDownBanker ==
    ASSUME Base, NEW k \in Coroutine, NEW u \in User, DownBanker(k, u)
    PROVE  \E t : Sorted(k, t)
<1>1. /\ CanStart(k, "down") /\ CallDown(k, u, "end") /\ game_step \in {"none", "result"}
      /\ acct' = acct /\ RoomStill
  BY DEF DownBanker, RoomStill, SeatStill, room, clock, seat, bets
<1>2. PICK t : /\ Goto(k, t) /\ t.pc = "down_acct" /\ t.u = u /\ t.coin = 0
               /\ t.batch = Return(u, bankerGameCoin)
  BY <1>1, DownLoad
<1>3. Moved(k, t)
  BY <1>1, <1>2, StartSolo, MoveIn DEF Base
<1>4. Turn(k, t)
  BY <1>1, <1>2 DEF Turn
<1> QED BY <1>1, <1>3, <1>4, AcctSame DEF Base, Sorted, Turning

(* The banker's coins are back: a turn, or the room is reset. *)
LEMMA SortDownReturned ==
    ASSUME Base, NEW k \in Coroutine, DownReturned(k)
    PROVE  \E t : Sorted(k, t)
<1> DEFINE t == [task[k] EXCEPT !.pc = "down_db"]
<1>0. Record(task[k]) /\ task[k].pc = "down_acct"
  BY DEF Base, IInv, TaskOK, Fine, DownReturned, At
<1>1. t.pc = "down_db" /\ SameLoad(k, t)
  BY <1>0 DEF Record, SameLoad
<1>2. /\ \/ Goto(k, t) /\ game_step' = game_step
         \/ Goto(k, Idle) /\ game_step' \in {game_step, "none"}
      /\ \E reply : OperAcct(task[k].batch, reply)
      /\ SeatStill /\ players' = players /\ bet_data' = bet_data
  BY DEF DownReturned, Done, SeatStill, clock, seat, bets
<1> HIDE DEF t
<1>3. OthersBet(k) /\ (AcctKept \/ AcctBooked(k))
  BY <1>0, <1>2, WithMix, AcctAnswer DEF Base, AcctPC, MixPC
<1>4. CASE Goto(k, t) /\ game_step' = game_step
  <2>1. Moved(k, t)
    BY <1>0, <1>1, <1>4, MoveOn DEF Base, MixPC
  <2>2. Turning(k, t)
    BY <1>0, <1>1, <1>2, <1>3, <1>4, <2>1 DEF Turning, Turn, RoomStill
  <2> QED BY <2>2 DEF Sorted
<1>5. CASE Goto(k, Idle) /\ game_step' = game_step
  <2>1. Moved(k, Idle)
    BY <1>5, MoveOn, IdleFields DEF Base
  <2>2. Turning(k, Idle)
    BY <1>2, <1>3, <1>5, <2>1 DEF Turning, Turn, RoomStill
  <2> QED BY <2>2 DEF Sorted
<1>6. CASE Goto(k, Idle) /\ game_step' = "none"
  <2>1. Moved(k, Idle)
    BY <1>6, MoveOn, IdleFields DEF Base
  <2>2. ~InPlay' /\ game_step' # "bet" /\ game_step' \in {"none", "result"}
    BY <1>6 DEF InPlay
  <2>3. Stepping(k, Idle)
    BY <1>0, <1>2, <1>3, <2>1, <2>2 DEF Stepping
  <2> QED BY <2>3 DEF Sorted
<1> QED BY <1>2, <1>4, <1>5, <1>6

(* The seat is cleared. *)
LEMMA SortDownCleared ==
    ASSUME Base, NEW k \in Coroutine, DownCleared(k)
    PROVE  Sorted(k, Idle)
<1>1. /\ task[k].pc = "down_db" /\ Goto(k, Idle) /\ acct' = acct
      /\ banker' = None /\ bankerGameCoin' = 0 /\ bankerSurplusCoin' = 0
      /\ game_step' \in {game_step, "none"} /\ bet_data' = bet_data
  BY DEF DownCleared, Done, At, bets
<1>2. OthersBet(k) /\ Moved(k, Idle) /\ AcctKept
  BY <1>1, WithMix, MoveOn, IdleFields, AcctSame DEF Base, MixPC
<1>3. Clearing(k)
  BY <1>1, <1>2 DEF Clearing
<1> QED BY <1>3 DEF Sorted

-----------------------------------------------------------------------------
(* Bets.                                                                   *)

(* A bet inside the section is taken. *)
LEMMA SortBeter ==
    ASSUME Base, NEW k \in Coroutine, NEW u \in User, u # banker, NEW b \in BetMenu,
           NEW held, NEW rest, Beter(k, u, b, held, rest), Company(k, "bet_coin"),
           \A j \in Coroutine : task[j].pc # "bet_coin",
           game_step = "bet" \/ task[k].pc = "bet_wait",
           UNCHANGED <<clock, seat, packets, gone, acct>>
    PROVE  \E t : Sorted(k, t)
<1> DEFINE t == [Idle EXCEPT !.pc = "bet_coin", !.u = u, !.bet = b,
                             !.coin = bankerSurplusCoin - b.reduce,
                             !.batch = Freeze(u, b.game_coin)]
<1>1. /\ t.pc = "bet_coin" /\ t.u = u /\ t.bet = b /\ t.coin = bankerSurplusCoin - b.reduce
      /\ t.batch = Freeze(u, b.game_coin)
  BY DEF Idle
<1>2. /\ bet_data' = IF bet_data = None THEN [v \in User |-> << >>] ELSE bet_data
      /\ \/ Goto(k, Idle)
         \/ ~(bankerSurplusCoin - b.reduce < 0) /\ Goto(k, t)
  BY DEF Beter, Done
<1>3. SeatStill /\ game_step' = game_step /\ players' = players /\ AcctKept
  BY AcctSame DEF Base, SeatStill, clock, seat
<1> HIDE DEF t
<1>4. CASE Goto(k, Idle)
  <2>1. Moved(k, Idle)
    BY <1>4, MoveOn, IdleFields DEF Base
  <2>2. Taking(k, Idle)
    BY <1>2, <1>3, <2>1 DEF Taking
  <2> QED BY <2>2 DEF Sorted
<1>5. CASE ~(bankerSurplusCoin - b.reduce < 0) /\ Goto(k, t)
  <2>1. Moved(k, t)
    BY <1>1, <1>5, MoveIn DEF Base
  <2>2. t.coin = bankerSurplusCoin - t.bet.reduce /\ ~(t.coin < 0)
    BY <1>1, <1>5
  <2>3. Taking(k, t)
    BY <1>1, <1>2, <1>3, <2>1, <2>2 DEF Taking
  <2> QED BY <2>3 DEF Sorted
<1> QED BY <1>2, <1>4, <1>5

(* A bet is taken at once, or waits in the section. *)
LEMMA SortBetting ==
    ASSUME Base, NEW k \in Coroutine, NEW u \in User, NEW b \in BetMenu, Betting(k, u, b)
    PROVE  \E t : Sorted(k, t)
<1>1. /\ CanStart(k, "bet") /\ u # banker /\ game_step = "bet"
      /\ UNCHANGED <<clock, seat, packets, gone, acct>>
  BY DEF Betting
<1>2. Company(k, "bet_coin") /\ Company(k, "bet_wait")
  BY <1>1, StartBet DEF Base, BetPC
<1>3. CASE line = << >>
  <2>1. Beter(k, u, b, <<k>>, << >>)
    BY <1>3 DEF Betting
  <2>2. \A j \in Coroutine : task[j].pc # "bet_coin"
    BY <1>3 DEF Base, IInv, Serialised, At
  <2> QED BY <1>1, <1>2, <2>1, <2>2, SortBeter
<1>4. CASE line # << >>
  <2> DEFINE t == [Idle EXCEPT !.pc = "bet_wait", !.u = u, !.bet = b]
  <2>1. t.pc = "bet_wait" /\ t.u = u /\ NoLoad(t)
    BY DEF Idle, NoLoad
  <2>2. Goto(k, t) /\ bet_data' = bet_data
    BY <1>4 DEF Betting
  <2> HIDE DEF t
  <2>3. Moved(k, t)
    BY <1>2, <2>1, <2>2, MoveIn DEF Base
  <2>4. Turn(k, t)
    BY <1>1, <2>1 DEF Turn
  <2>5. RoomStill /\ AcctKept
    BY <1>1, <2>2, AcctSame DEF Base, RoomStill, SeatStill, clock, seat
  <2> QED BY <2>3, <2>4, <2>5 DEF Sorted, Turning
<1> QED BY <1>3, <1>4

(* A waiting bet is taken. *)
LEMMA SortBetResumed ==
    ASSUME Base, NEW k \in Coroutine, BetResumed(k)
    PROVE  \E t : Sorted(k, t)
<1>1. /\ task[k].pc = "bet_wait" /\ line # << >> /\ Head(line) = k
      /\ Beter(k, task[k].u, task[k].bet, line, Tail(line))
      /\ UNCHANGED <<clock, seat, packets, gone, acct>>
  BY DEF BetResumed, At
<1>2. task[k].u \in User /\ task[k].bet \in BetMenu
  BY <1>1 DEF Base, IInv, TaskOK, Fine, ForUser
<1>3. \A j \in Coroutine : task[j].pc # "bet_coin"
  BY <1>1 DEF Base, IInv, Serialised, At
<1>4. task[k].u # banker
  BY <1>1 DEF Base, OInv, Placed, BetPC
<1>5. Company(k, "bet_coin")
  BY <1>1 DEF Base, OInv, Alone, Company, Meets, BetPC, MixPC, AfterPC, SettlePC
<1> QED BY <1>1, <1>2, <1>3, <1>4, <1>5, SortBeter

(* A bet is recorded, or ends. *)
LEMMA SortBetCoinFrozen ==
    ASSUME Base, NEW k \in Coroutine, BetCoinFrozen(k)
    PROVE  \E t : Sorted(k, t)
<1>1. /\ task[k].pc = "bet_coin" /\ Goto(k, Idle)
      /\ UNCHANGED <<clock, banker, bankerGameCoin, packets, gone>>
  BY DEF BetCoinFrozen, RecordBet, At, Done
<1>2. PICK reply \in {"ok", "error"} :
         /\ OperAcct(task[k].batch, reply)
         /\ IF reply = "ok" /\ bet_data # None
              THEN /\ bet_data' = [bet_data EXCEPT ![task[k].u] = Append(@, task[k].bet)]
                   /\ bankerSurplusCoin' = task[k].coin
                   /\ players' = (IF players = None THEN {} ELSE players) \cup {task[k].u}
              ELSE UNCHANGED <<bet_data, bankerSurplusCoin, players>>
  BY DEF BetCoinFrozen, RecordBet
<1>3. Moved(k, Idle)
  BY <1>1, MoveOn, IdleFields DEF Base
<1>4. /\ AcctKept \/ AcctBooked(k)
      /\ reply = "ok" => AcctBooked(k)
  BY <1>1, <1>2, AcctAnswer DEF Base, AcctPC
<1>5. CASE reply = "ok" /\ bet_data # None
  <2>1. Recording(k)
    BY <1>1, <1>2, <1>3, <1>4, <1>5 DEF Recording, clock
  <2> QED BY <2>1 DEF Sorted
<1>6. CASE ~(reply = "ok" /\ bet_data # None)
  <2>1. RoomStill
    BY <1>1, <1>2, <1>6 DEF RoomStill, SeatStill, clock
  <2>2. Turning(k, Idle)
    BY <1>3, <1>4, <2>1 DEF Turning, Turn
  <2> QED BY <2>2 DEF Sorted
<1> QED BY <1>5, <1>6

-----------------------------------------------------------------------------
(* Settlement and void rounds.                                             *)

(* The settlement goes on: a turn. *)
LEMMA SortResultLogged ==
    ASSUME Base, NEW k \in Coroutine, ResultLogged(k)
    PROVE  \E t : Sorted(k, t)
<1> DEFINE t == [task[k] EXCEPT !.pc = "result_gold", !.u = banker]
<1>0. Record(task[k]) /\ task[k].pc = "result_log"
  BY DEF Base, IInv, TaskOK, Fine, ResultLogged, At
<1>1. t.pc = "result_gold" /\ SameLoad(k, t)
  BY <1>0 DEF Record, SameLoad
<1>2. (Goto(k, t) \/ Goto(k, Idle)) /\ RoomStill /\ AcctKept
  BY AcctSame DEF Base, ResultLogged, Done, RoomStill, SeatStill, room, clock, seat, bets
<1> HIDE DEF t
<1>3. Moved(k, t) \/ Moved(k, Idle)
  BY <1>0, <1>1, <1>2, MoveOn, IdleFields DEF Base, MixPC, AfterPC, SettlePC
<1>4. Turn(k, t) /\ Turn(k, Idle)
  BY <1>0, <1>1 DEF Turn
<1> QED BY <1>2, <1>3, <1>4 DEF Sorted, Turning

(* The round's diamonds are used: a turn. *)
LEMMA SortResultGoldUsed ==
    ASSUME Base, NEW k \in Coroutine, ResultGoldUsed(k)
    PROVE  \E t : Sorted(k, t)
<1> DEFINE t == [task[k] EXCEPT !.pc = "result_acct"]
<1>0. Record(task[k]) /\ task[k].pc = "result_gold"
  BY DEF Base, IInv, TaskOK, Fine, ResultGoldUsed, At
<1>1. t.pc = "result_acct" /\ SameLoad(k, t)
  BY <1>0 DEF Record, SameLoad
<1>2. /\ Goto(k, t) \/ Goto(k, Idle)
      /\ RoomStill /\ \E reply : OperGold(0, 1, reply)
  BY DEF ResultGoldUsed, Done, RoomStill, SeatStill, room, clock, seat, bets
<1> HIDE DEF t
<1>3. Moved(k, t) \/ Moved(k, Idle)
  BY <1>0, <1>1, <1>2, MoveOn, IdleFields DEF Base, MixPC, AfterPC, SettlePC
<1>4. Turn(k, t) /\ Turn(k, Idle)
  BY <1>0, <1>1 DEF Turn
<1>5. AcctKept
  BY <1>2, GoldAnswer DEF Base
<1> QED BY <1>2, <1>3, <1>4, <1>5 DEF Sorted, Turning

(* The settlement is booked: a turn. *)
LEMMA SortResultBooked ==
    ASSUME Base, NEW k \in Coroutine, ResultBooked(k)
    PROVE  \E t : Sorted(k, t)
<1> DEFINE t == [task[k] EXCEPT !.pc = "result_db"]
<1>0. Record(task[k]) /\ task[k].pc = "result_acct"
  BY DEF Base, IInv, TaskOK, Fine, ResultBooked, At
<1>1. t.pc = "result_db" /\ SameLoad(k, t)
  BY <1>0 DEF Record, SameLoad
<1>2. /\ Goto(k, t) \/ Goto(k, Idle)
      /\ RoomStill /\ \E reply : OperAcct(task[k].batch, reply)
  BY DEF ResultBooked, Done, RoomStill, SeatStill, room, clock, seat, bets
<1> HIDE DEF t
<1>3. Moved(k, t) \/ Moved(k, Idle)
  BY <1>0, <1>1, <1>2, MoveOn, IdleFields DEF Base, MixPC, AfterPC, SettlePC
<1>4. Turn(k, t) /\ Turn(k, Idle)
  BY <1>0, <1>1 DEF Turn
<1>5. AcctKept \/ AcctBooked(k)
  BY <1>0, <1>2, AcctAnswer DEF Base, AcctPC
<1> QED BY <1>2, <1>3, <1>4, <1>5 DEF Sorted, Turning

(* The settlement is stored. *)
LEMMA SortResultStored ==
    ASSUME Base, NEW k \in Coroutine, ResultStored(k)
    PROVE  \E t : Sorted(k, t)
<1> DEFINE t == [task[k] EXCEPT !.pc = "result_more"]
<1>0. Record(task[k]) /\ task[k].pc = "result_db"
  BY DEF Base, IInv, TaskOK, Fine, ResultStored, At
<1>1. t.pc = "result_more" /\ SameLoad(k, t)
  BY <1>0 DEF Record, SameLoad
<1>2. /\ Goto(k, t) /\ AcctKept
      /\ bankerGameCoin' = task[k].coin /\ bankerSurplusCoin' = task[k].coin
      /\ banker' = banker /\ game_step' = game_step /\ players' = players /\ bet_data' = bet_data
  BY AcctSame DEF Base, ResultStored, clock, bets
<1> HIDE DEF t
<1>3. Moved(k, t)
  BY <1>0, <1>1, <1>2, MoveOn DEF Base, MixPC, AfterPC, SettlePC
<1> QED BY <1>0, <1>1, <1>2, <1>3 DEF Sorted, Storing

(* down_banker called after a settlement or a refund: a turn. *)
LEMMA SortDown ==
    ASSUME Base, NEW k \in Coroutine, task[k].pc \in {"result_more", "flow_mode"},
           Goto(k, Idle) \/ CallDown(k, task[k].u, "end"), RoomStill, acct' = acct
    PROVE  \E t : Sorted(k, t)
<1>1. AcctKept /\ game_step = "result" /\ task[k].u \in User \cup {None}
  BY AcctSame DEF Base, OInv, Placed, AfterPC, IInv, TaskOK, Fine
<1>2. CASE Goto(k, Idle)
  <2>1. Moved(k, Idle)
    BY <1>2, MoveOn, IdleFields DEF Base
  <2> QED BY <1>1, <2>1 DEF Sorted, Turning, Turn
<1>3. CASE CallDown(k, task[k].u, "end")
  <2>1. PICK t : /\ Goto(k, t) /\ t.pc = "down_acct" /\ t.u = task[k].u /\ t.coin = 0
                 /\ t.batch = Return(task[k].u, bankerGameCoin)
    BY <1>3, DownLoad
  <2>2. Moved(k, t)
    BY <2>1, MoveOn DEF Base, MixPC, AfterPC
  <2>3. Turn(k, t)
    BY <1>1, <2>1 DEF Turn
  <2> QED BY <1>1, <2>2, <2>3 DEF Sorted, Turning
<1> QED BY <1>2, <1>3

(* The settlement ends: a turn. *)
LEMMA SortResultDone ==
    ASSUME Base, NEW k \in Coroutine, ResultDone(k)
    PROVE  \E t : Sorted(k, t)
<1>1. /\ task[k].pc = "result_more" /\ RoomStill /\ acct' = acct
      /\ Goto(k, Idle) \/ CallDown(k, task[k].u, "end")
  BY DEF ResultDone, At, Done, RoomStill, SeatStill, room, clock, seat, bets
<1> QED BY <1>1, SortDown

(* The refund ends: a turn. *)
LEMMA SortFlowDone ==
    ASSUME Base, NEW k \in Coroutine, FlowDone(k)
    PROVE  \E t : Sorted(k, t)
<1>1. /\ task[k].pc = "flow_mode" /\ RoomStill /\ acct' = acct
      /\ Goto(k, Idle) \/ CallDown(k, task[k].u, "end")
  BY DEF FlowDone, At, Done, RoomStill, SeatStill, room, clock, seat, bets
<1> QED BY <1>1, SortDown

(* The diamonds of a void round come back: a turn. *)
LEMMA SortFlowGoldReturned ==
    ASSUME Base, NEW k \in Coroutine, FlowGoldReturned(k)
    PROVE  \E t : Sorted(k, t)
<1> DEFINE t == [task[k] EXCEPT !.pc = "flow_db"]
<1>0. Record(task[k]) /\ task[k].pc = "flow_gold"
  BY DEF Base, IInv, TaskOK, Fine, FlowGoldReturned, At
<1>1. t.pc = "flow_db" /\ SameLoad(k, t)
  BY <1>0 DEF Record, SameLoad
<1>2. /\ Goto(k, t) \/ Goto(k, Idle)
      /\ RoomStill /\ \E reply : OperGold(-1, 0, reply)
  BY DEF FlowGoldReturned, Done, RoomStill, SeatStill, room, clock, seat, bets
<1> HIDE DEF t
<1>3. Moved(k, t) \/ Moved(k, Idle)
  BY <1>0, <1>1, <1>2, MoveOn, IdleFields DEF Base, MixPC, AfterPC
<1>4. Turn(k, t) /\ Turn(k, Idle)
  BY <1>0, <1>1 DEF Turn
<1>5. AcctKept
  BY <1>2, GoldAnswer DEF Base
<1> QED BY <1>2, <1>3, <1>4, <1>5 DEF Sorted, Turning

(* The refund of a void round. *)
LEMMA SortFlowRefund ==
    ASSUME Base, NEW k \in Coroutine, FlowRefund(k)
    PROVE  \E t : Sorted(k, t)
<1> DEFINE back == [bal |-> [u \in User |-> Staked(u)],
                    frozen |-> [u \in User |-> -Staked(u)], owner |-> 0]
           t == [task[k] EXCEPT !.pc = "flow_acct", !.batch = back]
<1>0. Record(task[k]) /\ task[k].pc = "flow_db"
  BY DEF Base, IInv, TaskOK, Fine, FlowRefund, At
<1>1. t.pc = "flow_acct" /\ t.coin = task[k].coin /\ t.batch = back
  BY <1>0 DEF Record
<1>2. /\ Goto(k, t) \/ Goto(k, Idle)
      /\ AcctKept /\ bankerSurplusCoin' \in {bankerSurplusCoin, bankerGameCoin}
      /\ banker' = banker /\ bankerGameCoin' = bankerGameCoin
      /\ game_step' = game_step /\ players' = players /\ bet_data' = bet_data
  BY AcctSame DEF Base, FlowRefund, Done, clock, bets
<1> HIDE DEF t
<1>3. Moved(k, t) \/ Moved(k, Idle)
  BY <1>0, <1>1, <1>2, MoveOn, IdleFields DEF Base, MixPC, AfterPC
<1>4. Refunding(k, t) \/ Refunding(k, Idle)
  BY <1>0, <1>1, <1>2, <1>3 DEF Refunding
<1> QED BY <1>4 DEF Sorted

(* The refund is booked: a turn. *)
LEMMA SortFlowRefunded ==
    ASSUME Base, NEW k \in Coroutine, FlowRefunded(k)
    PROVE  \E t : Sorted(k, t)
<1> DEFINE t == [task[k] EXCEPT !.pc = "flow_mode"]
<1>0. Record(task[k]) /\ task[k].pc = "flow_acct"
  BY DEF Base, IInv, TaskOK, Fine, FlowRefunded, At
<1>1. t.pc = "flow_mode" /\ SameLoad(k, t)
  BY <1>0 DEF Record, SameLoad
<1>2. /\ Goto(k, t) \/ Goto(k, Idle)
      /\ RoomStill /\ \E reply : OperAcct(task[k].batch, reply)
  BY DEF FlowRefunded, Done, RoomStill, SeatStill, room, clock, seat, bets
<1> HIDE DEF t
<1>3. Moved(k, t) \/ Moved(k, Idle)
  BY <1>0, <1>1, <1>2, MoveOn, IdleFields DEF Base, MixPC, AfterPC
<1>4. Turn(k, t) /\ Turn(k, Idle)
  BY <1>0, <1>1 DEF Turn
<1>5. AcctKept \/ AcctBooked(k)
  BY <1>0, <1>2, AcctAnswer DEF Base, AcctPC
<1> QED BY <1>2, <1>3, <1>4, <1>5 DEF Sorted, Turning

-----------------------------------------------------------------------------
(* Ticks.                                                                  *)

(* The bettors are finitely many members. *)
LEMMA BettorsFinite ==
    Bettors \subseteq User /\ IsFiniteSet(Bettors) /\ Cardinality(Bettors) \in Nat
<1>1. Bettors \subseteq User
  BY DEF Bettors
<1> QED BY <1>1, RoomAssumption, FS_Subset, FS_CardinalityType

(* send_packet starts: a turn. *)
LEMMA SortTickSend ==
    ASSUME Base, NEW k \in Coroutine, TickSend(k)
    PROVE  \E t : Sorted(k, t)
<1> DEFINE t == [Idle EXCEPT !.pc = "send_db", !.coin = Cardinality(Bettors) + 1]
<1>1. t.pc = "send_db" /\ t.coin \in Nat /\ t.batch = NoBatch
  BY BettorsFinite DEF Idle
<1>2. CanStart(k, "tick") /\ game_step = "send" /\ Goto(k, t) /\ RoomStill /\ AcctKept
  BY AcctSame DEF Base, TickSend, Due, RoomStill, SeatStill, seat, bets
<1> HIDE DEF t
<1>3. Moved(k, t)
  BY <1>1, <1>2, StartTick, MoveIn DEF Base, MixPC
<1>4. Turn(k, t)
  BY <1>1, <1>2 DEF Turn
<1> QED BY <1>2, <1>3, <1>4 DEF Sorted, Turning

(* The packets are dealt: a turn. *)
LEMMA SortSendAssigned ==
    ASSUME Base, NEW k \in Coroutine, SendAssigned(k)
    PROVE  \E t : Sorted(k, t)
<1> DEFINE t == [task[k] EXCEPT !.pc = "send_log"]
<1>0. Record(task[k]) /\ task[k].pc = "send_db"
  BY DEF Base, IInv, TaskOK, Fine, SendAssigned, At
<1>1. t.pc = "send_log" /\ SameLoad(k, t)
  BY <1>0 DEF Record, SameLoad
<1>2. (Goto(k, t) \/ Goto(k, Idle)) /\ RoomStill /\ AcctKept
  BY AcctSame DEF Base, SendAssigned, Done, RoomStill, SeatStill, clock, seat
<1> HIDE DEF t
<1>3. Moved(k, t) \/ Moved(k, Idle)
  BY <1>0, <1>1, <1>2, MoveOn, IdleFields DEF Base, MixPC
<1>4. Turn(k, t) /\ Turn(k, Idle)
  BY <1>0, <1>1 DEF Turn
<1> QED BY <1>2, <1>3, <1>4 DEF Sorted, Turning

(* The packets are sent: the next step. *)
LEMMA SortSendDone ==
    ASSUME Base, NEW k \in Coroutine, SendDone(k)
    PROVE  \E t : Sorted(k, t)
<1>1. /\ task[k].pc = "send_log" /\ Goto(k, Idle) /\ acct' = acct /\ game_step' = "qiang"
      /\ SeatStill /\ players' = players /\ bet_data' = bet_data
  BY DEF SendDone, At, Advance, Done, SeatStill, seat, bets
<1>2. AcctKept /\ OthersBet(k) /\ Moved(k, Idle)
  BY <1>1, AcctSame, WithMix, MoveOn, IdleFields DEF Base, MixPC
<1>3. game_step = "send" /\ banker # None
  BY <1>1 DEF Base, OInv, Placed, Seated
<1>4. InPlay /\ game_step' # "bet"
  BY <1>1, <1>3 DEF InPlay
<1>5. Stepping(k, Idle)
  BY <1>1, <1>2, <1>3, <1>4 DEF Stepping
<1> QED BY <1>5 DEF Sorted

(* A tick that takes the round to the next step and suspends nothing. *)
LEMMA SortAdvance ==
    ASSUME Base, NEW k \in Coroutine, CanStart(k, "tick"), task' = task, acct' = acct,
           SeatStill, players' = players, bet_data' = bet_data,
           \/ game_step = "biao" /\ game_step' = "biao_end"
           \/ game_step = "bet" /\ game_step' = "bet_end"
           \/ game_step = "bet_end" /\ game_step' \in {"flow", "send"}
           \/ game_step = "qiang" /\ game_step' = "wait_result"
           \/ game_step \in {"wait_result", "flow"} /\ game_step' = "result"
    PROVE  \E t : Sorted(k, t)
<1>1. AcctKept /\ OthersBet(k) /\ task[k].pc = "idle"
  BY AcctSame, StartTick DEF Base, CanStart, At
<1>2. Moved(k, task[k])
  BY <1>1, MoveNone
<1>3. banker = None => game_step' \in {"none", "result"}
  BY DEF Base, OInv, Seated
<1>4. game_step' # "bet" /\ (InPlay' => InPlay)
  BY DEF InPlay
<1>5. Stepping(k, task[k])
  BY <1>1, <1>2, <1>3, <1>4 DEF Stepping
<1> QED BY <1>5 DEF Sorted

(* The steps that only let time pass. *)
LEMMA SortTickBiao ==
    ASSUME Base, NEW k \in Coroutine, TickBiao(k) \/ TickBet(k) \/ TickBetEnd(k)
    PROVE  \E t : Sorted(k, t)
BY SortAdvance DEF TickBiao, TickBet, TickBetEnd, Due, Advance, SeatStill, seat, bets

(* The packets are opened: the next step, or nothing. *)
LEMMA SortTickQiang ==
    ASSUME Base, NEW k \in Coroutine, TickQiang(k)
    PROVE  Resting \/ \E t : Sorted(k, t)
<1>1. /\ CanStart(k, "tick") /\ game_step = "qiang" /\ game_step' \in {"qiang", "wait_result"}
      /\ task' = task /\ acct' = acct /\ SeatStill /\ players' = players /\ bet_data' = bet_data
  BY DEF TickQiang, Due, Advance, SeatStill, seat
<1> QED BY <1>1, SortAdvance DEF Resting, RoomStill

(* The bids are over: the betting opens. *)
LEMMA SortTickBiaoEnd ==
    ASSUME Base, NEW k \in Coroutine, TickBiaoEnd(k)
    PROVE  \E t : Sorted(k, t)
<1>1. /\ CanStart(k, "tick") /\ game_step = "biao_end" /\ game_step' = "bet"
      /\ task' = task /\ acct' = acct /\ SeatStill /\ players' = players /\ bet_data' = None
  BY DEF TickBiaoEnd, Due, Advance, SeatStill, seat
<1>2. AcctKept /\ OthersBet(k) /\ task[k].pc = "idle" /\ banker # None
  BY <1>1, AcctSame, StartTick DEF Base, CanStart, At, OInv, Seated
<1>3. Moved(k, task[k])
  BY <1>1, <1>2, MoveNone
<1>4. Opening(k, task[k])
  BY <1>1, <1>2, <1>3 DEF Opening
<1> QED BY <1>4 DEF Sorted

(* goto_result: the settlement, or the step alone. *)
LEMMA SortTickWaitResult ==
    ASSUME Base, NEW k \in Coroutine, TickWaitResult(k)
    PROVE  \E t : Sorted(k, t)
<1>1. /\ CanStart(k, "tick") /\ game_step = "wait_result" /\ game_step' = "result"
      /\ acct' = acct /\ banker' = banker /\ bankerSurplusCoin' = bankerSurplusCoin
      /\ players' = players /\ bet_data' = bet_data
  BY DEF TickWaitResult, Due, Advance, bets
<1>2. AcctKept /\ OthersBet(k)
  BY <1>1, AcctSame, StartTick DEF Base
<1>3. /\ "wait_result" \in Through => BetsThrough
      /\ \/ /\ ResultDefined
            /\ \E o \in [Bettors -> Outcome] :
                 /\ bankerGameCoin' = CoinAfter(o)
                 /\ Goto(k, [Idle EXCEPT !.pc = "result_log", !.coin = CoinAfter(o) - SeatFee(o),
                                         !.batch = SettleBatch(o)])
         \/ bankerGameCoin' = bankerGameCoin /\ task' = task
  BY DEF TickWaitResult, Due
<1>4. ASSUME ResultDefined, NEW o \in [Bettors -> Outcome], bankerGameCoin' = CoinAfter(o),
             Goto(k, [Idle EXCEPT !.pc = "result_log", !.coin = CoinAfter(o) - SeatFee(o),
                                  !.batch = SettleBatch(o)])
      PROVE  \E t : Sorted(k, t)
  <2> DEFINE t == [Idle EXCEPT !.pc = "result_log", !.coin = CoinAfter(o) - SeatFee(o),
                               !.batch = SettleBatch(o)]
  <2>2. t.pc = "result_log" /\ t.coin = CoinAfter(o) - SeatFee(o) /\ t.batch = SettleBatch(o)
    BY DEF Idle
  <2>3. Goto(k, t)
    BY <1>4
  <2> HIDE DEF t
  <2>4. Moved(k, t)
    BY <1>2, <2>2, <2>3, MoveIn DEF Base, MixPC, AfterPC, SettlePC
  <2>5. Settling(k, t, o)
    BY <1>1, <1>2, <1>3, <1>4, <2>2, <2>4 DEF Settling
  <2> QED BY <2>5 DEF Sorted
<1>5. CASE bankerGameCoin' = bankerGameCoin /\ task' = task
  BY <1>1, <1>5, SortAdvance DEF SeatStill
<1> QED BY <1>3, <1>4, <1>5

(* game_over: the round ends. *)
LEMMA SortTickResult ==
    ASSUME Base, NEW k \in Coroutine, TickResult(k)
    PROVE  \E t : Sorted(k, t)
<1> DEFINE s == [Idle EXCEPT !.pc = "start_gold"]
<1>0. s.pc = "start_gold" /\ NoLoad(s)
  BY DEF Idle, NoLoad
<1>1. /\ CanStart(k, "tick") /\ game_step = "result" /\ acct' = acct /\ SeatStill
      /\ bet_data' = None
      /\ \/ task' = task /\ game_step' = game_step
         \/ task' = task /\ game_step' = "none" /\ banker = None
         \/ CallDown(k, banker, "end") /\ game_step' = game_step /\ banker # None
         \/ Goto(k, s) /\ game_step' = game_step /\ banker # None
  BY DEF TickResult, Due, Advance, SeatStill
<1> HIDE DEF s
<1>2. AcctKept /\ OthersBet(k) /\ task[k].pc = "idle" /\ banker \in User \cup {None}
  BY <1>1, AcctSame, StartTick DEF Base, CanStart, At, IInv, RoomOK, SeatOK
<1>3. CASE /\ task' = task
           /\ game_step' = game_step \/ (game_step' = "none" /\ banker = None)
  <2>1. Moved(k, task[k])
    BY <1>2, <1>3, MoveNone
  <2>2. Ending(k, task[k])
    BY <1>1, <1>2, <1>3, <2>1 DEF Ending
  <2> QED BY <2>2 DEF Sorted
<1>4. CASE CallDown(k, banker, "end") /\ game_step' = game_step /\ banker # None
  <2>1. PICK t : /\ Goto(k, t) /\ t.pc = "down_acct" /\ t.u = banker /\ t.coin = 0
                 /\ t.batch = Return(banker, bankerGameCoin)
    BY <1>4, DownLoad
  <2>2. Moved(k, t)
    BY <1>2, <2>1, MoveIn DEF Base, MixPC
  <2>3. Ending(k, t)
    BY <1>1, <1>2, <1>4, <2>1, <2>2 DEF Ending
  <2> QED BY <2>3 DEF Sorted
<1>5. CASE Goto(k, s) /\ game_step' = game_step /\ banker # None
  <2>1. Moved(k, s)
    BY <1>0, <1>2, <1>5, MoveIn DEF Base, MixPC
  <2>2. Ending(k, s)
    BY <1>0, <1>1, <1>2, <1>5, <2>1 DEF Ending
  <2> QED BY <2>2 DEF Sorted
<1> QED BY <1>1, <1>3, <1>4, <1>5

(* A void round: the refund starts. *)
LEMMA SortTickFlow ==
    ASSUME Base, NEW k \in Coroutine, TickFlow(k)
    PROVE  \E t : Sorted(k, t)
<1> DEFINE t == [Idle EXCEPT !.pc = "flow_gold", !.u = banker]
<1>0. t.pc = "flow_gold" /\ NoLoad(t)
  BY DEF Idle, NoLoad
<1>1. /\ CanStart(k, "tick") /\ game_step = "flow" /\ game_step' = "result" /\ acct' = acct
      /\ SeatStill /\ players' = players /\ bet_data' = bet_data
      /\ task' = task \/ Goto(k, t)
  BY DEF TickFlow, Due, Advance, SeatStill, seat, bets
<1> HIDE DEF t
<1>2. CASE task' = task
  BY <1>1, <1>2, SortAdvance
<1>3. CASE Goto(k, t)
  <2>1. AcctKept /\ OthersBet(k)
    BY <1>1, AcctSame, StartTick DEF Base
  <2>2. Moved(k, t)
    BY <1>0, <1>3, <2>1, MoveIn DEF Base, MixPC, AfterPC
  <2>3. ~InPlay' /\ game_step' # "bet" /\ game_step' \in {"none", "result"}
    BY <1>1 DEF InPlay
  <2>4. Stepping(k, t)
    BY <1>0, <1>1, <2>1, <2>2, <2>3 DEF Stepping
  <2> QED BY <2>4 DEF Sorted
<1> QED BY <1>1, <1>2, <1>3

(* Every step of a room is of one of the sorts. *)
LEMMA StepSorted ==
    ASSUME Base, [Next]_vars
    PROVE  Resting \/ \E k \in Coroutine : \E t : Sorted(k, t)
<1>1. CASE UNCHANGED vars
  BY <1>1 DEF vars, room, clock, seat, bets, Resting, RoomStill, SeatStill
<1>2. CASE Command
  <2>1. PICK u \in User :
          \/ \E k \in Coroutine, c \in Coins : RobBanker(k, u, c) \/ BiaoBanker(k, u, c)
          \/ \E k \in Coroutine : DownBanker(k, u)
          \/ \E k \in Coroutine, b \in BetMenu : Betting(k, u, b)
          \/ OpenRedPacket(u) \/ Disconnect(u) \/ Login(u)
    BY <1>2 DEF Command
  <2>2. CASE OpenRedPacket(u) \/ Disconnect(u) \/ Login(u)
    BY <2>2 DEF OpenRedPacket, Disconnect, Login, clock, seat, bets, Resting, RoomStill, SeatStill
  <2>3. CASE \E k \in Coroutine, c \in Coins : RobBanker(k, u, c) \/ BiaoBanker(k, u, c)
    BY <2>3, SortRobBanker, SortBiaoBanker
  <2>4. CASE \E k \in Coroutine : DownBanker(k, u)
    BY <2>4, SortDownBanker
  <2>5. CASE \E k \in Coroutine, b \in BetMenu : Betting(k, u, b)
    BY <2>5, SortBetting
  <2> QED BY <2>1, <2>2, <2>3, <2>4, <2>5
<1>3. ASSUME NEW k \in Coroutine, Resume(k) PROVE \E t : Sorted(k, t)
  BY <1>3, SortRobGoldFrozen, SortRobCoinFrozen, SortRobStartsGame, SortStartGoldFrozen,
     SortBiaoCoinFrozen, SortBiaoDone, SortDownReturned, SortDownCleared, SortBetResumed,
     SortBetCoinFrozen, SortSendAssigned, SortSendDone, SortResultLogged, SortResultGoldUsed,
     SortResultBooked, SortResultStored, SortResultDone, SortFlowGoldReturned, SortFlowRefund,
     SortFlowRefunded, SortFlowDone
     DEF Resume
<1>4. ASSUME NEW k \in Coroutine, Tick(k) PROVE Resting \/ \E t : Sorted(k, t)
  <2>1. CASE TickWaits(k)
    BY <2>1 DEF TickWaits, seat, bets, Resting, RoomStill, SeatStill
  <2>2. CASE ~TickWaits(k)
    BY <1>4, <2>2, SortTickBiao, SortTickQiang, SortTickBiaoEnd, SortTickWaitResult, SortTickResult,
       SortTickFlow, SortTickSend
       DEF Tick
  <2> QED BY <2>1, <2>2
<1> QED BY <1>1, <1>2, <1>3, <1>4 DEF Next

-----------------------------------------------------------------------------
(* The order of the handlers.                                              *)

(* Bettors depends on the recorded bets alone. *)
LEMMA BettorsSame ==
    ASSUME bet_data' = bet_data
    PROVE  Bettors' = Bettors
BY DEF Bettors

(* Cleared bets have no bettor. *)
LEMMA BettorsNone ==
    ASSUME bet_data' = None
    PROVE  Bettors' = {}
BY DEF Bettors

(* A moved coroutine meets those that stay. *)
LEMMA AloneKept ==
    ASSUME OInv, NEW k \in Coroutine, NEW t, Moved(k, t)
    PROVE  Alone'
<1> SUFFICES ASSUME NEW i \in Coroutine, NEW j \in Coroutine, i # j
             PROVE  Meets(task'[i].pc, task'[j].pc)
  BY DEF Alone, Meets
<1>1. \A p, q : Meets(p, q) <=> Meets(q, p)
  BY DEF Meets
<1>2. \A x \in Coroutine : x # k => Meets(task[x].pc, t.pc) /\ task'[x] = task[x]
  BY DEF Moved, Company
<1>3. task'[k] = t
  BY DEF Moved
<1>4. Meets(task[i].pc, task[j].pc)
  BY DEF OInv, Alone
<1> QED BY <1>1, <1>2, <1>3, <1>4

(* It is enough to look at the moved coroutine. *)
LEMMA OrderKept ==
    ASSUME OInv, NEW k \in Coroutine, NEW t, Moved(k, t),
           \/ game_step' = game_step /\ banker' = banker
           \/ OthersBet(k) /\ banker' = banker
           \/ OthersBet(k) /\ banker' = None /\ BetOverlapOnly /\ IInv
           \/ OthersIdle(k),
           Placed(t, game_step', banker'), Seated', NotSelf'
    PROVE  OInv'
<1>1. Alone'
  BY AloneKept
<1>2. ASSUME NEW j \in Coroutine, j # k
      PROVE  Placed(task[j], game_step', banker')
  <2>1. Placed(task[j], game_step, banker)
    BY DEF OInv
  <2>2. CASE game_step' = game_step /\ banker' = banker
    BY <2>1, <2>2
  <2>3. CASE task[j].pc = "idle"
    BY <2>3 DEF Placed, AfterPC, SettlePC, BetPC
  <2>4. CASE task[j].pc \in BetPC /\ banker' = banker
    BY <2>1, <2>4 DEF Placed, AfterPC, SettlePC, BetPC
  <2>5. CASE task[j].pc \in BetPC /\ banker' = None /\ IInv
    <3>1. task[j].u \in User /\ None \notin User
      BY <2>5, RoomAssumption DEF IInv, TaskOK, Fine, ForUser, BetPC
    <3> QED BY <2>5, <3>1 DEF Placed, AfterPC, SettlePC, BetPC
  <2> QED BY <1>2, <2>2, <2>3, <2>4, <2>5 DEF OthersBet, OthersIdle
<1>3. \A j \in Coroutine : Placed(task'[j], game_step', banker')
  BY <1>2 DEF Moved
<1> QED BY <1>1, <1>3 DEF OInv

(* A free coroutine may be anywhere. *)
LEMMA PlacedIdle == ASSUME NEW s, NEW b, NEW t, t.pc = "idle" PROVE Placed(t, s, b)
BY DEF Placed, AfterPC, SettlePC, BetPC

(* A turn keeps the order. *)
LEMMA OrderTurning ==
    ASSUME Base, NEW k \in Coroutine, NEW t, Turning(k, t)
    PROVE  OInv'
<1>1. RoomStill /\ Moved(k, t) /\ Turn(k, t)
  BY DEF Turning
<1>2. Placed(task[k], game_step, banker) /\ Seated
  BY DEF Base, OInv
<1>3. Placed(t, game_step, banker)
  <2>1. CASE t = Idle
    BY <2>1, PlacedIdle, IdleFields
  <2>2. CASE t # Idle
    BY <1>1, <1>2, <2>2 DEF Turn, Placed, AfterPC, SettlePC, BetPC, Seated
  <2> QED BY <2>1, <2>2
<1>4. Seated'
  BY <1>1, <1>2 DEF Seated, RoomStill, SeatStill
<1>5. NotSelf'
  BY <1>1, BettorsSame DEF NotSelf, RoomStill, SeatStill, InPlay, Base, OInv
<1> QED BY <1>1, <1>3, <1>4, <1>5, OrderKept DEF Base, RoomStill, SeatStill

(* A robber or bidder who is seated finds no bet and nobody suspended. *)
LEMMA OrderSeating ==
    ASSUME Base, NEW k \in Coroutine, NEW t, Seating(k, t)
    PROVE  OInv'
<1>1. /\ task[k].pc \in {"rob_coin", "biao_back", "biao_more"} /\ OthersIdle(k) /\ Moved(k, t)
      /\ game_step' = game_step /\ banker' \in User /\ bet_data' = bet_data
      /\ t = Idle \/ (task[k].pc = "rob_coin" /\ t.pc = "rob_db")
  BY DEF Seating
<1>2. /\ Placed(task[k], game_step, banker) /\ Seated
      /\ banker' # None
  BY <1>1, RoomAssumption DEF Base, OInv
<1>3. game_step \in {"none", "result", "biao"}
  BY <1>1, <1>2 DEF Placed, Seated
<1>4. Placed(t, game_step', banker')
  <2>1. CASE t = Idle
    BY <2>1, PlacedIdle, IdleFields
  <2>2. CASE task[k].pc = "rob_coin" /\ t.pc = "rob_db"
    BY <1>1, <1>2, <2>2 DEF Placed, AfterPC, SettlePC, BetPC, Seated
  <2> QED BY <1>1, <2>1, <2>2
<1>5. Seated' /\ NotSelf'
  BY <1>1, <1>2, <1>3 DEF Seated, NotSelf, InPlay
<1> QED BY <1>1, <1>4, <1>5, OrderKept DEF Base

(* The seat is cleared between rounds. *)
LEMMA OrderClearing ==
    ASSUME Base, NEW k \in Coroutine, Clearing(k)
    PROVE  OInv'
<1>1. /\ task[k].pc = "down_db" /\ OthersBet(k) /\ Moved(k, Idle)
      /\ game_step' \in {game_step, "none"} /\ banker' = None
  BY DEF Clearing
<1>2. game_step \in {"none", "result"}
  BY <1>1 DEF Base, OInv, Placed
<1>3. Seated' /\ NotSelf'
  BY <1>1, <1>2 DEF Seated, NotSelf, InPlay
<1>4. Placed(Idle, game_step', banker')
  BY PlacedIdle, IdleFields
<1> QED BY <1>1, <1>3, <1>4, OrderKept DEF Base

(* A new step of the round. *)
LEMMA OrderStepping ==
    ASSUME Base, NEW k \in Coroutine, NEW t, Stepping(k, t)
    PROVE  OInv'
<1>1. /\ OthersBet(k) /\ Moved(k, t) /\ banker' = banker /\ bet_data' = bet_data
      /\ banker = None => game_step' \in {"none", "result"}
      /\ InPlay' => InPlay
      /\ \/ t = Idle
         \/ t.pc = "idle"
         \/ t.pc = "flow_gold" /\ game_step' = "result"
  BY DEF Stepping, SeatStill
<1>2. Seated'
  BY <1>1 DEF Seated
<1>3. NotSelf'
  BY <1>1, BettorsSame DEF NotSelf, Base, OInv
<1>4. Placed(t, game_step', banker')
  <2>1. CASE t = Idle \/ t.pc = "idle"
    BY <2>1, PlacedIdle, IdleFields
  <2>2. CASE t.pc = "flow_gold" /\ game_step' = "result"
    BY <2>2 DEF Placed, AfterPC, SettlePC, BetPC
  <2> QED BY <1>1, <2>1, <2>2
<1> QED BY <1>1, <1>2, <1>3, <1>4, OrderKept DEF Base

(* The betting opens without bets. *)
LEMMA OrderOpening ==
    ASSUME Base, NEW k \in Coroutine, NEW t, Opening(k, t)
    PROVE  OInv'
<1>1. /\ OthersBet(k) /\ Moved(k, t) /\ banker' = banker /\ banker # None /\ bet_data' = None
      /\ t = Idle \/ t.pc = "idle"
  BY DEF Opening, SeatStill
<1>2. Seated' /\ NotSelf'
  BY <1>1, BettorsNone DEF Seated, NotSelf
<1>3. Placed(t, game_step', banker')
  BY <1>1, PlacedIdle, IdleFields
<1> QED BY <1>1, <1>2, <1>3, OrderKept DEF Base

(* The round ends without bets. *)
LEMMA OrderEnding ==
    ASSUME Base, NEW k \in Coroutine, NEW t, Ending(k, t)
    PROVE  OInv'
<1>1. /\ OthersBet(k) /\ Moved(k, t) /\ banker' = banker /\ bet_data' = None
      /\ game_step' \in {"none", "result"}
      /\ \/ t.pc = "idle"
         \/ t.pc = "start_gold" /\ banker # None
         \/ t.pc = "down_acct"
  BY DEF Ending, SeatStill
<1>2. Seated' /\ NotSelf'
  BY <1>1, BettorsNone DEF Seated, NotSelf
<1>3. Placed(t, game_step', banker')
  <2>1. CASE t.pc = "idle"
    BY <2>1, PlacedIdle
  <2>2. CASE t.pc # "idle"
    BY <1>1, <2>2 DEF Placed, AfterPC, SettlePC, BetPC
  <2> QED BY <2>1, <2>2
<1> QED BY <1>1, <1>2, <1>3, OrderKept DEF Base

(* A bet that is taken is not the banker's. *)
LEMMA OrderTaking ==
    ASSUME Base, NEW k \in Coroutine, NEW t, Taking(k, t)
    PROVE  OInv'
<1>1. /\ Moved(k, t) /\ banker' = banker /\ game_step' = game_step
      /\ bet_data' = IF bet_data = None THEN [v \in User |-> << >>] ELSE bet_data
      /\ t = Idle \/ (t.pc = "bet_coin" /\ t.u # banker)
  BY DEF Taking, SeatStill
<1>2. Bettors' = Bettors
  BY <1>1, RoomAssumption DEF Bettors
<1>3. Seated' /\ NotSelf'
  BY <1>1, <1>2 DEF Seated, NotSelf, InPlay, Base, OInv
<1>4. Placed(t, game_step', banker')
  <2>1. CASE t = Idle
    BY <2>1, PlacedIdle, IdleFields
  <2>2. CASE t.pc = "bet_coin" /\ t.u # banker
    BY <1>1, <2>2 DEF Placed, AfterPC, SettlePC, BetPC
  <2> QED BY <1>1, <2>1, <2>2
<1> QED BY <1>1, <1>3, <1>4, OrderKept DEF Base

(* The recorded bet has one bettor. *)
LEMMA BettorsRecorded ==
    ASSUME Base, NEW k \in Coroutine, Recording(k)
    PROVE  /\ task[k].u \in User /\ task[k].bet \in BetMenu
           /\ bet_data \in [User -> Seq(BetMenu)] /\ bet_data' \in [User -> Seq(BetMenu)]
           /\ bet_data'[task[k].u] = Append(bet_data[task[k].u], task[k].bet)
           /\ \A u \in User : u # task[k].u => bet_data'[u] = bet_data[u]
           /\ bet_data' # None
           /\ Bettors' = Bettors \cup {task[k].u}
<1> DEFINE w == task[k].u
           b == task[k].bet
<1>1. w \in User /\ b \in BetMenu
  BY DEF Base, IInv, TaskOK, Fine, ForUser, Recording
<1>2. bet_data \in [User -> Seq(BetMenu)]
  BY DEF Base, IInv, RoomOK, BetsOK, Recording
<1>3. bet_data' = [bet_data EXCEPT ![w] = Append(@, b)] /\ bet_data # None
  BY DEF Recording
<1> HIDE DEF w, b
<1>4. /\ bet_data' \in [User -> Seq(BetMenu)]
      /\ bet_data'[w] = Append(bet_data[w], b)
      /\ \A u \in User : u # w => bet_data'[u] = bet_data[u]
  BY <1>1, <1>2, <1>3
<1>5. Append(bet_data[w], b) # << >>
  BY <1>1, <1>2
<1>6. bet_data' # None
  BY <1>4, RoomAssumption
<1>7. Bettors' = Bettors \cup {w}
  BY <1>1, <1>3, <1>4, <1>5, <1>6 DEF Bettors
<1> QED BY <1>1, <1>2, <1>4, <1>6, <1>7 DEF w, b

(* A bet that is recorded is not the banker's. *)
LEMMA OrderRecording ==
    ASSUME Base, NEW k \in Coroutine, Recording(k)
    PROVE  OInv'
<1>1. /\ Moved(k, Idle) /\ banker' = banker /\ game_step' = game_step /\ task[k].pc = "bet_coin"
  BY DEF Recording
<1>2. task[k].u # banker /\ Bettors' = Bettors \cup {task[k].u}
  BY <1>1, BettorsRecorded DEF Base, OInv, Placed, BetPC
<1>3. Seated' /\ NotSelf'
  BY <1>1, <1>2 DEF Seated, NotSelf, InPlay, Base, OInv
<1>4. Placed(Idle, game_step', banker')
  BY PlacedIdle, IdleFields
<1> QED BY <1>1, <1>3, <1>4, OrderKept DEF Base

(* The settlement starts in the result step. *)
LEMMA OrderSettling ==
    ASSUME Base, NEW k \in Coroutine, NEW t, NEW o, Settling(k, t, o)
    PROVE  OInv'
<1>1. /\ OthersBet(k) /\ Moved(k, t) /\ banker' = banker /\ game_step' = "result"
      /\ t.pc = "result_log"
  BY DEF Settling
<1>2. Seated' /\ NotSelf'
  BY <1>1 DEF Seated, NotSelf, InPlay
<1>3. Placed(t, game_step', banker')
  BY <1>1 DEF Placed, AfterPC, SettlePC, BetPC
<1> QED BY <1>1, <1>2, <1>3, OrderKept DEF Base

(* Settlement and refund go on in the result step. *)
LEMMA OrderStoring ==
    ASSUME Base, NEW k \in Coroutine, NEW t, Storing(k, t) \/ Refunding(k, t)
    PROVE  OInv'
<1>1. /\ Moved(k, t) /\ banker' = banker /\ game_step' = game_step /\ bet_data' = bet_data
      /\ task[k].pc \in {"result_db", "flow_db"}
      /\ t = Idle \/ t.pc \in {"result_more", "flow_acct"}
  BY DEF Storing, Refunding
<1>2. game_step = "result"
  BY <1>1 DEF Base, OInv, Placed, AfterPC, SettlePC
<1>3. Seated' /\ NotSelf'
  BY <1>1, <1>2 DEF Seated, NotSelf, InPlay
<1>4. Placed(t, game_step', banker')
  <2>1. CASE t = Idle
    BY <2>1, PlacedIdle, IdleFields
  <2>2. CASE t.pc \in {"result_more", "flow_acct"}
    BY <1>1, <1>2, <2>2 DEF Placed, AfterPC, SettlePC, BetPC
  <2> QED BY <1>1, <2>1, <2>2
<1> QED BY <1>1, <1>3, <1>4, OrderKept DEF Base

(* The order of the handlers is kept by every step. *)
LEMMA OrderInductive ==
    ASSUME Base, [Next]_vars
    PROVE  OInv'
<1>1. CASE Resting
  <2>1. /\ task' = task /\ game_step' = game_step /\ banker' = banker /\ bet_data' = bet_data
    BY <1>1 DEF Resting, RoomStill, SeatStill
  <2>2. Bettors' = Bettors
    BY <2>1, BettorsSame
  <2>3. Alone' /\ Seated' /\ NotSelf'
    BY <2>1, <2>2 DEF Base, OInv, Alone, Seated, NotSelf, InPlay
  <2>4. \A k \in Coroutine : Placed(task'[k], game_step', banker')
    BY <2>1 DEF Base, OInv
  <2> QED BY <2>3, <2>4 DEF OInv
<1>2. ASSUME NEW k \in Coroutine, NEW t, Sorted(k, t) PROVE OInv'
  BY <1>2, OrderTurning, OrderSeating, OrderClearing, OrderStepping, OrderOpening, OrderEnding,
     OrderTaking, OrderRecording, OrderSettling, OrderStoring DEF Sorted
<1> QED BY <1>1, <1>2, StepSorted

-----------------------------------------------------------------------------
(* Sums over the members.                                                  *)

(* Terms that are zero can be left out of a sum. *)
LEMMA SumSupport ==
    ASSUME NEW f, NEW S, IsFiniteSet(S), \A x \in S : f[x] \in Int,
           NEW T \in SUBSET S, \A x \in S \ T : f[x] = 0
    PROVE  SumFunctionOnSet(f, T) = SumFunctionOnSet(f, S)
<1> DEFINE F == {R \in SUBSET (S \ T) : SumFunctionOnSet(f, T \cup R) = SumFunctionOnSet(f, T)}
<1>1. IsFiniteSet(S \ T) /\ IsFiniteSet(T)
  BY FS_Subset
<1>2. {} \in F
  <2>1. T \cup {} = T
    OBVIOUS
  <2> QED BY <2>1
<1>3. ASSUME NEW R \in F, NEW x \in (S \ T) \ R, R \subseteq S \ T
      PROVE  R \cup {x} \in F
  <2>1. IsFiniteSet(T \cup R) /\ x \notin T \cup R /\ T \cup R \subseteq S
    BY <1>3, FS_Subset
  <2>2. \A y \in (T \cup R) \cup {x} : f[y] \in Int
    BY <2>1
  <2>3. SumFunctionOnSet(f, (T \cup R) \cup {x}) = f[x] + SumFunctionOnSet(f, T \cup R)
    BY <2>1, <2>2, SumAdd
  <2>4. SumFunctionOnSet(f, T \cup R) \in Int /\ f[x] = 0
    BY <2>1, <2>2, SumInt
  <2>5. (T \cup R) \cup {x} = T \cup (R \cup {x})
    OBVIOUS
  <2>6. SumFunctionOnSet(f, T \cup R) = SumFunctionOnSet(f, T) /\ R \cup {x} \in SUBSET (S \ T)
    BY <1>3
  <2>7. SumFunctionOnSet(f, T \cup (R \cup {x})) = SumFunctionOnSet(f, T)
    <3>1. \A a \in Int : 0 + a = a
      OBVIOUS
    <3>2. SumFunctionOnSet(f, (T \cup R) \cup {x}) = SumFunctionOnSet(f, T \cup R)
      BY <2>3, <2>4, <3>1, Zenon
    <3> QED BY <2>5, <2>6, <3>2, Zenon
  <2> QED BY <2>6, <2>7
<1> HIDE DEF F
<1>4. (S \ T) \in F
  BY <1>1, <1>2, <1>3, FiniteInduction
<1>5. T \cup (S \ T) = S
  OBVIOUS
<1> QED BY <1>4, <1>5 DEF F

(* A sum of equal terms. *)
LEMMA SumConst ==
    ASSUME NEW f, NEW S, IsFiniteSet(S), NEW c \in Int, \A x \in S : f[x] = c
    PROVE  SumFunctionOnSet(f, S) = c * Cardinality(S)
<1> DEFINE F == {R \in SUBSET S : SumFunctionOnSet(f, R) = c * Cardinality(R)}
<1>1. {} \in F
  BY SumEmpty, FS_EmptySet
<1>2. ASSUME NEW R \in F, NEW x \in S \ R, R \subseteq S
      PROVE  R \cup {x} \in F
  <2>1. IsFiniteSet(R) /\ Cardinality(R) \in Nat
    BY FS_Subset, FS_CardinalityType
  <2>2. SumFunctionOnSet(f, R \cup {x}) = f[x] + SumFunctionOnSet(f, R)
    BY <2>1, SumAdd
  <2>3. Cardinality(R \cup {x}) = Cardinality(R) + 1
    BY <2>1, FS_AddElement
  <2>4. \A n \in Nat : c + c * n = c * (n + 1)
    OBVIOUS
  <2> QED BY <2>1, <2>2, <2>3, <2>4
<1> HIDE DEF F
<1>3. S \in F
  BY <1>1, <1>2, FiniteInduction
<1> QED BY <1>3 DEF F

(* The sum of a function is the sum over its domain. *)
LEMMA SumDomain ==
    ASSUME NEW f, NEW S, DOMAIN f = S
    PROVE  SumFunction(f) = SumFunctionOnSet(f, S)
BY DEF SumFunction

-----------------------------------------------------------------------------
(* Batches of transfers.                                                   *)

(* What leaves one purse and enters the other is balanced. *)
LEMMA NetZero ==
    ASSUME NEW b \in Batch, b.owner = 0, \A u \in User : b.bal[u] + b.frozen[u] = 0
    PROVE  Balanced(b)
<1> DEFINE f == [u \in User |-> b.bal[u] + b.frozen[u]]
<1>1. DOMAIN f = User /\ \A u \in User : f[u] = 0
  OBVIOUS
<1>2. Net(b) = SumFunction(f) + b.owner
  BY DEF Net
<1> HIDE DEF f
<1>3. SumFunction(f) = 0
  BY <1>1, SumDomain, SumZero, RoomAssumption
<1> QED BY <1>2, <1>3 DEF Balanced

(* The empty batch. *)
LEMMA NoBatchBalanced == Balanced(NoBatch) /\ NoBatch \in Batch
<1>1. NoBatch \in Batch /\ NoBatch.owner = 0 /\ \A u \in User : NoBatch.bal[u] + NoBatch.frozen[u] = 0
  BY DEF NoBatch, NoCoins, Batch
<1> QED BY <1>1, NetZero

(* A freeze moves coins of one member. *)
LEMMA FreezeBatch ==
    ASSUME NEW u \in User, NEW c \in Int
    PROVE  /\ Freeze(u, c) \in Batch /\ Balanced(Freeze(u, c))
           /\ Freeze(u, c).frozen[u] = c
           /\ \A v \in User : v # u => Freeze(u, c).frozen[v] = 0
<1> DEFINE out == [v \in User |-> IF v = u THEN -c ELSE 0]
           in == [v \in User |-> IF v = u THEN c ELSE 0]
           b == [bal |-> out, frozen |-> in, owner |-> 0]
<1>1. Freeze(u, c) = b
  <2>1. Freeze(u, c) = [NoBatch EXCEPT !.bal[u] = -c, !.frozen[u] = c]
    BY RoomAssumption DEF Freeze
  <2>2. [NoCoins EXCEPT ![u] = -c] = out /\ [NoCoins EXCEPT ![u] = c] = in
    BY DEF NoCoins
  <2> HIDE DEF out, in
  <2> QED BY <2>1, <2>2 DEF NoBatch
<1>2. /\ b \in Batch /\ b.owner = 0 /\ b.frozen[u] = c /\ b.bal[u] = -c
      /\ \A v \in User : v # u => b.frozen[v] = 0 /\ b.bal[v] = 0
  <2>1. /\ out \in [User -> Int] /\ in \in [User -> Int] /\ in[u] = c /\ out[u] = -c
        /\ \A v \in User : v # u => in[v] = 0 /\ out[v] = 0
    OBVIOUS
  <2> HIDE DEF out, in
  <2> QED BY <2>1 DEF Batch
<1> HIDE DEF b
<1>3. \A v \in User : b.bal[v] + b.frozen[v] = 0
  BY <1>2
<1> QED BY <1>1, <1>2, <1>3, NetZero

(* A return moves coins of one member, or is refused. *)
LEMMA ReturnBalanced ==
    ASSUME NEW u \in User \cup {None}, NEW c \in Int
    PROVE  Balanced(Return(u, c))
<1>1. CASE u = None
  BY <1>1 DEF Return, Freeze, Balanced
<1>2. CASE u # None
  <2>1. Balanced(Freeze(u, -c))
    BY <1>2, FreezeBatch
  <2> QED BY <2>1 DEF Return
<1> QED BY <1>1, <1>2

(* A balanced batch moves coins, and creates none. *)
LEMMA BookedConserves ==
    ASSUME AcctOK, NEW b \in Batch, Net(b) = 0, acct' = Booked(b), CoinsConserved
    PROVE  /\ AcctOK' /\ CoinsConserved'
           /\ \A u \in User : acct'.frozen[u] = acct.frozen[u] + b.frozen[u]
<1>1. /\ acct'.bal = [u \in User |-> acct.bal[u] + b.bal[u]]
      /\ acct'.frozen = [u \in User |-> acct.frozen[u] + b.frozen[u]]
      /\ acct'.owner = acct.owner + b.owner
      /\ acct' \in [bal : [User -> Int], frozen : [User -> Int], owner : Int,
                    gold : Int, goldFrozen : Int]
  <2> DEFINE bal == [u \in User |-> acct.bal[u] + b.bal[u]]
             froz == [u \in User |-> acct.frozen[u] + b.frozen[u]]
             own == acct.owner + b.owner
  <2>1. bal \in [User -> Int] /\ froz \in [User -> Int] /\ own \in Int
    BY DEF AcctOK, Batch
  <2>2. acct' = [acct EXCEPT !.bal = bal, !.frozen = froz, !.owner = own]
    BY DEF Booked
  <2> HIDE DEF bal, froz, own
  <2>3. /\ acct'.bal = bal /\ acct'.frozen = froz /\ acct'.owner = own
        /\ acct' \in [bal : [User -> Int], frozen : [User -> Int], owner : Int,
                      gold : Int, goldFrozen : Int]
    BY <2>1, <2>2 DEF AcctOK
  <2> QED BY <2>3 DEF bal, froz, own
<1> DEFINE f == [u \in User |-> acct.bal[u] + acct.frozen[u]]
           g == [u \in User |-> b.bal[u] + b.frozen[u]]
           h == [u \in User |-> acct'.bal[u] + acct'.frozen[u]]
<1>2. /\ DOMAIN f = User /\ DOMAIN g = User /\ DOMAIN h = User
      /\ \A u \in User : f[u] \in Int /\ g[u] \in Int /\ h[u] = f[u] + g[u]
  BY <1>1 DEF AcctOK, Batch
<1>3. SumFunction(g) + b.owner = 0 /\ b.owner \in Int
  BY DEF Net, Batch
<1>4. SumFunction(f) + acct.owner = InitBal * Cardinality(User) /\ acct.owner \in Int
  BY DEF CoinsConserved, AcctOK
<1>5. CoinsConserved' <=> SumFunction(h) + acct'.owner = InitBal * Cardinality(User)
  BY DEF CoinsConserved
<1> HIDE DEF f, g, h
<1>6. /\ SumFunction(h) = SumFunction(f) + SumFunction(g)
      /\ SumFunction(f) \in Int /\ SumFunction(g) \in Int
  BY <1>2, SumDomain, SumPlus, SumInt, RoomAssumption
<1>7. (SumFunction(f) + SumFunction(g)) + (acct.owner + b.owner) = SumFunction(f) + acct.owner
  BY <1>3, <1>4, <1>6
<1>8. CoinsConserved'
  BY <1>1, <1>4, <1>5, <1>6, <1>7
<1>9. \A u \in User : acct'.frozen[u] = acct.frozen[u] + b.frozen[u]
  BY <1>1
<1> QED BY <1>1, <1>8, <1>9 DEF AcctOK

(* An account server that moves no coin conserves them. *)
LEMMA KeptConserves ==
    ASSUME AcctKept, CoinsConserved
    PROVE  AcctOK' /\ CoinsConserved'
<1>1. [u \in User |-> acct'.bal[u] + acct'.frozen[u]] = [u \in User |-> acct.bal[u] + acct.frozen[u]]
  BY DEF AcctKept
<1> QED BY <1>1 DEF AcctKept, CoinsConserved

(* It is enough to look at the moved coroutine. *)
LEMMA HeldKept ==
    ASSUME HInv, NEW k \in Coroutine, NEW t, Moved(k, t), Held(t),
           bankerGameCoin' \in Int, bankerSurplusCoin' \in Int, AcctKept \/ AcctBooked(k)
    PROVE  HInv'
<1>1. AcctOK' /\ CoinsConserved' /\ NoDebt'
  <2>1. CASE AcctKept
    BY <2>1, KeptConserves DEF HInv, NoDebt, AcctKept
  <2>2. CASE AcctBooked(k)
    <3>1. task[k].batch \in Batch /\ Net(task[k].batch) = 0 /\ acct' = Booked(task[k].batch)
      BY <2>2 DEF HInv, Held, Balanced, AcctBooked, Covered
    <3>2. /\ AcctOK' /\ CoinsConserved'
          /\ \A u \in User : acct'.frozen[u] = acct.frozen[u] + task[k].batch.frozen[u]
      BY <3>1, BookedConserves DEF HInv
    <3> QED BY <2>2, <3>2 DEF NoDebt, AcctBooked, Covered
  <2> QED BY <2>1, <2>2
<1>2. \A j \in Coroutine : Held(task'[j])
  BY DEF Moved, HInv
<1> QED BY <1>1, <1>2 DEF HInv

(* A coroutine without a batch. *)
LEMMA HeldIdle == Held(Idle) /\ \A t : NoLoad(t) /\ t.pc # "bet_coin" => Held(t)
BY NoBatchBalanced, IdleFields DEF Held, NoLoad

-----------------------------------------------------------------------------
(* The batch of the settlement.                                            *)

(* What bets may cost is a number of coins. *)
LEMMA StakesNat ==
    ASSUME IInv, NEW u \in User
    PROVE  Staked(u) \in Nat /\ Exposure(u) \in Nat
<1>1. CASE u \notin Bettors
  BY <1>1 DEF Staked, Exposure
<1>2. CASE u \in Bettors
  <2> DEFINE q == bet_data[u]
             f == [i \in DOMAIN q |-> q[i].game_coin]
             g == [i \in DOMAIN q |-> q[i].reduce]
  <2>1. q \in Seq(BetMenu)
    BY <1>2 DEF IInv, RoomOK, BetsOK, Bettors
  <2>2. DOMAIN q = 1..Len(q) /\ Len(q) \in Nat /\ \A i \in DOMAIN q : q[i] \in BetMenu
    BY <2>1
  <2>3. \A b \in BetMenu : b.game_coin \in Nat /\ b.reduce \in Nat
    BY RoomAssumption DEF BetType
  <2>4. Staked(u) = SumFunction(f) /\ Exposure(u) = SumFunction(g)
    BY <1>2 DEF Staked, Exposure
  <2>5. /\ DOMAIN f = DOMAIN q /\ DOMAIN g = DOMAIN q
        /\ \A i \in DOMAIN q : f[i] \in Nat /\ g[i] \in Nat
    BY <2>2, <2>3
  <2>6. IsFiniteSet(DOMAIN q)
    BY <2>2, FS_Interval
  <2> HIDE DEF q, f, g
  <2> QED BY <2>4, <2>5, <2>6, SumDomain, SumNat
<1> QED BY <1>1, <1>2

(* What could not be settled is counted in coins. *)
Counted == unsettled \in [User -> Nat]

LEMMA CountedStep ==
    ASSUME IInv, Counted, [Next]_vars
    PROVE  Counted'
<1>1. CASE unsettled' = unsettled
  BY <1>1 DEF Counted
<1>2. CASE unsettled' = [u \in User |-> unsettled[u] + Staked(u)]
  <2>1. \A u \in User : Staked(u) \in Nat /\ unsettled[u] \in Nat
    BY StakesNat DEF Counted
  <2> QED BY <1>2, <2>1 DEF Counted
<1>3. unsettled' = unsettled \/ unsettled' = [u \in User |-> unsettled[u] + Staked(u)]
  <2>1. CASE UNCHANGED vars
    BY <2>1 DEF vars, room, bets
  <2>2. CASE Command
    BY <2>2 DEF Command, RobBanker, BiaoBanker, DownBanker, Betting, OpenRedPacket, Disconnect,
                Login, room, bets
  <2>3. ASSUME NEW k \in Coroutine, Resume(k) PROVE unsettled' = unsettled
    BY <2>3 DEF Resume, RobGoldFrozen, RobCoinFrozen, RobStartsGame, StartGoldFrozen, BiaoCoinFrozen,
                BiaoDone, DownReturned, DownCleared, BetResumed, BetCoinFrozen, RecordBet, SendAssigned,
                SendDone, ResultLogged, ResultGoldUsed, ResultBooked, ResultStored, ResultDone,
                FlowGoldReturned, FlowRefund, FlowRefunded, FlowDone, room, bets
  <2>4. ASSUME NEW k \in Coroutine, Tick(k), ~TickWaitResult(k) PROVE unsettled' = unsettled
    BY <2>4 DEF Tick, TickWaits, TickBiao, TickBiaoEnd, TickBet, TickBetEnd, TickSend, TickQiang,
                TickResult, TickFlow, bets
  <2>5. ASSUME NEW k \in Coroutine, TickWaitResult(k)
        PROVE  unsettled' = unsettled \/ unsettled' = [u \in User |-> unsettled[u] + Staked(u)]
    BY <2>5 DEF TickWaitResult
  <2> QED BY <2>1, <2>2, <2>3, <2>4, <2>5 DEF Next
<1> QED BY <1>1, <1>2, <1>3

LEMMA InitCounted == Init => Counted
BY DEF Init, Counted, NoCoins

(* The room's state keeps its types, whatever handlers overlap and whatever *)
(* the account server answers.                                              *)
THEOREM TypeCorrect == Spec => []TypeOK
<1>1. IInv /\ Counted => TypeOK
  BY DEF IInv, TaskOK, Fine, RoomOK, ClockOK, SeatOK, BetsOK, PacketsOK, GoneOK, LineOK, Counted, TypeOK
<1>2. Init => Counted
  BY InitCounted
<1>3. IInv /\ Counted /\ [Next]_vars => Counted'
  BY CountedStep
<1> QED BY <1>1, <1>2, <1>3, Invariance, PTL DEF Spec

(* The owner's share is at most the gain. *)
LEMMA PumpNat ==
    ASSUME NEW c \in Int
    PROVE  Pump(c) \in Nat /\ (c >= 0 => Pump(c) <= c) /\ (c <= 0 => Pump(c) = 0)
<1>1. PumpUnit \in Nat /\ PumpUnit # 0
  BY RoomAssumption
<1>2. CASE c > 0
  <2>1. c \div PumpUnit \in Int /\ c \div PumpUnit >= 0 /\ c \div PumpUnit <= c
    BY <1>1, <1>2
  <2> QED BY <1>2, <2>1 DEF Pump
<1>3. CASE ~(c > 0)
  BY <1>3 DEF Pump
<1> QED BY <1>2, <1>3

(* A bettor wins at most what his bets may cost the banker. *)
LEMMA ChangeBounds ==
    ASSUME IInv, NEW o \in [Bettors -> Outcome], NEW u \in Bettors
    PROVE  Change(o, u) \in Int /\ Change(o, u) <= Exposure(u) /\ u \in User
<1>1. u \in User /\ o[u] \in {"win", "lose", "draw"}
  BY DEF Bettors, Outcome
<1>2. Staked(u) \in Nat /\ Exposure(u) \in Nat
  BY <1>1, StakesNat
<1> QED BY <1>1, <1>2 DEF Change

(* What the banker wins, and that his loss is at most what the bets may     *)
(* cost him.                                                                *)
LEMMA WonBounds ==
    ASSUME IInv, NEW o \in [Bettors -> Outcome]
    PROVE  /\ Won(o) \in Int /\ Risk \in Nat /\ -Risk <= Won(o)
           /\ Won(o) = -SumFunctionOnSet([u \in Bettors |-> Change(o, u)], Bettors)
<1> DEFINE f == [u \in Bettors |-> Change(o, u)]
           g == [u \in Bettors |-> Exposure(u)]
<1>1. /\ DOMAIN f = Bettors /\ DOMAIN g = Bettors
      /\ \A u \in Bettors : f[u] \in Int /\ g[u] \in Nat /\ f[u] <= g[u]
  BY ChangeBounds, StakesNat
<1>2. Won(o) = -SumFunction(f) /\ Risk = SumFunction(g)
  BY DEF Won, Risk
<1> HIDE DEF f, g
<1>3. /\ SumFunctionOnSet(f, Bettors) \in Int /\ SumFunctionOnSet(g, Bettors) \in Nat
      /\ SumFunctionOnSet(f, Bettors) <= SumFunctionOnSet(g, Bettors)
  <2>1. IsFiniteSet(Bettors)
    BY BettorsFinite
  <2>2. SumFunctionOnSet(f, Bettors) \in Int
    BY <1>1, <2>1, SumInt
  <2>3. SumFunctionOnSet(g, Bettors) \in Nat
    BY <1>1, <2>1, SumNat
  <2>4. \A u \in Bettors : f[u] \in Int /\ g[u] \in Int /\ f[u] <= g[u]
    BY <1>1
  <2>5. SumFunctionOnSet(f, Bettors) <= SumFunctionOnSet(g, Bettors)
    BY <2>1, <2>4, SumLeq
  <2> QED BY <2>2, <2>3, <2>5
<1>4. SumFunction(f) = SumFunctionOnSet(f, Bettors) /\ SumFunction(g) = SumFunctionOnSet(g, Bettors)
  BY <1>1, SumDomain
<1> QED BY <1>2, <1>3, <1>4 DEF f

(* What the settlement leaves the banker. *)
LEMMA CoinAfterInt ==
    ASSUME IInv, NEW o \in [Bettors -> Outcome], bankerGameCoin \in Int
    PROVE  /\ CoinAfter(o) \in Int /\ SeatFee(o) \in Int
           /\ CoinAfter(o) - SeatFee(o) >= 0
           /\ Risk <= bankerGameCoin => CoinAfter(o) >= bankerGameCoin - Risk
           /\ RobPump = 0 /\ CoinAfter(o) >= 0 => SeatFee(o) = 0
<1>1. Won(o) \in Int /\ Risk \in Nat /\ -Risk <= Won(o)
  BY WonBounds
<1>2. /\ Pump(Won(o)) \in Nat /\ (Won(o) >= 0 => Pump(Won(o)) <= Won(o))
      /\ Won(o) <= 0 => Pump(Won(o)) = 0
  BY <1>1, PumpNat
<1>3. CoinAfter(o) \in Int /\ CoinAfter(o) >= bankerGameCoin - Risk
  BY <1>1, <1>2 DEF CoinAfter
<1> DEFINE fee == Cardinality(Bettors) * RobPump
<1>4. fee \in Nat /\ (RobPump = 0 => fee = 0)
  BY BettorsFinite, RoomAssumption
<1>5. SeatFee(o) = IF CoinAfter(o) < fee THEN CoinAfter(o) ELSE fee
  BY DEF SeatFee
<1> HIDE DEF fee
<1> QED BY <1>3, <1>4, <1>5

(* The settlement creates and destroys no coin: what the banker wins the    *)
(* bettors lose, and the owner's shares are taken from the winners.  This   *)
(* needs a banker who is not a bettor of his own round.                     *)
LEMMA SettleBatchBalanced ==
    ASSUME IInv, NEW o \in [Bettors -> Outcome], bankerGameCoin \in Int,
           banker \in User, banker \notin Bettors
    PROVE  Balanced(SettleBatch(o))
<1> DEFINE w == Won(o)
           p == Pump(Won(o))
           fee == SeatFee(o)
           keeps == CoinAfter(o) - SeatFee(o)
           ch == [u \in Bettors |-> Change(o, u)]
           sh == [u \in Bettors |-> Pump(Change(o, u))]
           shares == SumFunction(sh)
           bal == [u \in User |->
                     IF u = banker THEN bankerGameCoin + w - p - fee - keeps
                     ELSE IF u \in Bettors THEN Staked(u) + ch[u] - sh[u]
                     ELSE 0]
           froz == [u \in User |->
                     IF u = banker THEN keeps - bankerGameCoin
                     ELSE IF u \in Bettors THEN -Staked(u)
                     ELSE 0]
           own == p + shares + fee
<1>1. SettleBatch(o) = [bal |-> bal, frozen |-> froz, owner |-> own]
  <2>1. Bettors \ {banker} = Bettors
    OBVIOUS
  <2>2. \A u \in Bettors : ch[u] = Change(o, u) /\ sh[u] = Pump(Change(o, u))
    OBVIOUS
  <2>3. bal = [u \in User |->
                     IF u = banker THEN bankerGameCoin + Won(o) - Pump(Won(o)) - SeatFee(o) - keeps
                     ELSE IF u \in Bettors THEN Staked(u) + Change(o, u) - Pump(Change(o, u))
                     ELSE 0]
    OBVIOUS
  <2> QED BY <2>1, <2>3 DEF SettleBatch, Settlement
<1>2. /\ w \in Int /\ p \in Int /\ fee \in Int /\ keeps \in Int
      /\ w = -SumFunctionOnSet(ch, Bettors)
  BY WonBounds, CoinAfterInt, PumpNat
<1>3. /\ DOMAIN ch = Bettors /\ DOMAIN sh = Bettors
      /\ \A u \in Bettors : ch[u] \in Int /\ sh[u] \in Int
  BY ChangeBounds, PumpNat
<1>4. shares = SumFunctionOnSet(sh, Bettors)
  BY <1>3, SumDomain
<1>5. \A u \in User : Staked(u) \in Int
  BY StakesNat
<1> HIDE DEF w, p, fee, keeps, ch, sh, shares
<1>6. /\ SumFunctionOnSet(ch, Bettors) \in Int /\ shares \in Int /\ IsFiniteSet(Bettors)
  BY <1>3, <1>4, SumInt, BettorsFinite
<1>7. /\ bal \in [User -> Int] /\ froz \in [User -> Int] /\ own \in Int
      /\ bal[banker] + froz[banker] = (w - p) - fee
      /\ \A u \in Bettors : bal[u] + froz[u] = ch[u] - sh[u]
      /\ \A u \in User \ (Bettors \cup {banker}) : bal[u] + froz[u] = 0
  <2>1. Bettors \subseteq User
    BY BettorsFinite
  <2>2. bal \in [User -> Int] /\ froz \in [User -> Int] /\ own \in Int
    BY <1>2, <1>3, <1>5, <1>6
  <2>3. bal[banker] + froz[banker] = (w - p) - fee
    BY <1>2
  <2>4. \A u \in Bettors : bal[u] + froz[u] = ch[u] - sh[u]
    BY <1>3, <1>5, <2>1
  <2>5. \A u \in User \ (Bettors \cup {banker}) : bal[u] + froz[u] = 0
    OBVIOUS
  <2> QED BY <2>2, <2>3, <2>4, <2>5
<1> DEFINE b == [bal |-> bal, frozen |-> froz, owner |-> own]
           f == [u \in User |-> b.bal[u] + b.frozen[u]]
           d == [u \in Bettors |-> ch[u] - sh[u]]
<1>8. b \in Batch
  <2> HIDE DEF bal, froz, own
  <2> QED BY <1>7 DEF Batch
<1>9. /\ DOMAIN f = User /\ \A u \in User : f[u] \in Int
      /\ f[banker] = (w - p) - fee
      /\ \A u \in Bettors : f[u] = ch[u] - sh[u]
      /\ \A u \in User \ (Bettors \cup {banker}) : f[u] = 0
  <2> HIDE DEF bal, froz, own
  <2>1. f = [u \in User |-> bal[u] + froz[u]]
    OBVIOUS
  <2> HIDE DEF f
  <2> QED BY <1>7, <2>1, BettorsFinite
<1>10. Net(b) = SumFunctionOnSet(f, User) + own
  <2>1. b.owner = own
    OBVIOUS
  <2>2. Net(b) = SumFunction(f) + b.owner
    BY DEF Net
  <2> HIDE DEF f, b, own, bal, froz
  <2> QED BY <1>9, <2>1, <2>2, SumDomain
<1>11. own = (p + shares) + fee
  OBVIOUS
<1> HIDE DEF f, b, own, bal, froz
<1>12. SumFunctionOnSet(f, Bettors) = SumFunctionOnSet(ch, Bettors) - shares
  <2> DEFINE h == [u \in Bettors |-> f[u]]
  <2>1. \A u \in Bettors : h[u] \in Int /\ sh[u] \in Int /\ ch[u] = h[u] + sh[u] /\ f[u] = h[u]
    BY <1>3, <1>9
  <2> HIDE DEF h
  <2>2. SumFunctionOnSet(ch, Bettors) = SumFunctionOnSet(h, Bettors) + SumFunctionOnSet(sh, Bettors)
    BY <1>6, <2>1, SumPlus
  <2>3. SumFunctionOnSet(h, Bettors) = SumFunctionOnSet(f, Bettors)
    BY <1>6, <2>1, SumEqual
  <2>4. SumFunctionOnSet(h, Bettors) \in Int
    BY <1>6, <2>1, SumInt
  <2> QED BY <1>4, <1>6, <2>2, <2>3, <2>4
<1>13. SumFunctionOnSet(f, User) = SumFunctionOnSet(f, Bettors) + f[banker]
  <2>1. Bettors \cup {banker} \in SUBSET User
    BY BettorsFinite
  <2>2. SumFunctionOnSet(f, Bettors \cup {banker}) = SumFunctionOnSet(f, User)
    BY <1>9, <2>1, SumSupport, RoomAssumption
  <2>3. \A u \in Bettors \cup {banker} : f[u] \in Int
    BY <1>9, <2>1
  <2>4. SumFunctionOnSet(f, Bettors \cup {banker}) = f[banker] + SumFunctionOnSet(f, Bettors)
    BY <1>6, <2>3, SumAdd
  <2>5. SumFunctionOnSet(f, Bettors) \in Int /\ f[banker] \in Int
    BY <1>6, <2>3, SumInt
  <2>6. f[banker] + SumFunctionOnSet(f, Bettors) = SumFunctionOnSet(f, Bettors) + f[banker]
    BY <2>5
  <2> QED BY <2>2, <2>4, <2>6, Zenon
<1>14. Net(b) = 0
  BY <1>2, <1>6, <1>9, <1>10, <1>11, <1>12, <1>13
<1>15. SettleBatch(o) = b
  BY <1>1 DEF b
<1> QED BY <1>8, <1>14, <1>15 DEF Balanced

-----------------------------------------------------------------------------
(* Coins are conserved.                                                    *)

(* The load of a coroutine that goes on. *)
LEMMA TurnHeld ==
    ASSUME Base, HInv, NEW k \in Coroutine, NEW t, Turn(k, t)
    PROVE  Held(t)
<1>1. task[k].coin \in Int /\ Balanced(task[k].batch) /\ bankerGameCoin \in Int
  BY DEF HInv, Held
<1>2. banker \in User \cup {None}
  BY DEF Base, IInv, RoomOK, SeatOK
<1>3. CASE t = Idle
  BY <1>3, HeldIdle
<1>4. CASE /\ t.pc \in {"rob_gold", "send_db"} /\ t.coin \in Nat /\ t.batch = NoBatch
  BY <1>4, NoBatchBalanced DEF Held
<1>5. CASE /\ task[k].pc = "rob_gold" /\ t.pc = "rob_coin" /\ t.u \in User
           /\ t.coin = task[k].coin /\ t.batch = Freeze(t.u, t.coin)
  BY <1>1, <1>5, FreezeBatch DEF Held
<1>6. CASE NoLoad(t) /\ t.pc \in {"start_gold", "bet_wait"}
  BY <1>6, HeldIdle
<1>7. CASE /\ t.pc = "down_acct" /\ t.u \in User \cup {None} /\ t.coin = 0
           /\ t.batch = Return(t.u, bankerGameCoin)
  BY <1>1, <1>7, ReturnBalanced DEF Held
<1>8. CASE /\ t.pc \in {"biao_new", "biao_more"} /\ t.u \in User /\ t.coin \in Nat
           /\ t.batch \in {Freeze(t.u, t.coin), Freeze(t.u, t.coin - bankerGameCoin)}
  <2>1. t.coin \in Int /\ t.coin - bankerGameCoin \in Int
    BY <1>1, <1>8
  <2>2. Balanced(Freeze(t.u, t.coin)) /\ Balanced(Freeze(t.u, t.coin - bankerGameCoin))
    BY <1>8, <2>1, FreezeBatch
  <2> QED BY <1>8, <2>1, <2>2 DEF Held
<1>9. CASE /\ t.pc = "biao_back" /\ t.coin = task[k].coin
           /\ t.batch = Return(banker, bankerGameCoin)
  BY <1>1, <1>2, <1>9, ReturnBalanced DEF Held
<1>10. CASE /\ SameLoad(k, t)
            /\ t.pc \in {"down_db", "send_log", "result_gold", "result_acct", "result_db",
                         "flow_db", "flow_mode"}
  BY <1>1, <1>10 DEF Held, SameLoad
<1> QED BY <1>3, <1>4, <1>5, <1>6, <1>7, <1>8, <1>9, <1>10 DEF Turn

(* Every sort of step loads its coroutine with a balanced batch. *)
LEMMA CoinsKept ==
    ASSUME Base, HInv, NEW k \in Coroutine, NEW t, Sorted(k, t)
    PROVE  HInv'
<1>0. /\ task[k].coin \in Int /\ Balanced(task[k].batch) /\ bankerGameCoin \in Int
      /\ bankerSurplusCoin \in Int
  BY DEF HInv, Held
<1>1. CASE Turning(k, t)
  BY <1>0, <1>1, TurnHeld, HeldKept DEF Turning, RoomStill, SeatStill
<1>2. CASE Seating(k, t)
  <2>1. Held(t)
    BY <1>0, <1>2, HeldIdle DEF Seating, SameLoad, Held
  <2> QED BY <1>0, <1>2, <2>1, HeldKept DEF Seating
<1>3. CASE Clearing(k)
  <2>1. bankerGameCoin' \in Int /\ bankerSurplusCoin' \in Int
    BY <1>3 DEF Clearing
  <2> QED BY <1>3, <2>1, HeldIdle, HeldKept DEF Clearing
<1>4. CASE Stepping(k, t)
  <2>1. Held(t)
    BY <1>4, HeldIdle DEF Stepping, HInv
  <2> QED BY <1>0, <1>4, <2>1, HeldKept DEF Stepping, SeatStill
<1>5. CASE Opening(k, t)
  <2>1. Held(t)
    BY <1>5, HeldIdle DEF Opening, HInv
  <2> QED BY <1>0, <1>5, <2>1, HeldKept DEF Opening, SeatStill
<1>6. CASE Ending(k, t)
  <2>1. Held(t)
    <3>1. CASE t = task[k]
      BY <3>1 DEF HInv
    <3>2. CASE t.pc = "start_gold" /\ NoLoad(t)
      BY <3>2, HeldIdle
    <3>3. CASE t.pc = "down_acct" /\ t.u \in User /\ t.coin = 0 /\ t.batch = Return(t.u, bankerGameCoin)
      BY <1>0, <3>3, ReturnBalanced DEF Held
    <3> QED BY <1>6, <3>1, <3>2, <3>3 DEF Ending
  <2> QED BY <1>0, <1>6, <2>1, HeldKept DEF Ending, SeatStill
<1>7. CASE Taking(k, t)
  <2>1. Held(t)
    <3>1. CASE t = Idle
      BY <3>1, HeldIdle
    <3>2. CASE /\ t.pc = "bet_coin" /\ t.u \in User /\ t.bet \in BetMenu
               /\ t.coin = bankerSurplusCoin - t.bet.reduce
               /\ t.batch = Freeze(t.u, t.bet.game_coin)
      <4>1. t.bet.reduce \in Int /\ t.bet.game_coin \in Int
        BY <3>2, RoomAssumption DEF BetType
      <4> QED BY <1>0, <3>2, <4>1, FreezeBatch DEF Held
    <3> QED BY <1>7, <3>1, <3>2 DEF Taking
  <2> QED BY <1>0, <1>7, <2>1, HeldKept DEF Taking, SeatStill
<1>8. CASE Recording(k)
  BY <1>0, <1>8, HeldIdle, HeldKept DEF Recording
<1>9. ASSUME NEW o \in [Bettors -> Outcome], Settling(k, t, o) PROVE HInv'
  <2>1. banker \in User /\ banker \notin Bettors
    <3>1. InPlay /\ banker \in players /\ players \subseteq User
      BY <1>9 DEF Settling, ResultDefined, Complete, InPlay, Base, IInv, RoomOK, SeatOK
    <3> QED BY <3>1 DEF Base, OInv, NotSelf
  <2>2. Balanced(SettleBatch(o)) /\ CoinAfter(o) \in Int /\ SeatFee(o) \in Int
    BY <1>0, <2>1, SettleBatchBalanced, CoinAfterInt DEF Base
  <2>3. Held(t) /\ bankerGameCoin' \in Int /\ bankerSurplusCoin' \in Int
    BY <1>0, <1>9, <2>2 DEF Settling, Held
  <2> QED BY <1>9, <2>3, HeldKept DEF Settling
<1>10. CASE Storing(k, t)
  <2>1. Held(t)
    BY <1>0, <1>10 DEF Storing, SameLoad, Held
  <2> QED BY <1>0, <1>10, <2>1, HeldKept DEF Storing
<1>11. CASE Refunding(k, t)
  <2>1. Held(t)
    <3>1. CASE t = Idle
      BY <3>1, HeldIdle
    <3>2. CASE t # Idle
      <4> DEFINE b == [bal |-> [u \in User |-> Staked(u)],
                       frozen |-> [u \in User |-> -Staked(u)], owner |-> 0]
      <4>1. t.pc = "flow_acct" /\ t.coin = task[k].coin /\ t.batch = b
        BY <1>11, <3>2 DEF Refunding
      <4>2. b \in Batch /\ b.owner = 0 /\ \A u \in User : b.bal[u] + b.frozen[u] = 0
        <5>1. \A u \in User : Staked(u) \in Int
          BY StakesNat DEF Base
        <5> QED BY <5>1 DEF Batch
      <4> HIDE DEF b
      <4> QED BY <1>0, <4>1, <4>2, NetZero DEF Held
    <3> QED BY <3>1, <3>2
  <2>2. bankerGameCoin' \in Int /\ bankerSurplusCoin' \in Int
    BY <1>0, <1>11 DEF Refunding
  <2> QED BY <1>11, <2>1, <2>2, HeldKept DEF Refunding
<1> QED BY <1>1, <1>2, <1>3, <1>4, <1>5, <1>6, <1>7, <1>8, <1>9, <1>10, <1>11 DEF Sorted

(* Coins are conserved by every step. *)
LEMMA CoinsInductive ==
    ASSUME Base, HInv, [Next]_vars
    PROVE  HInv'
<1>1. CASE Resting
  BY <1>1 DEF Resting, RoomStill, SeatStill, HInv, AcctOK, NoDebt, CoinsConserved
<1> QED BY <1>1, StepSorted, CoinsKept

(* A new room: nobody is suspended and everybody has the initial coins. *)
LEMMA InitCoins == Init => OInv /\ HInv
<1> SUFFICES ASSUME Init PROVE OInv /\ HInv
  OBVIOUS
<1>1. \A k \in Coroutine : task[k] = Idle
  BY DEF Init
<1>2. OInv
  <2>1. Alone /\ Seated /\ NotSelf
    BY <1>1, IdleFields DEF Init, Alone, Meets, Seated, NotSelf, InPlay
  <2>2. \A k \in Coroutine : Placed(task[k], game_step, banker)
    BY <1>1, PlacedIdle, IdleFields
  <2> QED BY <2>1, <2>2 DEF OInv
<1>3. /\ AcctOK /\ acct.owner = 0 /\ \A u \in User : acct.bal[u] + acct.frozen[u] = InitBal
  <2>1. InitBal \in Nat /\ InitGold \in Nat
    BY RoomAssumption
  <2> QED BY <2>1 DEF Init, NoCoins, AcctOK
<1>4. CoinsConserved
  <2> DEFINE f == [u \in User |-> acct.bal[u] + acct.frozen[u]]
  <2>1. DOMAIN f = User /\ \A u \in User : f[u] = InitBal
    BY <1>3
  <2> HIDE DEF f
  <2>2. SumFunction(f) = InitBal * Cardinality(User)
    BY <2>1, SumDomain, SumConst, RoomAssumption
  <2>3. InitBal * Cardinality(User) \in Int
    BY RoomAssumption, FS_CardinalityType
  <2>4. SumFunction(f) + acct.owner = InitBal * Cardinality(User)
    BY <1>3, <2>2, <2>3
  <2> QED BY <2>4 DEF f, CoinsConserved
<1>5. NoDebt
  BY DEF Init, NoCoins, NoDebt
<1>6. HInv
  BY <1>1, <1>3, <1>4, <1>5, HeldIdle DEF Init, HInv
<1> QED BY <1>2, <1>6

(* The order and the coins, together. *)
LEMMA CoinsInvariance ==
    ASSUME BetOverlapOnly
    PROVE  Spec => [](IInv /\ OInv /\ HInv)
<1>1. IInv /\ OInv /\ HInv /\ [Next]_vars => OInv' /\ HInv'
  BY OrderInductive, CoinsInductive DEF Base, HInv
<1>2. Init => IInv /\ OInv /\ HInv
  BY InitIInv, InitCoins
<1>3. IInv /\ [Next]_vars => IInv'
  BY Inductive
<1> QED BY <1>1, <1>2, <1>3, PTL DEF Spec

(* No coin is created or destroyed (CoinsConserved): the robs, bids, bets,  *)
(* settlements and refunds of logic.lua ask the account server for batches  *)
(* that add up to nothing, with any number of members and rounds, also when *)
(* answers fail or are lost.  Bets may overlap each other and the timer's   *)
(* work.  A settlement adds up only if no bettor is the banker, and it      *)
(* takes a rob, a bid or a down_banker that overlaps to make him one.       *)
THEOREM CoinsAlwaysConserved ==
    ASSUME BetOverlapOnly
    PROVE  Spec => []CoinsConserved
<1>1. HInv => CoinsConserved
  BY DEF HInv
<1> QED BY <1>1, CoinsInvariance, PTL

-----------------------------------------------------------------------------
(* Bets are backed by frozen coins of players.                             *)

(* What the bets may cost depends on the recorded bets alone. *)
LEMMA StakesSame ==
    ASSUME bet_data' = bet_data
    PROVE  /\ \A u \in User : Staked(u)' = Staked(u) /\ Exposure(u)' = Exposure(u)
           /\ Risk' = Risk
<1>1. Bettors' = Bettors
  BY BettorsSame
<1>2. \A u : Staked(u)' = Staked(u) /\ Exposure(u)' = Exposure(u)
  BY <1>1 DEF Staked, Exposure
<1> QED BY <1>1, <1>2 DEF Risk

(* A recorded bet adds its amounts to those of its bettor. *)
LEMMA StakesRecorded ==
    ASSUME Base, NEW k \in Coroutine, Recording(k), NEW w, w = task[k].u
    PROVE  /\ w \in User /\ task[k].bet.game_coin \in Nat /\ task[k].bet.reduce \in Nat
           /\ Staked(w)' = Staked(w) + task[k].bet.game_coin
           /\ Exposure(w)' = Exposure(w) + task[k].bet.reduce
           /\ \A u \in User : u # w => Staked(u)' = Staked(u) /\ Exposure(u)' = Exposure(u)
<1>1. /\ w \in User /\ task[k].bet \in BetMenu
      /\ bet_data \in [User -> Seq(BetMenu)] /\ bet_data # None /\ bet_data' # None
      /\ bet_data'[w] = Append(bet_data[w], task[k].bet)
      /\ \A u \in User : u # w => bet_data'[u] = bet_data[u]
      /\ Bettors' = Bettors \cup {w}
  BY BettorsRecorded DEF Recording
<1>2. \A b \in BetMenu : b.game_coin \in Nat /\ b.reduce \in Nat
  BY RoomAssumption DEF BetType
<1>3. \A u \in User : u # w => Staked(u)' = Staked(u) /\ Exposure(u)' = Exposure(u)
  BY <1>1 DEF Staked, Exposure
<1> DEFINE q == bet_data[w]
           b == task[k].bet
           r == bet_data'[w]
           n == Len(q)
           f == [i \in DOMAIN q |-> q[i].game_coin]
           g == [i \in DOMAIN r |-> r[i].game_coin]
           x == [i \in DOMAIN q |-> q[i].reduce]
           y == [i \in DOMAIN r |-> r[i].reduce]
<1>4. q \in Seq(BetMenu) /\ b \in BetMenu /\ r = Append(q, b)
  BY <1>1
<1>5. Staked(w)' = SumFunction(g) /\ Exposure(w)' = SumFunction(y)
  BY <1>1 DEF Staked, Exposure
<1>6. /\ w \in Bettors => Staked(w) = SumFunction(f) /\ Exposure(w) = SumFunction(x)
      /\ w \notin Bettors => q = << >> /\ Staked(w) = 0 /\ Exposure(w) = 0
  BY <1>1 DEF Staked, Exposure, Bettors
<1> HIDE DEF q, b, r
<1>7. /\ n \in Nat /\ DOMAIN q = 1..n /\ DOMAIN r = 1..(n + 1)
      /\ \A i \in 1..n : r[i] = q[i] /\ q[i] \in BetMenu
      /\ r[n + 1] = b /\ (q = << >> => n = 0)
  BY <1>4
<1>8. /\ DOMAIN f = 1..n /\ DOMAIN g = 1..(n + 1)
      /\ DOMAIN x = 1..n /\ DOMAIN y = 1..(n + 1)
      /\ \A i \in 1..n : f[i] \in Int /\ g[i] = f[i] /\ x[i] \in Int /\ y[i] = x[i]
      /\ g[n + 1] = b.game_coin /\ y[n + 1] = b.reduce
  BY <1>2, <1>7
<1>9. b.game_coin \in Nat /\ b.reduce \in Nat
  BY <1>2, <1>4
<1> HIDE DEF f, g, x, y, n
<1>10. n \in Nat
  BY <1>7
<1>11. SumFunction(g) = SumFunction(f) + b.game_coin
  BY <1>8, <1>9, <1>10, SumExtend
<1>12. SumFunction(y) = SumFunction(x) + b.reduce
  <2>1. /\ DOMAIN x = 1..n /\ DOMAIN y = 1..(n + 1)
        /\ \A i \in 1..n : x[i] \in Int /\ y[i] = x[i]
        /\ y[n + 1] = b.reduce /\ b.reduce \in Int
    BY <1>8, <1>9
  <2>2. SumFunction(y) = SumFunction(x) + y[n + 1]
    BY <1>10, <2>1, SumExtend
  <2> QED BY <2>1, <2>2
<1>13. w \notin Bettors => SumFunction(f) = 0 /\ SumFunction(x) = 0
  <2> SUFFICES ASSUME w \notin Bettors PROVE SumFunction(f) = 0 /\ SumFunction(x) = 0
    OBVIOUS
  <2>1. n = 0 /\ 1..0 = {}
    BY <1>6, <1>7
  <2>2. DOMAIN f = {} /\ DOMAIN x = {}
    BY <1>8, <2>1
  <2> QED BY <2>2, SumDomain, SumEmpty
<1>14. Staked(w) = SumFunction(f) /\ Exposure(w) = SumFunction(x)
  BY <1>6, <1>13
<1>15. Staked(w)' = Staked(w) + b.game_coin /\ Exposure(w)' = Exposure(w) + b.reduce
  BY <1>5, <1>11, <1>12, <1>14, Zenon
<1> QED BY <1>1, <1>3, <1>9, <1>15 DEF b

(* During a round the account server books only what bets freeze. *)
LEMMA FrozenRises ==
    ASSUME Base, HInv, NEW k \in Coroutine, InPlay, AcctKept \/ AcctBooked(k)
    PROVE  /\ \A u \in User : acct.frozen[u] \in Int /\ acct'.frozen[u] \in Int
                              /\ acct.frozen[u] <= acct'.frozen[u]
           /\ AcctBooked(k) =>
                acct'.frozen[task[k].u] = acct.frozen[task[k].u] + task[k].bet.game_coin
<1>1. \A u \in User : acct.frozen[u] \in Int
  BY DEF Base, AcctOK
<1>2. CASE AcctKept /\ ~AcctBooked(k)
  BY <1>1, <1>2 DEF AcctKept
<1>3. CASE AcctBooked(k)
  <2>1. task[k].pc = "bet_coin"
    <3>1. task[k].pc \in AcctPC /\ Placed(task[k], game_step, banker) /\ Seated
      BY <1>3 DEF AcctBooked, Base, OInv
    <3> QED BY <3>1 DEF AcctPC, Placed, Seated, InPlay, AfterPC, SettlePC
  <2> DEFINE w == task[k].u
             c == task[k].bet.game_coin
             b == task[k].batch
  <2>2. w \in User /\ c \in Nat
    <3>1. w \in User /\ task[k].bet \in BetMenu
      BY <2>1 DEF Base, IInv, TaskOK, Fine, ForUser
    <3> QED BY <3>1, RoomAssumption DEF BetType
  <2>3. b = Freeze(w, c) /\ acct' = Booked(b) /\ AcctOK /\ CoinsConserved
    BY <1>3, <2>1 DEF AcctBooked, HInv, Held
  <2> HIDE DEF w, c, b
  <2>4. /\ b \in Batch /\ Balanced(b) /\ b.frozen[w] = c
        /\ \A v \in User : v # w => b.frozen[v] = 0
    BY <2>2, <2>3, FreezeBatch
  <2>5. Net(b) = 0
    BY <1>3, <2>4 DEF Balanced, AcctBooked, Covered, b
  <2>6. \A u \in User : acct'.frozen[u] = acct.frozen[u] + b.frozen[u]
    BY <2>3, <2>4, <2>5, BookedConserves
  <2>7. acct'.frozen[w] = acct.frozen[w] + c
    BY <2>2, <2>4, <2>6
  <2>8. \A u \in User : acct'.frozen[u] \in Int /\ acct.frozen[u] <= acct'.frozen[u]
    BY <1>1, <2>2, <2>4, <2>6
  <2> QED BY <1>1, <2>7, <2>8 DEF w, c
<1> QED BY <1>2, <1>3

(* The bets in play stay as they are. *)
LEMMA BackedKept ==
    ASSUME Base, HInv, BInv, NEW k \in Coroutine, AcctKept \/ AcctBooked(k),
           InPlay' => InPlay, Bettors' = Bettors, players' = players,
           \A u \in User : Staked(u)' = Staked(u)
    PROVE  BInv'
<1>1. BettorsArePlayers'
  BY DEF BInv, BettorsArePlayers
<1>2. BetsBacked'
  <2> SUFFICES ASSUME InPlay', NEW u \in Bettors PROVE acct'.frozen[u] >= Staked(u)'
    BY DEF BetsBacked
  <2>1. InPlay /\ u \in User
    BY BettorsFinite
  <2>2. acct.frozen[u] \in Int /\ acct'.frozen[u] \in Int /\ acct.frozen[u] <= acct'.frozen[u]
    BY <2>1, FrozenRises
  <2>3. acct.frozen[u] >= Staked(u) /\ Staked(u)' = Staked(u) /\ Staked(u) \in Int
    BY <2>1, StakesNat DEF BInv, BetsBacked, Base
  <2> QED BY <2>2, <2>3
<1> QED BY <1>1, <1>2 DEF BInv

(* Nothing is in play. *)
LEMMA BackedIdle ==
    ASSUME ~InPlay' \/ Bettors' = {}
    PROVE  BInv'
<1>1. BettorsArePlayers'
  BY DEF BettorsArePlayers
<1>2. BetsBacked'
  BY DEF BetsBacked
<1> QED BY <1>1, <1>2 DEF BInv

(* A recorded bet brings the coins that back it. *)
LEMMA BackedRecording ==
    ASSUME Base, HInv, BInv, NEW k \in Coroutine, Recording(k)
    PROVE  BInv'
<1> SUFFICES ASSUME InPlay' PROVE BInv'
  BY BackedIdle
<1>1. PICK w : w = task[k].u
  OBVIOUS
<1> DEFINE c == task[k].bet.game_coin
<1>2. /\ w \in User /\ c \in Nat /\ Staked(w)' = Staked(w) + c
      /\ \A u \in User : u # w => Staked(u)' = Staked(u)
  BY <1>1, StakesRecorded
<1>3. /\ InPlay /\ AcctBooked(k) /\ Bettors' = Bettors \cup {w}
      /\ players' = (IF players = None THEN {} ELSE players) \cup {w}
  BY <1>1, BettorsRecorded DEF Recording, InPlay
<1>4. /\ \A u \in User : acct.frozen[u] \in Int /\ acct'.frozen[u] \in Int
                         /\ acct.frozen[u] <= acct'.frozen[u]
      /\ acct'.frozen[w] = acct.frozen[w] + c
  BY <1>1, <1>3, FrozenRises
<1> HIDE DEF c
<1>5. BettorsArePlayers'
  <2>1. players' # None
    <3>1. players' \in SUBSET User
      BY <1>2, <1>3 DEF Base, IInv, RoomOK, SeatOK
    <3> QED BY <3>1, RoomAssumption
  <2>2. Bettors' \subseteq players'
    BY <1>3 DEF BInv, BettorsArePlayers
  <2> QED BY <2>1, <2>2 DEF BettorsArePlayers
<1>6. BetsBacked'
  <2> SUFFICES ASSUME NEW u \in Bettors' PROVE acct'.frozen[u] >= Staked(u)'
    BY DEF BetsBacked
  <2>1. u \in User
    BY <1>2, <1>3, BettorsFinite
  <2>2. acct.frozen[u] >= Staked(u) /\ Staked(u) \in Int
    <3>1. Staked(u) \in Nat
      BY <2>1, StakesNat DEF Base
    <3>2. CASE u \in Bettors
      BY <1>3, <3>1, <3>2 DEF BInv, BetsBacked
    <3>3. CASE u \notin Bettors
      <4>1. Staked(u) = 0
        BY <3>3 DEF Staked
      <4>2. acct.frozen[u] >= 0
        BY <2>1 DEF NoDebt, HInv
      <4> QED BY <3>1, <4>1, <4>2
    <3> QED BY <3>2, <3>3
  <2>3. CASE u = w
    BY <1>2, <1>4, <2>1, <2>2, <2>3
  <2>4. CASE u # w
    BY <1>2, <1>4, <2>1, <2>2, <2>4
  <2> QED BY <2>3, <2>4
<1> QED BY <1>5, <1>6 DEF BInv

(* A bet that is checked leaves the recorded bets as they are. *)
LEMMA StakesTaken ==
    ASSUME NEW k \in Coroutine, NEW t, Taking(k, t)
    PROVE  /\ Bettors' = Bettors /\ Risk' = Risk
           /\ \A u \in User : Staked(u)' = Staked(u) /\ Exposure(u)' = Exposure(u)
<1>1. bet_data' = IF bet_data = None THEN [v \in User |-> << >>] ELSE bet_data
  BY DEF Taking
<1>2. CASE bet_data # None
  <2>1. bet_data' = bet_data
    BY <1>1, <1>2
  <2> QED BY <2>1, StakesSame, BettorsSame
<1>3. CASE bet_data = None
  <2>1. Bettors' = {} /\ Bettors = {}
    BY <1>1, <1>3, RoomAssumption DEF Bettors
  <2>2. \A u : /\ Staked(u)' = 0 /\ Staked(u) = 0 /\ Exposure(u)' = 0 /\ Exposure(u) = 0
    BY <2>1 DEF Staked, Exposure
  <2>3. Risk' = Risk
    BY <2>1, <2>2 DEF Risk
  <2> QED BY <2>1, <2>2, <2>3
<1> QED BY <1>2, <1>3

(* Every sort of step keeps the bets backed. *)
LEMMA BackedSorted ==
    ASSUME Base, HInv, BInv, NEW k \in Coroutine, NEW t, Sorted(k, t)
    PROVE  BInv'
<1>0. Placed(task[k], game_step, banker) /\ Seated
  BY DEF Base, OInv
<1>1. CASE Turning(k, t)
  BY <1>1, BackedKept, BettorsSame, StakesSame DEF Turning, RoomStill, InPlay
<1>2. CASE Seating(k, t)
  <2>1. ~InPlay'
    BY <1>0, <1>2 DEF Seating, Placed, Seated, InPlay
  <2> QED BY <2>1, BackedIdle
<1>3. CASE Clearing(k)
  <2>1. ~InPlay'
    BY <1>0, <1>3 DEF Clearing, Placed, InPlay
  <2> QED BY <2>1, BackedIdle
<1>4. CASE Stepping(k, t)
  <2>1. AcctKept \/ AcctBooked(k)
    BY <1>4 DEF Stepping
  <2>2. (InPlay' => InPlay) /\ players' = players /\ bet_data' = bet_data
    BY <1>4 DEF Stepping
  <2> QED BY <2>1, <2>2, BackedKept, BettorsSame, StakesSame
<1>5. CASE Opening(k, t) \/ Ending(k, t)
  BY <1>5, BettorsNone, BackedIdle DEF Opening, Ending
<1>6. CASE Taking(k, t)
  <2>1. AcctKept /\ (InPlay' => InPlay) /\ players' = players
    BY <1>6 DEF Taking, InPlay
  <2> QED BY <1>6, <2>1, BackedKept, StakesTaken
<1>7. CASE Recording(k)
  BY <1>7, BackedRecording
<1>8. ASSUME NEW o, Settling(k, t, o) PROVE BInv'
  <2>1. ~InPlay'
    BY <1>8 DEF Settling, InPlay
  <2> QED BY <2>1, BackedIdle
<1>9. CASE Storing(k, t) \/ Refunding(k, t)
  <2>1. ~InPlay'
    BY <1>0, <1>9 DEF Storing, Refunding, Placed, InPlay, AfterPC, SettlePC
  <2> QED BY <2>1, BackedIdle
<1> QED BY <1>1, <1>2, <1>3, <1>4, <1>5, <1>6, <1>7, <1>8, <1>9 DEF Sorted

(* Bets stay backed at every step. *)
LEMMA BackedInductive ==
    ASSUME Base, HInv, BInv, [Next]_vars
    PROVE  BInv'
<1>1. CASE Resting
  <2>1. /\ bet_data' = bet_data /\ acct' = acct /\ players' = players /\ game_step' = game_step
    BY <1>1 DEF Resting, RoomStill
  <2>2. Bettors' = Bettors /\ \A u \in User : Staked(u)' = Staked(u)
    BY <2>1, BettorsSame, StakesSame
  <2>3. BetsBacked'
    BY <2>1, <2>2, BettorsFinite DEF BInv, BetsBacked, InPlay
  <2>4. BettorsArePlayers'
    BY <2>1, <2>2 DEF BInv, BettorsArePlayers, InPlay
  <2> QED BY <2>3, <2>4 DEF BInv
<1> QED BY <1>1, StepSorted, BackedSorted

(* Bets are always backed. *)
LEMMA BackedInvariance ==
    ASSUME BetOverlapOnly
    PROVE  Spec => []BInv
<1>1. IInv /\ OInv /\ HInv /\ BInv /\ [Next]_vars => BInv'
  BY BackedInductive DEF Base, HInv
<1>2. Init => BInv
  BY DEF Init, BInv, BetsBacked, BettorsArePlayers, InPlay
<1> QED BY <1>1, <1>2, CoinsInvariance, PTL DEF Spec

-----------------------------------------------------------------------------
(* The banker covers the bets.                                             *)

(* What the bets may cost the banker is a number of coins. *)
LEMMA RiskNat == IInv => Risk \in Nat
<1> SUFFICES ASSUME IInv PROVE Risk \in Nat
  OBVIOUS
<1> DEFINE g == [u \in Bettors |-> Exposure(u)]
<1>1. DOMAIN g = Bettors /\ \A u \in Bettors : g[u] \in Nat
  BY StakesNat, BettorsFinite
<1>2. Risk = SumFunction(g)
  BY DEF Risk
<1> HIDE DEF g
<1> QED BY <1>1, <1>2, SumDomain, SumNat, BettorsFinite

(* The exposures of the bettors, summed over all members. *)
LEMMA RiskOver ==
    ASSUME NEW B, B \subseteq User, NEW e, \A u \in User : e[u] \in Nat,
           \A u \in User \ B : e[u] = 0
    PROVE  SumFunction([u \in B |-> e[u]]) = SumFunctionOnSet(e, User)
<1> DEFINE f == [u \in B |-> e[u]]
<1>1. DOMAIN f = B /\ \A u \in B : f[u] \in Int /\ e[u] = f[u]
  OBVIOUS
<1> HIDE DEF f
<1>2. IsFiniteSet(B) /\ IsFiniteSet(User)
  BY FS_Subset, RoomAssumption
<1>3. SumFunction(f) = SumFunctionOnSet(f, B)
  BY <1>1, SumDomain
<1>4. SumFunctionOnSet(f, B) = SumFunctionOnSet(e, B)
  BY <1>1, <1>2, SumEqual
<1>5. SumFunctionOnSet(e, B) = SumFunctionOnSet(e, User)
  <2>1. \A u \in User : e[u] \in Int
    OBVIOUS
  <2> QED BY <1>2, <2>1, SumSupport
<1> QED BY <1>3, <1>4, <1>5 DEF f

(* A recorded bet adds what it may cost the banker. *)
LEMMA RiskRecorded ==
    ASSUME Base, NEW k \in Coroutine, Recording(k)
    PROVE  Risk' = Risk + task[k].bet.reduce /\ Risk \in Nat /\ task[k].bet.reduce \in Nat
<1>1. PICK w : w = task[k].u
  OBVIOUS
<1> DEFINE c == task[k].bet.reduce
           e == [u \in User |-> Exposure(u)]
           h == [u \in User |-> Exposure(u)']
<1>2. /\ w \in User /\ c \in Nat /\ Exposure(w)' = Exposure(w) + c
      /\ \A u \in User : u # w => Exposure(u)' = Exposure(u)
  BY <1>1, StakesRecorded
<1>3. \A u \in User : Exposure(u) \in Nat
  BY StakesNat DEF Base
<1>4. Bettors' = Bettors \cup {w} /\ Bettors \subseteq User /\ Bettors' \subseteq User
  BY <1>1, <1>2, BettorsRecorded, BettorsFinite
<1>5. Risk \in Nat
  BY RiskNat DEF Base
<1> HIDE DEF c
<1>6. /\ \A u \in User : e[u] \in Nat /\ h[u] \in Nat
      /\ h[w] = e[w] + c /\ \A u \in User : u # w => h[u] = e[u]
  BY <1>2, <1>3
<1>7. /\ \A u \in User \ Bettors : e[u] = 0
      /\ \A u \in User \ Bettors' : h[u] = 0
  BY DEF Exposure
<1>8. /\ Risk = SumFunction([u \in Bettors |-> e[u]])
      /\ Risk' = SumFunction([u \in Bettors' |-> h[u]])
  <2>1. [u \in Bettors |-> e[u]] = [u \in Bettors |-> Exposure(u)]
    BY <1>4
  <2>2. [u \in Bettors' |-> h[u]] = [u \in Bettors' |-> Exposure(u)']
    BY <1>4
  <2> QED BY <2>1, <2>2 DEF Risk
<1> HIDE DEF e, h
<1>9. Risk = SumFunctionOnSet(e, User)
  BY <1>4, <1>6, <1>7, <1>8, RiskOver
<1>10. Risk' = SumFunctionOnSet(h, User)
  BY <1>4, <1>6, <1>7, <1>8, RiskOver
<1>11. SumFunctionOnSet(h, User) = (SumFunctionOnSet(e, User) - e[w]) + h[w]
  <2>1. \A u \in User : e[u] \in Int /\ h[u] \in Int
    BY <1>6
  <2> QED BY <1>2, <1>6, <2>1, SumUpdate, RoomAssumption
<1>12. Risk' = Risk + c
  BY <1>2, <1>5, <1>6, <1>9, <1>10, <1>11
<1> QED BY <1>2, <1>5, <1>12 DEF c

(* A coroutine that is neither a bet nor a settlement has no promise. *)
LEMMA PledgeIdle ==
    ASSUME NEW t, t.coin \in Nat, t.pc \notin SettlePC \cup {"bet_coin"}, NEW b, NEW g, NEW s, NEW p
    PROVE  Pledge(t, b, g, s, p)
BY DEF Pledge

(* It is enough to look at the seat and at the promises. *)
LEMMA CoverKept ==
    ASSUME NEW k \in Coroutine, NEW t, Moved(k, t),
           bankerGameCoin' \in Nat, bankerSurplusCoin' \in Nat,
           banker' # None => bankerSurplusCoin' <= bankerGameCoin',
           InPlay' => Risk' + bankerSurplusCoin' <= bankerGameCoin',
           Pledge(t, banker', bankerGameCoin', bankerSurplusCoin', Taken'),
           \A j \in Coroutine : j # k =>
              Pledge(task[j], banker', bankerGameCoin', bankerSurplusCoin', Taken')
    PROVE  LInv'
<1>1. \A j \in Coroutine : Pledge(task'[j], banker', bankerGameCoin', bankerSurplusCoin', Taken')
  BY DEF Moved
<1> QED BY <1>1 DEF LInv

(* The seat stays as it is. *)
LEMMA CoverStill ==
    ASSUME LInv, NEW k \in Coroutine, NEW t, Moved(k, t), SeatStill,
           (InPlay' => InPlay /\ Risk' = Risk) \/ (Risk' = 0 /\ banker # None),
           (Taken' => Taken) \/ (\A j \in Coroutine : task[j].pc # "bet_coin"),
           Pledge(t, banker, bankerGameCoin, bankerSurplusCoin, Taken')
    PROVE  LInv'
<1>0. /\ banker' = banker /\ bankerGameCoin' = bankerGameCoin /\ bankerSurplusCoin' = bankerSurplusCoin
  BY DEF SeatStill
<1>1. bankerGameCoin' \in Nat /\ bankerSurplusCoin' \in Nat /\ (banker' # None => bankerSurplusCoin' <= bankerGameCoin')
  BY <1>0 DEF LInv
<1>2. InPlay' => Risk' + bankerSurplusCoin' <= bankerGameCoin'
  <2>1. CASE InPlay' => InPlay /\ Risk' = Risk
    BY <1>0, <2>1 DEF LInv
  <2>2. CASE Risk' = 0 /\ banker # None
    BY <1>0, <2>2 DEF LInv
  <2> QED BY <2>1, <2>2
<1>3. \A j \in Coroutine : j # k =>
        Pledge(task[j], banker', bankerGameCoin', bankerSurplusCoin', Taken')
  BY <1>0 DEF LInv, Pledge
<1>4. Pledge(t, banker', bankerGameCoin', bankerSurplusCoin', Taken')
  BY <1>0
<1> QED BY <1>1, <1>2, <1>3, <1>4, CoverKept

(* A turn keeps the cover. *)
LEMMA CoverTurning ==
    ASSUME Base, LInv, NEW k \in Coroutine, NEW t, Turning(k, t)
    PROVE  LInv'
<1>1. RoomStill /\ Moved(k, t) /\ Turn(k, t)
  BY DEF Turning
<1>2. SeatStill /\ Risk' = Risk /\ (InPlay' => InPlay) /\ (Taken' => Taken)
  BY <1>1, StakesSame DEF RoomStill, InPlay, Taken
<1>3. Pledge(t, banker, bankerGameCoin, bankerSurplusCoin, Taken')
  <2>1. Pledge(task[k], banker, bankerGameCoin, bankerSurplusCoin, Taken) /\ task[k].coin \in Nat
    BY DEF LInv, Pledge
  <2>2. CASE t.coin \in Nat /\ t.pc \notin SettlePC \cup {"bet_coin"}
    BY <2>2, PledgeIdle
  <2>3. CASE /\ SameLoad(k, t) /\ task[k].pc \in SettlePC
             /\ t.pc \in {"result_gold", "result_acct", "result_db"}
    BY <2>1, <2>3 DEF Pledge, SameLoad
  <2>4. CASE t = Idle
    BY <2>4, PledgeIdle, IdleFields DEF NoLoad, SettlePC
  <2>5. \/ t = Idle
        \/ t.coin \in Nat /\ t.pc \notin SettlePC \cup {"bet_coin"}
        \/ /\ SameLoad(k, t) /\ task[k].pc \in SettlePC
           /\ t.pc \in {"result_gold", "result_acct", "result_db"}
    BY <1>1, <2>1 DEF Turn, SettlePC, NoLoad, SameLoad
  <2> QED BY <2>2, <2>3, <2>4, <2>5
<1> QED BY <1>1, <1>2, <1>3, CoverStill

(* A new banker covers bets with all his coins. *)
LEMMA CoverSeating ==
    ASSUME Base, LInv, NEW k \in Coroutine, NEW t, Seating(k, t)
    PROVE  LInv'
<1>1. /\ OthersIdle(k) /\ Moved(k, t)
      /\ bankerGameCoin' = task[k].coin /\ bankerSurplusCoin' = task[k].coin
      /\ \/ t = Idle
         \/ t.pc = "rob_db" /\ t.coin = task[k].coin
  BY DEF Seating, SameLoad
<1>2. ~InPlay'
  BY DEF Seating, Placed, Seated, InPlay, Base, OInv
<1>3. \A j \in Coroutine : task[j].coin \in Nat
  BY DEF LInv, Pledge
<1>4. Pledge(t, banker', bankerGameCoin', bankerSurplusCoin', Taken')
  BY <1>1, <1>3, IdleFields DEF Pledge, NoLoad, SettlePC
<1>5. \A j \in Coroutine : j # k =>
        Pledge(task[j], banker', bankerGameCoin', bankerSurplusCoin', Taken')
  BY <1>1, <1>3 DEF OthersIdle, Pledge, SettlePC
<1>6. bankerGameCoin' \in Nat /\ bankerSurplusCoin' \in Nat /\ bankerSurplusCoin' <= bankerGameCoin'
  BY <1>1, <1>3
<1> QED BY <1>1, <1>2, <1>4, <1>5, <1>6, CoverKept

(* An empty seat covers nothing. *)
LEMMA CoverClearing ==
    ASSUME Base, LInv, NEW k \in Coroutine, Clearing(k)
    PROVE  LInv'
<1>1. /\ OthersBet(k) /\ Moved(k, Idle)
      /\ banker' = None /\ bankerGameCoin' = 0 /\ bankerSurplusCoin' = 0
  BY DEF Clearing
<1>2. ~InPlay' /\ ~Taken'
  BY DEF Clearing, Placed, InPlay, Taken, Base, OInv
<1>3. \A j \in Coroutine : task[j].coin \in Nat
  BY DEF LInv, Pledge
<1>4. Pledge(Idle, banker', bankerGameCoin', bankerSurplusCoin', Taken')
  BY IdleFields DEF Pledge, NoLoad, SettlePC
<1>5. \A j \in Coroutine : j # k =>
        Pledge(task[j], banker', bankerGameCoin', bankerSurplusCoin', Taken')
  BY <1>1, <1>2, <1>3 DEF OthersBet, Pledge, SettlePC, BetPC
<1> QED BY <1>1, <1>2, <1>4, <1>5, CoverKept

(* A new step keeps the cover. *)
LEMMA CoverStepping ==
    ASSUME Base, LInv, NEW k \in Coroutine, NEW t, Stepping(k, t)
    PROVE  LInv'
<1>1. SeatStill /\ Moved(k, t) /\ Risk' = Risk /\ (InPlay' => InPlay) /\ (Taken' => Taken)
  BY StakesSame DEF Stepping, Taken
<1>2. t.coin \in Nat /\ t.pc \notin SettlePC \cup {"bet_coin"}
  <2>1. task[k].coin \in Nat
    BY DEF LInv, Pledge
  <2> QED BY <2>1, IdleFields DEF Stepping, NoLoad, SettlePC
<1> QED BY <1>1, <1>2, PledgeIdle, CoverStill

(* Without bets nothing is pledged. *)
LEMMA CoverOpening ==
    ASSUME Base, LInv, NEW k \in Coroutine, NEW t, Opening(k, t) \/ Ending(k, t)
    PROVE  LInv'
<1>1. /\ SeatStill /\ Moved(k, t) /\ bet_data' = None
      /\ (banker # None) \/ ~InPlay'
  BY DEF Opening, Ending, InPlay
<1>2. Risk' = 0 /\ ~Taken'
  <2>1. Bettors' = {}
    BY <1>1, BettorsNone
  <2> DEFINE f == [u \in Bettors' |-> Exposure(u)']
  <2>2. DOMAIN f = {}
    BY <2>1
  <2>3. Risk' = SumFunction(f)
    BY DEF Risk
  <2> HIDE DEF f
  <2> QED BY <1>1, <2>2, <2>3, SumDomain, SumEmpty DEF Taken
<1>3. t.coin \in Nat /\ t.pc \notin SettlePC \cup {"bet_coin"}
  <2>1. task[k].coin \in Nat
    BY DEF LInv, Pledge
  <2> QED BY <2>1, IdleFields DEF Opening, Ending, NoLoad, SettlePC
<1>4. Pledge(t, banker, bankerGameCoin, bankerSurplusCoin, Taken')
  BY <1>3, PledgeIdle
<1> QED BY <1>1, <1>2, <1>4, CoverStill

(* A bet is promised what the surplus still holds. *)
LEMMA CoverTaking ==
    ASSUME Base, LInv, NEW k \in Coroutine, NEW t, Taking(k, t)
    PROVE  LInv'
<1>1. /\ SeatStill /\ Moved(k, t) /\ (InPlay' => InPlay) /\ Risk' = Risk
      /\ \A j \in Coroutine : task[j].pc # "bet_coin"
  BY StakesTaken DEF Taking, InPlay
<1>2. Pledge(t, banker, bankerGameCoin, bankerSurplusCoin, Taken')
  <2>1. CASE t = Idle
    BY <2>1, PledgeIdle, IdleFields DEF NoLoad, SettlePC
  <2>2. CASE /\ t.pc = "bet_coin" /\ t.bet \in BetMenu
             /\ t.coin = bankerSurplusCoin - t.bet.reduce /\ ~(t.coin < 0)
    <3>1. t.bet.reduce \in Nat
      BY <2>2, RoomAssumption DEF BetType
    <3>2. /\ bankerSurplusCoin \in Nat /\ bankerGameCoin \in Nat
          /\ banker # None => bankerSurplusCoin <= bankerGameCoin
      BY DEF LInv
    <3>3. t.coin \in Nat /\ t.coin + t.bet.reduce = bankerSurplusCoin /\ (banker # None => t.coin <= bankerGameCoin)
      BY <2>2, <3>1, <3>2
    <3> QED BY <2>2, <3>3 DEF Pledge, SettlePC
  <2> QED BY <2>1, <2>2 DEF Taking
<1> QED BY <1>1, <1>2, CoverStill

(* A recorded bet takes its pledge out of the surplus. *)
LEMMA CoverRecording ==
    ASSUME Base, LInv, NEW k \in Coroutine, Recording(k)
    PROVE  LInv'
<1>1. /\ Moved(k, Idle) /\ task[k].pc = "bet_coin" /\ bet_data # None
      /\ bankerSurplusCoin' = task[k].coin /\ banker' = banker
      /\ bankerGameCoin' = bankerGameCoin /\ game_step' = game_step
  BY DEF Recording
<1>2. Pledge(task[k], banker, bankerGameCoin, bankerSurplusCoin, Taken)
  BY DEF LInv
<1>3. /\ bankerGameCoin' \in Nat /\ bankerSurplusCoin' \in Nat
      /\ banker' # None => bankerSurplusCoin' <= bankerGameCoin'
  BY <1>1, <1>2 DEF LInv, Pledge
<1>4. InPlay' => Risk' + bankerSurplusCoin' <= bankerGameCoin'
  <2> SUFFICES ASSUME InPlay' PROVE Risk' + bankerSurplusCoin' <= bankerGameCoin'
    OBVIOUS
  <2>1. InPlay /\ Taken
    BY <1>1 DEF InPlay, Taken
  <2>2. Risk' = Risk + task[k].bet.reduce /\ Risk \in Nat /\ task[k].bet.reduce \in Nat
    BY RiskRecorded
  <2>3. task[k].coin + task[k].bet.reduce = bankerSurplusCoin /\ task[k].coin \in Nat
    BY <1>1, <1>2, <2>1 DEF Pledge
  <2>4. Risk + bankerSurplusCoin <= bankerGameCoin /\ bankerGameCoin \in Nat /\ bankerSurplusCoin \in Nat
    BY <2>1 DEF LInv
  <2> QED BY <1>1, <2>2, <2>3, <2>4
<1>5. \A j \in Coroutine : j # k => task[j].pc # "bet_coin"
  BY <1>1 DEF Base, IInv, Serialised, At
<1>6. \A j \in Coroutine : j # k =>
        Pledge(task[j], banker', bankerGameCoin', bankerSurplusCoin', Taken')
  BY <1>1, <1>5 DEF LInv, Pledge
<1>7. Pledge(Idle, banker', bankerGameCoin', bankerSurplusCoin', Taken')
  BY IdleFields DEF Pledge, NoLoad, SettlePC
<1> QED BY <1>1, <1>3, <1>4, <1>6, <1>7, CoverKept

(* The settlement leaves the banker at least the surplus. *)
LEMMA CoverSettling ==
    ASSUME Base, LInv, NEW k \in Coroutine, NEW t, NEW o \in [Bettors -> Outcome], Settling(k, t, o)
    PROVE  LInv'
<1> DEFINE c == CoinAfter(o)
           fee == SeatFee(o)
<1>1. /\ OthersBet(k) /\ Moved(k, t) /\ InPlay /\ ~InPlay' /\ Taken /\ ~Taken'
      /\ bankerGameCoin' = c /\ banker' = banker /\ bankerSurplusCoin' = bankerSurplusCoin
      /\ t.pc = "result_log" /\ t.coin = c - fee
  BY DEF Settling, InPlay, Taken, ResultDefined, Complete
<1>2. /\ bankerGameCoin \in Nat /\ bankerSurplusCoin \in Nat /\ Risk \in Nat
      /\ Risk + bankerSurplusCoin <= bankerGameCoin
  BY <1>1, RiskNat DEF LInv, Base
<1>3. /\ c \in Int /\ fee \in Int /\ c - fee >= 0
      /\ Risk <= bankerGameCoin => c >= bankerGameCoin - Risk
  BY <1>2, CoinAfterInt DEF Base
<1> HIDE DEF c, fee
<1>4. c \in Nat /\ bankerSurplusCoin <= c /\ c - fee \in Nat
  BY <1>2, <1>3
<1>5. Pledge(t, banker', bankerGameCoin', bankerSurplusCoin', Taken')
  BY <1>1, <1>4 DEF Pledge
<1>6. ASSUME NEW j \in Coroutine, j # k
      PROVE  Pledge(task[j], banker', bankerGameCoin', bankerSurplusCoin', Taken')
  <2>1. Pledge(task[j], banker, bankerGameCoin, bankerSurplusCoin, Taken)
    BY DEF LInv
  <2>2. CASE task[j].pc = "bet_coin"
    <3>1. task[j].coin \in Nat /\ task[j].coin + task[j].bet.reduce = bankerSurplusCoin
      BY <1>1, <2>1, <2>2 DEF Pledge
    <3>2. task[j].bet \in BetMenu
      BY <2>2 DEF Base, IInv, TaskOK, Fine
    <3>3. task[j].bet.reduce \in Nat
      BY <3>2, RoomAssumption DEF BetType
    <3>4. task[j].coin <= c
      BY <1>2, <1>4, <3>1, <3>3
    <3> QED BY <1>1, <2>2, <3>1, <3>4 DEF Pledge, SettlePC
  <2>3. CASE task[j].pc # "bet_coin"
    BY <1>1, <1>6, <2>1, <2>3 DEF Pledge, SettlePC, OthersBet, BetPC
  <2> QED BY <2>2, <2>3
<1>7. /\ bankerGameCoin' \in Nat /\ bankerSurplusCoin' \in Nat
      /\ banker' # None => bankerSurplusCoin' <= bankerGameCoin'
  BY <1>1, <1>2, <1>4
<1> QED BY <1>1, <1>5, <1>6, <1>7, CoverKept

(* Here a bet on its way could lose its cover; but there is none. *)
LEMMA CoverStoring ==
    ASSUME Base, Closed, LInv, NEW k \in Coroutine, NEW t, Storing(k, t)
    PROVE  LInv'
<1>1. /\ Moved(k, t) /\ task[k].pc = "result_db" /\ t.pc = "result_more" /\ t.coin = task[k].coin
      /\ banker' = banker /\ bankerGameCoin' = task[k].coin /\ bankerSurplusCoin' = task[k].coin
      /\ game_step' = game_step
  BY DEF Storing, SameLoad
<1>2. ~InPlay' /\ ~Taken'
  BY <1>1 DEF Placed, InPlay, Taken, Base, OInv, AfterPC, SettlePC
<1>3. \A j \in Coroutine : task[j].coin \in Nat /\ task[j].pc # "bet_coin"
  BY <1>1 DEF LInv, Pledge, SettlePC, Closed, BetPC
<1>4. \A j \in Coroutine : j # k =>
        Pledge(task[j], banker', bankerGameCoin', bankerSurplusCoin', Taken')
  BY <1>3 DEF Pledge
<1>5. Pledge(t, banker', bankerGameCoin', bankerSurplusCoin', Taken')
  BY <1>1, <1>3, PledgeIdle DEF SettlePC
<1>6. bankerGameCoin' \in Nat /\ bankerSurplusCoin' \in Nat /\ bankerSurplusCoin' <= bankerGameCoin'
  BY <1>1, <1>3
<1> QED BY <1>1, <1>2, <1>4, <1>5, <1>6, CoverKept

(* A void round gives the surplus back. *)
LEMMA CoverRefunding ==
    ASSUME Base, LInv, NEW k \in Coroutine, NEW t, Refunding(k, t)
    PROVE  LInv'
<1>1. /\ Moved(k, t) /\ task[k].pc = "flow_db"
      /\ banker' = banker /\ bankerGameCoin' = bankerGameCoin /\ game_step' = game_step
      /\ bankerSurplusCoin' \in {bankerSurplusCoin, bankerGameCoin}
      /\ t = Idle \/ (t.pc = "flow_acct" /\ t.coin = task[k].coin)
  BY DEF Refunding
<1>2. ~InPlay' /\ ~Taken'
  BY <1>1 DEF Placed, InPlay, Taken, Base, OInv, AfterPC, SettlePC
<1>3. /\ bankerGameCoin' \in Nat /\ bankerSurplusCoin' \in Nat
      /\ banker' # None => bankerSurplusCoin' <= bankerGameCoin'
  BY <1>1 DEF LInv
<1>4. \A j \in Coroutine : j # k =>
        Pledge(task[j], banker', bankerGameCoin', bankerSurplusCoin', Taken')
  BY <1>1, <1>2 DEF LInv, Pledge
<1>5. Pledge(t, banker', bankerGameCoin', bankerSurplusCoin', Taken')
  <2>1. task[k].coin \in Nat
    BY DEF LInv, Pledge
  <2> QED BY <1>1, <2>1, PledgeIdle, IdleFields DEF NoLoad, SettlePC
<1> QED BY <1>1, <1>2, <1>3, <1>4, <1>5, CoverKept

(* The cover is kept by every step. *)
LEMMA CoverInductive ==
    ASSUME Base, Closed, LInv, [Next]_vars
    PROVE  LInv'
<1>1. CASE Resting
  <2>1. /\ task' = task /\ SeatStill /\ game_step' = game_step /\ bet_data' = bet_data
    BY <1>1 DEF Resting, RoomStill
  <2>2. Risk' = Risk
    BY <2>1, StakesSame
  <2>3. (InPlay' <=> InPlay) /\ (Taken' <=> Taken)
    BY <2>1 DEF InPlay, Taken
  <2>4. \A k \in Coroutine :
          Pledge(task'[k], banker', bankerGameCoin', bankerSurplusCoin', Taken')
    BY <2>1, <2>3 DEF LInv, SeatStill, Pledge
  <2> QED BY <2>1, <2>2, <2>3, <2>4 DEF LInv, SeatStill
<1>2. ASSUME NEW k \in Coroutine, NEW t, Sorted(k, t) PROVE LInv'
  BY <1>2, CoverTurning, CoverSeating, CoverClearing, CoverStepping, CoverOpening, CoverTaking,
     CoverRecording, CoverSettling, CoverStoring, CoverRefunding DEF Sorted
<1> QED BY <1>1, <1>2, StepSorted

(* An empty room covers nothing. *)
LEMMA InitCover == Init => LInv
<1> SUFFICES ASSUME Init PROVE LInv
  OBVIOUS
<1>1. \A k \in Coroutine : task[k] = Idle
  BY DEF Init
<1>2. \A k \in Coroutine : Pledge(task[k], banker, bankerGameCoin, bankerSurplusCoin, Taken)
  BY <1>1, PledgeIdle, IdleFields DEF NoLoad, SettlePC
<1> QED BY <1>2 DEF Init, LInv, InPlay

(* A settlement starts when the bets are through, and none starts then: the *)
(* step is past the betting.                                                *)
LEMMA ClosedKept ==
    ASSUME Closed, NEW k \in Coroutine, NEW t, Moved(k, t),
           t.pc \in SettlePC => \A j \in Coroutine : j # k => task[j].pc \notin BetPC,
           t.pc \in BetPC => \A j \in Coroutine : j # k => task[j].pc \notin SettlePC
    PROVE  Closed'
<1>1. task'[k] = t /\ \A j \in Coroutine : j # k => task'[j] = task[j]
  BY DEF Moved
<1>2. ~(t.pc \in SettlePC /\ t.pc \in BetPC)
  BY DEF SettlePC, BetPC
<1> SUFFICES ASSUME NEW i \in Coroutine, NEW j \in Coroutine,
                    task'[i].pc \in SettlePC, task'[j].pc \in BetPC
             PROVE  FALSE
  BY DEF Closed
<1>3. CASE i = k
  BY <1>1, <1>2, <1>3
<1>4. CASE i # k /\ j = k
  BY <1>1, <1>4
<1>5. CASE i # k /\ j # k
  BY <1>1, <1>5 DEF Closed
<1> QED BY <1>3, <1>4, <1>5

LEMMA ClosedInductive ==
    ASSUME Base, Timely, Closed, [Next]_vars
    PROVE  Closed'
<1>1. CASE Resting
  BY <1>1 DEF Resting, Closed
<1>2. ASSUME NEW k \in Coroutine, NEW t, Sorted(k, t) PROVE Closed'
  <2>1. \A j \in Coroutine : task[j].pc \in SettlePC => game_step = "result"
    BY DEF Base, OInv, Placed, AfterPC
  <2>2. \A j \in Coroutine : game_step = "bet" \/ task[k].pc \in BetPC => task[j].pc \notin SettlePC
    BY <2>1 DEF Closed
  <2>3. \A j \in Coroutine : task[k].pc \in SettlePC => task[j].pc \notin BetPC
    BY DEF Closed
  <2>4. CASE Turning(k, t)
    <3>1. t.pc \in SettlePC => task[k].pc \in SettlePC
      BY <2>4, IdleFields DEF Turning, Turn, SettlePC
    <3>2. t.pc \in BetPC => game_step = "bet"
      BY <2>4, IdleFields DEF Turning, Turn, BetPC
    <3> QED BY <2>2, <2>3, <2>4, <3>1, <3>2, ClosedKept DEF Turning
  <2>5. CASE Taking(k, t)
    <3>1. t.pc \notin SettlePC /\ (t.pc \in BetPC => game_step = "bet" \/ task[k].pc \in BetPC)
      BY <2>5, IdleFields DEF Taking, SettlePC, BetPC
    <3> QED BY <2>2, <2>5, <3>1, ClosedKept DEF Taking
  <2>6. ASSUME NEW o \in [Bettors -> Outcome], Settling(k, t, o) PROVE Closed'
    <3>1. t.pc \notin BetPC /\ BetsThrough /\ Moved(k, t)
      BY <2>6 DEF Settling, Timely, BetPC
    <3>2. \A j \in Coroutine : task[j].pc \notin BetPC
      BY <3>1 DEF BetsThrough, Kind, BetPC
    <3> QED BY <3>1, <3>2, ClosedKept
  <2>7. CASE Seating(k, t) \/ Stepping(k, t) \/ Opening(k, t) \/ Ending(k, t)
             \/ Storing(k, t) \/ Refunding(k, t)
    <3>1. Moved(k, t) /\ t.pc \notin SettlePC /\ t.pc \notin BetPC
      BY <2>7, IdleFields DEF Seating, Stepping, Opening, Ending, Storing, Refunding, SettlePC, BetPC
    <3> QED BY <3>1, ClosedKept
  <2>8. CASE Clearing(k) \/ Recording(k)
    <3>1. Moved(k, Idle) /\ Idle.pc \notin SettlePC /\ Idle.pc \notin BetPC
      BY <2>8, IdleFields DEF Clearing, Recording, SettlePC, BetPC
    <3> QED BY <3>1, ClosedKept
  <2> QED BY <1>2, <2>4, <2>5, <2>6, <2>7, <2>8 DEF Sorted
<1> QED BY <1>1, <1>2, StepSorted

LEMMA InitClosed == Init => Closed
BY DEF Init, Closed, Idle, SettlePC

(* Every recorded bet is backed by frozen coins of its bettor, who is one   *)
(* of the players: logic.beter records a bet only after the account server  *)
(* has frozen its coins, and nobody else takes them before the settlement   *)
(* or the refund of the round, however late the answer comes.               *)
THEOREM BetsAlwaysBacked ==
    ASSUME BetOverlapOnly
    PROVE  Spec => [](BetsBacked /\ BettorsArePlayers)
BY BackedInvariance, PTL DEF BInv

(* The bets of a round can be settled (BetsCovered): besides, the banker's  *)
(* coins cover what they may cost him, whatever fee he pays for the seat.   *)
(* logic.beter writes the surplus it computed before the account call; this *)
(* loses no pledge although the answer may come in any later step, up to    *)
(* the settlement (Timely): a call is given up after three seconds, and the *)
(* steps from the betting to the settlement last almost a minute.           *)
THEOREM BetsAlwaysCovered ==
    ASSUME BetOverlapOnly, Timely
    PROVE  Spec => []BetsCovered
<1>1. IInv /\ OInv /\ HInv /\ LInv /\ Closed /\ [Next]_vars => LInv' /\ Closed'
  BY CoverInductive, ClosedInductive DEF Base, HInv
<1>2. Init => LInv /\ Closed
  BY InitCover, InitClosed
<1>3. IInv /\ BInv /\ LInv => BetsCovered
  <2> SUFFICES ASSUME IInv, BInv, LInv PROVE BetsCovered
    OBVIOUS
  <2>1. Solvent
    <3> SUFFICES ASSUME InPlay PROVE Risk <= bankerGameCoin
      BY DEF Solvent, Risk
    <3> QED BY RiskNat DEF LInv
  <2> QED BY <2>1 DEF BInv, BetsCovered
<1> QED BY <1>1, <1>2, <1>3, CoinsInvariance, BackedInvariance, PTL DEF Spec

-----------------------------------------------------------------------------
(* No coin stays behind, if the account server has no fault and answers the *)
(* bets before they are counted, refunded or settled.                       *)

Strict == /\ BetOverlapOnly /\ Faults = {}
          /\ {"send", "flow", "wait_result"} \subseteq Through

(* The bets of a round are recorded and not yet settled or refunded. *)
Betted == InPlay \/ game_step = "flow"

(* What the account server holds of u if the banker has c in the game, and *)
(* what it holds when no handler is under way.                             *)
Sits(u, c) == (IF u = banker THEN c ELSE 0) + unsettled[u]
Stake(u) == Sits(u, bankerGameCoin)
Owed(u)  == IF Betted THEN Stake(u) + Staked(u) ELSE Stake(u)

(* A coroutine t in the middle of a transfer, and what the account server   *)
(* holds of u then.                                                         *)
SettlingPC == {"result_log", "result_gold", "result_acct"}
FlowingPC  == {"flow_gold", "flow_db", "flow_acct"}
BetweenPC  == SettlingPC \cup FlowingPC \cup {"biao_back", "down_db", "result_db"}

Kept(t, u) ==
    CASE t.pc = "biao_back"  -> Stake(u) + (IF u = t.u THEN t.coin ELSE 0)
      [] t.pc = "down_db"    -> unsettled[u]
      [] t.pc \in SettlingPC -> Sits(u, t.coin) - t.batch.frozen[u]
      [] t.pc = "result_db"  -> Sits(u, t.coin)
      [] t.pc \in FlowingPC  -> Stake(u) + Staked(u)
      [] OTHER               -> Owed(u)

(* Every player has a packet with a value. *)
Dealt == packets # None /\ DOMAIN packets = players /\ \A u \in players : packets[u].value

(* The diamonds of a round are frozen until the settlement uses them. *)
GoldPC == {"rob_coin", "rob_db", "result_log", "result_gold", "flow_gold"}
Round  == game_step \notin {"none", "result"}

Paid(t) == /\ acct.gold >= 0 /\ acct.goldFrozen >= 0
           /\ Round \/ t.pc \in GoldPC => acct.goldFrozen >= 1

(* The players of a round are the banker and the bettors. *)
SeatInv ==
    /\ banker = None => players = None
    /\ game_step \in {"biao", "biao_end"} => players = {banker}
    /\ Betted => players = Bettors \cup {banker}
    /\ game_step \in {"send", "qiang", "wait_result"} => Bettors # {}
    /\ game_step \in {"qiang", "wait_result"} => Dealt

(* A bet waits for the account server till its round is settled or void. *)
BetSteps == {"bet", "bet_end", "send", "flow"}

(* What a suspended coroutine relies on. *)
Doing(t) ==
    /\ t.pc \in BetPC => game_step \in BetSteps
    /\ t.pc = "bet_coin" => bet_data # None
    /\ t.pc \in {"rob_db", "start_gold"} => players = {banker}
    /\ t.pc = "send_db" => t.coin = Cardinality(Bettors) + 1
    /\ t.pc = "send_log" => Dealt
    /\ t.pc \in AfterPC \cup {"down_acct", "down_db"} => banker # None
    /\ t.pc \in (AfterPC \ {"result_log"}) \cup {"down_acct", "down_db"} => t.u = banker
    /\ t.pc \in {"rob_coin", "biao_new"} => t.u # banker /\ t.batch = Freeze(t.u, t.coin)
    /\ t.pc = "biao_back" => t.u # banker /\ t.batch = Return(banker, bankerGameCoin)
    /\ t.pc = "biao_more" => t.u = banker /\ t.batch = Freeze(t.u, t.coin - bankerGameCoin)
    /\ t.pc = "down_acct" => t.batch = Return(banker, bankerGameCoin)
    /\ t.pc \in SettlingPC \cup {"flow_acct"} =>
         t.batch # None /\ \A u \in User : t.batch.bal[u] >= 0
    /\ t.pc = "flow_acct" => \A u \in User : t.batch.frozen[u] = -Staked(u)

Solid == \A u \in User : acct.bal[u] >= 0

(* A room in which t is the only coroutine that is no bet. *)
Sound(t) == /\ Paid(t) /\ Solid /\ SeatInv /\ Doing(t)
            /\ \A u \in User : acct.frozen[u] = Kept(t, u)

(* Where only bets are suspended the room is sound without them; where one *)
(* coroutine is, with it.                                                   *)
Together == \A k \in Coroutine : task[k].pc \in BetPC \cup {"idle"}

NInv ==
    /\ Together \/ \A k \in Coroutine : task[k].pc \notin BetPC
    /\ Together => Sound(Idle)
    /\ \A k \in Coroutine : \A t \in {task[k]} : Doing(t) /\ (OthersIdle(k) => Sound(t))

-----------------------------------------------------------------------------
(* Who is suspended with whom.                                             *)

(* What the rest of this part takes for granted. *)
NBase == Base /\ Strict /\ HInv /\ LInv /\ Counted /\ NInv

(* What is counted is a number of coins. *)
LEMMA StakeNat ==
    ASSUME Counted, bankerGameCoin \in Nat, NEW u \in User
    PROVE  Stake(u) \in Nat /\ unsettled[u] \in Nat
BY DEF Counted, Stake, Sits

(* A coroutine that waits for anything but a bet is alone. *)
LEMMA Lonely ==
    ASSUME NBase, NEW k \in Coroutine, task[k].pc \notin BetPC \cup {"idle"}
    PROVE  OthersIdle(k)
<1>1. Alone /\ \A j \in Coroutine : task[j].pc \notin BetPC
  BY DEF NBase, Base, OInv, NInv, Together
<1> QED BY <1>1 DEF Alone, Meets, OthersIdle

(* A handler other than a bet or a tick starts alone. *)
LEMMA StartsAlone ==
    ASSUME NBase, NEW k \in Coroutine, NEW kind \in {"rob", "biao", "down"}, CanStart(k, kind)
    PROVE  OthersIdle(k) /\ task[k].pc = "idle"
<1>1. \A x : {kind, x} \notin Overlap
  <2>1. \A x : {kind, x} # {"bet"} /\ {kind, x} # {"bet", "tick"}
    OBVIOUS
  <2> QED BY <2>1 DEF NBase, Strict, BetOverlapOnly
<1> QED BY <1>1 DEF CanStart, OthersIdle, At

(* A tick starts among bets. *)
LEMMA TicksTogether ==
    ASSUME NBase, NEW k \in Coroutine, CanStart(k, "tick")
    PROVE  Together /\ task[k].pc = "idle"
<1>1. task[k].pc = "idle"
  BY DEF CanStart, At
<1> SUFFICES ASSUME NEW j \in Coroutine PROVE task[j].pc \in BetPC \cup {"idle"}
  BY <1>1 DEF Together
<1>2. task[j].pc = "idle" \/ {"tick", Kind(task[j].pc)} \in Overlap
  BY DEF CanStart, At
<1>3. {"tick", Kind(task[j].pc)} \in Overlap => Kind(task[j].pc) = "bet"
  BY DEF NBase, Strict, BetOverlapOnly
<1>4. Kind(task[j].pc) = "bet" => task[j].pc \in BetPC
  BY DEF Kind, BetPC
<1> QED BY <1>2, <1>3, <1>4

(* It starts alone when the bets are through. *)
LEMMA TicksAlone ==
    ASSUME NBase, NEW k \in Coroutine, CanStart(k, "tick"),
           BetsThrough \/ game_step \notin BetSteps
    PROVE  OthersIdle(k) /\ task[k].pc = "idle"
<1>1. Together /\ task[k].pc = "idle"
  BY TicksTogether
<1>2. CASE BetsThrough
  BY <1>1, <1>2 DEF BetsThrough, Kind, Together, BetPC, OthersIdle
<1>3. CASE game_step \notin BetSteps
  BY <1>1, <1>3 DEF NBase, NInv, Doing, Together, OthersIdle
<1> QED BY <1>2, <1>3

(* A bet starts among bets. *)
LEMMA StartsTogether ==
    ASSUME NBase, NEW k \in Coroutine, CanStart(k, "bet"), game_step = "bet"
    PROVE  Together
<1> SUFFICES ASSUME NEW j \in Coroutine PROVE task[j].pc \in BetPC \cup {"idle"}
  BY DEF Together
<1>1. task[j].pc = "idle" \/ {"bet", Kind(task[j].pc)} \in Overlap
  BY DEF CanStart, At
<1>2. {"bet", Kind(task[j].pc)} \in Overlap => Kind(task[j].pc) \in {"bet", "tick"}
  BY DEF NBase, Strict, BetOverlapOnly
<1>3. Kind(task[j].pc) = "bet" => task[j].pc \in BetPC
  BY DEF Kind, BetPC
<1>4. task[j].pc \in PCs /\ Placed(task[j], game_step, banker)
  BY DEF NBase, Base, OInv, IInv, TaskOK, Fine
<1>5. Kind(task[j].pc) # "tick" \/ task[j].pc = "idle"
  BY <1>4 DEF Placed, Kind, PCs, AfterPC, SettlePC
<1> QED BY <1>1, <1>2, <1>3, <1>5

(* Where a bet is suspended, only bets are. *)
LEMMA BetsTogether ==
    ASSUME NBase, NEW k \in Coroutine, task[k].pc \in BetPC
    PROVE  Together
BY DEF NBase, NInv

(* The account server answers as it has booked, and books what is covered. *)
LEMMA AcctSure ==
    ASSUME Strict, NEW b, NEW reply, OperAcct(b, reply)
    PROVE  \/ reply = "ok" /\ Covered(b) /\ acct' = Booked(b)
           \/ reply = "error" /\ ~Covered(b) /\ acct' = acct
BY DEF Strict, OperAcct

(* The same for the diamonds. *)
LEMMA GoldSure ==
    ASSUME Strict, AcctOK, NEW d \in Int, NEW used \in Int, NEW reply, OperGold(d, used, reply)
    PROVE  /\ AcctKept
           /\ \/ /\ reply = "ok" /\ acct'.gold = acct.gold - d
                 /\ acct'.goldFrozen = acct.goldFrozen + d - used
                 /\ acct'.gold >= 0 /\ acct'.goldFrozen >= 0
              \/ /\ reply = "B002" /\ acct' = acct
                 /\ ~(acct.gold - d >= 0 /\ acct.goldFrozen + d - used >= 0)
<1>1. AcctKept
  BY GoldAnswer
<1> DEFINE x == acct.gold - d
           y == acct.goldFrozen + d - used
<1>2. \/ reply = "ok" /\ x >= 0 /\ y >= 0 /\ acct' = [acct EXCEPT !.gold = x, !.goldFrozen = y]
      \/ reply = "B002" /\ ~(x >= 0 /\ y >= 0) /\ acct' = acct
  BY DEF Strict, OperGold
<1>3. acct' = [acct EXCEPT !.gold = x, !.goldFrozen = y] => acct'.gold = x /\ acct'.goldFrozen = y
  <2> HIDE DEF x, y
  <2> QED BY DEF AcctOK
<1> QED BY <1>1, <1>2, <1>3

(* What a booked batch changes. *)
LEMMA BookedFacts ==
    ASSUME AcctOK, NEW b \in Batch, acct' = Booked(b)
    PROVE  /\ \A u \in User : acct'.bal[u] = acct.bal[u] + b.bal[u]
           /\ \A u \in User : acct'.frozen[u] = acct.frozen[u] + b.frozen[u]
           /\ acct'.gold = acct.gold /\ acct'.goldFrozen = acct.goldFrozen
<1> DEFINE bal == [u \in User |-> acct.bal[u] + b.bal[u]]
           froz == [u \in User |-> acct.frozen[u] + b.frozen[u]]
           own == acct.owner + b.owner
<1>1. acct' = [acct EXCEPT !.bal = bal, !.frozen = froz, !.owner = own]
  BY DEF Booked
<1>2. /\ \A u \in User : bal[u] = acct.bal[u] + b.bal[u]
      /\ \A u \in User : froz[u] = acct.frozen[u] + b.frozen[u]
  OBVIOUS
<1> HIDE DEF bal, froz, own
<1>3. acct'.bal = bal /\ acct'.frozen = froz /\ acct'.gold = acct.gold /\ acct'.goldFrozen = acct.goldFrozen
  BY <1>1 DEF AcctOK
<1> QED BY <1>2, <1>3

(* A freeze takes the coins from the balance. *)
LEMMA FreezeFacts ==
    ASSUME NEW u \in User, NEW c \in Int
    PROVE  /\ Freeze(u, c) \in Batch /\ Freeze(u, c) # None
           /\ Freeze(u, c).frozen[u] = c /\ Freeze(u, c).bal[u] = -c
           /\ \A v \in User : v # u => Freeze(u, c).frozen[v] = 0 /\ Freeze(u, c).bal[v] = 0
<1> DEFINE out == [v \in User |-> IF v = u THEN -c ELSE 0]
           in == [v \in User |-> IF v = u THEN c ELSE 0]
           b == [bal |-> out, frozen |-> in, owner |-> 0]
<1>1. Freeze(u, c) = b
  <2>1. Freeze(u, c) = [NoBatch EXCEPT !.bal[u] = -c, !.frozen[u] = c]
    BY RoomAssumption DEF Freeze
  <2>2. [NoCoins EXCEPT ![u] = -c] = out /\ [NoCoins EXCEPT ![u] = c] = in
    BY DEF NoCoins
  <2> HIDE DEF out, in
  <2> QED BY <2>1, <2>2 DEF NoBatch
<1>2. /\ b \in Batch /\ b.frozen[u] = c /\ b.bal[u] = -c
      /\ \A v \in User : v # u => b.frozen[v] = 0 /\ b.bal[v] = 0
  <2>1. /\ out \in [User -> Int] /\ in \in [User -> Int] /\ in[u] = c /\ out[u] = -c
        /\ \A v \in User : v # u => in[v] = 0 /\ out[v] = 0
    OBVIOUS
  <2> HIDE DEF out, in
  <2> QED BY <2>1 DEF Batch
<1> HIDE DEF b
<1>3. b # None
  BY <1>2, NoneAssumption DEF Batch
<1> QED BY <1>1, <1>2, <1>3

-----------------------------------------------------------------------------
(* How soundness goes on.                                                  *)

(* A coroutine outside the transfers, now and after a step. *)
LEMMA KeptPlain ==
    ASSUME NEW t, t.pc \notin BetweenPC, NEW u
    PROVE  Kept(t, u) = Owed(u) /\ Kept(t, u)' = Owed(u)'
BY DEF Kept, BetweenPC, SettlingPC, FlowingPC

(* Bets and free coroutines are all the same to the rest of the room. *)
LEMMA SoundPlain ==
    ASSUME NEW s, NEW t, s.pc \in BetPC \cup {"idle"}, t.pc \in BetPC \cup {"idle"},
           Sound(s)', Doing(t)'
    PROVE  Sound(t)'
<1>1. \A u \in User : Kept(s, u)' = Owed(u)' /\ Kept(t, u)' = Owed(u)'
  BY KeptPlain DEF BetPC, BetweenPC, SettlingPC, FlowingPC
<1>2. Paid(t)'
  BY DEF Sound, Paid, BetPC, GoldPC
<1> QED BY <1>1, <1>2 DEF Sound

(* A free coroutine relies on nothing. *)
LEMMA DoingIdle == ASSUME NEW t, t.pc = "idle" PROVE Doing(t) /\ Doing(t)'
BY DEF Doing, BetPC, AfterPC, SettlePC, SettlingPC

(* A coroutine that was alone goes on. *)
LEMMA SoundNext ==
    ASSUME NEW k \in Coroutine, NEW t, Moved(k, t), OthersIdle(k), Sound(t)'
    PROVE  NInv'
<1>1. /\ task'[k] = t
      /\ \A j \in Coroutine : j # k => task'[j].pc = "idle"
  BY DEF Moved, OthersIdle
<1>2. Idle.pc = "idle"
  BY IdleFields
<1>3. Together' => Sound(Idle)'
  <2>1. Together' => t.pc \in BetPC \cup {"idle"}
    BY <1>1 DEF Together
  <2>2. Doing(Idle)'
    BY <1>2, DoingIdle
  <2> QED BY <1>2, <2>1, <2>2, SoundPlain
<1>4. ASSUME NEW j \in Coroutine, NEW s \in {task'[j]}
      PROVE  Doing(s)' /\ (OthersIdle(j)' => Sound(s)')
  <2>1. CASE j = k
    BY <1>1, <1>4, <2>1 DEF Sound
  <2>2. CASE j # k
    <3>1. s.pc = "idle"
      BY <1>1, <1>4, <2>2
    <3>2. Doing(s)'
      BY <3>1, DoingIdle
    <3>3. OthersIdle(j)' => t.pc = "idle"
      BY <1>1, <2>2 DEF OthersIdle
    <3> QED BY <3>1, <3>2, <3>3, SoundPlain
  <2> QED BY <2>1, <2>2
<1>5. (Together \/ \A j \in Coroutine : task[j].pc \notin BetPC)'
  BY <1>1 DEF Together, BetPC
<1> QED BY <1>3, <1>4, <1>5 DEF NInv

(* A bet among bets goes on. *)
LEMMA SoundBets ==
    ASSUME NEW k \in Coroutine, NEW t, Moved(k, t), Together, t.pc \in BetPC \cup {"idle"},
           Sound(Idle)', Doing(t)',
           \A j \in Coroutine : \A s \in {task[j]} : Doing(s)'
    PROVE  NInv'
<1>1. /\ task'[k] = t
      /\ \A j \in Coroutine : j # k => task'[j] = task[j] /\ task'[j].pc \in BetPC \cup {"idle"}
  BY DEF Moved, Together
<1>2. ASSUME NEW j \in Coroutine, NEW s \in {task'[j]}
      PROVE  Doing(s)' /\ (OthersIdle(j)' => Sound(s)')
  <2>1. s.pc \in BetPC \cup {"idle"} /\ Doing(s)'
    BY <1>1, <1>2
  <2> QED BY <2>1, SoundPlain, IdleFields
<1>3. Together'
  BY <1>1 DEF Together
<1> QED BY <1>2, <1>3 DEF NInv

(* The room stays as it is, but for the time and packets that are opened. *)
RoomFixed ==
    /\ game_step' = game_step /\ banker' = banker /\ bankerGameCoin' = bankerGameCoin
    /\ players' = players /\ bet_data' = bet_data /\ unsettled' = unsettled
    /\ Dealt => Dealt'

(* Then so does what is said of it. *)
LEMMA FixedFacts ==
    ASSUME RoomFixed, NEW t
    PROVE  /\ (SeatInv => SeatInv') /\ (Doing(t) => Doing(t)') /\ Round' = Round
           /\ \A u \in User : Kept(t, u)' = Kept(t, u)
<1>1. /\ Bettors' = Bettors /\ \A u \in User : Staked(u)' = Staked(u)
  BY BettorsSame, StakesSame DEF RoomFixed
<1>2. /\ game_step' = game_step /\ banker' = banker /\ bankerGameCoin' = bankerGameCoin
      /\ players' = players /\ bet_data' = bet_data
      /\ (Betted <=> Betted') /\ (Round' = Round) /\ (Dealt => Dealt')
  BY DEF RoomFixed, Betted, InPlay, Round
<1>3. unsettled' = unsettled
  BY DEF RoomFixed
<1>4. \A u \in User : Kept(t, u)' = Kept(t, u)
  <2>1. \A u \in User : Stake(u)' = Stake(u) /\ Owed(u)' = Owed(u) /\ Sits(u, t.coin)' = Sits(u, t.coin)
    BY <1>1, <1>2, <1>3 DEF Stake, Owed, Sits
  <2> QED BY <1>1, <1>2, <1>3, <2>1 DEF Kept, SettlingPC, FlowingPC
<1>5. SeatInv => SeatInv'
  BY <1>1, <1>2 DEF SeatInv
<1>6. Doing(t) => Doing(t)'
  <2>1. Return(banker, bankerGameCoin)' = Return(banker, bankerGameCoin)
    BY <1>2 DEF Return, Freeze
  <2>2. Freeze(t.u, t.coin - bankerGameCoin)' = Freeze(t.u, t.coin - bankerGameCoin)
    BY <1>2 DEF Freeze
  <2> QED BY <1>1, <1>2, <2>1, <2>2 DEF Doing
<1> QED BY <1>2, <1>4, <1>5, <1>6

(* A coroutine that was alone goes to its next call without a transfer. *)
LEMMA SoundTurn ==
    ASSUME NEW s, Sound(s), NEW t, RoomFixed, AcctKept, Doing(t), Paid(t)',
           \A u \in User : Kept(t, u) = Kept(s, u)
    PROVE  Sound(t)'
<1>1. acct'.bal = acct.bal /\ acct'.frozen = acct.frozen
  BY DEF AcctKept
<1>2. SeatInv' /\ Doing(t)' /\ \A u \in User : Kept(t, u)' = Kept(t, u)
  BY FixedFacts DEF Sound
<1>3. Solid'
  BY <1>1 DEF Solid, Sound
<1> QED BY <1>1, <1>2, <1>3 DEF Sound

(* Nothing happens to the coins, the seat and the coroutines. *)
LEMMA SoundRest ==
    ASSUME NInv, RoomFixed, task' = task, acct' = acct
    PROVE  NInv'
<1>1. \A t : Sound(t) => Sound(t)'
  <2> SUFFICES ASSUME NEW t, Sound(t) PROVE Sound(t)'
    OBVIOUS
  <2>1. SeatInv' /\ Doing(t)' /\ Round' = Round /\ \A u \in User : Kept(t, u)' = Kept(t, u)
    BY FixedFacts DEF Sound
  <2>2. Paid(t)' /\ Solid'
    BY <2>1 DEF Sound, Paid, Solid
  <2> QED BY <2>1, <2>2 DEF Sound
<1>2. \A t : Doing(t) => Doing(t)'
  BY FixedFacts
<1>3. /\ Together' <=> Together
      /\ \A k \in Coroutine : OthersIdle(k)' => OthersIdle(k)
  BY DEF Together, OthersIdle
<1> QED BY <1>1, <1>2, <1>3 DEF NInv

-----------------------------------------------------------------------------
(* The actions.                                                            *)

(* What is known of a coroutine that is alone. *)
LEMMA SoundNow ==
    ASSUME NBase, NEW k \in Coroutine, OthersIdle(k), NEW s, s = task[k]
    PROVE  /\ Sound(s) /\ Placed(s, game_step, banker) /\ s.coin \in Nat /\ Fine(s)
           /\ BankerIsPlayer /\ (banker # None => banker \in User) /\ bankerGameCoin \in Nat
           /\ (game_step \notin {"none", "result"} => banker # None)
           /\ AcctOK /\ NoDebt /\ \A u \in User : Stake(u) \in Nat /\ unsettled[u] \in Nat
<1>1. Sound(s)
  BY DEF NBase, NInv
<1>2. Placed(s, game_step, banker) /\ (game_step \notin {"none", "result"} => banker # None)
  BY DEF NBase, Base, OInv, Seated
<1>3. s.coin \in Nat /\ bankerGameCoin \in Nat
  BY DEF NBase, LInv, Pledge
<1>4. Fine(s) /\ BankerIsPlayer /\ (banker # None => banker \in User)
  BY DEF NBase, Base, IInv, TaskOK, RoomOK, SeatOK
<1>5. \A u \in User : Stake(u) \in Nat /\ unsettled[u] \in Nat
  BY <1>3, StakeNat DEF NBase
<1> QED BY <1>1, <1>2, <1>3, <1>4, <1>5 DEF NBase, HInv

(* The diamonds of a coroutine that needs none, or had them before. *)
LEMMA PaidSame ==
    ASSUME NEW s, Sound(s), NEW t, game_step' = game_step,
           acct'.gold = acct.gold /\ acct'.goldFrozen = acct.goldFrozen,
           t.pc \in GoldPC => s.pc \in GoldPC
    PROVE  Paid(t)'
BY DEF Sound, Paid, Round

(* rob_banker starts. *)
LEMMA NRobBanker ==
    ASSUME NBase, NEW k \in Coroutine, NEW u \in User, NEW c \in Coins, RobBanker(k, u, c)
    PROVE  NInv'
<1>1. PICK t : t = [Idle EXCEPT !.pc = "rob_gold", !.u = u, !.coin = c]
  OBVIOUS
<1>2. t.pc = "rob_gold"
  BY <1>1 DEF Idle
<1>3. Goto(k, t) /\ CanStart(k, "rob") /\ RoomFixed /\ acct' = acct
  BY <1>1 DEF RobBanker, RoomFixed, room, clock, seat, bets, Dealt
<1>4. OthersIdle(k) /\ Moved(k, t) /\ task[k].pc = "idle"
  BY <1>3, StartsAlone, MoveIn DEF NBase, Base
<1>5. PICK s : s = task[k]
  OBVIOUS
<1>6. Sound(s) /\ AcctKept
  BY <1>3, <1>4, <1>5, SoundNow, AcctSame DEF NBase, Base
<1>7. Doing(t) /\ Paid(t)'
  BY <1>2, <1>3, <1>6, PaidSame DEF Doing, BetPC, AfterPC, SettlePC, SettlingPC, GoldPC, RoomFixed
<1>8. \A v \in User : Kept(t, v) = Kept(s, v)
  BY <1>2, <1>4, <1>5, KeptPlain DEF BetweenPC, SettlingPC, FlowingPC
<1>9. Sound(t)'
  BY <1>3, <1>6, <1>7, <1>8, SoundTurn
<1> QED BY <1>4, <1>9, SoundNext

(* A coroutine outside the transfers ends; the diamonds are untouched. *)
LEMMA NEnds ==
    ASSUME NBase, NEW k \in Coroutine, OthersIdle(k), task[k].pc \notin BetweenPC,
           Goto(k, Idle), RoomFixed, acct' = acct
    PROVE  NInv'
<1>1. PICK s : s = task[k]
  OBVIOUS
<1>2. Sound(s) /\ AcctKept /\ Moved(k, Idle)
  BY <1>1, SoundNow, AcctSame, MoveOn, IdleFields DEF NBase, Base
<1>3. Doing(Idle) /\ Paid(Idle)'
  BY <1>2, DoingIdle, IdleFields, PaidSame DEF GoldPC, RoomFixed
<1>4. \A v \in User : Kept(Idle, v) = Kept(s, v)
  BY <1>1, IdleFields, KeptPlain DEF BetweenPC, SettlingPC, FlowingPC
<1>5. Sound(Idle)'
  BY <1>2, <1>3, <1>4, SoundTurn
<1> QED BY <1>2, <1>5, SoundNext

(* A coroutine outside the transfers calls down_banker for the banker. *)
LEMMA NDown ==
    ASSUME NBase, NEW k \in Coroutine, OthersIdle(k), task[k].pc \notin BetweenPC,
           task[k].pc \in MixPC \cup {"idle"}, NEW n, CallDown(k, banker, n), banker # None,
           RoomFixed, acct' = acct
    PROVE  NInv'
<1>0. PICK b : b = banker
  OBVIOUS
<1>1. PICK t : /\ Goto(k, t) /\ t.pc = "down_acct" /\ t.u = b /\ t.coin = 0
               /\ t.batch = Return(b, bankerGameCoin)
  BY <1>0, DownLoad
<1>2. PICK s : s = task[k]
  OBVIOUS
<1>3. Sound(s) /\ AcctKept /\ Moved(k, t)
  BY <1>1, <1>2, SoundNow, AcctSame, MoveIn DEF NBase, Base
<1>4. Doing(t) /\ Paid(t)'
  BY <1>0, <1>1, <1>3, PaidSame DEF Doing, BetPC, AfterPC, SettlePC, SettlingPC, GoldPC, RoomFixed
<1>5. \A v \in User : Kept(t, v) = Kept(s, v)
  BY <1>1, <1>2, KeptPlain DEF BetweenPC, SettlingPC, FlowingPC
<1>6. Sound(t)'
  BY <1>3, <1>4, <1>5, SoundTurn
<1> QED BY <1>3, <1>6, SoundNext

(* The robber's diamonds are frozen. *)
LEMMA NRobGoldFrozen ==
    ASSUME NBase, NEW k \in Coroutine, RobGoldFrozen(k)
    PROVE  NInv'
<1>1. PICK s : s = task[k]
  OBVIOUS
<1>2. s.pc = "rob_gold" /\ OthersIdle(k) /\ RoomFixed
  BY <1>1, Lonely DEF RobGoldFrozen, At, BetPC, RoomFixed, room, clock, seat, bets, Dealt
<1>3. /\ Sound(s) /\ Placed(s, game_step, banker) /\ Fine(s) /\ AcctOK
  BY <1>1, <1>2, SoundNow
<1>4. PICK t : t = [s EXCEPT !.pc = "rob_coin", !.batch = Freeze(s.u, s.coin)]
  OBVIOUS
<1>5. PICK reply \in {"ok", "B002", "error"} :
        /\ OperGold(1, 0, reply)
        /\ IF reply = "ok" THEN Goto(k, t) ELSE Goto(k, Idle)
  BY <1>1, <1>4 DEF RobGoldFrozen, Done
<1>6. CASE reply = "ok"
  <2>1. t.pc = "rob_coin" /\ t.u = s.u /\ t.coin = s.coin /\ t.batch = Freeze(s.u, s.coin)
    BY <1>3, <1>4 DEF Fine, Record
  <2>2. AcctKept /\ acct'.gold >= 0 /\ acct'.goldFrozen = acct.goldFrozen + 1 - 0
    BY <1>3, <1>5, <1>6, GoldSure DEF NBase
  <2>3. Moved(k, t)
    BY <1>1, <1>2, <1>5, <1>6, MoveOn DEF NBase, Base, SoloPC
  <2>4. t.u \in User /\ banker = None
    BY <1>2, <1>3, <2>1 DEF Fine, ForUser, Placed
  <2>5. Doing(t)
    BY <2>1, <2>4, RoomAssumption DEF Doing, BetPC, AfterPC, SettlePC, SettlingPC
  <2>6. acct.goldFrozen >= 0 /\ acct.goldFrozen \in Int
    BY <1>3 DEF Sound, Paid, AcctOK
  <2>7. Paid(t)'
    BY <2>2, <2>6 DEF Paid
  <2>8. \A v \in User : Kept(t, v) = Kept(s, v)
    BY <1>2, <2>1, KeptPlain DEF BetweenPC, SettlingPC, FlowingPC
  <2>9. Sound(t)'
    BY <1>2, <1>3, <2>2, <2>5, <2>7, <2>8, SoundTurn
  <2> QED BY <1>2, <2>3, <2>9, SoundNext
<1>7. CASE reply # "ok"
  <2>1. acct' = acct /\ Goto(k, Idle)
    BY <1>3, <1>5, <1>7, GoldSure DEF NBase
  <2> QED BY <1>1, <1>2, <2>1, NEnds DEF BetweenPC, SettlingPC, FlowingPC
<1> QED BY <1>6, <1>7

(* Outside a round the account server holds the banker's stake alone. *)
LEMMA OwedOutside ==
    ASSUME game_step \in {"none", "result", "biao", "biao_end"}
    PROVE  ~Betted /\ \A u \in User : Owed(u) = Stake(u)
<1>1. ~Betted
  BY DEF Betted, InPlay
<1> QED BY <1>1 DEF Owed

(* The same after a step. *)
LEMMA OwedOutsideNext ==
    ASSUME game_step' \in {"none", "result", "biao", "biao_end"}
    PROVE  ~Betted' /\ \A u \in User : Owed(u)' = Stake(u)'
<1>1. ~Betted'
  BY DEF Betted, InPlay
<1> QED BY <1>1 DEF Owed

(* The seat of a room without a round. *)
LEMMA SeatOutside ==
    ASSUME game_step' \in {"none", "result", "biao", "biao_end"},
           banker' = None => players' = None,
           game_step' \in {"biao", "biao_end"} => players' = {banker'}
    PROVE  SeatInv'
<1>1. ~Betted'
  BY DEF Betted, InPlay
<1> QED BY <1>1 DEF SeatInv

(* The robber's coins are frozen: he takes the empty seat. *)
LEMMA NRobCoinFrozen ==
    ASSUME NBase, NEW k \in Coroutine, RobCoinFrozen(k)
    PROVE  NInv'
<1>1. PICK s : s = task[k]
  OBVIOUS
<1>2. s.pc = "rob_coin" /\ OthersIdle(k)
  BY <1>1, Lonely DEF RobCoinFrozen, At, BetPC
<1>3. /\ Sound(s) /\ Placed(s, game_step, banker) /\ Fine(s) /\ AcctOK /\ s.coin \in Nat
      /\ bankerGameCoin \in Nat /\ (game_step \notin {"none", "result"} => banker # None)
      /\ \A v \in User : unsettled[v] \in Nat
  BY <1>1, <1>2, SoundNow
<1>4. PICK t : t = [s EXCEPT !.pc = "rob_db"]
  OBVIOUS
<1>5. PICK reply \in {"ok", "error"} :
        /\ OperAcct(s.batch, reply)
        /\ IF reply = "ok"
              THEN /\ banker' = s.u /\ bankerGameCoin' = s.coin
                   /\ players' = (IF players = None THEN {} ELSE players) \cup {s.u}
                   /\ Goto(k, t)
              ELSE Goto(k, Idle) /\ UNCHANGED seat
  BY <1>1, <1>4 DEF RobCoinFrozen, Done
<1>6. game_step' = game_step /\ bet_data' = bet_data /\ packets' = packets /\ unsettled' = unsettled
  BY DEF RobCoinFrozen, clock, bets
<1>7. /\ banker = None /\ players = None /\ game_step \in {"none", "result"}
      /\ s.u \in User /\ s.batch = Freeze(s.u, s.coin)
  BY <1>2, <1>3 DEF Placed, Sound, SeatInv, Fine, ForUser, Doing
<1>8. CASE reply = "ok"
  <2>1. t.pc = "rob_db"
    BY <1>3, <1>4 DEF Fine, Record
  <2>2. acct' = Booked(s.batch) /\ Covered(s.batch)
    BY <1>5, <1>8, AcctSure DEF NBase
  <2>3. Moved(k, t)
    BY <1>1, <1>2, <1>5, <1>8, MoveOn DEF NBase, Base, SoloPC
  <2>4. /\ s.batch \in Batch /\ s.batch.frozen[s.u] = s.coin
        /\ \A v \in User : v # s.u => s.batch.frozen[v] = 0
    BY <1>3, <1>7, FreezeFacts
  <2>5. /\ \A v \in User : acct'.bal[v] = acct.bal[v] + s.batch.bal[v]
        /\ \A v \in User : acct'.frozen[v] = acct.frozen[v] + s.batch.frozen[v]
        /\ acct'.gold = acct.gold /\ acct'.goldFrozen = acct.goldFrozen
    BY <1>3, <2>2, <2>4, BookedFacts
  <2>6. Solid'
    BY <2>2, <2>5 DEF Covered, Solid
  <2>7. \A v \in User : acct.frozen[v] = unsettled[v]
    <3>1. \A v \in User : acct.frozen[v] = Owed(v) /\ Owed(v) = Stake(v)
      BY <1>2, <1>3, <1>7, KeptPlain, OwedOutside DEF Sound, BetweenPC, SettlingPC, FlowingPC
    <3>2. \A v \in User : Stake(v) = 0 + unsettled[v]
      BY <1>7, RoomAssumption DEF Stake, Sits
    <3> QED BY <1>3, <3>1, <3>2
  <2>8. banker' = s.u /\ bankerGameCoin' = s.coin /\ players' = {s.u} /\ banker' # None
    BY <1>5, <1>7, <1>8, RoomAssumption
  <2>9. \A v \in User : acct'.frozen[v] = Kept(t, v)'
    <3>1. \A v \in User : Kept(t, v)' = Stake(v)'
      BY <1>3, <1>6, <1>7, <2>1, <2>8, KeptPlain, OwedOutsideNext DEF BetweenPC, SettlingPC, FlowingPC
    <3>2. \A v \in User : Stake(v)' = (IF v = s.u THEN s.coin ELSE 0) + unsettled[v]
      BY <1>6, <2>8 DEF Stake, Sits
    <3> QED BY <1>3, <2>4, <2>5, <2>7, <3>1, <3>2
  <2>10. SeatInv'
    BY <1>6, <1>7, <2>8, SeatOutside
  <2>11. Doing(t)'
    BY <2>1, <2>8 DEF Doing, BetPC, AfterPC, SettlePC, SettlingPC
  <2>12. Paid(t)'
    BY <1>2, <1>3, <1>6, <2>5, PaidSame DEF GoldPC
  <2>13. Sound(t)'
    BY <2>6, <2>9, <2>10, <2>11, <2>12 DEF Sound
  <2> QED BY <1>2, <2>3, <2>13, SoundNext
<1>9. CASE reply # "ok"
  <2>1. acct' = acct /\ Goto(k, Idle) /\ RoomFixed
    BY <1>5, <1>6, <1>9, AcctSure DEF NBase, RoomFixed, seat, Dealt
  <2> QED BY <1>1, <1>2, <2>1, NEnds DEF BetweenPC, SettlingPC, FlowingPC
<1> QED BY <1>8, <1>9

(* game_start after a rob: the bids begin, or the betting is prepared. *)
LEMMA NRobStartsGame ==
    ASSUME NBase, NEW k \in Coroutine, RobStartsGame(k)
    PROVE  NInv'
<1>1. PICK s : s = task[k]
  OBVIOUS
<1>2. s.pc = "rob_db" /\ OthersIdle(k)
  BY <1>1, Lonely DEF RobStartsGame, At, BetPC
<1>3. /\ Sound(s) /\ Placed(s, game_step, banker) /\ AcctOK /\ bankerGameCoin \in Nat
  BY <1>1, <1>2, SoundNow
<1>4. PICK t : t = [Idle EXCEPT !.pc = "start_gold"]
  OBVIOUS
<1>5. /\ banker' = banker /\ bankerGameCoin' = bankerGameCoin /\ players' = players
      /\ bet_data' = bet_data /\ packets' = packets /\ unsettled' = unsettled
      /\ acct' = acct /\ AcctKept
      /\ \/ Goto(k, t) /\ game_step' = game_step
         \/ Goto(k, Idle) /\ game_step' = "biao"
  BY <1>3, <1>4, AcctSame DEF RobStartsGame, Done, seat, bets, clock
<1>6. banker # None /\ game_step \in {"none", "result"} /\ players = {banker}
  BY <1>2, <1>3 DEF Placed, Sound, Doing
<1>7. CASE Goto(k, t) /\ game_step' = game_step
  <2>1. t.pc = "start_gold"
    BY <1>4 DEF Idle
  <2>2. Moved(k, t) /\ RoomFixed
    BY <1>1, <1>2, <1>5, <1>7, MoveOn DEF NBase, Base, SoloPC, RoomFixed, Dealt
  <2>3. Doing(t) /\ Paid(t)'
    BY <1>3, <1>5, <1>6, <1>7, <2>1, PaidSame DEF Doing, BetPC, AfterPC, SettlePC, SettlingPC, GoldPC
  <2>4. \A v \in User : Kept(t, v) = Kept(s, v)
    BY <1>2, <2>1, KeptPlain DEF BetweenPC, SettlingPC, FlowingPC
  <2>5. Sound(t)'
    BY <1>3, <1>5, <2>2, <2>3, <2>4, SoundTurn
  <2> QED BY <1>2, <2>2, <2>5, SoundNext
<1>8. CASE Goto(k, Idle) /\ game_step' = "biao"
  <2>1. Moved(k, Idle)
    BY <1>8, MoveOn, IdleFields DEF NBase, Base
  <2>2. SeatInv'
    BY <1>5, <1>6, <1>8, SeatOutside
  <2>3. \A v \in User : acct'.frozen[v] = Kept(Idle, v)'
    <3>1. \A v \in User : Kept(Idle, v)' = Stake(v)' /\ Kept(s, v) = Stake(v)
      BY <1>2, <1>6, <1>8, IdleFields, KeptPlain, OwedOutside, OwedOutsideNext
         DEF BetweenPC, SettlingPC, FlowingPC
    <3>2. \A v \in User : Stake(v)' = Stake(v)
      BY <1>5 DEF Stake, Sits
    <3> QED BY <1>3, <1>5, <3>1, <3>2 DEF Sound
  <2>4. Paid(Idle)' /\ Solid' /\ Doing(Idle)'
    BY <1>2, <1>3, <1>5, IdleFields, DoingIdle DEF Sound, Paid, Solid, GoldPC
  <2>5. Sound(Idle)'
    BY <2>2, <2>3, <2>4 DEF Sound
  <2> QED BY <1>2, <2>1, <2>5, SoundNext
<1> QED BY <1>5, <1>7, <1>8

(* The betting opens: no bet is recorded. *)
LEMMA SoundOpen ==
    ASSUME NEW s, Sound(s), s.pc \notin BetweenPC, NEW t, t.pc = "idle",
           game_step \in {"none", "result", "biao_end"}, game_step' = "bet", bet_data' = None,
           banker' = banker, bankerGameCoin' = bankerGameCoin, unsettled' = unsettled,
           \A u \in User : Stake(u) \in Nat,
           players' = players, players = {banker}, banker # None,
           AcctKept, acct'.gold >= 0, acct'.goldFrozen >= 1, acct'.goldFrozen \in Int
    PROVE  Sound(t)'
<1>1. Bettors' = {} /\ \A u \in User : Staked(u)' = 0
  BY BettorsNone DEF Staked
<1>2. SeatInv'
  BY <1>1 DEF SeatInv
<1>3. \A u \in User : acct'.frozen[u] = Kept(t, u)'
  <2>1. \A u \in User : acct'.frozen[u] = acct.frozen[u] /\ acct.frozen[u] = Owed(u) /\ Owed(u) = Stake(u)
    BY KeptPlain, OwedOutside DEF AcctKept, Sound
  <2>2. \A u \in User : Stake(u)' = Stake(u)
    BY DEF Stake, Sits
  <2>3. \A u \in User : Kept(t, u)' = Stake(u)' + 0
    BY <1>1, KeptPlain DEF Owed, Betted, InPlay, BetweenPC, SettlingPC, FlowingPC
  <2> QED BY <2>1, <2>2, <2>3
<1>4. Solid' /\ Doing(t)' /\ Paid(t)'
  BY DoingIdle DEF Solid, Sound, AcctKept, Paid
<1> QED BY <1>2, <1>3, <1>4 DEF Sound

(* The round's diamonds are frozen, or there are none and the banker goes. *)
LEMMA NStartGoldFrozen ==
    ASSUME NBase, NEW k \in Coroutine, StartGoldFrozen(k)
    PROVE  NInv'
<1>1. PICK s : s = task[k]
  OBVIOUS
<1>2. s.pc = "start_gold" /\ OthersIdle(k)
  BY <1>1, Lonely DEF StartGoldFrozen, At, BetPC
<1>3. /\ Sound(s) /\ Placed(s, game_step, banker) /\ AcctOK /\ \A u \in User : Stake(u) \in Nat
  BY <1>1, <1>2, SoundNow
<1>4. banker # None /\ game_step \in {"none", "result"} /\ players = {banker}
  BY <1>2, <1>3 DEF Placed, Sound, Doing
<1>5. /\ banker' = banker /\ bankerGameCoin' = bankerGameCoin /\ players' = players
      /\ packets' = packets /\ unsettled' = unsettled
  BY DEF StartGoldFrozen, seat
<1>6. PICK reply \in {"ok", "B002", "error"} :
        /\ OperGold(1, 0, reply)
        /\ IF reply = "ok"
              THEN game_step' = "bet" /\ bet_data' = None /\ Goto(k, Idle)
              ELSE /\ CallDown(k, banker, "reset") \/ Goto(k, Idle)
                   /\ game_step' = game_step /\ bet_data' = bet_data
  BY DEF StartGoldFrozen, Done, clock
<1>7. s.pc \notin BetweenPC /\ s.pc \in MixPC
  BY <1>2 DEF BetweenPC, SettlingPC, FlowingPC, MixPC
<1>8. CASE reply = "ok"
  <2>1. AcctKept /\ acct'.gold >= 0 /\ acct'.goldFrozen = acct.goldFrozen + 1 - 0
    BY <1>3, <1>6, <1>8, GoldSure DEF NBase
  <2>2. acct'.goldFrozen >= 1 /\ acct'.goldFrozen \in Int
    BY <1>3, <2>1 DEF Sound, Paid, AcctOK
  <2>3. Moved(k, Idle)
    BY <1>6, <1>8, MoveOn, IdleFields DEF NBase, Base
  <2>4. Sound(Idle)'
    BY <1>3, <1>4, <1>5, <1>6, <1>7, <1>8, <2>1, <2>2, SoundOpen, IdleFields
  <2> QED BY <1>2, <2>3, <2>4, SoundNext
<1>9. CASE reply # "ok"
  <2>1. acct' = acct /\ RoomFixed
    BY <1>3, <1>5, <1>6, <1>9, GoldSure DEF NBase, RoomFixed, Dealt
  <2> QED BY <1>1, <1>2, <1>4, <1>6, <1>7, <1>9, <2>1, NEnds, NDown
<1> QED BY <1>8, <1>9

(* biao_banker starts. *)
LEMMA NBiaoBanker ==
    ASSUME NBase, NEW k \in Coroutine, NEW u \in User, NEW c \in Coins, BiaoBanker(k, u, c)
    PROVE  NInv'
<1>1. PICK t : t = IF u = banker
                     THEN [Idle EXCEPT !.pc = "biao_more", !.u = u, !.coin = c,
                                       !.batch = Freeze(u, c - bankerGameCoin)]
                     ELSE [Idle EXCEPT !.pc = "biao_new", !.u = u, !.coin = c,
                                       !.batch = Freeze(u, c)]
  OBVIOUS
<1>2. \/ /\ u = banker /\ t.pc = "biao_more" /\ t.u = u /\ t.coin = c
         /\ t.batch = Freeze(u, c - bankerGameCoin)
      \/ u # banker /\ t.pc = "biao_new" /\ t.u = u /\ t.coin = c /\ t.batch = Freeze(u, c)
  BY <1>1 DEF Idle
<1>3. Goto(k, t) /\ CanStart(k, "biao") /\ RoomFixed /\ acct' = acct
  BY <1>1 DEF BiaoBanker, RoomFixed, room, clock, seat, bets, Dealt
<1>4. OthersIdle(k) /\ Moved(k, t) /\ task[k].pc = "idle"
  BY <1>3, StartsAlone, MoveIn DEF NBase, Base
<1>5. PICK s : s = task[k]
  OBVIOUS
<1>6. Sound(s) /\ AcctKept
  BY <1>3, <1>4, <1>5, SoundNow, AcctSame DEF NBase, Base
<1>7. Doing(t)
  BY <1>2 DEF Doing, BetPC, AfterPC, SettlePC, SettlingPC
<1>8. Paid(t)'
  BY <1>2, <1>3, <1>6, PaidSame DEF GoldPC, RoomFixed
<1>9. \A v \in User : Kept(t, v) = Kept(s, v)
  BY <1>2, <1>4, <1>5, KeptPlain DEF BetweenPC, SettlingPC, FlowingPC
<1>10. Sound(t)'
  BY <1>3, <1>6, <1>7, <1>8, <1>9, SoundTurn
<1> QED BY <1>4, <1>10, SoundNext

(* The bidder's coins are frozen. *)
LEMMA NBiaoCoinFrozen ==
    ASSUME NBase, NEW k \in Coroutine, BiaoCoinFrozen(k)
    PROVE  NInv'
<1>1. PICK s : s = task[k]
  OBVIOUS
<1>2. s.pc = "biao_new" /\ OthersIdle(k) /\ RoomFixed
  BY <1>1, Lonely DEF BiaoCoinFrozen, At, BetPC, RoomFixed, room, clock, seat, bets, Dealt
<1>3. /\ Sound(s) /\ Placed(s, game_step, banker) /\ Fine(s) /\ AcctOK /\ s.coin \in Nat
      /\ \A v \in User : Stake(v) \in Nat
  BY <1>1, <1>2, SoundNow
<1>4. PICK t : t = [s EXCEPT !.pc = "biao_back", !.batch = Return(banker, bankerGameCoin)]
  OBVIOUS
<1>5. PICK reply \in {"ok", "error"} :
        /\ OperAcct(s.batch, reply)
        /\ IF reply = "ok" THEN Goto(k, t) ELSE Goto(k, Idle)
  BY <1>1, <1>4 DEF BiaoCoinFrozen, Done
<1>6. s.u \in User /\ s.u # banker /\ s.batch = Freeze(s.u, s.coin) /\ game_step = "biao"
  BY <1>2, <1>3 DEF Placed, Sound, Fine, ForUser, Doing
<1>7. CASE reply = "ok"
  <2>1. /\ t.pc = "biao_back" /\ t.u = s.u /\ t.coin = s.coin
        /\ t.batch = Return(banker, bankerGameCoin)
    BY <1>3, <1>4 DEF Fine, Record
  <2>2. acct' = Booked(s.batch) /\ Covered(s.batch)
    BY <1>5, <1>7, AcctSure DEF NBase
  <2>3. Moved(k, t)
    BY <1>1, <1>2, <1>5, <1>7, MoveOn DEF NBase, Base, SoloPC
  <2>4. /\ s.batch \in Batch /\ s.batch.frozen[s.u] = s.coin
        /\ \A v \in User : v # s.u => s.batch.frozen[v] = 0
    BY <1>3, <1>6, FreezeFacts
  <2>5. /\ \A v \in User : acct'.bal[v] = acct.bal[v] + s.batch.bal[v]
        /\ \A v \in User : acct'.frozen[v] = acct.frozen[v] + s.batch.frozen[v]
        /\ acct'.gold = acct.gold /\ acct'.goldFrozen = acct.goldFrozen
    BY <1>3, <2>2, <2>4, BookedFacts
  <2>6. Solid'
    BY <2>2, <2>5 DEF Covered, Solid
  <2>7. \A v \in User : acct'.frozen[v] = Kept(t, v)'
    <3>1. \A v \in User : acct.frozen[v] = Stake(v)
      BY <1>2, <1>3, <1>6, KeptPlain, OwedOutside DEF Sound, BetweenPC, SettlingPC, FlowingPC
    <3>2. \A v \in User : Kept(t, v) = Stake(v) + (IF v = t.u THEN t.coin ELSE 0)
      BY <2>1 DEF Kept, SettlingPC, FlowingPC
    <3>3. \A v \in User : acct'.frozen[v] = Kept(t, v)
      BY <1>3, <2>1, <2>4, <2>5, <3>1, <3>2
    <3> QED BY <1>2, <3>3, FixedFacts
  <2>8. Doing(t)
    BY <1>6, <2>1 DEF Doing, BetPC, AfterPC, SettlePC, SettlingPC
  <2>9. SeatInv' /\ Doing(t)'
    BY <1>2, <1>3, <2>8, FixedFacts DEF Sound
  <2>10. Paid(t)'
    BY <1>2, <1>3, <2>1, <2>5, PaidSame DEF GoldPC, RoomFixed
  <2>11. Sound(t)'
    BY <2>6, <2>7, <2>9, <2>10 DEF Sound
  <2> QED BY <1>2, <2>3, <2>11, SoundNext
<1>8. CASE reply # "ok"
  <2>1. acct' = acct /\ Goto(k, Idle)
    BY <1>5, <1>8, AcctSure DEF NBase
  <2> QED BY <1>1, <1>2, <2>1, NEnds DEF BetweenPC, SettlingPC, FlowingPC
<1> QED BY <1>7, <1>8

(* A return of the banker's stake is covered while it is frozen. *)
LEMMA ReturnCovered ==
    ASSUME AcctOK, NoDebt, Solid, banker \in User, bankerGameCoin \in Nat, NEW b,
           b = Return(banker, bankerGameCoin), acct.frozen[banker] >= bankerGameCoin
    PROVE  /\ Covered(b) /\ b \in Batch
           /\ b.frozen[banker] = -bankerGameCoin
           /\ \A v \in User : v # banker => b.frozen[v] = 0
<1>1. /\ b \in Batch /\ b # None
      /\ b.frozen[banker] = -bankerGameCoin /\ b.bal[banker] = -(-bankerGameCoin)
      /\ \A v \in User : v # banker => b.frozen[v] = 0 /\ b.bal[v] = 0
  <2>1. b = Freeze(banker, -bankerGameCoin) /\ -bankerGameCoin \in Int
    BY DEF Return
  <2> QED BY <2>1, FreezeFacts
<1>2. \A v \in User : acct.bal[v] \in Int /\ acct.frozen[v] \in Int /\ acct.bal[v] >= 0 /\ acct.frozen[v] >= 0
  BY DEF AcctOK, NoDebt, Solid
<1>3. \A v \in User : acct.bal[v] + b.bal[v] >= 0 /\ acct.frozen[v] + b.frozen[v] >= 0
  BY <1>1, <1>2
<1> QED BY <1>1, <1>3 DEF Covered

(* The bid is through: the bidder takes the seat, and the old stake is back. *)
LEMMA NBiaoDone ==
    ASSUME NBase, NEW k \in Coroutine, BiaoDone(k)
    PROVE  NInv'
<1>1. PICK s : s = task[k]
  OBVIOUS
<1>2. s.pc \in {"biao_back", "biao_more"} /\ OthersIdle(k)
  BY <1>1, Lonely DEF BiaoDone, BetPC
<1>3. /\ Sound(s) /\ Placed(s, game_step, banker) /\ Fine(s) /\ AcctOK /\ NoDebt /\ s.coin \in Nat
      /\ bankerGameCoin \in Nat /\ (banker # None => banker \in User)
      /\ (game_step \notin {"none", "result"} => banker # None)
      /\ \A v \in User : unsettled[v] \in Nat
  BY <1>1, <1>2, SoundNow
<1>4. PICK reply \in {"ok", "error"} :
        /\ OperAcct(s.batch, reply)
        /\ IF reply = "ok"
              THEN banker' = s.u /\ bankerGameCoin' = s.coin /\ players' = {s.u}
              ELSE UNCHANGED seat
  BY <1>1 DEF BiaoDone
<1>5. /\ game_step' = game_step /\ bet_data' = bet_data /\ packets' = packets
      /\ unsettled' = unsettled /\ Goto(k, Idle) /\ Moved(k, Idle)
  BY MoveOn, IdleFields DEF BiaoDone, Done, clock, bets, NBase, Base
<1>6. s.u \in User /\ game_step = "biao" /\ banker \in User
  BY <1>2, <1>3 DEF Placed, Fine, ForUser
<1>7. /\ \A v \in User : Owed(v) = Stake(v)
      /\ Stake(banker) = bankerGameCoin + unsettled[banker]
      /\ \A v \in User : v # banker => Stake(v) = unsettled[v]
  <2>1. \A v \in User : v # banker => Stake(v) = 0 + unsettled[v]
    BY DEF Stake, Sits
  <2> QED BY <1>3, <1>6, <2>1, OwedOutside DEF Stake, Sits
<1>8. ASSUME s.batch \in Batch, acct' = Booked(s.batch), Covered(s.batch), reply = "ok",
             \A v \in User : acct.frozen[v] + s.batch.frozen[v]
                             = (IF v = s.u THEN s.coin ELSE 0) + unsettled[v]
      PROVE  NInv'
  <2>1. /\ \A v \in User : acct'.bal[v] = acct.bal[v] + s.batch.bal[v]
        /\ \A v \in User : acct'.frozen[v] = acct.frozen[v] + s.batch.frozen[v]
        /\ acct'.gold = acct.gold /\ acct'.goldFrozen = acct.goldFrozen
    BY <1>3, <1>8, BookedFacts
  <2>2. Solid'
    BY <1>8, <2>1 DEF Covered, Solid
  <2>3. banker' = s.u /\ bankerGameCoin' = s.coin /\ players' = {s.u} /\ banker' # None
    BY <1>4, <1>6, <1>8, RoomAssumption
  <2>4. \A v \in User : acct'.frozen[v] = Kept(Idle, v)'
    <3>1. \A v \in User : Kept(Idle, v)' = Stake(v)'
      BY <1>3, <1>5, <1>6, <2>3, IdleFields, KeptPlain, OwedOutsideNext DEF BetweenPC, SettlingPC, FlowingPC
    <3>2. \A v \in User : Stake(v)' = (IF v = s.u THEN s.coin ELSE 0) + unsettled[v]
      BY <1>5, <2>3 DEF Stake, Sits
    <3> QED BY <1>8, <2>1, <3>1, <3>2
  <2>5. SeatInv'
    BY <1>5, <1>6, <2>3, SeatOutside
  <2>6. Paid(Idle)' /\ Doing(Idle)'
    BY <1>3, <1>5, <2>1, IdleFields, PaidSame, DoingIdle DEF GoldPC
  <2>7. Sound(Idle)'
    BY <2>2, <2>4, <2>5, <2>6 DEF Sound
  <2> QED BY <1>2, <1>5, <2>7, SoundNext
<1>9. CASE s.pc = "biao_back"
  <2>1. s.batch = Return(banker, bankerGameCoin) /\ s.u # banker /\ Solid
    BY <1>3, <1>9 DEF Sound, Doing
  <2>2. \A v \in User : acct.frozen[v] = Stake(v) + (IF v = s.u THEN s.coin ELSE 0)
    BY <1>3, <1>9 DEF Sound, Kept, SettlingPC, FlowingPC
  <2>3. /\ acct.frozen[banker] = bankerGameCoin + unsettled[banker]
        /\ acct.frozen[banker] >= bankerGameCoin
    BY <1>3, <1>6, <1>7, <2>1, <2>2
  <2>4. /\ Covered(s.batch) /\ s.batch \in Batch
        /\ s.batch.frozen[banker] = -bankerGameCoin
        /\ \A v \in User : v # banker => s.batch.frozen[v] = 0
    BY <1>3, <1>6, <2>1, <2>3, ReturnCovered
  <2>5. acct' = Booked(s.batch) /\ reply = "ok"
    BY <1>4, <2>4, AcctSure DEF NBase
  <2>6. \A v \in User : acct.frozen[v] + s.batch.frozen[v]
                          = (IF v = s.u THEN s.coin ELSE 0) + unsettled[v]
    BY <1>3, <1>6, <1>7, <2>1, <2>2, <2>3, <2>4
  <2> QED BY <1>8, <2>4, <2>5, <2>6
<1>10. CASE s.pc = "biao_more" /\ reply = "ok"
  <2>1. s.u = banker /\ s.batch = Freeze(banker, s.coin - bankerGameCoin)
    BY <1>3, <1>10 DEF Sound, Doing
  <2>2. \A v \in User : acct.frozen[v] = Stake(v)
    BY <1>3, <1>7, <1>10, KeptPlain DEF Sound, BetweenPC, SettlingPC, FlowingPC
  <2>3. acct' = Booked(s.batch) /\ Covered(s.batch)
    BY <1>4, <1>10, AcctSure DEF NBase
  <2>4. /\ s.batch \in Batch /\ s.batch.frozen[banker] = s.coin - bankerGameCoin
        /\ \A v \in User : v # banker => s.batch.frozen[v] = 0
    BY <1>3, <1>6, <2>1, FreezeFacts
  <2>5. \A v \in User : acct.frozen[v] + s.batch.frozen[v]
                          = (IF v = s.u THEN s.coin ELSE 0) + unsettled[v]
    BY <1>3, <1>7, <2>1, <2>2, <2>4
  <2> QED BY <1>8, <1>10, <2>3, <2>4, <2>5
<1>11. CASE s.pc = "biao_more" /\ reply # "ok"
  <2>1. acct' = acct /\ RoomFixed
    BY <1>4, <1>5, <1>11, AcctSure DEF NBase, RoomFixed, seat, Dealt
  <2> QED BY <1>1, <1>2, <1>5, <1>11, <2>1, NEnds DEF BetweenPC, SettlingPC, FlowingPC
<1> QED BY <1>2, <1>9, <1>10, <1>11

(* down_banker starts. *)
LEMMA NDownBanker ==
    ASSUME NBase, NEW k \in Coroutine, NEW u \in User, DownBanker(k, u)
    PROVE  NInv'
<1>1. /\ CanStart(k, "down") /\ CallDown(k, banker, "end") /\ banker # None
      /\ acct' = acct /\ RoomFixed
  BY RoomAssumption DEF DownBanker, RoomFixed, room, clock, seat, bets, Dealt
<1>2. OthersIdle(k) /\ task[k].pc = "idle"
  BY <1>1, StartsAlone
<1> QED BY <1>1, <1>2, NDown DEF BetweenPC, SettlingPC, FlowingPC

(* The banker's stake is returned. *)
LEMMA NDownReturned ==
    ASSUME NBase, NEW k \in Coroutine, DownReturned(k)
    PROVE  NInv'
<1>1. PICK s : s = task[k]
  OBVIOUS
<1>2. s.pc = "down_acct" /\ OthersIdle(k)
  BY <1>1, Lonely DEF DownReturned, At, BetPC
<1>3. /\ Sound(s) /\ Placed(s, game_step, banker) /\ Fine(s) /\ AcctOK /\ NoDebt
      /\ bankerGameCoin \in Nat /\ (banker # None => banker \in User)
      /\ \A v \in User : unsettled[v] \in Nat
  BY <1>1, <1>2, SoundNow
<1>4. PICK t : t = [s EXCEPT !.pc = "down_db"]
  OBVIOUS
<1>5. PICK reply \in {"ok", "error"} :
        /\ OperAcct(s.batch, reply)
        /\ reply = "ok" => Goto(k, t) /\ UNCHANGED clock
  BY <1>1, <1>4 DEF DownReturned
<1>6. /\ banker \in User /\ s.u = banker /\ s.batch = Return(banker, bankerGameCoin)
      /\ Solid /\ game_step \in {"none", "result"}
  BY <1>2, <1>3 DEF Placed, Sound, Doing
<1>7. \A v \in User : acct.frozen[v] = (IF v = banker THEN bankerGameCoin ELSE 0) + unsettled[v]
  BY <1>2, <1>3, <1>6, KeptPlain, OwedOutside DEF Sound, BetweenPC, SettlingPC, FlowingPC, Stake, Sits
<1>8. acct.frozen[banker] >= bankerGameCoin
  BY <1>3, <1>6, <1>7
<1>9. /\ Covered(s.batch) /\ s.batch \in Batch
      /\ s.batch.frozen[banker] = -bankerGameCoin
      /\ \A v \in User : v # banker => s.batch.frozen[v] = 0
  BY <1>3, <1>6, <1>8, ReturnCovered
<1>10. acct' = Booked(s.batch) /\ reply = "ok"
  BY <1>5, <1>9, AcctSure DEF NBase
<1>11. /\ \A v \in User : acct'.bal[v] = acct.bal[v] + s.batch.bal[v]
       /\ \A v \in User : acct'.frozen[v] = acct.frozen[v] + s.batch.frozen[v]
       /\ acct'.gold = acct.gold /\ acct'.goldFrozen = acct.goldFrozen
  BY <1>3, <1>9, <1>10, BookedFacts
<1>12. RoomFixed
  BY <1>5, <1>10 DEF DownReturned, RoomFixed, clock, seat, bets, Dealt
<1>13. t.pc = "down_db" /\ t.u = s.u
  BY <1>3, <1>4 DEF Fine, Record
<1>14. Moved(k, t)
  BY <1>1, <1>2, <1>5, <1>10, <1>13, MoveOn DEF NBase, Base, MixPC
<1>15. Solid'
  BY <1>9, <1>11 DEF Covered, Solid
<1>16. \A v \in User : acct'.frozen[v] = Kept(t, v)'
  <2>1. \A v \in User : acct'.frozen[v] = unsettled[v]
    BY <1>3, <1>7, <1>9, <1>11
  <2>2. \A v \in User : Kept(t, v)' = unsettled[v]
    BY <1>12, <1>13 DEF Kept, SettlingPC, FlowingPC, RoomFixed
  <2> QED BY <2>1, <2>2
<1>17. Doing(t)
  BY <1>6, <1>13, RoomAssumption DEF Doing, BetPC, AfterPC, SettlePC, SettlingPC
<1>18. SeatInv' /\ Doing(t)'
  BY <1>3, <1>12, <1>17, FixedFacts DEF Sound
<1>19. Paid(t)'
  BY <1>3, <1>11, <1>12, <1>13, PaidSame DEF GoldPC, RoomFixed
<1>20. Sound(t)'
  BY <1>15, <1>16, <1>18, <1>19 DEF Sound
<1> QED BY <1>2, <1>14, <1>20, SoundNext

(* The seat is cleared. *)
LEMMA NDownCleared ==
    ASSUME NBase, NEW k \in Coroutine, DownCleared(k)
    PROVE  NInv'
<1>1. PICK s : s = task[k]
  OBVIOUS
<1>2. s.pc = "down_db" /\ OthersIdle(k)
  BY <1>1, Lonely DEF DownCleared, At, BetPC
<1>3. Sound(s) /\ Placed(s, game_step, banker) /\ \A v \in User : unsettled[v] \in Nat
  BY <1>1, <1>2, SoundNow
<1>4. /\ banker' = None /\ bankerGameCoin' = 0 /\ players' = None /\ acct' = acct
      /\ game_step' \in {game_step, "none"} /\ Goto(k, Idle) /\ unsettled' = unsettled
  BY DEF DownCleared, Done, bets
<1>5. game_step' \in {"none", "result"}
  BY <1>2, <1>3, <1>4 DEF Placed
<1>6. Moved(k, Idle)
  BY <1>4, MoveOn, IdleFields DEF NBase, Base
<1>7. \A v \in User : acct'.frozen[v] = Kept(Idle, v)'
  <2>1. \A v \in User : acct.frozen[v] = unsettled[v]
    BY <1>2, <1>3 DEF Sound, Kept, SettlingPC, FlowingPC
  <2>2. \A v \in User : Kept(Idle, v)' = Stake(v)'
    BY <1>4, <1>5, IdleFields, KeptPlain, OwedOutsideNext DEF BetweenPC, SettlingPC, FlowingPC
  <2>3. \A v \in User : Stake(v)' = 0 + unsettled[v]
    BY <1>4, RoomAssumption DEF Stake, Sits
  <2> QED BY <1>3, <1>4, <2>1, <2>2, <2>3
<1>8. SeatInv'
  BY <1>4, <1>5, SeatOutside
<1>9. Paid(Idle)' /\ Solid' /\ Doing(Idle)'
  BY <1>3, <1>4, <1>5, IdleFields, DoingIdle DEF Sound, Paid, Solid, Round, GoldPC
<1>10. Sound(Idle)'
  BY <1>7, <1>8, <1>9 DEF Sound
<1> QED BY <1>2, <1>6, <1>10, SoundNext

-----------------------------------------------------------------------------
(* Bets.                                                                   *)

(* A bet is taken among bets. *)
LEMMA NTaken ==
    ASSUME NBase, NEW k \in Coroutine, NEW t, Taking(k, t), Together, game_step \in BetSteps,
           packets' = packets, acct' = acct, unsettled' = unsettled
    PROVE  NInv'
<1>1. Sound(Idle)
  BY DEF NBase, NInv
<1>2. /\ Bettors' = Bettors /\ \A u \in User : Staked(u)' = Staked(u)
  BY StakesTaken
<1>3. /\ game_step' = game_step /\ players' = players /\ banker' = banker
      /\ bankerGameCoin' = bankerGameCoin /\ bet_data' # None
      /\ Moved(k, t) /\ t.pc \in BetPC \cup {"idle"}
  <2>1. [v \in User |-> << >>] # None
    <3>1. [v \in User |-> << >>] \in [User -> Seq(BetMenu)]
      OBVIOUS
    <3> QED BY <3>1, RoomAssumption
  <2> QED BY <2>1, IdleFields DEF Taking, SeatStill, BetPC
<1>4. SeatInv'
  BY <1>1, <1>2, <1>3 DEF Sound, SeatInv, Betted, InPlay, BetSteps
<1>5. \A u \in User : acct'.frozen[u] = Kept(Idle, u)'
  <2>1. \A u \in User : Owed(u)' = Owed(u)
    BY <1>2, <1>3 DEF Owed, Stake, Sits, Betted, InPlay
  <2>2. \A u \in User : Kept(Idle, u) = Owed(u) /\ Kept(Idle, u)' = Owed(u)'
    BY IdleFields, KeptPlain DEF BetweenPC, SettlingPC, FlowingPC
  <2> QED BY <1>1, <2>1, <2>2 DEF Sound
<1>6. Paid(Idle)' /\ Solid'
  BY <1>1, <1>3 DEF Sound, Paid, Solid, Round
<1>7. \A s : s.pc \in BetPC \cup {"idle"} => Doing(s)'
  BY <1>3 DEF Doing, BetPC, AfterPC, SettlePC, SettlingPC
<1>8. Sound(Idle)'
  BY <1>4, <1>5, <1>6, <1>7, IdleFields DEF Sound
<1> QED BY <1>3, <1>7, <1>8, SoundBets DEF Together

(* A bet inside the section. *)
LEMMA NBeter ==
    ASSUME NBase, NEW k \in Coroutine, NEW u \in User, u # banker, NEW b \in BetMenu,
           NEW held, NEW rest, Beter(k, u, b, held, rest), Company(k, "bet_coin"),
           \A j \in Coroutine : task[j].pc # "bet_coin", Together, game_step \in BetSteps,
           game_step = "bet" \/ task[k].pc = "bet_wait",
           UNCHANGED <<clock, seat, packets, unsettled, gone, acct>>
    PROVE  NInv'
<1>1. PICK t : t = [Idle EXCEPT !.pc = "bet_coin", !.u = u, !.bet = b,
                                !.coin = bankerSurplusCoin - b.reduce,
                                !.batch = Freeze(u, b.game_coin)]
  OBVIOUS
<1>2. /\ t.pc = "bet_coin" /\ t.u = u /\ t.bet = b /\ t.coin = bankerSurplusCoin - b.reduce
      /\ t.batch = Freeze(u, b.game_coin)
  BY <1>1 DEF Idle
<1>3. /\ bet_data' = IF bet_data = None THEN [v \in User |-> << >>] ELSE bet_data
      /\ \/ Goto(k, Idle)
         \/ ~(bankerSurplusCoin - b.reduce < 0) /\ Goto(k, t)
  BY <1>1 DEF Beter, Done
<1>4. /\ SeatStill /\ game_step' = game_step /\ players' = players /\ AcctKept
      /\ packets' = packets /\ acct' = acct /\ unsettled' = unsettled
  BY AcctSame DEF NBase, Base, SeatStill, clock, seat
<1>5. CASE Goto(k, Idle)
  <2>1. Moved(k, Idle)
    BY <1>5, MoveOn, IdleFields DEF NBase, Base
  <2>2. Taking(k, Idle)
    BY <1>3, <1>4, <2>1 DEF Taking
  <2> QED BY <1>4, <2>2, NTaken
<1>6. CASE ~(bankerSurplusCoin - b.reduce < 0) /\ Goto(k, t)
  <2>1. Moved(k, t)
    BY <1>2, <1>6, MoveIn DEF NBase, Base
  <2>2. t.coin = bankerSurplusCoin - t.bet.reduce /\ ~(t.coin < 0)
    BY <1>2, <1>6
  <2>3. Taking(k, t)
    BY <1>2, <1>3, <1>4, <2>1, <2>2 DEF Taking
  <2> QED BY <1>4, <2>3, NTaken
<1> QED BY <1>3, <1>5, <1>6

(* A bet that changes neither the room nor the coins. *)
LEMMA NBetMoves ==
    ASSUME NBase, NEW k \in Coroutine, NEW t, Moved(k, t), Together, Doing(t),
           t.pc \in BetPC \cup {"idle"}, RoomFixed, acct' = acct
    PROVE  NInv'
<1>1. Sound(Idle) /\ \A j \in Coroutine : \A s \in {task[j]} : Doing(s)
  BY DEF NBase, NInv
<1>2. \A s : Doing(s) => Doing(s)'
  BY FixedFacts
<1>3. Paid(Idle)' /\ AcctKept
  BY <1>1, PaidSame, AcctSame DEF RoomFixed, NBase, Base
<1>4. Sound(Idle)'
  BY <1>1, <1>3, SoundTurn DEF Sound
<1> QED BY <1>1, <1>2, <1>4, SoundBets

(* A bet is taken at once, or waits in the section. *)
LEMMA NBetting ==
    ASSUME NBase, NEW k \in Coroutine, NEW u \in User, NEW b \in BetMenu, Betting(k, u, b)
    PROVE  NInv'
<1>1. /\ CanStart(k, "bet") /\ u # banker /\ game_step = "bet"
      /\ game_step \in BetSteps /\ UNCHANGED <<clock, seat, packets, unsettled, gone, acct>>
  BY DEF Betting, BetSteps
<1>2. Company(k, "bet_coin") /\ Company(k, "bet_wait") /\ Together
  BY <1>1, StartBet, StartsTogether DEF NBase, Base, BetPC
<1>3. CASE line = << >>
  <2>1. Beter(k, u, b, <<k>>, << >>)
    BY <1>3 DEF Betting
  <2>2. \A j \in Coroutine : task[j].pc # "bet_coin"
    BY <1>3 DEF NBase, Base, IInv, Serialised, At
  <2> QED BY <1>1, <1>2, <2>1, <2>2, NBeter
<1>4. CASE line # << >>
  <2>1. PICK t : t = [Idle EXCEPT !.pc = "bet_wait", !.u = u, !.bet = b]
    OBVIOUS
  <2>2. t.pc = "bet_wait"
    BY <2>1 DEF Idle
  <2>3. Goto(k, t) /\ bet_data' = bet_data
    BY <1>4, <2>1 DEF Betting
  <2>4. Moved(k, t)
    BY <1>2, <2>2, <2>3, MoveIn DEF NBase, Base
  <2>5. RoomFixed /\ acct' = acct
    BY <1>1, <2>3 DEF RoomFixed, clock, seat, Dealt
  <2>6. Doing(t) /\ t.pc \in BetPC
    BY <1>1, <2>2 DEF Doing, BetPC, AfterPC, SettlePC, SettlingPC
  <2> QED BY <1>2, <2>4, <2>5, <2>6, NBetMoves
<1> QED BY <1>3, <1>4

(* A waiting bet is taken. *)
LEMMA NBetResumed ==
    ASSUME NBase, NEW k \in Coroutine, BetResumed(k)
    PROVE  NInv'
<1>1. /\ task[k].pc = "bet_wait" /\ line # << >> /\ Head(line) = k
      /\ Beter(k, task[k].u, task[k].bet, line, Tail(line))
      /\ UNCHANGED <<clock, seat, packets, unsettled, gone, acct>>
  BY DEF BetResumed, At
<1>2. task[k].u \in User /\ task[k].bet \in BetMenu
  BY <1>1 DEF NBase, Base, IInv, TaskOK, Fine, ForUser
<1>3. \A j \in Coroutine : task[j].pc # "bet_coin"
  BY <1>1 DEF NBase, Base, IInv, Serialised, At
<1>4. task[k].u # banker
  BY <1>1 DEF NBase, Base, OInv, Placed, BetPC
<1>5. Company(k, "bet_coin")
  BY <1>1 DEF NBase, Base, OInv, Alone, Company, Meets, BetPC, MixPC, AfterPC, SettlePC
<1>6. Together /\ game_step \in BetSteps
  BY <1>1, BetsTogether DEF NBase, NInv, Doing, BetPC
<1> QED BY <1>1, <1>2, <1>3, <1>4, <1>5, <1>6, NBeter

(* A bet is recorded with the coins that were frozen for it, or ends. *)
LEMMA NBetCoinFrozen ==
    ASSUME NBase, NEW k \in Coroutine, BetCoinFrozen(k)
    PROVE  NInv'
<1>1. /\ task[k].pc = "bet_coin" /\ Goto(k, Idle) /\ Moved(k, Idle)
      /\ game_step' = game_step /\ banker' = banker /\ bankerGameCoin' = bankerGameCoin
      /\ packets' = packets /\ unsettled' = unsettled
  BY MoveOn, IdleFields DEF BetCoinFrozen, RecordBet, At, Done, clock, NBase, Base
<1>2. PICK reply \in {"ok", "error"} :
         /\ OperAcct(task[k].batch, reply)
         /\ IF reply = "ok" /\ bet_data # None
              THEN /\ bet_data' = [bet_data EXCEPT ![task[k].u] = Append(@, task[k].bet)]
                   /\ bankerSurplusCoin' = task[k].coin
                   /\ players' = (IF players = None THEN {} ELSE players) \cup {task[k].u}
              ELSE UNCHANGED <<bet_data, bankerSurplusCoin, players>>
  BY DEF BetCoinFrozen, RecordBet
<1>3. Together /\ Sound(Idle) /\ game_step \in BetSteps /\ bet_data # None
  BY <1>1, BetsTogether DEF NBase, NInv, Doing, BetPC
<1>4. CASE reply = "ok"
  <2>1. acct' = Booked(task[k].batch) /\ Covered(task[k].batch)
    BY <1>2, <1>4, AcctSure DEF NBase
  <2>2. Recording(k)
    BY <1>1, <1>2, <1>3, <1>4, <2>1 DEF Recording, AcctBooked, AcctPC
  <2>3. PICK w : w = task[k].u
    OBVIOUS
  <2>4. /\ w \in User /\ bet_data' # None /\ Bettors' = Bettors \cup {w}
    BY <2>2, <2>3, BettorsRecorded DEF NBase
  <2>5. PICK c : c = task[k].bet.game_coin
    OBVIOUS
  <2>6. /\ c \in Nat /\ Staked(w)' = Staked(w) + c
        /\ \A u \in User : u # w => Staked(u)' = Staked(u)
    BY <2>2, <2>3, <2>5, StakesRecorded DEF NBase
  <2>7. task[k].batch = Freeze(w, c)
    BY <1>1, <2>3, <2>5 DEF NBase, HInv, Held
  <2>8. PICK b : b = Freeze(w, c)
    OBVIOUS
  <2>9. /\ b \in Batch /\ b.frozen[w] = c /\ \A u \in User : u # w => b.frozen[u] = 0
    BY <2>4, <2>6, <2>8, FreezeFacts
  <2>10. AcctOK /\ acct' = Booked(b) /\ Covered(b)
    BY <2>1, <2>7, <2>8 DEF NBase, Base
  <2>11. /\ \A u \in User : acct'.bal[u] = acct.bal[u] + b.bal[u]
         /\ \A u \in User : acct'.frozen[u] = acct.frozen[u] + b.frozen[u]
         /\ acct'.gold = acct.gold /\ acct'.goldFrozen = acct.goldFrozen
    BY <2>9, <2>10, BookedFacts
  <2>12. \A u \in User : Staked(u) \in Nat /\ Stake(u) \in Nat
    BY StakesNat, StakeNat DEF NBase, Base, LInv
  <2>13. \A u \in User : acct'.frozen[u] = Kept(Idle, u)'
    <3>1. \A u \in User : Kept(Idle, u) = Owed(u) /\ Kept(Idle, u)' = Owed(u)'
      BY IdleFields, KeptPlain DEF BetweenPC, SettlingPC, FlowingPC
    <3>2. \A u \in User : Owed(u) = Stake(u) + Staked(u) /\ Owed(u)' = Stake(u)' + Staked(u)'
      BY <1>1, <1>3 DEF Owed, Betted, InPlay, BetSteps
    <3>3. \A u \in User : Stake(u)' = Stake(u)
      BY <1>1 DEF Stake, Sits
    <3>4. \A u \in User : acct.frozen[u] = Owed(u)
      BY <1>3, <3>1 DEF Sound
    <3>5. acct'.frozen[w] = Owed(w)'
      BY <2>4, <2>6, <2>9, <2>11, <2>12, <3>2, <3>3, <3>4
    <3>6. \A u \in User : u # w => acct'.frozen[u] = Owed(u)'
      BY <2>6, <2>9, <2>11, <2>12, <3>2, <3>3, <3>4
    <3> QED BY <3>1, <3>5, <3>6
  <2>14. SeatInv'
    <3>1. players = Bettors \cup {banker} /\ banker # None
      BY <1>3 DEF Sound, SeatInv, Betted, InPlay, BetSteps, NBase, Base, OInv, Seated
    <3>2. players # None
      BY <3>1, BettorsFinite, RoomAssumption DEF NBase, Base, IInv, RoomOK, SeatOK
    <3>3. players' = Bettors' \cup {banker}
      BY <1>2, <1>3, <1>4, <2>3, <2>4, <3>1, <3>2
    <3> QED BY <1>1, <1>3, <2>4, <3>1, <3>3 DEF SeatInv, BetSteps
  <2>15. Paid(Idle)' /\ Solid'
    BY <1>1, <1>3, <2>10, <2>11, PaidSame DEF Covered, Solid
  <2>16. \A s : s.pc \in BetPC \cup {"idle"} => Doing(s)'
    BY <1>1, <1>3, <2>4 DEF Doing, BetPC, AfterPC, SettlePC, SettlingPC
  <2>17. Sound(Idle)'
    BY <2>13, <2>14, <2>15, <2>16, IdleFields DEF Sound
  <2> QED BY <1>1, <1>3, <2>16, <2>17, SoundBets, IdleFields DEF Together
<1>5. CASE reply # "ok"
  <2>1. acct' = acct /\ RoomFixed
    BY <1>1, <1>2, <1>5, AcctSure DEF NBase, RoomFixed, Dealt
  <2> QED BY <1>1, <1>3, <2>1, NBetMoves, DoingIdle, IdleFields
<1> QED BY <1>4, <1>5

-----------------------------------------------------------------------------
(* Packets, connections and the timer.                                     *)

(* A packet is opened. *)
LEMMA NOpenRedPacket ==
    ASSUME NBase, NEW u \in User, OpenRedPacket(u)
    PROVE  NInv'
<1>1. /\ game_step' = game_step /\ banker' = banker /\ bankerGameCoin' = bankerGameCoin
      /\ players' = players /\ bet_data' = bet_data /\ task' = task /\ acct' = acct
      /\ unsettled' = unsettled /\ packets # None /\ u \in DOMAIN packets
      /\ packets' = [packets EXCEPT ![u].open = TRUE]
  BY DEF OpenRedPacket, clock, seat
<1>2. packets \in [DOMAIN packets -> Packet] /\ DOMAIN packets \subseteq User
  BY <1>1 DEF NBase, Base, IInv, RoomOK, PacketsOK
<1>3. /\ packets' \in [DOMAIN packets -> Packet] /\ DOMAIN packets' = DOMAIN packets
      /\ \A v \in DOMAIN packets : packets'[v].value = packets[v].value
  BY <1>1, <1>2 DEF Packet
<1>4. packets' # None
  BY <1>2, <1>3, NoneAssumption DEF Packet
<1>5. Dealt => Dealt'
  BY <1>1, <1>3, <1>4 DEF Dealt
<1>6. RoomFixed
  BY <1>1, <1>5 DEF RoomFixed
<1> QED BY <1>1, <1>6, SoundRest DEF NBase

(* Connections come and go, and a tick finds nothing to do. *)
LEMMA NResting ==
    ASSUME NBase, (\E u \in User : Disconnect(u) \/ Login(u)) \/ \E k \in Coroutine : TickWaits(k)
    PROVE  NInv'
<1>1. RoomFixed /\ task' = task /\ acct' = acct
  BY DEF Disconnect, Login, TickWaits, RoomFixed, clock, seat, bets, Dealt
<1> QED BY <1>1, SoundRest DEF NBase

(* The step changes and the coins of the round stay where they are. *)
LEMMA SoundStep ==
    ASSUME NEW s, Sound(s), s.pc \notin BetweenPC, NEW t, t.pc \notin BetweenPC,
           banker' = banker, bankerGameCoin' = bankerGameCoin, bet_data' = bet_data,
           unsettled' = unsettled, AcctKept, Betted' <=> Betted, SeatInv', Doing(t)', Paid(t)'
    PROVE  Sound(t)'
<1>1. \A u \in User : Staked(u)' = Staked(u)
  BY StakesSame
<1>2. \A u \in User : Kept(s, u) = Owed(u) /\ Kept(t, u)' = Owed(u)' /\ Owed(u)' = Owed(u)
  BY <1>1, KeptPlain DEF Owed, Stake, Sits
<1>3. Solid'
  BY DEF Sound, Solid, AcctKept
<1> QED BY <1>2, <1>3 DEF Sound, AcctKept

(* The packets are opened: every one has its player. *)
LEMMA NTickQiang ==
    ASSUME NBase, NEW k \in Coroutine, TickQiang(k)
    PROVE  NInv'
<1> DEFINE closed == {u \in DOMAIN packets : ~packets[u].open}
<1>1. /\ CanStart(k, "tick") /\ task' = task /\ acct' = acct /\ bet_data' = bet_data
      /\ banker' = banker /\ bankerGameCoin' = bankerGameCoin /\ players' = players
      /\ unsettled' = unsettled /\ game_step = "qiang"
  BY DEF TickQiang, Due, seat
<1>2. OthersIdle(k) /\ task[k].pc = "idle"
  BY <1>1, TicksAlone DEF BetSteps
<1>3. PICK s : s = task[k]
  OBVIOUS
<1>4. Sound(s) /\ AcctKept /\ Moved(k, s) /\ s.pc = "idle"
  BY <1>1, <1>2, <1>3, SoundNow, AcctSame, MoveNone DEF NBase, Base
<1>5. Dealt /\ Bettors # {} /\ players = Bettors \cup {banker} /\ Bettors' = Bettors
  BY <1>1, <1>4, BettorsSame DEF Sound, SeatInv, Betted, InPlay
<1>6. packets # None /\ DOMAIN packets = players
  BY <1>5 DEF Dealt
<1>7. \/ game_step' = "qiang" /\ packets' = packets
      \/ game_step' = "wait_result" /\ Opened(closed)
  <2>1. closed \ players = {}
    BY <1>6
  <2>2. CASE players = None /\ closed # {}
    BY <1>1, <1>6, <2>2 DEF TickQiang
  <2>3. CASE ~(players = None /\ closed # {})
    BY <1>6, <2>1, <2>3 DEF TickQiang, Advance
  <2> QED BY <2>2, <2>3
<1>8. Dealt'
  <2>1. CASE packets' = packets
    BY <1>1, <1>5, <2>1 DEF Dealt
  <2>2. CASE Opened(closed)
    <3>1. packets \in [DOMAIN packets -> Packet] /\ DOMAIN packets \subseteq User
      BY <1>6 DEF NBase, Base, IInv, RoomOK, PacketsOK
    <3>2. \A u \in DOMAIN packets : /\ [packets[u] EXCEPT !.open = TRUE] \in Packet
                                     /\ [packets[u] EXCEPT !.open = TRUE].value = packets[u].value
      BY <3>1 DEF Packet
    <3>3. packets' = [u \in DOMAIN packets |-> IF u \in closed
                        THEN [packets[u] EXCEPT !.open = TRUE] ELSE packets[u]]
      BY <2>2 DEF Opened
    <3> HIDE DEF closed
    <3>4. /\ packets' \in [DOMAIN packets -> Packet] /\ DOMAIN packets' = DOMAIN packets
          /\ \A v \in DOMAIN packets : packets'[v].value = packets[v].value
      BY <3>1, <3>2, <3>3
    <3>5. packets' # None
      BY <3>1, <3>4, NoneAssumption DEF Packet
    <3> QED BY <1>1, <1>5, <3>4, <3>5 DEF Dealt
  <2> QED BY <1>7, <2>1, <2>2
<1>9. /\ game_step' \in {"qiang", "wait_result"} /\ (Betted' <=> Betted) /\ (Round' <=> Round)
  BY <1>1, <1>7 DEF Betted, InPlay, Round
<1>10. SeatInv'
  BY <1>1, <1>4, <1>5, <1>8, <1>9 DEF SeatInv, Sound
<1>11. Paid(s)' /\ Doing(s)' /\ s.pc \notin BetweenPC
  BY <1>1, <1>4, <1>9, DoingIdle DEF Sound, Paid, GoldPC, BetweenPC, SettlingPC, FlowingPC
<1>12. Sound(s)'
  BY <1>1, <1>4, <1>9, <1>10, <1>11, SoundStep
<1> QED BY <1>2, <1>4, <1>12, SoundNext

(* A tick that changes the step only; bets may be under way. *)
LEMMA NTickStep ==
    ASSUME NBase, NEW k \in Coroutine, TickBiao(k) \/ TickBet(k) \/ TickBetEnd(k)
    PROVE  NInv'
<1>1. /\ CanStart(k, "tick") /\ task' = task /\ acct' = acct /\ bet_data' = bet_data
      /\ banker' = banker /\ bankerGameCoin' = bankerGameCoin /\ players' = players
      /\ packets' = packets /\ unsettled' = unsettled
      /\ \/ game_step = "biao" /\ game_step' = "biao_end"
         \/ game_step = "bet" /\ game_step' = "bet_end"
         \/ game_step = "bet_end" /\ game_step' = "flow"
         \/ game_step = "bet_end" /\ game_step' = "send" /\ ~(Cardinality(Bettors) < MinBet)
  BY DEF TickBiao, TickBet, TickBetEnd, Due, Advance, seat, bets
<1>2. Together /\ task[k].pc = "idle"
  BY <1>1, TicksTogether
<1>3. Sound(Idle) /\ \A j \in Coroutine : \A t \in {task[j]} : Doing(t)
  BY <1>2 DEF NBase, NInv
<1>4. PICK s : s = task[k]
  OBVIOUS
<1>5. AcctKept /\ Moved(k, s) /\ s.pc = "idle"
  BY <1>1, <1>2, <1>4, AcctSame, MoveNone DEF NBase, Base
<1>6. (Betted' <=> Betted) /\ (Round' => Round)
  BY <1>1 DEF Betted, InPlay, Round
<1>7. Paid(Idle)' /\ Doing(Idle)' /\ Idle.pc \notin BetweenPC
  BY <1>1, <1>3, <1>6, IdleFields, DoingIdle DEF Sound, Paid, GoldPC, BetweenPC, SettlingPC, FlowingPC
<1>8. Bettors' = Bettors
  BY <1>1, BettorsSame
<1>9. game_step' = "send" => Bettors # {}
  <2>1. Cardinality({}) = 0 /\ MinBet \in Nat /\ MinBet # 0
    BY FS_EmptySet, RoomAssumption
  <2> QED BY <1>1, <2>1
<1>10. SeatInv'
  <2>1. SeatInv
    BY <1>3 DEF Sound
  <2>2. game_step' \in {"biao", "biao_end"} => game_step = "biao"
    BY <1>1
  <2>3. game_step' \notin {"qiang", "wait_result"}
    BY <1>1
  <2> QED BY <1>1, <1>6, <1>8, <1>9, <2>1, <2>2, <2>3 DEF SeatInv
<1>11. Sound(Idle)'
  BY <1>1, <1>3, <1>5, <1>6, <1>7, <1>10, SoundStep
<1>12. \A j \in Coroutine : \A t \in {task[j]} : Doing(t)'
  <2> SUFFICES ASSUME NEW j \in Coroutine, NEW t \in {task[j]} PROVE Doing(t)'
    OBVIOUS
  <2>1. CASE t.pc = "idle"
    BY <2>1, DoingIdle
  <2>2. CASE t.pc \in BetPC
    BY <1>1, <1>3, <2>2 DEF Doing, BetPC, BetSteps, AfterPC, SettlePC, SettlingPC
  <2> QED BY <1>2, <2>1, <2>2 DEF Together
<1> QED BY <1>2, <1>4, <1>5, <1>11, <1>12, SoundBets

(* The betting starts. *)
LEMMA NTickBiaoEnd ==
    ASSUME NBase, NEW k \in Coroutine, TickBiaoEnd(k)
    PROVE  NInv'
<1>1. /\ CanStart(k, "tick") /\ task' = task /\ acct' = acct /\ bet_data' = None
      /\ banker' = banker /\ bankerGameCoin' = bankerGameCoin /\ players' = players
      /\ game_step = "biao_end" /\ game_step' = "bet" /\ unsettled' = unsettled
  BY DEF TickBiaoEnd, Due, Advance, seat
<1>2. OthersIdle(k) /\ task[k].pc = "idle"
  BY <1>1, TicksAlone DEF BetSteps
<1>3. PICK s : s = task[k]
  OBVIOUS
<1>4. Sound(s) /\ AcctKept /\ Moved(k, s) /\ s.pc = "idle" /\ AcctOK
  BY <1>1, <1>2, <1>3, SoundNow, AcctSame, MoveNone DEF NBase, Base
<1>5. players = {banker} /\ banker # None /\ \A u \in User : Stake(u) \in Nat
  BY <1>1, <1>2, <1>3, SoundNow DEF Sound, SeatInv
<1>6. acct'.gold >= 0 /\ acct'.goldFrozen >= 1 /\ acct'.goldFrozen \in Int
  BY <1>1, <1>4 DEF Sound, Paid, Round, AcctOK
<1>7. s.pc \notin BetweenPC
  BY <1>4 DEF BetweenPC, SettlingPC, FlowingPC
<1>8. Sound(s)'
  BY <1>1, <1>4, <1>5, <1>6, <1>7, SoundOpen
<1> QED BY <1>2, <1>4, <1>8, SoundNext

(* send_packet starts. *)
LEMMA NTickSend ==
    ASSUME NBase, NEW k \in Coroutine, TickSend(k)
    PROVE  NInv'
<1>0. PICK n : n = Cardinality(Bettors) + 1
  OBVIOUS
<1>1. PICK t : t = [Idle EXCEPT !.pc = "send_db", !.coin = n]
  OBVIOUS
<1>2. t.pc = "send_db" /\ t.coin = Cardinality(Bettors) + 1
  BY <1>0, <1>1 DEF Idle
<1>3. Goto(k, t) /\ CanStart(k, "tick") /\ RoomFixed /\ acct' = acct /\ BetsThrough
  BY <1>0, <1>1 DEF TickSend, Due, RoomFixed, seat, bets, Dealt, NBase, Strict
<1>4. OthersIdle(k) /\ Moved(k, t) /\ task[k].pc = "idle"
  BY <1>3, TicksAlone, MoveIn DEF NBase, Base
<1>5. PICK s : s = task[k]
  OBVIOUS
<1>6. Sound(s) /\ AcctKept
  BY <1>3, <1>4, <1>5, SoundNow, AcctSame DEF NBase, Base
<1>7. Doing(t)
  BY <1>2 DEF Doing, BetPC, AfterPC, SettlePC, SettlingPC
<1>8. Paid(t)'
  BY <1>2, <1>3, <1>6, PaidSame DEF GoldPC, RoomFixed
<1>9. \A v \in User : Kept(t, v) = Kept(s, v)
  BY <1>2, <1>4, <1>5, KeptPlain DEF BetweenPC, SettlingPC, FlowingPC
<1>10. Sound(t)'
  BY <1>3, <1>6, <1>7, <1>8, <1>9, SoundTurn
<1> QED BY <1>4, <1>10, SoundNext

(* There is a packet for every player. *)
LEMMA AllLucky ==
    ASSUME banker \in User, banker \notin Bettors, players = Bettors \cup {banker},
           NEW lucky \in SUBSET players, NEW n, n = Cardinality(Bettors) + 1,
           Cardinality(lucky) = Min({Cardinality(players), n})
    PROVE  lucky = players
<1>1. IsFiniteSet(Bettors) /\ Cardinality(Bettors) \in Nat
  BY BettorsFinite
<1>2. IsFiniteSet(players) /\ Cardinality(players) = Cardinality(Bettors) + 1
  BY <1>1, FS_AddElement
<1>3. {Cardinality(players), n} = {n}
  BY <1>2
<1>4. Min({n}) = n
  <2>1. n \in Int /\ \A x \in {n} : n <= x
    BY <1>1
  <2> QED BY <2>1 DEF Min
<1>5. Cardinality(lucky) = Cardinality(players)
  BY <1>2, <1>3, <1>4
<1> QED BY <1>2, <1>5, FS_Subset

(* The packets are assigned. *)
LEMMA NSendAssigned ==
    ASSUME NBase, NEW k \in Coroutine, SendAssigned(k)
    PROVE  NInv'
<1>1. PICK s : s = task[k]
  OBVIOUS
<1>2. s.pc = "send_db" /\ OthersIdle(k)
  BY <1>1, Lonely DEF SendAssigned, At, BetPC
<1>3. /\ Sound(s) /\ Placed(s, game_step, banker) /\ Fine(s) /\ AcctOK
      /\ (banker # None => banker \in User)
      /\ (game_step \notin {"none", "result"} => banker # None)
  BY <1>1, <1>2, SoundNow
<1>4. /\ game_step' = game_step /\ banker' = banker /\ bankerGameCoin' = bankerGameCoin
      /\ players' = players /\ bet_data' = bet_data /\ acct' = acct /\ AcctKept
      /\ unsettled' = unsettled
  BY <1>3, AcctSame DEF SendAssigned, clock, seat
<1>5. /\ game_step = "send" /\ banker \in User /\ players = Bettors \cup {banker}
      /\ s.coin = Cardinality(Bettors) + 1 /\ banker \notin Bettors /\ Bettors # {}
  BY <1>2, <1>3 DEF Placed, Sound, SeatInv, Betted, InPlay, Doing, NBase, Base, OInv, NotSelf
<1>6. players # None /\ banker \in players /\ players \subseteq User
  BY <1>5, BettorsFinite, RoomAssumption
<1>7. PICK t : t = [s EXCEPT !.pc = "send_log"]
  OBVIOUS
<1>8. PICK lucky \in SUBSET players :
        /\ Cardinality(lucky) = Min({Cardinality(players), s.coin})
        /\ packets' = [u \in players |-> [value |-> u \in lucky, open |-> FALSE]]
  BY <1>1, <1>6 DEF SendAssigned
<1>9. Goto(k, t)
  BY <1>1, <1>6, <1>7 DEF SendAssigned
<1>10. t.pc = "send_log"
  BY <1>3, <1>7 DEF Fine, Record
<1>11. Moved(k, t)
  BY <1>1, <1>2, <1>9, <1>10, MoveOn DEF NBase, Base, MixPC
<1>12. Dealt'
  <2>1. lucky = players
    BY <1>5, <1>8, AllLucky
  <2>2. /\ packets' \in [players -> Packet] /\ DOMAIN packets' = players
        /\ \A u \in players : packets'[u].value
    BY <1>8, <2>1 DEF Packet
  <2>3. packets' # None
    BY <1>6, <2>2, NoneAssumption DEF Packet
  <2> QED BY <1>4, <2>2, <2>3 DEF Dealt
<1>13. /\ SeatInv' /\ Doing(t)'
  <2>1. Bettors' = Bettors /\ (Betted' <=> Betted)
    BY <1>4, BettorsSame DEF Betted, InPlay
  <2>2. SeatInv'
    BY <1>3, <1>4, <1>12, <2>1 DEF SeatInv, Sound
  <2> QED BY <1>10, <1>12, <2>2 DEF Doing, BetPC, AfterPC, SettlePC, SettlingPC
<1>14. Paid(t)' /\ (Betted' <=> Betted)
  BY <1>3, <1>4, <1>10, PaidSame DEF GoldPC, Betted, InPlay
<1>15. Sound(t)'
  BY <1>2, <1>3, <1>4, <1>10, <1>13, <1>14, SoundStep DEF BetweenPC, SettlingPC, FlowingPC
<1> QED BY <1>2, <1>11, <1>15, SoundNext

(* The packets may be opened. *)
LEMMA NSendDone ==
    ASSUME NBase, NEW k \in Coroutine, SendDone(k)
    PROVE  NInv'
<1>1. PICK s : s = task[k]
  OBVIOUS
<1>2. s.pc = "send_log" /\ OthersIdle(k)
  BY <1>1, Lonely DEF SendDone, At, BetPC
<1>3. /\ Sound(s) /\ Placed(s, game_step, banker) /\ AcctOK
  BY <1>1, <1>2, SoundNow
<1>4. /\ game_step' = "qiang" /\ banker' = banker /\ bankerGameCoin' = bankerGameCoin
      /\ players' = players /\ bet_data' = bet_data /\ packets' = packets
      /\ unsettled' = unsettled /\ acct' = acct /\ AcctKept /\ Goto(k, Idle)
  BY <1>3, AcctSame DEF SendDone, Advance, Done, seat, bets
<1>5. Moved(k, Idle)
  BY <1>4, MoveOn, IdleFields DEF NBase, Base
<1>6. game_step = "send" /\ Dealt /\ Bettors # {} /\ Bettors' = Bettors
  BY <1>2, <1>3, <1>4, BettorsSame DEF Placed, Sound, SeatInv, Doing
<1>7. (Betted' <=> Betted) /\ Betted /\ Round /\ Round' /\ Dealt'
  BY <1>4, <1>6 DEF Betted, InPlay, Round, Dealt
<1>8. SeatInv'
  <2>1. players = Bettors \cup {banker} /\ (banker = None => players = None)
    BY <1>3, <1>7 DEF Sound, SeatInv
  <2> QED BY <1>4, <1>6, <1>7, <2>1 DEF SeatInv
<1>9. Paid(Idle)' /\ Doing(Idle)' /\ Idle.pc \notin BetweenPC
  BY <1>3, <1>4, <1>7, IdleFields, DoingIdle DEF Sound, Paid, BetweenPC, SettlingPC, FlowingPC
<1>10. Sound(Idle)'
  BY <1>2, <1>3, <1>4, <1>7, <1>8, <1>9, SoundStep DEF BetweenPC, SettlingPC, FlowingPC
<1> QED BY <1>2, <1>5, <1>10, SoundNext

(* The round is over. *)
LEMMA NTickResult ==
    ASSUME NBase, NEW k \in Coroutine, TickResult(k)
    PROVE  NInv'
<1>1. /\ CanStart(k, "tick") /\ acct' = acct /\ game_step = "result"
      /\ banker' = banker /\ bankerGameCoin' = bankerGameCoin /\ unsettled' = unsettled
  BY DEF TickResult, Due
<1>2. OthersIdle(k) /\ task[k].pc = "idle"
  BY <1>1, TicksAlone DEF BetSteps
<1>3. PICK s : s = task[k]
  OBVIOUS
<1>4. /\ Sound(s) /\ AcctKept /\ s.pc = "idle" /\ BankerIsPlayer /\ bankerGameCoin \in Nat
  BY <1>1, <1>2, <1>3, SoundNow, AcctSame DEF NBase, Base
<1>5. \A u \in User : acct'.frozen[u] = Stake(u) /\ Stake(u)' = Stake(u)
  <2>1. \A u \in User : Stake(u)' = Stake(u)
    BY <1>1 DEF Stake, Sits
  <2> QED BY <1>1, <1>4, <2>1, KeptPlain, OwedOutside DEF Sound, AcctKept, BetweenPC, SettlingPC, FlowingPC
<1>6. ASSUME NEW t, Moved(k, t), t.pc \notin BetweenPC \cup GoldPC, Doing(t)',
             game_step' \in {"none", "result"}, banker' = None => players' = None
      PROVE  NInv'
  <2>1. SeatInv'
    BY <1>6, SeatOutside
  <2>2. \A u \in User : Kept(t, u)' = Stake(u)'
    BY <1>1, <1>4, <1>6, KeptPlain, OwedOutsideNext
  <2>3. Paid(t)' /\ Solid'
    BY <1>1, <1>4, <1>6 DEF Sound, Paid, Round, Solid
  <2>4. Sound(t)'
    BY <1>5, <1>6, <2>1, <2>2, <2>3 DEF Sound
  <2> QED BY <1>2, <1>6, <2>4, SoundNext
<1>7. CASE banker = None
  <2>1. task' = task /\ players' = None /\ game_step' = "none"
    BY <1>7 DEF TickResult, Advance
  <2>2. Moved(k, s) /\ Doing(s)'
    BY <1>2, <1>3, <1>4, <2>1, MoveNone, DoingIdle
  <2> QED BY <1>4, <1>6, <2>1, <2>2 DEF BetweenPC, SettlingPC, FlowingPC, GoldPC
<1>8. CASE banker # None
  <2>1. players # None /\ banker \in players
    BY <1>4, <1>8 DEF BankerIsPlayer
  <2>2. PICK t : t = [Idle EXCEPT !.pc = "start_gold"]
    OBVIOUS
  <2>3. /\ game_step' = game_step
        /\ \/ CallDown(k, banker, "end") /\ players' = players
           \/ Goto(k, t) /\ players' = {banker}
    BY <1>8, <2>1, <2>2 DEF TickResult
  <2>4. CASE CallDown(k, banker, "end") /\ players' = players
    <3>0. PICK b : b = banker
      OBVIOUS
    <3>1. PICK d : /\ Goto(k, d) /\ d.pc = "down_acct" /\ d.u = b /\ d.coin = 0
                   /\ d.batch = Return(b, bankerGameCoin)
      BY <2>4, <3>0, DownLoad
    <3>2. Moved(k, d)
      BY <1>2, <3>1, MoveIn DEF NBase, Base
    <3>3. Return(b, bankerGameCoin) = Return(banker, bankerGameCoin)'
      BY <1>1, <3>0 DEF Return, Freeze
    <3>4. Doing(d)'
      BY <1>1, <1>8, <3>0, <3>1, <3>3 DEF Doing, BetPC, AfterPC, SettlePC, SettlingPC
    <3> QED BY <1>1, <1>6, <1>8, <2>3, <3>1, <3>2, <3>4 DEF BetweenPC, SettlingPC, FlowingPC, GoldPC
  <2>5. CASE Goto(k, t) /\ players' = {banker}
    <3>1. t.pc = "start_gold"
      BY <2>2 DEF Idle
    <3>2. Moved(k, t)
      BY <1>2, <2>5, MoveIn DEF NBase, Base
    <3>3. Doing(t)'
      BY <1>1, <2>5, <3>1 DEF Doing, BetPC, AfterPC, SettlePC, SettlingPC
    <3> QED BY <1>1, <1>6, <1>8, <2>3, <3>1, <3>2, <3>3 DEF BetweenPC, SettlingPC, FlowingPC, GoldPC
  <2> QED BY <2>3, <2>4, <2>5
<1> QED BY <1>7, <1>8

-----------------------------------------------------------------------------
(* Settlement and void rounds.                                             *)

(* The settlement returns every stake, and leaves nobody with less than     *)
(* nothing.                                                                 *)
LEMMA SettleFacts ==
    ASSUME IInv, NEW o \in [Bettors -> Outcome], bankerGameCoin \in Nat,
           banker \in User, banker \notin Bettors, NEW b, b = SettleBatch(o)
    PROVE  /\ b # None /\ \A u \in User : b.bal[u] >= 0
           /\ b.frozen[banker] = (CoinAfter(o) - SeatFee(o)) - bankerGameCoin
           /\ \A u \in User : u # banker => b.frozen[u] = -Staked(u)
<1> DEFINE p == Pump(Won(o))
           fee == SeatFee(o)
           keeps == CoinAfter(o) - SeatFee(o)
           gain == [u \in Bettors |-> Staked(u) + Change(o, u) - Pump(Change(o, u))]
           bal == [u \in User |->
                     IF u = banker THEN bankerGameCoin + Won(o) - p - fee - keeps
                     ELSE IF u \in Bettors THEN gain[u] ELSE 0]
           froz == [u \in User |->
                     IF u = banker THEN keeps - bankerGameCoin
                     ELSE IF u \in Bettors THEN -Staked(u) ELSE 0]
           own == p + SumFunction([u \in Bettors |-> Pump(Change(o, u))]) + SeatFee(o)
<1>1. b = [bal |-> bal, frozen |-> froz, owner |-> own]
  <2>1. Bettors \ {banker} = Bettors
    OBVIOUS
  <2>2. bal = [u \in User |->
                 IF u = banker THEN bankerGameCoin + Won(o) - Pump(Won(o)) - SeatFee(o) - keeps
                 ELSE IF u \in Bettors THEN Staked(u) + Change(o, u) - Pump(Change(o, u))
                 ELSE 0]
    OBVIOUS
  <2> QED BY <2>1, <2>2 DEF SettleBatch, Settlement
<1>2. b.bal = bal /\ b.frozen = froz
  <2> HIDE DEF bal, froz, own
  <2> QED BY <1>1
<1>3. /\ Won(o) \in Int /\ p \in Int /\ fee \in Int /\ keeps \in Int
      /\ CoinAfter(o) = bankerGameCoin + Won(o) - p /\ CoinAfter(o) \in Int
  <2>1. Won(o) \in Int
    BY WonBounds
  <2>2. p \in Int
    BY <2>1, PumpNat
  <2>3. CoinAfter(o) \in Int /\ fee \in Int
    BY CoinAfterInt
  <2>4. CoinAfter(o) = bankerGameCoin + Won(o) - p
    BY DEF CoinAfter
  <2> QED BY <2>1, <2>2, <2>3, <2>4
<1>4. bankerGameCoin + Won(o) - p - fee - keeps = 0
  BY <1>3
<1>5. \A u \in Bettors : gain[u] \in Int /\ gain[u] >= 0
  <2> SUFFICES ASSUME NEW u \in Bettors
               PROVE  /\ Staked(u) + Change(o, u) - Pump(Change(o, u)) \in Int
                      /\ Staked(u) + Change(o, u) - Pump(Change(o, u)) >= 0
    OBVIOUS
  <2>1. u \in User /\ o[u] \in {"win", "lose", "draw"}
    BY DEF Bettors, Outcome
  <2>2. Staked(u) \in Nat /\ Exposure(u) \in Nat
    BY <2>1, StakesNat
  <2>3. Change(o, u) \in Int /\ Change(o, u) >= -Staked(u)
    BY <2>1, <2>2 DEF Change
  <2>4. /\ Pump(Change(o, u)) \in Nat /\ (Change(o, u) >= 0 => Pump(Change(o, u)) <= Change(o, u))
        /\ Change(o, u) <= 0 => Pump(Change(o, u)) = 0
    BY <2>3, PumpNat
  <2> QED BY <2>2, <2>3, <2>4
<1>6. \A u \in User : Staked(u) \in Nat /\ (u \notin Bettors => Staked(u) = 0)
  BY StakesNat DEF Staked
<1> HIDE DEF p, fee, keeps, gain
<1>7. \A u \in User : bal[u] >= 0
  BY <1>4, <1>5
<1>8. froz[banker] = keeps - bankerGameCoin /\ \A u \in User : u # banker => froz[u] = -Staked(u)
  BY <1>6
<1>9. b # None
  <2>1. bal \in [User -> Int]
    BY <1>4, <1>5
  <2>2. froz \in [User -> Int]
    BY <1>3, <1>6
  <2>3. own \in Int
    <3>1. SumFunction([u \in Bettors |-> Pump(Change(o, u))]) \in Int
      <4> DEFINE sh == [u \in Bettors |-> Pump(Change(o, u))]
      <4>1. DOMAIN sh = Bettors /\ \A u \in Bettors : sh[u] \in Int
        BY ChangeBounds, PumpNat
      <4> HIDE DEF sh
      <4>2. SumFunctionOnSet(sh, Bettors) \in Int
        BY <4>1, SumInt, BettorsFinite
      <4>3. SumFunction(sh) = SumFunctionOnSet(sh, Bettors)
        BY <4>1, SumDomain
      <4>4. SumFunction(sh) \in Int
        BY <4>2, <4>3, Zenon
      <4> QED BY <4>4 DEF sh
    <3> DEFINE sum == SumFunction([u \in Bettors |-> Pump(Change(o, u))])
    <3> HIDE DEF sum
    <3>2. own = p + sum + fee
      BY DEF sum, fee
    <3>3. sum \in Int
      BY <3>1 DEF sum
    <3> QED BY <1>3, <3>2, <3>3
  <2> HIDE DEF bal, froz, own
  <2>4. [bal |-> bal, frozen |-> froz, owner |-> own] \in
          [bal : [User -> Int], frozen : [User -> Int], owner : Int]
    BY <2>1, <2>2, <2>3
  <2> QED BY <1>1, <2>4, NoneAssumption
<1> QED BY <1>2, <1>7, <1>8, <1>9 DEF keeps

(* The round is settled: getResult finds every packet and player.  If it   *)
(* raises on a bet or a packet, the bets stay where they are.              *)
LEMMA NTickWaitResult ==
    ASSUME NBase, NEW k \in Coroutine, TickWaitResult(k)
    PROVE  NInv'
<1>1. /\ CanStart(k, "tick") /\ acct' = acct /\ game_step = "wait_result" /\ game_step' = "result"
      /\ banker' = banker /\ players' = players /\ bet_data' = bet_data /\ packets' = packets
  BY DEF TickWaitResult, Due, Advance
<1>2. OthersIdle(k) /\ task[k].pc = "idle"
  BY <1>1, TicksAlone DEF BetSteps
<1>3. PICK s : s = task[k]
  OBVIOUS
<1>4. /\ Sound(s) /\ AcctKept /\ s.pc = "idle" /\ bankerGameCoin \in Nat
      /\ (banker # None => banker \in User)
      /\ (game_step \notin {"none", "result"} => banker # None)
      /\ \A u \in User : unsettled[u] \in Nat
  BY <1>1, <1>2, <1>3, SoundNow, AcctSame DEF NBase, Base
<1>5. /\ banker \in User /\ players = Bettors \cup {banker} /\ Bettors # {} /\ Dealt
      /\ banker \notin Bettors /\ banker # None
  BY <1>1, <1>4 DEF Sound, SeatInv, Betted, InPlay, NBase, Base, OInv, NotSelf
<1>6. Complete
  <2>1. bet_data # None
    BY <1>5 DEF Bettors
  <2>2. players # None
    BY <1>5, BettorsFinite, RoomAssumption
  <2> QED BY <1>5, <2>1, <2>2 DEF Complete, Dealt
<1>7. \A u \in User : Staked(u) \in Nat /\ Staked(banker) = 0
  BY <1>5, StakesNat DEF NBase, Base, Staked
<1>8. \A u \in User : acct.frozen[u] = (IF u = banker THEN bankerGameCoin ELSE 0)
                                         + unsettled[u] + Staked(u)
  <2>1. \A u \in User : acct.frozen[u] = Owed(u)
    BY <1>4, KeptPlain DEF Sound, BetweenPC, SettlingPC, FlowingPC
  <2> QED BY <1>1, <2>1 DEF Owed, Stake, Sits, Betted, InPlay
<1>9. SeatInv'
  BY <1>1, <1>5, SeatOutside
<1>10. \A t : Paid(t)' /\ Solid'
  BY <1>1, <1>4 DEF Sound, Paid, Round, Solid
<1>11. ASSUME NEW o \in [Bettors -> Outcome], unsettled' = unsettled,
              Goto(k, [Idle EXCEPT !.pc = "result_log", !.coin = CoinAfter(o) - SeatFee(o),
                                   !.batch = SettleBatch(o)])
       PROVE  NInv'
  <2>1. PICK b : b = SettleBatch(o)
    OBVIOUS
  <2>2. PICK c : c = CoinAfter(o) - SeatFee(o)
    OBVIOUS
  <2>3. PICK t : t = [Idle EXCEPT !.pc = "result_log", !.coin = c, !.batch = b]
    OBVIOUS
  <2>4. t.pc = "result_log" /\ t.coin = c /\ t.batch = b
    BY <2>3 DEF Idle
  <2>5. Moved(k, t)
    BY <1>2, <1>11, <2>1, <2>2, <2>3, MoveIn DEF NBase, Base
  <2>6. /\ b # None /\ \A u \in User : b.bal[u] >= 0
        /\ b.frozen[banker] = c - bankerGameCoin
        /\ \A u \in User : u # banker => b.frozen[u] = -Staked(u)
    BY <1>4, <1>5, <2>1, <2>2, SettleFacts DEF NBase, Base
  <2>7. c \in Int
    BY <1>4, <2>2, CoinAfterInt DEF NBase, Base
  <2>8. \A u \in User : acct'.frozen[u] = Kept(t, u)'
    <3>1. \A u \in User : Kept(t, u)' = ((IF u = banker THEN c ELSE 0) + unsettled[u]) - b.frozen[u]
      <4>1. \A u \in User : Kept(t, u)' = Sits(u, c)' - b.frozen[u]
        BY <2>4 DEF Kept, SettlingPC, FlowingPC
      <4>2. \A u \in User : Sits(u, c)' = (IF u = banker THEN c ELSE 0) + unsettled[u]
        BY <1>1, <1>11 DEF Sits
      <4> QED BY <4>1, <4>2
    <3>2. acct.frozen[banker] = (c + unsettled[banker]) - b.frozen[banker]
      BY <1>4, <1>5, <1>7, <1>8, <2>6, <2>7
    <3>3. \A u \in User : u # banker => acct.frozen[u] = (0 + unsettled[u]) - b.frozen[u]
      BY <1>4, <1>7, <1>8, <2>6
    <3> QED BY <1>1, <3>1, <3>2, <3>3
  <2>9. Doing(t)'
    BY <1>1, <1>5, <2>4, <2>6 DEF Doing, BetPC, AfterPC, SettlePC, SettlingPC
  <2>10. Sound(t)'
    BY <1>9, <1>10, <2>8, <2>9 DEF Sound
  <2> QED BY <1>2, <2>5, <2>10, SoundNext
<1>12. ASSUME unsettled' = [u \in User |-> unsettled[u] + Staked(u)],
              task' = task, bankerGameCoin' = bankerGameCoin
       PROVE  NInv'
  <2>1. Moved(k, s) /\ Doing(s)'
    BY <1>2, <1>3, <1>4, <1>12, MoveNone, DoingIdle
  <2>2. \A u \in User : Kept(s, u)' = Stake(u)'
    BY <1>1, <1>4, KeptPlain, OwedOutsideNext DEF BetweenPC, SettlingPC, FlowingPC
  <2>3. \A u \in User : Stake(u)' = (IF u = banker THEN bankerGameCoin ELSE 0)
                                      + (unsettled[u] + Staked(u))
    BY <1>1, <1>12 DEF Stake, Sits
  <2>4. \A u \in User : acct'.frozen[u] = Kept(s, u)'
    BY <1>1, <1>4, <1>7, <1>8, <2>2, <2>3
  <2>5. Sound(s)'
    BY <1>9, <1>10, <2>1, <2>4 DEF Sound
  <2> QED BY <1>2, <2>1, <2>5, SoundNext
<1> QED BY <1>6, <1>11, <1>12 DEF TickWaitResult

(* The settlement looks the banker up again. *)
LEMMA NResultLogged ==
    ASSUME NBase, NEW k \in Coroutine, ResultLogged(k)
    PROVE  NInv'
<1>1. PICK s : s = task[k]
  OBVIOUS
<1>2. s.pc = "result_log" /\ OthersIdle(k) /\ RoomFixed /\ acct' = acct
  BY <1>1, Lonely DEF ResultLogged, At, BetPC, RoomFixed, room, clock, seat, bets, Dealt
<1>3. Sound(s) /\ Fine(s) /\ BankerIsPlayer /\ AcctKept
  BY <1>1, <1>2, SoundNow, AcctSame
<1>4. PICK b : b = banker
  OBVIOUS
<1>5. PICK t : t = [s EXCEPT !.pc = "result_gold", !.u = b]
  OBVIOUS
<1>6. banker # None /\ players # None
  BY <1>2, <1>3 DEF Sound, Doing, BankerIsPlayer, AfterPC, SettlePC
<1>7. Goto(k, t)
  BY <1>1, <1>4, <1>5, <1>6 DEF ResultLogged
<1>8. t.pc = "result_gold" /\ t.u = b /\ t.coin = s.coin /\ t.batch = s.batch
  BY <1>3, <1>5 DEF Fine, Record
<1>9. Moved(k, t)
  BY <1>1, <1>2, <1>7, <1>8, MoveOn DEF NBase, Base, MixPC, AfterPC, SettlePC
<1>10. Doing(t)
  BY <1>2, <1>3, <1>4, <1>6, <1>8 DEF Sound, Doing, BetPC, AfterPC, SettlePC, SettlingPC
<1>11. Paid(t)'
  BY <1>2, <1>3, PaidSame DEF GoldPC, RoomFixed
<1>12. \A v \in User : Kept(t, v) = Kept(s, v)
  BY <1>2, <1>8 DEF Kept, SettlingPC, FlowingPC
<1>13. Sound(t)'
  BY <1>2, <1>3, <1>10, <1>11, <1>12, SoundTurn
<1> QED BY <1>2, <1>9, <1>13, SoundNext

(* The diamonds of the round are there and are used. *)
LEMMA NResultGoldUsed ==
    ASSUME NBase, NEW k \in Coroutine, ResultGoldUsed(k)
    PROVE  NInv'
<1>1. PICK s : s = task[k]
  OBVIOUS
<1>2. s.pc = "result_gold" /\ OthersIdle(k) /\ RoomFixed
  BY <1>1, Lonely DEF ResultGoldUsed, At, BetPC, RoomFixed, room, clock, seat, bets, Dealt
<1>3. Sound(s) /\ Fine(s) /\ AcctOK /\ Placed(s, game_step, banker)
  BY <1>1, <1>2, SoundNow
<1>4. PICK t : t = [s EXCEPT !.pc = "result_acct"]
  OBVIOUS
<1>5. s.u = banker /\ banker # None /\ game_step = "result"
  BY <1>2, <1>3 DEF Sound, Doing, AfterPC, SettlePC, Placed
<1>6. PICK reply \in {"ok", "B002", "error"} :
        OperGold(0, 1, reply) /\ (reply = "ok" => Goto(k, t))
  BY <1>1, <1>4, <1>5 DEF ResultGoldUsed
<1>7. /\ acct.gold >= 0 /\ acct.goldFrozen >= 1 /\ acct.gold \in Int /\ acct.goldFrozen \in Int
  BY <1>2, <1>3 DEF Sound, Paid, GoldPC, AcctOK
<1>8. AcctKept /\ reply = "ok" /\ acct'.gold >= 0 /\ acct'.goldFrozen >= 0
  <2>1. acct.gold - 0 >= 0 /\ acct.goldFrozen + 0 - 1 >= 0
    BY <1>7
  <2> QED BY <1>3, <1>6, <2>1, GoldSure DEF NBase
<1>9. t.pc = "result_acct" /\ t.u = s.u /\ t.coin = s.coin /\ t.batch = s.batch
  BY <1>3, <1>4 DEF Fine, Record
<1>10. Moved(k, t)
  BY <1>1, <1>2, <1>6, <1>8, <1>9, MoveOn DEF NBase, Base, MixPC, AfterPC, SettlePC
<1>11. Doing(t)
  BY <1>2, <1>3, <1>5, <1>9 DEF Sound, Doing, BetPC, AfterPC, SettlePC, SettlingPC
<1>12. Paid(t)'
  BY <1>2, <1>5, <1>8, <1>9 DEF Paid, GoldPC, Round, RoomFixed
<1>13. \A v \in User : Kept(t, v) = Kept(s, v)
  BY <1>2, <1>9 DEF Kept, SettlingPC, FlowingPC
<1>14. Sound(t)'
  BY <1>2, <1>3, <1>8, <1>11, <1>12, <1>13, SoundTurn
<1> QED BY <1>2, <1>10, <1>14, SoundNext

(* The settlement is covered and booked. *)
LEMMA NResultBooked ==
    ASSUME NBase, NEW k \in Coroutine, ResultBooked(k)
    PROVE  NInv'
<1>1. PICK s : s = task[k]
  OBVIOUS
<1>2. s.pc = "result_acct" /\ OthersIdle(k) /\ RoomFixed
  BY <1>1, Lonely DEF ResultBooked, At, BetPC, RoomFixed, room, clock, seat, bets, Dealt
<1>3. Sound(s) /\ Fine(s) /\ AcctOK /\ s.coin \in Nat /\ \A u \in User : unsettled[u] \in Nat
  BY <1>1, <1>2, SoundNow
<1>4. PICK t : t = [s EXCEPT !.pc = "result_db"]
  OBVIOUS
<1>5. /\ s.u = banker /\ banker # None /\ s.batch # None /\ Solid
      /\ \A u \in User : s.batch.bal[u] >= 0
  BY <1>2, <1>3 DEF Sound, Doing, AfterPC, SettlePC, SettlingPC
<1>6. s.batch \in Batch
  BY <1>1, <1>5 DEF NBase, HInv, Held, Balanced
<1>7. PICK reply \in {"ok", "error"} : OperAcct(s.batch, reply) /\ (reply = "ok" => Goto(k, t))
  BY <1>1, <1>4 DEF ResultBooked
<1>8. \A u \in User : Sits(u, s.coin) \in Nat /\ acct.frozen[u] = Sits(u, s.coin) - s.batch.frozen[u]
  <2>1. \A u \in User : acct.frozen[u] = Sits(u, s.coin) - s.batch.frozen[u]
    BY <1>2, <1>3 DEF Sound, Kept, SettlingPC, FlowingPC
  <2> QED BY <1>3, <2>1 DEF Sits
<1>9. \A u \in User : /\ acct.bal[u] \in Int /\ acct.frozen[u] \in Int
                       /\ s.batch.bal[u] \in Int /\ s.batch.frozen[u] \in Int
  BY <1>3, <1>6 DEF AcctOK, Batch
<1>10. \A u \in User : /\ acct.bal[u] + s.batch.bal[u] >= 0
                        /\ acct.frozen[u] + s.batch.frozen[u] = Sits(u, s.coin)
  BY <1>5, <1>8, <1>9 DEF Solid
<1>11. acct' = Booked(s.batch) /\ reply = "ok"
  <2>1. Covered(s.batch)
    BY <1>5, <1>8, <1>10 DEF Covered
  <2> QED BY <1>7, <2>1, AcctSure DEF NBase
<1>12. /\ \A v \in User : acct'.bal[v] = acct.bal[v] + s.batch.bal[v]
       /\ \A v \in User : acct'.frozen[v] = acct.frozen[v] + s.batch.frozen[v]
       /\ acct'.gold = acct.gold /\ acct'.goldFrozen = acct.goldFrozen
  BY <1>3, <1>6, <1>11, BookedFacts
<1>13. t.pc = "result_db" /\ t.u = s.u /\ t.coin = s.coin
  BY <1>3, <1>4 DEF Fine, Record
<1>14. Moved(k, t)
  BY <1>1, <1>2, <1>7, <1>11, <1>13, MoveOn DEF NBase, Base, MixPC, AfterPC, SettlePC
<1>15. \A u \in User : acct'.frozen[u] = Kept(t, u)'
  <2>1. \A u \in User : Kept(t, u) = Sits(u, s.coin)
    BY <1>13 DEF Kept, SettlingPC, FlowingPC
  <2> QED BY <1>2, <1>10, <1>12, <2>1, FixedFacts
<1>16. Doing(t)
  BY <1>5, <1>13 DEF Doing, BetPC, AfterPC, SettlePC, SettlingPC
<1>17. SeatInv' /\ Doing(t)' /\ Solid'
  BY <1>2, <1>3, <1>10, <1>12, <1>16, FixedFacts DEF Sound, Solid
<1>18. Paid(t)'
  BY <1>2, <1>3, <1>12, <1>13, PaidSame DEF GoldPC, RoomFixed
<1>19. Sound(t)'
  BY <1>15, <1>17, <1>18 DEF Sound
<1> QED BY <1>2, <1>14, <1>19, SoundNext

(* What is left to the banker is his stake. *)
LEMMA NResultStored ==
    ASSUME NBase, NEW k \in Coroutine, ResultStored(k)
    PROVE  NInv'
<1>1. PICK s : s = task[k]
  OBVIOUS
<1>2. s.pc = "result_db" /\ OthersIdle(k)
  BY <1>1, Lonely DEF ResultStored, At, BetPC
<1>3. Sound(s) /\ Fine(s) /\ AcctOK /\ s.coin \in Nat /\ Placed(s, game_step, banker)
  BY <1>1, <1>2, SoundNow
<1>4. PICK t : t = [s EXCEPT !.pc = "result_more"]
  OBVIOUS
<1>5. /\ bankerGameCoin' = s.coin /\ Goto(k, t) /\ game_step' = game_step /\ banker' = banker
      /\ players' = players /\ acct' = acct /\ unsettled' = unsettled
  BY <1>1, <1>4 DEF ResultStored, clock, bets
<1>6. t.pc = "result_more" /\ t.u = s.u
  BY <1>3, <1>4 DEF Fine, Record
<1>7. Moved(k, t)
  BY <1>1, <1>2, <1>5, <1>6, MoveOn DEF NBase, Base, MixPC, AfterPC, SettlePC
<1>8. s.u = banker /\ banker # None /\ game_step = "result"
  BY <1>2, <1>3 DEF Sound, Doing, AfterPC, SettlePC, Placed
<1>9. \A u \in User : acct'.frozen[u] = Kept(t, u)'
  <2>1. \A u \in User : acct.frozen[u] = Sits(u, s.coin)
    BY <1>2, <1>3 DEF Sound, Kept, SettlingPC, FlowingPC
  <2>2. \A u \in User : Kept(t, u)' = Stake(u)'
    BY <1>3, <1>5, <1>6, <1>8, KeptPlain, OwedOutsideNext DEF BetweenPC, SettlingPC, FlowingPC
  <2>3. \A u \in User : Stake(u)' = Sits(u, s.coin)
    BY <1>5 DEF Stake, Sits
  <2> QED BY <1>5, <2>1, <2>2, <2>3
<1>10. SeatInv'
  BY <1>5, <1>8, SeatOutside
<1>11. Doing(t)'
  BY <1>5, <1>6, <1>8 DEF Doing, BetPC, AfterPC, SettlePC, SettlingPC
<1>12. Paid(t)' /\ Solid'
  BY <1>3, <1>5, <1>6, PaidSame DEF GoldPC, Sound, Solid
<1>13. Sound(t)'
  BY <1>9, <1>10, <1>11, <1>12 DEF Sound
<1> QED BY <1>2, <1>7, <1>13, SoundNext

(* The banker stays or leaves the seat. *)
LEMMA NResultDone ==
    ASSUME NBase, NEW k \in Coroutine, ResultDone(k) \/ FlowDone(k)
    PROVE  NInv'
<1>1. PICK s : s = task[k]
  OBVIOUS
<1>2. s.pc \in {"result_more", "flow_mode"} /\ OthersIdle(k) /\ RoomFixed /\ acct' = acct
  BY <1>1, Lonely DEF ResultDone, FlowDone, At, BetPC, RoomFixed, room, clock, seat, bets, Dealt
<1>3. Sound(s)
  BY <1>1, <1>2, SoundNow
<1>4. s.u = banker /\ banker # None
  BY <1>2, <1>3 DEF Sound, Doing, AfterPC, SettlePC
<1>5. Goto(k, Idle) \/ CallDown(k, banker, "end")
  BY <1>1, <1>4 DEF ResultDone, FlowDone, Done
<1>6. s.pc \notin BetweenPC /\ s.pc \in MixPC
  BY <1>2 DEF BetweenPC, SettlingPC, FlowingPC, MixPC, AfterPC, SettlePC
<1> QED BY <1>1, <1>2, <1>4, <1>5, <1>6, NEnds, NDown

(* The round is void. *)
LEMMA NTickFlow ==
    ASSUME NBase, NEW k \in Coroutine, TickFlow(k)
    PROVE  NInv'
<1>0. PICK b : b = banker
  OBVIOUS
<1>1. PICK t : t = [Idle EXCEPT !.pc = "flow_gold", !.u = b]
  OBVIOUS
<1>2. t.pc = "flow_gold" /\ t.u = b
  BY <1>1 DEF Idle
<1>3. /\ CanStart(k, "tick") /\ acct' = acct /\ game_step = "flow" /\ game_step' = "result"
      /\ banker' = banker /\ bankerGameCoin' = bankerGameCoin
      /\ players' = players /\ bet_data' = bet_data /\ unsettled' = unsettled /\ BetsThrough
  BY DEF TickFlow, Due, Advance, seat, bets, NBase, Strict
<1>4. OthersIdle(k) /\ task[k].pc = "idle"
  BY <1>3, TicksAlone
<1>5. PICK s : s = task[k]
  OBVIOUS
<1>6. /\ Sound(s) /\ s.pc = "idle" /\ bankerGameCoin \in Nat
      /\ (banker # None => banker \in User)
      /\ (game_step \notin {"none", "result"} => banker # None)
  BY <1>4, <1>5, SoundNow
<1>7. banker \in User /\ players = Bettors \cup {banker} /\ banker # None
  BY <1>3, <1>6 DEF Sound, SeatInv, Betted
<1>8. players # None
  BY <1>7, BettorsFinite, RoomAssumption
<1>9. Goto(k, t)
  BY <1>0, <1>1, <1>8 DEF TickFlow
<1>10. Moved(k, t)
  BY <1>4, <1>9, MoveIn DEF NBase, Base
<1>11. \A u \in User : acct'.frozen[u] = Kept(t, u)'
  <2>1. \A u \in User : acct.frozen[u] = Owed(u)
    BY <1>6, KeptPlain DEF Sound, BetweenPC, SettlingPC, FlowingPC
  <2>2. \A u \in User : Owed(u) = Stake(u) + Staked(u)
    BY <1>3 DEF Owed, Betted
  <2>3. \A u \in User : Kept(t, u)' = Stake(u)' + Staked(u)'
    BY <1>2 DEF Kept, SettlingPC, FlowingPC
  <2>4. \A u \in User : Stake(u)' = Stake(u) /\ Staked(u)' = Staked(u)
    BY <1>3, StakesSame DEF Stake, Sits
  <2> QED BY <1>3, <2>1, <2>2, <2>3, <2>4
<1>12. SeatInv'
  BY <1>3, <1>7, SeatOutside
<1>13. Doing(t)'
  BY <1>0, <1>2, <1>3, <1>7 DEF Doing, BetPC, AfterPC, SettlePC, SettlingPC
<1>14. Paid(t)' /\ Solid'
  BY <1>3, <1>6 DEF Sound, Paid, Round, Solid
<1>15. Sound(t)'
  BY <1>11, <1>12, <1>13, <1>14 DEF Sound
<1> QED BY <1>4, <1>10, <1>15, SoundNext

(* The diamonds of a void round come back. *)
LEMMA NFlowGoldReturned ==
    ASSUME NBase, NEW k \in Coroutine, FlowGoldReturned(k)
    PROVE  NInv'
<1>1. PICK s : s = task[k]
  OBVIOUS
<1>2. s.pc = "flow_gold" /\ OthersIdle(k) /\ RoomFixed
  BY <1>1, Lonely DEF FlowGoldReturned, At, BetPC, RoomFixed, room, clock, seat, bets, Dealt
<1>3. Sound(s) /\ Fine(s) /\ AcctOK /\ Placed(s, game_step, banker)
  BY <1>1, <1>2, SoundNow
<1>4. PICK t : t = [s EXCEPT !.pc = "flow_db"]
  OBVIOUS
<1>5. s.u = banker /\ banker # None /\ game_step = "result"
  BY <1>2, <1>3 DEF Sound, Doing, AfterPC, SettlePC, Placed
<1>6. PICK reply \in {"ok", "B002", "error"} :
        OperGold(-1, 0, reply) /\ (reply = "ok" => Goto(k, t))
  BY <1>1, <1>4, <1>5 DEF FlowGoldReturned
<1>7. /\ acct.gold >= 0 /\ acct.goldFrozen >= 1 /\ acct.gold \in Int /\ acct.goldFrozen \in Int
  BY <1>2, <1>3 DEF Sound, Paid, GoldPC, AcctOK
<1>8. AcctKept /\ reply = "ok" /\ acct'.gold >= 0 /\ acct'.goldFrozen >= 0
  <2>1. acct.gold - (-1) >= 0 /\ acct.goldFrozen + (-1) - 0 >= 0
    BY <1>7
  <2> QED BY <1>3, <1>6, <2>1, GoldSure DEF NBase
<1>9. t.pc = "flow_db" /\ t.u = s.u
  BY <1>3, <1>4 DEF Fine, Record
<1>10. Moved(k, t)
  BY <1>1, <1>2, <1>6, <1>8, <1>9, MoveOn DEF NBase, Base, MixPC, AfterPC, SettlePC
<1>11. Doing(t)
  BY <1>5, <1>9 DEF Doing, BetPC, AfterPC, SettlePC, SettlingPC
<1>12. Paid(t)'
  BY <1>2, <1>5, <1>8, <1>9 DEF Paid, GoldPC, Round, RoomFixed
<1>13. \A v \in User : Kept(t, v) = Kept(s, v)
  BY <1>2, <1>9 DEF Kept, SettlingPC, FlowingPC
<1>14. Sound(t)'
  BY <1>2, <1>3, <1>8, <1>11, <1>12, <1>13, SoundTurn
<1> QED BY <1>2, <1>10, <1>14, SoundNext

(* The refund is asked for; without bets there is nothing to refund. *)
LEMMA NFlowRefund ==
    ASSUME NBase, NEW k \in Coroutine, FlowRefund(k)
    PROVE  NInv'
<1>1. PICK s : s = task[k]
  OBVIOUS
<1>2. s.pc = "flow_db" /\ OthersIdle(k) /\ RoomFixed /\ acct' = acct
  BY <1>1, Lonely DEF FlowRefund, At, BetPC, RoomFixed, clock, bets, Dealt
<1>3. /\ Sound(s) /\ Fine(s) /\ AcctOK /\ Placed(s, game_step, banker) /\ AcctKept
      /\ \A u \in User : Stake(u) \in Nat
  BY <1>1, <1>2, SoundNow, AcctSame
<1>4. PICK b : b = [bal |-> [u \in User |-> Staked(u)],
                    frozen |-> [u \in User |-> -Staked(u)], owner |-> 0]
  OBVIOUS
<1>5. PICK t : t = [s EXCEPT !.pc = "flow_acct", !.batch = b]
  OBVIOUS
<1>6. s.u = banker /\ banker # None /\ game_step = "result"
  BY <1>2, <1>3 DEF Sound, Doing, AfterPC, SettlePC, Placed
<1>7. Goto(k, t) \/ (Goto(k, Idle) /\ Bettors = {})
  BY <1>1, <1>4, <1>5, <1>6 DEF FlowRefund, Done
<1>8. \A u \in User : Staked(u) \in Nat
  BY StakesNat DEF NBase, Base
<1>9. CASE Goto(k, t)
  <2>1. t.pc = "flow_acct" /\ t.u = s.u /\ t.batch = b
    BY <1>3, <1>5 DEF Fine, Record
  <2>2. Moved(k, t)
    BY <1>1, <1>2, <1>9, <2>1, MoveOn DEF NBase, Base, MixPC, AfterPC, SettlePC
  <2>3. b # None /\ \A u \in User : b.bal[u] >= 0 /\ b.frozen[u] = -Staked(u)
    <3> DEFINE x == [u \in User |-> Staked(u)]
               y == [u \in User |-> -Staked(u)]
    <3>1. /\ x \in [User -> Int] /\ y \in [User -> Int]
          /\ \A u \in User : x[u] >= 0 /\ y[u] = -Staked(u)
      BY <1>8
    <3>2. b = [bal |-> x, frozen |-> y, owner |-> 0]
      BY <1>4
    <3> HIDE DEF x, y
    <3>3. b.bal = x /\ b.frozen = y /\ b \in [bal : [User -> Int], frozen : [User -> Int], owner : Int]
      BY <3>1, <3>2
    <3> QED BY <3>1, <3>3, NoneAssumption
  <2>4. Doing(t)
    BY <1>6, <2>1, <2>3 DEF Doing, BetPC, AfterPC, SettlePC, SettlingPC
  <2>5. Paid(t)'
    BY <1>2, <1>3, <2>1, PaidSame DEF GoldPC, RoomFixed
  <2>6. \A v \in User : Kept(t, v) = Kept(s, v)
    BY <1>2, <2>1 DEF Kept, SettlingPC, FlowingPC
  <2>7. Sound(t)'
    BY <1>2, <1>3, <2>4, <2>5, <2>6, SoundTurn
  <2> QED BY <1>2, <2>2, <2>7, SoundNext
<1>10. CASE Goto(k, Idle) /\ Bettors = {}
  <2>1. Moved(k, Idle)
    BY <1>10, MoveOn, IdleFields DEF NBase, Base
  <2>2. \A u \in User : Kept(Idle, u) = Kept(s, u)
    <3>1. \A u \in User : Kept(Idle, u) = Stake(u)
      BY <1>3, <1>6, IdleFields, KeptPlain, OwedOutside DEF BetweenPC, SettlingPC, FlowingPC
    <3>2. \A u \in User : Kept(s, u) = Stake(u) + Staked(u) /\ Staked(u) = 0
      BY <1>2, <1>10 DEF Kept, SettlingPC, FlowingPC, Staked
    <3> QED BY <1>3, <3>1, <3>2
  <2>3. Paid(Idle)' /\ Doing(Idle)
    BY <1>2, <1>3, IdleFields, PaidSame, DoingIdle DEF GoldPC, RoomFixed
  <2>4. Sound(Idle)'
    BY <1>2, <1>3, <2>2, <2>3, SoundTurn
  <2> QED BY <1>2, <2>1, <2>4, SoundNext
<1> QED BY <1>7, <1>9, <1>10

(* The refund is covered and booked. *)
LEMMA NFlowRefunded ==
    ASSUME NBase, NEW k \in Coroutine, FlowRefunded(k)
    PROVE  NInv'
<1>1. PICK s : s = task[k]
  OBVIOUS
<1>2. s.pc = "flow_acct" /\ OthersIdle(k) /\ RoomFixed
  BY <1>1, Lonely DEF FlowRefunded, At, BetPC, RoomFixed, room, clock, seat, bets, Dealt
<1>3. /\ Sound(s) /\ Fine(s) /\ AcctOK /\ Placed(s, game_step, banker)
      /\ \A u \in User : Stake(u) \in Nat
  BY <1>1, <1>2, SoundNow
<1>4. PICK t : t = [s EXCEPT !.pc = "flow_mode"]
  OBVIOUS
<1>5. /\ s.u = banker /\ banker # None /\ s.batch # None /\ Solid /\ game_step = "result"
      /\ \A u \in User : s.batch.bal[u] >= 0 /\ s.batch.frozen[u] = -Staked(u)
  BY <1>2, <1>3 DEF Sound, Doing, AfterPC, SettlePC, SettlingPC, Placed
<1>6. s.batch \in Batch
  BY <1>1, <1>5 DEF NBase, HInv, Held, Balanced
<1>7. PICK reply \in {"ok", "error"} : OperAcct(s.batch, reply) /\ (reply = "ok" => Goto(k, t))
  BY <1>1, <1>4 DEF FlowRefunded
<1>8. \A u \in User : acct.frozen[u] = Stake(u) + Staked(u)
  BY <1>2, <1>3 DEF Sound, Kept, SettlingPC, FlowingPC
<1>9. \A u \in User : /\ acct.bal[u] \in Int /\ s.batch.bal[u] \in Int
                       /\ Staked(u) \in Nat /\ Stake(u) \in Nat
  BY <1>3, <1>6, StakesNat DEF AcctOK, Batch, NBase, Base
<1>10. \A u \in User : /\ acct.bal[u] + s.batch.bal[u] >= 0
                        /\ acct.frozen[u] + s.batch.frozen[u] = Stake(u)
  BY <1>5, <1>8, <1>9 DEF Solid
<1>11. acct' = Booked(s.batch) /\ reply = "ok"
  <2>1. Covered(s.batch)
    BY <1>5, <1>9, <1>10 DEF Covered
  <2> QED BY <1>7, <2>1, AcctSure DEF NBase
<1>12. /\ \A v \in User : acct'.bal[v] = acct.bal[v] + s.batch.bal[v]
       /\ \A v \in User : acct'.frozen[v] = acct.frozen[v] + s.batch.frozen[v]
       /\ acct'.gold = acct.gold /\ acct'.goldFrozen = acct.goldFrozen
  BY <1>3, <1>6, <1>11, BookedFacts
<1>13. t.pc = "flow_mode" /\ t.u = s.u
  BY <1>3, <1>4 DEF Fine, Record
<1>14. Moved(k, t)
  BY <1>1, <1>2, <1>7, <1>11, <1>13, MoveOn DEF NBase, Base, MixPC, AfterPC, SettlePC
<1>15. \A u \in User : acct'.frozen[u] = Kept(t, u)'
  <2>1. \A u \in User : Kept(t, u) = Stake(u)
    BY <1>3, <1>5, <1>13, KeptPlain, OwedOutside DEF BetweenPC, SettlingPC, FlowingPC
  <2> QED BY <1>2, <1>10, <1>12, <2>1, FixedFacts
<1>16. Doing(t)
  BY <1>5, <1>13 DEF Doing, BetPC, AfterPC, SettlePC, SettlingPC
<1>17. SeatInv' /\ Doing(t)' /\ Solid'
  BY <1>2, <1>3, <1>10, <1>12, <1>16, FixedFacts DEF Sound, Solid
<1>18. Paid(t)'
  BY <1>2, <1>3, <1>12, <1>13, PaidSame DEF GoldPC, RoomFixed
<1>19. Sound(t)'
  BY <1>15, <1>17, <1>18 DEF Sound
<1> QED BY <1>2, <1>14, <1>19, SoundNext

-----------------------------------------------------------------------------
(* Every step, and the theorem.                                            *)

(* Steps of members. *)
LEMMA NCommand == ASSUME NBase, Command PROVE NInv'
BY NRobBanker, NBiaoBanker, NDownBanker, NBetting, NOpenRedPacket, NResting DEF Command

(* Steps of suspended coroutines. *)
LEMMA NResume == ASSUME NBase, NEW k \in Coroutine, Resume(k) PROVE NInv'
<1>1. CASE \/ RobGoldFrozen(k) \/ RobCoinFrozen(k) \/ RobStartsGame(k) \/ StartGoldFrozen(k)
           \/ BiaoCoinFrozen(k) \/ BiaoDone(k) \/ DownReturned(k) \/ DownCleared(k)
  BY <1>1, NRobGoldFrozen, NRobCoinFrozen, NRobStartsGame, NStartGoldFrozen, NBiaoCoinFrozen,
     NBiaoDone, NDownReturned, NDownCleared
<1>2. CASE \/ BetResumed(k) \/ BetCoinFrozen(k) \/ SendAssigned(k) \/ SendDone(k)
           \/ FlowGoldReturned(k) \/ FlowRefund(k) \/ FlowRefunded(k) \/ FlowDone(k)
  BY <1>2, NBetResumed, NBetCoinFrozen, NSendAssigned, NSendDone, NFlowGoldReturned,
     NFlowRefund, NFlowRefunded, NResultDone
<1>3. CASE \/ ResultLogged(k) \/ ResultGoldUsed(k) \/ ResultBooked(k) \/ ResultStored(k)
           \/ ResultDone(k)
  BY <1>3, NResultLogged, NResultGoldUsed, NResultBooked, NResultStored, NResultDone
<1> QED BY <1>1, <1>2, <1>3 DEF Resume

(* Ticks. *)
LEMMA NTick == ASSUME NBase, NEW k \in Coroutine, Tick(k) PROVE NInv'
BY NResting, NTickStep, NTickQiang, NTickBiaoEnd, NTickSend, NTickWaitResult, NTickResult, NTickFlow DEF Tick

(* NInv is inductive. *)
LEMMA StrandedInductive ==
    ASSUME NBase, [Next]_vars
    PROVE  NInv'
<1>1. CASE Next
  BY <1>1, NCommand, NResume, NTick DEF Next
<1>2. CASE UNCHANGED vars
  <2>1. RoomFixed /\ task' = task /\ acct' = acct
    BY <1>2 DEF vars, room, clock, seat, bets, RoomFixed, Dealt
  <2> QED BY <2>1, SoundRest DEF NBase
<1> QED BY <1>1, <1>2

(* A room at the start. *)
LEMMA InitStranded == Init => NInv
<1> SUFFICES ASSUME Init PROVE NInv
  OBVIOUS
<1>1. /\ game_step = "none" /\ banker = None /\ players = None /\ bankerGameCoin = 0
      /\ \A k \in Coroutine : task[k] = Idle
  BY DEF Init
<1>2. /\ acct.gold = InitGold /\ acct.goldFrozen = 0
      /\ \A u \in User : acct.bal[u] = InitBal /\ acct.frozen[u] = 0 /\ unsettled[u] = 0
  BY DEF Init, NoCoins
<1>3. Doing(Idle) /\ ~Round /\ ~Betted /\ Idle.pc = "idle"
  BY <1>1, DoingIdle, IdleFields DEF Round, Betted, InPlay
<1>4. Paid(Idle) /\ Solid
  BY <1>2, <1>3, RoomAssumption DEF Paid, Solid, GoldPC
<1>5. SeatInv
  BY <1>1, <1>3 DEF SeatInv
<1>6. \A u \in User : acct.frozen[u] = Kept(Idle, u)
  <2>1. \A u \in User : Kept(Idle, u) = Stake(u)
    BY <1>1, <1>3, KeptPlain, OwedOutside DEF BetweenPC, SettlingPC, FlowingPC
  <2>2. \A u \in User : Stake(u) = 0 + 0
    BY <1>1, <1>2, RoomAssumption DEF Stake, Sits
  <2> QED BY <1>2, <2>1, <2>2
<1>7. Sound(Idle)
  BY <1>3, <1>4, <1>5, <1>6 DEF Sound
<1> QED BY <1>1, <1>3, <1>7 DEF NInv, Together

(* NothingStranded, for an account server without faults: whenever no      *)
(* handler is under way, it holds of every member exactly what he has in    *)
(* the game and the bets that getResult raised on, after any number of      *)
(* robs, bids, bets, settlements, void rounds and departures, whatever is   *)
(* bet on and however many packets there are.  Bets overlap one another and *)
(* the timer: their answers may come when the betting is over, but before   *)
(* the packets are counted, the void round is refunded or the round is      *)
(* settled (Strict).  Every settlement and every refund is covered, so none *)
(* of them leaves coins behind.                                             *)
THEOREM NothingEverStranded ==
    ASSUME Strict
    PROVE  Spec => []NothingStranded
<1>1. BetOverlapOnly
  BY DEF Strict
<1>2. Spec => [](IInv /\ OInv /\ HInv)
  BY <1>1, CoinsInvariance
<1>3. Init => LInv /\ Counted /\ NInv
  BY InitCover, InitCounted, InitStranded
<1>4. (IInv /\ OInv /\ HInv) /\ (LInv /\ Counted /\ NInv) /\ [Next]_vars => (LInv /\ Counted /\ NInv)'
  <2> SUFFICES ASSUME IInv, OInv, HInv, LInv, Counted, NInv, [Next]_vars
               PROVE  (LInv /\ Counted /\ NInv)'
    OBVIOUS
  <2>1. Base
    BY <1>1 DEF Base, HInv
  <2>2. Closed
    BY DEF NInv, Together, Closed, SettlePC, BetPC
  <2> QED BY <2>1, <2>2, CoverInductive, CountedStep, StrandedInductive DEF NBase
<1>5. IInv /\ LInv /\ Counted /\ NInv => NothingStranded
  <2> SUFFICES ASSUME IInv, LInv, Counted, NInv, Quiet, NEW u \in User
               PROVE  acct.frozen[u] = (IF u = banker THEN bankerGameCoin ELSE 0)
                                       + (IF InPlay \/ game_step = "flow" THEN Staked(u) ELSE 0)
                                       + unsettled[u]
    BY DEF NothingStranded
  <2>1. Sound(Idle)
    BY DEF Quiet, At, Together, NInv
  <2>2. acct.frozen[u] = Owed(u)
    BY <2>1, KeptPlain, IdleFields DEF Sound, BetweenPC, SettlingPC, FlowingPC
  <2>3. Staked(u) \in Nat /\ unsettled[u] \in Nat /\ bankerGameCoin \in Nat
    BY StakesNat DEF LInv, Counted
  <2> QED BY <2>2, <2>3 DEF Owed, Stake, Sits, Betted
<1> QED BY <1>2, <1>3, <1>4, <1>5, PTL DEF Spec
=============================================================================

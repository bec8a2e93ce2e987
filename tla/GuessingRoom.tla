---------------------------- MODULE GuessingRoom ----------------------------
(***************************************************************************)
(* One room of the guessing game (rock, paper, scissors): the agent that   *)
(* runs guessing/cmd.lua, guessing/step.lua and guessing/logic.lua.        *)
(*                                                                         *)
(* Two members bet, show a fist, and the loser's bet goes to the winner;   *)
(* a tie is played again.  A one-second timer ends the steps.  As in       *)
(* HongbaoRoom every message and tick is a coroutine that yields at each   *)
(* HTTP and database call, one action per stretch between two yields.      *)
(* The room starts when the second member has logged in.                   *)
(***************************************************************************)
EXTENDS Integers, Sequences, FiniteSets, Functions

CONSTANTS
    User,       \* the two members
    Coroutine,  \* bound: coroutines suspended at once
    None,       \* Lua's nil
    Values,     \* amounts a client may bet
    Shown,      \* fists a client may send
    Duration,   \* length in ticks of the steps that wait
    TimeCap,    \* bound: game_time is not counted further
    InitBal,    \* coins of each member at the start
    EarlyPunch, \* whether a client may show a fist before it is told punch_start
    Faults,     \* account server faults considered, a subset of {"fail", "lost"}
    Leavers,    \* members that may lose their connection
    Overlap     \* bound: pairs of handlers one of which may start while the other
                \* is suspended; in the program all, AllKinds

(* The steps of the game, in the order of config.lua. *)
NONE == 0
BET_START == 1
BET_END == 2
PUNCHES_START == 3
PUNCHES_END == 4
WAIT_RESULT == 5
RESULT == 6
FLOW == 7
GAME_OVER == 8

Fist == 1..3    \* scissors, rock, paper
Kinds == {"bet", "punch", "quit", "leave", "tick", "fists"}
AllKinds == {{x, y} : x, y \in Kinds}

ASSUME GuessingAssumption ==
    /\ IsFiniteSet(User) /\ Cardinality(User) = 2 /\ None \notin User
    /\ Values \subseteq Int /\ Shown \subseteq Int
    /\ Duration \in [{BET_START, PUNCHES_START, WAIT_RESULT} -> Nat]
    /\ \A st \in DOMAIN Duration : Duration[st] <= TimeCap
    /\ TimeCap \in Nat \ {0} /\ InitBal \in Nat /\ EarlyPunch \in BOOLEAN
    /\ Faults \subseteq {"fail", "lost"} /\ Leavers \subseteq User /\ Overlap \subseteq AllKinds

(* nil is neither a fist nor a table of fists. *)
ASSUME NilAssumption ==
    None \notin Fist /\ None \notin [User -> Shown \cup Fist \cup {None}]

VARIABLES
    game_step, game_time,
    conns,     \* members with a connection (g.conns)
    users,     \* members of the agent (g.users)
    members,   \* members of the room as mgr counts them; {}: the agent is killed
    bet_data,  \* the bets of each member
    lost,      \* coins of each member frozen for a bet whose answer was lost (history)
    punches,   \* g.punches_data: the fist of each member or None; None: no table
    winner,    \* g.winner, None after a tie
    outcome,   \* g.outcome_status: "tie", "win" or None
    task,      \* the suspended coroutines
    acct       \* the account server (external)

clock == <<game_step, game_time>>
crowd == <<conns, users, members>>
bets  == <<bet_data, lost>>
game  == <<bets, punches, winner, outcome>>
vars  == <<clock, crowd, game, task, acct>>

-----------------------------------------------------------------------------
(* The account server: a batch of transfers is applied as a whole or       *)
(* refused; an answer may be lost.                                         *)

NoBatch == [u \in User |-> [bal |-> 0, frozen |-> 0]]

Covered(b) == \A u \in User : /\ acct[u].bal + b[u].bal >= 0
                              /\ acct[u].frozen + b[u].frozen >= 0
Booked(b) == [u \in User |-> [bal |-> acct[u].bal + b[u].bal,
                              frozen |-> acct[u].frozen + b[u].frozen]]

OperAcct(b, reply) ==
    \/ reply = "ok" /\ Covered(b) /\ acct' = Booked(b)
    \/ reply = "error" /\ ~Covered(b) /\ UNCHANGED acct
    \/ reply = "error" /\ "fail" \in Faults /\ UNCHANGED acct
    \/ reply = "error" /\ "lost" \in Faults /\ Covered(b) /\ acct' = Booked(b)

Freeze(u, v) == [NoBatch EXCEPT ![u] = [bal |-> - v, frozen |-> v]]

-----------------------------------------------------------------------------
(* Coroutines.                                                             *)

(* pc: the call waited for; u, v: arguments; todo: players a loop has yet   *)
(* to visit; batch: the transfers asked for.                               *)
Idle == [pc |-> "idle", u |-> None, v |-> 0, todo |-> {}, batch |-> NoBatch]

At(k, pc) == task[k].pc = pc
Goto(k, t) == task' = [task EXCEPT ![k] = t]
Done(k) == Goto(k, Idle)

Kind(pc) == IF pc \in {"bet_query", "bet_coin", "bet_db"} THEN "bet"
            ELSE IF pc = "punch_db" THEN "punch"
            ELSE IF pc = "quit_acct" THEN "quit"
            ELSE IF pc = "leave_mgr" THEN "leave"
            ELSE IF pc = "fist_db" THEN "fists"    \* a tick that draws fists
            ELSE "tick"

(* A killed agent runs nothing. *)
CanStart(k, kind) ==
    /\ members # {}
    /\ At(k, "idle")
    /\ \A j \in Coroutine : At(j, "idle") \/ {kind, Kind(task[j].pc)} \in Overlap

set_game_step(step) == game_step' = step /\ game_time' = 0

Bettors == {u \in User : bet_data[u] # << >>}
Players == Bettors    \* g.players is filled together with g.bet_data

Init ==
    /\ game_step = BET_START /\ game_time = 0
    /\ conns = User /\ users = User /\ members = User
    /\ bet_data = [u \in User |-> << >>] /\ lost = [u \in User |-> 0]
    /\ punches = None /\ winner = None /\ outcome = None
    /\ task = [k \in Coroutine |-> Idle]
    /\ acct = [u \in User |-> [bal |-> InitBal, frozen |-> 0]]

-----------------------------------------------------------------------------
(* Betting.                                                                *)

(* cmd.betting and the check of logic.betting; the balance is asked for.   *)
Betting(k, u, v) ==
    /\ CanStart(k, "bet") /\ u \in conns
    /\ game_step = BET_START
    /\ bet_data[u] = << >>
    /\ Goto(k, [Idle EXCEPT !.pc = "bet_query", !.u = u, !.v = v])
    /\ UNCHANGED <<clock, crowd, game, acct>>

(* The balance bounds the bet; without an answer it counts as zero.        *)
BetQueried(k) ==
    /\ At(k, "bet_query")
    /\ \E max \in {acct[task[k].u].bal} \cup (IF Faults = {} THEN {} ELSE {0}) :
         IF task[k].v \in 1..max
           THEN Goto(k, [task[k] EXCEPT !.pc = "bet_coin", !.batch = Freeze(task[k].u, task[k].v)])
           ELSE Done(k)
    /\ UNCHANGED <<clock, crowd, game, acct>>

(* The coins are frozen: the bet counts.  It is then saved in the database.  *)
(* Without an answer it does not count, and what was frozen stays so.        *)
BetFrozen(k) ==
    /\ At(k, "bet_coin")
    /\ \E reply \in {"ok", "error"} :
         /\ OperAcct(task[k].batch, reply)
         /\ IF reply = "ok"
              THEN /\ bet_data' = [bet_data EXCEPT ![task[k].u] = Append(@, task[k].v)]
                   /\ Goto(k, [task[k] EXCEPT !.pc = "bet_db"])
                   /\ UNCHANGED lost
              ELSE /\ lost' = [u \in User |-> lost[u] + (acct'[u].frozen - acct[u].frozen)]
                   /\ Done(k) /\ UNCHANGED bet_data
    /\ UNCHANGED <<clock, crowd, punches, winner, outcome>>

(* Both have bet: the step ends at once. *)
BetSaved(k) ==
    /\ At(k, "bet_db")
    /\ IF Bettors = User THEN set_game_step(BET_END) ELSE UNCHANGED clock
    /\ Done(k)
    /\ UNCHANGED <<crowd, game, acct>>

-----------------------------------------------------------------------------
(* Showing a fist.                                                         *)

(* cmd.punch, logic.punch.  A fist that is none of the three is answered   *)
(* with an error, but the handler goes on.                                 *)
Punch(k, u, f) ==
    /\ CanStart(k, "punch") /\ u \in conns
    /\ game_step = PUNCHES_START \/ (game_step = BET_END /\ EarlyPunch)
    /\ LET table == IF punches = None THEN [w \in User |-> None] ELSE punches
       IN /\ table[u] = None
          /\ punches' = [table EXCEPT ![u] = f]
    /\ Goto(k, [Idle EXCEPT !.pc = "punch_db", !.u = u])
    /\ UNCHANGED <<clock, crowd, bets, winner, outcome, acct>>

BothPunched == punches # None /\ \A u \in User : punches[u] # None

(* Both have shown a fist: the step ends at once. *)
PunchSaved(k) ==
    /\ At(k, "punch_db")
    /\ IF BothPunched THEN set_game_step(PUNCHES_END) ELSE UNCHANGED clock
    /\ Done(k)
    /\ UNCHANGED <<crowd, game, acct>>

-----------------------------------------------------------------------------
(* Settlement.                                                             *)

(* getGuessingResult: does fist f lose against g?  Of two other different  *)
(* fists the first wins.                                                   *)
Loses(f, g) == <<f, g>> \in {<<1, 2>>, <<2, 3>>, <<3, 1>>}

(* Every player's first bet comes back; t coins go from the loser to the   *)
(* winner.                                                                 *)
ResultBatch(w, t) ==
    [u \in User |-> IF u \notin Players THEN [bal |-> 0, frozen |-> 0]
                    ELSE [bal |-> bet_data[u][1] + (IF u = w THEN t ELSE - t),
                          frozen |-> - bet_data[u][1]]]

(* logic.game_result for the winner w: the loser's bet is transferred.     *)
CallResult(k, w) ==
    \E loser \in Players \ {w} :
      Goto(k, [Idle EXCEPT !.pc = "result_acct", !.batch = ResultBatch(w, bet_data[loser][1])])

(* push_guessing_result: the winner is known; then wait_result, or, unless *)
(* it is a tie, the settlement.  now: game_time, if the step goes on.      *)
PushResult(k, now) ==
    LET shown == IF punches = None THEN {} ELSE {u \in User : punches[u] # None}
    IN  \/ /\ ~(shown \subseteq Players)        \* a fist of nobody's: an error
           /\ game_time' = now
           /\ Done(k) /\ UNCHANGED <<game_step, game>>
        \/ /\ shown \subseteq Players /\ shown # User
           /\ winner' = None /\ outcome' = None
           /\ set_game_step(WAIT_RESULT)
           /\ Done(k) /\ UNCHANGED <<bets, punches>>
        \/ /\ shown = User /\ User \subseteq Players
           /\ \E l \in User : \E r \in User \ {l} :
                IF punches[l] = punches[r]
                  THEN /\ winner' = None /\ outcome' = "tie"
                       /\ set_game_step(WAIT_RESULT)
                       /\ Done(k)
                  ELSE LET w == IF Loses(punches[l], punches[r]) THEN r ELSE l
                       IN /\ winner' = w /\ outcome' = "win"
                          /\ set_game_step(RESULT)
                          /\ CallResult(k, w)
           /\ UNCHANGED <<bets, punches>>

(* logic.punch_end: for every player without a fist one is drawn and saved *)
(* in the database.                                                        *)
DrawFists(k, todo, now) ==
    LET table   == IF punches = None THEN [u \in User |-> None] ELSE punches
        missing == {u \in todo : table[u] = None}
    IN  \/ /\ missing # {}
           /\ \E u \in missing, f \in Fist :
                /\ punches' = [table EXCEPT ![u] = f]
                /\ Goto(k, [Idle EXCEPT !.pc = "fist_db", !.todo = todo \ {u}])
           /\ game_time' = now
           /\ UNCHANGED <<game_step, bets, winner, outcome>>
        \/ missing = {} /\ PushResult(k, now)

(* The loop goes on; a table that a tie has removed meanwhile is an error. *)
FistSaved(k) ==
    /\ At(k, "fist_db")
    /\ IF punches = None /\ task[k].todo # {}
         THEN Done(k) /\ UNCHANGED <<clock, game>>
         ELSE DrawFists(k, task[k].todo, game_time)
    /\ UNCHANGED <<crowd, acct>>

(* The settlement is booked: game over.  If it is not, the handler fails   *)
(* on an undefined variable and the game stays in its step.                *)
ResultSettled(k) ==
    /\ At(k, "result_acct")
    /\ \E reply \in {"ok", "error"} :
         /\ OperAcct(task[k].batch, reply)
         /\ game_step' = IF reply = "ok" THEN GAME_OVER ELSE game_step
    /\ Done(k)
    /\ UNCHANGED <<game_time, crowd, game>>

FlowBatch ==
    [u \in User |-> IF u \notin Bettors THEN [bal |-> 0, frozen |-> 0]
                    ELSE [bal |-> bet_data[u][1], frozen |-> - bet_data[u][1]]]

(* Mutant of FlowSaved: without bets the game goes back to step none. *)
FlowSavedReset(k) ==
    /\ At(k, "flow_db")
    /\ IF Bettors = {}
         THEN game_step' = NONE /\ Done(k)
         ELSE /\ Goto(k, [Idle EXCEPT !.pc = "result_acct", !.batch = FlowBatch])
              /\ UNCHANGED game_step
    /\ UNCHANGED <<game_time, crowd, game, acct>>

(* game_flow_bureau after its database call: the bets go back.             *)
FlowSaved(k) ==
    /\ At(k, "flow_db")
    /\ IF Bettors = {}
         THEN game_step' = GAME_OVER /\ Done(k)
         ELSE /\ Goto(k, [Idle EXCEPT !.pc = "result_acct", !.batch = FlowBatch])
              /\ UNCHANGED game_step
    /\ UNCHANGED <<game_time, crowd, game, acct>>

-----------------------------------------------------------------------------
(* Leaving.                                                                *)

(* Mutant of QuitBatch: nothing comes back, only the transfer is made. *)
QuitBatchNoReturn(q) ==
    LET t == IF users = User /\ bet_data[q] # << >> THEN bet_data[q][1] ELSE 0
    IN  [u \in User |-> [bal |-> IF u = q THEN - t ELSE t, frozen |-> 0]]

(* quit_game: every member that is there gets his bet back; the bet of the *)
(* one who quits goes to the other.                                        *)
QuitBatch(q) ==
    LET back(u) == IF u \in users /\ bet_data[u] # << >> THEN bet_data[u][1] ELSE 0
        t       == IF users = User THEN back(q) ELSE 0
    IN  [u \in User |-> [bal |-> back(u) + (IF u = q THEN - t ELSE t), frozen |-> - back(u)]]

(* Mutant of QuitGame: the game is over without a settlement. *)
QuitGameUnpaid(k, u) ==
    /\ CanStart(k, "quit") /\ u \in conns
    /\ set_game_step(GAME_OVER)
    /\ UNCHANGED <<crowd, game, task, acct>>

QuitGame(k, u) ==
    LET running == game_step \notin {NONE, RESULT, GAME_OVER}
        staked  == \E w \in users : bet_data[w] # << >>
    IN  /\ CanStart(k, "quit") /\ u \in conns
        /\ \/ /\ running /\ staked
              /\ Goto(k, [Idle EXCEPT !.pc = "quit_acct", !.batch = QuitBatch(u)])
              /\ UNCHANGED clock
           \/ /\ ~(running /\ staked)
              /\ set_game_step(GAME_OVER)
              /\ UNCHANGED task
        /\ UNCHANGED <<crowd, game, acct>>

QuitSettled(k) ==
    /\ At(k, "quit_acct")
    /\ \E reply \in {"ok", "error"} :
         /\ OperAcct(task[k].batch, reply)
         /\ IF reply = "ok" THEN set_game_step(GAME_OVER) ELSE UNCHANGED clock
    /\ Done(k)
    /\ UNCHANGED <<crowd, game>>

(* room/cmd.disconnect and post_leave, up to the call of mgr.              *)
Disconnect(k, u) ==
    /\ CanStart(k, "leave") /\ u \in conns \cap Leavers
    /\ conns' = conns \ {u}
    /\ Goto(k, [Idle EXCEPT !.pc = "leave_mgr", !.u = u])
    /\ UNCHANGED <<clock, users, members, game, acct>>

(* mgr.exit_member: the member is gone; the agent of an empty room is      *)
(* killed with all its coroutines, else post_leave forgets the member.     *)
Left(k) ==
    /\ At(k, "leave_mgr")
    /\ members' = members \ {task[k].u}
    /\ IF members' = {}
         THEN task' = [j \in Coroutine |-> Idle] /\ UNCHANGED users
         ELSE Done(k) /\ users' = users \ {task[k].u}
    /\ UNCHANGED <<clock, conns, game, acct>>

(* The member enters the room again (mgr.enter_room, room/cmd.login).      *)
Login(k, u) ==
    /\ CanStart(k, "leave") /\ u \notin members
    /\ members' = members \cup {u} /\ users' = users \cup {u} /\ conns' = conns \cup {u}
    /\ UNCHANGED <<clock, game, task, acct>>

-----------------------------------------------------------------------------
(* The timer: step.run.                                                    *)

Later == IF game_time < TimeCap THEN game_time + 1 ELSE game_time

(* The function of the current step is due. *)
Due(step, limit) == game_step = step /\ Later >= limit

Stay(k) == game_time' = Later /\ UNCHANGED <<game_step, game, task>>

TickBetStart(k) ==
    /\ CanStart(k, "tick") /\ Due(BET_START, Duration[BET_START])
    /\ set_game_step(BET_END)
    /\ UNCHANGED <<crowd, game, task, acct>>

(* beter_end: with two bets the fists are asked for, else the bets go back *)
(* (flow), which first saves the step.                                     *)
TickBetEnd(k) ==
    /\ CanStart(k, "tick") /\ Due(BET_END, 1)
    /\ \/ /\ Bettors = User
          /\ set_game_step(PUNCHES_START)
          /\ UNCHANGED task
       \/ /\ Bettors # User
          /\ set_game_step(FLOW)
          /\ Goto(k, [Idle EXCEPT !.pc = "flow_db"])
    /\ UNCHANGED <<crowd, game, acct>>

TickPunchesStart(k) ==
    /\ CanStart(k, "tick") /\ Due(PUNCHES_START, Duration[PUNCHES_START])
    /\ set_game_step(PUNCHES_END)
    /\ UNCHANGED <<crowd, game, task, acct>>

(* Without players the loop of punch_end fails. *)
TickPunchesEnd(k) ==
    /\ CanStart(k, "tick") /\ Due(PUNCHES_END, 1)
    /\ IF Players = {} THEN Stay(k) ELSE DrawFists(k, Players, Later)
    /\ UNCHANGED <<crowd, acct>>

(* The wait is over: a tie is played again, else the result is booked.     *)
TickWaitResult(k) ==
    /\ CanStart(k, "tick") /\ Due(WAIT_RESULT, Duration[WAIT_RESULT])
    /\ \/ /\ outcome = "tie"
          /\ punches' = None
          /\ set_game_step(PUNCHES_START)
          /\ UNCHANGED task
       \/ /\ outcome # "tie"
          /\ game_step' = RESULT /\ game_time' = Later
          /\ CallResult(k, winner)
          /\ UNCHANGED punches
    /\ UNCHANGED <<crowd, bets, winner, outcome, acct>>

(* Nothing is due.  (Where game_time, not game_step, equals GAME_OVER the  *)
(* source skips a tick; TimeCap is below.)                                 *)
TickIdle(k) ==
    /\ CanStart(k, "tick")
    /\ game_step \in DOMAIN Duration /\ Later < Duration[game_step]
    /\ Stay(k)
    /\ UNCHANGED <<crowd, acct>>

Tick(k) == \/ TickBetStart(k) \/ TickBetEnd(k) \/ TickPunchesStart(k)
           \/ TickPunchesEnd(k) \/ TickWaitResult(k) \/ TickIdle(k)

Continue(k) == \/ BetQueried(k) \/ BetFrozen(k) \/ BetSaved(k) \/ PunchSaved(k)
               \/ FistSaved(k) \/ ResultSettled(k) \/ FlowSaved(k)
               \/ QuitSettled(k) \/ Left(k)

Next == \E k \in Coroutine :
          \/ \E u \in User : \/ \E v \in Values : Betting(k, u, v)
                             \/ \E f \in Shown : Punch(k, u, f)
                             \/ QuitGame(k, u) \/ Disconnect(k, u) \/ Login(k, u)
          \/ Continue(k)
          \/ Tick(k)

Spec == Init /\ [][Next]_vars

(* The timer fires for ever, and HTTP and database calls are answered or   *)
(* time out.                                                               *)
FairSpec == /\ Spec
            /\ WF_vars(\E k \in Coroutine : Tick(k))
            /\ \A k \in Coroutine : WF_vars(Continue(k))

-----------------------------------------------------------------------------
(* Properties.                                                             *)

(* Every variable keeps its type: the room's cache, the coroutines' locals   *)
(* and the account server's books.                                           *)
TypeOK ==
    /\ game_step \in BET_START..GAME_OVER /\ game_time \in 0..TimeCap
    /\ conns \subseteq User /\ users \subseteq User /\ members \subseteq User
    /\ bet_data \in [User -> Seq(Values)] /\ lost \in [User -> Nat]
    /\ punches # None => punches \in [User -> Shown \cup Fist \cup {None}]
    /\ winner \in User \cup {None} /\ outcome \in {"tie", "win", None}
    /\ DOMAIN task = Coroutine
    /\ acct \in [User -> [bal : Nat, frozen : Nat]]

Total(u) == acct[u].bal + acct[u].frozen

(* Coins are only moved: a settlement (game_result) takes from the loser    *)
(* what it gives to the winner, in every order of ticks, quits and answers. *)
Conserved == SumFunction([u \in User |-> Total(u)]) = 2 * InitBal

(* All coins ever frozen for a member: his bets, and bets the room does not *)
(* know of because the answer was lost (logic.betting).                     *)
Staked(u) == SumFunction(bet_data[u]) + lost[u]

(* Every frozen coin is accounted for, however late the account server       *)
(* answers and whichever bets are under way together (logic.betting).        *)
FrozenBacked == \A u \in User : acct[u].frozen <= Staked(u)

(* A stake is settled at most once: game_result, game_flow_bureau and       *)
(* quit_game may each start a settlement while another is suspended, or book *)
(* one whose answer is lost, yet a member loses only what was frozen for him *)
(* and is not frozen any more, and the other wins no more than that.         *)
SettledOnce ==
    \A u \in User : /\ acct[u].bal >= InitBal - Staked(u)
                    /\ \A w \in User \ {u} : Total(u) <= InitBal + Staked(w) - acct[w].frozen

(* The coins are where the bets of the room say, and a game moves them once. *)
CoinsAccounted == Conserved /\ FrozenBacked /\ SettledOnce

(* When the game is over (game_over) no coins are left frozen. *)
StakesReturned == game_step = GAME_OVER /\ \A u \in User : acct[u].frozen = 0

(* Every game ends, with all stakes returned, unless the members leave or  *)
(* tie again and again (step.run, punches_again).                          *)
GameEnds == \/ <>[]StakesReturned \/ <>(members = {})
            \/ []<>(game_step = WAIT_RESULT /\ outcome = "tie")
=============================================================================

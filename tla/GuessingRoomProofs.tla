------------------------- MODULE GuessingRoomProofs -------------------------
(***************************************************************************)
(* A room of the guessing game, with any amounts, fists and durations and  *)
(* any number of coroutines: the types of its state, and that its coins    *)
(* are conserved and settled at most once.                                 *)
(*                                                                         *)
(* While a tick draws fists no other may start: it could start the punches *)
(* again after a tie, and a result without a winner takes coins from both. *)
(* Everything else may overlap, bets of the same member and settlements    *)
(* included, and the account server's answers may fail or get lost.        *)
(***************************************************************************)
EXTENDS GuessingRoom, SequenceTheorems, DataTheorems

(* punch_end is through, with the fists it saves, before the next tick. *)
FistsAlone == {"tick", "fists"} \notin Overlap

-----------------------------------------------------------------------------
(* The inductive invariant.                                                *)

BetPC    == {"bet_query", "bet_coin", "bet_db"}
TickPC   == {"fist_db", "flow_db", "result_acct"}
SettlePC == {"result_acct", "quit_acct"}
PC == BetPC \cup TickPC \cup {"idle", "punch_db", "quit_acct", "leave_mgr"}

Batch == [User -> [bal : Int, frozen : Int]]
Books == [User -> [bal : Nat, frozen : Nat]]
Table == [User -> Shown \cup Fist \cup {None}]
Tasks == [pc : PC, u : User \cup {None}, v : Int, todo : SUBSET User, batch : Batch]

(* One tick at a time draws fists. *)
Exclusive ==
    \A j, k \in Coroutine : j # k => ~(task[j].pc = "fist_db" /\ task[k].pc = "fist_db")

(* Nobody bets nothing. *)
BetShape == \A u \in User : \A i \in DOMAIN bet_data[u] : bet_data[u][i] >= 1

(* The bet a settlement counts, the first. *)
Bet(u) == IF bet_data[u] = << >> THEN 0 ELSE bet_data[u][1]

(* A settlement b: it gives coins back, and of those some, L, go to the      *)
(* other member.                                                             *)
Fair(b) ==
    \E L \in [User -> Nat] : \A u \in User :
       /\ L[u] + b[u].frozen <= 0
       /\ \A w \in User \ {u} : b[u].bal + b[u].frozen = L[w] - L[u]

(* The books: L went to the other member, and all of it had been frozen and  *)
(* is not any more.                                                          *)
Ledger ==
    \E L \in [User -> Nat] : \A u \in User :
       /\ L[u] + acct[u].frozen <= Staked(u)
       /\ \A w \in User \ {u} : Total(u) = InitBal + L[w] - L[u]

(* Fists are shown by members who have bet; the result is only waited for    *)
(* after a tie.                                                              *)
StepInv ==
    /\ game_step \in {PUNCHES_START, WAIT_RESULT} => Bettors = User
    /\ game_step = PUNCHES_END => Bettors = User \/ BothPunched
    /\ game_step = WAIT_RESULT => outcome = "tie"

(* Everybody but the members in todo has a fist. *)
Ready(todo) == \A u \in User \ todo : punches # None /\ punches[u] # None

(* What a suspended coroutine relies on. *)
TaskInv(t) ==
    /\ t \in Tasks
    /\ t.pc \in {"bet_query", "bet_coin"} => t.u \in User /\ t.v \in Values
    /\ t.pc = "bet_coin" => t.v >= 1 /\ t.batch = Freeze(t.u, t.v)
    /\ t.pc = "fist_db" => punches # None /\ Ready(t.todo)
    /\ t.pc \in SettlePC => Fair(t.batch)

Suspended == \A j \in Coroutine : \A s \in {task[j]} : TaskInv(s)

GInv == TypeOK /\ Exclusive /\ BetShape /\ Ledger /\ StepInv /\ Suspended

-----------------------------------------------------------------------------
(* Facts about the state.                                                  *)

LEMMA UserPair == \E a, b \in User : a # b /\ User = {a, b}
<1>1. IsFiniteSet(User) /\ Cardinality(User) = 2
  BY GuessingAssumption
<1>2. User # {}
  BY <1>1, FS_EmptySet
<1>3. PICK a \in User : TRUE
  BY <1>2
<1>4. IsFiniteSet(User \ {a}) /\ Cardinality(User \ {a}) = 1
  BY <1>1, <1>3, FS_RemoveElement
<1>5. PICK b : User \ {a} = {b}
  BY <1>4, FS_Singleton
<1>6. a # b /\ b \in User /\ User = {a, b}
  BY <1>3, <1>5
<1> QED BY <1>3, <1>6

LEMMA BetsOfInts ==
    ASSUME Values \subseteq Int, NEW s \in Seq(Values)
    PROVE  IsFiniteSet(DOMAIN s) /\ \A i \in DOMAIN s : s[i] \in Int
<1>1. PICK n \in Nat : n = Len(s) /\ DOMAIN s = 1..n
  OBVIOUS
<1>2. IsFiniteSet(DOMAIN s)
  BY <1>1, FS_Interval
<1>3. ASSUME NEW i \in 1..Len(s) PROVE s[i] \in Values
  BY ElementOfSeq
<1> QED BY <1>1, <1>2, <1>3

LEMMA BetFacts ==
    ASSUME BetShape, bet_data \in [User -> Seq(Values)], Values \subseteq Int
    PROVE  \A u \in User : /\ Bet(u) \in Nat
                           /\ (u \in Bettors <=> Bet(u) >= 1)
                           /\ (u \in Bettors => Bet(u) = bet_data[u][1])
                           /\ (u \notin Bettors => Bet(u) = 0)
<1> SUFFICES ASSUME NEW u \in User
             PROVE  /\ Bet(u) \in Nat
                    /\ (u \in Bettors <=> Bet(u) >= 1)
                    /\ (u \in Bettors => Bet(u) = bet_data[u][1])
                    /\ (u \notin Bettors => Bet(u) = 0)
  OBVIOUS
<1>1. CASE bet_data[u] = << >>
  BY <1>1 DEF Bet, Bettors
<1>2. CASE bet_data[u] # << >>
  <2>1. bet_data[u] \in Seq(Values) /\ 1 \in DOMAIN bet_data[u]
    BY <1>2, EmptySeq, LenProperties
  <2>2. bet_data[u][1] \in Int /\ bet_data[u][1] >= 1
    BY <2>1, BetsOfInts DEF BetShape
  <2> QED BY <1>2, <2>2 DEF Bet, Bettors
<1> QED BY <1>1, <1>2

(* What was ever frozen is a number of coins. *)
LEMMA StakedNat ==
    ASSUME BetShape, bet_data \in [User -> Seq(Values)], lost \in [User -> Nat],
           Values \subseteq Int, NEW u \in User
    PROVE  Staked(u) \in Nat
<1>1. PICK s : s = bet_data[u]
  OBVIOUS
<1>2. s \in Seq(Values)
  BY <1>1
<1>3. IsFiniteSet(DOMAIN s) /\ \A i \in DOMAIN s : s[i] \in Int
  BY <1>2, BetsOfInts
<1>4. \A i \in DOMAIN s : s[i] \in Nat
  BY <1>1, <1>3 DEF BetShape
<1>5. SumFunction(s) \in Nat
  BY <1>3, <1>4, SumNat DEF SumFunction
<1> QED BY <1>1, <1>5 DEF Staked

LEMMA IdleFacts ==
    /\ Idle \in Tasks /\ Idle.pc = "idle" /\ Idle.u = None /\ Idle.v = 0 /\ Idle.todo = {}
    /\ Idle.batch = NoBatch /\ NoBatch \in Batch
<1>1. NoBatch \in Batch
  BY DEF NoBatch, Batch
<1> HIDE DEF NoBatch
<1> QED BY <1>1 DEF Idle, Tasks, PC

LEMMA TaskIdle == TaskInv(Idle) /\ TaskInv(Idle)'
BY IdleFacts DEF TaskInv, SettlePC

(* Where the bets stay so do the facts that depend on them. *)
LEMMA BetsSame ==
    ASSUME bet_data' = bet_data
    PROVE  /\ Bettors' = Bettors /\ (BetShape => BetShape')
           /\ (lost' = lost => \A u \in User : Staked(u)' = Staked(u))
<1>1. Bettors' = Bettors
  BY DEF Bettors
<1>2. BetShape => BetShape'
  BY DEF BetShape
<1>3. lost' = lost => \A u \in User : Staked(u)' = Staked(u)
  BY DEF Staked
<1> QED BY <1>1, <1>2, <1>3

LEMMA TaskSame ==
    ASSUME punches' = punches, NEW t, TaskInv(t)
    PROVE  TaskInv(t)'
<1>1. t.pc \in SettlePC => Fair(t.batch)'
  BY DEF TaskInv, Fair
<1>2. t.pc = "fist_db" => (punches # None /\ Ready(t.todo))'
  BY DEF TaskInv, Ready
<1> QED BY <1>1, <1>2 DEF TaskInv, Freeze, NoBatch

(* Coroutine k may become t: not a second one draws fists. *)
Free(k, t) == \A j \in Coroutine \ {k} : ~(t.pc = "fist_db" /\ task[j].pc = "fist_db")

LEMMA FreeStart ==
    ASSUME FistsAlone, NEW k \in Coroutine, NEW kind, CanStart(k, kind), NEW t,
           t.pc = "fist_db" => kind = "tick"
    PROVE  Free(k, t)
<1> SUFFICES ASSUME NEW j \in Coroutine \ {k}, t.pc = "fist_db", task[j].pc = "fist_db"
             PROVE  FALSE
  BY DEF Free
<1>1. task[j].pc = "idle" \/ {kind, Kind(task[j].pc)} \in Overlap
  BY DEF CanStart, At
<1>2. kind = "tick" /\ Kind(task[j].pc) = "fists" /\ task[j].pc # "idle"
  BY DEF Kind
<1> QED BY <1>1, <1>2 DEF FistsAlone

LEMMA FreeNext ==
    ASSUME Exclusive, NEW k \in Coroutine, NEW t, t.pc = "fist_db" => task[k].pc = "fist_db"
    PROVE  Free(k, t)
BY DEF Exclusive, Free

(* Coroutine k becomes t and the others find what they rely on. *)
LEMMA TasksNext ==
    ASSUME GInv, NEW k \in Coroutine, NEW t, Goto(k, t), Free(k, t), TaskInv(t)',
           \A j \in Coroutine \ {k} : \A s \in {task[j]} : TaskInv(s)'
    PROVE  DOMAIN task' = Coroutine /\ Exclusive' /\ Suspended'
<1>1. DOMAIN task = Coroutine /\ task' = [task EXCEPT ![k] = t]
  BY DEF GInv, TypeOK, Goto
<1>2. DOMAIN task' = Coroutine /\ task'[k] = t /\ \A j \in Coroutine \ {k} : task'[j] = task[j]
  BY <1>1
<1>3. Exclusive'
  BY <1>2 DEF Exclusive, Free, GInv
<1>4. Suspended'
  BY <1>2 DEF Suspended
<1> QED BY <1>2, <1>3, <1>4

(* The same where the fists stay. *)
LEMMA TasksGoOn ==
    ASSUME GInv, NEW k \in Coroutine, NEW t, Goto(k, t), Free(k, t), TaskInv(t)', punches' = punches
    PROVE  DOMAIN task' = Coroutine /\ Exclusive' /\ Suspended'
<1>1. \A j \in Coroutine \ {k} : \A s \in {task[j]} : TaskInv(s)'
  BY TaskSame DEF GInv, Suspended
<1> QED BY <1>1, TasksNext

(* And where no coroutine moves. *)
LEMMA TasksStay ==
    ASSUME GInv, task' = task, punches' = punches
    PROVE  DOMAIN task' = Coroutine /\ Exclusive' /\ Suspended'
<1>1. \A j \in Coroutine : \A s \in {task[j]} : TaskInv(s)'
  BY TaskSame DEF GInv, Suspended
<1> QED BY <1>1 DEF GInv, TypeOK, Exclusive, Suspended

-----------------------------------------------------------------------------
(* The books.                                                              *)

ClockOK   == game_step \in BET_START..GAME_OVER /\ game_time \in 0..TimeCap
CrowdOK   == conns \subseteq User /\ users \subseteq User /\ members \subseteq User
OutcomeOK == winner \in User \cup {None} /\ outcome \in {"tie", "win", None}
FistsOK   == punches # None => punches \in Table

LEMMA TypesOK ==
    ASSUME GInv
    PROVE  /\ ClockOK /\ CrowdOK /\ OutcomeOK /\ FistsOK /\ DOMAIN task = Coroutine
           /\ bet_data \in [User -> Seq(Values)] /\ lost \in [User -> Nat] /\ acct \in Books
BY DEF GInv, TypeOK, ClockOK, CrowdOK, OutcomeOK, FistsOK, Table, Books

(* A step that touches neither bets nor books. *)
LEMMA Assemble ==
    ASSUME GInv, bet_data' = bet_data, lost' = lost, acct' = acct, ClockOK', CrowdOK', OutcomeOK', FistsOK',
           StepInv', DOMAIN task' = Coroutine, Exclusive', Suspended'
    PROVE  GInv'
<1>1. BetShape' /\ \A u \in User : Staked(u)' = Staked(u)
  BY BetsSame DEF GInv
<1>2. Ledger'
  BY <1>1 DEF GInv, Ledger, Total
<1>3. TypeOK'
  BY TypesOK DEF TypeOK, ClockOK, CrowdOK, OutcomeOK, FistsOK, Table, Books
<1> QED BY <1>1, <1>2, <1>3 DEF GInv

(* The account server books a batch or leaves the books alone. *)
LEMMA OperFacts ==
    ASSUME NEW b, NEW reply, OperAcct(b, reply)
    PROVE  (Covered(b) /\ acct' = Booked(b)) \/ (reply = "error" /\ acct' = acct)
BY DEF OperAcct

(* What is booked. *)
LEMMA BookedFacts ==
    ASSUME acct \in Books, NEW b \in Batch, Covered(b), acct' = Booked(b)
    PROVE  /\ acct' \in Books
           /\ \A u \in User : /\ acct'[u].bal = acct[u].bal + b[u].bal
                              /\ acct'[u].frozen = acct[u].frozen + b[u].frozen
<1>1. \A u \in User : /\ acct[u].bal \in Nat /\ acct[u].frozen \in Nat
                      /\ b[u].bal \in Int /\ b[u].frozen \in Int
  BY DEF Books, Batch
<1>2. \A u \in User : /\ acct[u].bal + b[u].bal \in Nat
                      /\ acct[u].frozen + b[u].frozen \in Nat
  BY <1>1 DEF Covered
<1>3. \A u \in User : acct'[u] = [bal |-> acct[u].bal + b[u].bal,
                                  frozen |-> acct[u].frozen + b[u].frozen]
  BY DEF Booked
<1>4. DOMAIN acct' = User /\ acct' = [u \in User |-> acct'[u]]
  BY DEF Booked
<1>5. ASSUME NEW u \in User
      PROVE  /\ acct'[u] \in [bal : Nat, frozen : Nat]
             /\ acct'[u].bal = acct[u].bal + b[u].bal
             /\ acct'[u].frozen = acct[u].frozen + b[u].frozen
  <2> DEFINE x == acct[u].bal + b[u].bal
             y == acct[u].frozen + b[u].frozen
  <2>1. x \in Nat /\ y \in Nat /\ acct'[u] = [bal |-> x, frozen |-> y]
    BY <1>2, <1>3
  <2> HIDE DEF x, y
  <2>2. /\ acct'[u] \in [bal : Nat, frozen : Nat]
        /\ acct'[u].bal = x /\ acct'[u].frozen = y
    BY <2>1
  <2> QED BY <2>2 DEF x, y
<1>6. acct' \in Books
  BY <1>4, <1>5 DEF Books
<1> QED BY <1>5, <1>6

(* A fair settlement keeps the ledger: the account server refuses to give    *)
(* back what is not frozen any more.                                         *)
LEMMA LedgerSettled ==
    ASSUME GInv, NEW b \in Batch, Fair(b), Covered(b), acct' = Booked(b), bet_data' = bet_data,
           lost' = lost
    PROVE  Ledger'
<1>1. acct \in Books /\ Ledger /\ InitBal \in Int
  BY TypesOK, GuessingAssumption DEF GInv
<1>2. \A u \in User : Staked(u)' = Staked(u) /\ Staked(u) \in Int
  BY BetsSame, StakedNat, TypesOK, GuessingAssumption DEF GInv
<1>3. \A u \in User : /\ acct'[u].bal = acct[u].bal + b[u].bal
                      /\ acct'[u].frozen = acct[u].frozen + b[u].frozen
                      /\ acct[u].bal \in Int /\ acct[u].frozen \in Int
                      /\ b[u].bal \in Int /\ b[u].frozen \in Int
  BY <1>1, BookedFacts DEF Books, Batch
<1>4. PICK L \in [User -> Nat] : \A u \in User :
         /\ L[u] + acct[u].frozen <= Staked(u)
         /\ \A w \in User \ {u} : Total(u) = InitBal + L[w] - L[u]
  BY <1>1 DEF Ledger
<1>5. PICK M \in [User -> Nat] : \A u \in User :
         /\ M[u] + b[u].frozen <= 0
         /\ \A w \in User \ {u} : b[u].bal + b[u].frozen = M[w] - M[u]
  BY DEF Fair
<1> DEFINE N == [u \in User |-> L[u] + M[u]]
<1>6. N \in [User -> Nat] /\ \A u \in User : N[u] = L[u] + M[u]
  BY <1>4, <1>5
<1> HIDE DEF N
<1>7. ASSUME NEW u \in User
      PROVE  /\ N[u] + acct'[u].frozen <= Staked(u)'
             /\ \A w \in User \ {u} : Total(u)' = InitBal + N[w] - N[u]
  <2>0. L[u] \in Nat /\ M[u] \in Nat
    BY <1>4, <1>5
  <2> DEFINE x == acct[u].bal
             y == acct[u].frozen
             p == b[u].bal
             q == b[u].frozen
             z == Staked(u)
  <2>1. /\ x \in Int /\ y \in Int /\ p \in Int /\ q \in Int /\ z \in Int /\ InitBal \in Int
        /\ acct'[u].bal = x + p /\ acct'[u].frozen = y + q /\ Staked(u)' = z
        /\ L[u] + y <= z /\ M[u] + q <= 0 /\ N[u] = L[u] + M[u]
    BY <1>1, <1>2, <1>3, <1>4, <1>5, <1>6
  <2>2. ASSUME NEW w \in User \ {u}
        PROVE  /\ x + y = InitBal + L[w] - L[u] /\ p + q = M[w] - M[u]
               /\ N[w] = L[w] + M[w] /\ L[w] \in Nat /\ M[w] \in Nat
    BY <1>4, <1>5, <1>6 DEF Total
  <2> HIDE DEF x, y, p, q, z
  <2>3. N[u] + acct'[u].frozen <= Staked(u)'
    BY <2>0, <2>1
  <2>4. ASSUME NEW w \in User \ {u} PROVE Total(u)' = InitBal + N[w] - N[u]
    <3>1. PICK i, j, m, n \in Int : i = L[w] /\ j = L[u] /\ m = M[w] /\ n = M[u]
      BY <2>0, <2>2
    <3>2. x + y = InitBal + (i - j) /\ p + q = m - n /\ N[w] = i + m /\ N[u] = j + n
      BY <2>1, <2>2, <3>1
    <3>3. (x + p) + (y + q) = InitBal + ((i + m) - (j + n))
      BY <2>1, <3>1, <3>2
    <3>4. Total(u)' = (x + p) + (y + q)
      BY <2>1 DEF Total
    <3> QED BY <3>2, <3>3, <3>4
  <2> QED BY <2>3, <2>4
<1> QED BY <1>6, <1>7 DEF Ledger

(* A step that books a settlement. *)
LEMMA Settled ==
    ASSUME GInv, FistsAlone, NEW b \in Batch, Fair(b), NEW reply, OperAcct(b, reply),
           bet_data' = bet_data, lost' = lost, ClockOK', CrowdOK', OutcomeOK', FistsOK',
           StepInv', DOMAIN task' = Coroutine, Exclusive', Suspended'
    PROVE  GInv'
<1>1. CASE acct' = acct
  BY <1>1, Assemble
<1>2. CASE Covered(b) /\ acct' = Booked(b)
  <2>1. Ledger'
    BY <1>2, LedgerSettled
  <2>2. acct' \in Books /\ bet_data' \in [User -> Seq(Values)] /\ lost' \in [User -> Nat]
    BY <1>2, BookedFacts, TypesOK
  <2>3. TypeOK'
    BY <2>2 DEF TypeOK, ClockOK, CrowdOK, OutcomeOK, FistsOK, Table, Books
  <2>4. BetShape'
    BY BetsSame DEF GInv
  <2> QED BY <2>1, <2>3, <2>4 DEF GInv
<1> QED BY <1>1, <1>2, OperFacts

-----------------------------------------------------------------------------
(* Bets.                                                                   *)

(* A coroutine that does not rely on bets, fists or a settlement. *)
Plain == {"idle", "bet_db", "punch_db", "leave_mgr", "flow_db"}

LEMMA TaskPlain ==
    ASSUME NEW t \in Tasks, t.pc \in Plain
    PROVE  TaskInv(t) /\ TaskInv(t)'
BY DEF Plain, TaskInv, SettlePC

LEMMA TaskOf ==
    ASSUME GInv, NEW k \in Coroutine
    PROVE  \A s \in {task[k]} : s \in Tasks /\ TaskInv(s)
BY DEF GInv, Suspended, TaskInv

(* A coroutine that starts, or goes on. *)
LEMMA NewTask ==
    ASSUME NEW pc \in PC, NEW u \in User \cup {None}, NEW v \in Int, NEW todo \in SUBSET User,
           NEW b \in Batch, NEW t, t = [pc |-> pc, u |-> u, v |-> v, todo |-> todo, batch |-> b]
    PROVE  t \in Tasks /\ t.pc = pc /\ t.u = u /\ t.v = v /\ t.todo = todo /\ t.batch = b
BY DEF Tasks

LEMMA GBetting ==
    ASSUME GInv, FistsAlone, NEW k \in Coroutine, NEW u \in User, NEW v \in Values, Betting(k, u, v)
    PROVE  GInv'
<1>0. PICK t : t = [Idle EXCEPT !.pc = "bet_query", !.u = u, !.v = v]
  OBVIOUS
<1>1. t \in Tasks /\ t.pc = "bet_query" /\ t.u = u /\ t.v = v
  <2>1. "bet_query" \in PC /\ v \in Int /\ u \in User \cup {None}
    BY GuessingAssumption DEF PC, BetPC
  <2>2. t = [pc |-> "bet_query", u |-> u, v |-> v, todo |-> {}, batch |-> NoBatch]
    BY <1>0 DEF Idle
  <2> QED BY <2>1, <2>2, IdleFacts, NewTask
<1>2. /\ CanStart(k, "bet") /\ Goto(k, t)
      /\ game_step' = game_step /\ game_time' = game_time /\ conns' = conns /\ users' = users
      /\ members' = members /\ bet_data' = bet_data /\ lost' = lost /\ punches' = punches
      /\ winner' = winner /\ outcome' = outcome /\ acct' = acct
  BY <1>0 DEF Betting, clock, crowd, game, bets
<1>3. Free(k, t)
  BY <1>1, <1>2, FreeStart DEF PC, BetPC, TickPC
<1>4. TaskInv(t)'
  BY <1>1, <1>2 DEF TaskInv, SettlePC
<1>5. DOMAIN task' = Coroutine /\ Exclusive' /\ Suspended'
  BY <1>2, <1>3, <1>4, TasksGoOn
<1>6. ClockOK' /\ CrowdOK' /\ OutcomeOK' /\ FistsOK'
  BY <1>2, TypesOK DEF ClockOK, CrowdOK, OutcomeOK, FistsOK, Table
<1>7. StepInv'
  BY <1>2, BetsSame DEF GInv, StepInv, BothPunched
<1> QED BY <1>2, <1>5, <1>6, <1>7, Assemble

(* Nothing of the room changes but its coroutines. *)
Still == /\ game_step' = game_step /\ game_time' = game_time /\ conns' = conns
         /\ users' = users /\ members' = members /\ bet_data' = bet_data /\ lost' = lost
         /\ punches' = punches /\ winner' = winner /\ outcome' = outcome

LEMMA StillFacts ==
    ASSUME GInv, Still
    PROVE  ClockOK' /\ CrowdOK' /\ OutcomeOK' /\ FistsOK' /\ StepInv'
<1>1. ClockOK' /\ CrowdOK' /\ OutcomeOK' /\ FistsOK'
  BY TypesOK DEF Still, ClockOK, CrowdOK, OutcomeOK, FistsOK, Table
<1>2. StepInv'
  BY BetsSame DEF Still, GInv, StepInv, BothPunched
<1> QED BY <1>1, <1>2

(* Coroutine k becomes t and nothing else happens. *)
LEMMA GoesOn ==
    ASSUME GInv, Still, acct' = acct, NEW k \in Coroutine, NEW t, Goto(k, t), Free(k, t), TaskInv(t)
    PROVE  GInv'
<1>1. TaskInv(t)'
  BY TaskSame DEF Still
<1>2. DOMAIN task' = Coroutine /\ Exclusive' /\ Suspended'
  BY <1>1, TasksGoOn DEF Still
<1> QED BY <1>2, StillFacts, Assemble DEF Still

LEMMA Ends ==
    ASSUME GInv, NEW k \in Coroutine
    PROVE  Free(k, Idle)
BY IdleFacts, FreeNext DEF GInv, BetPC, TickPC

LEMMA FreezeFacts ==
    ASSUME NEW u \in User, NEW v \in Int, NEW b, b = Freeze(u, v)
    PROVE  /\ b \in Batch /\ b[u].bal = - v /\ b[u].frozen = v
           /\ \A w \in User \ {u} : b[w].bal = 0 /\ b[w].frozen = 0
<1> DEFINE e == [bal |-> - v, frozen |-> v]
<1>1. e \in [bal : Int, frozen : Int] /\ e.bal = - v /\ e.frozen = v
  OBVIOUS
<1> DEFINE z == [bal |-> 0, frozen |-> 0]
<1>2. z \in [bal : Int, frozen : Int] /\ z.bal = 0 /\ z.frozen = 0
  OBVIOUS
<1>3. b = [[w \in User |-> z] EXCEPT ![u] = e]
  BY DEF Freeze, NoBatch
<1> HIDE DEF e, z
<1>4. /\ DOMAIN b = User /\ b[u] = e /\ \A w \in User \ {u} : b[w] = z
      /\ b \in [User -> [bal : Int, frozen : Int]]
  BY <1>1, <1>2, <1>3
<1> QED BY <1>1, <1>2, <1>4 DEF Batch

LEMMA GBetQueried ==
    ASSUME GInv, FistsAlone, NEW k \in Coroutine, BetQueried(k)
    PROVE  GInv'
<1>1. PICK s : s = task[k]
  OBVIOUS
<1>2. s \in Tasks /\ s.pc = "bet_query" /\ s.u \in User /\ s.v \in Values
  BY <1>1, TaskOf DEF BetQueried, At, TaskInv
<1>3. Still /\ acct' = acct
  BY DEF BetQueried, Still, clock, crowd, game, bets
<1>4. CASE Goto(k, Idle)
  BY <1>3, <1>4, Ends, TaskIdle, GoesOn
<1>5. CASE \E max \in {acct[s.u].bal} \cup {0} : s.v \in 1..max
           /\ Goto(k, [s EXCEPT !.pc = "bet_coin", !.batch = Freeze(s.u, s.v)])
  <2>1. s.v \in Int /\ s.v >= 1
    BY <1>2, <1>5, GuessingAssumption
  <2>2. PICK b : b = Freeze(s.u, s.v)
    OBVIOUS
  <2>3. b \in Batch
    BY <1>2, <2>1, <2>2, FreezeFacts
  <2>4. PICK t : t = [s EXCEPT !.pc = "bet_coin", !.batch = b]
    OBVIOUS
  <2>5. t \in Tasks /\ t.pc = "bet_coin" /\ t.u = s.u /\ t.v = s.v /\ t.batch = b
    BY <1>2, <2>3, <2>4 DEF Tasks, PC, BetPC
  <2>6. Goto(k, t)
    BY <1>5, <2>2, <2>4
  <2>7. TaskInv(t)
    BY <1>2, <2>1, <2>2, <2>5 DEF TaskInv, SettlePC
  <2>8. Free(k, t)
    BY <1>1, <1>2, <2>5, FreeNext DEF GInv, BetPC, TickPC
  <2> QED BY <1>3, <2>6, <2>7, <2>8, GoesOn
<1> QED
  <2>1. PICK max \in {acct[s.u].bal} \cup (IF Faults = {} THEN {} ELSE {0}) :
           IF s.v \in 1..max
             THEN Goto(k, [s EXCEPT !.pc = "bet_coin", !.batch = Freeze(s.u, s.v)])
             ELSE Done(k)
    BY <1>1 DEF BetQueried
  <2>2. max \in {acct[s.u].bal} \cup {0}
    BY <2>1
  <2> QED BY <1>4, <1>5, <2>1, <2>2 DEF Done

(* A bet is recorded. *)
LEMMA BetAdded ==
    ASSUME GInv, NEW u \in User, NEW v \in Values, v >= 1, lost' = lost,
           bet_data' = [bet_data EXCEPT ![u] = Append(@, v)]
    PROVE  /\ BetShape' /\ bet_data' \in [User -> Seq(Values)] /\ Bettors' = Bettors \cup {u}
           /\ Staked(u)' = Staked(u) + v /\ \A w \in User \ {u} : Staked(w)' = Staked(w)
<1>1. /\ bet_data \in [User -> Seq(Values)] /\ lost \in [User -> Nat]
      /\ BetShape /\ Values \subseteq Int /\ v \in Int
  BY TypesOK, GuessingAssumption DEF GInv
<1>2. PICK s : s = bet_data[u]
  OBVIOUS
<1>3. PICK t : t = Append(s, v)
  OBVIOUS
<1>4. PICK n \in Nat : n = Len(s) /\ DOMAIN s = 1..n
  BY <1>1, <1>2
<1>5. /\ s \in Seq(Values) /\ t \in Seq(Values) /\ DOMAIN t = 1..(n + 1) /\ t[n + 1] = v
      /\ \A i \in 1..n : s[i] \in Int /\ t[i] = s[i]
  <2>1. s \in Seq(Values) /\ t \in Seq(Values) /\ Len(t) = n + 1
    BY <1>1, <1>2, <1>3, <1>4
  <2>2. t[n + 1] = v /\ \A i \in 1..n : s[i] \in Values /\ t[i] = s[i]
    BY <1>3, <1>4, <2>1
  <2>3. DOMAIN t = 1..(n + 1)
    BY <2>1
  <2> QED BY <1>1, <2>1, <2>2, <2>3
<1>6. /\ bet_data' \in [User -> Seq(Values)] /\ bet_data'[u] = t
      /\ \A w \in User \ {u} : bet_data'[w] = bet_data[w]
  BY <1>1, <1>2, <1>3, <1>5
<1>7. BetShape'
  <2>1. \A i \in 1..(n + 1) : i \in 1..n \/ i = n + 1
    OBVIOUS
  <2>2. \A i \in DOMAIN t : t[i] >= 1
    BY <1>1, <1>2, <1>4, <1>5, <2>1 DEF BetShape
  <2> QED BY <1>1, <1>6, <2>2 DEF BetShape
<1>8. Bettors' = Bettors \cup {u}
  <2>1. t # << >>
    BY <1>5
  <2> QED BY <1>6, <2>1 DEF Bettors
<1>9. SumFunction(t) = SumFunction(s) + v
  BY <1>1, <1>4, <1>5, SumExtend
<1>10. SumFunction(s) \in Int
  <2>1. IsFiniteSet(DOMAIN s)
    BY <1>4, FS_Interval
  <2> QED BY <1>4, <1>5, <2>1, SumInt DEF SumFunction
<1>11. Staked(u)' = Staked(u) + v
  <2>1. Staked(u) = SumFunction(s) + lost[u] /\ Staked(u)' = SumFunction(t) + lost[u]
    BY <1>2, <1>6 DEF Staked
  <2>2. lost[u] \in Int
    BY <1>1
  <2> QED BY <1>1, <1>9, <1>10, <2>1, <2>2
<1>12. \A w \in User \ {u} : Staked(w)' = Staked(w)
  BY <1>6 DEF Staked
<1> QED BY <1>6, <1>7, <1>8, <1>11, <1>12

(* Coins are frozen: the ledger keeps what went to the other member. *)
LEMMA LedgerFrozen ==
    ASSUME GInv, NEW u \in User, NEW v \in Values, v >= 1,
           Staked(u)' = Staked(u) + v, \A w \in User \ {u} : Staked(w)' = Staked(w),
           NEW b, b = Freeze(u, v), Covered(b), acct' = Booked(b)
    PROVE  Ledger' /\ acct' \in Books
<1>1. acct \in Books /\ Ledger /\ InitBal \in Int /\ v \in Int
  BY TypesOK, GuessingAssumption DEF GInv
<1>2. /\ b \in Batch /\ b[u].bal = - v /\ b[u].frozen = v
      /\ \A w \in User \ {u} : b[w].bal = 0 /\ b[w].frozen = 0
  BY <1>1, FreezeFacts
<1>3. /\ acct' \in Books
      /\ \A w \in User : /\ acct'[w].bal = acct[w].bal + b[w].bal
                         /\ acct'[w].frozen = acct[w].frozen + b[w].frozen
  BY <1>1, <1>2, BookedFacts
<1>4. \A w \in User : acct[w].bal \in Int /\ acct[w].frozen \in Int /\ Staked(w) \in Int
  BY <1>1, StakedNat, TypesOK, GuessingAssumption DEF GInv, Books
<1>5. PICK L \in [User -> Nat] : \A w \in User :
         /\ L[w] + acct[w].frozen <= Staked(w)
         /\ \A x \in User \ {w} : Total(w) = InitBal + L[x] - L[w]
  BY <1>1 DEF Ledger
<1>6. acct'[u].bal = acct[u].bal - v /\ acct'[u].frozen = acct[u].frozen + v
  BY <1>1, <1>2, <1>3, <1>4
<1>7. \A w \in User \ {u} : acct'[w].bal = acct[w].bal /\ acct'[w].frozen = acct[w].frozen
  <2>1. \A w \in User \ {u} : /\ acct'[w].bal = acct[w].bal + 0
                              /\ acct'[w].frozen = acct[w].frozen + 0
    BY <1>2, <1>3
  <2> QED BY <1>4, <2>1
<1>8. \A w \in User : Total(w)' = Total(w)
  <2>1. acct'[u].bal + acct'[u].frozen = acct[u].bal + acct[u].frozen
    BY <1>1, <1>4, <1>6
  <2> QED BY <1>7, <2>1 DEF Total
<1>9. L[u] + acct'[u].frozen <= Staked(u)'
  <2> DEFINE y == acct[u].frozen
             z == Staked(u)
  <2>1. /\ y \in Int /\ z \in Int /\ L[u] \in Int /\ v \in Int /\ L[u] + y <= z
        /\ acct'[u].frozen = y + v /\ Staked(u)' = z + v
    BY <1>1, <1>4, <1>5, <1>6
  <2> HIDE DEF y, z
  <2> QED BY <2>1
<1>10. \A w \in User : L[w] + acct'[w].frozen <= Staked(w)'
  BY <1>5, <1>7, <1>9
<1> QED BY <1>3, <1>5, <1>8, <1>10 DEF Ledger

(* Nothing is frozen and nobody's bets change. *)
LEMMA NothingLost ==
    ASSUME acct \in Books, lost \in [User -> Nat], acct' = acct,
           lost' = [w \in User |-> lost[w] + (acct'[w].frozen - acct[w].frozen)]
    PROVE  lost' = lost
<1>1. ASSUME NEW w \in User PROVE lost'[w] = lost[w]
  <2> DEFINE x == acct[w].frozen
             y == lost[w]
  <2>1. x \in Int /\ y \in Int /\ lost'[w] = y + (x - x)
    BY DEF Books
  <2> HIDE DEF x, y
  <2>2. y + (x - x) = y
    BY <2>1
  <2> QED BY <2>1, <2>2 DEF y
<1>2. DOMAIN lost' = User /\ lost' = [w \in User |-> lost'[w]] /\ lost = [w \in User |-> lost[w]]
  OBVIOUS
<1> QED BY <1>1, <1>2

(* Coins are frozen for a bet whose answer gets lost. *)
LEMMA AnswerLost ==
    ASSUME acct \in Books, lost \in [User -> Nat], NEW u \in User, NEW v \in Int, v >= 1,
           NEW b, b = Freeze(u, v), Covered(b), acct' = Booked(b),
           lost' = [w \in User |-> lost[w] + (acct'[w].frozen - acct[w].frozen)]
    PROVE  /\ lost' \in [User -> Nat] /\ lost'[u] = lost[u] + v
           /\ \A w \in User \ {u} : lost'[w] = lost[w]
<1>1. /\ b \in Batch /\ b[u].frozen = v /\ \A w \in User \ {u} : b[w].frozen = 0
  BY FreezeFacts
<1>2. \A w \in User : acct'[w].frozen = acct[w].frozen + b[w].frozen
  BY <1>1, BookedFacts
<1>3. ASSUME NEW w \in User, NEW d \in Nat, b[w].frozen = d
      PROVE  lost'[w] = lost[w] + d
  <2> DEFINE x == acct[w].frozen
             y == lost[w]
  <2>1. x \in Int /\ y \in Int /\ lost'[w] = y + ((x + d) - x)
    BY <1>2, <1>3 DEF Books
  <2> HIDE DEF x, y
  <2>2. y + ((x + d) - x) = y + d
    BY <1>3, <2>1
  <2> QED BY <2>1, <2>2 DEF y
<1>4. lost'[u] = lost[u] + v
  BY <1>1, <1>3
<1>5. \A w \in User \ {u} : lost'[w] = lost[w]
  BY <1>1, <1>3
<1>6. lost' = [w \in User |-> lost'[w]]
  OBVIOUS
<1>7. \A w \in User : lost'[w] \in Nat
  BY <1>4, <1>5
<1> QED BY <1>4, <1>5, <1>6, <1>7

(* The coroutine of a bet goes on or ends. *)
LEMMA BetGoesOn ==
    ASSUME GInv, NEW k \in Coroutine, NEW t, Goto(k, t), Free(k, t), TaskInv(t)', Ledger', acct' \in Books,
           BetShape', bet_data' \in [User -> Seq(Values)], lost' \in [User -> Nat],
           Bettors \subseteq Bettors', game_step' = game_step, game_time' = game_time,
           conns' = conns, users' = users, members' = members, punches' = punches,
           winner' = winner, outcome' = outcome
    PROVE  GInv'
<1>1. DOMAIN task' = Coroutine /\ Exclusive' /\ Suspended'
  BY TasksGoOn
<1>2. StepInv'
  <2>1. Bettors = User => Bettors' = User
    BY DEF Bettors
  <2>2. BothPunched => BothPunched'
    BY DEF BothPunched
  <2> QED BY <2>1, <2>2 DEF GInv, StepInv
<1>3. TypeOK'
  <2>1. ClockOK' /\ CrowdOK' /\ OutcomeOK' /\ FistsOK'
    BY TypesOK DEF ClockOK, CrowdOK, OutcomeOK, FistsOK, Table
  <2> QED BY <1>1, <2>1 DEF TypeOK, ClockOK, CrowdOK, OutcomeOK, FistsOK, Table, Books
<1> QED BY <1>1, <1>2, <1>3 DEF GInv

LEMMA GBetFrozen ==
    ASSUME GInv, FistsAlone, NEW k \in Coroutine, BetFrozen(k)
    PROVE  GInv'
<1>1. PICK s : s = task[k]
  OBVIOUS
<1>2. /\ s \in Tasks /\ s.pc = "bet_coin" /\ s.u \in User /\ s.v \in Values /\ s.v >= 1
      /\ s.batch = Freeze(s.u, s.v) /\ s.v \in Int
  BY <1>1, TaskOf, GuessingAssumption DEF BetFrozen, At, TaskInv
<1>3. PICK reply \in {"ok", "error"} :
         /\ OperAcct(s.batch, reply)
         /\ IF reply = "ok"
              THEN /\ bet_data' = [bet_data EXCEPT ![s.u] = Append(@, s.v)]
                   /\ Goto(k, [s EXCEPT !.pc = "bet_db"])
                   /\ UNCHANGED lost
              ELSE /\ lost' = [u \in User |-> lost[u] + (acct'[u].frozen - acct[u].frozen)]
                   /\ Done(k) /\ UNCHANGED bet_data
  BY <1>1 DEF BetFrozen
<1>4. /\ game_step' = game_step /\ game_time' = game_time /\ conns' = conns /\ users' = users
      /\ members' = members /\ punches' = punches /\ winner' = winner /\ outcome' = outcome
  BY DEF BetFrozen, clock, crowd
<1>5. CASE reply # "ok" /\ acct' = acct
  <2>1. Still /\ Goto(k, Idle)
    BY <1>3, <1>4, <1>5, TypesOK, NothingLost DEF Done, Still
  <2> QED BY <1>5, <2>1, Ends, TaskIdle, GoesOn
<1>6. CASE reply # "ok" /\ Covered(s.batch) /\ acct' = Booked(s.batch)
  <2>1. /\ bet_data' = bet_data /\ Goto(k, Idle)
        /\ lost' = [u \in User |-> lost[u] + (acct'[u].frozen - acct[u].frozen)]
    BY <1>3, <1>6 DEF Done
  <2>2. /\ lost' \in [User -> Nat] /\ lost'[s.u] = lost[s.u] + s.v
        /\ \A w \in User \ {s.u} : lost'[w] = lost[w]
    BY <1>2, <1>6, <2>1, TypesOK, AnswerLost
  <2>3. Staked(s.u)' = Staked(s.u) + s.v
    <3> DEFINE x == SumFunction(bet_data[s.u])
               y == lost[s.u]
    <3>1. Staked(s.u) = x + y /\ Staked(s.u)' = x + lost'[s.u] /\ y \in Nat /\ lost'[s.u] = y + s.v
      BY <1>2, <2>1, <2>2, TypesOK DEF Staked
    <3>2. x + y \in Nat
      BY <1>2, <3>1, StakedNat, TypesOK, GuessingAssumption DEF GInv
    <3>3. x \in Int
      <4>1. bet_data[s.u] \in Seq(Values) /\ Values \subseteq Int
        BY <1>2, TypesOK, GuessingAssumption
      <4>2. PICK z : z = bet_data[s.u]
        OBVIOUS
      <4>3. IsFiniteSet(DOMAIN z) /\ \A i \in DOMAIN z : z[i] \in Int
        BY <4>1, <4>2, BetsOfInts
      <4> QED BY <4>2, <4>3, SumInt DEF SumFunction
    <3> HIDE DEF x, y
    <3> QED BY <1>2, <3>1, <3>3
  <2>4. \A w \in User \ {s.u} : Staked(w)' = Staked(w)
    BY <2>1, <2>2 DEF Staked
  <2>5. Ledger' /\ acct' \in Books
    BY <1>2, <1>6, <2>3, <2>4, LedgerFrozen
  <2>6. BetShape' /\ bet_data' \in [User -> Seq(Values)] /\ Bettors \subseteq Bettors'
    BY <2>1, BetsSame, TypesOK DEF GInv
  <2> QED BY <1>4, <2>1, <2>2, <2>5, <2>6, Ends, TaskIdle, BetGoesOn
<1>7. CASE reply = "ok"
  <2>1. PICK t : t = [s EXCEPT !.pc = "bet_db"]
    OBVIOUS
  <2>2. t \in Tasks /\ t.pc = "bet_db"
    BY <1>2, <2>1 DEF Tasks, PC, BetPC
  <2>3. /\ bet_data' = [bet_data EXCEPT ![s.u] = Append(@, s.v)] /\ Goto(k, t) /\ lost' = lost
        /\ Covered(s.batch) /\ acct' = Booked(s.batch)
    BY <1>3, <1>7, <2>1, OperFacts
  <2>4. /\ BetShape' /\ bet_data' \in [User -> Seq(Values)] /\ Bettors' = Bettors \cup {s.u}
        /\ Staked(s.u)' = Staked(s.u) + s.v /\ \A w \in User \ {s.u} : Staked(w)' = Staked(w)
    BY <1>2, <2>3, BetAdded
  <2>5. Ledger' /\ acct' \in Books /\ lost' \in [User -> Nat]
    BY <1>2, <2>3, <2>4, LedgerFrozen, TypesOK
  <2>6. Free(k, t)
    BY <1>1, <1>2, <2>2, FreeNext DEF GInv, TickPC
  <2>7. TaskInv(t)'
    BY <2>2, TaskPlain DEF Plain
  <2> QED BY <1>4, <2>3, <2>4, <2>5, <2>6, <2>7, BetGoesOn
<1> QED BY <1>3, <1>5, <1>6, <1>7, OperFacts

(* A coroutine ends and may set a step that nothing is said of. *)
LEMMA EndsWithStep ==
    ASSUME GInv, NEW k \in Coroutine, Done(k), acct' = acct,
           conns' = conns, users' = users, members' = members, bet_data' = bet_data, lost' = lost,
           punches' = punches, winner' = winner, outcome' = outcome, ClockOK',
           game_step' # game_step =>
             game_step' \in {BET_END, RESULT, FLOW, GAME_OVER}
               \/ (game_step' = PUNCHES_END /\ BothPunched)
    PROVE  GInv'
<1>1. DOMAIN task' = Coroutine /\ Exclusive' /\ Suspended'
  BY Ends, TaskIdle, TasksGoOn DEF Done
<1>2. CrowdOK' /\ OutcomeOK' /\ FistsOK'
  BY TypesOK DEF CrowdOK, OutcomeOK, FistsOK, Table
<1>3. StepInv'
  <2>1. Bettors' = Bettors /\ (BothPunched => BothPunched')
    BY BetsSame DEF BothPunched
  <2> QED BY <2>1 DEF GInv, StepInv, BET_END, PUNCHES_START, PUNCHES_END, WAIT_RESULT, RESULT,
                      FLOW, GAME_OVER
<1> QED BY <1>1, <1>2, <1>3, Assemble

LEMMA StepSet ==
    ASSUME NEW step \in BET_START..GAME_OVER, set_game_step(step)
    PROVE  ClockOK' /\ game_step' = step
BY GuessingAssumption DEF set_game_step, ClockOK

LEMMA GBetSaved ==
    ASSUME GInv, FistsAlone, NEW k \in Coroutine, BetSaved(k)
    PROVE  GInv'
<1>1. /\ Done(k) /\ acct' = acct /\ conns' = conns /\ users' = users /\ members' = members
      /\ bet_data' = bet_data /\ lost' = lost /\ punches' = punches /\ winner' = winner /\ outcome' = outcome
  BY DEF BetSaved, crowd, game, bets
<1>2. set_game_step(BET_END) \/ (game_step' = game_step /\ game_time' = game_time)
  BY DEF BetSaved, clock
<1>3. ClockOK' /\ (game_step' = game_step \/ game_step' = BET_END)
  <2>1. BET_END \in BET_START..GAME_OVER
    BY DEF BET_END, BET_START, GAME_OVER
  <2>2. CASE set_game_step(BET_END)
    BY <2>1, <2>2, StepSet
  <2>3. CASE game_step' = game_step /\ game_time' = game_time
    BY <2>3, TypesOK DEF ClockOK
  <2> QED BY <1>2, <2>2, <2>3
<1> QED BY <1>1, <1>3, EndsWithStep

-----------------------------------------------------------------------------
(* Fists.                                                                  *)

(* Punches that are added to the table, by whoever. *)
LEMMA FistAdded ==
    ASSUME GInv, NEW u \in User, NEW f \in Shown \cup Fist, NEW table,
           table = IF punches = None THEN [w \in User |-> None] ELSE punches,
           table[u] = None, punches' = [table EXCEPT ![u] = f]
    PROVE  /\ FistsOK' /\ punches' # None /\ punches'[u] = f
           /\ \A w \in User \ {u} : punches # None /\ punches[w] # None => punches'[w] # None
           /\ \A todo : Ready(todo) => Ready(todo)'
           /\ ~BothPunched
<1>1. table \in Table
  BY TypesOK DEF FistsOK, Table
<1>2. punches' \in Table /\ punches'[u] = f /\ \A w \in User \ {u} : punches'[w] = table[w]
  BY <1>1 DEF Table
<1>3. punches' # None
  BY <1>2, NilAssumption DEF Table
<1>4. \A w \in User \ {u} : punches # None /\ punches[w] # None => punches'[w] # None
  BY <1>2
<1>5. ASSUME NEW w \in User, punches # None, punches[w] # None PROVE w # u
  BY <1>5
<1>6. \A todo : Ready(todo) => Ready(todo)'
  BY <1>3, <1>4, <1>5 DEF Ready
<1>7. ~BothPunched
  BY <1>5 DEF BothPunched
<1> QED BY <1>2, <1>3, <1>4, <1>6, <1>7 DEF FistsOK

(* The other coroutines find what they rely on. *)
LEMMA FistTasks ==
    ASSUME GInv, punches' # None, \A todo : Ready(todo) => Ready(todo)', NEW t, TaskInv(t)
    PROVE  TaskInv(t)'
<1>1. t.pc \in SettlePC => Fair(t.batch)'
  BY DEF TaskInv, Fair
<1> QED BY <1>1 DEF TaskInv, Freeze, NoBatch

LEMMA GPunch ==
    ASSUME GInv, FistsAlone, NEW k \in Coroutine, NEW u \in User, NEW f \in Shown, Punch(k, u, f)
    PROVE  GInv'
<1>1. PICK table : table = IF punches = None THEN [w \in User |-> None] ELSE punches
  OBVIOUS
<1>2. /\ CanStart(k, "punch") /\ table[u] = None /\ punches' = [table EXCEPT ![u] = f]
      /\ game_step \in {PUNCHES_START, BET_END}
      /\ game_step' = game_step /\ game_time' = game_time /\ conns' = conns /\ users' = users
      /\ members' = members /\ bet_data' = bet_data /\ lost' = lost /\ winner' = winner /\ outcome' = outcome
      /\ acct' = acct
  BY <1>1 DEF Punch, clock, crowd, bets
<1>3. PICK t : t = [Idle EXCEPT !.pc = "punch_db", !.u = u]
  OBVIOUS
<1>4. Goto(k, t)
  BY <1>3 DEF Punch
<1>5. t \in Tasks /\ t.pc = "punch_db"
  <2>1. t = [pc |-> "punch_db", u |-> u, v |-> 0, todo |-> {}, batch |-> NoBatch]
    BY <1>3 DEF Idle
  <2>2. "punch_db" \in PC /\ u \in User \cup {None} /\ {} \in SUBSET User
    BY DEF PC
  <2> QED BY <2>1, <2>2, IdleFacts, NewTask
<1>6. /\ FistsOK' /\ punches' # None /\ \A todo : Ready(todo) => Ready(todo)'
  BY <1>1, <1>2, FistAdded
<1>7. Free(k, t)
  BY <1>2, <1>5, FreeStart DEF PC, BetPC, TickPC
<1>8. DOMAIN task' = Coroutine /\ Exclusive' /\ Suspended'
  <2>1. TaskInv(t)'
    BY <1>5, TaskPlain DEF Plain
  <2>2. \A j \in Coroutine \ {k} : \A s \in {task[j]} : TaskInv(s)'
    BY <1>2, <1>6, TaskOf, FistTasks
  <2> QED BY <1>4, <1>7, <2>1, <2>2, TasksNext
<1>9. ClockOK' /\ CrowdOK' /\ OutcomeOK'
  BY <1>2, TypesOK DEF ClockOK, CrowdOK, OutcomeOK
<1>10. StepInv'
  BY <1>2, BetsSame DEF GInv, StepInv, BET_END, PUNCHES_START, PUNCHES_END, WAIT_RESULT
<1> QED BY <1>2, <1>6, <1>8, <1>9, <1>10, Assemble

LEMMA GPunchSaved ==
    ASSUME GInv, FistsAlone, NEW k \in Coroutine, PunchSaved(k)
    PROVE  GInv'
<1>1. /\ Done(k) /\ acct' = acct /\ conns' = conns /\ users' = users /\ members' = members
      /\ bet_data' = bet_data /\ lost' = lost /\ punches' = punches /\ winner' = winner /\ outcome' = outcome
  BY DEF PunchSaved, crowd, game, bets
<1>2. (BothPunched /\ set_game_step(PUNCHES_END)) \/ (game_step' = game_step /\ game_time' = game_time)
  BY DEF PunchSaved, clock
<1>3. ClockOK' /\ (game_step' = game_step \/ (game_step' = PUNCHES_END /\ BothPunched))
  <2>1. PUNCHES_END \in BET_START..GAME_OVER
    BY DEF PUNCHES_END, BET_START, GAME_OVER
  <2>2. CASE BothPunched /\ set_game_step(PUNCHES_END)
    BY <2>1, <2>2, StepSet
  <2>3. CASE game_step' = game_step /\ game_time' = game_time
    BY <2>3, TypesOK DEF ClockOK
  <2> QED BY <1>2, <2>2, <2>3
<1> QED BY <1>1, <1>3, EndsWithStep

-----------------------------------------------------------------------------
(* Settlements.                                                            *)

(* A batch that is made of what comes back and of one transfer is fair. *)
LEMMA FairBatch ==
    ASSUME GInv, NEW R \in SUBSET User, NEW l \in User, NEW t \in Nat,
           t \in {0, IF l \in R THEN Bet(l) ELSE 0},
           NEW b, b = [u \in User |-> [bal |-> (IF u \in R THEN Bet(u) ELSE 0) + (IF u = l THEN - t ELSE t),
                                       frozen |-> - (IF u \in R THEN Bet(u) ELSE 0)]]
    PROVE  b \in Batch /\ Fair(b)
<1>1. \A u \in User : Bet(u) \in Nat
  BY BetFacts, TypesOK, GuessingAssumption DEF GInv
<1> DEFINE back == [u \in User |-> IF u \in R THEN Bet(u) ELSE 0]
           gain == [u \in User |-> IF u = l THEN - t ELSE t]
           L == [u \in User |-> IF u = l THEN t ELSE 0]
<1>2. back \in [User -> Nat] /\ \A u \in User : back[u] \in {0, Bet(u)}
  BY <1>1
<1>3. t \in {0, back[l]} /\ gain \in [User -> Int] /\ L \in [User -> Nat]
  OBVIOUS
<1>4. \A u \in User : (u = l => gain[u] = - t /\ L[u] = t) /\ (u # l => gain[u] = t /\ L[u] = 0)
  OBVIOUS
<1>5. b = [u \in User |-> [bal |-> back[u] + gain[u], frozen |-> - back[u]]]
  OBVIOUS
<1> HIDE DEF back, gain, L
<1>6. ASSUME NEW u \in User
      PROVE  /\ b[u] \in [bal : Int, frozen : Int]
             /\ b[u].bal = back[u] + gain[u] /\ b[u].frozen = - back[u]
  <2> DEFINE x == back[u] + gain[u]
             y == - back[u]
  <2>1. x \in Int /\ y \in Int /\ b[u] = [bal |-> x, frozen |-> y]
    BY <1>2, <1>3, <1>5
  <2> HIDE DEF x, y
  <2>2. b[u] \in [bal : Int, frozen : Int] /\ b[u].bal = x /\ b[u].frozen = y
    BY <2>1
  <2> QED BY <2>2 DEF x, y
<1>7. b \in Batch
  <2>1. b = [u \in User |-> b[u]]
    BY <1>5
  <2> QED BY <1>6, <2>1 DEF Batch
<1>8. \A u, w \in User : u = w \/ u = l \/ w = l
  BY UserPair
<1>9. ASSUME NEW u \in User
      PROVE  /\ L[u] + b[u].frozen <= 0
             /\ \A w \in User \ {u} : b[u].bal + b[u].frozen = L[w] - L[u]
  <2>1. back[u] \in Nat /\ gain[u] \in Int /\ L[u] \in Nat
    BY <1>2, <1>3
  <2>2. L[u] \in {0, back[u]}
    BY <1>3, <1>4
  <2>3. L[u] + b[u].frozen <= 0
    BY <1>6, <2>1, <2>2
  <2>4. b[u].bal + b[u].frozen = gain[u]
    <3>1. PICK x, y \in Int : x = back[u] /\ y = gain[u]
      BY <2>1
    <3>2. b[u].bal = x + y /\ b[u].frozen = - x
      BY <1>6, <3>1
    <3>3. (x + y) + (- x) = y
      BY <3>1
    <3> QED BY <3>1, <3>2, <3>3
  <2>5. ASSUME NEW w \in User \ {u} PROVE gain[u] = L[w] - L[u]
    <3>1. CASE u = l
      <4>1. w # l /\ L[w] = 0 /\ L[u] = t /\ gain[u] = - t
        BY <1>4, <3>1
      <4> QED BY <4>1
    <3>2. CASE u # l
      <4>1. w = l
        BY <1>8, <3>2
      <4>2. L[w] = t /\ L[u] = 0 /\ gain[u] = t
        BY <1>4, <3>2, <4>1
      <4> QED BY <4>2
    <3> QED BY <3>1, <3>2
  <2> QED BY <2>3, <2>4, <2>5
<1>10. Fair(b)
  BY <1>3, <1>9 DEF Fair
<1> QED BY <1>7, <1>10

(* The settlements of the room are fair. *)
LEMMA ResultFair ==
    ASSUME GInv, Bettors = User, NEW w \in User, NEW l \in User \ {w},
           NEW b, b = ResultBatch(w, bet_data[l][1])
    PROVE  b \in Batch /\ Fair(b)
<1>1. \A u \in User : Bet(u) \in Nat /\ bet_data[u][1] = Bet(u)
  BY BetFacts, TypesOK, GuessingAssumption DEF GInv
<1>2. \A u \in User : (u = w) <=> (u # l)
  BY UserPair
<1> DEFINE t == Bet(l)
<1>3. t \in Nat /\ t = bet_data[l][1] /\ t \in {0, IF l \in User THEN Bet(l) ELSE 0}
  BY <1>1
<1>4. b = [u \in User |-> [bal |-> bet_data[u][1] + (IF u = w THEN t ELSE - t),
                           frozen |-> - bet_data[u][1]]]
  BY <1>3 DEF ResultBatch, Players
<1> HIDE DEF t
<1>5. b = [u \in User |-> [bal |-> (IF u \in User THEN Bet(u) ELSE 0) + (IF u = l THEN - t ELSE t),
                           frozen |-> - (IF u \in User THEN Bet(u) ELSE 0)]]
  BY <1>1, <1>2, <1>4
<1> QED BY <1>3, <1>5, FairBatch

LEMMA FlowFair ==
    ASSUME GInv, NEW b, b = FlowBatch
    PROVE  b \in Batch /\ Fair(b)
<1>1. \A u \in User : Bet(u) \in Nat /\ (u \in Bettors => bet_data[u][1] = Bet(u))
  BY BetFacts, TypesOK, GuessingAssumption DEF GInv
<1>2. PICK l \in User : TRUE
  BY UserPair
<1>3. Bettors \in SUBSET User
  BY DEF Bettors
<1> DEFINE t == 0
<1>4. ASSUME NEW u \in User
      PROVE  (IF u \notin Bettors THEN [bal |-> 0, frozen |-> 0]
              ELSE [bal |-> bet_data[u][1], frozen |-> - bet_data[u][1]])
               = [bal |-> (IF u \in Bettors THEN Bet(u) ELSE 0) + (IF u = l THEN - t ELSE t),
                  frozen |-> - (IF u \in Bettors THEN Bet(u) ELSE 0)]
  BY <1>1
<1>5. t \in Nat /\ t \in {0, IF l \in Bettors THEN Bet(l) ELSE 0}
  OBVIOUS
<1> HIDE DEF t
<1>6. b = [u \in User |-> [bal |-> (IF u \in Bettors THEN Bet(u) ELSE 0) + (IF u = l THEN - t ELSE t),
                           frozen |-> - (IF u \in Bettors THEN Bet(u) ELSE 0)]]
  BY <1>4 DEF FlowBatch
<1> QED BY <1>2, <1>3, <1>5, <1>6, FairBatch

LEMMA QuitFair ==
    ASSUME GInv, NEW q \in User, NEW b, b = QuitBatch(q)
    PROVE  b \in Batch /\ Fair(b)
<1>1. \A u \in User : Bet(u) \in Nat /\ (u \in Bettors => bet_data[u][1] = Bet(u))
                      /\ (u \in Bettors <=> bet_data[u] # << >>)
  BY BetFacts, TypesOK, GuessingAssumption DEF GInv, Bettors
<1> DEFINE R == users \cap Bettors
           back(u) == IF u \in users /\ bet_data[u] # << >> THEN bet_data[u][1] ELSE 0
           t == IF users = User THEN back(q) ELSE 0
<1>2. R \in SUBSET User /\ \A u \in User : back(u) = IF u \in R THEN Bet(u) ELSE 0
  BY <1>1 DEF Bettors
<1>3. t \in Nat /\ t \in {0, IF q \in R THEN Bet(q) ELSE 0}
  BY <1>1, <1>2
<1>4. b = [u \in User |-> [bal |-> back(u) + (IF u = q THEN - t ELSE t), frozen |-> - back(u)]]
  BY DEF QuitBatch
<1> HIDE DEF R, back, t
<1>5. b = [u \in User |-> [bal |-> (IF u \in R THEN Bet(u) ELSE 0) + (IF u = q THEN - t ELSE t),
                           frozen |-> - (IF u \in R THEN Bet(u) ELSE 0)]]
  BY <1>2, <1>4
<1> QED BY <1>2, <1>3, <1>5, FairBatch

(* A coroutine that asks for a settlement. *)
LEMMA SettleTask ==
    ASSUME NEW b \in Batch, Fair(b), NEW pc \in SettlePC, NEW t,
           t = [Idle EXCEPT !.pc = pc, !.batch = b]
    PROVE  t \in Tasks /\ t.pc = pc /\ TaskInv(t)
<1>1. t = [pc |-> pc, u |-> None, v |-> 0, todo |-> {}, batch |-> b]
  BY DEF Idle
<1>2. pc \in PC /\ None \in User \cup {None} /\ {} \in SUBSET User /\ 0 \in Int
  BY DEF PC, SettlePC, TickPC
<1>3. t \in Tasks /\ t.pc = pc /\ t.batch = b
  BY <1>1, <1>2 DEF Tasks
<1> QED BY <1>3 DEF TaskInv, SettlePC

-----------------------------------------------------------------------------
(* The result.                                                             *)

(* Everybody has a fist: the result is a tie or settled at once. *)
LEMMA GPushResult ==
    ASSUME GInv, NEW k \in Coroutine, NEW now \in 0..TimeCap, PushResult(k, now),
           punches # None, \A u \in User : punches[u] # None,
           \A t : t.pc \in TickPC \cup {"idle"} => Free(k, t),
           conns' = conns, users' = users, members' = members, acct' = acct
    PROVE  GInv'
<1>1. (IF punches = None THEN {} ELSE {u \in User : punches[u] # None}) = User
  OBVIOUS
<1>2. \/ /\ ~(User \subseteq Players) /\ game_time' = now /\ Done(k) /\ UNCHANGED <<game_step, game>>
      \/ /\ User \subseteq Players
         /\ \E l \in User : \E r \in User \ {l} :
              IF punches[l] = punches[r]
                THEN /\ winner' = None /\ outcome' = "tie"
                     /\ set_game_step(WAIT_RESULT)
                     /\ Done(k)
                ELSE LET w == IF Loses(punches[l], punches[r]) THEN r ELSE l
                     IN /\ winner' = w /\ outcome' = "win"
                        /\ set_game_step(RESULT)
                        /\ CallResult(k, w)
         /\ UNCHANGED <<bets, punches>>
  BY <1>1 DEF PushResult
<1>3. CrowdOK'
  BY TypesOK DEF CrowdOK
<1>4. Free(k, Idle)
  BY IdleFacts
<1>5. CASE /\ ~(User \subseteq Players) /\ game_time' = now /\ Done(k) /\ UNCHANGED <<game_step, game>>
  <2>1. /\ game_step' = game_step /\ bet_data' = bet_data /\ lost' = lost /\ punches' = punches
        /\ winner' = winner /\ outcome' = outcome
    BY <1>5 DEF game, bets
  <2>2. ClockOK'
    BY <1>5, <2>1, TypesOK DEF ClockOK
  <2> QED BY <1>5, <2>1, <2>2, EndsWithStep
<1>6. ASSUME User \subseteq Players, winner' = None, outcome' = "tie", set_game_step(WAIT_RESULT),
             Done(k), bet_data' = bet_data, lost' = lost, punches' = punches
      PROVE  GInv'
  <2>1. ClockOK' /\ game_step' = WAIT_RESULT
    <3>1. WAIT_RESULT \in BET_START..GAME_OVER
      BY DEF WAIT_RESULT, BET_START, GAME_OVER
    <3> QED BY <1>6, <3>1, StepSet
  <2>2. OutcomeOK' /\ FistsOK'
    BY <1>6, TypesOK DEF OutcomeOK, FistsOK, Table
  <2>3. DOMAIN task' = Coroutine /\ Exclusive' /\ Suspended'
    BY <1>4, <1>6, TaskIdle, TasksGoOn DEF Done
  <2>4. StepInv'
    <3>1. Bettors' = User
      BY <1>6, BetsSame DEF Players, Bettors
    <3> QED BY <1>6, <2>1, <3>1 DEF StepInv
  <2> QED BY <1>3, <1>6, <2>1, <2>2, <2>3, <2>4, Assemble
<1>7. ASSUME User \subseteq Players, NEW w \in User, winner' = w, outcome' = "win",
             set_game_step(RESULT), CallResult(k, w), bet_data' = bet_data, lost' = lost, punches' = punches
      PROVE  GInv'
  <2>1. ClockOK' /\ game_step' = RESULT
    <3>1. RESULT \in BET_START..GAME_OVER
      BY DEF RESULT, BET_START, GAME_OVER
    <3> QED BY <1>7, <3>1, StepSet
  <2>2. OutcomeOK' /\ FistsOK'
    BY <1>7, TypesOK DEF OutcomeOK, FistsOK, Table
  <2>3. Bettors = User
    BY <1>7 DEF Players, Bettors
  <2>4. PICK l \in User \ {w} :
           Goto(k, [Idle EXCEPT !.pc = "result_acct", !.batch = ResultBatch(w, bet_data[l][1])])
    BY <1>7, <2>3 DEF CallResult, Players
  <2>5. PICK b : b = ResultBatch(w, bet_data[l][1])
    OBVIOUS
  <2>6. b \in Batch /\ Fair(b)
    BY <2>3, <2>5, ResultFair
  <2>7. PICK t : t = [Idle EXCEPT !.pc = "result_acct", !.batch = b]
    OBVIOUS
  <2>8. Goto(k, t)
    BY <2>4, <2>5, <2>7
  <2>9. t.pc = "result_acct" /\ TaskInv(t)
    <3>1. "result_acct" \in SettlePC
      BY DEF SettlePC
    <3> QED BY <2>6, <2>7, <3>1, SettleTask
  <2>10. TaskInv(t)' /\ Free(k, t)
    BY <1>7, <2>9, TaskSame DEF TickPC
  <2>11. DOMAIN task' = Coroutine /\ Exclusive' /\ Suspended'
    BY <1>7, <2>8, <2>10, TasksGoOn
  <2>12. StepInv'
    BY <2>1 DEF StepInv, PUNCHES_START, PUNCHES_END, WAIT_RESULT, RESULT
  <2> QED BY <1>3, <1>7, <2>1, <2>2, <2>11, <2>12, Assemble
<1> QED BY <1>2, <1>5, <1>6, <1>7 DEF bets

LEMMA GDrawFists ==
    ASSUME GInv, NEW k \in Coroutine, NEW todo \in SUBSET User, NEW now \in 0..TimeCap,
           DrawFists(k, todo, now), Ready(todo),
           \A t : t.pc \in TickPC \cup {"idle"} => Free(k, t),
           conns' = conns, users' = users, members' = members, acct' = acct
    PROVE  GInv'
<1>1. PICK table : table = IF punches = None THEN [u \in User |-> None] ELSE punches
  OBVIOUS
<1>2. CASE {u \in todo : table[u] = None} = {} /\ PushResult(k, now)
  <2>1. \A u \in todo : table[u] # None
    BY <1>2
  <2>2. punches # None /\ \A u \in User : punches[u] # None
    BY <1>1, <2>1, UserPair DEF Ready
  <2> QED BY <1>2, <2>2, GPushResult
<1>3. ASSUME NEW u \in todo, NEW f \in Fist, table[u] = None, punches' = [table EXCEPT ![u] = f],
             Goto(k, [Idle EXCEPT !.pc = "fist_db", !.todo = todo \ {u}]), game_time' = now,
             UNCHANGED <<game_step, bets, winner, outcome>>
      PROVE  GInv'
  <2>1. /\ FistsOK' /\ punches' # None /\ punches'[u] = f /\ ~BothPunched
        /\ \A w \in User \ {u} : punches # None /\ punches[w] # None => punches'[w] # None
        /\ \A s : Ready(s) => Ready(s)'
    BY <1>1, <1>3, FistAdded
  <2>2. Ready(todo \ {u})'
    <3>1. f # None
      BY NilAssumption
    <3> QED BY <2>1, <3>1 DEF Ready
  <2>3. PICK t : t = [Idle EXCEPT !.pc = "fist_db", !.todo = todo \ {u}]
    OBVIOUS
  <2>4. t \in Tasks /\ t.pc = "fist_db" /\ t.todo = todo \ {u}
    <3>1. t = [pc |-> "fist_db", u |-> None, v |-> 0, todo |-> todo \ {u}, batch |-> NoBatch]
      BY <2>3 DEF Idle
    <3>2. "fist_db" \in PC /\ None \in User \cup {None} /\ todo \ {u} \in SUBSET User
      BY DEF PC, TickPC
    <3> QED BY <3>1, <3>2, IdleFacts, NewTask
  <2>5. TaskInv(t)'
    BY <2>1, <2>2, <2>4 DEF TaskInv, SettlePC
  <2>6. Goto(k, t) /\ Free(k, t)
    BY <1>3, <2>3, <2>4 DEF TickPC
  <2>7. \A j \in Coroutine \ {k} : \A s \in {task[j]} : TaskInv(s)'
    BY <1>3, <2>1, TaskOf, FistTasks
  <2>8. DOMAIN task' = Coroutine /\ Exclusive' /\ Suspended'
    BY <2>5, <2>6, <2>7, TasksNext
  <2>9. ClockOK' /\ CrowdOK' /\ OutcomeOK' /\ bet_data' = bet_data /\ lost' = lost
    BY <1>3, TypesOK DEF ClockOK, CrowdOK, OutcomeOK, bets
  <2>10. StepInv'
    BY <1>3, <2>1, <2>9, BetsSame DEF GInv, StepInv
  <2> QED BY <1>3, <2>1, <2>8, <2>9, <2>10, Assemble
<1> QED BY <1>1, <1>2, <1>3 DEF DrawFists

-----------------------------------------------------------------------------
(* The calls of the settlement.                                            *)

LEMMA GFistSaved ==
    ASSUME GInv, FistsAlone, NEW k \in Coroutine, FistSaved(k)
    PROVE  GInv'
<1>1. PICK s : s = task[k]
  OBVIOUS
<1>2. s \in Tasks /\ s.pc = "fist_db" /\ punches # None /\ Ready(s.todo) /\ s.todo \in SUBSET User
  BY <1>1, TaskOf DEF FistSaved, At, TaskInv, Tasks
<1>3. DrawFists(k, s.todo, game_time) /\ conns' = conns /\ users' = users /\ members' = members
      /\ acct' = acct
  BY <1>1, <1>2 DEF FistSaved, crowd
<1>4. ASSUME NEW t, t.pc \in TickPC \cup {"idle"} PROVE Free(k, t)
  BY <1>1, <1>2, <1>4, FreeNext DEF GInv, BetPC, TickPC
<1>5. game_time \in 0..TimeCap
  BY TypesOK DEF ClockOK
<1> QED BY <1>2, <1>3, <1>4, <1>5, GDrawFists

(* A settlement is answered: nothing changes but the books and the clock. *)
LEMMA SettleAnswered ==
    ASSUME GInv, FistsAlone, NEW k \in Coroutine, task[k].pc \in SettlePC,
           NEW reply, OperAcct(task[k].batch, reply), Done(k), ClockOK',
           game_step' \in {game_step, GAME_OVER},
           conns' = conns, users' = users, members' = members, bet_data' = bet_data, lost' = lost,
           punches' = punches, winner' = winner, outcome' = outcome
    PROVE  GInv'
<1>1. PICK s : s = task[k]
  OBVIOUS
<1>2. s.batch \in Batch /\ Fair(s.batch)
  BY <1>1, TaskOf DEF TaskInv, Tasks
<1>3. DOMAIN task' = Coroutine /\ Exclusive' /\ Suspended'
  BY Ends, TaskIdle, TasksGoOn DEF Done
<1>4. CrowdOK' /\ OutcomeOK' /\ FistsOK'
  BY TypesOK DEF CrowdOK, OutcomeOK, FistsOK, Table
<1>5. StepInv'
  <2>1. Bettors' = Bettors /\ (BothPunched => BothPunched')
    BY BetsSame DEF BothPunched
  <2> QED BY <2>1 DEF GInv, StepInv, PUNCHES_START, PUNCHES_END, WAIT_RESULT, GAME_OVER
<1> QED BY <1>1, <1>2, <1>3, <1>4, <1>5, Settled

LEMMA GResultSettled ==
    ASSUME GInv, FistsAlone, NEW k \in Coroutine, ResultSettled(k)
    PROVE  GInv'
<1>1. PICK reply \in {"ok", "error"} :
         /\ OperAcct(task[k].batch, reply)
         /\ game_step' = IF reply = "ok" THEN GAME_OVER ELSE game_step
  BY DEF ResultSettled
<1>2. /\ task[k].pc \in SettlePC /\ Done(k) /\ game_time' = game_time /\ conns' = conns
      /\ users' = users /\ members' = members /\ bet_data' = bet_data /\ lost' = lost /\ punches' = punches
      /\ winner' = winner /\ outcome' = outcome
  BY DEF ResultSettled, At, SettlePC, crowd, game, bets
<1>3. game_step' \in {game_step, GAME_OVER}
  BY <1>1
<1>4. ClockOK'
  BY <1>2, <1>3, TypesOK DEF ClockOK, BET_START, GAME_OVER
<1> QED BY <1>1, <1>2, <1>3, <1>4, SettleAnswered

LEMMA GQuitSettled ==
    ASSUME GInv, FistsAlone, NEW k \in Coroutine, QuitSettled(k)
    PROVE  GInv'
<1>1. PICK reply \in {"ok", "error"} :
         /\ OperAcct(task[k].batch, reply)
         /\ IF reply = "ok" THEN set_game_step(GAME_OVER) ELSE UNCHANGED clock
  BY DEF QuitSettled
<1>2. /\ task[k].pc \in SettlePC /\ Done(k) /\ conns' = conns
      /\ users' = users /\ members' = members /\ bet_data' = bet_data /\ lost' = lost /\ punches' = punches
      /\ winner' = winner /\ outcome' = outcome
  BY DEF QuitSettled, At, SettlePC, crowd, game, bets
<1>3. game_step' \in {game_step, GAME_OVER} /\ ClockOK'
  <2>1. GAME_OVER \in BET_START..GAME_OVER
    BY DEF BET_START, GAME_OVER
  <2>2. CASE set_game_step(GAME_OVER)
    BY <2>1, <2>2, StepSet
  <2>3. CASE UNCHANGED clock
    BY <2>3, TypesOK DEF clock, ClockOK
  <2> QED BY <1>1, <2>2, <2>3
<1> QED BY <1>1, <1>2, <1>3, SettleAnswered

LEMMA GFlowSaved ==
    ASSUME GInv, FistsAlone, NEW k \in Coroutine, FlowSaved(k)
    PROVE  GInv'
<1>1. /\ task[k].pc = "flow_db" /\ game_time' = game_time /\ conns' = conns /\ users' = users
      /\ members' = members /\ bet_data' = bet_data /\ lost' = lost /\ punches' = punches /\ winner' = winner
      /\ outcome' = outcome /\ acct' = acct
  BY DEF FlowSaved, At, crowd, game, bets
<1>2. CASE game_step' = GAME_OVER /\ Done(k)
  <2>1. ClockOK'
    BY <1>1, <1>2, TypesOK DEF ClockOK, BET_START, GAME_OVER
  <2> QED BY <1>1, <1>2, <2>1, EndsWithStep
<1>3. CASE /\ Goto(k, [Idle EXCEPT !.pc = "result_acct", !.batch = FlowBatch])
           /\ UNCHANGED game_step
  <2>1. PICK b : b = FlowBatch
    OBVIOUS
  <2>2. PICK t : t = [Idle EXCEPT !.pc = "result_acct", !.batch = b]
    OBVIOUS
  <2>3. b \in Batch /\ Fair(b) /\ "result_acct" \in SettlePC
    BY <2>1, FlowFair DEF SettlePC
  <2>4. t.pc = "result_acct" /\ TaskInv(t)
    BY <2>2, <2>3, SettleTask
  <2>5. Free(k, t)
    BY <1>1, <2>4, FreeNext DEF GInv, BetPC, TickPC
  <2> QED BY <1>1, <1>3, <2>1, <2>2, <2>4, <2>5, GoesOn DEF Still
<1> QED BY <1>2, <1>3 DEF FlowSaved

-----------------------------------------------------------------------------
(* Leaving and coming back.                                                *)

LEMMA GQuitGame ==
    ASSUME GInv, FistsAlone, NEW k \in Coroutine, NEW u \in User, QuitGame(k, u)
    PROVE  GInv'
<1>1. /\ CanStart(k, "quit") /\ conns' = conns /\ users' = users
      /\ members' = members /\ bet_data' = bet_data /\ lost' = lost /\ punches' = punches /\ winner' = winner
      /\ outcome' = outcome /\ acct' = acct
  BY DEF QuitGame, crowd, game, bets
<1>2. CASE /\ Goto(k, [Idle EXCEPT !.pc = "quit_acct", !.batch = QuitBatch(u)])
           /\ UNCHANGED clock
  <2>1. PICK b : b = QuitBatch(u)
    OBVIOUS
  <2>2. PICK t : t = [Idle EXCEPT !.pc = "quit_acct", !.batch = b]
    OBVIOUS
  <2>3. b \in Batch /\ Fair(b) /\ "quit_acct" \in SettlePC
    BY <2>1, QuitFair DEF SettlePC
  <2>4. t \in Tasks /\ t.pc = "quit_acct" /\ TaskInv(t)
    BY <2>2, <2>3, SettleTask
  <2>5. Free(k, t)
    BY <1>1, <2>4, FreeStart DEF PC, BetPC, TickPC
  <2>6. Still
    BY <1>1, <1>2 DEF Still, clock
  <2> QED BY <1>1, <1>2, <2>1, <2>2, <2>4, <2>5, <2>6, GoesOn
<1>3. CASE set_game_step(GAME_OVER) /\ task' = task
  <2>1. ClockOK' /\ game_step' = GAME_OVER
    <3>1. GAME_OVER \in BET_START..GAME_OVER
      BY DEF BET_START, GAME_OVER
    <3> QED BY <1>3, <3>1, StepSet
  <2>2. CrowdOK' /\ OutcomeOK' /\ FistsOK'
    BY <1>1, TypesOK DEF CrowdOK, OutcomeOK, FistsOK, Table
  <2>3. DOMAIN task' = Coroutine /\ Exclusive' /\ Suspended'
    BY <1>1, <1>3, TasksStay
  <2>4. StepInv'
    BY <2>1 DEF StepInv, PUNCHES_START, PUNCHES_END, WAIT_RESULT, GAME_OVER
  <2> QED BY <1>1, <2>1, <2>2, <2>3, <2>4, Assemble
<1> QED BY <1>2, <1>3 DEF QuitGame

(* The crowd changes and the game does not. *)
LEMMA CrowdMoves ==
    ASSUME GInv, CrowdOK', game_step' = game_step, game_time' = game_time, bet_data' = bet_data, lost' = lost,
           punches' = punches, winner' = winner, outcome' = outcome, acct' = acct,
           DOMAIN task' = Coroutine, Exclusive', Suspended'
    PROVE  GInv'
<1>1. ClockOK' /\ OutcomeOK' /\ FistsOK'
  BY TypesOK DEF ClockOK, OutcomeOK, FistsOK, Table
<1>2. StepInv'
  BY BetsSame DEF GInv, StepInv, BothPunched
<1> QED BY <1>1, <1>2, Assemble

LEMMA GDisconnect ==
    ASSUME GInv, FistsAlone, NEW k \in Coroutine, NEW u \in User, Disconnect(k, u)
    PROVE  GInv'
<1>1. PICK t : t = [Idle EXCEPT !.pc = "leave_mgr", !.u = u]
  OBVIOUS
<1>2. t \in Tasks /\ t.pc = "leave_mgr"
  <2>1. t = [pc |-> "leave_mgr", u |-> u, v |-> 0, todo |-> {}, batch |-> NoBatch]
    BY <1>1 DEF Idle
  <2>2. "leave_mgr" \in PC /\ u \in User \cup {None} /\ {} \in SUBSET User /\ 0 \in Int
    BY DEF PC
  <2> QED BY <2>1, <2>2, IdleFacts, NewTask
<1>3. /\ CanStart(k, "leave") /\ conns' = conns \ {u} /\ Goto(k, t)
      /\ game_step' = game_step /\ game_time' = game_time /\ users' = users
      /\ members' = members /\ bet_data' = bet_data /\ lost' = lost /\ punches' = punches /\ winner' = winner
      /\ outcome' = outcome /\ acct' = acct
  BY <1>1 DEF Disconnect, clock, game, bets
<1>4. DOMAIN task' = Coroutine /\ Exclusive' /\ Suspended'
  <2>1. TaskInv(t)'
    BY <1>2, TaskPlain DEF Plain
  <2>2. Free(k, t)
    BY <1>2, <1>3, FreeStart DEF PC, BetPC, TickPC
  <2> QED BY <1>3, <2>1, <2>2, TasksGoOn
<1>5. CrowdOK'
  BY <1>3, TypesOK DEF CrowdOK
<1> QED BY <1>3, <1>4, <1>5, CrowdMoves

LEMMA GLeft ==
    ASSUME GInv, FistsAlone, NEW k \in Coroutine, Left(k)
    PROVE  GInv'
<1>1. /\ members' = members \ {task[k].u} /\ conns' = conns
      /\ game_step' = game_step /\ game_time' = game_time
      /\ bet_data' = bet_data /\ lost' = lost /\ punches' = punches /\ winner' = winner
      /\ outcome' = outcome /\ acct' = acct
  BY DEF Left, clock, game, bets
<1>2. CASE task' = [j \in Coroutine |-> Idle] /\ users' = users
  <2>1. DOMAIN task' = Coroutine /\ \A j \in Coroutine : task'[j] = Idle
    BY <1>2
  <2>2. Exclusive'
    BY <2>1, IdleFacts DEF Exclusive, BetPC, TickPC
  <2>3. Suspended'
    BY <2>1, TaskIdle DEF Suspended
  <2>4. CrowdOK'
    BY <1>1, <1>2, TypesOK DEF CrowdOK
  <2> QED BY <1>1, <2>1, <2>2, <2>3, <2>4, CrowdMoves
<1>3. CASE Done(k) /\ users' = users \ {task[k].u}
  <2>1. DOMAIN task' = Coroutine /\ Exclusive' /\ Suspended'
    BY <1>1, <1>3, Ends, TaskIdle, TasksGoOn DEF Done
  <2>2. CrowdOK'
    BY <1>1, <1>3, TypesOK DEF CrowdOK
  <2> QED BY <1>1, <2>1, <2>2, CrowdMoves
<1> QED BY <1>2, <1>3 DEF Left

LEMMA GLogin ==
    ASSUME GInv, FistsAlone, NEW k \in Coroutine, NEW u \in User, Login(k, u)
    PROVE  GInv'
<1>1. /\ members' = members \cup {u} /\ users' = users \cup {u} /\ conns' = conns \cup {u}
      /\ game_step' = game_step /\ game_time' = game_time /\ task' = task
      /\ bet_data' = bet_data /\ lost' = lost /\ punches' = punches /\ winner' = winner
      /\ outcome' = outcome /\ acct' = acct
  BY DEF Login, clock, game, bets
<1>2. CrowdOK'
  BY <1>1, TypesOK DEF CrowdOK
<1>3. DOMAIN task' = Coroutine /\ Exclusive' /\ Suspended'
  BY <1>1, TasksStay
<1> QED BY <1>1, <1>2, <1>3, CrowdMoves

-----------------------------------------------------------------------------
(* The timer.                                                              *)

LEMMA LaterFacts ==
    ASSUME GInv
    PROVE  Later \in 0..TimeCap
BY TypesOK, GuessingAssumption DEF Later, ClockOK

(* A tick that sets the next step and starts no call. *)
LEMMA StepTicks ==
    ASSUME GInv, NEW step \in BET_START..GAME_OVER, set_game_step(step), task' = task,
           conns' = conns, users' = users, members' = members, bet_data' = bet_data, lost' = lost,
           punches' = punches, winner' = winner, outcome' = outcome, acct' = acct, StepInv'
    PROVE  GInv'
<1>1. CrowdOK' /\ OutcomeOK' /\ FistsOK'
  BY TypesOK DEF CrowdOK, OutcomeOK, FistsOK, Table
<1>2. ClockOK'
  BY StepSet
<1> QED BY <1>1, <1>2, TasksStay, Assemble

LEMMA GTickBetStart ==
    ASSUME GInv, FistsAlone, NEW k \in Coroutine, TickBetStart(k)
    PROVE  GInv'
<1>1. /\ set_game_step(BET_END) /\ conns' = conns /\ users' = users /\ members' = members
      /\ bet_data' = bet_data /\ lost' = lost /\ punches' = punches /\ winner' = winner /\ outcome' = outcome
      /\ task' = task /\ acct' = acct
  BY DEF TickBetStart, crowd, game, bets
<1>2. BET_END \in BET_START..GAME_OVER
  BY DEF BET_END, BET_START, GAME_OVER
<1>3. StepInv'
  BY <1>1 DEF set_game_step, StepInv, BET_END, PUNCHES_START, PUNCHES_END, WAIT_RESULT
<1> QED BY <1>1, <1>2, <1>3, StepTicks

LEMMA GTickPunchesStart ==
    ASSUME GInv, FistsAlone, NEW k \in Coroutine, TickPunchesStart(k)
    PROVE  GInv'
<1>1. /\ set_game_step(PUNCHES_END) /\ conns' = conns /\ users' = users /\ members' = members
      /\ bet_data' = bet_data /\ lost' = lost /\ punches' = punches /\ winner' = winner /\ outcome' = outcome
      /\ task' = task /\ acct' = acct /\ game_step = PUNCHES_START
  BY DEF TickPunchesStart, crowd, game, bets, Due
<1>2. PUNCHES_END \in BET_START..GAME_OVER
  BY DEF PUNCHES_END, BET_START, GAME_OVER
<1>3. StepInv'
  <2>1. Bettors' = User
    BY <1>1, BetsSame DEF GInv, StepInv
  <2> QED BY <1>1, <2>1 DEF set_game_step, StepInv, PUNCHES_END, WAIT_RESULT
<1> QED BY <1>1, <1>2, <1>3, StepTicks

LEMMA GTickBetEnd ==
    ASSUME GInv, FistsAlone, NEW k \in Coroutine, TickBetEnd(k)
    PROVE  GInv'
<1>1. /\ CanStart(k, "tick") /\ conns' = conns /\ users' = users /\ members' = members
      /\ bet_data' = bet_data /\ lost' = lost /\ punches' = punches /\ winner' = winner /\ outcome' = outcome
      /\ acct' = acct
  BY DEF TickBetEnd, crowd, game, bets
<1>2. CASE Bettors = User /\ set_game_step(PUNCHES_START) /\ task' = task
  <2>1. PUNCHES_START \in BET_START..GAME_OVER
    BY DEF PUNCHES_START, BET_START, GAME_OVER
  <2>2. StepInv'
    <3>1. Bettors' = User
      BY <1>1, <1>2, BetsSame
    <3> QED BY <1>2, <3>1 DEF set_game_step, StepInv, PUNCHES_START, WAIT_RESULT
  <2> QED BY <1>1, <1>2, <2>1, <2>2, StepTicks
<1>3. CASE set_game_step(FLOW) /\ Goto(k, [Idle EXCEPT !.pc = "flow_db"])
  <2>1. FLOW \in BET_START..GAME_OVER
    BY DEF FLOW, BET_START, GAME_OVER
  <2>2. PICK t : t = [Idle EXCEPT !.pc = "flow_db"]
    OBVIOUS
  <2>3. t \in Tasks /\ t.pc = "flow_db"
    BY <2>2, IdleFacts DEF Tasks, PC, TickPC
  <2>4. Free(k, t)
    BY <1>1, <2>3, FreeStart DEF PC, BetPC, TickPC
  <2>5. TaskInv(t)'
    BY <2>3, TaskPlain DEF Plain
  <2>6. DOMAIN task' = Coroutine /\ Exclusive' /\ Suspended'
    BY <1>1, <1>3, <2>2, <2>4, <2>5, TasksGoOn
  <2>7. ClockOK' /\ game_step' = FLOW
    BY <1>3, <2>1, StepSet
  <2>8. CrowdOK' /\ OutcomeOK' /\ FistsOK'
    BY <1>1, TypesOK DEF CrowdOK, OutcomeOK, FistsOK, Table
  <2>9. StepInv'
    BY <2>7 DEF StepInv, PUNCHES_START, PUNCHES_END, WAIT_RESULT, FLOW
  <2> QED BY <1>1, <2>6, <2>7, <2>8, <2>9, Assemble
<1> QED BY <1>2, <1>3 DEF TickBetEnd

(* A tick after which the step goes on. *)
LEMMA TimePasses ==
    ASSUME GInv, NEW k \in Coroutine, Stay(k), UNCHANGED <<crowd, acct>>
    PROVE  GInv'
<1>1. /\ game_time' = Later /\ conns' = conns /\ users' = users /\ members' = members
      /\ bet_data' = bet_data /\ lost' = lost /\ punches' = punches /\ winner' = winner /\ outcome' = outcome
      /\ acct' = acct /\ game_step' = game_step /\ task' = task
  BY DEF Stay, crowd, game, bets
<1>2. ClockOK' /\ CrowdOK' /\ OutcomeOK' /\ FistsOK'
  BY <1>1, TypesOK, LaterFacts DEF ClockOK, CrowdOK, OutcomeOK, FistsOK, Table
<1>3. StepInv'
  BY <1>1, BetsSame DEF GInv, StepInv, BothPunched
<1> QED BY <1>1, <1>2, <1>3, TasksStay, Assemble

LEMMA GTickPunchesEnd ==
    ASSUME GInv, FistsAlone, NEW k \in Coroutine, TickPunchesEnd(k)
    PROVE  GInv'
<1>1. CASE Stay(k)
  BY <1>1, TimePasses DEF TickPunchesEnd
<1>2. CASE DrawFists(k, Players, Later)
  <2>1. Players \in SUBSET User
    BY DEF Players, Bettors
  <2>2. Ready(Players)
    BY DEF TickPunchesEnd, Due, GInv, StepInv, Ready, Players, BothPunched
  <2>3. ASSUME NEW t, t.pc \in TickPC \cup {"idle"} PROVE Free(k, t)
    <3>1. CanStart(k, "tick") /\ t.pc \in PC /\ t.pc \notin BetPC
      BY <2>3 DEF TickPunchesEnd, PC, TickPC, BetPC
    <3> QED BY <3>1, FreeStart
  <2>4. conns' = conns /\ users' = users /\ members' = members /\ acct' = acct
    BY DEF TickPunchesEnd, crowd
  <2> QED BY <1>2, <2>1, <2>2, <2>3, <2>4, LaterFacts, GDrawFists
<1> QED BY <1>1, <1>2 DEF TickPunchesEnd

(* The result is only waited for after a tie, which is played again. *)
LEMMA GTickWaitResult ==
    ASSUME GInv, FistsAlone, NEW k \in Coroutine, TickWaitResult(k)
    PROVE  GInv'
<1>1. game_step = WAIT_RESULT /\ CanStart(k, "tick")
  BY DEF TickWaitResult, Due
<1>2. outcome = "tie" /\ Bettors = User
  BY <1>1 DEF GInv, StepInv
<1>3. /\ punches' = None /\ set_game_step(PUNCHES_START) /\ task' = task
      /\ conns' = conns /\ users' = users /\ members' = members
      /\ bet_data' = bet_data /\ lost' = lost /\ winner' = winner /\ outcome' = outcome /\ acct' = acct
  BY <1>2 DEF TickWaitResult, crowd, bets
<1>4. \A j \in Coroutine : task[j].pc # "fist_db"
  <2>1. PICK t : t = [pc |-> "fist_db"]
    OBVIOUS
  <2>2. Free(k, t)
    BY <1>1, <2>1, FreeStart DEF PC, BetPC, TickPC
  <2>3. task[k].pc = "idle"
    BY <1>1 DEF CanStart, At
  <2> QED BY <2>1, <2>2, <2>3 DEF Free, TickPC
<1>5. ASSUME NEW j \in Coroutine, NEW s \in {task[j]} PROVE TaskInv(s)'
  <2>1. TaskInv(s) /\ s.pc # "fist_db"
    BY <1>4, TaskOf
  <2>2. s.pc \in SettlePC => Fair(s.batch)'
    BY <2>1 DEF TaskInv, Fair
  <2> QED BY <1>3, <2>1, <2>2 DEF TaskInv, Freeze, NoBatch
<1>6. DOMAIN task' = Coroutine /\ Exclusive' /\ Suspended'
  BY <1>3, <1>5, TypesOK DEF GInv, Exclusive, Suspended
<1>7. ClockOK' /\ game_step' = PUNCHES_START
  <2>1. PUNCHES_START \in BET_START..GAME_OVER
    BY DEF PUNCHES_START, BET_START, GAME_OVER
  <2> QED BY <1>3, <2>1, StepSet
<1>8. CrowdOK' /\ OutcomeOK' /\ FistsOK'
  BY <1>3, TypesOK DEF CrowdOK, OutcomeOK, FistsOK
<1>9. StepInv'
  <2>1. Bettors' = User
    BY <1>2, <1>3, BetsSame
  <2> QED BY <1>7, <2>1 DEF StepInv, PUNCHES_START, WAIT_RESULT
<1> QED BY <1>3, <1>6, <1>7, <1>8, <1>9, Assemble

LEMMA GTick ==
    ASSUME GInv, FistsAlone, NEW k \in Coroutine, Tick(k)
    PROVE  GInv'
<1>1. CASE TickIdle(k)
  BY <1>1, TimePasses DEF TickIdle
<1> QED BY <1>1, GTickBetStart, GTickBetEnd, GTickPunchesStart, GTickPunchesEnd, GTickWaitResult
        DEF Tick

-----------------------------------------------------------------------------
(* The theorems.                                                           *)

LEMMA InitG == Init => GInv
<1> SUFFICES ASSUME Init PROVE GInv
  OBVIOUS
<1>1. TypeOK
  <2>1. /\ acct \in [User -> [bal : Nat, frozen : Nat]] /\ bet_data \in [User -> Seq(Values)]
        /\ lost \in [User -> Nat]
    BY GuessingAssumption DEF Init
  <2>2. game_step \in BET_START..GAME_OVER /\ game_time \in 0..TimeCap
    BY GuessingAssumption DEF Init, BET_START, GAME_OVER
  <2> QED BY <2>1, <2>2 DEF Init, TypeOK
<1>2. \A k \in Coroutine : task[k] = Idle
  BY DEF Init
<1>3. Exclusive
  BY <1>2, IdleFacts DEF Exclusive, BetPC, TickPC
<1>4. Suspended
  BY <1>2, TaskIdle DEF Suspended
<1>5. BetShape /\ \A u \in User : Staked(u) = 0
  <2>1. \A u \in User : bet_data[u] = << >> /\ DOMAIN bet_data[u] = {} /\ lost[u] = 0
    BY DEF Init
  <2>2. \A u \in User : SumFunction(bet_data[u]) = 0
    BY <2>1, SumEmpty DEF SumFunction
  <2> QED BY <2>1, <2>2 DEF BetShape, Staked
<1>6. Ledger
  <2> DEFINE L == [u \in User |-> 0]
  <2>1. L \in [User -> Nat] /\ \A u \in User : L[u] = 0
    OBVIOUS
  <2>2. \A u \in User : acct[u].bal = InitBal /\ acct[u].frozen = 0
    BY DEF Init
  <2>3. InitBal \in Nat
    BY GuessingAssumption
  <2> HIDE DEF L
  <2>4. ASSUME NEW u \in User
        PROVE  /\ L[u] + acct[u].frozen <= Staked(u)
               /\ \A w \in User \ {u} : Total(u) = InitBal + L[w] - L[u]
    BY <1>5, <2>1, <2>2, <2>3 DEF Total
  <2> QED BY <2>1, <2>4 DEF Ledger
<1>7. StepInv
  BY DEF Init, StepInv, BET_START, PUNCHES_START, PUNCHES_END, WAIT_RESULT
<1> QED BY <1>1, <1>3, <1>4, <1>5, <1>6, <1>7 DEF GInv

LEMMA NextG ==
    ASSUME GInv, FistsAlone, [Next]_vars
    PROVE  GInv'
<1>1. CASE UNCHANGED vars
  <2>1. Still /\ acct' = acct /\ task' = task
    BY <1>1 DEF vars, clock, crowd, game, bets, Still
  <2>2. ClockOK' /\ CrowdOK' /\ OutcomeOK' /\ FistsOK' /\ StepInv'
    BY <2>1, StillFacts
  <2>3. DOMAIN task' = Coroutine /\ Exclusive' /\ Suspended'
    BY <2>1, TasksStay DEF Still
  <2> QED BY <2>1, <2>2, <2>3, Assemble DEF Still
<1>2. ASSUME NEW k \in Coroutine, Continue(k) PROVE GInv'
  BY <1>2, GBetQueried, GBetFrozen, GBetSaved, GPunchSaved, GFistSaved, GResultSettled,
     GFlowSaved, GQuitSettled, GLeft DEF Continue
<1>3. CASE Next
  BY <1>2, <1>3, GBetting, GPunch, GQuitGame, GDisconnect, GLogin, GTick DEF Next
<1> QED BY <1>1, <1>3

(* What the ledger says of the coins. *)
LEMMA LedgerCoins ==
    ASSUME GInv
    PROVE  CoinsAccounted
<1>1. acct \in Books /\ Ledger /\ InitBal \in Nat
  BY TypesOK, GuessingAssumption DEF GInv
<1>2. \A u \in User : Staked(u) \in Nat /\ acct[u].frozen \in Nat /\ acct[u].bal \in Nat
  BY <1>1, StakedNat, TypesOK, GuessingAssumption DEF GInv, Books
<1>3. PICK L \in [User -> Nat] : \A u \in User :
         /\ L[u] + acct[u].frozen <= Staked(u)
         /\ \A w \in User \ {u} : Total(u) = InitBal + L[w] - L[u]
  BY <1>1 DEF Ledger
<1>4. \A u \in User : L[u] \in Nat /\ Total(u) = acct[u].bal + acct[u].frozen /\ Total(u) \in Int
  BY <1>2, <1>3 DEF Total
<1>5. SettledOnce
  <2> SUFFICES ASSUME NEW u \in User
               PROVE  /\ acct[u].bal >= InitBal - Staked(u)
                      /\ \A w \in User \ {u} : Total(u) <= InitBal + Staked(w) - acct[w].frozen
    BY DEF SettledOnce
  <2> DEFINE x == acct[u].bal
             y == acct[u].frozen
             z == Staked(u)
  <2>1. /\ x \in Nat /\ y \in Nat /\ z \in Nat /\ L[u] \in Nat /\ L[u] + y <= z
        /\ \A w \in User \ {u} : x + y = InitBal + L[w] - L[u]
    BY <1>2, <1>3, <1>4
  <2>2. PICK w \in User \ {u} : TRUE
    BY UserPair
  <2>3. L[w] \in Nat /\ x + y = InitBal + L[w] - L[u]
    BY <2>1, <2>2, <1>4
  <2> HIDE DEF x, y, z
  <2>4. x >= InitBal - z
    BY <1>1, <2>1, <2>3
  <2>5. ASSUME NEW v \in User \ {u} PROVE Total(u) <= InitBal + Staked(v) - acct[v].frozen
    <3> DEFINE p == Staked(v)
               q == acct[v].frozen
    <3>1. p \in Nat /\ q \in Nat /\ L[v] \in Nat /\ L[v] + q <= p
      BY <1>2, <1>3, <1>4
    <3>2. Total(u) = InitBal + L[v] - L[u]
      BY <1>3
    <3> HIDE DEF p, q
    <3>3. Total(u) <= InitBal + p - q
      BY <1>1, <2>1, <3>1, <3>2
    <3> QED BY <3>3 DEF p, q
  <2> QED BY <2>4, <2>5 DEF x, z
<1>6. Conserved
  <2>1. PICK a \in User, b \in User : a # b /\ User = {a, b}
    BY UserPair
  <2> DEFINE f == [u \in User |-> Total(u)]
  <2>2. DOMAIN f = User /\ \A u \in User : f[u] = Total(u) /\ f[u] \in Int
    BY <1>4
  <2>3. IsFiniteSet(User) /\ User \ {a} = {b} /\ {b} \ {b} = {} /\ IsFiniteSet({b})
    BY <2>1, GuessingAssumption, FS_Singleton
  <2> HIDE DEF f
  <2>4. SumFunctionOnSet(f, User) = f[a] + SumFunctionOnSet(f, {b})
    BY <2>2, <2>3, SumRemove
  <2>5. SumFunctionOnSet(f, {b}) = f[b] + SumFunctionOnSet(f, {})
    BY <2>1, <2>2, <2>3, SumRemove
  <2>6. SumFunctionOnSet(f, {}) = 0
    BY SumEmpty
  <2>7. SumFunction(f) = SumFunctionOnSet(f, User)
    BY <2>2 DEF SumFunction
  <2>8. SumFunction(f) = Total(a) + Total(b)
    BY <2>2, <2>4, <2>5, <2>6, <2>7
  <2>9. Total(a) = InitBal + L[b] - L[a] /\ Total(b) = InitBal + L[a] - L[b]
    BY <1>3, <2>1
  <2>10. SumFunction(f) = 2 * InitBal
    BY <1>1, <1>4, <2>8, <2>9
  <2> QED BY <2>10 DEF Conserved, f
<1>7. FrozenBacked
  BY <1>2, <1>3, <1>4 DEF FrozenBacked
<1> QED BY <1>5, <1>6, <1>7 DEF CoinsAccounted

LEMMA GInvariance ==
    ASSUME FistsAlone
    PROVE  Spec => []GInv
<1>1. GInv /\ [Next]_vars => GInv'
  BY NextG
<1> QED BY <1>1, InitG, PTL DEF Spec

(* CoinsAccounted: game_result, game_flow_bureau and quit_game may each      *)
(* start a settlement while others are suspended, any number of bets may be  *)
(* under way, also of one member, members may leave, come back and quit, and *)
(* account calls may fail or be booked without an answer; yet coins are      *)
(* conserved, every frozen coin belongs to a bet, and a member loses only    *)
(* what was frozen for him and the other wins no more.                       *)
THEOREM GuessCoinsAccounted ==
    ASSUME FistsAlone
    PROVE  Spec => []CoinsAccounted
<1>1. GInv => CoinsAccounted
  BY LedgerCoins
<1> QED BY <1>1, GInvariance, PTL

-----------------------------------------------------------------------------
(* Types, whatever overlaps and whatever faults the account server has.    *)

TaskT(t) ==
    /\ t \in Tasks
    /\ t.pc \in {"bet_query", "bet_coin"} => t.u \in User /\ t.v \in Values
    /\ t.pc = "bet_coin" => t.v >= 1 /\ t.batch = Freeze(t.u, t.v)

RoomT == /\ ClockOK /\ CrowdOK /\ OutcomeOK /\ FistsOK
         /\ bet_data \in [User -> Seq(Values)] /\ lost \in [User -> Nat] /\ acct \in Books
TInv == RoomT /\ DOMAIN task = Coroutine /\ \A k \in Coroutine : TaskT(task[k])

LEMMA TGoto ==
    ASSUME TInv, NEW k \in Coroutine, NEW t, TaskT(t), Goto(k, t), RoomT'
    PROVE  TInv'
<1>1. /\ DOMAIN task' = Coroutine /\ task'[k] = t
      /\ \A j \in Coroutine \ {k} : task'[j] = task[j]
  BY DEF TInv, Goto
<1> QED BY <1>1 DEF TInv

LEMMA TIdle == TaskT(Idle)
BY IdleFacts DEF TaskT

LEMMA TDone ==
    ASSUME TInv, NEW k \in Coroutine, Done(k), RoomT'
    PROVE  TInv'
BY TIdle, TGoto DEF Done

LEMMA TStay ==
    ASSUME TInv, task' = task, RoomT'
    PROVE  TInv'
BY DEF TInv

(* Coroutines that start. *)
LEMMA TStart ==
    ASSUME NEW pc \in PC, NEW u \in User \cup {None}, NEW v \in Int, NEW todo \in SUBSET User,
           NEW b \in Batch, pc # "bet_coin", pc = "bet_query" => u \in User /\ v \in Values,
           NEW t, t = [pc |-> pc, u |-> u, v |-> v, todo |-> todo, batch |-> b]
    PROVE  TaskT(t)
BY NewTask DEF TaskT

LEMMA TSame ==
    ASSUME TInv, game_step' = game_step, game_time' = game_time, conns' = conns, users' = users,
           members' = members, bet_data' = bet_data, lost' = lost, punches' = punches, winner' = winner,
           outcome' = outcome, acct' = acct
    PROVE  RoomT'
BY DEF TInv, RoomT, ClockOK, CrowdOK, OutcomeOK, FistsOK, Table, Books

LEMMA TStep ==
    ASSUME TInv, ClockOK', conns' = conns, users' = users, members' = members,
           bet_data' = bet_data, lost' = lost, FistsOK', OutcomeOK', acct' \in Books
    PROVE  RoomT'
BY DEF TInv, RoomT, CrowdOK

LEMMA TSteps ==
    /\ BET_END \in BET_START..GAME_OVER /\ PUNCHES_START \in BET_START..GAME_OVER
    /\ PUNCHES_END \in BET_START..GAME_OVER /\ WAIT_RESULT \in BET_START..GAME_OVER
    /\ RESULT \in BET_START..GAME_OVER /\ FLOW \in BET_START..GAME_OVER
    /\ GAME_OVER \in BET_START..GAME_OVER
BY DEF BET_START, BET_END, PUNCHES_START, PUNCHES_END, WAIT_RESULT, RESULT, FLOW, GAME_OVER

(* Whatever the account server answers its books keep their type. *)
LEMMA TOper ==
    ASSUME acct \in Books, NEW b \in Batch, NEW reply, OperAcct(b, reply)
    PROVE  acct' \in Books
BY BookedFacts DEF OperAcct

(* The first bet of a player is an integer. *)
LEMMA TBet ==
    ASSUME TInv
    PROVE  \A u \in User : bet_data[u] # << >> => bet_data[u][1] \in Int
<1> SUFFICES ASSUME NEW u \in User, bet_data[u] # << >> PROVE bet_data[u][1] \in Int
  OBVIOUS
<1>1. bet_data[u] \in Seq(Values) /\ Values \subseteq Int
  BY GuessingAssumption DEF TInv, RoomT
<1>2. Len(bet_data[u]) >= 1 /\ 1 \in 1..Len(bet_data[u])
  BY <1>1, EmptySeq, LenProperties
<1>3. bet_data[u][1] \in Values
  BY <1>1, <1>2, ElementOfSeq
<1> QED BY <1>1, <1>3

LEMMA TBatch ==
    ASSUME NEW x, NEW y, \A u \in User : x[u] \in Int /\ y[u] \in Int,
           NEW b, b = [u \in User |-> [bal |-> x[u], frozen |-> y[u]]]
    PROVE  b \in Batch
<1>1. ASSUME NEW u \in User PROVE [bal |-> x[u], frozen |-> y[u]] \in [bal : Int, frozen : Int]
  OBVIOUS
<1> QED BY <1>1 DEF Batch

LEMMA TResultBatch ==
    ASSUME TInv, NEW w, NEW t \in Int, NEW b, b = ResultBatch(w, t)
    PROVE  b \in Batch
<1>1. \A u \in User : u \in Players => bet_data[u][1] \in Int
  BY TBet DEF Players, Bettors
<1> DEFINE x == [u \in User |-> IF u \in Players THEN bet_data[u][1] + (IF u = w THEN t ELSE - t) ELSE 0]
           y == [u \in User |-> IF u \in Players THEN - bet_data[u][1] ELSE 0]
<1>2. \A u \in User : x[u] \in Int /\ y[u] \in Int
  BY <1>1
<1>3. b = [u \in User |-> [bal |-> x[u], frozen |-> y[u]]]
  BY DEF ResultBatch
<1> HIDE DEF x, y
<1> QED BY <1>2, <1>3, TBatch

LEMMA TFlowBatch ==
    ASSUME TInv, NEW b, b = FlowBatch
    PROVE  b \in Batch
<1>1. \A u \in User : u \in Bettors => bet_data[u][1] \in Int
  BY TBet DEF Bettors
<1> DEFINE x == [u \in User |-> IF u \in Bettors THEN bet_data[u][1] ELSE 0]
           y == [u \in User |-> IF u \in Bettors THEN - bet_data[u][1] ELSE 0]
<1>2. \A u \in User : x[u] \in Int /\ y[u] \in Int
  BY <1>1
<1>3. b = [u \in User |-> [bal |-> x[u], frozen |-> y[u]]]
  BY DEF FlowBatch
<1> HIDE DEF x, y
<1> QED BY <1>2, <1>3, TBatch

LEMMA TQuitBatch ==
    ASSUME TInv, NEW q \in User, NEW b, b = QuitBatch(q)
    PROVE  b \in Batch
<1> DEFINE back(u) == IF u \in users /\ bet_data[u] # << >> THEN bet_data[u][1] ELSE 0
           t == IF users = User THEN back(q) ELSE 0
           x == [u \in User |-> back(u) + (IF u = q THEN - t ELSE t)]
           y == [u \in User |-> - back(u)]
<1>1. \A u \in User : back(u) \in Int
  BY TBet
<1>2. t \in Int
  BY <1>1
<1>3. b = [u \in User |-> [bal |-> x[u], frozen |-> y[u]]]
  BY DEF QuitBatch
<1> HIDE DEF back, t
<1>4. \A u \in User : x[u] \in Int /\ y[u] \in Int
  BY <1>1, <1>2
<1> HIDE DEF x, y
<1> QED BY <1>3, <1>4, TBatch

LEMMA TSettle ==
    ASSUME NEW pc \in SettlePC, NEW b \in Batch, NEW t, t = [Idle EXCEPT !.pc = pc, !.batch = b]
    PROVE  TaskT(t)
<1>1. t = [pc |-> pc, u |-> None, v |-> 0, todo |-> {}, batch |-> b]
  BY DEF Idle
<1>2. pc \in PC /\ None \in User \cup {None} /\ {} \in SUBSET User /\ 0 \in Int
  BY DEF PC, SettlePC, TickPC
<1>3. t \in Tasks /\ t.pc = pc
  BY <1>1, <1>2 DEF Tasks
<1> QED BY <1>3 DEF TaskT, SettlePC

LEMMA TBetting ==
    ASSUME TInv, NEW k \in Coroutine, NEW u \in User, NEW v \in Values, Betting(k, u, v)
    PROVE  TInv'
<1>1. PICK t : t = [Idle EXCEPT !.pc = "bet_query", !.u = u, !.v = v]
  OBVIOUS
<1>2. t = [pc |-> "bet_query", u |-> u, v |-> v, todo |-> {}, batch |-> NoBatch]
  BY <1>1 DEF Idle
<1>3. "bet_query" \in PC /\ v \in Int /\ u \in User \cup {None} /\ {} \in SUBSET User
  BY GuessingAssumption DEF PC, BetPC
<1>4. TaskT(t)
  BY <1>2, <1>3, IdleFacts, TStart
<1>5. Goto(k, t)
  BY <1>1 DEF Betting
<1>6. RoomT'
  BY TSame DEF Betting, clock, crowd, game, bets
<1> QED BY <1>4, <1>5, <1>6, TGoto

LEMMA TBetQueried ==
    ASSUME TInv, NEW k \in Coroutine, BetQueried(k)
    PROVE  TInv'
<1>1. PICK s : s = task[k]
  OBVIOUS
<1>2. s \in Tasks /\ s.u \in User /\ s.v \in Values /\ s.v \in Int
  BY <1>1, GuessingAssumption DEF BetQueried, At, TInv, TaskT
<1>3. RoomT'
  BY TSame DEF BetQueried, clock, crowd, game, bets
<1>4. PICK b : b = Freeze(s.u, s.v)
  OBVIOUS
<1>5. b \in Batch
  BY <1>2, <1>4, FreezeFacts
<1>6. PICK t : t = [s EXCEPT !.pc = "bet_coin", !.batch = b]
  OBVIOUS
<1>7. t \in Tasks /\ t.u = s.u /\ t.v = s.v /\ t.batch = b
  BY <1>2, <1>5, <1>6 DEF Tasks, PC, BetPC
<1>8. PICK max : IF s.v \in 1..max THEN Goto(k, t) ELSE Done(k)
  BY <1>1, <1>4, <1>6 DEF BetQueried
<1>9. CASE s.v \in 1..max
  <2>1. TaskT(t)
    BY <1>2, <1>4, <1>7, <1>9 DEF TaskT
  <2> QED BY <1>3, <1>8, <1>9, <2>1, TGoto
<1>10. CASE s.v \notin 1..max
  BY <1>3, <1>8, <1>10, TDone
<1> QED BY <1>9, <1>10

LEMMA TBetFrozen ==
    ASSUME TInv, NEW k \in Coroutine, BetFrozen(k)
    PROVE  TInv'
<1>1. PICK s : s = task[k]
  OBVIOUS
<1>2. /\ s \in Tasks /\ s.u \in User /\ s.v \in Values /\ s.batch \in Batch
      /\ s.v \in Int /\ s.v >= 1 /\ s.batch = Freeze(s.u, s.v)
  BY <1>1, GuessingAssumption DEF BetFrozen, At, TInv, TaskT, Tasks
<1>3. acct \in Books /\ bet_data \in [User -> Seq(Values)] /\ lost \in [User -> Nat]
  BY DEF TInv, RoomT
<1>4. PICK t : t = [s EXCEPT !.pc = "bet_db"]
  OBVIOUS
<1>5. TaskT(t)
  <2>1. t \in Tasks /\ t.pc = "bet_db"
    BY <1>2, <1>4 DEF Tasks, PC, BetPC
  <2> QED BY <2>1 DEF TaskT
<1>6. PICK reply \in {"ok", "error"} :
         /\ OperAcct(s.batch, reply)
         /\ IF reply = "ok"
              THEN /\ bet_data' = [bet_data EXCEPT ![s.u] = Append(@, s.v)]
                   /\ Goto(k, t)
                   /\ UNCHANGED lost
              ELSE /\ lost' = [u \in User |-> lost[u] + (acct'[u].frozen - acct[u].frozen)]
                   /\ Done(k) /\ UNCHANGED bet_data
  BY <1>1, <1>4 DEF BetFrozen
<1>7. acct' \in Books
  BY <1>2, <1>3, <1>6, TOper
<1>8. bet_data' \in [User -> Seq(Values)]
  <2>1. Append(bet_data[s.u], s.v) \in Seq(Values)
    BY <1>2, <1>3
  <2> QED BY <1>2, <1>3, <1>6, <2>1
<1>9. lost' \in [User -> Nat]
  <2>1. CASE reply = "ok"
    BY <1>3, <1>6, <2>1
  <2>2. CASE reply # "ok" /\ acct' = acct
    BY <1>3, <1>6, <2>2, NothingLost
  <2>3. CASE reply # "ok" /\ Covered(s.batch) /\ acct' = Booked(s.batch)
    BY <1>2, <1>3, <1>6, <2>3, AnswerLost
  <2> QED BY <1>6, <2>1, <2>2, <2>3, OperFacts
<1>10. RoomT'
  BY <1>7, <1>8, <1>9 DEF BetFrozen, clock, crowd, TInv, RoomT, ClockOK, CrowdOK, OutcomeOK, FistsOK, Table
<1> QED BY <1>5, <1>6, <1>10, TGoto, TDone

LEMMA TPunch ==
    ASSUME TInv, NEW k \in Coroutine, NEW u \in User, NEW f \in Shown, Punch(k, u, f)
    PROVE  TInv'
<1>1. PICK table : table = IF punches = None THEN [w \in User |-> None] ELSE punches
  OBVIOUS
<1>2. punches' = [table EXCEPT ![u] = f]
  BY <1>1 DEF Punch
<1>3. table \in Table
  BY <1>1 DEF TInv, RoomT, FistsOK, Table
<1>4. punches' \in Table
  BY <1>2, <1>3 DEF Table
<1>5. PICK t : t = [Idle EXCEPT !.pc = "punch_db", !.u = u]
  OBVIOUS
<1>6. TaskT(t)
  <2>1. t = [pc |-> "punch_db", u |-> u, v |-> 0, todo |-> {}, batch |-> NoBatch]
    BY <1>5 DEF Idle
  <2>2. "punch_db" \in PC /\ u \in User \cup {None} /\ {} \in SUBSET User /\ 0 \in Int
    BY DEF PC
  <2> QED BY <2>1, <2>2, IdleFacts, TStart
<1>7. RoomT'
  BY <1>4 DEF Punch, clock, crowd, bets, TInv, RoomT, ClockOK, CrowdOK, OutcomeOK, FistsOK, Books
<1>8. Goto(k, t)
  BY <1>5 DEF Punch
<1> QED BY <1>6, <1>7, <1>8, TGoto

(* A coroutine ends, and a step may be set. *)
LEMMA TEnds ==
    ASSUME TInv, NEW k \in Coroutine, Done(k) \/ task' = task, NEW step \in BET_START..GAME_OVER,
           set_game_step(step) \/ UNCHANGED clock, UNCHANGED <<crowd, game>>, acct' \in Books
    PROVE  TInv'
<1>1. ClockOK'
  <2>1. CASE set_game_step(step)
    BY <2>1, StepSet
  <2>2. CASE UNCHANGED clock
    BY <2>2 DEF clock, TInv, RoomT, ClockOK
  <2> QED BY <2>1, <2>2
<1>2. RoomT'
  BY <1>1 DEF crowd, game, bets, TInv, RoomT, CrowdOK, OutcomeOK, FistsOK, Table
<1> QED BY <1>2, TDone, TStay

LEMMA TSaved ==
    ASSUME TInv, NEW k \in Coroutine, BetSaved(k) \/ PunchSaved(k)
    PROVE  TInv'
<1>1. acct' \in Books
  BY DEF BetSaved, PunchSaved, TInv, RoomT
<1>2. CASE BetSaved(k)
  BY <1>1, <1>2, TSteps, TEnds DEF BetSaved
<1>3. CASE PunchSaved(k)
  BY <1>1, <1>3, TSteps, TEnds DEF PunchSaved
<1> QED BY <1>2, <1>3

LEMMA TCallResult ==
    ASSUME TInv, NEW k \in Coroutine, NEW w, CallResult(k, w), RoomT'
    PROVE  TInv'
<1>1. PICK l \in Players \ {w} :
         Goto(k, [Idle EXCEPT !.pc = "result_acct", !.batch = ResultBatch(w, bet_data[l][1])])
  BY DEF CallResult
<1>2. PICK b : b = ResultBatch(w, bet_data[l][1])
  OBVIOUS
<1>3. bet_data[l][1] \in Int
  BY TBet DEF Players, Bettors
<1>4. b \in Batch /\ "result_acct" \in SettlePC
  BY <1>2, <1>3, TResultBatch DEF SettlePC
<1>5. PICK t : t = [Idle EXCEPT !.pc = "result_acct", !.batch = b]
  OBVIOUS
<1>6. TaskT(t) /\ Goto(k, t)
  BY <1>1, <1>2, <1>4, <1>5, TSettle
<1> QED BY <1>6, TGoto

LEMMA TPushResult ==
    ASSUME TInv, NEW k \in Coroutine, NEW now \in 0..TimeCap, PushResult(k, now),
           UNCHANGED <<crowd, acct>>
    PROVE  TInv'
<1>1. conns' = conns /\ users' = users /\ members' = members /\ acct' \in Books
  BY DEF crowd, TInv, RoomT
<1>2. CASE game_time' = now /\ Done(k) /\ UNCHANGED <<game_step, game>>
  <2>1. ClockOK' /\ OutcomeOK' /\ FistsOK'
    BY <1>2 DEF game, bets, TInv, RoomT, ClockOK, OutcomeOK, FistsOK, Table
  <2>2. RoomT'
    BY <1>1, <1>2, <2>1, TStep DEF game, bets
  <2> QED BY <1>2, <2>2, TDone
<1>3. CASE /\ winner' = None /\ outcome' \in {None, "tie"} /\ set_game_step(WAIT_RESULT) /\ Done(k)
           /\ UNCHANGED <<bets, punches>>
  <2>1. ClockOK'
    BY <1>3, TSteps, StepSet
  <2>2. OutcomeOK' /\ FistsOK'
    BY <1>3 DEF TInv, RoomT, OutcomeOK, FistsOK, Table
  <2>3. RoomT'
    BY <1>1, <1>3, <2>1, <2>2, TStep DEF bets
  <2> QED BY <1>3, <2>3, TDone
<1>4. ASSUME NEW w \in User, winner' = w, outcome' = "win", set_game_step(RESULT),
             CallResult(k, w), UNCHANGED <<bets, punches>>
      PROVE  TInv'
  <2>1. ClockOK'
    BY <1>4, TSteps, StepSet
  <2>2. OutcomeOK' /\ FistsOK'
    BY <1>4 DEF TInv, RoomT, OutcomeOK, FistsOK, Table
  <2>3. RoomT'
    BY <1>1, <1>4, <2>1, <2>2, TStep DEF bets
  <2> QED BY <1>4, <2>3, TCallResult
<1> QED BY <1>2, <1>3, <1>4 DEF PushResult

LEMMA TDrawFists ==
    ASSUME TInv, NEW k \in Coroutine, NEW todo \in SUBSET User, NEW now \in 0..TimeCap,
           DrawFists(k, todo, now), UNCHANGED <<crowd, acct>>
    PROVE  TInv'
<1>1. PICK table : table = IF punches = None THEN [u \in User |-> None] ELSE punches
  OBVIOUS
<1>2. table \in Table
  BY <1>1 DEF TInv, RoomT, FistsOK, Table
<1>3. ASSUME NEW u \in todo, NEW f \in Fist, punches' = [table EXCEPT ![u] = f],
             Goto(k, [Idle EXCEPT !.pc = "fist_db", !.todo = todo \ {u}]), game_time' = now,
             UNCHANGED <<game_step, bets, winner, outcome>>
      PROVE  TInv'
  <2>1. punches' \in Table
    BY <1>2, <1>3 DEF Table
  <2>2. PICK t : t = [Idle EXCEPT !.pc = "fist_db", !.todo = todo \ {u}]
    OBVIOUS
  <2>3. TaskT(t)
    <3>1. t = [pc |-> "fist_db", u |-> None, v |-> 0, todo |-> todo \ {u}, batch |-> NoBatch]
      BY <2>2 DEF Idle
    <3>2. "fist_db" \in PC /\ None \in User \cup {None} /\ todo \ {u} \in SUBSET User /\ 0 \in Int
      BY DEF PC, TickPC
    <3> QED BY <3>1, <3>2, IdleFacts, TStart
  <2>4. RoomT'
    BY <1>3, <2>1 DEF crowd, bets, TInv, RoomT, ClockOK, CrowdOK, OutcomeOK, FistsOK, Books
  <2> QED BY <1>3, <2>2, <2>3, <2>4, TGoto
<1> QED BY <1>1, <1>3, TPushResult DEF DrawFists

LEMMA TFistSaved ==
    ASSUME TInv, NEW k \in Coroutine, FistSaved(k)
    PROVE  TInv'
<1>1. task[k].todo \in SUBSET User /\ game_time \in 0..TimeCap
  BY DEF TInv, TaskT, Tasks, RoomT, ClockOK
<1>2. UNCHANGED <<crowd, acct>> /\ acct' \in Books
  BY DEF FistSaved, TInv, RoomT
<1>3. CASE Done(k) /\ UNCHANGED <<clock, game>>
  BY <1>2, <1>3, TSteps, TEnds
<1>4. CASE DrawFists(k, task[k].todo, game_time)
  BY <1>1, <1>2, <1>4, TDrawFists
<1> QED BY <1>3, <1>4 DEF FistSaved

LEMMA TSettled ==
    ASSUME TInv, NEW k \in Coroutine, ResultSettled(k) \/ QuitSettled(k)
    PROVE  TInv'
<1>1. task[k].batch \in Batch /\ acct \in Books
  BY DEF TInv, TaskT, Tasks, RoomT
<1>2. acct' \in Books /\ Done(k) /\ UNCHANGED <<crowd, game>>
  BY <1>1, TOper DEF ResultSettled, QuitSettled
<1>3. CASE ResultSettled(k)
  <2>1. ClockOK'
    BY <1>3, TSteps DEF ResultSettled, TInv, RoomT, ClockOK
  <2>2. RoomT'
    BY <1>2, <2>1 DEF crowd, game, bets, TInv, RoomT, CrowdOK, OutcomeOK, FistsOK, Table
  <2> QED BY <1>2, <2>2, TDone
<1>4. CASE QuitSettled(k)
  <2>1. set_game_step(GAME_OVER) \/ UNCHANGED clock
    BY <1>4 DEF QuitSettled
  <2> QED BY <1>2, <2>1, TSteps, TEnds
<1> QED BY <1>3, <1>4

LEMMA TFlowSaved ==
    ASSUME TInv, NEW k \in Coroutine, FlowSaved(k)
    PROVE  TInv'
<1>1. ClockOK' /\ RoomT'
  <2>1. ClockOK'
    BY TSteps DEF FlowSaved, TInv, RoomT, ClockOK
  <2> QED BY <2>1 DEF FlowSaved, crowd, game, bets, TInv, RoomT, CrowdOK, OutcomeOK, FistsOK, Table
<1>2. PICK b : b = FlowBatch
  OBVIOUS
<1>3. PICK t : t = [Idle EXCEPT !.pc = "result_acct", !.batch = b]
  OBVIOUS
<1>4. b \in Batch /\ "result_acct" \in SettlePC
  BY <1>2, TFlowBatch DEF SettlePC
<1>5. TaskT(t)
  BY <1>3, <1>4, TSettle
<1>6. Done(k) \/ Goto(k, t)
  BY <1>2, <1>3 DEF FlowSaved
<1> QED BY <1>1, <1>5, <1>6, TGoto, TDone

LEMMA TQuitGame ==
    ASSUME TInv, NEW k \in Coroutine, NEW u \in User, QuitGame(k, u)
    PROVE  TInv'
<1>1. UNCHANGED <<crowd, game>> /\ acct' = acct /\ acct' \in Books
  BY DEF QuitGame, TInv, RoomT
<1>2. CASE set_game_step(GAME_OVER) /\ task' = task
  BY <1>1, <1>2, TSteps, TEnds
<1>3. CASE Goto(k, [Idle EXCEPT !.pc = "quit_acct", !.batch = QuitBatch(u)]) /\ UNCHANGED clock
  <2>1. RoomT'
    BY <1>1, <1>3, TSame DEF clock, crowd, game, bets
  <2>2. PICK b : b = QuitBatch(u)
    OBVIOUS
  <2>3. PICK t : t = [Idle EXCEPT !.pc = "quit_acct", !.batch = b]
    OBVIOUS
  <2>4. b \in Batch /\ "quit_acct" \in SettlePC
    BY <2>2, TQuitBatch DEF SettlePC
  <2>5. TaskT(t) /\ Goto(k, t)
    BY <1>3, <2>2, <2>3, <2>4, TSettle
  <2> QED BY <2>1, <2>5, TGoto
<1> QED BY <1>2, <1>3 DEF QuitGame

LEMMA TCrowd ==
    ASSUME TInv, NEW k \in Coroutine, NEW u \in User, Disconnect(k, u) \/ Login(k, u)
    PROVE  TInv'
<1>1. CASE Login(k, u)
  <2>1. RoomT'
    BY <1>1 DEF Login, clock, game, bets, TInv, RoomT, ClockOK, CrowdOK, OutcomeOK, FistsOK, Table, Books
  <2> QED BY <1>1, <2>1, TStay DEF Login
<1>2. CASE Disconnect(k, u)
  <2>1. RoomT'
    BY <1>2 DEF Disconnect, clock, game, bets, TInv, RoomT, ClockOK, CrowdOK, OutcomeOK, FistsOK, Table, Books
  <2>2. PICK t : t = [Idle EXCEPT !.pc = "leave_mgr", !.u = u]
    OBVIOUS
  <2>3. TaskT(t)
    <3>1. t = [pc |-> "leave_mgr", u |-> u, v |-> 0, todo |-> {}, batch |-> NoBatch]
      BY <2>2 DEF Idle
    <3>2. "leave_mgr" \in PC /\ u \in User \cup {None} /\ {} \in SUBSET User /\ 0 \in Int
      BY DEF PC
    <3> QED BY <3>1, <3>2, IdleFacts, TStart
  <2>4. Goto(k, t)
    BY <1>2, <2>2 DEF Disconnect
  <2> QED BY <2>1, <2>3, <2>4, TGoto
<1> QED BY <1>1, <1>2

LEMMA TLeft ==
    ASSUME TInv, NEW k \in Coroutine, Left(k)
    PROVE  TInv'
<1>1. RoomT'
  BY DEF Left, clock, game, bets, TInv, RoomT, ClockOK, CrowdOK, OutcomeOK, FistsOK, Table, Books
<1>2. CASE task' = [j \in Coroutine |-> Idle]
  BY <1>1, <1>2, TIdle DEF TInv
<1>3. CASE Done(k)
  BY <1>1, <1>3, TDone
<1> QED BY <1>2, <1>3 DEF Left

LEMMA TTick ==
    ASSUME TInv, NEW k \in Coroutine, Tick(k)
    PROVE  TInv'
<1>1. Later \in 0..TimeCap
  BY GuessingAssumption DEF Later, TInv, RoomT, ClockOK
<1>2. UNCHANGED crowd /\ acct' = acct /\ acct' \in Books
  BY DEF Tick, TickBetStart, TickBetEnd, TickPunchesStart, TickPunchesEnd, TickWaitResult,
         TickIdle, TInv, RoomT
<1>3. CASE Stay(k)
  <2>1. ClockOK'
    BY <1>1, <1>3 DEF Stay, TInv, RoomT, ClockOK
  <2>2. RoomT'
    BY <1>2, <1>3, <2>1 DEF Stay, crowd, game, bets, TInv, RoomT, CrowdOK, OutcomeOK, FistsOK, Table
  <2> QED BY <1>3, <2>2, TStay DEF Stay
<1>4. CASE TickBetStart(k)
  BY <1>2, <1>4, TSteps, TEnds DEF TickBetStart
<1>5. CASE TickPunchesStart(k)
  BY <1>2, <1>5, TSteps, TEnds DEF TickPunchesStart
<1>6. CASE TickBetEnd(k)
  <2>1. UNCHANGED <<crowd, game>>
    BY <1>6 DEF TickBetEnd
  <2>2. CASE set_game_step(PUNCHES_START) /\ task' = task
    BY <1>2, <2>1, <2>2, TSteps, TEnds
  <2>3. CASE set_game_step(FLOW) /\ Goto(k, [Idle EXCEPT !.pc = "flow_db"])
    <3>1. ClockOK'
      BY <2>3, TSteps, StepSet
    <3>2. RoomT'
      BY <1>2, <2>1, <3>1 DEF crowd, game, bets, TInv, RoomT, CrowdOK, OutcomeOK, FistsOK, Table
    <3>3. PICK t : t = [Idle EXCEPT !.pc = "flow_db"]
      OBVIOUS
    <3>4. t \in Tasks /\ t.pc = "flow_db"
      BY <3>3, IdleFacts DEF Tasks, PC, TickPC
    <3>5. TaskT(t) /\ Goto(k, t)
      BY <2>3, <3>3, <3>4 DEF TaskT
    <3> QED BY <3>2, <3>5, TGoto
  <2> QED BY <1>6, <2>2, <2>3 DEF TickBetEnd
<1>7. CASE TickPunchesEnd(k) /\ ~Stay(k)
  <2>1. DrawFists(k, Players, Later) /\ Players \in SUBSET User
    BY <1>7 DEF TickPunchesEnd, Players, Bettors
  <2> QED BY <1>1, <1>2, <2>1, TDrawFists
<1>8. CASE TickWaitResult(k)
  <2>1. bet_data' = bet_data /\ lost' = lost /\ OutcomeOK'
    BY <1>8 DEF TickWaitResult, bets, TInv, RoomT, OutcomeOK
  <2>2. CASE punches' = None /\ set_game_step(PUNCHES_START) /\ task' = task
    <3>1. ClockOK' /\ FistsOK'
      BY <2>2, TSteps, StepSet DEF FistsOK
    <3>2. RoomT'
      BY <1>2, <2>1, <3>1, TStep DEF crowd
    <3> QED BY <2>2, <3>2, TStay
  <2>3. CASE game_step' = RESULT /\ game_time' = Later /\ CallResult(k, winner) /\ UNCHANGED punches
    <3>1. ClockOK' /\ FistsOK'
      BY <1>1, <2>3, TSteps DEF ClockOK, FistsOK, TInv, RoomT, Table
    <3>2. RoomT'
      BY <1>2, <2>1, <3>1, TStep DEF crowd
    <3> QED BY <2>3, <3>2, TCallResult
  <2> QED BY <1>8, <2>2, <2>3 DEF TickWaitResult
<1>9. CASE TickIdle(k)
  BY <1>3, <1>9 DEF TickIdle
<1> QED BY <1>3, <1>4, <1>5, <1>6, <1>7, <1>8, <1>9 DEF Tick

(* The type invariant of the guessing room, for any number of coroutines,    *)
(* any amounts and fists, whatever overlaps and whatever faults the account  *)
(* server has: no transfer makes a balance negative.                         *)
THEOREM GuessTypeCorrect == Spec => []TypeOK
<1>1. Init => TInv
  <2> SUFFICES ASSUME Init PROVE TInv
    OBVIOUS
  <2>1. GInv
    BY InitG
  <2>2. \A k \in Coroutine : task[k] = Idle
    BY DEF Init
  <2> QED BY <2>1, <2>2, TIdle, TypesOK DEF TInv, RoomT
<1>2. TInv /\ [Next]_vars => TInv'
  <2> SUFFICES ASSUME TInv, [Next]_vars PROVE TInv'
    OBVIOUS
  <2>1. CASE UNCHANGED vars
    <3>1. RoomT'
      BY <2>1, TSame DEF vars, clock, crowd, game, bets
    <3> QED BY <2>1, <3>1, TStay DEF vars
  <2>2. ASSUME NEW k \in Coroutine, Continue(k) PROVE TInv'
    BY <2>2, TBetQueried, TBetFrozen, TSaved, TFistSaved, TSettled, TFlowSaved, TLeft DEF Continue
  <2>3. CASE Next
    BY <2>2, <2>3, TBetting, TPunch, TQuitGame, TCrowd, TTick DEF Next
  <2> QED BY <2>1, <2>3
<1>3. TInv => TypeOK
  BY DEF TInv, RoomT, TypeOK, ClockOK, CrowdOK, OutcomeOK, FistsOK, Table, Books
<1> QED BY <1>1, <1>2, <1>3, PTL DEF Spec
=============================================================================

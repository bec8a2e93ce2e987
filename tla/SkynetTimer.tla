----------------------------- MODULE SkynetTimer -----------------------------
(***************************************************************************)
(* The timing wheel of skynet_timer.c: timers that are due within the      *)
(* current block of TIME_NEAR ticks are in near[], the others in one of    *)
(* four levels of TIME_LEVEL lists, and are moved down when the clock      *)
(* reaches their block.  The clock wraps around after the block of level 4 *)
(* (2^32 ticks).  The sizes are powers of two in the code, so that its     *)
(* masks and shifts are remainders and quotients.                          *)
(* Services add timers under the spinlock; the timer thread gives the lock *)
(* up while it sends the messages of a list.                               *)
(***************************************************************************)
EXTENDS Integers, Sequences, SequencesExt

CONSTANTS
    Node,        \* timers; one that fired may be added again
    TIME_NEAR,   \* lists of near
    TIME_LEVEL,  \* lists of a level
    MaxDelay,    \* bound: longest delay asked for
    MaxDiff      \* bound: ticks that one poll of the clock finds

(* How many ticks a block is long: TIME_NEAR, and on each level TIME_LEVEL  *)
(* of the blocks below.                                                     *)
Block(i) ==
    LET N == TIME_NEAR  L == TIME_LEVEL
    IN  <<N, N * L, N * L * L, N * L * L * L, N * L * L * L * L>>[i + 1]
Wrap == Block(4)

ASSUME TimerAssumption ==
    /\ TIME_NEAR \in Nat \ {0, 1} /\ TIME_LEVEL \in Nat \ {0, 1}
    /\ MaxDelay \in Nat \ {0} /\ 2 * MaxDelay < Wrap /\ MaxDiff \in Nat

VARIABLES
    time,     \* T->time
    near,     \* T->near
    far,      \* T->t, by <<level, idx>>
    expire,   \* of each node
    list,     \* what dispatch_list has still to send
    tpc,      \* timer_update: "rest", "exec0" or "exec1"
    todo,     \* ticks that skynet_updatetime has still to run
    line,     \* the nodes in the wheel, in the order they were added
    left      \* of each node, the ticks until it is due

timerVars == <<time, near, far, expire, list, tpc, todo, line, left>>

Level == 0..3

TimerInit ==
    /\ time = 0
    /\ near = [i \in 0..(TIME_NEAR - 1) |-> << >>]
    /\ far = [p \in Level \X (0..(TIME_LEVEL - 1)) |-> << >>]
    /\ expire = [n \in Node |-> 0]
    /\ list = << >> /\ tpc = "rest" /\ todo = 0
    /\ line = << >> /\ left = [n \in Node |-> 0]

(* Equal but for the bits below a block's size: the same block of level i. *)
SameBlock(a, c, i) == a \div Block(i) = c \div Block(i)

(* The list of level i for time e. *)
Index(e, i) == (e \div Block(i)) % TIME_LEVEL

Wheel == [near |-> near, far |-> far]

(* The first level whose list of blocks holds both times. *)
LevelOf(e, now) ==
    IF \E j \in 0..2 : SameBlock(e, now, j + 1)
      THEN CHOOSE j \in 0..2 : SameBlock(e, now, j + 1) /\ \A k \in 0..(j - 1) : ~SameBlock(e, now, k + 1)
      ELSE 3

(* add_node: near, or one of the levels. *)
Place(w, n, e, now) ==
    IF SameBlock(e, now, 0)
      THEN [w EXCEPT !.near[e % TIME_NEAR] = Append(@, n)]
      ELSE [w EXCEPT !.far[<<LevelOf(e, now), Index(e, LevelOf(e, now))>>] = Append(@, n)]

(* Mutant of MoveList: the list is walked from its tail. *)
MoveListReversed(w, level, idx, now) ==
    LET l == Reverse(w.far[<<level, idx>>])
        f[k \in 0..Len(l)] == IF k = 0 THEN [w EXCEPT !.far[<<level, idx>>] = << >>]
                              ELSE Place(f[k - 1], l[k], expire[l[k]], now)
    IN  f[Len(l)]

(* move_list: empty one list and add its nodes again, in their order. *)
MoveList(w, level, idx, now) ==
    LET l == w.far[<<level, idx>>]
        f[k \in 0..Len(l)] == IF k = 0 THEN [w EXCEPT !.far[<<level, idx>>] = << >>]
                              ELSE Place(f[k - 1], l[k], expire[l[k]], now)
    IN  f[Len(l)]

(* At time ct a block of level i starts which is not the first of its list. *)
Starts(ct, i) == ct % Block(i) = 0 /\ Index(ct, i) # 0

(* Mutant of Shifted: the wrap of the clock moves nothing. *)
ShiftedNoWrap(w, ct) ==
    IF \E i \in Level : Starts(ct, i)
      THEN LET i == CHOOSE j \in Level : Starts(ct, j)
           IN  MoveList(w, i, Index(ct, i), ct)
      ELSE w

(* timer_shift at the new time ct: at a block's start, the lowest level     *)
(* whose index is not 0 is moved down; at time 0, the last level's list 0.  *)
Shifted(w, ct) ==
    IF ct = 0 THEN MoveList(w, 3, 0, ct)
    ELSE IF \E i \in Level : Starts(ct, i)
      THEN LET i == CHOOSE j \in Level : Starts(ct, j)
           IN  MoveList(w, i, Index(ct, i), ct)
      ELSE w

(* skynet_timeout, timer_add with a delay above 0 (others bypass the wheel). *)
TimerAdd(n, d) ==
    /\ n \notin Range(line) \cup Range(list)
    /\ LET e == (d + time) % Wrap
           w == Place(Wheel, n, e, time)
       IN  /\ expire' = [expire EXCEPT ![n] = e]
           /\ near' = w.near /\ far' = w.far
    /\ line' = Append(line, n)
    /\ left' = [left EXCEPT ![n] = d]
    /\ UNCHANGED <<time, list, tpc, todo>>

(* skynet_updatetime: the monotonic clock moved by diff ticks. *)
UpdateTime(diff) ==
    /\ tpc = "rest" /\ todo = 0
    /\ todo' = diff
    /\ UNCHANGED <<time, near, far, expire, list, tpc, line, left>>

(* The nodes of l that are not in S, in their order. *)
Others(l, S) ==
    LET f[i \in 0..Len(l)] ==
          IF i = 0 THEN << >> ELSE IF l[i] \in S THEN f[i - 1] ELSE Append(f[i - 1], l[i])
    IN  f[Len(l)]

(* timer_execute up to the unlock: the whole list of this tick is taken. *)
Take(w, now) ==
    LET l == w.near[now % TIME_NEAR]
    IN  /\ list' = l
        /\ near' = [w.near EXCEPT ![now % TIME_NEAR] = << >>]
        /\ far' = w.far
        /\ line' = Others(line, Range(l))

(* The first timer_execute of timer_update, for timeouts of 0 ticks. *)
UpdateStart ==
    /\ tpc = "rest" /\ todo > 0
    /\ Take(Wheel, time)
    /\ tpc' = "exec0"
    /\ todo' = todo - 1
    /\ UNCHANGED <<time, expire, left>>

(* The list of this tick is empty: timer_shift, then timer_execute. *)
UpdateShift ==
    /\ tpc = "exec0" /\ list = << >>
    /\ IF near[time % TIME_NEAR] # << >>
         THEN Take(Wheel, time) /\ UNCHANGED <<time, left, tpc>>
         ELSE LET ct == (time + 1) % Wrap IN
              /\ time' = ct
              /\ Take(Shifted(Wheel, ct), ct)
              /\ left' = [n \in Node |-> IF n \in Range(line) THEN left[n] - 1 ELSE left[n]]
              /\ tpc' = "exec1"
    /\ UNCHANGED <<expire, todo>>

(* timer_execute loops until the list of this tick stays empty. *)
UpdateEnd ==
    /\ tpc = "exec1" /\ list = << >>
    /\ IF near[time % TIME_NEAR] # << >>
         THEN Take(Wheel, time) /\ UNCHANGED tpc
         ELSE tpc' = "rest" /\ UNCHANGED <<near, far, list, line>>
    /\ UNCHANGED <<time, expire, todo, left>>

(* dispatch_list sends the message of one node, without the lock. *)
DispatchOne ==
    /\ list # << >>
    /\ list' = Tail(list)
    /\ expire' = [expire EXCEPT ![Head(list)] = 0]
    /\ UNCHANGED <<time, near, far, tpc, todo, line, left>>

TimerNext ==
    \/ \E n \in Node, d \in 1..MaxDelay : TimerAdd(n, d)
    \/ \E diff \in 1..MaxDiff : UpdateTime(diff)
    \/ UpdateStart \/ UpdateShift \/ UpdateEnd \/ DispatchOne

TimerSpec == TimerInit /\ [][TimerNext]_timerVars

-----------------------------------------------------------------------------
(* Every variable has its type: the clock and the expiry stay 32 bits wide. *)
TimerTypeOK ==
    /\ time \in 0..(Wrap - 1)
    /\ near \in [0..(TIME_NEAR - 1) -> Seq(Node)]
    /\ far \in [Level \X (0..(TIME_LEVEL - 1)) -> Seq(Node)]
    /\ expire \in [Node -> 0..(Wrap - 1)]
    /\ list \in Seq(Node) /\ tpc \in {"rest", "exec0", "exec1"}
    /\ todo \in 0..MaxDiff /\ line \in Seq(Node) /\ left \in [Node -> Int]

(* timer_shift, timer_execute: a timer is sent in the tick it is due, not   *)
(* one tick before or after, whatever level it was in and when the clock    *)
(* wraps around.                                                            *)
FiresOnTime ==
    /\ \A n \in Range(list) : left[n] = 0
    /\ \A n \in Range(line) : left[n] > 0

(* link, move_list: timers due in the same tick are sent in the order they  *)
(* were added, although they went through different lists.                  *)
FiresInOrder ==
    [][\A i \in DOMAIN list' :
          list = << >> => \A j \in 1..(i - 1) :
              \E a, b \in DOMAIN line : a < b /\ line[a] = list'[j] /\ line[b] = list'[i]]_timerVars
=============================================================================

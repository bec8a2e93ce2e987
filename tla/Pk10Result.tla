----------------------------- MODULE Pk10Result -----------------------------
(***************************************************************************)
(* The pay-out of a pk10 round, getResult of pk10/poker_utils.lua.  The    *)
(* draw ranks the doors; no two are equal, since the ten numbers differ.   *)
(* With a banker every door wins or loses against his seat.  Without one   *)
(* the doors play against each other: from the best door down, each takes  *)
(* its own bet from the worse doors, the worst one first.  What a door     *)
(* wins or loses is divided among its bettors by their bets, cut to cents. *)
(*                                                                         *)
(* Bets are in coins, changes in cents.                                    *)
(***************************************************************************)
EXTENDS Integers, Sequences, FiniteSets, FiniteSetsExt, SequencesExt, Functions

CONSTANTS
    Gambler,
    DoorCount,      \* get_seat_count: 5 or 2
    Amounts,        \* of bets
    MaxDoorBets,    \* bound: bets of a round
    BankerCoins     \* bankerGameCoin, if there is a banker

ASSUME PayAssumption == DoorCount \in Nat \ {0, 1} /\ BankerCoins \in Nat /\ Amounts \subseteq Nat \ {0}

Door == 1..DoorCount
Unset == -1

VARIABLES
    seat,           \* banker_seat; 0: no banker
    bets,           \* bet_door_data: coins of each gambler on each door
    order,          \* the doors, best first; <<>>: no draw yet
    at,             \* the position of the door to be settled
    remain,         \* remain_total_bet of each door
    doorChange,     \* coin_change of the doors settled, in coins
    userChange,     \* of the gamblers, in cents
    bankerChange,   \* of the banker, in coins
    impossible      \* the assertion "gained more than was bet" has failed

payVars == <<seat, bets, order, at, remain, doorChange, userChange, bankerChange, impossible>>

PayInit ==
    /\ seat = 0
    /\ bets = [d \in Door |-> [u \in Gambler |-> 0]]
    /\ order = <<>> /\ at = 0 /\ remain = [d \in Door |-> Unset]
    /\ doorChange = [d \in Door |-> 0] /\ userChange = [u \in Gambler |-> 0]
    /\ bankerChange = 0 /\ impossible = FALSE

Total(d) == SumFunction(bets[d])
Placed == {<<d, u>> \in Door \X Gambler : bets[d][u] > 0}
PlayDoors == {d \in Door : Total(d) > 0}

-----------------------------------------------------------------------------
(* rob_banker: the dice give the banker his seat. *)
BankerSeat(s) ==
    /\ order = <<>> /\ Placed = {} /\ seat = 0 /\ seat' = s
    /\ UNCHANGED <<bets, order, at, remain, doorChange, userChange, bankerChange, impossible>>

(* get_average_bet_value_list: what may be bet on a door against a banker. *)
Average == BankerCoins \div (DoorCount - 1)

(* beter.  bound: one bet of a gambler on a door; several would be added. *)
PlaceBet(u, d, v) ==
    /\ order = <<>> /\ bets[d][u] = 0 /\ Cardinality(Placed) < MaxDoorBets
    /\ seat # 0 => d # seat /\ Total(d) + v <= Average
    /\ bets' = [bets EXCEPT ![d][u] = v]
    /\ UNCHANGED <<seat, order, at, remain, doorChange, userChange, bankerChange, impossible>>

(* The draw ranks the doors by point and highest number. *)
Kaijiang(ranking) ==
    /\ order = <<>> /\ order' = ranking /\ at' = 1
    /\ UNCHANGED <<seat, bets, remain, doorChange, userChange, bankerChange, impossible>>

(* With a banker: the doors ranked before his seat win their bets.          *)
PayBanker ==
    LET beats(d) == \E i, j \in Door : i < j /\ order[i] = d /\ order[j] = seat
        sign(d) == IF beats(d) THEN 1 ELSE -1
    IN /\ order # <<>> /\ seat # 0 /\ at = 1 /\ at' = DoorCount + 1
       /\ doorChange' = [d \in Door |-> IF d = seat THEN 0 ELSE sign(d) * Total(d)]
       /\ userChange' = [u \in Gambler |->
                            SumFunction([d \in Door \ {seat} |-> sign(d) * bets[d][u] * 100])]
       /\ bankerChange' = -SumFunction(doorChange')
       /\ UNCHANGED <<seat, bets, order, remain, impossible>>

(* The door at position i goes through the doors from the worst, j: it has  *)
(* `left` of its bet to win back and has gained `gain`.                     *)
RECURSIVE TakeFrom(_, _, _, _, _)
TakeFrom(i, j, left, gain, rem) ==
    IF j = 0 THEN [gain |-> gain, left |-> left, remain |-> rem]
    ELSE LET d == order[j]
             r == IF rem[d] = Unset THEN Total(d) ELSE rem[d]
         IN IF left > 0 /\ r > 0 /\ i < j
              THEN IF left > r THEN TakeFrom(i, j - 1, left - r, gain + r, [rem EXCEPT ![d] = 0])
                   ELSE [gain |-> gain + left, left |-> 0, remain |-> [rem EXCEPT ![d] = r - left]]
              ELSE TakeFrom(i, j - 1, left, gain, [rem EXCEPT ![d] = r])

(* What the door has gained, or else what better doors have taken from it. *)
DoorCoinChange(d, r) ==
    IF r.gain # 0 THEN r.gain
    ELSE IF r.remain[d] \in {0, Unset} THEN -r.left ELSE -(r.left - r.remain[d])

(* What bettor u of door d gets, in cents.  Which bettor is `last` depends  *)
(* on the order of pairs().  The quotient is computed in floating point: an *)
(* exact one may lose a cent (`cut`).                                       *)
Quotient(d, change, u, cut) ==
    LET n == change * 100 * bets[d][u]
    IN n \div Total(d) - IF cut[u] /\ change # 0 /\ n % Total(d) = 0 THEN 1 ELSE 0

(* Mutant of BetShare: the last bettor is paid like the others. *)
BetShareAll(d, change, last, u, cut) ==
    IF Total(d) = change THEN bets[d][u] * 100
    ELSE IF Total(d) = -change THEN -bets[d][u] * 100
    ELSE (change * 100 * bets[d][u]) \div Total(d)

BetShare(d, change, last, u, cut) ==
    IF Total(d) = change THEN bets[d][u] * 100
    ELSE IF Total(d) = -change THEN -bets[d][u] * 100
    ELSE IF u # last THEN Quotient(d, change, u, cut)
    ELSE change * 100 - SumFunction([v \in {w \in Gambler : bets[d][w] > 0} \ {u} |->
                                       Quotient(d, change, v, cut)])

(* Without a banker: one turn of the loop over the doors, if more than one   *)
(* was bet on.                                                               *)
PayDoor ==
    LET d == order[at]
        bettors == {u \in Gambler : bets[d][u] > 0}
        r == TakeFrom(at, DoorCount, Total(d), 0, remain)
        change == DoorCoinChange(d, r)
    IN /\ order # <<>> /\ seat = 0 /\ at \in Door /\ Cardinality(PlayDoors) > 1
       /\ at' = at + 1
       /\ remain' = [r.remain EXCEPT ![d] = IF @ = Unset THEN Total(d) ELSE @]
       /\ doorChange' = [doorChange EXCEPT ![d] = change]
       /\ impossible' = (impossible \/ (bettors # {} /\ Total(d) < change))
       /\ IF bettors = {} \/ Total(d) < change \/ Total(d) < -change THEN UNCHANGED userChange
          ELSE \E last \in bettors, cut \in [bettors -> BOOLEAN] :
                 userChange' = [u \in Gambler |->
                    IF u \in bettors THEN userChange[u] + BetShare(d, change, last, u, cut)
                                     ELSE userChange[u]]
       /\ UNCHANGED <<seat, bets, order, bankerChange>>

(* One round: rounds share nothing of this. *)
PayNext ==
    \/ \E u \in Gambler, d \in Door, v \in Amounts : PlaceBet(u, d, v)
    \/ \E s \in Door : BankerSeat(s)
    \/ \E ranking \in SetToSeqs(Door) : Kaijiang(ranking)
    \/ PayBanker \/ PayDoor

PaySpec == PayInit /\ [][PayNext]_payVars

-----------------------------------------------------------------------------
(* Types. *)
PayTypeOK ==
    /\ seat \in 0..DoorCount /\ at \in 0..(DoorCount + 1)
    /\ \A d \in Door : remain[d] \in {Unset} \cup 0..Total(d)
    /\ \A d \in Door : doorChange[d] \in (-Total(d))..Total(d)

Before(i) == SumFunction([k \in 1..(i - 1) |-> Total(order[k])])
Below(i) == SumFunction([k \in (i + 1)..DoorCount |-> Total(order[k])])
Clamp(x, hi) == IF x < 0 THEN 0 ELSE IF x > hi THEN hi ELSE x

(* What the doors should win and lose.  The better doors win from the worst  *)
(* ones upwards: a door wins its bet as far as the bets below it exceed those *)
(* above it, and loses what all gains take beyond the bets below it.          *)
Gain(i) == Clamp(Below(i) - Before(i), Total(order[i]))
Loss(i) == Clamp(SumFunction([k \in Door |-> Gain(k)]) - Below(i), Total(order[i]))

(* The loop over the doors, with its remainders and its three comparisons,   *)
(* computes exactly these gains and losses, and never the gain above the bet *)
(* that its assertion calls impossible.                                      *)
DoorsMatchReference ==
    /\ ~impossible
    /\ seat = 0 /\ at > 1 => \A i \in 1..(at - 1) : doorChange[order[i]] = Gain(i) - Loss(i)

(* Cutting shares to cents loses and creates nothing: what gamblers and      *)
(* banker win is what gamblers and banker lose, to the cent.                 *)
PaidIsLost ==
    at = DoorCount + 1 => SumFunction(userChange) + 100 * bankerChange = 0

(* Nobody loses more than was frozen for it: a gambler his bets, the banker  *)
(* his coins.                                                                *)
LossWithinFrozen ==
    /\ \A u \in Gambler : userChange[u] >= -100 * SumFunction([d \in Door |-> bets[d][u]])
    /\ bankerChange >= -BankerCoins

(* Door by door and gambler by gambler the pay-out is exact and covered.     *)
PayoutExact == DoorsMatchReference /\ PaidIsLost /\ LossWithinFrozen
=============================================================================

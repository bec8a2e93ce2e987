----------------------------- MODULE CowResult -----------------------------
(***************************************************************************)
(* hongbao/poker_utils.lua: the class of a packet and what a bet pays.     *)
(*                                                                         *)
(* A packet is an amount in cents; the source keeps it as the text "%0.2f" *)
(* and looks at the last four characters of that text, that is, at the     *)
(* amount modulo 1000.  Coins are counted in halves, because point bets    *)
(* pay 8.5 to one and a losing size bet may cost half of its value.        *)
(***************************************************************************)
EXTENDS Integers

(* Bet types: cow doubled, cow single, size and parity (dxds), point. *)
DOUBLE == 1
SINGLE == 2
DXDS   == 3
POINT  == 4

(* sub_type is not used by the cow games (0), it is, 1..9 for DXDS, 1..10 for POINT. *)
Bet == [type : {DOUBLE, SINGLE}, sub_type : {0}, value : Nat \ {0}]
         \cup [type : {DXDS}, sub_type : 1..9, value : Nat \ {0}]
         \cup [type : {POINT}, sub_type : 1..10, value : Nat \ {0}]

-----------------------------------------------------------------------------
(* The class of a packet.                                                  *)

LastThree(c) == c % 1000
DigitSum(m) == (m \div 100) + ((m \div 10) % 10) + (m % 10)

(* The special classes, by the amounts their tables list. *)
baozi     == {111 * i : i \in 1..9}
manniu    == {100 * i : i \in 1..9}
daoshun   == {111 * i + 210 : i \in 1..7}
zhengshun == {111 * i + 12 : i \in 1..7}
duizi     == {11 * i : i \in 1..9}
jinniu    == {10 * i : i \in 1..9}

niuniu(m) == IF DigitSum(m) % 10 = 0 THEN 10 ELSE DigitSum(m) % 10

(* getCowData lists the classes of a packet, tried in this order; only the *)
(* first one is ever looked at, since a plain packet has no other.         *)
PointType(c) ==
    LET m == LastThree(c)
    IN  IF m \in baozi          THEN 16
        ELSE IF m \in manniu    THEN 15
        ELSE IF m \in daoshun   THEN 14
        ELSE IF m \in zhengshun THEN 13
        ELSE IF m \in duizi     THEN 12
        ELSE IF m \in jinniu    THEN 11
        ELSE niuniu(m)

(* The list is empty, and reading its first entry raises an error, when no *)
(* table matches and the digits sum to zero.                               *)
Classified(c) == LastThree(c) # 0

(* getSizeDanShuangData: the size and parity types of a point; the special *)
(* classes are "he", which hides the others.                               *)
DxdsPoints == << {1, 2, 3, 4, 5}, {6, 7, 8, 9, 10}, {1, 3, 5, 7, 9}, {2, 4, 6, 8, 10},
                 {1, 3, 5}, {7, 9}, {2, 4}, {6, 8, 10} >>
HE == 9
DxdsTypes(p) == IF p >= 11 THEN {HE} ELSE {d \in 1..8 : p \in DxdsPoints[d]}

-----------------------------------------------------------------------------
(* Rates, in halves.                                                       *)

getRate(type, p) ==
    IF type = DOUBLE      THEN IF p <= 5 THEN 10 ELSE 2 * p
    ELSE IF type = SINGLE THEN 2
    ELSE IF type = DXDS   THEN <<2, 2, 2, 2, 4, 8, 8, 4, 10>>[p]
    ELSE 17

getMaxRate(type) == <<32, 2, 10, 17>>[type]

(* logic.beter: what a bet may cost the banker and the bettor. *)
BankerReduceCoin(b) ==
    b.value * (IF b.type = DXDS THEN getRate(DXDS, b.sub_type) ELSE getMaxRate(b.type))
GameCoin(b) == b.value * (IF b.type = DOUBLE THEN getMaxRate(DOUBLE) ELSE 2)

-----------------------------------------------------------------------------
(* getResult: what one bet brings its bettor.                              *)

(* Against the banker the higher class wins, then the higher amount; a     *)
(* bettor with point one or two never wins.                                *)
BankerWins(bankerPacket, packet) ==
    LET mine == PointType(packet)
        his  == PointType(bankerPacket)
    IN  his > mine \/ mine \in {1, 2} \/ (his = mine /\ bankerPacket > packet)

(* A loser of a doubled bet pays the banker's rate, a winner gets his own. *)
CowCoin(b, bankerPacket, packet) ==
    IF BankerWins(bankerPacket, packet) THEN - b.value * getRate(b.type, PointType(bankerPacket))
    ELSE IF bankerPacket = packet THEN 0
    ELSE b.value * getRate(b.type, PointType(packet))

(* A bet on a point wins on that point; every special class loses. *)
PointCoin(b, packet) ==
    IF PointType(packet) <= 10 /\ b.sub_type = PointType(packet)
      THEN b.value * getRate(POINT, b.sub_type)
      ELSE - 2 * b.value

(* A bet on a size or parity; against "he" a loser pays half. *)
DxdsCoin(b, packet) ==
    LET types == DxdsTypes(PointType(packet))
    IN  IF b.sub_type \in types THEN b.value * getRate(DXDS, b.sub_type)
        ELSE IF HE \in types THEN - b.value ELSE - 2 * b.value

BetCoin(b, bankerPacket, packet) ==
    IF b.type \in {DOUBLE, SINGLE} THEN CowCoin(b, bankerPacket, packet)
    ELSE IF b.type = POINT THEN PointCoin(b, packet)
    ELSE DxdsCoin(b, packet)
=============================================================================

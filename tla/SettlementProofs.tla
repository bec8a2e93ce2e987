-------------------------- MODULE SettlementProofs --------------------------
(****************************************************************************)
(* What the pay-outs of hongbao satisfy for every packet and every bet, and *)
(* for any number of bettors and bets; and that the packets of a red packet *)
(* add up to its cents, for every number of packets and every draw.         *)
(****************************************************************************)
EXTENDS Settlement, RedPacket, SequenceTheorems, DataTheorems

(* Every packet with a class has one of the sixteen (poker_utils.getCowData). *)
LEMMA PointTypeRange ==
    ASSUME NEW c \in Nat, Classified(c)
    PROVE  PointType(c) \in 1..16
<1> DEFINE m == LastThree(c)
<1>1. m \in 1..999
  BY DEF Classified, LastThree
<1>2. niuniu(m) \in 1..10
  <2>1. DigitSum(m) \in Nat
    <3>1. m \div 100 \in Nat /\ m \div 10 \in Nat
      BY <1>1
    <3>2. (m \div 10) % 10 \in Nat /\ m % 10 \in Nat
      BY <1>1, <3>1
    <3> QED BY <3>1, <3>2 DEF DigitSum
  <2>2. DigitSum(m) % 10 \in 0..9
    BY <2>1
  <2> QED BY <2>2 DEF niuniu
<1> QED BY <1>2 DEF PointType

(* The doubled rate of a class lies between 5 and 16 to one (getRate). *)
LEMMA DoubleRate ==
    ASSUME NEW p \in 1..16
    PROVE  getRate(DOUBLE, p) \in 10..32 /\ getRate(SINGLE, p) = 2
BY DEF getRate, DOUBLE, SINGLE, DXDS, POINT

(* The rate of a packet of class DXDS. *)
LEMMA DxdsRate ==
    ASSUME NEW d \in 1..9
    PROVE  getRate(DXDS, d) \in 2..10
BY DEF getRate, DOUBLE, SINGLE, DXDS, POINT

(* Products with a common factor are ordered as the other factors are. *)
LEMMA Scale ==
    ASSUME NEW v \in Nat, NEW r \in Int, NEW s \in Int, r <= s
    PROVE  v * r \in Int /\ v * r <= v * s
OBVIOUS

(* A bet costs its bettor no more than what was frozen for it and costs the *)
(* banker no more than what was pledged for it, whatever packets are dealt: *)
(* getResult stays within the bounds that logic.beter checked.              *)
THEOREM CoinWithinPledge ==
    ASSUME NEW b \in Bet, NEW bankerPacket \in Nat, NEW packet \in Nat,
           Classified(bankerPacket), Classified(packet)
    PROVE  /\ - GameCoin(b) <= BetCoin(b, bankerPacket, packet)
           /\ BetCoin(b, bankerPacket, packet) <= BankerReduceCoin(b)
<1>0. /\ b.type \in {1, 2, 3, 4} /\ b.value \in Nat
      /\ b.type = 3 => b.sub_type \in 1..9
      /\ b.type = 4 => b.sub_type \in 1..10
  BY DEF Bet, DOUBLE, SINGLE, DXDS, POINT
<1>1. PointType(bankerPacket) \in 1..16 /\ PointType(packet) \in 1..16
  BY PointTypeRange
<1>2. CASE b.type = 1
  <2> DEFINE win  == b.value * getRate(1, PointType(packet))
             lose == b.value * getRate(1, PointType(bankerPacket))
  <2>1. /\ getRate(1, PointType(packet)) \in 10..32
        /\ getRate(1, PointType(bankerPacket)) \in 10..32
    BY <1>1, DoubleRate DEF DOUBLE
  <2>2. win \in 0..(b.value * 32) /\ lose \in 0..(b.value * 32)
    BY <1>0, <2>1, Scale
  <2>3. CowCoin(b, bankerPacket, packet) \in {win, - lose, 0}
    <3>1. - b.value * getRate(1, PointType(bankerPacket)) = - lose
      BY <1>0, <2>1
    <3> QED BY <1>2, <1>1, <3>1 DEF CowCoin
  <2>4. GameCoin(b) = b.value * 32 /\ BankerReduceCoin(b) = b.value * 32
    BY <1>2 DEF GameCoin, BankerReduceCoin, getMaxRate, DOUBLE, SINGLE, DXDS, POINT
  <2>5. BetCoin(b, bankerPacket, packet) = CowCoin(b, bankerPacket, packet)
    BY <1>2 DEF BetCoin, DOUBLE, SINGLE, DXDS, POINT
  <2> HIDE DEF win, lose
  <2> QED BY <1>0, <2>2, <2>3, <2>4, <2>5
<1>3. CASE b.type = 2
  <2> DEFINE win == b.value * 2
  <2>1. getRate(2, PointType(packet)) = 2 /\ getRate(2, PointType(bankerPacket)) = 2
    BY <1>1, DoubleRate DEF SINGLE
  <2>2. CowCoin(b, bankerPacket, packet) \in {win, - win, 0}
    <3>1. - b.value * 2 = - win
      BY <1>0
    <3> QED BY <1>3, <1>1, <2>1, <3>1 DEF CowCoin
  <2>3. GameCoin(b) = win /\ BankerReduceCoin(b) = win
    BY <1>3 DEF GameCoin, BankerReduceCoin, getMaxRate, DOUBLE, SINGLE, DXDS, POINT
  <2>4. BetCoin(b, bankerPacket, packet) = CowCoin(b, bankerPacket, packet)
    BY <1>3 DEF BetCoin, DOUBLE, SINGLE, DXDS, POINT
  <2>5. win \in Nat
    BY <1>0
  <2> HIDE DEF win
  <2> QED BY <2>2, <2>3, <2>4, <2>5
<1>4. CASE b.type = 3
  <2>1. getRate(3, b.sub_type) \in 2..10
    BY <1>0, <1>4, DxdsRate DEF DXDS
  <2>2. BetCoin(b, bankerPacket, packet) = DxdsCoin(b, packet)
    BY <1>4 DEF BetCoin, DOUBLE, SINGLE, DXDS, POINT
  <2>3. DxdsCoin(b, packet) \in {b.value * getRate(3, b.sub_type), - b.value, - 2 * b.value}
    BY <1>4 DEF DxdsCoin, DXDS
  <2>4. GameCoin(b) = b.value * 2 /\ BankerReduceCoin(b) = b.value * getRate(3, b.sub_type)
    BY <1>4 DEF GameCoin, BankerReduceCoin, DOUBLE, DXDS
  <2>5. b.value * getRate(3, b.sub_type) \in Nat
    BY <1>0, <2>1
  <2> QED BY <1>0, <2>2, <2>3, <2>4, <2>5
<1>5. CASE b.type = 4
  <2>1. BetCoin(b, bankerPacket, packet) = PointCoin(b, packet)
    BY <1>5 DEF BetCoin, DOUBLE, SINGLE, DXDS, POINT
  <2>2. PointCoin(b, packet) \in {b.value * 17, - 2 * b.value}
    BY <1>5 DEF PointCoin, getRate, DOUBLE, SINGLE, DXDS, POINT
  <2>3. GameCoin(b) = b.value * 2 /\ BankerReduceCoin(b) = b.value * 17
    BY <1>5 DEF GameCoin, BankerReduceCoin, getMaxRate, DOUBLE, SINGLE, DXDS, POINT
  <2> QED BY <1>0, <2>1, <2>2, <2>3
<1> QED BY <1>0, <1>2, <1>3, <1>4, <1>5

-----------------------------------------------------------------------------
(* Settlement                                                              *)

(* What the bets of a member may cost him, and the banker. *)
Risk(u) == SumFunction([i \in DOMAIN bet_data[u] |-> GameCoin(bet_data[u][i])])
Pledge(u) == SumFunction([i \in DOMAIN bet_data[u] |-> BankerReduceCoin(bet_data[u][i])])

(* The inductive invariant: the frozen coins are the risks, what is left of  *)
(* the stake is what is not pledged, and the packets and results belong to   *)
(* the bettors.                                                              *)
Pledges ==
    /\ bet_data \in [Bettor -> Seq(Bet)]
    /\ \A u \in Bettor : \A i, j \in DOMAIN bet_data[u] :
         bet_data[u][i].type = bet_data[u][j].type
    /\ frozen = [u \in Bettor |-> Risk(u)]
    /\ bankerSurplusCoin \in Nat
    /\ SumFunction([u \in Bettor |-> Pledge(u)]) = Stake - bankerSurplusCoin
Stages ==
    /\ state \in {"bet", "dealt", "settled", "raised"}
    /\ packets.banker \in Nat /\ packets.user \in [DOMAIN packets.user -> Nat]
    /\ state # "bet" => DOMAIN packets.user = Bettors
    /\ IF state = "settled" THEN AllClassified /\ result = [u \in Bettors |-> CoinChange(u)]
       ELSE result = << >>
SettleInv == Pledges /\ Stages

(* The pledges for a bet are natural numbers (logic.beter). *)
LEMMA PledgeTypes ==
    ASSUME NEW b \in Bet
    PROVE  GameCoin(b) \in Nat /\ BankerReduceCoin(b) \in Nat
<1>0. /\ b.type \in {1, 2, 3, 4} /\ b.value \in Nat
      /\ b.type = 3 => b.sub_type \in 1..9
  BY DEF Bet, DOUBLE, SINGLE, DXDS, POINT
<1>1. GameCoin(b) \in {b.value * 32, b.value * 2}
  BY <1>0 DEF GameCoin, getMaxRate, DOUBLE, SINGLE, DXDS, POINT
<1>2. b.type # 3 => BankerReduceCoin(b) \in {b.value * 32, b.value * 2, b.value * 17}
  BY <1>0 DEF BankerReduceCoin, getMaxRate, DOUBLE, SINGLE, DXDS, POINT
<1>3. b.type = 3 => BankerReduceCoin(b) = b.value * getRate(3, b.sub_type) /\ getRate(3, b.sub_type) \in 2..10
  BY <1>0, DxdsRate DEF BankerReduceCoin, DXDS
<1>4. \A r \in Nat : b.value * r \in Nat
  BY <1>0
<1> QED BY <1>1, <1>2, <1>3, <1>4

(* A bet pays a whole number of half coins. *)
LEMMA BetCoinType ==
    ASSUME NEW b \in Bet, NEW bankerPacket \in Nat, NEW packet \in Nat,
           Classified(bankerPacket), Classified(packet)
    PROVE  BetCoin(b, bankerPacket, packet) \in Int
<1>0. /\ b.type \in {1, 2, 3, 4} /\ b.value \in Nat
      /\ b.type = 3 => b.sub_type \in 1..9
      /\ b.type = 4 => b.sub_type \in 1..10
  BY DEF Bet, DOUBLE, SINGLE, DXDS, POINT
<1>1. PointType(bankerPacket) \in 1..16 /\ PointType(packet) \in 1..16
  BY PointTypeRange
<1>2. \A r \in Int : b.value * r \in Int /\ - b.value * r \in Int
  BY <1>0
<1>3. CASE b.type \in {1, 2}
  <2>1. getRate(b.type, PointType(packet)) \in Int /\ getRate(b.type, PointType(bankerPacket)) \in Int
    BY <1>1, <1>3, DoubleRate DEF DOUBLE, SINGLE
  <2>2. BetCoin(b, bankerPacket, packet) = CowCoin(b, bankerPacket, packet)
    BY <1>3 DEF BetCoin, DOUBLE, SINGLE
  <2>3. CowCoin(b, bankerPacket, packet) \in {b.value * getRate(b.type, PointType(packet)), 0,
                                              - b.value * getRate(b.type, PointType(bankerPacket))}
    BY DEF CowCoin
  <2> QED BY <1>2, <2>1, <2>2, <2>3
<1>4. CASE b.type = 3
  <2>1. getRate(3, b.sub_type) \in Int
    BY <1>0, <1>4, DxdsRate DEF DXDS
  <2>2. BetCoin(b, bankerPacket, packet) = DxdsCoin(b, packet)
    BY <1>4 DEF BetCoin, DOUBLE, SINGLE, DXDS, POINT
  <2>3. DxdsCoin(b, packet) \in {b.value * getRate(3, b.sub_type), - b.value, - 2 * b.value}
    BY <1>4 DEF DxdsCoin, DXDS
  <2> QED BY <1>0, <1>2, <2>1, <2>2, <2>3
<1>5. CASE b.type = 4
  <2>1. BetCoin(b, bankerPacket, packet) = PointCoin(b, packet)
    BY <1>5 DEF BetCoin, DOUBLE, SINGLE, DXDS, POINT
  <2>2. PointCoin(b, packet) \in {b.value * 17, - 2 * b.value}
    BY <1>5 DEF PointCoin, getRate, DOUBLE, SINGLE, DXDS, POINT
  <2> QED BY <1>0, <2>1, <2>2
<1> QED BY <1>0, <1>3, <1>4, <1>5

(* What the recorded bets pledge, for every member. *)
LEMMA PledgeSums ==
    ASSUME bet_data \in [Bettor -> Seq(Bet)], NEW u \in Bettor
    PROVE  /\ Risk(u) \in Nat /\ Pledge(u) \in Nat
           /\ u \notin Bettors => Risk(u) = 0 /\ Pledge(u) = 0
<1> DEFINE s == bet_data[u]
           f == [i \in DOMAIN s |-> GameCoin(s[i])]
           g == [i \in DOMAIN s |-> BankerReduceCoin(s[i])]
<1>1. s \in Seq(Bet) /\ DOMAIN s = 1..Len(s) /\ Len(s) \in Nat
  OBVIOUS
<1>2. IsFiniteSet(DOMAIN s)
  BY <1>1, FS_Interval
<1>3. \A i \in DOMAIN s : s[i] \in Bet
  BY <1>1
<1>4. \A i \in DOMAIN s : f[i] \in Nat /\ g[i] \in Nat
  BY <1>3, PledgeTypes
<1>5. DOMAIN f = DOMAIN s /\ DOMAIN g = DOMAIN s
  OBVIOUS
<1>6. Risk(u) = SumFunction(f) /\ Pledge(u) = SumFunction(g)
  BY DEF Risk, Pledge
<1>7. u \notin Bettors => DOMAIN s = {}
  BY <1>1 DEF Bettors
<1> HIDE DEF f, g, s
<1>8. SumFunctionOnSet(f, DOMAIN s) \in Nat /\ SumFunctionOnSet(g, DOMAIN s) \in Nat
  BY <1>2, <1>4, SumNat
<1>9. SumFunctionOnSet(f, {}) = 0 /\ SumFunctionOnSet(g, {}) = 0
  BY SumEmpty
<1> QED BY <1>5, <1>6, <1>7, <1>8, <1>9 DEF SumFunction

(* One more bet adds what it may cost (logic.beter). *)
LEMMA PledgeAppend ==
    ASSUME NEW s \in Seq(Bet), NEW b \in Bet
    PROVE  /\ SumFunction([i \in DOMAIN Append(s, b) |-> GameCoin(Append(s, b)[i])])
                = SumFunction([i \in DOMAIN s |-> GameCoin(s[i])]) + GameCoin(b)
           /\ SumFunction([i \in DOMAIN Append(s, b) |-> BankerReduceCoin(Append(s, b)[i])])
                = SumFunction([i \in DOMAIN s |-> BankerReduceCoin(s[i])]) + BankerReduceCoin(b)
<1> DEFINE n == Len(s)
           t == Append(s, b)
           f == [i \in DOMAIN s |-> GameCoin(s[i])]
           ff == [i \in DOMAIN t |-> GameCoin(t[i])]
           g == [i \in DOMAIN s |-> BankerReduceCoin(s[i])]
           gg == [i \in DOMAIN t |-> BankerReduceCoin(t[i])]
<1>1. /\ n \in Nat /\ DOMAIN s = 1..n /\ DOMAIN t = 1..(n + 1)
      /\ \A i \in 1..n : t[i] = s[i] /\ s[i] \in Bet
      /\ t[n + 1] = b
  OBVIOUS
<1>2. /\ DOMAIN f = 1..n /\ DOMAIN ff = 1..(n + 1) /\ DOMAIN g = 1..n /\ DOMAIN gg = 1..(n + 1)
  BY <1>1
<1>3. \A i \in 1..n : f[i] \in Nat /\ ff[i] = f[i] /\ g[i] \in Nat /\ gg[i] = g[i]
  BY <1>1, PledgeTypes
<1>4. ff[n + 1] = GameCoin(b) /\ gg[n + 1] = BankerReduceCoin(b)
  BY <1>1
<1>5. GameCoin(b) \in Nat /\ BankerReduceCoin(b) \in Nat
  BY PledgeTypes
<1> HIDE DEF n, f, ff, g, gg
<1>6. SumFunction(ff) = SumFunction(f) + ff[n + 1]
  <2>1. (\A i \in 1..n : f[i] \in Int /\ ff[i] = f[i]) /\ ff[n + 1] \in Int /\ n \in Nat
    BY <1>1, <1>3, <1>4, <1>5
  <2> QED BY <1>2, <2>1, SumExtend
<1>7. SumFunction(gg) = SumFunction(g) + gg[n + 1]
  <2>1. (\A i \in 1..n : g[i] \in Int /\ gg[i] = g[i]) /\ gg[n + 1] \in Int /\ n \in Nat
    BY <1>1, <1>3, <1>4, <1>5
  <2> QED BY <1>2, <2>1, SumExtend
<1> QED BY <1>4, <1>6, <1>7 DEF f, ff, g, gg

(* What a settlement brings a bettor lies between his risk and the pledge to *)
(* him (getResult).                                                           *)
LEMMA CoinChangeBounds ==
    ASSUME bet_data \in [Bettor -> Seq(Bet)], AllClassified, NEW u \in Bettors,
           packets.banker \in Nat, packets.user \in [DOMAIN packets.user -> Nat],
           DOMAIN packets.user = Bettors
    PROVE  /\ CoinChange(u) \in Int
           /\ - Risk(u) <= CoinChange(u)
           /\ CoinChange(u) <= Pledge(u)
<1> DEFINE s == bet_data[u]
           D == DOMAIN s
           c == [i \in D |-> BetCoin(s[i], packets.banker, packets.user[u])]
           f == [i \in D |-> GameCoin(s[i])]
           g == [i \in D |-> BankerReduceCoin(s[i])]
           h == [i \in D |-> c[i] + f[i]]
<1>1. u \in Bettor /\ s \in Seq(Bet)
  BY DEF Bettors
<1>2. D = 1..Len(s) /\ Len(s) \in Nat /\ \A i \in D : s[i] \in Bet
  BY <1>1
<1>3. IsFiniteSet(D)
  BY <1>2, FS_Interval
<1>4. packets.user[u] \in Nat /\ Classified(packets.user[u]) /\ Classified(packets.banker)
  BY DEF AllClassified
<1>5. ASSUME NEW i \in D
      PROVE  /\ c[i] \in Int /\ f[i] \in Nat /\ g[i] \in Nat
             /\ - f[i] <= c[i] /\ c[i] <= g[i]
  BY <1>2, <1>4, PledgeTypes, BetCoinType, CoinWithinPledge
<1>6. \A i \in D : h[i] = c[i] + f[i]
  OBVIOUS
<1>7. CoinChange(u) = SumFunction(c) /\ Risk(u) = SumFunction(f) /\ Pledge(u) = SumFunction(g)
  BY DEF CoinChange, Risk, Pledge
<1>8. DOMAIN c = D /\ DOMAIN f = D /\ DOMAIN g = D
  OBVIOUS
<1> HIDE DEF s, D, c, f, g, h
<1>9. \A i \in D : h[i] \in Nat
  <2>1. \A x \in Int, y \in Nat : - y <= x => x + y \in Nat
    OBVIOUS
  <2> QED BY <1>5, <1>6, <2>1
<1>10. SumFunctionOnSet(c, D) \in Int /\ SumFunctionOnSet(f, D) \in Int /\ SumFunctionOnSet(h, D) \in Nat
  BY <1>3, <1>5, <1>9, SumInt, SumNat
<1>11. SumFunctionOnSet(h, D) = SumFunctionOnSet(c, D) + SumFunctionOnSet(f, D)
  BY <1>3, <1>5, <1>6, SumPlus
<1>12. SumFunctionOnSet(c, D) <= SumFunctionOnSet(g, D)
  BY <1>3, <1>5, SumLeq
<1>13. - SumFunctionOnSet(f, D) <= SumFunctionOnSet(c, D)
  BY <1>10, <1>11
<1> QED BY <1>7, <1>8, <1>10, <1>12, <1>13 DEF SumFunction

(* Initially nobody has bet and nothing is paid. *)
LEMMA SettleInitially == SettleInit => SettleInv
<1> SUFFICES ASSUME SettleInit PROVE SettleInv
  OBVIOUS
<1> USE SettlementAssumption
<1>1. bet_data \in [Bettor -> Seq(Bet)] /\ Bettors = {}
  BY DEF SettleInit, Bettors
<1>2. \A u \in Bettor : Risk(u) = 0 /\ Pledge(u) = 0
  BY <1>1, PledgeSums
<1>3. frozen = [u \in Bettor |-> Risk(u)]
  BY <1>2 DEF SettleInit
<1>4. SumFunction([u \in Bettor |-> Pledge(u)]) = 0
  <2> DEFINE f == [u \in Bettor |-> Pledge(u)]
  <2>1. \A u \in Bettor : f[u] = 0
    BY <1>2
  <2>2. DOMAIN f = Bettor
    OBVIOUS
  <2> HIDE DEF f
  <2>3. SumFunctionOnSet(f, Bettor) = 0
    BY <2>1, SumZero
  <2>4. SumFunction(f) = 0
    BY <2>2, <2>3 DEF SumFunction
  <2> QED BY <2>4 DEF f
<1>5. Pledges
  BY <1>1, <1>3, <1>4 DEF SettleInit, Pledges
<1>6. Stages
  BY DEF SettleInit, Stages
<1> QED BY <1>5, <1>6 DEF SettleInv

(* A bet takes its pledge from the coins. *)
LEMMA BeterKeeps ==
    ASSUME SettleInv, NEW u \in Bettor, NEW b \in BetMenu, Beter(u, b)
    PROVE  SettleInv'
<1> USE SettlementAssumption
<1>0. b \in Bet /\ bet_data \in [Bettor -> Seq(Bet)] /\ bet_data[u] \in Seq(Bet)
  BY DEF SettleInv, Pledges
<1>1. /\ bet_data' \in [Bettor -> Seq(Bet)]
      /\ bet_data'[u] = Append(bet_data[u], b)
      /\ \A v \in Bettor : v # u => bet_data'[v] = bet_data[v]
  BY <1>0 DEF Beter
<1>a. \A v \in Bettor : \A i, j \in DOMAIN bet_data'[v] : bet_data'[v][i].type = bet_data'[v][j].type
  <2>1. \A i \in DOMAIN bet_data[u] : bet_data[u][i].type = b.type
    BY DEF Beter, MayBet
  <2>2. \A i \in DOMAIN Append(bet_data[u], b) : Append(bet_data[u], b)[i].type = b.type
    BY <1>0, <2>1
  <2>3. \A v \in Bettor : \A i, j \in DOMAIN bet_data[v] : bet_data[v][i].type = bet_data[v][j].type
    BY DEF SettleInv, Pledges
  <2> TAKE v \in Bettor
  <2>4. CASE v = u
    <3>1. \A i \in DOMAIN bet_data'[u] : bet_data'[u][i].type = b.type
      BY <1>1, <2>2
    <3> QED BY <2>4, <3>1
  <2>5. CASE v # u
    BY <1>1, <2>3, <2>5
  <2> QED BY <2>4, <2>5
<1>2. Risk(u)' = Risk(u) + GameCoin(b) /\ Pledge(u)' = Pledge(u) + BankerReduceCoin(b)
  BY <1>0, <1>1, PledgeAppend DEF Risk, Pledge
<1>3. \A v \in Bettor : v # u => Risk(v)' = Risk(v) /\ Pledge(v)' = Pledge(v)
  BY <1>1 DEF Risk, Pledge
<1>4. frozen' = [v \in Bettor |-> Risk(v)']
  BY <1>2, <1>3 DEF SettleInv, Pledges, Beter
<1>5. \A v \in Bettor : Pledge(v) \in Nat
  BY <1>0, PledgeSums
<1>6. GameCoin(b) \in Nat /\ BankerReduceCoin(b) \in Nat
  BY <1>0, PledgeTypes
<1> DEFINE f == [v \in Bettor |-> Pledge(v)]
           g == [v \in Bettor |-> Pledge(v)']
<1>7. SumFunction(g) = SumFunction(f) + BankerReduceCoin(b)
  <2>1. DOMAIN f = Bettor /\ DOMAIN g = Bettor
    OBVIOUS
  <2>2. \A v \in Bettor : f[v] \in Int /\ g[v] \in Int
    BY <1>2, <1>3, <1>5, <1>6
  <2>3. \A v \in Bettor \ {u} : g[v] = f[v]
    BY <1>3
  <2>4. g[u] = f[u] + BankerReduceCoin(b)
    BY <1>2
  <2> HIDE DEF f, g
  <2>5. SumFunctionOnSet(g, Bettor) = (SumFunctionOnSet(f, Bettor) - f[u]) + g[u]
    BY <2>2, <2>3, SumUpdate
  <2>6. SumFunctionOnSet(f, Bettor) \in Int
    BY <2>2, SumInt
  <2>7. f[u] \in Int
    BY <2>2
  <2>8. SumFunctionOnSet(g, Bettor) = SumFunctionOnSet(f, Bettor) + BankerReduceCoin(b)
    BY <1>6, <2>4, <2>5, <2>6, <2>7
  <2> QED BY <2>1, <2>8 DEF SumFunction
<1>8. SumFunction(f) = Stake - bankerSurplusCoin /\ bankerSurplusCoin \in Nat
  BY DEF SettleInv, Pledges
<1>9. /\ bankerSurplusCoin' \in Nat
      /\ bankerSurplusCoin' = bankerSurplusCoin - BankerReduceCoin(b)
  BY <1>6, <1>8 DEF Beter
<1> HIDE DEF f, g
<1>10. SumFunction(g) = Stake - bankerSurplusCoin'
  BY <1>6, <1>7, <1>8, <1>9
<1>11. Pledges'
  BY <1>1, <1>a, <1>4, <1>9, <1>10 DEF Pledges, g
<1>12. state = "bet"
  BY DEF Beter, MayBet
<1>13. Stages'
  BY <1>12 DEF Stages, SettleInv, Beter
<1> QED BY <1>11, <1>13 DEF SettleInv

(* Dealing the packets moves no coin. *)
LEMMA DealKeeps ==
    ASSUME SettleInv, NEW banker \in BankerPackets, NEW user \in [Bettors -> UserPackets], Deal(banker, user)
    PROVE  SettleInv'
<1> USE SettlementAssumption
<1>1. Pledges'
  BY DEF SettleInv, Pledges, Deal, Risk, Pledge
<1>2. Bettors' = Bettors
  BY DEF Deal, Bettors
<1>3. packets' = [banker |-> banker, user |-> user] /\ state' = "dealt" /\ result' = << >>
  BY DEF Deal, SettleInv, Stages
<1>4. banker \in Nat /\ user \in [Bettors -> Nat] /\ DOMAIN user = Bettors
  OBVIOUS
<1>5. Stages'
  BY <1>2, <1>3, <1>4 DEF Stages
<1> QED BY <1>1, <1>5 DEF SettleInv

(* The pay-out, bettor by bettor. *)
LEMMA ResultKeeps ==
    ASSUME SettleInv, GetResult
    PROVE  SettleInv'
<1>1. Pledges'
  BY DEF SettleInv, Pledges, GetResult, Risk, Pledge
<1>2. /\ bet_data' = bet_data /\ packets' = packets /\ state = "dealt"
      /\ state' \in {"settled", "raised"}
  BY DEF GetResult
<1>3. Bettors' = Bettors /\ (AllClassified' <=> AllClassified)
  BY <1>2 DEF Bettors, AllClassified
<1>4. \A u \in Bettors : CoinChange(u)' = CoinChange(u)
  BY <1>2 DEF CoinChange
<1>5. DOMAIN packets.user = Bettors /\ packets.banker \in Nat /\ packets.user \in [DOMAIN packets.user -> Nat]
      /\ result = << >>
  BY <1>2 DEF SettleInv, Stages
<1>6. IF state' = "settled" THEN AllClassified /\ result' = [u \in Bettors |-> CoinChange(u)]
      ELSE result' = << >>
  BY <1>5 DEF GetResult
<1>7. state' = "settled" => result' = [u \in Bettors' |-> CoinChange(u)']
  BY <1>3, <1>4, <1>6
<1>8. Stages'
  BY <1>2, <1>3, <1>5, <1>6, <1>7 DEF Stages
<1> QED BY <1>1, <1>8 DEF SettleInv

(* The inductive invariant of the settlement. *)
THEOREM SettleInvariant == SettleSpec => []SettleInv
<1>1. SettleInit => SettleInv
  BY SettleInitially
<1>2. SettleInv /\ [SettleNext]_settleVars => SettleInv'
  <2> SUFFICES ASSUME SettleInv, [SettleNext]_settleVars PROVE SettleInv'
    OBVIOUS
  <2>1. CASE SettleNext
    BY <2>1, BeterKeeps, DealKeeps, ResultKeeps DEF SettleNext
  <2>2. CASE UNCHANGED settleVars
    <3>1. Pledges'
      BY <2>2 DEF SettleInv, Pledges, settleVars, Risk, Pledge
    <3>2. Stages'
      BY <2>2 DEF SettleInv, Stages, settleVars, Bettors, AllClassified, CoinChange
    <3> QED BY <3>1, <3>2 DEF SettleInv
  <2> QED BY <2>1, <2>2
<1> QED BY <1>1, <1>2, PTL DEF SettleSpec

(* Types: what is pledged never exceeds the banker's stake (logic.beter). *)
THEOREM SettleTypeCorrect == SettleSpec => []SettleTypeOK
<1> USE SettlementAssumption
<1>1. SettleInv => SettleTypeOK
  <2> SUFFICES ASSUME SettleInv PROVE SettleTypeOK
    OBVIOUS
  <2>1. bet_data \in [Bettor -> Seq(Bet)] /\ bankerSurplusCoin \in Nat
    BY DEF SettleInv, Pledges
  <2>2. \A u \in Bettor : Risk(u) \in Nat /\ Pledge(u) \in Nat
    BY <2>1, PledgeSums
  <2>3. bankerSurplusCoin <= Stake
    <3> DEFINE f == [u \in Bettor |-> Pledge(u)]
    <3>1. \A u \in Bettor : f[u] \in Nat
      BY <2>2
    <3>2. DOMAIN f = Bettor /\ SumFunction(f) = Stake - bankerSurplusCoin
      BY DEF SettleInv, Pledges
    <3> HIDE DEF f
    <3>3. SumFunctionOnSet(f, Bettor) \in Nat
      BY <3>1, SumNat
    <3> QED BY <2>1, <3>2, <3>3 DEF SumFunction
  <2>4. frozen \in [Bettor -> Nat]
    BY <2>2 DEF SettleInv, Pledges
  <2>5. result \in [DOMAIN result -> Int]
    <3>1. CASE state = "settled"
      <4>1. result = [u \in Bettors |-> CoinChange(u)] /\ AllClassified /\ DOMAIN packets.user = Bettors
            /\ packets.banker \in Nat /\ packets.user \in [DOMAIN packets.user -> Nat]
        BY <3>1 DEF SettleInv, Stages
      <4>2. ASSUME NEW u \in Bettors PROVE CoinChange(u) \in Int
        BY <2>1, <4>1, CoinChangeBounds
      <4> QED BY <4>1, <4>2
    <3>2. CASE state # "settled"
      BY <3>2 DEF SettleInv, Stages
    <3> QED BY <3>1, <3>2
  <2>6. \A u \in Bettor : \A i \in DOMAIN bet_data[u] : bet_data[u][i] \in Bet
    <3>1. \A u \in Bettor : bet_data[u] \in Seq(Bet)
      BY <2>1
    <3> QED BY <3>1
  <2>7. /\ packets.banker \in Nat /\ packets.user \in [DOMAIN packets.user -> Nat]
        /\ state \in {"bet", "dealt", "settled", "raised"} /\ DOMAIN bet_data = Bettor
    BY <2>1 DEF SettleInv, Stages
  <2> QED BY <2>1, <2>3, <2>4, <2>5, <2>6, <2>7 DEF SettleTypeOK
<1> QED BY <1>1, SettleInvariant, PTL

(* Against the same banker the better packet brings a cow bet no less. *)
LEMMA CowMonotone ==
    ASSUME NEW b \in Bet, b.type \in {1, 2},
           NEW bank \in Nat, NEW c \in Nat, NEW d \in Nat,
           Classified(bank), Classified(c), Classified(d), RanksAs(c, d)
    PROVE  CowCoin(b, bank, d) <= CowCoin(b, bank, c)
<1> DEFINE pb == PointType(bank)
           pc == PointType(c)
           pd == PointType(d)
           rb == getRate(b.type, pb)
           rc == getRate(b.type, pc)
           rd == getRate(b.type, pd)
<1>0. b.value \in Nat
  BY DEF Bet
<1>1. pb \in 1..16 /\ pc \in 1..16 /\ pd \in 1..16
  BY PointTypeRange
<1>2. rb \in Nat /\ rc \in Nat /\ rd \in Nat
  BY <1>1, DoubleRate DEF DOUBLE, SINGLE
<1>3. pd <= pc => rd <= rc
  BY <1>1 DEF getRate, DOUBLE, SINGLE
<1>4. pc > pd \/ (pc = pd /\ c >= d)
  BY DEF RanksAs
<1>5. /\ BankerWins(bank, c) <=> (pb > pc \/ pc \in {1, 2} \/ (pb = pc /\ bank > c))
      /\ BankerWins(bank, d) <=> (pb > pd \/ pd \in {1, 2} \/ (pb = pd /\ bank > d))
  BY DEF BankerWins
<1>6. /\ CowCoin(b, bank, c) = IF BankerWins(bank, c) THEN - b.value * rb
                               ELSE IF bank = c THEN 0 ELSE b.value * rc
      /\ CowCoin(b, bank, d) = IF BankerWins(bank, d) THEN - b.value * rb
                               ELSE IF bank = d THEN 0 ELSE b.value * rd
  BY DEF CowCoin
<1>7. bank = c => pb = pc
  OBVIOUS
<1>b. bank = d => pb = pd
  OBVIOUS
<1>8. /\ b.value * rc \in Nat /\ b.value * rd \in Nat
      /\ - b.value * rb \in Int /\ - b.value * rb <= 0
      /\ pd <= pc => b.value * rd <= b.value * rc
  <2>1. b.value * rb \in Nat /\ - b.value * rb = - (b.value * rb)
    BY <1>0, <1>2
  <2> QED BY <1>0, <1>2, <1>3, <2>1, Scale
<1> HIDE DEF pb, pc, pd, rb, rc, rd
<1>9. CASE BankerWins(bank, d)
  BY <1>6, <1>8, <1>9
<1>10. CASE ~BankerWins(bank, d)
  <2>1. ~BankerWins(bank, c)
    BY <1>1, <1>4, <1>5, <1>10
  <2>2. pd <= pc
    BY <1>1, <1>4
  <2>3. bank = c => bank = d
    BY <1>1, <1>4, <1>5, <1>7, <1>10
  <2> QED BY <1>6, <1>8, <1>10, <2>1, <2>2, <2>3
<1> QED BY <1>0, <1>9, <1>10

(* The bounds of getResult and the order of the packets, in every state the  *)
(* invariant allows.                                                         *)
LEMMA SettledWithin == SettleInv => PaidWithinPledge
<1> USE SettlementAssumption
<1> SUFFICES ASSUME SettleInv, state = "settled"
             PROVE  /\ \A u \in Bettors : result[u] >= - frozen[u]
                    /\ SumFunction(result) <= Stake - bankerSurplusCoin
  BY DEF PaidWithinPledge
<1> DEFINE p == [u \in Bettor |-> Pledge(u)]
<1>1. /\ bet_data \in [Bettor -> Seq(Bet)] /\ frozen = [u \in Bettor |-> Risk(u)]
      /\ SumFunction(p) = Stake - bankerSurplusCoin
  BY DEF SettleInv, Pledges
<1>2. /\ AllClassified /\ DOMAIN packets.user = Bettors
      /\ packets.banker \in Nat /\ packets.user \in [DOMAIN packets.user -> Nat]
      /\ result = [u \in Bettors |-> CoinChange(u)]
  BY DEF SettleInv, Stages
<1>3. ASSUME NEW u \in Bettors
      PROVE  CoinChange(u) \in Int /\ - Risk(u) <= CoinChange(u) /\ CoinChange(u) <= Pledge(u)
  BY <1>1, <1>2, CoinChangeBounds
<1>4. ASSUME NEW u \in Bettor PROVE Risk(u) \in Nat /\ Pledge(u) \in Nat
  BY <1>1, PledgeSums
<1>5. Bettors \subseteq Bettor /\ DOMAIN result = Bettors /\ DOMAIN p = Bettor
  BY <1>2 DEF Bettors
<1>6. \A u \in Bettors : result[u] >= - frozen[u]
  <2> TAKE u \in Bettors
  <2>1. result[u] = CoinChange(u) /\ frozen[u] = Risk(u) /\ u \in Bettor
    BY <1>1, <1>2, <1>5
  <2>2. CoinChange(u) \in Int /\ - Risk(u) <= CoinChange(u) /\ Risk(u) \in Nat
    BY <1>3, <1>4, <2>1
  <2> QED BY <2>1, <2>2
<1>7. \A u \in Bettors : result[u] \in Int /\ p[u] \in Int /\ result[u] <= p[u]
  BY <1>2, <1>3, <1>4, <1>5
<1>8. \A u \in Bettor : p[u] \in Nat
  BY <1>4
<1> HIDE DEF p
<1>9. IsFiniteSet(Bettors)
  BY <1>5, FS_Subset
<1>10. SumFunctionOnSet(result, Bettors) <= SumFunctionOnSet(p, Bettors)
  BY <1>7, <1>9, SumLeq
<1>11. SumFunctionOnSet(p, Bettors) <= SumFunctionOnSet(p, Bettor)
  BY <1>5, <1>8, SumSubset
<1>12. /\ SumFunctionOnSet(result, Bettors) \in Int /\ SumFunctionOnSet(p, Bettors) \in Int
       /\ SumFunctionOnSet(p, Bettor) \in Int
  <2>1. SumFunctionOnSet(result, Bettors) \in Int /\ SumFunctionOnSet(p, Bettors) \in Int
    BY <1>7, <1>9, SumInt
  <2> QED BY <1>8, <2>1, SumNat
<1>13. SumFunction(result) <= SumFunction(p)
  BY <1>5, <1>10, <1>11, <1>12 DEF SumFunction
<1> QED BY <1>1, <1>6, <1>13

(* Bets that are the same are paid by packet, bet by bet (getResult). *)
LEMMA SettledRanked == SettleInv => BetterPacketPaysMore
<1> SUFFICES ASSUME SettleInv, state = "settled", NEW u \in Bettors, NEW v \in Bettors,
                    bet_data[u] = bet_data[v], bet_data[u][1].type \in {DOUBLE, SINGLE},
                    RanksAs(packets.user[u], packets.user[v])
             PROVE  result[u] >= result[v]
  BY DEF BetterPacketPaysMore
<1>1. /\ AllClassified /\ DOMAIN packets.user = Bettors
      /\ packets.banker \in Nat /\ packets.user \in [DOMAIN packets.user -> Nat]
      /\ result[u] = CoinChange(u) /\ result[v] = CoinChange(v)
  BY DEF SettleInv, Stages
<1> DEFINE s == bet_data[u]
           D == DOMAIN s
           f == [i \in D |-> BetCoin(s[i], packets.banker, packets.user[v])]
           g == [i \in D |-> BetCoin(s[i], packets.banker, packets.user[u])]
<1>2. u \in Bettor /\ s \in Seq(Bet) /\ s # << >>
  BY DEF Bettors, SettleInv, Pledges
<1>3. D = 1..Len(s) /\ Len(s) \in Nat /\ 1 \in D /\ \A i \in D : s[i] \in Bet
  BY <1>2
<1>4. IsFiniteSet(D)
  BY <1>3, FS_Interval
<1>5. \A i \in D : s[i].type \in {1, 2}
  <2>1. \A i \in D : s[i].type = s[1].type
    BY <1>2, <1>3 DEF SettleInv, Pledges
  <2> QED BY <2>1 DEF DOUBLE, SINGLE
<1>6. /\ packets.user[u] \in Nat /\ Classified(packets.user[u]) /\ Classified(packets.banker)
      /\ packets.user[v] \in Nat /\ Classified(packets.user[v])
  BY <1>1 DEF AllClassified
<1>7. ASSUME NEW i \in D
      PROVE  f[i] \in Int /\ g[i] \in Int /\ f[i] <= g[i]
  <2>1. s[i] \in Bet /\ s[i].type \in {1, 2}
    BY <1>3, <1>5
  <2>2. f[i] \in Int /\ g[i] \in Int
    BY <1>1, <1>6, <2>1, BetCoinType
  <2>3. /\ f[i] = CowCoin(s[i], packets.banker, packets.user[v])
        /\ g[i] = CowCoin(s[i], packets.banker, packets.user[u])
    BY <2>1 DEF BetCoin, DOUBLE, SINGLE
  <2>4. CowCoin(s[i], packets.banker, packets.user[v])
          <= CowCoin(s[i], packets.banker, packets.user[u])
    <3> HIDE DEF s, f, g, D
    <3> QED BY <1>1, <1>6, <2>1, CowMonotone
  <2> QED BY <2>2, <2>3, <2>4
<1>8. CoinChange(u) = SumFunction(g) /\ CoinChange(v) = SumFunction(f)
  BY DEF CoinChange
<1>9. DOMAIN f = D /\ DOMAIN g = D
  OBVIOUS
<1> HIDE DEF s, D, f, g
<1>10. SumFunctionOnSet(f, D) <= SumFunctionOnSet(g, D)
  BY <1>4, <1>7, SumLeq
<1>11. SumFunctionOnSet(f, D) \in Int /\ SumFunctionOnSet(g, D) \in Int
  BY <1>4, <1>7, SumInt
<1> QED BY <1>1, <1>8, <1>9, <1>10, <1>11 DEF SumFunction

(* getResult never takes more from a bettor than his bets froze, nor more    *)
(* from the banker than was pledged, and of two bettors with the same cow    *)
(* bets the better packet never ends worse, for any number of bettors, bets  *)
(* and packets.                                                              *)
THEOREM SettlementIsFair == SettleSpec => []SettlementFair
<1>1. SettleInv => SettlementFair
  BY SettledWithin, SettledRanked DEF SettlementFair
<1> QED BY <1>1, SettleInvariant, PTL

-----------------------------------------------------------------------------
(* The packets of a red packet                                             *)

(* The inductive invariant: no packet is empty, something remains as long as *)
(* a packet is due, and not a cent is created or lost.                       *)
RedInv ==
    /\ size \in Sizes
    /\ remainSize \in 0..size
    /\ remainMoney \in Nat \ {0}
    /\ redPackes \in Seq(Nat \ {0})
    /\ Len(redPackes) = size - remainSize
    /\ SumPreserved

(* With at most eleven packets this is the most that can remain when so many *)
(* are due: a draw takes at least half of the average, but for a cent.       *)
MostRemaining == <<744, 991, 1188, 1357, 1507, 1643, 1769, 1886, 1996, 2101, 2200>>

(* A draw of x cents, with s packets and M cents to go: no less than half of *)
(* the average, but for a cent, and no more than twice the average or all.   *)
FairDraw(M, s, x) ==
    /\ x \in Nat /\ 1 <= x /\ x <= M /\ M <= 2 * (s * (x + 1))
    /\ x = 1 \/ s * x <= 2 * M

(* A cent is lost only where the quotient is exact. *)
LostWhenExact(r, e) == e = 1 => (r * remainMoney) % (remainSize * 10000) = 0

RedSmall ==
    /\ remainSize > 0 => remainMoney <= MostRemaining[remainSize]
    /\ \A i \in DOMAIN redPackes : redPackes[i] < 1000

(* The greater of one and a number. *)
LEMMA MaxOfOne ==
    ASSUME NEW x \in Int
    PROVE  Max({1, x}) = IF x > 1 THEN x ELSE 1
<1>1. \E y \in {1, x} : \A z \in {1, x} : y >= z
  <2>1. CASE x > 1
    BY <2>1
  <2>2. CASE ~(x > 1)
    BY <2>2
  <2> QED BY <2>1, <2>2
<1> QED BY <1>1 DEF Max

(* A draw takes at least a cent, half of the average but for a cent at least, *)
(* and no more than what remains.                                             *)
LEMMA ShareBounds ==
    ASSUME remainMoney \in Nat \ {0}, remainSize \in Nat, remainSize >= 2,
           NEW r1 \in 50..100, NEW r2 \in 100..200, NEW e \in {0, 1},
           LostWhenExact(r1 * r2, e)
    PROVE  FairDraw(remainMoney, remainSize, Share(r1 * r2, e))
<1> DEFINE M == remainMoney
           s == remainSize
           x == Share(r1 * r2, e)
<1>0. /\ M \in Nat \ {0} /\ s \in Nat /\ s >= 2
      /\ x = Max({1, (r1 * r2 * M) \div (s * 10000) - e})
      /\ e = 1 => (r1 * r2 * M) % (s * 10000) = 0
  BY DEF Share, LostWhenExact
<1> SUFFICES /\ x \in Nat /\ 1 <= x /\ x <= M /\ M <= 2 * (s * (x + 1))
             /\ x = 1 \/ s * x <= 2 * M
  BY DEF FairDraw
<1> HIDE DEF M, s, x
<1> USE <1>0
<1> DEFINE r == r1 * r2
           n == r * M
           d == s * 10000
           q == n \div d
<1>1. r \in 5000..20000
  <2>1. r1 * r2 >= 50 * r2 /\ r1 * r2 <= 100 * r2
    OBVIOUS
  <2> QED BY <2>1
<1>2. n \in Nat /\ 5000 * M <= n /\ n <= 20000 * M
  <2> HIDE DEF r
  <2> QED BY <1>1
<1>3. d \in Nat /\ d > 0 /\ d >= 20000
  OBVIOUS
<1>4. x = Max({1, q - e})
  OBVIOUS
<1>a. e = 1 => n % d = 0
  OBVIOUS
<1> HIDE DEF n, d
<1>5. q \in Int /\ d * q <= n /\ n < d * (q + 1)
  BY <1>2, <1>3
<1> HIDE DEF q
<1>6. q >= 0 /\ q <= M
  <2>1. q >= 0
    BY <1>2, <1>3, <1>5
  <2>2. 20000 * q <= d * q
    BY <1>3, <1>5, <2>1
  <2>3. d * q \in Int
    BY <1>3, <1>5
  <2> QED BY <1>2, <1>5, <2>1, <2>2, <2>3
<1>7. M <= 2 * (s * (q + 1))
  <2>1. d * (q + 1) = 10000 * (s * (q + 1))
    BY <1>5 DEF d
  <2>2. s * (q + 1) \in Int
    BY <1>5
  <2> QED BY <1>2, <1>5, <2>1, <2>2
<1>b. e = 1 => M <= 2 * (s * q)
  <2>1. d * q = 10000 * (s * q)
    BY <1>5 DEF d
  <2>2. s * q \in Int
    BY <1>5
  <2>3. e = 1 => d * q = n
    BY <1>2, <1>3, <1>a DEF q
  <2> QED BY <1>2, <2>1, <2>2, <2>3
<1>8. x = IF q - e > 1 THEN q - e ELSE 1
  BY <1>4, <1>5, MaxOfOne
<1>9. x \in Nat /\ 1 <= x /\ x <= M /\ q - e <= x
  BY <1>5, <1>6, <1>8
<1>10. M <= 2 * (s * (x + 1))
  <2>1. CASE e = 1
    <3>1. s * q <= s * (x + 1)
      BY <1>5, <1>9, <2>1
    <3>2. s * q \in Int /\ s * (x + 1) \in Int
      BY <1>5, <1>9
    <3> QED BY <1>b, <2>1, <3>1, <3>2
  <2>2. CASE e = 0
    <3>1. s * (q + 1) <= s * (x + 1)
      BY <1>5, <1>9, <2>2
    <3>2. s * (q + 1) \in Int /\ s * (x + 1) \in Int
      BY <1>5, <1>9
    <3> QED BY <1>7, <3>1, <3>2
  <2> QED BY <2>1, <2>2
<1>11. x = 1 \/ s * x <= 2 * M
  <2>1. d * q = 10000 * (s * q) /\ s * q \in Int
    BY <1>5 DEF d
  <2>2. s * q <= 2 * M
    BY <1>2, <1>5, <2>1
  <2>3. CASE x <= q
    <3>1. s * x <= s * q /\ s * x \in Int
      BY <1>5, <1>9, <2>3
    <3> QED BY <2>1, <2>2, <3>1
  <2>4. CASE ~(x <= q)
    <3>1. e \in {0, 1} /\ q - e <= q
      BY <1>5
    <3>2. ~(x = q - e)
      BY <2>4, <3>1
    <3> QED BY <1>8, <3>2
  <2> QED BY <2>3, <2>4
<1> QED BY <1>9, <1>10, <1>11

(* What may remain after a draw, and the packet drawn, with at most eleven   *)
(* packets.                                                                  *)
LEMMA DrawSmall ==
    ASSUME NEW s \in 2..11, NEW M \in Nat, NEW x, M <= MostRemaining[s], FairDraw(M, s, x)
    PROVE  M - x <= MostRemaining[s - 1] /\ 200 <= MostRemaining[s - 1] /\ x < 1000
<1>1. s \in {2, 3, 4, 5, 6, 7, 8, 9, 10, 11}
  OBVIOUS
<1>2. CASE s = 2
  BY <1>2 DEF MostRemaining, FairDraw
<1>3. CASE s = 3
  BY <1>3 DEF MostRemaining, FairDraw
<1>4. CASE s = 4
  BY <1>4 DEF MostRemaining, FairDraw
<1>5. CASE s = 5
  BY <1>5 DEF MostRemaining, FairDraw
<1>6. CASE s = 6
  BY <1>6 DEF MostRemaining, FairDraw
<1>7. CASE s = 7
  BY <1>7 DEF MostRemaining, FairDraw
<1>8. CASE s = 8
  BY <1>8 DEF MostRemaining, FairDraw
<1>9. CASE s = 9
  BY <1>9 DEF MostRemaining, FairDraw
<1>10. CASE s = 10
  BY <1>10 DEF MostRemaining, FairDraw
<1>11. CASE s = 11
  BY <1>11 DEF MostRemaining, FairDraw
<1> QED BY <1>1, <1>2, <1>3, <1>4, <1>5, <1>6, <1>7, <1>8, <1>9, <1>10, <1>11

(* One more packet adds its amount. *)
LEMMA SumAppend ==
    ASSUME NEW s \in Seq(Nat), NEW x \in Nat
    PROVE  SumFunction(Append(s, x)) = SumFunction(s) + x
<1> DEFINE n == Len(s)
           t == Append(s, x)
<1>1. /\ n \in Nat /\ DOMAIN s = 1..n /\ DOMAIN t = 1..(n + 1) /\ t[n + 1] = x
      /\ \A i \in 1..n : s[i] \in Int /\ t[i] = s[i]
  OBVIOUS
<1>2. t[n + 1] \in Int
  BY <1>1
<1> HIDE DEF n, t
<1>3. SumFunction(t) = SumFunction(s) + t[n + 1]
  BY <1>1, <1>2, SumExtend
<1> QED BY <1>1, <1>3 DEF t

(* When a draw takes everything, some packet exceeds a coin: the average is *)
(* two coins.                                                               *)
LEMMA SomeRich ==
    ASSUME NEW ps \in Seq(Nat), NEW N \in Nat, Len(ps) < N + N, SumFunction(ps) = 200 * N
    PROVE  LET rich == {i \in DOMAIN ps : ps[i] > 100} IN Min(rich) \in rich
<1> DEFINE rich == {i \in DOMAIN ps : ps[i] > 100}
<1>1. DOMAIN ps = 1..Len(ps) /\ Len(ps) \in Nat /\ \A i \in DOMAIN ps : ps[i] \in Nat
  OBVIOUS
<1>2. rich # {}
  <2> SUFFICES ASSUME rich = {} PROVE FALSE
    OBVIOUS
  <2>1. \A i \in DOMAIN ps : ps[i] \in Int /\ ps[i] <= 100
    BY <1>1
  <2>2. IsFiniteSet(DOMAIN ps) /\ Cardinality(DOMAIN ps) = Len(ps)
    <3> DEFINE m == Len(ps)
    <3>1. m \in Nat /\ DOMAIN ps = 1..m
      BY <1>1
    <3> HIDE DEF m
    <3>2. IsFiniteSet(1..m) /\ Cardinality(1..m) = m
      <4>1. IsFiniteSet(1..m) /\ Cardinality(1..m) = IF 1 > m THEN 0 ELSE (m - 1) + 1
        BY <3>1, FS_Interval
      <4> QED BY <3>1, <4>1
    <3> QED BY <3>1, <3>2 DEF m
  <2>3. SumFunctionOnSet(ps, DOMAIN ps) <= 100 * Cardinality(DOMAIN ps)
    BY <2>1, <2>2, SumAtMost
  <2> QED BY <1>1, <2>2, <2>3 DEF SumFunction
<1>3. rich \subseteq Nat
  BY <1>1
<1> HIDE DEF rich
<1>4. \E k \in rich : \A i \in rich : k <= i
  BY <1>2, <1>3, NatLeast
<1>5. Min(rich) \in rich
  BY <1>4 DEF Min
<1> QED BY <1>5 DEF rich

(* Putting cents back keeps the sum, leaves no packet empty and leaves       *)
(* something, at most two coins, for the packets that are due.               *)
LEMMA PutBackKeeps ==
    ASSUME NEW ps \in Seq(Nat \ {0}), NEW N \in Nat, Len(ps) < N + N, SumFunction(ps) = 200 * N,
           PutBack(ps)
    PROVE  /\ redPackes' \in Seq(Nat \ {0}) /\ Len(redPackes') = Len(ps)
           /\ remainMoney' \in 1..200
           /\ SumFunction(redPackes') + remainMoney' = 200 * N
           /\ \A i \in DOMAIN redPackes' : redPackes'[i] <= ps[i]
<1> DEFINE rich == {i \in DOMAIN ps : ps[i] > 100}
           k == Min(rich)
<1>1. k \in rich
  BY SomeRich
<1>2. k \in DOMAIN ps /\ ps[k] > 100 /\ ps[k] \in Nat /\ rich # {}
  BY <1>1
<1>3. PICK d \in PutRange(ps[k]) : redPackes' = [ps EXCEPT ![k] = @ - d] /\ remainMoney' = d
  BY <1>2 DEF PutBack
<1> HIDE DEF k, rich
<1>4. d \in 1..200 /\ d < ps[k]
  <2>1. d \in IF ps[k] > 300 THEN 100..200 ELSE IF ps[k] > 200 THEN 50..100 ELSE 1..100
    BY <1>3 DEF PutRange
  <2>2. CASE ps[k] > 300
    BY <1>2, <2>1, <2>2
  <2>3. CASE ~(ps[k] > 300) /\ ps[k] > 200
    BY <1>2, <2>1, <2>3
  <2>4. CASE ~(ps[k] > 200)
    <3>1. d \in 1..100
      BY <1>2, <2>1, <2>4
    <3> QED BY <1>2, <3>1
  <2> QED BY <1>2, <2>2, <2>3, <2>4
<1> DEFINE qs == [ps EXCEPT ![k] = @ - d]
<1>5. /\ DOMAIN ps = 1..Len(ps) /\ Len(ps) \in Nat /\ qs \in Seq(Nat \ {0}) /\ Len(qs) = Len(ps)
      /\ \A i \in DOMAIN ps : ps[i] \in Nat
  <2>1. DOMAIN ps = 1..Len(ps) /\ Len(ps) \in Nat /\ \A i \in DOMAIN ps : ps[i] \in Nat \ {0}
    OBVIOUS
  <2>2. ps[k] - d \in Nat \ {0}
    BY <1>2, <1>4
  <2>3. qs \in [1..Len(ps) -> Nat \ {0}]
    BY <1>2, <2>1, <2>2
  <2> QED BY <2>1, <2>3
<1>6. /\ DOMAIN qs = DOMAIN ps /\ qs[k] = ps[k] - d
      /\ \A i \in DOMAIN ps \ {k} : qs[i] = ps[i]
  BY <1>2
<1>7. redPackes' = qs
  BY <1>3
<1>8. IsFiniteSet(DOMAIN ps)
  <2> DEFINE m == Len(ps)
  <2>1. m \in Nat /\ DOMAIN ps = 1..m
    BY <1>5
  <2> HIDE DEF m
  <2>2. IsFiniteSet(1..m)
    BY <2>1, FS_Interval
  <2> QED BY <2>1, <2>2
<1> HIDE DEF qs
<1>9. \A i \in DOMAIN ps : ps[i] \in Int /\ qs[i] \in Int
  BY <1>5, <1>6
<1>10. SumFunctionOnSet(qs, DOMAIN ps) = (SumFunctionOnSet(ps, DOMAIN ps) - ps[k]) + qs[k]
  <2> DEFINE S == DOMAIN ps
  <2>1. /\ IsFiniteSet(S) /\ k \in S /\ \A y \in S : ps[y] \in Int /\ qs[y] \in Int
        /\ \A y \in S \ {k} : qs[y] = ps[y]
    BY <1>2, <1>6, <1>8, <1>9
  <2> HIDE DEF S
  <2>2. SumFunctionOnSet(qs, S) = (SumFunctionOnSet(ps, S) - ps[k]) + qs[k]
    BY <2>1, SumUpdate
  <2> QED BY <2>2 DEF S
<1>11. SumFunctionOnSet(ps, DOMAIN ps) = 200 * N
  BY DEF SumFunction
<1>12. SumFunction(qs) = 200 * N - d
  BY <1>2, <1>4, <1>6, <1>10, <1>11 DEF SumFunction
<1>13. \A i \in DOMAIN qs : qs[i] <= ps[i]
  <2>1. qs[k] <= ps[k]
    <3> DEFINE p == ps[k]
               q == qs[k]
    <3>1. p \in Int /\ q \in Int /\ d \in Int /\ d >= 0 /\ q = p - d
      BY <1>2, <1>4, <1>6, <1>9
    <3> HIDE DEF p, q
    <3>2. q <= p
      BY <3>1
    <3> QED BY <3>2 DEF p, q
  <2>2. \A i \in DOMAIN ps \ {k} : qs[i] <= ps[i]
    BY <1>6, <1>9
  <2> QED BY <1>6, <2>1, <2>2
<1>14. SumFunction(qs) + d = 200 * N
  BY <1>4, <1>12
<1> QED BY <1>3, <1>4, <1>5, <1>7, <1>13, <1>14

(* A turn of randomRedPacket keeps the invariant. *)
LEMMA DrawKeeps ==
    ASSUME RedInv, remainSize > 0,
           NEW r1 \in Draw1[remainSize], NEW r2 \in Draw2[remainSize], NEW e \in Rounding,
           Draw(r1, r2, e)
    PROVE  /\ RedInv' /\ size' = size
           /\ size <= 11 /\ RedSmall => RedSmall'
<1> DEFINE money == Share(r1 * r2, e)
           ps == Append(redPackes, money)
<1>0. /\ size \in Nat /\ remainSize \in 2..size /\ remainMoney \in Nat \ {0}
      /\ redPackes \in Seq(Nat \ {0}) /\ Len(redPackes) = size - remainSize
      /\ remainSize' = remainSize - 1 /\ size' = size /\ size \in Sizes
  BY RedPacketAssumption DEF RedInv, Draw
<1>1. r1 \in 50..100 /\ r2 \in 100..200 /\ e \in {0, 1}
  <2>1. remainSize \in 1..size
    BY <1>0
  <2>2. Draw1[remainSize] \subseteq 50..100 /\ Draw2[remainSize] \subseteq 100..200
    BY <1>0, <2>1, RedPacketAssumption
  <2> QED BY <2>2, RedPacketAssumption
<1>2. FairDraw(remainMoney, remainSize, money)
  <2>1. LostWhenExact(r1 * r2, e)
    BY DEF Draw, LostWhenExact
  <2>2. remainSize \in Nat /\ remainSize >= 2
    BY <1>0
  <2> QED BY <1>0, <1>1, <2>1, <2>2, ShareBounds
<1>b. money \in Nat /\ 1 <= money /\ money <= remainMoney
  BY <1>2 DEF FairDraw
<1>3. /\ redPackes \in Seq(Nat) /\ money \in Nat \ {0}
      /\ SumFunction(redPackes) + remainMoney = 200 * size
  BY <1>0, <1>b DEF RedInv, SumPreserved
<1>4. IF remainMoney = money THEN PutBack(ps)
      ELSE redPackes' = ps /\ remainMoney' = remainMoney - money
  BY DEF Draw
<1> HIDE DEF money
<1>5. SumFunction(ps) = SumFunction(redPackes) + money
  BY <1>b, <1>3, SumAppend
<1>6. /\ ps \in Seq(Nat \ {0}) /\ Len(ps) = size - remainSize + 1
      /\ DOMAIN ps = 1..Len(ps)
      /\ \A i \in 1..Len(ps) : i # Len(ps) => i \in DOMAIN redPackes /\ ps[i] = redPackes[i]
      /\ ps[Len(ps)] = money
  <2>1. /\ ps \in Seq(Nat \ {0}) /\ Len(ps) = Len(redPackes) + 1 /\ DOMAIN ps = 1..Len(ps)
    BY <1>0, <1>3
  <2>2. /\ \A i \in 1..Len(redPackes) : i \in DOMAIN redPackes /\ ps[i] = redPackes[i]
        /\ ps[Len(redPackes) + 1] = money
    BY <1>0, <1>3
  <2>3. Len(redPackes) \in Nat
    BY <1>0
  <2> QED BY <1>0, <2>1, <2>2, <2>3
<1> HIDE DEF ps
<1>7. SumFunction(redPackes) \in Int
  <2> DEFINE S == DOMAIN redPackes
             m == Len(redPackes)
  <2>1. m \in Nat /\ S = 1..m /\ \A x \in S : redPackes[x] \in Int
    BY <1>3
  <2> HIDE DEF S, m
  <2>2. SumFunctionOnSet(redPackes, S) \in Int
    <3>1. IsFiniteSet(S)
      BY <2>1, FS_Interval
    <3> QED BY <2>1, <3>1, SumInt
  <2> QED BY <2>2 DEF SumFunction, S
<1>8. /\ redPackes' \in Seq(Nat \ {0}) /\ Len(redPackes') = Len(ps)
      /\ remainMoney' \in Nat \ {0}
      /\ SumFunction(redPackes') + remainMoney' = 200 * size
      /\ \A i \in DOMAIN redPackes' : redPackes'[i] <= ps[i]
      /\ remainMoney' <= 200 \/ remainMoney' = remainMoney - money
  <2>1. CASE remainMoney = money
    <3>1. PutBack(ps) /\ SumFunction(ps) = 200 * size /\ Len(ps) < size + size
      BY <1>0, <1>3, <1>4, <1>5, <1>6, <1>7, <2>1
    <3>2. /\ redPackes' \in Seq(Nat \ {0}) /\ Len(redPackes') = Len(ps)
          /\ remainMoney' \in 1..200
          /\ SumFunction(redPackes') + remainMoney' = 200 * size
          /\ \A i \in DOMAIN redPackes' : redPackes'[i] <= ps[i]
      BY <1>0, <1>6, <3>1, PutBackKeeps
    <3>3. remainMoney' \in Nat \ {0} /\ remainMoney' <= 200
      BY <3>2
    <3> QED BY <3>2, <3>3
  <2>2. CASE remainMoney # money
    <3>1. redPackes' = ps /\ remainMoney' = remainMoney - money
      BY <1>4, <2>2
    <3>2. SumFunction(ps) + (remainMoney - money) = 200 * size
      BY <1>0, <1>b, <1>3, <1>5, <1>7
    <3>3. remainMoney - money \in Nat \ {0}
      BY <1>0, <1>b, <2>2
    <3>4. \A i \in DOMAIN ps : ps[i] <= ps[i]
      BY <1>6
    <3> QED BY <1>6, <3>1, <3>2, <3>3, <3>4
  <2> QED BY <2>1, <2>2
<1>9. RedInv'
  <2>1. remainSize' # 0 /\ remainSize' \in 0..size /\ Len(redPackes') = size - remainSize'
    BY <1>0, <1>6, <1>8
  <2>2. SumPreserved'
    BY <1>0, <1>8, <2>1 DEF SumPreserved
  <2> QED BY <1>0, <1>8, <2>1, <2>2 DEF RedInv
<1>10. ASSUME size <= 11, RedSmall PROVE RedSmall'
  <2>1. remainSize \in 2..11 /\ remainMoney <= MostRemaining[remainSize]
    BY <1>0, <1>10 DEF RedSmall
  <2>2. /\ remainMoney - money <= MostRemaining[remainSize - 1]
        /\ 200 <= MostRemaining[remainSize - 1]
        /\ money < 1000
    <3>1. remainSize \in 2..11 /\ remainMoney \in Nat
      BY <1>0, <2>1
    <3> QED BY <1>2, <2>1, <3>1, DrawSmall
  <2>3. MostRemaining[remainSize - 1] \in Nat
    BY <2>1 DEF MostRemaining
  <2>4. remainMoney' <= MostRemaining[remainSize']
    <3> DEFINE T == MostRemaining[remainSize - 1]
    <3>1. /\ remainMoney - money <= T /\ 200 <= T /\ T \in Nat
          /\ MostRemaining[remainSize'] = T
      BY <1>0, <2>2, <2>3
    <3>2. remainMoney \in Nat /\ remainMoney' \in Nat
      BY <1>0, <1>8
    <3>3. remainMoney' <= 200 \/ remainMoney' = remainMoney - money
      BY <1>8
    <3> HIDE DEF T
    <3>4. remainMoney' <= T
      BY <1>b, <3>1, <3>2, <3>3
    <3> QED BY <3>1, <3>4
  <2>5. \A i \in DOMAIN ps : ps[i] < 1000
    BY <1>6, <1>10, <2>2 DEF RedSmall
  <2>6. /\ DOMAIN redPackes' = DOMAIN ps
        /\ \A i \in DOMAIN ps : ps[i] \in Nat /\ redPackes'[i] \in Nat
    BY <1>6, <1>8
  <2>7. \A i \in DOMAIN redPackes' : redPackes'[i] < 1000
    BY <1>8, <2>5, <2>6
  <2> QED BY <2>4, <2>7 DEF RedSmall
<1> QED BY <1>0, <1>9, <1>10

(* The last packet of randomRedPacket gets what remains. *)
LEMMA RestKeeps ==
    ASSUME RedInv, Rest
    PROVE  /\ RedInv' /\ size' = size
           /\ size <= 11 /\ RedSmall => RedSmall'
<1>0. /\ size \in Nat \ {0} /\ remainSize = 1 /\ remainMoney \in Nat \ {0}
      /\ redPackes \in Seq(Nat \ {0}) /\ redPackes \in Seq(Nat) /\ Len(redPackes) = size - 1
      /\ remainSize' = 0 /\ remainMoney' = remainMoney /\ size' = size /\ size \in Sizes
      /\ redPackes' = Append(redPackes, remainMoney)
      /\ SumFunction(redPackes) + remainMoney = 200 * size
  BY RedPacketAssumption DEF RedInv, Rest, SumPreserved
<1>1. SumFunction(redPackes') = SumFunction(redPackes) + remainMoney
  BY <1>0, SumAppend
<1>2. redPackes' \in Seq(Nat \ {0}) /\ Len(redPackes') = size
  BY <1>0
<1>3. SumPreserved'
  <2>1. SumFunction(redPackes') = 200 * size /\ 200 * size \in Nat
    BY <1>0, <1>1
  <2> QED BY <1>0, <2>1 DEF SumPreserved
<1>4. RedInv'
  BY <1>0, <1>2, <1>3 DEF RedInv
<1>5. ASSUME size <= 11, RedSmall PROVE RedSmall'
  <2>1. remainMoney < 1000
    BY <1>0, <1>5 DEF RedSmall, MostRemaining
  <2>2. \A i \in DOMAIN redPackes : redPackes[i] < 1000
    BY <1>5 DEF RedSmall
  <2>3. \A i \in DOMAIN redPackes' : redPackes'[i] < 1000
    <3>1. /\ DOMAIN redPackes' = 1..(Len(redPackes) + 1) /\ Len(redPackes) \in Nat
          /\ \A i \in 1..Len(redPackes) : i \in DOMAIN redPackes /\ redPackes'[i] = redPackes[i]
          /\ redPackes'[Len(redPackes) + 1] = remainMoney
      BY <1>0
    <3>2. \A i \in 1..(Len(redPackes) + 1) : i \in 1..Len(redPackes) \/ i = Len(redPackes) + 1
      BY <3>1
    <3> QED BY <2>1, <2>2, <3>1, <3>2
  <2> QED BY <1>0, <2>3 DEF RedSmall
<1> QED BY <1>0, <1>4, <1>5

(* Before a packet is dealt all cents are left. *)
LEMMA RedInitially == RedInit => RedInv /\ (size <= 11 => RedSmall)
<1> SUFFICES ASSUME RedInit PROVE RedInv /\ (size <= 11 => RedSmall)
  OBVIOUS
<1>0. /\ size \in Sizes /\ size \in Nat \ {0} /\ redPackes = << >> /\ remainMoney = 200 * size /\ remainSize = size
  BY RedPacketAssumption DEF RedInit
<1>1. SumFunction(redPackes) = 0
  <2>1. DOMAIN redPackes = {}
    BY <1>0
  <2> QED BY <2>1, SumEmpty DEF SumFunction
<1>2. redPackes \in Seq(Nat \ {0}) /\ Len(redPackes) = 0 /\ DOMAIN redPackes = {}
  BY <1>0
<1>3. RedInv
  BY <1>0, <1>1, <1>2 DEF RedInv, SumPreserved
<1>4. size <= 11 => remainMoney <= MostRemaining[size]
  <2> SUFFICES ASSUME size <= 11 PROVE 200 * size <= MostRemaining[size]
    BY <1>0
  <2>1. size \in {1, 2, 3, 4, 5, 6, 7, 8, 9, 10, 11}
    BY <1>0
  <2> QED BY <2>1 DEF MostRemaining
<1> QED BY <1>0, <1>2, <1>3, <1>4 DEF RedSmall

(* The invariant of randomRedPacket; with at most eleven packets also the    *)
(* bounds on the packets.                                                    *)
LEMMA RedStep ==
    RedInv /\ [RedNext]_redVars =>
      RedInv' /\ size' = size /\ (size <= 11 /\ RedSmall => RedSmall')
<1> SUFFICES ASSUME RedInv, [RedNext]_redVars
             PROVE  RedInv' /\ size' = size /\ (size <= 11 /\ RedSmall => RedSmall')
  OBVIOUS
<1>1. CASE UNCHANGED redVars
  BY <1>1 DEF redVars, RedInv, RedSmall, SumPreserved
<1>2. CASE Rest
  BY <1>2, RestKeeps
<1>3. ASSUME remainSize > 0, NEW r1 \in Draw1[remainSize], NEW r2 \in Draw2[remainSize],
             NEW e \in Rounding, Draw(r1, r2, e)
      PROVE  RedInv' /\ size' = size /\ (size <= 11 /\ RedSmall => RedSmall')
  BY <1>3, DrawKeeps
<1> QED BY <1>1, <1>2, <1>3 DEF RedNext

(* randomRedPacket neither creates nor loses a cent, never deals an empty    *)
(* packet and always has something for the next one, for any number of       *)
(* packets and any draws.                                                    *)
THEOREM CentsConserved == RedSpec => [](RedTypeOK /\ SumPreserved /\ NoEmptyPacket)
<1>1. RedInv => RedTypeOK /\ SumPreserved /\ NoEmptyPacket
  BY DEF RedInv, RedTypeOK, NoEmptyPacket
<1> QED BY <1>1, RedInitially, RedStep, PTL DEF RedSpec

(* Whatever the draws: the cents add up, no packet is empty, and with up to  *)
(* eleven packets every one has a class, so that getResult can settle the    *)
(* round.  Eleven is the most: twelve packets may hold one of 10.00.         *)
THEOREM DealtPacketsClassified == RedSpec => []PacketsDealt
<1> DEFINE Inv == RedInv /\ (size <= 11 => RedSmall)
<1>1. Inv => PacketsDealt
  <2> SUFFICES ASSUME RedInv, size <= 11 => RedSmall PROVE PacketsDealt
    OBVIOUS
  <2>1. NoEmptyPacket /\ SumPreserved /\ size \in Nat
    BY RedPacketAssumption DEF RedInv, NoEmptyPacket
  <2>2. ASSUME size < 12 PROVE EveryPacketClassified
    <3>1. RedSmall
      BY <2>1, <2>2
    <3>2. \A i \in DOMAIN redPackes : redPackes[i] \in Nat \ {0} /\ redPackes[i] < 1000
      BY <3>1 DEF RedInv, RedSmall
    <3>3. \A c \in Nat \ {0} : c < 1000 => Classified(c)
      BY DEF Classified, LastThree
    <3> QED BY <3>2, <3>3 DEF EveryPacketClassified
  <2> QED BY <2>1, <2>2 DEF PacketsDealt
<1>2. RedInit => Inv
  BY RedInitially
<1>3. Inv /\ [RedNext]_redVars => Inv'
  BY RedStep
<1> HIDE DEF Inv
<1> QED BY <1>1, <1>2, <1>3, PTL DEF RedSpec
=============================================================================

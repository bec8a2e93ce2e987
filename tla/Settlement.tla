----------------------------- MODULE Settlement -----------------------------
(***************************************************************************)
(* The money side of one hongbao round: bets are pledged (logic.beter),    *)
(* packets are dealt and every bet is settled (poker_utils.getResult).     *)
(* HongbaoRoom models the same round with its interleavings and lets a     *)
(* settlement bring each bettor any amount within the pledges; this module *)
(* has the amounts the source computes and shows them within the pledges.  *)
(***************************************************************************)
EXTENDS CowResult, Sequences, FiniteSets, Functions

CONSTANTS
    Bettor,        \* members who may bet
    BetMenu,       \* bets a client may place
    MaxBets,       \* bound: bets of one member
    Stake,         \* bankerGameCoin of the banker, in half coins
    BankerPackets, \* packets the banker may be dealt, in cents
    UserPackets    \* packets a bettor may be dealt, in cents

ASSUME SettlementAssumption ==
    /\ IsFiniteSet(Bettor) /\ BetMenu \subseteq Bet /\ MaxBets \in Nat /\ Stake \in Nat
    /\ BankerPackets \subseteq Nat /\ UserPackets \subseteq Nat

VARIABLES
    bet_data,          \* the bets of each member
    bankerSurplusCoin, \* what of the stake is not pledged against a bet
    frozen,            \* coins of each bettor frozen for his bets
    packets,           \* the banker's packet and the bettors', once dealt
    result,            \* coinChange of each bettor, once settled
    state              \* "bet", "dealt", "settled", or "raised": getResult failed

settleVars == <<bet_data, bankerSurplusCoin, frozen, packets, result, state>>

Bettors == {u \in Bettor : bet_data[u] # << >>}

SettleInit ==
    /\ bet_data = [u \in Bettor |-> << >>]
    /\ bankerSurplusCoin = Stake
    /\ frozen = [u \in Bettor |-> 0]
    /\ packets = [banker |-> 0, user |-> << >>]
    /\ result = << >>
    /\ state = "bet"

(* logic.beter allows one type per member; only points may be bet on       *)
(* repeatedly, each once.                                                  *)
MayBet(u, b) ==
    /\ state = "bet" /\ Len(bet_data[u]) < MaxBets
    /\ \A i \in DOMAIN bet_data[u] : /\ bet_data[u][i].type = b.type
                                     /\ b.type = POINT
                                     /\ bet_data[u][i].sub_type # b.sub_type

(* Mutant of Beter: a further bet replaces the frozen coins of the first. *)
BeterReplaces(u, b) ==
    /\ MayBet(u, b)
    /\ bankerSurplusCoin >= BankerReduceCoin(b)
    /\ bankerSurplusCoin' = bankerSurplusCoin - BankerReduceCoin(b)
    /\ frozen' = [frozen EXCEPT ![u] = GameCoin(b)]
    /\ bet_data' = [bet_data EXCEPT ![u] = Append(@, b)]
    /\ UNCHANGED <<packets, result, state>>

(* logic.beter: the banker's unpledged coins must cover the bet; what it   *)
(* may cost the bettor is frozen.                                          *)
Beter(u, b) ==
    /\ MayBet(u, b)
    /\ bankerSurplusCoin >= BankerReduceCoin(b)
    /\ bankerSurplusCoin' = bankerSurplusCoin - BankerReduceCoin(b)
    /\ frozen' = [frozen EXCEPT ![u] = @ + GameCoin(b)]
    /\ bet_data' = [bet_data EXCEPT ![u] = Append(@, b)]
    /\ UNCHANGED <<packets, result, state>>

(* send_packet: the banker and every bettor get a packet. *)
Deal(banker, user) ==
    /\ state = "bet" /\ Bettors # {}
    /\ packets' = [banker |-> banker, user |-> user]
    /\ state' = "dealt"
    /\ UNCHANGED <<bet_data, bankerSurplusCoin, frozen, result>>

CoinChange(u) == SumFunction([i \in DOMAIN bet_data[u] |->
                                BetCoin(bet_data[u][i], packets.banker, packets.user[u])])

AllClassified == Classified(packets.banker) /\ \A u \in Bettors : Classified(packets.user[u])

(* getResult: the change of every bettor; reading the class of a packet    *)
(* that has none raises an error and nobody is settled.                    *)
GetResult ==
    /\ state = "dealt"
    /\ \/ AllClassified /\ state' = "settled" /\ result' = [u \in Bettors |-> CoinChange(u)]
       \/ ~AllClassified /\ state' = "raised" /\ UNCHANGED result
    /\ UNCHANGED <<bet_data, bankerSurplusCoin, frozen, packets>>

SettleNext ==
    \/ \E u \in Bettor, b \in BetMenu : Beter(u, b)
    \/ \E banker \in BankerPackets, user \in [Bettors -> UserPackets] : Deal(banker, user)
    \/ GetResult

SettleSpec == SettleInit /\ [][SettleNext]_settleVars

-----------------------------------------------------------------------------
(* Properties.                                                             *)

(* Type invariant: what is pledged never exceeds the banker's stake. *)
SettleTypeOK ==
    /\ DOMAIN bet_data = Bettor
    /\ \A u \in Bettor : \A i \in DOMAIN bet_data[u] : bet_data[u][i] \in Bet
    /\ bankerSurplusCoin \in 0..Stake
    /\ frozen \in [Bettor -> Nat]
    /\ packets.banker \in Nat /\ packets.user \in [DOMAIN packets.user -> Nat]
    /\ result \in [DOMAIN result -> Int]
    /\ state \in {"bet", "dealt", "settled", "raised"}

(* A settlement is covered by what the bets pledged (logic.beter): no       *)
(* bettor loses more than was frozen for his bets, and the winners together *)
(* take no more from the banker than his bets were pledged.                *)
PaidWithinPledge ==
    state = "settled" =>
      /\ \A u \in Bettors : result[u] >= - frozen[u]
      /\ SumFunction(result) <= Stake - bankerSurplusCoin

(* Packet c ranks as high as packet d: by class, then by amount. *)
RanksAs(c, d) == PointType(c) > PointType(d) \/ (PointType(c) = PointType(d) /\ c >= d)

(* Of two bettors with the same cow bet the one with the better packet      *)
(* never ends worse (getResult pays the winner his own rate and lets every  *)
(* loser pay the banker's).                                                 *)
BetterPacketPaysMore ==
    state = "settled" =>
      \A u, v \in Bettors :
        (/\ bet_data[u] = bet_data[v] /\ bet_data[u][1].type \in {DOUBLE, SINGLE}
         /\ RanksAs(packets.user[u], packets.user[v])) => result[u] >= result[v]

(* The settlement is covered, and it ranks the bettors as their packets.    *)
SettlementFair == PaidWithinPledge /\ BetterPacketPaysMore
=============================================================================

----------------------------- MODULE RedPacket -----------------------------
(***************************************************************************)
(* poker_utils.randomRedPacket: the amounts of the packets of one round.   *)
(* send_packet asks for 2 coins, 200 cents, for each of the size players.  *)
(* A draw takes between half and twice the average of what remains; when a *)
(* draw takes everything a part of an earlier packet is put back.          *)
(*                                                                         *)
(* The source computes in floating point.  An exact quotient may come out  *)
(* just below the integer and lose a cent; any other quotient is too far   *)
(* from the next integer for the rounding to matter.                       *)
(***************************************************************************)
EXTENDS CowResult, Sequences, FiniteSets, FiniteSetsExt, Functions

CONSTANTS
    Sizes,    \* numbers of packets wanted: the bettors and the banker, any number
    Draw1,    \* what math.random(50, 100) may return with so many packets to go
    Draw2,    \* what math.random(100, 200) may return with so many packets to go
    PutAmounts,     \* what the draws that put cents back may return
    Rounding  \* cents an exact quotient may lose: {0, 1}, or {0} for exact arithmetic

ASSUME RedPacketAssumption ==
    /\ Sizes \subseteq Nat \ {0} /\ PutAmounts \subseteq 1..200 /\ Rounding \subseteq {0, 1}
    /\ \A n \in Sizes : \A s \in 1..n : Draw1[s] \subseteq 50..100 /\ Draw2[s] \subseteq 100..200

VARIABLES size, redPackes, remainMoney, remainSize

redVars == <<size, redPackes, remainMoney, remainSize>>

RedInit == size \in Sizes /\ redPackes = << >> /\ remainMoney = 200 * size /\ remainSize = size

(* The amounts that may be put back from a packet of c cents. *)
PutRange(c) == PutAmounts \cap (IF c > 300 THEN 100..200 ELSE IF c > 200 THEN 50..100 ELSE 1..100)

(* Mutant of PutBack: the packet keeps what is put back. *)
PutBackCopies(ps) ==
    LET rich == {i \in DOMAIN ps : ps[i] > 100}
    IN  IF rich = {} THEN redPackes' = ps /\ remainMoney' = 0
        ELSE LET k == Min(rich)
             IN  \E d \in PutRange(ps[k]) : redPackes' = ps /\ remainMoney' = d

(* Nothing remains: the first packet of more than a coin gives some back.  *)
PutBack(ps) ==
    LET rich == {i \in DOMAIN ps : ps[i] > 100}
    IN  IF rich = {} THEN redPackes' = ps /\ remainMoney' = 0
        ELSE LET k == Min(rich)
             IN  \E d \in PutRange(ps[k]) :
                   redPackes' = [ps EXCEPT ![k] = @ - d] /\ remainMoney' = d

(* r / 10000 of the average of what remains, and at least one cent. *)
Share(r, e) == Max({1, (r * remainMoney) \div (remainSize * 10000) - e})

(* One turn of the loop, not the last; e is the cent lost by rounding.     *)
Draw(r1, r2, e) ==
    LET money == Share(r1 * r2, e)
        ps    == Append(redPackes, money)
    IN  /\ remainSize > 1
        /\ e = 1 => (r1 * r2 * remainMoney) % (remainSize * 10000) = 0
        /\ remainSize' = remainSize - 1
        /\ IF remainMoney = money
             THEN PutBack(ps)
             ELSE redPackes' = ps /\ remainMoney' = remainMoney - money
        /\ UNCHANGED size

(* The last packet gets what remains. *)
Rest ==
    /\ remainSize = 1
    /\ remainSize' = 0
    /\ redPackes' = Append(redPackes, remainMoney)
    /\ UNCHANGED <<size, remainMoney>>

RedNext ==
    \/ remainSize > 0 /\ \E r1 \in Draw1[remainSize], r2 \in Draw2[remainSize], e \in Rounding :
                            Draw(r1, r2, e)
    \/ Rest

RedSpec == RedInit /\ [][RedNext]_redVars

-----------------------------------------------------------------------------
(* Properties.                                                             *)

(* What is left of the packet and what was drawn keep their types.           *)
RedTypeOK == /\ size \in Sizes /\ remainSize \in 0..size
             /\ remainMoney \in Nat
             /\ redPackes \in Seq(Int) /\ Len(redPackes) = size - remainSize

(* The packets and what remains are what the banker sends: randomRedPacket  *)
(* neither creates nor loses a cent, also when it puts cents back.          *)
SumPreserved ==
    SumFunction(redPackes) + (IF remainSize = 0 THEN 0 ELSE remainMoney) = 200 * size

(* No packet is empty and something remains as long as a packet is due:     *)
(* where a draw takes everything, randomRedPacket finds a packet that can   *)
(* give some back.                                                          *)
NoEmptyPacket == remainMoney > 0 /\ \A i \in DOMAIN redPackes : redPackes[i] > 0

(* Every packet has a class, as getResult requires of the packets it is     *)
(* given.                                                                   *)
EveryPacketClassified == \A i \in DOMAIN redPackes : Classified(redPackes[i])

(* What is dealt: nothing of what the banker sent is missing, no packet is   *)
(* empty, and up to eleven packets the round can be settled.  From twelve on *)
(* randomRedPacket may deal one of 10.00, which has no class.                *)
PacketsDealt == SumPreserved /\ NoEmptyPacket /\ (size < 12 => EveryPacketClassified)
=============================================================================

---------------------------- MODULE MCStructures ----------------------------
(***************************************************************************)
(* The data structures of the kernel (timing wheel, message queue, handle  *)
(* table), the packing of messages, the gate's cutting of streams into     *)
(* packets, and the computations of a round: settlement of the bets and    *)
(* amounts of the packets of hongbao, pay-out of pk10.  They share no      *)
(* state: a behaviour of this specification is one of one component,       *)
(* `part`, while the others stay as they began.                            *)
(***************************************************************************)
EXTENDS SkynetTimer, SkynetMq, SkynetHandle, NetPack, Settlement, RedPacket, Pk10Result, LuaSeri

CONSTANTS u1, u2

VARIABLE part

structVars == <<part, timerVars, mqVars, handleVars, netpackVars, settleVars, redVars, payVars, seriVars>>

StructInit ==
    /\ part \in {"timer", "mq", "handle", "netpack", "settlement", "packets", "pk10", "seri"}
    /\ TimerInit /\ MqInit /\ HandleInit /\ NetPackInit /\ SettleInit /\ RedInit /\ PayInit /\ SeriInit
    /\ part # "packets" => size = Min(Sizes)    \* one of them will do for the others

(* Only part p may change. *)
Only(p) ==
    /\ part = p /\ UNCHANGED part
    /\ IF p = "timer" THEN TRUE ELSE UNCHANGED timerVars
    /\ IF p = "mq" THEN TRUE ELSE UNCHANGED mqVars
    /\ IF p = "handle" THEN TRUE ELSE UNCHANGED handleVars
    /\ IF p = "netpack" THEN TRUE ELSE UNCHANGED netpackVars
    /\ IF p = "settlement" THEN TRUE ELSE UNCHANGED settleVars
    /\ IF p = "packets" THEN TRUE ELSE UNCHANGED redVars
    /\ IF p = "pk10" THEN TRUE ELSE UNCHANGED payVars
    /\ IF p = "seri" THEN TRUE ELSE UNCHANGED seriVars

StructNext ==
    \/ Only("timer") /\ TimerNext
    \/ Only("mq") /\ MqNext
    \/ Only("handle") /\ HandleNext
    \/ Only("netpack") /\ NetPackNext
    \/ Only("settlement") /\ SettleNext
    \/ Only("packets") /\ RedNext
    \/ Only("pk10") /\ PayNext
    \/ Only("seri") /\ SeriNext

StructSpec == StructInit /\ [][StructNext]_structVars

-----------------------------------------------------------------------------
(* The variables of every component keep their types.                       *)
StructTypeOK ==
    /\ TimerTypeOK /\ MqTypeOK /\ HandleTypeOK /\ NetPackTypeOK
    /\ SettleTypeOK /\ RedTypeOK /\ PayTypeOK

-----------------------------------------------------------------------------
(* Every packet below 10.00 has one of the sixteen classes. *)
ASSUME EveryAmountHasAClass ==
    \A c \in 1..999 : Classified(c) /\ PointType(c) \in 1..16

(* Packets of a client whose lengths, 0, 1 and 2, differ in both bytes. *)
MCClientPackets == {<<>>, <<1>>, <<1, 0>>}

(* Arguments of messages, at the boundaries of their forms: with a byte of two  *)
(* values a word has 4, a dword 16 and a qword 256.  Tables with borders that   *)
(* skip a missing value, and nested ones, one of them too deep.                 *)
Bits(n) == Str([i \in 1..n |-> i % 2])
Nested == Tab(0, {<<Bits(1), Num(1)>>})
NestedTwice == Tab(1, {<<Num(1), Nested>>})
MCSeriValues ==
    {NilValue, Bool(TRUE), Bool(FALSE), Real(77)}
      \cup {Num(n) : n \in {-128, -9, -8, -1, 0, 1, 2, 3, 4, 7, 8, 127}}
      \cup {Bits(n) : n \in 0..5}
      \cup {Tab(n, {<<Num(i), Bool(TRUE)>> : i \in 1..n}) : n \in 0..4}
      \cup {Tab(n, {<<Num(1), Num(5)>>, <<Num(3), Num(6)>>}) : n \in {1, 3}}
      \cup {Nested, NestedTwice, Tab(0, {<<Bool(FALSE), NestedTwice>>})}

(* Packets of the lowest, of middle and of the highest classes, pairs of    *)
(* the same class, and 10.00, which has none.                               *)
MCPackets == {1, 2, 101, 8, 99, 712, 10, 123, 1000, 1111}
MCBankerPackets == {2, 8, 123, 999}

One(type, sub) == [type |-> type, sub_type |-> sub, value |-> 1]
(* Bets of the four types: big, small, odd, even and their combinations,    *)
(* "he", and the lowest, a middle and the highest point.                    *)
MCBets == {One(DOUBLE, 0), One(SINGLE, 0)} \cup {One(DXDS, d) : d \in 1..9}
            \cup {One(POINT, p) : p \in {1, 5, 10}}

(* Draws: the least while more than five packets are to go, which leaves the *)
(* most for the last ones; the ends and some of the middle of each range up  *)
(* to three packets, and then every draw from its upper part.  Twelve        *)
(* packets may so hold one of 10.00.                                         *)
MCDraw1 == [s \in 1..Max(Sizes) |->
              IF s > 5 THEN {50} ELSE IF s > 2 THEN {50, 100} ELSE {50} \cup 85..100]
MCDraw2 == [s \in 1..Max(Sizes) |->
              IF s > 5 THEN {100} ELSE IF s > 2 THEN {100, 106, 200} ELSE 190..200]
MCPutAmounts == {1, 50, 99, 100, 150, 200}
=============================================================================

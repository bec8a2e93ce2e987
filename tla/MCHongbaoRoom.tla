--------------------------- MODULE MCHongbaoRoom ---------------------------
EXTENDS HongbaoRoom, TLC

(* Every step ends at its first tick. *)
MCFast == [s \in Steps |-> 0]

(* A bet that pays at most its stake; bets on two special points. *)
MCOneBet == {[type |-> 2, sub_type |-> 0, reduce |-> 1, game_coin |-> 1]}
MCPoints == {[type |-> 4, sub_type |-> i, reduce |-> 1, game_coin |-> 1] : i \in {1, 2}}

(* A bet on a point that does not exist besides. *)
MCUnknown == MCOneBet \cup {[type |-> 4, sub_type |-> 17, reduce |-> 1, game_coin |-> 1]}

(* The pairs of handlers that overlap in each run. *)
MCBetOverlap == {{"bet"}, {"bet", "tick"}}
MCRobOverlap == {{"rob"}}

UserSymmetry == Permutations(User)
Symmetry == UserSymmetry \cup Permutations(Coroutine)
============================================================================

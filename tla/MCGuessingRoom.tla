--------------------------- MODULE MCGuessingRoom ---------------------------
EXTENDS GuessingRoom, TLC

MCDuration == (BET_START :> 2) @@ (PUNCHES_START :> 2) @@ (WAIT_RESULT :> 1)
MCBrief == [st \in {BET_START, PUNCHES_START, WAIT_RESULT} |-> 1]

(* What freezes or moves coins may overlap, but for a tick while another draws  *)
(* fists.                                                                       *)
MCCoinMoves ==
    {{"bet"}, {"quit"}, {"tick"}, {"bet", "quit"}, {"bet", "tick"}, {"quit", "tick"},
     {"bet", "fists"}, {"quit", "fists"}}

MCSymmetry == Permutations(Coroutine) \cup Permutations(User)
=============================================================================

------------------------------ MODULE MCLobby ------------------------------
EXTENDS Lobby, TLC

MCSymmetry == Permutations(Fd) \cup Permutations(Uid) \cup Permutations(Agent)
=============================================================================

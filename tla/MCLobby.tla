------------------------------- MODULE MCLobby -------------------------------
(***************************************************************************)
(* Lobby for TLC.  Ratings 1, 2 and 3 with a difference of one allowed:    *)
(* both neighbours match, the outer two do not.                            *)
(***************************************************************************)
EXTENDS Lobby

Symmetry == Permutations(Connections) \union Permutations(Users)
=============================================================================

------------------------------- MODULE MCTui -------------------------------
(***************************************************************************)
(* Tui for TLC: one battle that can be played, and one that can be opened  *)
(* and no more, which is enough for an answer of the other battle.         *)
(***************************************************************************)
EXTENDS Tui, TLC

CONSTANTS b1, b2

MCMaxVersion == b1 :> 3 @@ b2 :> 1
=============================================================================

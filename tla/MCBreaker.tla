----------------------------- MODULE MCBreaker -----------------------------
(***************************************************************************)
(* Breaker for TLC.                                                        *)
(***************************************************************************)
EXTENDS Breaker, TLC

MCSymmetry == Permutations(Callers)
=============================================================================

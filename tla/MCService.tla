----------------------------- MODULE MCService -----------------------------
(***************************************************************************)
(* Service for TLC: two requests, two battles, two trainers, either store; *)
(* a batch of one, so that a sweep can leave an expired battle behind.     *)
(***************************************************************************)
EXTENDS Service, TLC

MCSymmetry == Permutations(Names) \cup Permutations(Requests)
              \cup Permutations(Tokens) \cup Permutations(Ids)
=============================================================================

------------------------------ MODULE MCMobile ------------------------------
(***************************************************************************)
(* Mobile for TLC.                                                         *)
(***************************************************************************)
EXTENDS Mobile, TLC

CONSTANT b1

MCMaxVersion == b1 :> 5
=============================================================================

------------------------------ MODULE MCScreens ------------------------------
(***************************************************************************)
(* Screens for TLC.                                                        *)
(***************************************************************************)
EXTENDS Screens, TLC

CONSTANT b1

MCMaxVersion == b1 :> 4
=============================================================================

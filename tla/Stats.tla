------------------------------- MODULE Stats -------------------------------
(***************************************************************************)
(* The stat-stage arithmetic of services/pokedex/stats.go: stages clamped  *)
(* to a symmetric range, the multiplier of an accuracy stage as a fraction *)
(* <<num, den>>, and whether a status move lands.  A roll of the code's    *)
(* Float64() in [0, 1) is a whole percentage 0..99.                        *)
(***************************************************************************)
EXTENDS Integers

CONSTANTS MaxStage,  \* 6 in the code
          Rolls      \* the percentages a roll may come up with

ASSUME StatsAssumption == /\ MaxStage \in Nat \ {0}
                          /\ Rolls \subseteq 0..99
                          /\ Rolls # {}

StatNames == {"attack", "defense", "speed", "accuracy"}

StageRange == (-MaxStage)..MaxStage

ClampStage(s) ==
  IF s < -MaxStage THEN -MaxStage ELSE IF s > MaxStage THEN MaxStage ELSE s

AccuracyMultiplier(stage) ==
  LET s == ClampStage(stage) IN IF s >= 0 THEN <<3 + s, 3>> ELSE <<3, 3 - s>>

\* roll < min(acc * multiplier, 100), without the division
Lands(acc, stage, roll) ==
  \/ acc <= 0
  \/ LET mult == AccuracyMultiplier(stage)
     IN  /\ roll * mult[2] < acc * mult[1]
         /\ roll < 100

\* A combatant's stages with delta applied to one stat
AddStage(stages, stat, delta) ==
  [stages EXCEPT ![stat] = ClampStage(@ + delta)]

NoStages == [s \in StatNames |-> 0]
=============================================================================

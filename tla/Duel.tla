-------------------------------- MODULE Duel --------------------------------
(***************************************************************************)
(* What a battle promises to those who play and watch it: two players      *)
(* alternate, each turn fells at most one Pokemon, and the battle is over  *)
(* the moment a side has none standing, for the other side.  Battle        *)
(* implements it with all its moves, stages and conditions.                *)
(***************************************************************************)
EXTENDS Integers

CONSTANTS Trainers, NoTrainer, Slots

VARIABLES phase, players, standing, mover, victor, version

vars == <<phase, players, standing, mover, victor, version>>

Sides == 1..2
Other(s) == 3 - s

Init ==
  \E tr \in Trainers :
    /\ phase = "waiting"
    /\ players = [s \in Sides |-> IF s = 1 THEN tr ELSE NoTrainer]
    /\ standing = [s \in Sides |-> IF s = 1 THEN Slots ELSE {}]
    /\ mover = 1
    /\ victor = NoTrainer
    /\ version = 1

Accept ==
  /\ phase = "waiting"
  /\ phase' = "active"
  /\ \E tr \in Trainers \ {players[1]} : players' = [players EXCEPT ![2] = tr]
  /\ standing' = [standing EXCEPT ![2] = Slots]
  /\ mover' = 1
  /\ version' = version + 1
  /\ UNCHANGED victor

\* The mover's turn takes the slots `fallen` (none or one) from side s
Turn(s, fallen) ==
  /\ phase = "active"
  /\ standing' = [standing EXCEPT ![s] = @ \ fallen]
  /\ IF standing[s] \subseteq fallen
     THEN /\ phase' = "finished"
          /\ victor' = players[Other(s)]
          /\ UNCHANGED mover
     ELSE /\ mover' = Other(mover)
          /\ UNCHANGED <<phase, victor>>
  /\ version' = version + 1
  /\ UNCHANGED players

Next ==
  \/ Accept
  \/ \E s \in Sides : Turn(s, {}) \/ \E i \in standing[s] : Turn(s, {i})

Spec == Init /\ [][Next]_vars
=============================================================================

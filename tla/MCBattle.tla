----------------------------- MODULE MCBattle -----------------------------
(***************************************************************************)
(* A small dex for Battle: one species with every kind of status move but  *)
(* stat changes and an immunity, one with stat changes; teams of two.      *)
(***************************************************************************)
EXTENDS Picks, TLC

CONSTANTS ann, bob, cat, nobody, pidgey, gastly, noMon

Attack(power, immune) ==
  [power |-> power, immune |-> immune, kind |-> "nothing", acc |-> 0,
   amount |-> 0, stat |-> "attack", self |-> FALSE]

Status(kind, acc, amount, stat, self) ==
  [power |-> 0, immune |-> {}, kind |-> kind, acc |-> acc, amount |-> amount,
   stat |-> stat, self |-> self]

MCTrainers == {ann, bob, cat}
MCSpecies == {pidgey, gastly}

MCMoves == [sp \in MCSpecies |->
  IF sp = pidgey
  THEN <<Attack(2, {gastly}),
         Status("confuse", 55, 0, "attack", FALSE),
         Status("stat", 100, -1, "accuracy", FALSE),
         Status("ohko", 30, 0, "attack", FALSE),
         Attack(4, {})>>
  ELSE <<Attack(4, {}),
         Attack(3, {}),
         Status("disable", 100, 0, "attack", FALSE),
         Status("fixed", 90, 1, "attack", FALSE),
         Status("stat", 0, 2, "defense", TRUE),
         Status("nothing", 0, 0, "attack", FALSE)>>]

MCFullHP == [sp \in MCSpecies |-> IF sp = pidgey THEN 2 ELSE 3]
MCTeams == {<<pidgey, gastly>>}
MCSymmetry == Permutations(MCTrainers)
MCRolls == {0, 60}

\* The dex meets its assumption
ASSUME DexAssumption == TwoDamagingMoves
=============================================================================

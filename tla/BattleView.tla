----------------------------- MODULE BattleView -----------------------------
(***************************************************************************)
(* The projection of a battle the API sends (toAPI in battle.go) and the   *)
(* check every Go client makes on it before it sends a turn (CheckTurn in  *)
(* battleclient/client.go).  A client knows the battle by trainer names    *)
(* and by the server's verdicts, never by tokens or the rules.             *)
(***************************************************************************)
EXTENDS Battle

ToAPI ==
  [status |-> status,
   \* only an active battle says whose turn it is
   turn   |-> IF status = "active" THEN owner[turn] ELSE NoTrainer,
   joined |-> status # "waiting",
   sides  |-> [s \in Sides |->
     LET sideActive == status = "active" /\ turn = s
     IN  [trainer       |-> owner[s],
          canAct        |-> {i \in Slots : sideActive /\ CanAct(s, i)},
          canBeTargeted |-> {i \in Slots : ~sideActive /\ CanBeTargeted(s, i)},
          fainted       |-> {i \in Slots : Fainted(s, i)},
          moves         |-> [i \in Slots |->
                               IF mon[s][i] \in Species THEN MoveCount(s, i) ELSE 0],
          usable        |-> [i \in Slots |->
                               IF mon[s][i] \in Species
                               THEN {m \in 1..MoveCount(s, i) : MoveUsable(s, i, m)}
                               ELSE {}]]]]

\* SideIndex: the side of the trainer called name, 0 when there is none
SideIndex(view, name) ==
  IF ~view.joined THEN 0
  ELSE IF name = view.sides[1].trainer THEN 1
  ELSE IF name = view.sides[2].trainer THEN 2
  ELSE 0

\* Mutant: any player of an active battle
MyTurnActive(view, name) == view.status = "active"

MyTurn(view, name) == view.status = "active" /\ view.turn = name

CheckTurn(view, name, a, m, t) ==
  LET me == SideIndex(view, name)
      mine == view.sides[me]
      theirs == view.sides[3 - me]
  IN  IF view.status = "finished" THEN "errBattleOver"
      ELSE IF view.status # "active" THEN "errNotWaiting"
      ELSE IF me = 0 \/ ~MyTurn(view, name) THEN "errNotYourTurn"
      ELSE IF a \notin Slots THEN "no attacker"
      ELSE IF t \notin Slots THEN "no target"
      ELSE IF a \notin mine.canAct THEN "attacker fainted"
      ELSE IF m \notin 1..mine.moves[a] THEN "no move"
      ELSE IF t \notin theirs.canBeTargeted THEN "errTargetFainted"
      ELSE IF m \notin mine.usable[a] THEN "disabled"
      ELSE "ok"

\* The move indices a request may carry, in range or just outside
MoveRequests == UNION {0..(Len(Moves[sp]) + 1) : sp \in Species}

\* "Order matches takeTurn's so the two agree on the first reason a turn is
\* illegal": for every request, in range or not and from either player or a
\* stranger, the client's reason is the server's.
VerdictsAgree ==
  LET view == ToAPI
  IN  \A tr \in Trainers, a, t \in 0..(TeamSize + 1), m \in MoveRequests :
        CheckTurn(view, tr, a, m, t) = TurnVerdict(tr, a, m, t)
=============================================================================

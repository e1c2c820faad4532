------------------------------- MODULE Picks -------------------------------
(***************************************************************************)
(* The turns a player can pick, from the battle as the API shows it: the   *)
(* phone's three rows of buttons (pokedex-mobile), and the React page's    *)
(* cards and check (pokedex-web).                                          *)
(***************************************************************************)
EXTENDS BattleView

Mine(view, name) == view.sides[SideIndex(view, name)]
Theirs(view, name) == view.sides[3 - SideIndex(view, name)]

TurnsOf(attackers, moves, targets) ==
  UNION {{<<a, m, t>> : m \in moves[a], t \in targets} : a \in attackers}

-----------------------------------------------------------------------------
\* Mutant: the side that does not move has nobody who can act
PhoneTargetsByCanAct(view, name) == Theirs(view, name).canAct

\* pickRow enables who can be targeted; a single one is taken without asking
PhoneTargets(view, name) == Theirs(view, name).canBeTargeted

PhoneTurns(view, name) ==
  IF SideIndex(view, name) = 0 \/ ~MyTurn(view, name) THEN {}
  ELSE TurnsOf(Mine(view, name).canAct, Mine(view, name).usable, PhoneTargets(view, name))

-----------------------------------------------------------------------------
\* checkTurn of shared.ts, as accepted or not
PageCheckTurn(view, name, a, m, t) ==
  LET me == SideIndex(view, name)
  IN  /\ MyTurn(view, name)
      /\ me # 0
      /\ a \in Slots /\ t \in Slots
      /\ a \in view.sides[me].canAct
      /\ m \in 1..view.sides[me].moves[a]
      /\ t \in view.sides[3 - me].canBeTargeted
      /\ m \in view.sides[me].usable[a]

\* A card can be picked unless it has fainted; what was picked before stays
\* picked, so the check before the POST has the last word.
PageTurns(view, name) ==
  IF SideIndex(view, name) = 0 THEN {}
  ELSE LET moves == [a \in Slots |-> 1..Mine(view, name).moves[a]]
           upright(side) == Slots \ side.fainted
       IN  {p \in TurnsOf(upright(Mine(view, name)), moves, upright(Theirs(view, name))) :
              PageCheckTurn(view, name, p[1], p[2], p[3])}

-----------------------------------------------------------------------------
LegalTurns(tr) ==
  {p \in TurnsOf(Slots, [a \in Slots |-> 1..MoveCount(turn, a)], Slots) :
     TurnVerdict(tr, p[1], p[2], p[3]) = "ok"}

\* The phone and the React page offer exactly the turns the server takes, to
\* whoever looks: no legal turn is out of reach and none that is offered is
\* refused ("the server owns the rule and a derived copy will drift",
\* pokedex-mobile/state.go).
LegalTurnsOffered ==
  LET view == ToAPI
  IN  \A tr \in Trainers :
        LET legal == IF status = "active" THEN LegalTurns(tr) ELSE {}
        IN  /\ PhoneTurns(view, tr) = legal
            /\ PageTurns(view, tr) = legal
=============================================================================

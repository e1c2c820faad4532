------------------------------- MODULE Battle -------------------------------
(***************************************************************************)
(* The rules of one battle, from services/pokedex/battle.go: newBattle is  *)
(* Init, join is Join and takeTurn (with resolveStatus and finishTurn) is  *)
(* TakeTurn.  The two sides are 1 and 2 where the code has 0 and 1, and    *)
(* team slots and move indices start at 1; the disabled value 0 is -1 in   *)
(* the code.                                                               *)
(*                                                                         *)
(* What a rolled amount of damage is does not matter to the rules, only    *)
(* that it is at least 1 or exactly 0 (an immune target).  A log is its    *)
(* length: the clients count on that and never on the wording.             *)
(***************************************************************************)
EXTENDS Stats, FiniteSets, Sequences

CONSTANTS Trainers, NoTrainer,
          Species, NoMon,
          Moves,      \* Moves[sp]: the moves of a species, in order
          FullHP,     \* FullHP[sp]: what maxHP gives for it
          TeamSize,   \* 3 in the code
          Teams,      \* the teams a trainer may bring
          MaxTurns    \* bound of the model on the turns of a battle

Sides == 1..2
Slots == 1..TeamSize

EffectKinds == {"nothing", "ohko", "fixed", "confuse", "disable", "stat"}

\* immune: the species whose types the move's type has no effect on
MoveRecord == [power: Nat, immune: SUBSET Species, kind: EffectKinds,
               acc: Nat, amount: Int, stat: StatNames, self: BOOLEAN]

ASSUME BattleAssumption ==
  /\ TeamSize \in Nat \ {0}
  /\ MaxTurns \in Nat
  /\ NoTrainer \notin Trainers
  /\ NoMon \notin Species
  /\ Moves \in [Species -> Seq(MoveRecord)]
  /\ FullHP \in [Species -> Nat \ {0}]
  /\ Teams \subseteq [Slots -> Species]
  /\ \A sp \in Species : \A m \in DOMAIN Moves[sp] :
       Moves[sp][m].kind = "fixed" => Moves[sp][m].amount > 0

VARIABLES status, owner, mon, hp, stages, confused, disabled,
          turn, winner, turnNumber, version, logLen

team == <<mon, hp, stages, confused, disabled>>
vars == <<status, owner, team, turn, winner, turnNumber, version, logLen>>

-----------------------------------------------------------------------------
Opponent(s) == 3 - s

Fainted(s, i) == hp[s][i] <= 0

\* newCombatants: what a chosen team starts with
FreshHP(tm) == [i \in Slots |-> FullHP[tm[i]]]

MoveCount(s, i) == Len(Moves[mon[s][i]])

CanAct(s, i) == ~Fainted(s, i)

CanBeTargeted(s, i) == ~Fainted(s, i)

\* Mutant: a comparison that is as good while nothing is disabled
MoveUsableAbove(s, i, m) == m \in 1..MoveCount(s, i) /\ m > disabled[s][i]

MoveUsable(s, i, m) == m \in 1..MoveCount(s, i) /\ m # disabled[s][i]

\* The first of the strongest moves of a species, 0 when none does damage
StrongestMove(sp) ==
  LET power(m) == Moves[sp][m].power
      best == {m \in DOMAIN Moves[sp] :
                 power(m) > 0 /\ \A n \in DOMAIN Moves[sp] : power(n) <= power(m)}
  IN  IF best = {} THEN 0 ELSE CHOOSE m \in best : \A n \in best : m <= n

-----------------------------------------------------------------------------
Init ==
  \E tr \in Trainers, tm \in Teams :
    /\ status = "waiting"
    /\ owner = [s \in Sides |-> IF s = 1 THEN tr ELSE NoTrainer]
    /\ mon = [s \in Sides |-> IF s = 1 THEN tm ELSE [i \in Slots |-> NoMon]]
    /\ hp = [s \in Sides |-> IF s = 1 THEN FreshHP(tm) ELSE [i \in Slots |-> 0]]
    /\ stages = [s \in Sides |-> [i \in Slots |-> NoStages]]
    /\ confused = [s \in Sides |-> [i \in Slots |-> FALSE]]
    /\ disabled = [s \in Sides |-> [i \in Slots |-> 0]]
    /\ turn = 1
    /\ winner = NoTrainer
    /\ turnNumber = 0
    /\ version = 1
    /\ logLen = 1

\* Mutant: joined again
JoinVerdictAnytime(tr) == IF owner[1] = tr THEN "errAlreadyIn" ELSE "ok"

\* Mutant: joined by its opener
JoinVerdictAnyone(tr) == IF status # "waiting" THEN "errBattleFull" ELSE "ok"

JoinVerdict(tr) ==
  IF status # "waiting" THEN "errBattleFull"
  ELSE IF owner[1] = tr THEN "errAlreadyIn"
  ELSE "ok"

Join(tr, tm) ==
  /\ JoinVerdict(tr) = "ok"
  /\ status' = "active"
  /\ owner' = [owner EXCEPT ![2] = tr]
  /\ mon' = [mon EXCEPT ![2] = tm]
  /\ hp' = [hp EXCEPT ![2] = FreshHP(tm)]
  /\ turn' = 1
  /\ version' = version + 1
  /\ logLen' = logLen + 1
  /\ UNCHANGED <<stages, confused, disabled, winner, turnNumber>>

\* takeTurn's refusals, in the order the code meets them
TurnVerdict(tr, a, m, t) ==
  IF status = "finished" THEN "errBattleOver"
  ELSE IF status # "active" THEN "errNotWaiting"
  ELSE IF owner[turn] # tr THEN "errNotYourTurn"
  ELSE IF a \notin Slots THEN "no attacker"
  ELSE IF t \notin Slots THEN "no target"
  ELSE IF ~CanAct(turn, a) THEN "attacker fainted"
  ELSE IF m \notin 1..MoveCount(turn, a) THEN "no move"
  ELSE IF ~CanBeTargeted(Opponent(turn), t) THEN "errTargetFainted"
  ELSE IF ~MoveUsable(turn, a, m) THEN "disabled"
  ELSE "ok"

\* Ends the turn of the side to move, given the hp it leaves behind (hp')
\* and the entries it has logged so far; the hurt Pokemon is slot i of s.
FinishTurn(s, i, entries) ==
  LET me == turn
      opponent == Opponent(turn)
      beaten(side) == \A j \in Slots : hp'[side][j] <= 0
      over == beaten(me) \/ beaten(opponent)
      faintEntry == IF hp'[s][i] <= 0 THEN 1 ELSE 0
      winEntry == IF over THEN 1 ELSE 0
  IN  /\ status' = IF over THEN "finished" ELSE "active"
      /\ winner' = IF beaten(opponent) THEN owner[me]
                   ELSE IF beaten(me) THEN owner[opponent] ELSE winner
      /\ turn' = IF over THEN turn ELSE Opponent(turn)
      /\ logLen' = logLen + entries + faintEntry + winEntry
      /\ version' = version + 1

\* The hp of slot i of side s after losing d points
Hurt(s, i, d) ==
  [hp EXCEPT ![s][i] = IF @ > d THEN @ - d ELSE 0]

Half(n) == IF n < 2 THEN 1 ELSE n \div 2

\* Mutant: returns without finishTurn
HurtItselfUnfinished(a, m, roll) ==
  /\ confused[turn][a]
  /\ roll < 33
  /\ hp' = Hurt(turn, a, Half(Moves[mon[turn][a]][m].power))
  /\ logLen' = logLen + 1
  /\ UNCHANGED <<status, turn, winner, version, stages, confused, disabled>>

\* A confused attacker hits itself on a roll under 33
HurtItself(a, m, roll) ==
  /\ confused[turn][a]
  /\ roll < 33
  /\ hp' = Hurt(turn, a, Half(Moves[mon[turn][a]][m].power))
  /\ FinishTurn(turn, a, 1)
  /\ UNCHANGED <<stages, confused, disabled>>

\* Otherwise it snaps out of its confusion, if it had any
SnapEntry(a) == IF confused[turn][a] THEN 1 ELSE 0

Snapped(a) == [confused EXCEPT ![turn][a] = FALSE]

-----------------------------------------------------------------------------
\* resolveStatus, one operator per outcome: the move has no power, o is the
\* opponent's side and mv the move.

NothingHappens == UNCHANGED <<hp, stages, disabled>>

OneHitKO(o, t, a) ==
  /\ hp' = [hp EXCEPT ![o][t] = 0]
  /\ confused' = Snapped(a)
  /\ UNCHANGED <<stages, disabled>>

\* Mutant: falls on the attacker
FixedDamageBack(o, t, a, mv) ==
  /\ hp' = Hurt(turn, a, mv.amount)
  /\ confused' = Snapped(a)
  /\ UNCHANGED <<stages, disabled>>

FixedDamage(o, t, a, mv) ==
  /\ hp' = Hurt(o, t, mv.amount)
  /\ confused' = Snapped(a)
  /\ UNCHANGED <<stages, disabled>>

Confuse(o, t, a) ==
  /\ confused' = [Snapped(a) EXCEPT ![o][t] = TRUE]
  /\ NothingHappens

\* Mutant: the number a player knows the move by, one more than its index
DisableNumber(o, t, a) ==
  LET best == StrongestMove(mon[o][t])
  IN  /\ disabled' = IF best = 0 THEN disabled
                     ELSE [disabled EXCEPT ![o][t] = best + 1]
      /\ confused' = Snapped(a)
      /\ UNCHANGED <<hp, stages>>

Disable(o, t, a) ==
  LET best == StrongestMove(mon[o][t])
  IN  /\ disabled' = IF best = 0 THEN disabled
                     ELSE [disabled EXCEPT ![o][t] = best]
      /\ confused' = Snapped(a)
      /\ UNCHANGED <<hp, stages>>

ChangeStat(o, t, a, mv) ==
  LET s == IF mv.self THEN turn ELSE o
      i == IF mv.self THEN a ELSE t
  IN  /\ stages' = [stages EXCEPT ![s][i] = AddStage(@, mv.stat, mv.amount)]
      /\ confused' = Snapped(a)
      /\ UNCHANGED <<hp, disabled>>

Misses(a, mv, roll) ==
  \/ mv.kind = "nothing"
  \/ ~Lands(mv.acc, stages[turn][a]["accuracy"], roll)

ResolveStatus(a, mv, t, roll) ==
  LET o == Opponent(turn)
  IN  \/ /\ Misses(a, mv, roll)
         /\ confused' = Snapped(a)
         /\ NothingHappens
      \/ /\ ~Misses(a, mv, roll)
         /\ \/ mv.kind = "ohko" /\ OneHitKO(o, t, a)
            \/ mv.kind = "fixed" /\ FixedDamage(o, t, a, mv)
            \/ mv.kind = "confuse" /\ Confuse(o, t, a)
            \/ mv.kind = "disable" /\ Disable(o, t, a)
            \/ mv.kind = "stat" /\ ChangeStat(o, t, a, mv)

-----------------------------------------------------------------------------
\* Mutant: the move itself is not logged
StatusMoveSilent(a, m, t, roll) ==
  LET mv == Moves[mon[turn][a]][m]
  IN  /\ mv.power = 0
      /\ ResolveStatus(a, mv, t, roll)
      /\ FinishTurn(Opponent(turn), t, SnapEntry(a))

StatusMove(a, m, t, roll) ==
  LET mv == Moves[mon[turn][a]][m]
  IN  /\ mv.power = 0
      /\ ResolveStatus(a, mv, t, roll)
      /\ FinishTurn(Opponent(turn), t, SnapEntry(a) + 1)

\* damage() gives 0 against an immune target and otherwise at least 1
Damage(mv, o, t) == IF mon[o][t] \in mv.immune THEN {0} ELSE 1..hp[o][t]

DamagingMove(a, m, t) ==
  LET mv == Moves[mon[turn][a]][m]
      o == Opponent(turn)
  IN  /\ mv.power # 0
      /\ \E d \in Damage(mv, o, t) : hp' = Hurt(o, t, d)
      /\ confused' = Snapped(a)
      /\ FinishTurn(o, t, SnapEntry(a) + 1)
      /\ UNCHANGED <<stages, disabled>>

TakeTurn(tr, a, m, t) ==
  /\ turnNumber < MaxTurns
  /\ TurnVerdict(tr, a, m, t) = "ok"
  /\ turnNumber' = turnNumber + 1
  /\ UNCHANGED <<owner, mon>>
  /\ \E roll \in Rolls :
       \/ HurtItself(a, m, roll)
       \/ /\ confused[turn][a] => roll >= 33
          /\ \/ \E accRoll \in Rolls : StatusMove(a, m, t, accRoll)
             \/ DamagingMove(a, m, t)

Next ==
  \/ \E tr \in Trainers, tm \in Teams : Join(tr, tm)
  \/ \E tr \in Trainers, a, t \in Slots : \E m \in 1..MoveCount(turn, a) :
       TakeTurn(tr, a, m, t)

Spec == Init /\ [][Next]_vars

-----------------------------------------------------------------------------
Defeated(s) == \A i \in Slots : Fainted(s, i)

\* Every variable has its type; in particular no sequence of moves takes hp
\* below 0, a stage out of its range, or disables a move the Pokemon lacks.
TypeOK ==
  /\ status \in {"waiting", "active", "finished"}
  /\ owner \in [Sides -> Trainers \cup {NoTrainer}]
  /\ mon \in [Sides -> [Slots -> Species \cup {NoMon}]]
  /\ hp \in [Sides -> [Slots -> Nat]]
  /\ stages \in [Sides -> [Slots -> [StatNames -> StageRange]]]
  /\ confused \in [Sides -> [Slots -> BOOLEAN]]
  /\ disabled \in [Sides -> [Slots -> Nat]]
  /\ \A s \in Sides, i \in Slots : disabled[s][i] # 0 =>
        mon[s][i] \in Species /\ disabled[s][i] \in DOMAIN Moves[mon[s][i]]
  /\ turn \in Sides
  /\ winner \in Trainers \cup {NoTrainer}
  /\ turnNumber \in 0..MaxTurns
  /\ version \in Nat
  /\ logLen \in Nat

\* A battle goes on exactly as long as both sides have a Pokemon standing,
\* and when it ends the trainer who still has one is the winner: also when
\* the last Pokemon of the side to move knocked itself out (finishTurn).
DefeatDecidesBattle ==
  /\ status = "active" => \A s \in Sides : ~Defeated(s) /\ winner = NoTrainer
  /\ status = "finished" =>
       \E s \in Sides : /\ Defeated(s)
                        /\ ~Defeated(Opponent(s))
                        /\ winner = owner[Opponent(s)]

\* The data of the dex: every species has two moves that do damage.
TwoDamagingMoves ==
  \A sp \in Species : \E m, n \in DOMAIN Moves[sp] :
    m # n /\ Moves[sp][m].power > 0 /\ Moves[sp][n].power > 0

\* Whoever must move has an accepted turn with a damaging move, however many
\* disables, confusions and faints came before: disabled is never cleared by
\* the code, but it only ever takes a Pokemon's strongest move.
MoverCanAttack ==
  status = "active" =>
    \E a, t \in Slots : \E m \in 1..MoveCount(turn, a) :
      /\ TurnVerdict(owner[turn], a, m, t) = "ok"
      /\ Moves[mon[turn][a]][m].power > 0

\* The version a client polls on counts the accepted updates: 1 when opened,
\* 2 when joined and one more for every turn, the last one included.
VersionCountsUpdates ==
  version = IF status = "waiting" THEN 1 ELSE 2 + turnNumber

\* Every update logs something, so the log is at least as long as the version
\* is high: what polls with the length of the log waits too long, never too little.
LogOutgrowsVersion == logLen >= version

\* A confused or lowered Pokemon may miss or hit itself, but hit points never
\* come back, what was disabled stays disabled, and a finished battle stays
\* as it is (newCombatants sets up side 2, in the step that joins it).
NothingHeals ==
  [][/\ status # "finished"
     /\ status = "active" =>
          \A s \in Sides, i \in Slots :
             /\ hp'[s][i] <= hp[s][i]
             /\ disabled[s][i] # 0 => disabled'[s][i] = disabled[s][i]]_vars

\* A turn touches the hit points of one Pokemon only, and of the side to move
\* only if that Pokemon was confused.
OnlyConfusionHurtsItsOwn ==
  [][status = "active" =>
       /\ \A s, r \in Sides, i, j \in Slots :
            hp'[s][i] # hp[s][i] /\ hp'[r][j] # hp[r][j] => s = r /\ i = j
       /\ \A i \in Slots : hp'[turn][i] # hp[turn][i] => confused[turn][i]]_vars

-----------------------------------------------------------------------------
\* What a spectator is promised, with no hit points in it
standing == [s \in Sides |-> {i \in Slots : hp[s][i] > 0}]

D == INSTANCE Duel WITH phase <- status, players <- owner, mover <- turn,
                        victor <- winner

\* The battle is a duel: a turn fells at most one Pokemon, the sides take
\* turns until one of them has none standing, and every update has a version.
ImplementsDuel == D!Spec

=============================================================================

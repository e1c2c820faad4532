---------------------------- MODULE BattleProofs ----------------------------
(***************************************************************************)
(* Theorems about Battle, BattleView and Picks for every dex, team size    *)
(* and number of turns.                                                    *)
(***************************************************************************)
EXTENDS Picks, WellFoundedInduction, TLAPS

\* The Pokemon of a side that has taken its place are Pokemon of the dex,
\* with the moves and hit points the dex gives them; until then there is none.
TeamsKnown ==
  /\ \A s \in Sides : s = 1 \/ status # "waiting" => mon[s] \in [Slots -> Species]
  /\ status = "waiting" => mon[2] = [i \in Slots |-> NoMon]

\* The two players are two: the guard errAlreadyIn of join
PlayersDiffer ==
  /\ owner[1] \in Trainers
  /\ status # "waiting" => owner[2] \in Trainers /\ owner[1] # owner[2]

TypeInv == TypeOK /\ TeamsKnown /\ PlayersDiffer

-----------------------------------------------------------------------------
LEMMA SidesFacts ==
  /\ 1 \in Sides /\ 2 \in Sides
  /\ \A s \in Sides : Opponent(s) \in Sides /\ Opponent(s) # s
  /\ \A s, r \in Sides : r # s => r = Opponent(s)
BY DEF Sides, Opponent

\* A turn is accepted only in an active battle, from the owner of the side to
\* move, for slots that stand and a move the attacker has and may use.
LEMMA AcceptedTurn ==
  ASSUME TypeInv, NEW tr, NEW a, NEW m, NEW t, TurnVerdict(tr, a, m, t) = "ok"
  PROVE  /\ status = "active"
         /\ owner[turn] = tr
         /\ a \in Slots /\ t \in Slots
         /\ ~Fainted(turn, a) /\ ~Fainted(Opponent(turn), t)
         /\ m \in 1..MoveCount(turn, a)
         /\ m # disabled[turn][a]
         /\ mon[turn][a] \in Species
         /\ Moves[mon[turn][a]][m] \in MoveRecord
<1>1. /\ status = "active" /\ owner[turn] = tr /\ a \in Slots /\ t \in Slots
      /\ CanAct(turn, a) /\ CanBeTargeted(Opponent(turn), t)
      /\ m \in 1..MoveCount(turn, a) /\ MoveUsable(turn, a, m)
  BY DEF TurnVerdict, TypeInv, TypeOK
<1>2. mon[turn][a] \in Species
  BY <1>1 DEF TypeInv, TypeOK, TeamsKnown
<1>3. Moves[mon[turn][a]][m] \in MoveRecord
  <2> DEFINE sp == mon[turn][a]
  <2>1. Moves[sp] \in Seq(MoveRecord)
    BY <1>2, BattleAssumption
  <2>2. m \in 1..Len(Moves[sp])
    BY <1>1 DEF MoveCount
  <2> HIDE DEF sp
  <2> QED  BY <2>1, <2>2 DEF sp
<1> QED  BY <1>1, <1>2, <1>3 DEF CanAct, CanBeTargeted, MoveUsable

\* hp with h points left to slot i of side s
Left(s, i, h) == [hp EXCEPT ![s][i] = h]

LEMMA HurtIsLess ==
  ASSUME TypeInv, NEW s \in Sides, NEW i \in Slots, NEW d \in Nat
  PROVE  \E h \in Nat : /\ h <= hp[s][i]
                        /\ Hurt(s, i, d) = Left(s, i, h)
<1> DEFINE h == IF hp[s][i] > d THEN hp[s][i] - d ELSE 0
<1>1. hp[s][i] \in Nat
  BY DEF TypeInv, TypeOK
<1>2. h \in Nat /\ h <= hp[s][i]
  BY <1>1
<1>3. Hurt(s, i, d) = Left(s, i, h)
  BY DEF Hurt, Left
<1> QED  BY <1>2, <1>3

\* What every turn comes down to: one Pokemon is left with fewer or as many
\* hit points, it is the mover's own only if it attacked confused, and the
\* turn ends with at least one entry in the log.
TurnShape(tr, a, m, t, s, i, h, n) ==
  /\ h <= hp[s][i]
  /\ hp' = Left(s, i, h)
  /\ s = turn => i = a /\ confused[turn][a]
  /\ FinishTurn(s, i, n)

LEMMA TurnHasShape ==
  ASSUME TypeInv, NEW tr, NEW a, NEW m, NEW t, TakeTurn(tr, a, m, t)
  PROVE  \E s \in Sides, i \in Slots, h \in Nat, n \in 1..2 :
            TurnShape(tr, a, m, t, s, i, h, n)
<1> DEFINE mv == Moves[mon[turn][a]][m]
           o == Opponent(turn)
<1>1. /\ turn \in Sides /\ o \in Sides /\ o # turn
      /\ a \in Slots /\ t \in Slots /\ mv \in MoveRecord
  BY AcceptedTurn, SidesFacts DEF TakeTurn, TypeInv, TypeOK
<1>2. mv.power \in Nat /\ mv.amount \in Int /\ (mv.kind = "fixed" => mv.amount \in Nat)
  <2>1. mv.power \in Nat /\ mv.amount \in Int
    BY <1>1 DEF MoveRecord
  <2>2. mv.kind = "fixed" => mv.amount > 0
    <3>1. mon[turn][a] \in Species /\ m \in 1..Len(Moves[mon[turn][a]])
      BY AcceptedTurn DEF TakeTurn, MoveCount
    <3>2. Moves[mon[turn][a]] \in Seq(MoveRecord)
      BY <3>1, BattleAssumption
    <3>3. m \in DOMAIN Moves[mon[turn][a]]
      BY <3>1, <3>2
    <3> QED  BY <3>1, <3>3, BattleAssumption
  <2> QED  BY <2>1, <2>2
<1> HIDE DEF mv, o
<1>3. SnapEntry(a) + 1 \in 1..2
  BY DEF SnapEntry
<1>4. ASSUME NEW roll, HurtItself(a, m, roll)
      PROVE  \E s \in Sides, i \in Slots, h \in Nat, n \in 1..2 :
                TurnShape(tr, a, m, t, s, i, h, n)
  <2>1. Half(mv.power) \in Nat
    BY <1>2 DEF Half
  <2>2. hp' = Hurt(turn, a, Half(mv.power))
    BY <1>4 DEF HurtItself, mv
  <2>3. PICK h \in Nat : /\ h <= hp[turn][a]
                         /\ hp' = Left(turn, a, h)
    BY <2>1, <2>2, <1>1, HurtIsLess
  <2>4. TurnShape(tr, a, m, t, turn, a, h, 1)
    BY <2>3, <1>4 DEF TurnShape, HurtItself
  <2> QED  BY <2>4, <1>1
<1>5. ASSUME NEW h \in Nat, h <= hp[o][t],
             hp' = Left(o, t, h),
             FinishTurn(o, t, SnapEntry(a) + 1)
      PROVE  \E s \in Sides, i \in Slots, g \in Nat, n \in 1..2 :
                TurnShape(tr, a, m, t, s, i, g, n)
  <2>1. TurnShape(tr, a, m, t, o, t, h, SnapEntry(a) + 1)
    BY <1>1, <1>5 DEF TurnShape
  <2> QED  BY <2>1, <1>1, <1>3
<1>6. /\ hp[o][t] \in Nat
      /\ hp = Left(o, t, hp[o][t])
  BY <1>1 DEF TypeInv, TypeOK, Left
<1>7. ASSUME NEW roll, StatusMove(a, m, t, roll)
      PROVE  \E s \in Sides, i \in Slots, h \in Nat, n \in 1..2 :
                TurnShape(tr, a, m, t, s, i, h, n)
  <2>1. ResolveStatus(a, mv, t, roll) /\ FinishTurn(o, t, SnapEntry(a) + 1)
    BY <1>7 DEF StatusMove, mv, o
  <2>2. \/ UNCHANGED hp
        \/ OneHitKO(o, t, a)
        \/ mv.kind = "fixed" /\ FixedDamage(o, t, a, mv)
    BY <2>1 DEF ResolveStatus, NothingHappens, Confuse, Disable, ChangeStat, o
  <2>3. CASE UNCHANGED hp
    BY <2>1, <2>3, <1>5, <1>6
  <2>4. CASE OneHitKO(o, t, a)
    <3>1. hp' = Left(o, t, 0)
      BY <2>4 DEF OneHitKO, Left
    <3> QED  BY <2>1, <3>1, <1>5, <1>6
  <2>5. CASE mv.kind = "fixed" /\ FixedDamage(o, t, a, mv)
    <3>1. PICK h \in Nat : /\ h <= hp[o][t]
                           /\ hp' = Left(o, t, h)
      BY <2>5, <1>1, <1>2, HurtIsLess DEF FixedDamage
    <3> QED  BY <2>1, <3>1, <1>5
  <2> QED  BY <2>2, <2>3, <2>4, <2>5
<1>8. ASSUME DamagingMove(a, m, t)
      PROVE  \E s \in Sides, i \in Slots, h \in Nat, n \in 1..2 :
                TurnShape(tr, a, m, t, s, i, h, n)
  <2>1. PICK d \in Damage(mv, o, t) : hp' = Hurt(o, t, d)
    BY <1>8 DEF DamagingMove, mv, o
  <2>2. d \in Nat
    BY <2>1, <1>6 DEF Damage
  <2>3. PICK h \in Nat : /\ h <= hp[o][t]
                         /\ hp' = Left(o, t, h)
    BY <2>1, <2>2, <1>1, HurtIsLess
  <2>4. FinishTurn(o, t, SnapEntry(a) + 1)
    BY <1>8 DEF DamagingMove, o
  <2> QED  BY <2>3, <2>4, <1>5
<1> QED  BY <1>4, <1>7, <1>8 DEF TakeTurn

-----------------------------------------------------------------------------
LEMMA LeastExists ==
  ASSUME NEW S, S # {}, S \subseteq Nat
  PROVE  \E x \in S : \A y \in S : x <= y
<1> DEFINE less == OpToRel(<, Nat)
<1>1. IsWellFoundedOn(less, Nat)
  BY NatLessThanWellFounded
<1>2. \A x, y \in Nat : x < y => <<x, y>> \in less
  BY DEF OpToRel
<1> HIDE DEF less
<1>3. PICK x \in S : \A y \in S : <<y, x>> \notin less
  BY <1>1, WFMin
<1>4. \A y \in S : x <= y
  <2> SUFFICES ASSUME NEW y \in S PROVE ~(y < x)
    OBVIOUS
  <2>1. x \in Nat /\ y \in Nat
    OBVIOUS
  <2> QED  BY <1>2, <1>3, <2>1
<1> QED  BY <1>4

LEMMA StageInRange ==
  ASSUME NEW x \in Int  PROVE  ClampStage(x) \in StageRange
BY StatsAssumption DEF ClampStage, StageRange

\* The strongest move of a species is one of its moves, if it has any.
LEMMA StrongestIsAMove ==
  ASSUME NEW sp \in Species, StrongestMove(sp) # 0
  PROVE  StrongestMove(sp) \in DOMAIN Moves[sp] /\ StrongestMove(sp) \in Nat
<1>1. Moves[sp] \in Seq(MoveRecord)
  BY BattleAssumption
<1>2. \A x \in DOMAIN Moves[sp] : x \in Nat
  BY <1>1
<1>3. ASSUME NEW S, S # {}, S \subseteq Nat
      PROVE  (CHOOSE x \in S : \A y \in S : x <= y) \in S
  BY <1>3, LeastExists
<1>4. StrongestMove(sp) \in DOMAIN Moves[sp]
  <2> DEFINE power(m) == Moves[sp][m].power
             best == {m \in DOMAIN Moves[sp] :
                        power(m) > 0 /\ \A n \in DOMAIN Moves[sp] : power(n) <= power(m)}
  <2>1. best # {} /\ StrongestMove(sp) = CHOOSE m \in best : \A n \in best : m <= n
    BY DEF StrongestMove
  <2>2. best \subseteq DOMAIN Moves[sp] /\ best \subseteq Nat
    BY <1>2
  <2> HIDE DEF best
  <2> QED  BY <2>1, <2>2, <1>3
<1> QED  BY <1>2, <1>4

\* Nothing is disabled but a move the Pokemon has: what TypeOK says of it
DisabledAreMoves ==
  \A s \in Sides, i \in Slots : disabled[s][i] # 0 =>
     mon[s][i] \in Species /\ disabled[s][i] \in DOMAIN Moves[mon[s][i]]

\* What a turn does to the conditions of the Pokemon keeps their types.
LEMMA TurnKeepsConditions ==
  ASSUME TypeInv, NEW tr, NEW a, NEW m, NEW t, TakeTurn(tr, a, m, t)
  PROVE  /\ stages' \in [Sides -> [Slots -> [StatNames -> StageRange]]]
         /\ confused' \in [Sides -> [Slots -> BOOLEAN]]
         /\ disabled' \in [Sides -> [Slots -> Nat]]
         /\ DisabledAreMoves'
<1> DEFINE mv == Moves[mon[turn][a]][m]
           o == Opponent(turn)
<1>1. /\ turn \in Sides /\ o \in Sides
      /\ a \in Slots /\ t \in Slots /\ mv \in MoveRecord
  BY AcceptedTurn, SidesFacts DEF TakeTurn, TypeInv, TypeOK
<1>2. /\ stages \in [Sides -> [Slots -> [StatNames -> StageRange]]]
      /\ confused \in [Sides -> [Slots -> BOOLEAN]]
      /\ disabled \in [Sides -> [Slots -> Nat]]
  BY DEF TypeInv, TypeOK
<1> HIDE DEF mv, o
<1>3. DisabledAreMoves /\ mon' = mon
  BY DEF TypeInv, TypeOK, DisabledAreMoves, TakeTurn
<1>4. UNCHANGED disabled => DisabledAreMoves'
  BY <1>3 DEF DisabledAreMoves
<1>5. Snapped(a) \in [Sides -> [Slots -> BOOLEAN]]
  BY <1>1, <1>2 DEF Snapped
<1>6. ASSUME NEW roll, HurtItself(a, m, roll)
      PROVE  UNCHANGED <<stages, confused, disabled>>
  BY <1>6 DEF HurtItself
<1>7. ASSUME DamagingMove(a, m, t)
      PROVE  confused' = Snapped(a) /\ UNCHANGED <<stages, disabled>>
  BY <1>7 DEF DamagingMove
<1>8. ASSUME NEW roll, StatusMove(a, m, t, roll)
      PROVE  /\ stages' \in [Sides -> [Slots -> [StatNames -> StageRange]]]
             /\ confused' \in [Sides -> [Slots -> BOOLEAN]]
             /\ disabled' \in [Sides -> [Slots -> Nat]]
             /\ DisabledAreMoves'
  <2>1. ResolveStatus(a, mv, t, roll)
    BY <1>8 DEF StatusMove, mv
  <2>2. CASE Misses(a, mv, roll) /\ confused' = Snapped(a) /\ NothingHappens
    BY <2>2, <1>2, <1>5, <1>4 DEF NothingHappens
  <2>3. CASE OneHitKO(o, t, a)
    BY <2>3, <1>2, <1>5, <1>4 DEF OneHitKO
  <2>4. CASE FixedDamage(o, t, a, mv)
    BY <2>4, <1>2, <1>5, <1>4 DEF FixedDamage
  <2>5. CASE Confuse(o, t, a)
    BY <2>5, <1>1, <1>2, <1>5, <1>4 DEF Confuse, NothingHappens
  <2>6. CASE Disable(o, t, a)
    <3> DEFINE best == StrongestMove(mon[o][t])
    <3>1. mon[o][t] \in Species
      BY <1>1, AcceptedTurn DEF TakeTurn, TypeInv, TeamsKnown
    <3>2. best # 0 => best \in DOMAIN Moves[mon[o][t]] /\ best \in Nat
      BY <3>1, StrongestIsAMove
    <3>3. /\ disabled' = IF best = 0 THEN disabled ELSE [disabled EXCEPT ![o][t] = best]
          /\ confused' = Snapped(a) /\ UNCHANGED stages
      BY <2>6 DEF Disable
    <3> HIDE DEF best
    <3>4. disabled' \in [Sides -> [Slots -> Nat]]
      BY <3>2, <3>3, <1>1, <1>2
    <3>5. DisabledAreMoves'
      <4> SUFFICES ASSUME NEW s \in Sides, NEW i \in Slots, disabled'[s][i] # 0
                   PROVE  mon[s][i] \in Species /\ disabled'[s][i] \in DOMAIN Moves[mon[s][i]]
        BY <1>3 DEF DisabledAreMoves
      <4>1. CASE disabled'[s][i] = disabled[s][i]
        BY <4>1, <1>2, <1>3 DEF DisabledAreMoves
      <4>2. CASE disabled'[s][i] # disabled[s][i]
        <5>1. s = o /\ i = t /\ best # 0 /\ disabled'[s][i] = best
          BY <4>2, <3>3, <1>1, <1>2
        <5> QED  BY <5>1, <3>1, <3>2
      <4> QED  BY <4>1, <4>2
    <3> QED  BY <3>3, <3>4, <3>5, <1>2, <1>5
  <2>7. CASE ChangeStat(o, t, a, mv)
    <3> DEFINE s == IF mv.self THEN turn ELSE o
               i == IF mv.self THEN a ELSE t
    <3>1. s \in Sides /\ i \in Slots
      BY <1>1
    <3>2. /\ stages' = [stages EXCEPT ![s][i] = AddStage(@, mv.stat, mv.amount)]
          /\ confused' = Snapped(a) /\ UNCHANGED disabled
      BY <2>7 DEF ChangeStat
    <3>3. AddStage(stages[s][i], mv.stat, mv.amount) \in [StatNames -> StageRange]
      <4>1. stages[s][i] \in [StatNames -> StageRange]
        BY <3>1, <1>2
      <4>2. mv.stat \in StatNames /\ mv.amount \in Int
        BY <1>1 DEF MoveRecord
      <4>3. stages[s][i][mv.stat] + mv.amount \in Int
        BY <4>1, <4>2, StatsAssumption DEF StageRange
      <4> QED  BY <4>1, <4>2, <4>3, StageInRange DEF AddStage
    <3> HIDE DEF s, i
    <3> QED  BY <3>1, <3>2, <3>3, <1>2, <1>5, <1>4
  <2> QED  BY <2>1, <2>2, <2>3, <2>4, <2>5, <2>6, <2>7 DEF ResolveStatus, o
<1> QED  BY <1>2, <1>5, <1>6, <1>7, <1>8, <1>4 DEF TakeTurn

-----------------------------------------------------------------------------
\* A battle nobody has joined is as it was opened.
WaitingIsFresh ==
  status = "waiting" =>
    /\ \A i \in Slots : hp[1][i] > 0
    /\ winner = NoTrainer
    /\ turnNumber = 0

\* The inductive invariant.  DefeatDecidesBattle needs TurnShape, so the
\* types; across a join it needs WaitingIsFresh and TeamsKnown (fresh teams
\* stand); the version and the log need nothing but the types.
IInv ==
  /\ TypeInv
  /\ WaitingIsFresh
  /\ DefeatDecidesBattle
  /\ VersionCountsUpdates
  /\ LogOutgrowsVersion

LEMMA FreshTeamStands ==
  ASSUME NEW tm \in Teams
  PROVE  /\ tm \in [Slots -> Species]
         /\ FreshHP(tm) \in [Slots -> Nat]
         /\ \A i \in Slots : FreshHP(tm)[i] > 0
BY BattleAssumption DEF FreshHP

LEMMA SlotsExist == 1 \in Slots
BY BattleAssumption DEF Slots

LEMMA InitIInv == Init => IInv
<1> SUFFICES ASSUME Init PROVE IInv
  OBVIOUS
<1>1. PICK tr \in Trainers, tm \in Teams :
        /\ status = "waiting"
        /\ owner = [s \in Sides |-> IF s = 1 THEN tr ELSE NoTrainer]
        /\ mon = [s \in Sides |-> IF s = 1 THEN tm ELSE [i \in Slots |-> NoMon]]
        /\ hp = [s \in Sides |-> IF s = 1 THEN FreshHP(tm) ELSE [i \in Slots |-> 0]]
        /\ stages = [s \in Sides |-> [i \in Slots |-> NoStages]]
        /\ confused = [s \in Sides |-> [i \in Slots |-> FALSE]]
        /\ disabled = [s \in Sides |-> [i \in Slots |-> 0]]
        /\ turn = 1 /\ winner = NoTrainer /\ turnNumber = 0
        /\ version = 1 /\ logLen = 1
  BY DEF Init
<1>2. NoStages \in [StatNames -> StageRange]
  BY StatsAssumption DEF NoStages, StageRange
<1>3. TypeOK
  <2>1. mon \in [Sides -> [Slots -> Species \cup {NoMon}]]
    BY <1>1, FreshTeamStands
  <2>2. hp \in [Sides -> [Slots -> Nat]]
    BY <1>1, FreshTeamStands
  <2>3. stages \in [Sides -> [Slots -> [StatNames -> StageRange]]]
    BY <1>1, <1>2
  <2> QED  BY <1>1, <2>1, <2>2, <2>3, BattleAssumption, SidesFacts DEF TypeOK
<1>4. TeamsKnown /\ PlayersDiffer
  BY <1>1, FreshTeamStands, SidesFacts DEF TeamsKnown, PlayersDiffer
<1>5. WaitingIsFresh
  BY <1>1, FreshTeamStands, SidesFacts DEF WaitingIsFresh
<1>6. DefeatDecidesBattle /\ VersionCountsUpdates /\ LogOutgrowsVersion
  BY <1>1 DEF DefeatDecidesBattle, VersionCountsUpdates, LogOutgrowsVersion
<1> QED  BY <1>3, <1>4, <1>5, <1>6 DEF IInv, TypeInv

LEMMA JoinKeepsIInv ==
  ASSUME IInv, NEW tr \in Trainers, NEW tm \in Teams, Join(tr, tm)
  PROVE  IInv'
<1>1. status = "waiting" /\ owner[1] # tr
  BY DEF Join, JoinVerdict
<1>2. /\ status' = "active" /\ turn' = 1
      /\ owner' = [owner EXCEPT ![2] = tr]
      /\ mon' = [mon EXCEPT ![2] = tm]
      /\ hp' = [hp EXCEPT ![2] = FreshHP(tm)]
      /\ version' = version + 1 /\ logLen' = logLen + 1
      /\ UNCHANGED <<stages, confused, disabled, winner, turnNumber>>
  BY DEF Join
<1>3. TypeOK'
  <2>1. DisabledAreMoves'
    <3> SUFFICES ASSUME NEW s \in Sides, NEW i \in Slots, disabled[s][i] # 0
                 PROVE  /\ mon'[s][i] \in Species
                        /\ disabled[s][i] \in DOMAIN Moves[mon'[s][i]]
      BY <1>2 DEF DisabledAreMoves
    <3>1. mon[s][i] \in Species /\ disabled[s][i] \in DOMAIN Moves[mon[s][i]]
      BY DEF IInv, TypeInv, TypeOK
    <3>2. s = 1
      BY <1>1, <3>1, BattleAssumption DEF IInv, TypeInv, TeamsKnown, Sides
    <3>3. mon'[s] = mon[s]
      BY <1>2, <3>2, SidesFacts DEF IInv, TypeInv, TypeOK
    <3> QED  BY <3>1, <3>3
  <2> QED  BY <1>2, <2>1, FreshTeamStands, SidesFacts
           DEF IInv, TypeInv, TypeOK, DisabledAreMoves
<1>4. TeamsKnown' /\ PlayersDiffer'
  BY <1>1, <1>2, FreshTeamStands, SidesFacts
     DEF IInv, TypeInv, TypeOK, TeamsKnown, PlayersDiffer, Sides
<1>5. \A s \in Sides : \A i \in Slots : hp'[s][i] > 0
  <2>1. hp \in [Sides -> [Slots -> Nat]] /\ \A i \in Slots : hp[1][i] > 0
    BY <1>1 DEF IInv, TypeInv, TypeOK, WaitingIsFresh
  <2> QED  BY <2>1, <1>2, FreshTeamStands DEF Sides
<1>6. DefeatDecidesBattle'
  <2>1. \A s \in Sides : ~Defeated(s)'
    BY <1>3, <1>5, SlotsExist DEF Defeated, Fainted, TypeOK
  <2> QED  BY <2>1, <1>1, <1>2 DEF DefeatDecidesBattle, IInv, WaitingIsFresh
<1>7. WaitingIsFresh'
  BY <1>2 DEF WaitingIsFresh
<1>8. VersionCountsUpdates' /\ LogOutgrowsVersion'
  BY <1>1, <1>2 DEF IInv, TypeInv, TypeOK, WaitingIsFresh,
                    VersionCountsUpdates, LogOutgrowsVersion
<1> QED  BY <1>3, <1>4, <1>6, <1>7, <1>8 DEF IInv, TypeInv

\* In an active battle a turn leaves the side that is not hurt as it stood,
\* so at most one side is beaten, and FinishTurn decides by which.
LEMMA TurnDecides ==
  ASSUME IInv, NEW tr \in Trainers, NEW a, NEW m, NEW t, TakeTurn(tr, a, m, t)
  PROVE  /\ hp' \in [Sides -> [Slots -> Nat]]
         /\ status' \in {"active", "finished"}
         /\ turn' \in Sides
         /\ winner' \in Trainers \cup {NoTrainer}
         /\ version' = version + 1
         /\ logLen' \in Nat /\ logLen' >= logLen + 1
         /\ DefeatDecidesBattle'
<1>1. PICK s \in Sides, i \in Slots, h \in Nat, n \in 1..2 :
        TurnShape(tr, a, m, t, s, i, h, n)
  BY TurnHasShape DEF IInv
<1>2. hp' = Left(s, i, h) /\ FinishTurn(s, i, n)
  BY <1>1 DEF TurnShape
<1>3. /\ hp \in [Sides -> [Slots -> Nat]] /\ turn \in Sides
      /\ owner \in [Sides -> Trainers \cup {NoTrainer}]
      /\ logLen \in Nat
      /\ status = "active" /\ winner = NoTrainer
      /\ \A r \in Sides : ~Defeated(r)
      /\ owner' = owner
  BY AcceptedTurn DEF IInv, TypeInv, TypeOK, DefeatDecidesBattle, TakeTurn
<1>4. hp' \in [Sides -> [Slots -> Nat]]
  BY <1>2, <1>3 DEF Left
<1>5. hp'[Opponent(s)] = hp[Opponent(s)]
  BY <1>2, <1>3, SidesFacts DEF Left
<1> DEFINE beaten(r) == \A j \in Slots : hp'[r][j] <= 0
<1>6. ~beaten(Opponent(s))
  BY <1>3, <1>5, SidesFacts DEF Defeated, Fainted
<1>7. \A r \in Sides : Defeated(r)' <=> beaten(r)
  BY DEF Defeated, Fainted
<1>8. /\ status' = IF beaten(turn) \/ beaten(Opponent(turn)) THEN "finished" ELSE "active"
      /\ winner' = IF beaten(Opponent(turn)) THEN owner[turn]
                   ELSE IF beaten(turn) THEN owner[Opponent(turn)] ELSE winner
      /\ turn' = IF beaten(turn) \/ beaten(Opponent(turn)) THEN turn ELSE Opponent(turn)
      /\ version' = version + 1
      /\ logLen' = logLen + n + (IF hp'[s][i] <= 0 THEN 1 ELSE 0)
                    + (IF beaten(turn) \/ beaten(Opponent(turn)) THEN 1 ELSE 0)
  BY <1>2 DEF FinishTurn
<1>9. turn = s \/ turn = Opponent(s)
  BY <1>3, SidesFacts
<1>10. Opponent(Opponent(s)) = s
  BY SidesFacts
<1> HIDE DEF beaten
<1>11. DefeatDecidesBattle'
  <2>1. CASE beaten(s)
    <3>1. status' = "finished" /\ winner' = owner[Opponent(s)]
      BY <1>6, <1>8, <1>9, <1>10, <2>1
    <3> QED  BY <3>1, <2>1, <1>6, <1>7, <1>3, SidesFacts DEF DefeatDecidesBattle
  <2>2. CASE ~beaten(s)
    <3>1. status' = "active" /\ winner' = NoTrainer
      BY <1>3, <1>6, <1>8, <1>9, <1>10, <2>2
    <3>2. \A r \in Sides : ~beaten(r)
      BY <1>6, <2>2, SidesFacts
    <3> QED  BY <3>1, <3>2, <1>7 DEF DefeatDecidesBattle
  <2> QED  BY <2>1, <2>2
<1>12. logLen' \in Nat /\ logLen' >= logLen + 1
  <2> DEFINE f == IF hp'[s][i] <= 0 THEN 1 ELSE 0
             w == IF beaten(turn) \/ beaten(Opponent(turn)) THEN 1 ELSE 0
  <2>1. f \in Nat /\ w \in Nat
    OBVIOUS
  <2>2. logLen' = logLen + n + f + w
    BY <1>8
  <2> HIDE DEF f, w
  <2> QED  BY <2>1, <2>2, <1>3
<1> QED  BY <1>3, <1>4, <1>8, <1>11, <1>12, SidesFacts

LEMMA TurnKeepsIInv ==
  ASSUME IInv, NEW tr \in Trainers, NEW a, NEW m, NEW t, TakeTurn(tr, a, m, t)
  PROVE  IInv'
<1>1. /\ status = "active"
      /\ turnNumber < MaxTurns /\ turnNumber' = turnNumber + 1
      /\ UNCHANGED <<owner, mon>>
  BY AcceptedTurn DEF TakeTurn, IInv
<1>2. status' \in {"active", "finished"}
  BY TurnDecides
<1>3. TypeOK'
  <2>1. /\ stages' \in [Sides -> [Slots -> [StatNames -> StageRange]]]
        /\ confused' \in [Sides -> [Slots -> BOOLEAN]]
        /\ disabled' \in [Sides -> [Slots -> Nat]] /\ DisabledAreMoves'
    BY TurnKeepsConditions DEF IInv
  <2>2. turnNumber' \in 0..MaxTurns
    BY <1>1, BattleAssumption DEF IInv, TypeInv, TypeOK
  <2>3. version' \in Nat
    BY TurnDecides DEF IInv, TypeInv, TypeOK
  <2> QED  BY <1>1, <2>1, <2>2, <2>3, TurnDecides DEF IInv, TypeInv, TypeOK, DisabledAreMoves
<1>4. TeamsKnown' /\ PlayersDiffer'
  BY <1>1, <1>2 DEF IInv, TypeInv, TeamsKnown, PlayersDiffer
<1>5. WaitingIsFresh'
  BY <1>2 DEF WaitingIsFresh
<1>6. VersionCountsUpdates'
  BY <1>1, <1>2, TurnDecides DEF IInv, TypeInv, TypeOK, VersionCountsUpdates
<1>7. LogOutgrowsVersion'
  BY TurnDecides DEF IInv, TypeInv, TypeOK, LogOutgrowsVersion
<1> QED  BY <1>3, <1>4, <1>5, <1>6, <1>7, TurnDecides DEF IInv, TypeInv

\* Everything the theorems below rest on, in every reachable state of a battle.
THEOREM Inductive == Spec => []IInv
<1>1. Init => IInv
  BY InitIInv
<1>2. IInv /\ [Next]_vars => IInv'
  <2> SUFFICES ASSUME IInv, [Next]_vars PROVE IInv'
    OBVIOUS
  <2>1. ASSUME NEW tr \in Trainers, NEW tm \in Teams, Join(tr, tm)  PROVE IInv'
    BY <2>1, JoinKeepsIInv
  <2>2. ASSUME NEW tr \in Trainers, NEW a, NEW m, NEW t, TakeTurn(tr, a, m, t)
        PROVE  IInv'
    BY <2>2, TurnKeepsIInv
  <2>3. CASE UNCHANGED vars
    BY <2>3 DEF vars, team, IInv, TypeInv, TypeOK, TeamsKnown, PlayersDiffer,
                WaitingIsFresh, DefeatDecidesBattle, VersionCountsUpdates,
                LogOutgrowsVersion, Defeated, Fainted
  <2> QED  BY <2>1, <2>2, <2>3 DEF Next
<1> QED  BY <1>1, <1>2, PTL DEF Spec

\* In every battle of every dex all variables keep their types.
THEOREM TypeCorrect == Spec => []TypeOK
<1>1. IInv => TypeOK
  BY DEF IInv, TypeInv
<1> QED  BY <1>1, Inductive, PTL

\* A battle is over exactly when one side is down, and the other side won.
THEOREM DefeatDecides == Spec => []DefeatDecidesBattle
<1>1. IInv => DefeatDecidesBattle
  BY DEF IInv
<1> QED  BY <1>1, Inductive, PTL

\* The version counts the accepted updates.
THEOREM VersionCounts == Spec => []VersionCountsUpdates
<1>1. IInv => VersionCountsUpdates
  BY DEF IInv
<1> QED  BY <1>1, Inductive, PTL

\* The log is never shorter than the version is high.
THEOREM LogOutgrows == Spec => []LogOutgrowsVersion
<1>1. IInv => LogOutgrowsVersion
  BY DEF IInv
<1> QED  BY <1>1, Inductive, PTL

-----------------------------------------------------------------------------
\* Hit points never come back and no one else's Pokemon is touched.
LEMMA TurnHurtsOne ==
  ASSUME IInv, NEW tr \in Trainers, NEW a, NEW m, NEW t, TakeTurn(tr, a, m, t)
  PROVE  \E s \in Sides, i \in Slots :
           /\ \A r \in Sides, j \in Slots :
                IF r = s /\ j = i THEN hp'[r][j] <= hp[r][j] ELSE hp'[r][j] = hp[r][j]
           /\ s = turn => confused[turn][i]
<1>1. PICK s \in Sides, i \in Slots, h \in Nat, n \in 1..2 :
        TurnShape(tr, a, m, t, s, i, h, n)
  BY TurnHasShape DEF IInv
<1>2. hp \in [Sides -> [Slots -> Nat]]
  BY DEF IInv, TypeInv, TypeOK
<1>3. \A r \in Sides, j \in Slots :
        hp'[r][j] = IF r = s /\ j = i THEN h ELSE hp[r][j]
  BY <1>1, <1>2 DEF TurnShape, Left
<1>4. /\ h <= hp[s][i]
      /\ s = turn => confused[turn][i]
  BY <1>1 DEF TurnShape
<1> QED  BY <1>3, <1>4

\* No turn of any battle hurts two Pokemon, or a Pokemon of the side to move
\* that was not confused.
THEOREM OnlyConfusion == Spec => OnlyConfusionHurtsItsOwn
<1> DEFINE A == status = "active" =>
       /\ \A s, r \in Sides, i, j \in Slots :
            hp'[s][i] # hp[s][i] /\ hp'[r][j] # hp[r][j] => s = r /\ i = j
       /\ \A i \in Slots : hp'[turn][i] # hp[turn][i] => confused[turn][i]
<1>1. IInv /\ [Next]_vars => [A]_vars
  <2> SUFFICES ASSUME IInv, Next, status = "active"
               PROVE  A
    BY DEF A
  <2>1. PICK tr \in Trainers, a, t \in Slots : \E m \in 1..MoveCount(turn, a) :
          TakeTurn(tr, a, m, t)
    BY DEF Next, Join, JoinVerdict
  <2>2. PICK s \in Sides, i \in Slots :
          /\ \A r \in Sides, j \in Slots :
               IF r = s /\ j = i THEN hp'[r][j] <= hp[r][j] ELSE hp'[r][j] = hp[r][j]
          /\ s = turn => confused[turn][i]
    BY <2>1, TurnHurtsOne
  <2>3. turn \in Sides
    BY DEF IInv, TypeInv, TypeOK
  <2> QED  BY <2>2, <2>3
<1> QED  BY <1>1, Inductive, PTL DEF Spec, OnlyConfusionHurtsItsOwn

-----------------------------------------------------------------------------
\* The client and the server agree on every request, whatever has happened.
THEOREM Verdicts == Spec => []VerdictsAgree
<1>1. IInv => VerdictsAgree
  <2> SUFFICES ASSUME IInv, NEW tr \in Trainers,
                      NEW a \in 0..(TeamSize + 1), NEW t \in 0..(TeamSize + 1),
                      NEW m \in MoveRequests
               PROVE  CheckTurn(ToAPI, tr, a, m, t) = TurnVerdict(tr, a, m, t)
    BY DEF VerdictsAgree
  <2>1. CASE status # "active"
    BY <2>1 DEF CheckTurn, ToAPI, TurnVerdict
  <2>2. CASE status = "active"
    <3>1. /\ turn \in Sides /\ Opponent(turn) \in Sides /\ Opponent(turn) # turn
          /\ \A s \in Sides : mon[s] \in [Slots -> Species]
          /\ \A s \in Sides : owner[s] = owner[turn] => s = turn
      BY <2>2, SidesFacts DEF IInv, TypeInv, TypeOK, TeamsKnown, PlayersDiffer, Sides
    <3>2. SideIndex(ToAPI, tr) = IF tr = owner[1] THEN 1 ELSE IF tr = owner[2] THEN 2 ELSE 0
      BY <2>2, SidesFacts DEF SideIndex, ToAPI
    <3>3. MyTurn(ToAPI, tr) <=> owner[turn] = tr
      BY <2>2 DEF MyTurn, ToAPI
    <3>4. CASE owner[turn] # tr
      BY <2>2, <3>3, <3>4 DEF CheckTurn, ToAPI, TurnVerdict
    <3>5. CASE owner[turn] = tr
      <4>1. SideIndex(ToAPI, tr) = turn /\ turn # 0
        BY <3>1, <3>2, <3>5 DEF Sides
      <4>2. ToAPI.status = "active"
        BY <2>2 DEF ToAPI
      <4>3. 3 - turn = Opponent(turn)
        BY DEF Opponent
      <4>4. \A i \in Slots : i \in ToAPI.sides[turn].canAct <=> CanAct(turn, i)
        BY <2>2, <3>1 DEF ToAPI
      <4>5. \A i \in Slots : i \in ToAPI.sides[Opponent(turn)].canBeTargeted
                               <=> CanBeTargeted(Opponent(turn), i)
        BY <2>2, <3>1 DEF ToAPI
      <4>6. \A i \in Slots : ToAPI.sides[turn].moves[i] = MoveCount(turn, i)
        BY <3>1 DEF ToAPI
      <4>7. \A i \in Slots : ToAPI.sides[turn].usable[i] =
                 {k \in 1..MoveCount(turn, i) : MoveUsable(turn, i, k)}
        BY <3>1 DEF ToAPI
      <4> QED  BY <2>2, <3>3, <3>5, <4>1, <4>2, <4>3, <4>4, <4>5, <4>6, <4>7
               DEF CheckTurn, TurnVerdict
    <3> QED  BY <3>4, <3>5
  <2> QED  BY <2>1, <2>2
<1> QED  BY <1>1, Inductive, PTL

-----------------------------------------------------------------------------
\* What the projection of an active battle says of the side to move.
LEMMA ActiveView ==
  ASSUME IInv, status = "active"
  PROVE  /\ turn \in {1, 2} /\ Opponent(turn) \in Sides /\ Opponent(turn) = 3 - turn
         /\ \A tr : MyTurn(ToAPI, tr) <=> owner[turn] = tr
         /\ SideIndex(ToAPI, owner[turn]) = turn
         /\ ToAPI.sides[turn].canAct = {i \in Slots : CanAct(turn, i)}
         /\ ToAPI.sides[3 - turn].canBeTargeted =
              {i \in Slots : CanBeTargeted(Opponent(turn), i)}
         /\ ToAPI.sides[turn].fainted = {i \in Slots : Fainted(turn, i)}
         /\ ToAPI.sides[3 - turn].fainted = {i \in Slots : Fainted(Opponent(turn), i)}
         /\ \A i \in Slots : ToAPI.sides[turn].moves[i] = MoveCount(turn, i)
         /\ \A i \in Slots : ToAPI.sides[turn].usable[i] =
              {m \in 1..MoveCount(turn, i) : MoveUsable(turn, i, m)}
<1>1. /\ turn \in Sides /\ Opponent(turn) \in Sides /\ Opponent(turn) # turn
      /\ mon[turn] \in [Slots -> Species]
      /\ \A s \in Sides : owner[s] = owner[turn] => s = turn
  BY SidesFacts DEF IInv, TypeInv, TypeOK, TeamsKnown, PlayersDiffer, Sides
<1>2. Opponent(turn) = 3 - turn /\ turn \in {1, 2}
  BY <1>1 DEF Opponent, Sides
<1>3. \A tr : MyTurn(ToAPI, tr) <=> owner[turn] = tr
  BY DEF MyTurn, ToAPI
<1>4. SideIndex(ToAPI, owner[turn]) = turn
  <2>1. \A tr : SideIndex(ToAPI, tr) =
                 IF tr = owner[1] THEN 1 ELSE IF tr = owner[2] THEN 2 ELSE 0
    BY SidesFacts DEF SideIndex, ToAPI
  <2> QED  BY <1>1, <2>1 DEF Sides
<1>5. /\ ToAPI.sides[turn].canAct = {i \in Slots : CanAct(turn, i)}
      /\ ToAPI.sides[turn].fainted = {i \in Slots : Fainted(turn, i)}
      /\ ToAPI.sides[3 - turn].canBeTargeted =
              {i \in Slots : CanBeTargeted(Opponent(turn), i)}
      /\ ToAPI.sides[3 - turn].fainted = {i \in Slots : Fainted(Opponent(turn), i)}
  BY <1>1, <1>2 DEF ToAPI
<1>6. \A i \in Slots :
        /\ ToAPI.sides[turn].moves[i] = MoveCount(turn, i)
        /\ ToAPI.sides[turn].usable[i] = {m \in 1..MoveCount(turn, i) : MoveUsable(turn, i, m)}
  BY <1>1 DEF ToAPI
<1> QED  BY <1>1, <1>2, <1>3, <1>4, <1>5, <1>6

LEMMA TurnsAre ==
  ASSUME NEW attackers, NEW moves, NEW targets, NEW p
  PROVE  p \in TurnsOf(attackers, moves, targets) <=>
           \E a \in attackers : \E m \in moves[a], t \in targets : p = <<a, m, t>>
BY DEF TurnsOf

\* The phone and the React page offer exactly the turns the server takes, for
\* every team and every move a Pokemon may have.
THEOREM Offered == Spec => []LegalTurnsOffered
<1>1. IInv => LegalTurnsOffered
  <2> SUFFICES ASSUME IInv, NEW tr \in Trainers
               PROVE  LET legal == IF status = "active" THEN LegalTurns(tr) ELSE {}
                      IN  PhoneTurns(ToAPI, tr) = legal /\ PageTurns(ToAPI, tr) = legal
    BY DEF LegalTurnsOffered
  <2>1. CASE status # "active"
    <3>1. ~MyTurn(ToAPI, tr)
      BY <2>1 DEF MyTurn, ToAPI
    <3>2. PhoneTurns(ToAPI, tr) = {}
      BY <3>1 DEF PhoneTurns
    <3>3. \A a, m, t : ~PageCheckTurn(ToAPI, tr, a, m, t)
      BY <3>1 DEF PageCheckTurn
    <3> QED  BY <2>1, <3>2, <3>3 DEF PageTurns
  <2>2. CASE status = "active" /\ owner[turn] # tr
    <3>1. ~MyTurn(ToAPI, tr)
      BY <2>2, ActiveView
    <3>2. PhoneTurns(ToAPI, tr) = {}
      BY <3>1 DEF PhoneTurns
    <3>3. \A a, m, t : ~PageCheckTurn(ToAPI, tr, a, m, t)
      BY <3>1 DEF PageCheckTurn
    <3>4. LegalTurns(tr) = {}
      BY <2>2 DEF LegalTurns, TurnVerdict
    <3> QED  BY <2>2, <3>2, <3>3, <3>4 DEF PageTurns
  <2>3. CASE status = "active" /\ owner[turn] = tr
    <3> DEFINE Takes(a, m, t) == /\ a \in Slots /\ t \in Slots
                                 /\ CanAct(turn, a) /\ CanBeTargeted(Opponent(turn), t)
                                 /\ m \in 1..MoveCount(turn, a) /\ MoveUsable(turn, a, m)
    <3>1. /\ turn \in {1, 2} /\ turn # 0
          /\ SideIndex(ToAPI, tr) = turn /\ MyTurn(ToAPI, tr)
          /\ Mine(ToAPI, tr) = ToAPI.sides[turn] /\ Theirs(ToAPI, tr) = ToAPI.sides[3 - turn]
      BY <2>3, ActiveView DEF Mine, Theirs
    <3>2. \A a, m, t : (a \in Slots /\ t \in Slots /\ m \in 1..MoveCount(turn, a))
            => (TurnVerdict(tr, a, m, t) = "ok" <=> Takes(a, m, t))
      BY <2>3 DEF TurnVerdict
    <3>3. \A p : p \in LegalTurns(tr) <=> \E a, m, t : p = <<a, m, t>> /\ Takes(a, m, t)
      <4> DEFINE moves == [a \in Slots |-> 1..MoveCount(turn, a)]
      <4>1. LegalTurns(tr) = {p \in TurnsOf(Slots, moves, Slots) :
                               TurnVerdict(tr, p[1], p[2], p[3]) = "ok"}
        BY DEF LegalTurns
      <4>2. \A a \in Slots : moves[a] = 1..MoveCount(turn, a)
        OBVIOUS
      <4> HIDE DEF moves, Takes
      <4>3. \A p : p \in TurnsOf(Slots, moves, Slots) <=>
                     \E a \in Slots : \E m \in moves[a], t \in Slots : p = <<a, m, t>>
        BY TurnsAre
      <4>4. ASSUME NEW p, p \in LegalTurns(tr)
            PROVE  \E a, m, t : p = <<a, m, t>> /\ Takes(a, m, t)
        <5>1. PICK a \in Slots, t \in Slots : \E m \in moves[a] : p = <<a, m, t>>
          BY <4>1, <4>3, <4>4
        <5>2. PICK m \in moves[a] : p = <<a, m, t>>
          BY <5>1
        <5>3. p[1] = a /\ p[2] = m /\ p[3] = t
          BY <5>2
        <5> QED  BY <3>2, <4>1, <4>2, <4>4, <5>2, <5>3
      <4>5. ASSUME NEW a, NEW m, NEW t, Takes(a, m, t)
            PROVE  <<a, m, t>> \in LegalTurns(tr)
        <5>1. a \in Slots /\ t \in Slots /\ m \in 1..MoveCount(turn, a)
          BY <4>5 DEF Takes
        <5>2. <<a, m, t>> \in TurnsOf(Slots, moves, Slots)
          BY <4>2, <4>3, <5>1
        <5>3. TurnVerdict(tr, a, m, t) = "ok"
          BY <3>2, <4>5, <5>1
        <5> QED  BY <4>1, <5>2, <5>3
      <4> QED  BY <4>4, <4>5
    <3>4. \A p : p \in PhoneTurns(ToAPI, tr) <=> \E a, m, t : p = <<a, m, t>> /\ Takes(a, m, t)
      <4> DEFINE able == {i \in Slots : CanAct(turn, i)}
                 usable == ToAPI.sides[turn].usable
                 targets == {i \in Slots : CanBeTargeted(Opponent(turn), i)}
      <4>1. PhoneTurns(ToAPI, tr) = TurnsOf(able, usable, targets)
        BY <2>3, <3>1, ActiveView DEF PhoneTurns, PhoneTargets
      <4>2. \A i \in Slots : usable[i] = {m \in 1..MoveCount(turn, i) : MoveUsable(turn, i, m)}
        BY <2>3, ActiveView
      <4> HIDE DEF usable
      <4>3. \A p : p \in TurnsOf(able, usable, targets) <=>
                     \E a \in able : \E m \in usable[a], t \in targets : p = <<a, m, t>>
        BY TurnsAre
      <4> QED  BY <4>1, <4>2, <4>3
    <3>5. \A a, m, t : PageCheckTurn(ToAPI, tr, a, m, t) <=> Takes(a, m, t)
      BY <2>3, <3>1, ActiveView DEF PageCheckTurn
    <3>6. \A p : p \in PageTurns(ToAPI, tr) <=> \E a, m, t : p = <<a, m, t>> /\ Takes(a, m, t)
      <4> DEFINE moves == [a \in Slots |-> 1..ToAPI.sides[turn].moves[a]]
                 able == {i \in Slots : CanAct(turn, i)}
                 targets == {i \in Slots : CanBeTargeted(Opponent(turn), i)}
      <4>1. /\ Slots \ ToAPI.sides[turn].fainted = able
            /\ Slots \ ToAPI.sides[3 - turn].fainted = targets
        BY <2>3, ActiveView DEF CanAct, CanBeTargeted
      <4>2. PageTurns(ToAPI, tr) =
              {p \in TurnsOf(able, moves, targets) : PageCheckTurn(ToAPI, tr, p[1], p[2], p[3])}
        BY <3>1, <4>1 DEF PageTurns
      <4>3. \A i \in Slots : moves[i] = 1..MoveCount(turn, i)
        BY <2>3, ActiveView
      <4> HIDE DEF moves
      <4>4. \A p : p \in TurnsOf(able, moves, targets) <=>
                     \E a \in able : \E m \in moves[a], t \in targets : p = <<a, m, t>>
        BY TurnsAre
      <4> HIDE DEF Takes
      <4>5. \A p : p \in PageTurns(ToAPI, tr) <=>
              p \in TurnsOf(able, moves, targets) /\ PageCheckTurn(ToAPI, tr, p[1], p[2], p[3])
        BY <4>2
      <4>6. ASSUME NEW p, p \in PageTurns(ToAPI, tr)
            PROVE  \E a, m, t : p = <<a, m, t>> /\ Takes(a, m, t)
        <5>1. PICK a \in able, t \in targets : \E m \in moves[a] : p = <<a, m, t>>
          BY <4>4, <4>5, <4>6
        <5>2. PICK m \in moves[a] : p = <<a, m, t>>
          BY <5>1
        <5>3. p[1] = a /\ p[2] = m /\ p[3] = t
          BY <5>2
        <5> QED  BY <3>5, <4>5, <4>6, <5>2, <5>3
      <4>7. ASSUME NEW a, NEW m, NEW t, Takes(a, m, t)
            PROVE  <<a, m, t>> \in PageTurns(ToAPI, tr)
        <5>1. a \in able /\ t \in targets /\ a \in Slots /\ m \in 1..MoveCount(turn, a)
          BY <4>7 DEF Takes
        <5>2. <<a, m, t>> \in TurnsOf(able, moves, targets)
          BY <4>3, <4>4, <5>1
        <5>3. PageCheckTurn(ToAPI, tr, a, m, t)
          BY <3>5, <4>7
        <5> QED  BY <4>5, <5>2, <5>3
      <4> QED  BY <4>6, <4>7
    <3>7. PhoneTurns(ToAPI, tr) = LegalTurns(tr) /\ PageTurns(ToAPI, tr) = LegalTurns(tr)
      BY <3>3, <3>4, <3>6
    <3> QED  BY <2>3, <3>7
  <2> QED  BY <2>1, <2>2, <2>3
<1> QED  BY <1>1, Inductive, PTL

-----------------------------------------------------------------------------
\* A Pokemon only ever has its strongest move disabled, so disabling it again
\* changes nothing.
DisabledIsStrongest ==
  /\ \A s \in Sides, i \in Slots :
       disabled[s][i] # 0 => disabled[s][i] = StrongestMove(mon[s][i])
  /\ status = "waiting" => \A i \in Slots : disabled[2][i] = 0

LEMMA TurnDisables ==
  ASSUME IInv, NEW tr \in Trainers, NEW a, NEW m, NEW t, TakeTurn(tr, a, m, t)
  PROVE  \/ UNCHANGED disabled
         \/ \E s \in Sides, i \in Slots :
              disabled' = [disabled EXCEPT ![s][i] = StrongestMove(mon[s][i])]
<1>1. Opponent(turn) \in Sides /\ t \in Slots
  BY AcceptedTurn, SidesFacts DEF IInv, TypeInv, TypeOK, TakeTurn
<1>2. PICK roll, accRoll : \/ HurtItself(a, m, roll)
                          \/ StatusMove(a, m, t, accRoll)
                          \/ DamagingMove(a, m, t)
  BY DEF TakeTurn
<1> DEFINE mv == Moves[mon[turn][a]][m]
           o == Opponent(turn)
<1>3. CASE HurtItself(a, m, roll)
  BY <1>3 DEF HurtItself
<1>4. CASE DamagingMove(a, m, t)
  BY <1>4 DEF DamagingMove
<1>5. CASE StatusMove(a, m, t, accRoll)
  <2>1. ResolveStatus(a, mv, t, accRoll)
    BY <1>5 DEF StatusMove
  <2>2. UNCHANGED disabled \/ Disable(o, t, a)
    BY <2>1 DEF ResolveStatus, NothingHappens, OneHitKO, FixedDamage, Confuse,
                ChangeStat
  <2>3. CASE Disable(o, t, a)
    BY <2>3, <1>1 DEF Disable
  <2> QED  BY <2>2, <2>3
<1> QED  BY <1>2, <1>3, <1>4, <1>5

LEMMA TurnKeepsDisabled ==
  ASSUME IInv, DisabledIsStrongest,
         NEW tr \in Trainers, NEW a, NEW m, NEW t, TakeTurn(tr, a, m, t)
  PROVE  /\ DisabledIsStrongest'
         /\ \A s \in Sides, i \in Slots :
              disabled[s][i] # 0 => disabled'[s][i] = disabled[s][i]
<1>1. mon' = mon /\ status' # "waiting"
  BY TurnDecides DEF TakeTurn
<1>2. disabled \in [Sides -> [Slots -> Nat]]
  BY DEF IInv, TypeInv, TypeOK
<1>3. \A sp : StrongestMove(sp)' = StrongestMove(sp)
  BY DEF StrongestMove
<1>4. \A s \in Sides, i \in Slots :
        \/ disabled'[s][i] = disabled[s][i]
        \/ disabled'[s][i] = StrongestMove(mon[s][i])
  BY <1>2, TurnDisables
<1> QED  BY <1>1, <1>2, <1>3, <1>4 DEF DisabledIsStrongest

\* Disabled is only ever the strongest move of the Pokemon (resolveStatus).
THEOREM DisabledInductive == Spec => []DisabledIsStrongest
<1>1. Init => DisabledIsStrongest
  BY SidesFacts DEF Init, DisabledIsStrongest
<1>2. IInv /\ DisabledIsStrongest /\ [Next]_vars => DisabledIsStrongest'
  <2> SUFFICES ASSUME IInv, DisabledIsStrongest, [Next]_vars
               PROVE  DisabledIsStrongest'
    OBVIOUS
  <2>1. ASSUME NEW tr \in Trainers, NEW tm \in Teams, Join(tr, tm)
        PROVE  DisabledIsStrongest'
    <3>1. /\ mon' = [mon EXCEPT ![2] = tm] /\ UNCHANGED disabled
          /\ status = "waiting" /\ status' = "active"
      BY <2>1 DEF Join, JoinVerdict
    <3> QED  BY <3>1 DEF IInv, TypeInv, TypeOK, DisabledIsStrongest, Sides
  <2>2. ASSUME NEW tr \in Trainers, NEW a, NEW m, NEW t, TakeTurn(tr, a, m, t)
        PROVE  DisabledIsStrongest'
    BY <2>2, TurnKeepsDisabled
  <2>3. CASE UNCHANGED vars
    BY <2>3 DEF vars, team, DisabledIsStrongest
  <2> QED  BY <2>1, <2>2, <2>3 DEF Next
<1> QED  BY <1>1, <1>2, Inductive, PTL DEF Spec

\* No hit point comes back, no disabled move returns, and nothing happens to a
\* finished battle.
THEOREM NoHealing == Spec => NothingHeals
<1> DEFINE A ==
       /\ status # "finished"
       /\ status = "active" =>
            \A s \in Sides, i \in Slots :
               /\ hp'[s][i] <= hp[s][i]
               /\ disabled[s][i] # 0 => disabled'[s][i] = disabled[s][i]
<1>1. IInv /\ DisabledIsStrongest /\ [Next]_vars => [A]_vars
  <2> SUFFICES ASSUME IInv, DisabledIsStrongest, Next PROVE A
    OBVIOUS
  <2>1. CASE \E tr \in Trainers, tm \in Teams : Join(tr, tm)
    BY <2>1 DEF Join, JoinVerdict
  <2>2. ASSUME NEW tr \in Trainers, NEW a, NEW m, NEW t, TakeTurn(tr, a, m, t)
        PROVE  A
    <3>1. status = "active"
      BY <2>2, AcceptedTurn DEF TakeTurn, IInv
    <3>2. hp \in [Sides -> [Slots -> Nat]]
      BY DEF IInv, TypeInv, TypeOK
    <3>3. \A r \in Sides, j \in Slots : hp'[r][j] <= hp[r][j]
      BY <2>2, <3>2, TurnHurtsOne
    <3> QED  BY <2>2, <3>1, <3>3, TurnKeepsDisabled
  <2> QED  BY <2>1, <2>2 DEF Next
<1> QED  BY <1>1, Inductive, DisabledInductive, PTL DEF Spec, NothingHeals

\* With two damaging moves to every species, whoever must move can attack.
THEOREM MoverCan ==
  ASSUME TwoDamagingMoves
  PROVE  Spec => []MoverCanAttack
<1>1. IInv => MoverCanAttack
  <2> SUFFICES ASSUME IInv, status = "active"
               PROVE  \E a, t \in Slots : \E m \in 1..MoveCount(turn, a) :
                        /\ TurnVerdict(owner[turn], a, m, t) = "ok"
                        /\ Moves[mon[turn][a]][m].power > 0
    BY DEF MoverCanAttack
  <2>1. turn \in Sides /\ Opponent(turn) \in Sides
    BY SidesFacts DEF IInv, TypeInv, TypeOK
  <2>2. PICK a, t \in Slots : ~Fainted(turn, a) /\ ~Fainted(Opponent(turn), t)
    BY <2>1 DEF IInv, DefeatDecidesBattle, Defeated
  <2>3. mon[turn][a] \in Species
    BY <2>1, <2>2 DEF IInv, TypeInv, TeamsKnown
  <2>4. PICK m \in DOMAIN Moves[mon[turn][a]] :
          Moves[mon[turn][a]][m].power > 0 /\ m # disabled[turn][a]
    BY <2>3 DEF TwoDamagingMoves
  <2>5. m \in 1..MoveCount(turn, a)
    BY <2>3, <2>4, BattleAssumption DEF MoveCount
  <2>6. TurnVerdict(owner[turn], a, m, t) = "ok"
    BY <2>2, <2>4, <2>5 DEF TurnVerdict, CanAct, CanBeTargeted, MoveUsable
  <2> QED  BY <2>2, <2>4, <2>5, <2>6
<1> QED  BY <1>1, Inductive, PTL

-----------------------------------------------------------------------------
LEMMA TurnRefines ==
  ASSUME IInv, NEW tr \in Trainers, NEW a, NEW m, NEW t, TakeTurn(tr, a, m, t)
  PROVE  D!Next
<1>1. PICK s \in Sides, i \in Slots, h \in Nat, n \in 1..2 :
        TurnShape(tr, a, m, t, s, i, h, n)
  BY TurnHasShape DEF IInv
<1>2. hp' = Left(s, i, h) /\ FinishTurn(s, i, n) /\ h <= hp[s][i]
  BY <1>1 DEF TurnShape
<1>3. /\ hp \in [Sides -> [Slots -> Nat]] /\ turn \in Sides
      /\ status = "active" /\ UNCHANGED owner
      /\ \A r \in Sides : \E j \in Slots : hp[r][j] > 0
  BY AcceptedTurn DEF IInv, TypeInv, TypeOK, DefeatDecidesBattle, TakeTurn, Defeated, Fainted
<1>4. /\ hp' \in [Sides -> [Slots -> Nat]]
      /\ \A r \in Sides, j \in Slots :
           hp'[r][j] = IF r = s /\ j = i THEN h ELSE hp[r][j]
  BY <1>2, <1>3 DEF Left
<1> DEFINE fallen == IF h = 0 /\ hp[s][i] > 0 THEN {i} ELSE {}
           beaten == standing[s] \subseteq fallen
<1>5. standing' = [standing EXCEPT ![s] = @ \ fallen]
  <2>1. \A r \in Sides : standing'[r] = IF r = s THEN standing[r] \ fallen ELSE standing[r]
    <3> SUFFICES ASSUME NEW r \in Sides
                 PROVE  standing'[r] = IF r = s THEN standing[r] \ fallen ELSE standing[r]
      OBVIOUS
    <3>1. standing'[r] = {j \in Slots : hp'[r][j] > 0}
      BY DEF standing
    <3>2. standing[r] = {j \in Slots : hp[r][j] > 0}
      BY DEF standing
    <3> QED  BY <1>2, <1>3, <1>4, <3>1, <3>2
  <2> HIDE DEF fallen
  <2>2. DOMAIN standing' = Sides /\ DOMAIN standing = Sides
    BY DEF standing
  <2>3. standing' = [r \in Sides |-> standing'[r]]
    BY DEF standing
  <2>4. standing = [r \in Sides |-> standing[r]]
    BY DEF standing
  <2> QED  BY <2>1, <2>3, <2>4
<1>6. \A r \in Sides : (\A j \in Slots : hp'[r][j] <= 0) <=> (r = s /\ beaten)
  <2>1. \A r \in Sides : (\A j \in Slots : hp'[r][j] <= 0) <=> standing'[r] = {}
    BY <1>4 DEF standing
  <2>2. \A r \in Sides : standing[r] # {}
    BY <1>3 DEF standing
  <2>3. \A r \in Sides : standing'[r] = IF r = s THEN standing[r] \ fallen ELSE standing[r]
    BY <1>5 DEF standing
  <2> QED  BY <2>1, <2>2, <2>3
<1> HIDE DEF fallen, beaten
<1>7. /\ status' = IF beaten THEN "finished" ELSE "active"
      /\ winner' = IF beaten THEN owner[Opponent(s)] ELSE winner
      /\ turn' = IF beaten THEN turn ELSE Opponent(turn)
      /\ version' = version + 1
  <2>1. /\ turn = s \/ turn = Opponent(s)
        /\ Opponent(Opponent(s)) = s /\ Opponent(s) # s /\ Opponent(s) \in Sides
    BY <1>3, SidesFacts
  <2> QED  BY <1>2, <1>6, <2>1 DEF FinishTurn
<1>8. D!Turn(s, fallen)
  BY <1>3, <1>5, <1>7 DEF D!Turn, D!Other, Opponent, beaten
<1>9. fallen = {} \/ \E j \in standing[s] : fallen = {j}
  BY DEF fallen, standing
<1>10. s \in D!Sides
  BY DEF D!Sides, Sides
<1> QED  BY <1>8, <1>9, <1>10 DEF D!Next

\* A battle of any dex is a duel.
THEOREM Implements == Spec => ImplementsDuel
<1>1. Init => D!Init
  <2> SUFFICES ASSUME Init PROVE D!Init
    OBVIOUS
  <2>1. PICK tr \in Trainers, tm \in Teams :
          /\ status = "waiting"
          /\ owner = [s \in Sides |-> IF s = 1 THEN tr ELSE NoTrainer]
          /\ hp = [s \in Sides |-> IF s = 1 THEN FreshHP(tm) ELSE [i \in Slots |-> 0]]
          /\ turn = 1 /\ winner = NoTrainer /\ version = 1
    BY DEF Init
  <2>2. \A s \in Sides : {i \in Slots : hp[s][i] > 0} = IF s = 1 THEN Slots ELSE {}
    BY <2>1, FreshTeamStands
  <2>3. standing = [s \in Sides |-> IF s = 1 THEN Slots ELSE {}]
    BY <2>2 DEF standing
  <2> QED  BY <2>1, <2>3 DEF D!Init, D!Sides, Sides
<1>2. IInv /\ [Next]_vars => [D!Next]_D!vars
  <2> SUFFICES ASSUME IInv, [Next]_vars PROVE [D!Next]_D!vars
    OBVIOUS
  <2>1. ASSUME NEW tr \in Trainers, NEW tm \in Teams, Join(tr, tm)  PROVE D!Next
    <3>1. /\ status = "waiting" /\ owner[1] # tr
          /\ status' = "active" /\ turn' = 1
          /\ owner' = [owner EXCEPT ![2] = tr]
          /\ hp' = [hp EXCEPT ![2] = FreshHP(tm)]
          /\ version' = version + 1 /\ winner' = winner
      BY <2>1 DEF Join, JoinVerdict
    <3>2. hp \in [Sides -> [Slots -> Nat]]
      BY DEF IInv, TypeInv, TypeOK
    <3>3. \A s \in Sides : {i \in Slots : hp'[s][i] > 0} =
                             IF s = 2 THEN Slots ELSE {i \in Slots : hp[s][i] > 0}
      BY <3>1, <3>2, FreshTeamStands
    <3>4. standing' = [standing EXCEPT ![2] = Slots]
      BY <3>3 DEF standing
    <3> QED  BY <3>1, <3>4 DEF D!Next, D!Accept
  <2>2. ASSUME NEW tr \in Trainers, NEW a, NEW m, NEW t, TakeTurn(tr, a, m, t)
        PROVE  D!Next
    BY <2>2, TurnRefines
  <2>3. CASE UNCHANGED vars
    BY <2>3 DEF vars, team, D!vars, standing
  <2> QED  BY <2>1, <2>2, <2>3 DEF Next
<1> QED  BY <1>1, <1>2, Inductive, PTL DEF Spec, ImplementsDuel, D!Spec

-----------------------------------------------------------------------------
(* The battle the polling programs know (Arena), seen from a side          *)

Who(me, s) == IF s = me THEN "me" ELSE "them"

Seen(st, opener, mover, v, l) ==
  [status |-> st, opener |-> opener, turn |-> mover, version |-> v, log |-> l]

SeenFrom(me) == Seen(status, Who(me, 1), Who(me, turn), version, logLen)

A == INSTANCE Arena WITH BattleIds <- Sides, NoId <- 0, Entries <- 1..4,
                         MaxVersion <- [s \in Sides |-> MaxTurns + 2],
                         arena <- [s \in Sides |-> SeenFrom(s)]

\* What joins or moves is what Arena lets the player or the other one do.
Plays(me) ==
  \E kind \in {"join", "attack"}, p \in {"me", "them"} :
    SeenFrom(me)' \in A!Results(kind, p, SeenFrom(me))

\* A turn adds one version, one to four entries, and passes or ends.
LEMMA TurnIsSeen ==
  ASSUME IInv, NEW tr \in Trainers, NEW a, NEW m, NEW t, TakeTurn(tr, a, m, t)
  PROVE  /\ status = "active" /\ status' \in {"active", "finished"}
         /\ turn' = IF status' = "active" THEN Opponent(turn) ELSE turn
         /\ version' = version + 1
         /\ \E n \in 1..4 : logLen' = logLen + n
<1>1. PICK s \in Sides, i \in Slots, h \in Nat, n \in 1..2 :
        TurnShape(tr, a, m, t, s, i, h, n)
  BY TurnHasShape DEF IInv
<1>2. FinishTurn(s, i, n)
  BY <1>1 DEF TurnShape
<1>3. status = "active"
  BY AcceptedTurn DEF IInv, TakeTurn
<1> DEFINE beaten(r) == \A j \in Slots : hp'[r][j] <= 0
           over == beaten(turn) \/ beaten(Opponent(turn))
           f == IF hp'[s][i] <= 0 THEN 1 ELSE 0
           w == IF over THEN 1 ELSE 0
<1>4. /\ status' = IF over THEN "finished" ELSE "active"
      /\ turn' = IF over THEN turn ELSE Opponent(turn)
      /\ version' = version + 1 /\ logLen' = logLen + n + f + w
  BY <1>2 DEF FinishTurn
<1>5. f \in {0, 1} /\ w \in {0, 1}
  OBVIOUS
<1> HIDE DEF over, f, w
<1>6. n + f + w \in 1..4 /\ logLen' = logLen + (n + f + w)
  <2>1. logLen \in Nat
    BY DEF IInv, TypeInv, TypeOK
  <2> QED  BY <1>4, <1>5, <2>1
<1>7. /\ status' \in {"active", "finished"}
      /\ turn' = IF status' = "active" THEN Opponent(turn) ELSE turn
  BY <1>4
<1> QED  BY <1>3, <1>4, <1>6, <1>7

Players == {"me", "them"}

Views == [status : {"waiting", "active", "finished"}, opener : Players, turn : Players,
          version : Nat, log : Nat]

Updated(b, st, mover, v, l) ==
  [b EXCEPT !.status = st, !.turn = mover, !.version = v, !.log = l]

\* Arena's updates of a battle give what the battle is seen as next.
LEMMA SeenUpdates ==
  ASSUME NEW b \in Views, NEW st \in {"waiting", "active", "finished"},
         NEW mover \in Players, NEW v \in Nat, NEW l \in Nat
  PROVE  Updated(b, st, mover, v, l) = Seen(st, b.opener, mover, v, l)
<1> DEFINE c == [b EXCEPT !.status = st, !.turn = mover, !.version = v, !.log = l]
           d == Seen(st, b.opener, mover, v, l)
<1>1. c \in Views
  BY DEF Views
<1>2. d \in Views
  BY DEF Views, Seen
<1>3. /\ c.status = st /\ c.opener = b.opener /\ c.turn = mover
      /\ c.version = v /\ c.log = l
  BY DEF Views
<1>4. /\ d.status = st /\ d.opener = b.opener /\ d.turn = mover
      /\ d.version = v /\ d.log = l
  BY DEF Seen
<1> HIDE DEF c, d
<1>5. c = d
  BY <1>1, <1>2, <1>3, <1>4 DEF Views
<1> QED  BY <1>5 DEF c, d, Updated

LEMMA JoinedIsSeen ==
  ASSUME NEW b \in Views
  PROVE  A!Joined(b) = Seen("active", b.opener, b.turn, b.version + 1, b.log + 1)
<1> DEFINE v == b.version + 1
           l == b.log + 1
           mover == b.turn
<1>1. v \in Nat /\ l \in Nat /\ mover \in Players
  BY DEF Views
<1>2. A!Joined(b) = [b EXCEPT !.status = "active", !.version = v, !.log = l]
  BY DEF A!Joined
<1>3. mover = b.turn
  OBVIOUS
<1>4. Seen("active", b.opener, mover, v, l)
        = Seen("active", b.opener, b.turn, b.version + 1, b.log + 1)
  OBVIOUS
<1> HIDE DEF v, l, mover
<1>5. [b EXCEPT !.status = "active", !.version = v, !.log = l]
        = Updated(b, "active", mover, v, l)
  BY <1>1, <1>3 DEF Views, Updated
<1>6. Updated(b, "active", mover, v, l) = Seen("active", b.opener, mover, v, l)
  BY <1>1, SeenUpdates
<1> QED  BY <1>2, <1>4, <1>5, <1>6

LEMMA TurnEndsIsSeen ==
  ASSUME NEW b \in Views, NEW s \in {"active", "finished"}, NEW n \in 1..4
  PROVE  A!TurnEnds(b, s, n)
           = Seen(s, b.opener, IF s = "active" THEN A!Other(b.turn) ELSE b.turn,
                  b.version + 1, b.log + n)
<1> DEFINE v == b.version + 1
           l == b.log + n
           mover == IF s = "active" THEN A!Other(b.turn) ELSE b.turn
<1>1. v \in Nat /\ l \in Nat /\ mover \in Players
  BY DEF Views, Players, A!Other
<1>2. A!TurnEnds(b, s, n) = Updated(b, s, mover, v, l)
  BY DEF A!TurnEnds, Updated
<1> HIDE DEF v, l, mover
<1>3. Updated(b, s, mover, v, l) = Seen(s, b.opener, mover, v, l)
  BY <1>1, SeenUpdates
<1> QED  BY <1>2, <1>3 DEF v, l, mover

LEMMA SeenIsView ==
  ASSUME IInv, NEW me \in Sides
  PROVE  /\ SeenFrom(me) \in Views
         /\ SeenFrom(me).status = status /\ SeenFrom(me).opener = Who(me, 1)
         /\ SeenFrom(me).turn = Who(me, turn) /\ SeenFrom(me).version = version
         /\ SeenFrom(me).log = logLen
BY DEF SeenFrom, Seen, Views, Players, Who, IInv, TypeInv, TypeOK

LEMMA TurnPlays ==
  ASSUME IInv, NEW me \in Sides,
         NEW tr \in Trainers, NEW a, NEW m, NEW t, TakeTurn(tr, a, m, t)
  PROVE  Plays(me)
<1> DEFINE seen == SeenFrom(me)
<1>1. /\ seen.status = "active" /\ seen.turn = Who(me, turn)
      /\ turn \in Sides /\ Who(me, turn) \in {"me", "them"}
  BY TurnIsSeen DEF SeenFrom, Seen, Who, IInv, TypeInv, TypeOK
<1>2. PICK n \in 1..4 : logLen' = logLen + n
  BY TurnIsSeen
<1>3. Who(me, Opponent(turn)) = A!Other(Who(me, turn))
  BY <1>1, SidesFacts DEF Who, A!Other
<1>4. seen' = A!TurnEnds(seen, status', n)
  <2>1. seen' = Seen(status', Who(me, 1), Who(me, turn'), version + 1, logLen + n)
    BY <1>2, TurnIsSeen DEF SeenFrom
  <2>2. Who(me, turn') = IF status' = "active" THEN A!Other(Who(me, turn)) ELSE Who(me, turn)
    BY <1>3, TurnIsSeen
  <2>3. A!TurnEnds(seen, status', n)
          = Seen(status', Who(me, 1),
                 IF status' = "active" THEN A!Other(Who(me, turn)) ELSE Who(me, turn),
                 version + 1, logLen + n)
    BY SeenIsView, TurnEndsIsSeen, TurnIsSeen
  <2> QED  BY <2>1, <2>2, <2>3
<1>5. seen' \in A!Turned(seen)
  BY <1>4, TurnIsSeen DEF A!Turned
<1> HIDE DEF seen
<1>6. seen' \in A!Results("attack", Who(me, turn), seen)
  BY <1>1, <1>5 DEF A!Results
<1> QED  BY <1>1, <1>6 DEF Plays, seen

LEMMA JoinPlays ==
  ASSUME IInv, NEW me \in Sides, turn = 1,
         NEW tr \in Trainers, NEW tm \in Teams, Join(tr, tm)
  PROVE  Plays(me)
<1> DEFINE seen == SeenFrom(me)
<1>1. /\ status = "waiting" /\ status' = "active" /\ turn' = 1
      /\ version' = version + 1 /\ logLen' = logLen + 1
  BY DEF Join, JoinVerdict
<1>2. seen' = A!Joined(seen)
  <2>1. seen' = Seen("active", Who(me, 1), Who(me, turn), version + 1, logLen + 1)
    BY <1>1 DEF SeenFrom
  <2>2. A!Joined(seen) = Seen("active", Who(me, 1), Who(me, turn), version + 1, logLen + 1)
    BY SeenIsView, JoinedIsSeen
  <2> QED  BY <2>1, <2>2
<1>3. seen.status = "waiting" /\ seen.opener = Who(me, 1)
  BY <1>1 DEF SeenFrom, Seen
<1>4. Who(me, 2) # Who(me, 1) /\ Who(me, 2) \in {"me", "them"}
  BY DEF Who, Sides
<1> HIDE DEF seen
<1>5. seen' \in A!Results("join", Who(me, 2), seen)
  BY <1>2, <1>3, <1>4 DEF A!Results
<1> QED  BY <1>4, <1>5 DEF Plays, seen

\* The opener is to move while nobody has joined.
OpenerIsNext == status = "waiting" => turn = 1

\* From either side, a battle starts as Arena's and is only ever joined by the
\* other player, or moved by whoever is to move: so what is proved of the
\* programs that poll Arena's battles holds of battles with rules.
THEOREM SeenAsArena ==
  ASSUME NEW me \in Sides
  PROVE  Spec => /\ SeenFrom(me) = A!Opened(Who(me, 1))
                 /\ [][Plays(me)]_vars
<1>1. Init => SeenFrom(me) = A!Opened(Who(me, 1)) /\ OpenerIsNext
  BY DEF Init, SeenFrom, Seen, A!Opened, OpenerIsNext
<1>2. IInv /\ OpenerIsNext /\ [Next]_vars => OpenerIsNext' /\ [Plays(me)]_vars
  <2> SUFFICES ASSUME IInv, OpenerIsNext, [Next]_vars
               PROVE  OpenerIsNext' /\ [Plays(me)]_vars
    OBVIOUS
  <2>1. ASSUME NEW tr \in Trainers, NEW tm \in Teams, Join(tr, tm)
        PROVE  OpenerIsNext' /\ [Plays(me)]_vars
    BY <2>1, JoinPlays DEF OpenerIsNext, Join, JoinVerdict
  <2>2. ASSUME NEW tr \in Trainers, NEW a, NEW m, NEW t, TakeTurn(tr, a, m, t)
        PROVE  OpenerIsNext' /\ [Plays(me)]_vars
    BY <2>2, TurnPlays, TurnIsSeen DEF OpenerIsNext
  <2>3. CASE UNCHANGED vars
    BY <2>3 DEF vars, OpenerIsNext
  <2> QED  BY <2>1, <2>2, <2>3 DEF Next
<1> QED  BY <1>1, <1>2, Inductive, PTL DEF Spec

-----------------------------------------------------------------------------
(* The row a store keeps of a battle (AtomicBattle)                        *)

NoRow == [status |-> "none"]

RowOf(st, owners, mover, v) ==
  [status |-> st, owner |-> owners, turn |-> mover, version |-> v]

row == RowOf(status, owner, turn, version)

R == INSTANCE AtomicBattle WITH Players <- Trainers, NoPlayer <- NoTrainer,
                                Requests <- {}, NoBattle <- NoRow, battle <- row,
                                call <- <<>>, answer <- <<>>

JoinCall(tr) == [op |-> "join", by |-> tr]

TurnCall(tr) == [op |-> "turn", by |-> tr]

\* What the rules make of a battle is what the store may make of its row, for a
\* call it does not refuse.
Accepted(tr) ==
  \E c \in {JoinCall(tr), TurnCall(tr)} :
    R!Verdict(row, c) = "ok" /\ row' \in R!Outcomes(row, c)

\* The refusals of takeTurn that are about the turn and not about the battle
TurnRefusals == {"no attacker", "no target", "attacker fainted", "no move",
                 "errTargetFainted", "disabled"}

\* The store's reasons to refuse a call are those of the rules.
RefusalsAgree ==
  \A tr \in Trainers :
    /\ R!Verdict(row, JoinCall(tr)) = JoinVerdict(tr)
    /\ \A a, m, t : TurnVerdict(tr, a, m, t)
                      \in IF R!Verdict(row, TurnCall(tr)) = "ok"
                         THEN TurnRefusals \cup {"ok"}
                         ELSE {R!Verdict(row, TurnCall(tr))}

LEMMA RowFields ==
  /\ row.status = status /\ row.owner = owner
  /\ row.turn = turn /\ row.version = version
BY DEF row, RowOf

LEMMA RowIsThere ==
  ASSUME IInv
  PROVE  row # NoRow /\ row \in R!Battles
<1>1. status \in {"waiting", "active", "finished"}
  BY DEF IInv, TypeInv, TypeOK
<1>2. NoRow.status = "none"
  BY DEF NoRow
<1>3. row \in R!Battles
  BY <1>1 DEF IInv, TypeInv, TypeOK, row, RowOf, R!Battles, Sides
<1> QED  BY <1>1, <1>2, <1>3, RowFields

LEMMA CallFields ==
  ASSUME NEW tr
  PROVE  /\ JoinCall(tr).op = "join" /\ JoinCall(tr).by = tr
         /\ TurnCall(tr).op = "turn" /\ TurnCall(tr).by = tr
BY DEF JoinCall, TurnCall

LEMMA RefusalsAreTheRules ==
  ASSUME IInv
  PROVE  RefusalsAgree
<1> SUFFICES ASSUME NEW tr \in Trainers
             PROVE  /\ R!Verdict(row, JoinCall(tr)) = JoinVerdict(tr)
                    /\ \A a, m, t : TurnVerdict(tr, a, m, t)
                                      \in IF R!Verdict(row, TurnCall(tr)) = "ok"
                                         THEN TurnRefusals \cup {"ok"}
                                         ELSE {R!Verdict(row, TurnCall(tr))}
  BY DEF RefusalsAgree
<1>1. R!Verdict(row, JoinCall(tr)) = JoinVerdict(tr)
  BY RowIsThere, RowFields, CallFields DEF R!Verdict, JoinVerdict
<1>2. R!Verdict(row, TurnCall(tr))
        = IF status = "finished" THEN "errBattleOver"
          ELSE IF status # "active" THEN "errNotWaiting"
          ELSE IF owner[turn] # tr THEN "errNotYourTurn" ELSE "ok"
  BY RowIsThere, RowFields, CallFields DEF R!Verdict
<1>3. ASSUME NEW a, NEW m, NEW t
      PROVE  TurnVerdict(tr, a, m, t)
               \in IF R!Verdict(row, TurnCall(tr)) = "ok"
                  THEN TurnRefusals \cup {"ok"} ELSE {R!Verdict(row, TurnCall(tr))}
  BY <1>2 DEF TurnVerdict, TurnRefusals
<1> QED  BY <1>1, <1>3

LEMMA JoinIsAccepted ==
  ASSUME IInv, turn = 1, NEW tr \in Trainers, NEW tm \in Teams, Join(tr, tm)
  PROVE  Accepted(tr)
<1>1. /\ status' = "active" /\ turn' = 1 /\ version' = version + 1
      /\ owner' = [owner EXCEPT ![2] = tr]
  BY DEF Join
<1>2. R!Verdict(row, JoinCall(tr)) = "ok"
  BY RefusalsAreTheRules DEF RefusalsAgree, Join
<1>3. row' = RowOf("active", [owner EXCEPT ![2] = tr], 1, version + 1)
  BY <1>1 DEF row
<1>4. row' \in R!Outcomes(row, JoinCall(tr))
  BY <1>3, RowFields, CallFields DEF R!Outcomes, RowOf
<1> QED  BY <1>2, <1>4 DEF Accepted

RowUpdated(b, st, mover, v) == [b EXCEPT !.status = st, !.turn = mover, !.version = v]

LEMMA RowUpdates ==
  ASSUME NEW b \in R!Battles, NEW st \in {"waiting", "active", "finished"},
         NEW mover \in 1..2, NEW v \in Nat
  PROVE  RowUpdated(b, st, mover, v) = RowOf(st, b.owner, mover, v)
<1> DEFINE c == [b EXCEPT !.status = st, !.turn = mover, !.version = v]
           d == RowOf(st, b.owner, mover, v)
<1>1. c \in R!Battles
  BY DEF R!Battles
<1>2. d \in R!Battles
  BY DEF R!Battles, RowOf
<1>3. c.status = st /\ c.owner = b.owner /\ c.turn = mover /\ c.version = v
  BY DEF R!Battles
<1>4. d.status = st /\ d.owner = b.owner /\ d.turn = mover /\ d.version = v
  BY DEF RowOf
<1> HIDE DEF c, d
<1>5. c = d
  BY <1>1, <1>2, <1>3, <1>4 DEF R!Battles
<1> QED  BY <1>5 DEF c, d, RowUpdated

\* The two outcomes of a turn are those of the rules: the other side's move, or
\* the end with the mover left as it is.
LEMMA TurnIsAccepted ==
  ASSUME IInv, NEW tr \in Trainers, NEW a, NEW m, NEW t, TakeTurn(tr, a, m, t)
  PROVE  Accepted(tr)
<1>1. /\ status = "active" /\ status' \in {"active", "finished"}
      /\ turn' = IF status' = "active" THEN Opponent(turn) ELSE turn
      /\ version' = version + 1 /\ owner' = owner
  BY TurnIsSeen DEF TakeTurn
<1>2. R!Verdict(row, TurnCall(tr)) = "ok"
  BY RefusalsAreTheRules, "ok" # "errBattleOver" /\ "ok" # "errNotWaiting"
     DEF RefusalsAgree, TakeTurn
<1> DEFINE v == version + 1
           mover == 3 - turn
<1>3. v \in Nat /\ mover \in 1..2 /\ turn \in 1..2 /\ Opponent(turn) = mover
  BY DEF IInv, TypeInv, TypeOK, Opponent, Sides
<1>4. CASE status' = "active"
  <2>1. row' = RowOf("active", row.owner, mover, v)
    BY <1>1, <1>3, <1>4, RowFields DEF row
  <2>2. [row EXCEPT !.turn = 3 - row.turn, !.version = row.version + 1]
          = [row EXCEPT !.turn = mover, !.version = v]
    BY RowFields
  <2> HIDE DEF v, mover
  <2>3. [row EXCEPT !.turn = mover, !.version = v] = RowUpdated(row, "active", mover, v)
    BY <1>1, <1>3, RowIsThere, RowFields DEF R!Battles, RowUpdated
  <2>4. RowUpdated(row, "active", mover, v) = RowOf("active", row.owner, mover, v)
    BY <1>3, RowIsThere, RowUpdates
  <2>5. row' = [row EXCEPT !.turn = 3 - row.turn, !.version = row.version + 1]
    BY <2>1, <2>2, <2>3, <2>4
  <2>6. row' \in R!Outcomes(row, TurnCall(tr))
    BY <2>5, CallFields DEF R!Outcomes
  <2> QED  BY <1>2, <2>6 DEF Accepted
<1>5. CASE status' = "finished"
  <2>1. row' = RowOf("finished", row.owner, turn, v)
    BY <1>1, <1>5, RowFields DEF row
  <2>2. [row EXCEPT !.status = "finished", !.version = row.version + 1]
          = [row EXCEPT !.status = "finished", !.version = v]
    BY RowFields
  <2> HIDE DEF v, mover
  <2>3. [row EXCEPT !.status = "finished", !.version = v]
          = RowUpdated(row, "finished", turn, v)
    BY <1>3, RowIsThere, RowFields DEF R!Battles, RowUpdated
  <2>4. RowUpdated(row, "finished", turn, v) = RowOf("finished", row.owner, turn, v)
    BY <1>3, RowIsThere, RowUpdates
  <2>5. row' = [row EXCEPT !.status = "finished", !.version = row.version + 1]
    BY <2>1, <2>2, <2>3, <2>4
  <2>6. row' \in R!Outcomes(row, TurnCall(tr))
    BY <2>5, CallFields DEF R!Outcomes
  <2> QED  BY <1>2, <2>6 DEF Accepted
<1> QED  BY <1>1, <1>4, <1>5

\* A battle's row starts as AtomicBattle's, every accepted join or turn makes of
\* it one of the outcomes AtomicBattle allows, and the two refuse for the same
\* reasons: so the row the transactions of PgBattle race for is this battle's.
THEOREM RowsAreBattles ==
  Spec => /\ \E tr \in Trainers : row = R!Opened(tr)
          /\ []RefusalsAgree
          /\ [][\E tr \in Trainers : Accepted(tr)]_vars
<1>1. Init => (\E tr \in Trainers : row = R!Opened(tr)) /\ OpenerIsNext
  BY DEF Init, row, RowOf, R!Opened, OpenerIsNext, Sides
<1>2. IInv => RefusalsAgree
  BY RefusalsAreTheRules
<1>3. /\ IInv /\ OpenerIsNext /\ [Next]_vars
      => OpenerIsNext' /\ [\E tr \in Trainers : Accepted(tr)]_vars
  <2> SUFFICES ASSUME IInv, OpenerIsNext, [Next]_vars
               PROVE  OpenerIsNext' /\ [\E tr \in Trainers : Accepted(tr)]_vars
    OBVIOUS
  <2>1. ASSUME NEW tr \in Trainers, NEW tm \in Teams, Join(tr, tm)
        PROVE  OpenerIsNext' /\ [\E q \in Trainers : Accepted(q)]_vars
    BY <2>1, JoinIsAccepted DEF OpenerIsNext, Join, JoinVerdict
  <2>2. ASSUME NEW tr \in Trainers, NEW a, NEW m, NEW t, TakeTurn(tr, a, m, t)
        PROVE  OpenerIsNext' /\ [\E q \in Trainers : Accepted(q)]_vars
    BY <2>2, TurnIsAccepted, TurnIsSeen DEF OpenerIsNext
  <2>3. CASE UNCHANGED vars
    BY <2>3 DEF vars, OpenerIsNext
  <2> QED  BY <2>1, <2>2, <2>3 DEF Next
<1> QED  BY <1>1, <1>2, <1>3, Inductive, PTL DEF Spec
=============================================================================

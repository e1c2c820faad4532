------------------------------ MODULE TuiProofs ------------------------------
(***************************************************************************)
(* Theorems about Tui: the terminal app never stops polling the battle it  *)
(* is in, for any number of battles, commands, misses and updates.         *)
(***************************************************************************)
EXTENDS Tui, TLAPS

Players == {"me", "them"}
Records == [status : {"none", "waiting", "active", "finished"}, opener : Players,
            turn : Players, version : Nat, log : Nat]

\* A battle that is not there yet has had no update.
Battles == {b \in Records : b.status = "none" => b.version = 0}

\* What the terminal may show: nothing, or a battle the server has sent.
Shows == {NoView} \cup [id : BattleIds, b : Battles]

Commands == [kind : {"none", "lobby", "create", "join", "get", "poll", "attack"},
             id : BattleIds \cup {NoId}, state : {"idle", "out", "ok", "err"},
             view : Shows, list : SUBSET BattleIds]

\* A command for one battle has one, and brings one when it succeeds.
CmdHasBattle(r) ==
  /\ r.kind \in {"join", "get", "poll", "attack"} => r.id \in BattleIds
  /\ r.state = "ok" /\ r.kind # "lobby" => r.view # NoView

TuiTypes ==
  /\ arena \in [BattleIds -> Battles]
  /\ screen \in {"browse", "lobby", "team", "battle"}
  /\ battle \in [id : BattleIds \cup {NoId}, shown : Shows, misses : 0..(MaxMisses - 1)]
  /\ battle # NotEntered => battle.id \in BattleIds
  /\ lobby \in SUBSET BattleIds
  /\ joining \in BattleIds \cup {NoId} /\ lastBattle \in BattleIds \cup {NoId}
  /\ cmd \in [Cmds -> Commands]
  /\ \A c \in Cmds : CmdHasBattle(cmd[c])

TuiInv == TuiTypes /\ BattleIsPolled /\ BattleScreenHasBattle

-----------------------------------------------------------------------------
\* An accepted call makes a battle of a battle, one version further (Arena).
LEMMA ResultIsBattle ==
  ASSUME NEW kind \in {"create", "join", "attack"}, NEW p \in Players,
         NEW b \in Battles, NEW r \in Results(kind, p, b)
  PROVE  r \in Battles /\ r.version > b.version
<1> DEFINE v == b.version + 1
           n == b.log + 1
<1>1. /\ v = b.version + 1 /\ n = b.log + 1 /\ n \in Nat
      /\ v \in Nat /\ v > b.version /\ b.version \in Nat
  BY DEF Battles, Records
<1> HIDE DEF v, n
<1> USE DEF Battles, Records
<1>2. CASE kind = "create"
  <2>1. r = Opened(p) /\ b.status = "none"
    BY <1>2 DEF Results
  <2>2. b.version = 0
    BY <2>1
  <2> QED  BY <2>1, <2>2 DEF Opened
<1>3. CASE kind = "join"
  <2>1. r = Joined(b)
    BY <1>3 DEF Results
  <2>2. [b EXCEPT !.status = "active", !.version = v, !.log = n] \in Battles
    BY <1>1
  <2> QED  BY <1>1, <2>1, <2>2 DEF Joined
<1>4. CASE kind = "attack"
  <2>1. r \in Turned(b)
    BY <1>4 DEF Results
  <2>2. PICK s \in {"active", "finished"}, e \in Entries : r = TurnEnds(b, s, e)
    BY <2>1 DEF Turned
  <2> DEFINE t == IF s = "active" THEN Other(b.turn) ELSE b.turn
             l == b.log + e
  <2>3. t \in Players /\ l \in Nat
    BY ArenaAssumption DEF Players, Other
  <2>4. r = [b EXCEPT !.status = s, !.turn = t, !.version = v, !.log = l]
    BY <1>1, <2>2 DEF TurnEnds
  <2> HIDE DEF t, l
  <2> QED  BY <1>1, <2>3, <2>4
<1> QED  BY <1>2, <1>3, <1>4

LEMMA AcceptedIsBattle ==
  ASSUME arena \in [BattleIds -> Battles], NEW kind \in {"create", "join", "attack"},
         NEW id, kind # "create" => id \in BattleIds,
         NEW view \in Accepted(kind, id)
  PROVE  /\ view \in [id : BattleIds, b : Battles] /\ view # NoView
         /\ view.b.version > arena[view.id].version
<1>1. PICK i \in BattleIds : \E b \in Results(kind, "me", arena[i]) : view = [id |-> i, b |-> b]
  BY DEF Accepted
<1>2. PICK b \in Results(kind, "me", arena[i]) : view = [id |-> i, b |-> b]
  BY <1>1
<1>3. b \in Battles /\ b.version > arena[i].version
  BY <1>1, <1>2, ResultIsBattle DEF Players
<1>4. i # NoId
  BY ArenaAssumption
<1> QED  BY <1>2, <1>3, <1>4 DEF NoView

\* A command takes a place that has none, so no poll is lost.
LEMMA RunKeeps ==
  ASSUME TuiTypes, NEW kind \in {"lobby", "create", "join", "get", "attack"},
         NEW id \in BattleIds \cup {NoId},
         kind \in {"join", "get", "attack"} => id \in BattleIds,
         Run(Cmd(kind, id))
  PROVE  /\ cmd' \in [Cmds -> Commands]
         /\ \A c \in Cmds : CmdHasBattle(cmd'[c])
         /\ \A c \in Cmds : cmd[c].kind = "poll" => cmd'[c] = cmd[c]
<1>1. PICK c \in Cmds : cmd[c].kind = "none" /\ cmd' = [cmd EXCEPT ![c] = Cmd(kind, id)]
  BY DEF Run
<1>2. Cmd(kind, id) \in Commands /\ CmdHasBattle(Cmd(kind, id))
  BY DEF Cmd, NoCmd, Commands, CmdHasBattle, Shows
<1> QED  BY <1>1, <1>2 DEF TuiTypes

\* So does one that takes the place of the command whose message was handled.
LEMMA FollowKeeps ==
  ASSUME TuiTypes, NEW c \in Cmds, NEW command, Follow(c, command),
         \/ command \in {NoCmd, Cmd("lobby", NoId)}
         \/ \E id \in BattleIds : command = Cmd("poll", id)
  PROVE  /\ cmd' \in [Cmds -> Commands]
         /\ \A d \in Cmds : CmdHasBattle(cmd'[d])
         /\ cmd'[c] = command
         /\ \A d \in Cmds : d # c => cmd'[d] = cmd[d]
<1>1. command \in Commands /\ CmdHasBattle(command)
  <2> USE DEF Cmd, NoCmd, Commands, CmdHasBattle, Shows
  <2>1. CASE command = NoCmd
    BY <2>1
  <2>2. CASE command = Cmd("lobby", NoId)
    BY <2>2
  <2>3. ASSUME NEW id \in BattleIds, command = Cmd("poll", id)
        PROVE  command \in Commands /\ CmdHasBattle(command)
    BY <2>3
  <2> QED  BY <2>1, <2>2, <2>3
<1>2. cmd' = [cmd EXCEPT ![c] = command]
  BY DEF Follow
<1> QED  BY <1>1, <1>2 DEF TuiTypes

LEMMA ReturnsKeeps ==
  ASSUME TuiTypes, NEW c \in Cmds, NEW state \in {"ok", "err"}, NEW view \in Shows,
         state = "ok" => view # NoView, Returns(c, state, view)
  PROVE  /\ cmd' \in [Cmds -> Commands]
         /\ \A d \in Cmds : CmdHasBattle(cmd'[d])
         /\ \A d \in Cmds : cmd'[d].kind = cmd[d].kind /\ cmd'[d].id = cmd[d].id
<1> DEFINE new == [cmd[c] EXCEPT !.state = state, !.view = view]
<1>1. cmd[c] \in Commands /\ CmdHasBattle(cmd[c])
  BY DEF TuiTypes
<1>2. /\ new \in Commands /\ CmdHasBattle(new)
      /\ new.kind = cmd[c].kind /\ new.id = cmd[c].id
  BY <1>1 DEF Commands, CmdHasBattle
<1>3. cmd' = [cmd EXCEPT ![c] = new]
  BY DEF Returns
<1> HIDE DEF new
<1> QED  BY <1>2, <1>3 DEF TuiTypes

-----------------------------------------------------------------------------
LEMMA TuiStarts == TuiInit => TuiInv
<1> SUFFICES ASSUME TuiInit PROVE TuiInv
  OBVIOUS
<1>1. NoBattle \in Battles /\ NoView \in Shows /\ 0 \in 0..(MaxMisses - 1)
  BY ArenaAssumption, TuiAssumption DEF NoBattle, Battles, Records, Players, Shows
<1>2. NoCmd \in Commands /\ CmdHasBattle(NoCmd)
  BY DEF NoCmd, Commands, CmdHasBattle, Shows
<1> QED
  BY <1>1, <1>2 DEF TuiInit, ArenaInit, NotEntered, TuiInv, TuiTypes, BattleIsPolled,
                    BattleScreenHasBattle

\* A key leaves the polls alone.
LEMMA KeysKeep ==
  ASSUME TuiInv, Keys
  PROVE  TuiInv'
<1> USE DEF TuiInv
<1> DEFINE CmdsKept == /\ cmd' \in [Cmds -> Commands]
                       /\ \A c \in Cmds : CmdHasBattle(cmd'[c])
                       /\ \A c \in Cmds : cmd[c].kind = "poll" => cmd'[c] = cmd[c]
<1>1. UNCHANGED cmd => CmdsKept
  BY DEF TuiTypes
<1>2. \A kind \in {"lobby", "create", "join", "get", "attack"}, id \in BattleIds \cup {NoId} :
        (kind \in {"join", "get", "attack"} => id \in BattleIds) /\ Run(Cmd(kind, id))
        => CmdsKept
  BY RunKeeps
<1>3. CmdsKept /\ UNCHANGED battle => BattleIsPolled'
  BY DEF BattleIsPolled
<1> HIDE DEF CmdsKept
<1>4. CmdsKept
  <2>1. CASE EnterLobby \/ Refresh \/ LeaveBattle
    BY <1>2, <2>1 DEF EnterLobby, Refresh, LeaveBattle
  <2>2. CASE OpenAtOnce
    BY <1>2, <2>2 DEF OpenAtOnce
  <2>3. CASE Resume
    BY <1>2, <2>3 DEF Resume, TuiTypes
  <2>4. CASE StartBattle
    BY <1>2, <2>4 DEF StartBattle, TuiTypes
  <2>5. CASE Attack
    <3>1. battle.id \in BattleIds
      BY <2>5 DEF Attack, TuiTypes, BattleScreenHasBattle
    <3> QED  BY <1>2, <2>5, <3>1 DEF Attack
  <2>6. CASE PickTeam \/ BackOut
    BY <1>1, <2>6 DEF PickTeam, BackOut
  <2> QED  BY <2>1, <2>2, <2>3, <2>4, <2>5, <2>6 DEF Keys
<1>5. CASE LeaveBattle
  <2>1. NotEntered \in [id : BattleIds \cup {NoId}, shown : Shows, misses : 0..(MaxMisses - 1)]
    BY TuiAssumption DEF NotEntered, Shows
  <2> QED  BY <1>4, <1>5, <2>1 DEF LeaveBattle, TuiTypes, BattleIsPolled, BattleScreenHasBattle, CmdsKept
<1>6. CASE UNCHANGED battle /\ arena' = arena
  <2>1. BattleScreenHasBattle'
    BY <1>6 DEF BattleScreenHasBattle, Keys, EnterLobby, OpenAtOnce, Resume, Refresh, PickTeam,
                BackOut, StartBattle, LeaveBattle, Attack, ui
  <2>2. /\ screen' \in {"browse", "lobby", "team", "battle"}
        /\ lobby' \in SUBSET BattleIds
        /\ joining' \in BattleIds \cup {NoId} /\ lastBattle' \in BattleIds \cup {NoId}
    BY DEF TuiTypes, Keys, EnterLobby, OpenAtOnce, Resume, Refresh, PickTeam, BackOut,
           StartBattle, LeaveBattle, Attack, ui
  <2> QED  BY <1>3, <1>4, <1>6, <2>1, <2>2 DEF TuiTypes, CmdsKept
<1> QED
  BY <1>5, <1>6 DEF Keys, EnterLobby, OpenAtOnce, Resume, Refresh, PickTeam, BackOut,
                    StartBattle, Attack, ui

\* Answers wait for Update: the screen and the polls stay as they are.
LEMMA AnswersKeep ==
  ASSUME TuiInv, NEW c \in Cmds, Fails(c) \/ Serve(c) \/ Get(c) \/ List(c)
  PROVE  TuiInv'
<1> USE DEF TuiInv
<1> DEFINE Ended == /\ arena' \in [BattleIds -> Battles]
                    /\ cmd' \in [Cmds -> Commands]
                    /\ \A d \in Cmds : CmdHasBattle(cmd'[d])
                    /\ \A d \in Cmds : cmd'[d].kind = cmd[d].kind /\ cmd'[d].id = cmd[d].id
<1>1. Ended /\ UNCHANGED ui => TuiInv'
  BY DEF ui, TuiTypes, BattleIsPolled, BattleScreenHasBattle
<1>2. NoView \in Shows /\ cmd[c] \in Commands /\ CmdHasBattle(cmd[c])
  BY DEF Shows, TuiTypes
<1>3. CASE Fails(c)
  <2>1. Ended
    BY <1>2, <1>3, ReturnsKeeps DEF Fails, TuiTypes
  <2> QED  BY <1>1, <1>3, <2>1 DEF Fails
<1>4. CASE Serve(c)
  <2>1. cmd[c].kind \in {"create", "join", "attack"}
    BY <1>4 DEF Serve
  <2>2. \A view \in Accepted(cmd[c].kind, cmd[c].id) :
          view \in [id : BattleIds, b : Battles] /\ view # NoView
    BY <1>2, <2>1, AcceptedIsBattle DEF TuiTypes, CmdHasBattle
  <2>3. arena' \in [BattleIds -> Battles]
    BY <1>4, <2>2 DEF Serve, Becomes, TuiTypes
  <2>4. \E state \in {"ok", "err"} : \E view \in Shows :
          (state = "ok" => view # NoView) /\ Returns(c, state, view)
    BY <1>2, <1>4, <2>2 DEF Serve, Shows
  <2>5. Ended
    BY <2>3, <2>4, ReturnsKeeps
  <2> QED  BY <1>1, <1>4, <2>5 DEF Serve
<1>5. CASE Get(c)
  <2> DEFINE view == [id |-> cmd[c].id, b |-> arena[cmd[c].id]]
  <2>1. cmd[c].id \in BattleIds
    BY <1>2, <1>5 DEF Get, CmdHasBattle
  <2>2. view \in Shows /\ view # NoView
    BY <2>1, ArenaAssumption DEF Shows, NoView, TuiTypes
  <2>3. Returns(c, "ok", view)
    BY <1>5 DEF Get
  <2> HIDE DEF view
  <2>4. Ended
    BY <1>5, <2>2, <2>3, ReturnsKeeps DEF Get, TuiTypes
  <2> QED  BY <1>1, <1>5, <2>4 DEF Get
<1>6. CASE List(c)
  <2> DEFINE new == [cmd[c] EXCEPT !.state = "ok", !.list = Waiting]
  <2>1. /\ new \in Commands /\ CmdHasBattle(new)
        /\ new.kind = cmd[c].kind /\ new.id = cmd[c].id
    BY <1>2, <1>6 DEF List, Commands, CmdHasBattle, Waiting
  <2>2. cmd' = [cmd EXCEPT ![c] = new]
    BY <1>6 DEF List
  <2> HIDE DEF new
  <2>3. Ended
    BY <1>6, <2>1, <2>2 DEF List, TuiTypes
  <2> QED  BY <1>1, <1>6, <2>3 DEF List
<1> QED  BY <1>3, <1>4, <1>5, <1>6

LEMMA UpdateKeeps ==
  ASSUME TuiInv, NEW c \in Cmds, Update(c)
  PROVE  TuiInv'
<1> USE DEF TuiInv
<1> DEFINE Entered == [id : BattleIds \cup {NoId}, shown : Shows, misses : 0..(MaxMisses - 1)]
           Followed(command) == /\ cmd' \in [Cmds -> Commands]
                                /\ \A d \in Cmds : CmdHasBattle(cmd'[d])
                                /\ cmd'[c] = command
                                /\ \A d \in Cmds : d # c => cmd'[d] = cmd[d]
<1>1. /\ \A command : Follow(c, command) /\ command = NoCmd => Followed(command)
      /\ Follow(c, Cmd("lobby", NoId)) => Followed(Cmd("lobby", NoId))
      /\ \A id \in BattleIds : Follow(c, Cmd("poll", id)) => Followed(Cmd("poll", id))
  BY FollowKeeps
<1>2. \A id : Cmd("poll", id).kind = "poll" /\ Cmd("poll", id).id = id
  BY DEF Cmd, NoCmd
<1>3. cmd[c] \in Commands /\ CmdHasBattle(cmd[c]) /\ battle \in Entered
  BY DEF TuiTypes
<1>4. NotEntered \in Entered
  BY TuiAssumption DEF NotEntered, Shows
\* Another command's message leaves the poll that runs.
<1>5. ASSUME NEW command, Followed(command), cmd[c].kind # "poll", UNCHANGED battle
      PROVE  BattleIsPolled'
  BY <1>5 DEF BattleIsPolled
<1>6. ASSUME Followed(Cmd("poll", battle'.id))
      PROVE  BattleIsPolled'
  BY <1>2, <1>6 DEF BattleIsPolled
<1> HIDE DEF Followed
<1>7. CASE BattleMsgNobody(c)
  <2>1. Followed(NoCmd)
    BY <1>1, <1>7 DEF BattleMsgNobody
  <2> QED  BY <1>7, <2>1 DEF BattleMsgNobody, ui, TuiTypes, BattleIsPolled, BattleScreenHasBattle,
                            Followed
<1>8. CASE BattleMsgErr(c) /\ battle.misses + 1 >= MaxMisses
  <2>1. Followed(Cmd("lobby", NoId)) /\ battle' = NotEntered /\ screen' = "lobby"
    BY <1>1, <1>8 DEF BattleMsgErr
  <2> QED  BY <1>4, <1>8, <2>1 DEF BattleMsgErr, TuiTypes, BattleIsPolled, BattleScreenHasBattle, Followed
<1>9. CASE BattleMsgErr(c) /\ ~(battle.misses + 1 >= MaxMisses)
  <2>1. battle.id \in BattleIds
    BY <1>9 DEF BattleMsgErr, TuiTypes
  <2>2. battle' = [battle EXCEPT !.misses = @ + 1] /\ Followed(Cmd("poll", battle.id))
    BY <1>1, <1>9, <2>1 DEF BattleMsgErr
  <2>3. battle' \in Entered /\ battle'.id = battle.id
    BY <1>3, <1>9, <2>2, TuiAssumption
  <2>4. battle' # NotEntered
    BY <2>1, <2>3, ArenaAssumption DEF NotEntered
  <2>5. BattleIsPolled'
    BY <1>6, <2>2, <2>3
  <2> QED  BY <1>9, <2>1, <2>2, <2>3, <2>4, <2>5 DEF BattleMsgErr, TuiTypes, BattleScreenHasBattle, Followed
<1>10. CASE BattleMsg(c)
  <2>1. battle.id \in BattleIds
    BY <1>10 DEF BattleMsg, TuiTypes
  <2>2. battle' = [battle EXCEPT !.shown = cmd[c].view, !.misses = 0] /\ Followed(Cmd("poll", battle.id))
    BY <1>1, <1>10, <2>1 DEF BattleMsg
  <2>3. battle' \in Entered /\ battle'.id = battle.id
    <3>1. cmd[c].view \in Shows /\ 0 \in 0..(MaxMisses - 1)
      BY <1>3, TuiAssumption DEF Commands
    <3> QED  BY <1>3, <2>2, <3>1
  <2>4. battle' # NotEntered
    BY <2>1, <2>3, ArenaAssumption DEF NotEntered
  <2>5. BattleIsPolled'
    BY <1>6, <2>2, <2>3
  <2> QED  BY <1>10, <2>1, <2>2, <2>3, <2>4, <2>5 DEF BattleMsg, TuiTypes, BattleScreenHasBattle, Followed
<1>11. CASE StartedMsgErr(c)
  <2>1. Followed(Cmd("lobby", NoId))
    BY <1>1, <1>11 DEF StartedMsgErr
  <2>2. BattleIsPolled'
    BY <1>5, <1>11, <2>1 DEF StartedMsgErr, IsStartedMsg
  <2> QED  BY <1>11, <2>1, <2>2 DEF StartedMsgErr, TuiTypes, BattleScreenHasBattle, Followed
<1>12. CASE StartedMsg(c)
  <2> DEFINE view == cmd[c].view
  <2>1. view \in [id : BattleIds, b : Battles] /\ view \in Shows /\ view.id \in BattleIds
    BY <1>3, <1>12 DEF StartedMsg, IsStartedMsg, CmdHasBattle, Commands, Shows
  <2>2. /\ battle' = [id |-> view.id, shown |-> view, misses |-> 0]
        /\ lastBattle' = view.id /\ screen' = "battle"
        /\ Followed(Cmd("poll", view.id))
    BY <1>1, <1>12, <2>1 DEF StartedMsg
  <2> HIDE DEF view
  <2>3. battle' \in Entered /\ battle'.id = view.id
    BY <2>1, <2>2, TuiAssumption
  <2>4. battle' # NotEntered
    BY <2>1, <2>3, ArenaAssumption DEF NotEntered
  <2>5. BattleIsPolled'
    BY <1>6, <2>2, <2>3
  <2> QED  BY <1>12, <2>1, <2>2, <2>3, <2>4, <2>5
           DEF StartedMsg, TuiTypes, BattleScreenHasBattle, Followed
<1>13. CASE LobbyMsg(c)
  <2>1. PICK command \in {NoCmd, Cmd("lobby", NoId)} : Followed(command)
    BY <1>1, <1>13 DEF LobbyMsg
  <2>2. BattleIsPolled'
    BY <1>5, <1>13, <2>1 DEF LobbyMsg
  <2>3. lobby' \in SUBSET BattleIds
    BY <1>3, <1>13 DEF LobbyMsg, TuiTypes, Commands
  <2> QED  BY <1>13, <2>1, <2>2, <2>3 DEF LobbyMsg, TuiTypes, BattleScreenHasBattle, Followed
<1> QED  BY <1>7, <1>8, <1>9, <1>10, <1>11, <1>12, <1>13 DEF Update

LEMMA TuiStep == TuiInv /\ [TuiNext]_tuiVars => TuiInv'
<1> SUFFICES ASSUME TuiInv, [TuiNext]_tuiVars
             PROVE  TuiInv'
  OBVIOUS
<1>1. CASE UNCHANGED tuiVars
  BY <1>1 DEF tuiVars, ui, TuiInv, TuiTypes, BattleIsPolled, BattleScreenHasBattle
<1>2. ASSUME NEW id \in BattleIds, TheyPlay(id), UNCHANGED <<ui, cmd>>
      PROVE  TuiInv'
  <2>1. arena' \in [BattleIds -> Battles]
    BY <1>2, ResultIsBattle DEF TheyPlay, Becomes, TuiInv, TuiTypes, Players
  <2> QED  BY <1>2, <2>1 DEF ui, TuiInv, TuiTypes, BattleIsPolled, BattleScreenHasBattle
<1> QED
  BY <1>1, <1>2, KeysKeep, AnswersKeep, UpdateKeeps DEF TuiNext

-----------------------------------------------------------------------------
\* The terminal's variables keep their types, and its misses stay below the
\* number that ends a battle.
THEOREM TuiTyped == TuiSpec => []TuiTypeOK
<1>1. TuiInv => TuiTypeOK
  <2> SUFFICES ASSUME TuiInv PROVE TuiTypeOK
    OBVIOUS
  <2>1. ArenaTypeOK
    BY DEF TuiInv, TuiTypes, ArenaTypeOK, Battles, Records, Players
  <2> QED  BY <2>1 DEF TuiInv, TuiTypes, TuiTypeOK, Commands
<1> QED  BY <1>1, TuiStarts, TuiStep, PTL DEF TuiSpec

\* As long as a battle is entered a poll of that battle is under way, for any
\* number of commands, battles and misses (battleMsg, startedMsg in model.go).
THEOREM PollGoesOn == TuiSpec => []BattleIsPolled
<1>1. TuiInv => BattleIsPolled
  BY DEF TuiInv
<1> QED  BY <1>1, TuiStarts, TuiStep, PTL DEF TuiSpec

\* The screen of a battle has one to show.
THEOREM ScreenHasBattle == TuiSpec => []BattleScreenHasBattle
<1>1. TuiInv => BattleScreenHasBattle
  BY DEF TuiInv
<1> QED  BY <1>1, TuiStarts, TuiStep, PTL DEF TuiSpec
=============================================================================

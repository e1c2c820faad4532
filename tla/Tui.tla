-------------------------------- MODULE Tui --------------------------------
(***************************************************************************)
(* The terminal app (pokedex-tui): Update in model.go handles one message  *)
(* at a time; every command it returns runs in the background and sends    *)
(* the message that ends it.  A command of a message takes its place in    *)
(* cmd.                                                                    *)
(***************************************************************************)
EXTENDS Arena

CONSTANTS Cmds,         \* the commands that may run at once
          MaxMisses     \* maxPollMisses

ASSUME TuiAssumption == MaxMisses \in Nat \ {0}

VARIABLES screen,
          battle,       \* the battle entered, what is shown of it and the misses
          lobby, joining, lastBattle,
          cmd           \* cmd[c]: a command, its result included

ui == <<screen, battle, lobby, joining, lastBattle>>
tuiVars == <<arena, ui, cmd>>

NotEntered == [id |-> NoId, shown |-> NoView, misses |-> 0]

NoCmd == [kind |-> "none", id |-> NoId, state |-> "idle", view |-> NoView, list |-> {}]

Cmd(kind, id) == [NoCmd EXCEPT !.kind = kind, !.id = id, !.state = "out"]

TuiInit == /\ ArenaInit
           /\ screen = "browse" /\ battle = NotEntered /\ lobby = {}
           /\ joining = NoId /\ lastBattle = NoId
           /\ cmd = [c \in Cmds |-> NoCmd]

Run(command) == \E c \in Cmds : cmd[c].kind = "none" /\ cmd' = [cmd EXCEPT ![c] = command]

-----------------------------------------------------------------------------
\* Keys.  browseKey and lobbyKey
EnterLobby == /\ screen = "browse"
              /\ screen' = "lobby"
              /\ Run(Cmd("lobby", NoId))
              /\ UNCHANGED <<arena, battle, lobby, joining, lastBattle>>

OpenAtOnce == /\ screen = "browse"
              /\ joining' = NoId
              /\ Run(Cmd("create", NoId))
              /\ UNCHANGED <<arena, screen, battle, lobby, lastBattle>>

Resume == /\ screen \in {"browse", "lobby"}
          /\ lastBattle # NoId
          /\ Run(Cmd("get", lastBattle))
          /\ UNCHANGED <<arena, ui>>

Refresh == /\ screen = "lobby"
           /\ Run(Cmd("lobby", NoId))
           /\ UNCHANGED <<arena, ui>>

PickTeam == /\ screen = "lobby"
            /\ joining' \in {NoId} \cup lobby
            /\ screen' = "team"
            /\ UNCHANGED <<arena, battle, lobby, lastBattle, cmd>>

\* esc, in the lobby and in the team picker
BackOut == /\ \/ screen = "lobby" /\ screen' = "browse"
              \/ screen = "team" /\ screen' = "lobby"
           /\ UNCHANGED <<arena, battle, lobby, joining, lastBattle, cmd>>

\* teamKey: a full team, or tab; the picker stays on the screen
StartBattle == /\ screen = "team"
               /\ Run(IF joining = NoId THEN Cmd("create", NoId) ELSE Cmd("join", joining))
               /\ UNCHANGED <<arena, ui>>

\* battleKey
LeaveBattle == /\ screen = "battle"
               /\ screen' = "lobby"
               /\ battle' = NotEntered
               /\ Run(Cmd("lobby", NoId))
               /\ UNCHANGED <<arena, lobby, joining, lastBattle>>

\* enter, on a turn that CheckTurn lets through
Attack == /\ screen = "battle"
          /\ IsMyTurn(battle.shown.b)
          /\ Run(Cmd("attack", battle.id))
          /\ UNCHANGED <<arena, ui>>

Keys == \/ EnterLobby \/ OpenAtOnce \/ Resume \/ Refresh \/ PickTeam \/ BackOut
        \/ StartBattle \/ LeaveBattle \/ Attack

-----------------------------------------------------------------------------
\* The server, and answers that are lost
Returns(c, state, view) ==
  cmd' = [cmd EXCEPT ![c] = [@ EXCEPT !.state = state, !.view = view]]

Fails(c) == /\ cmd[c].state = "out"
            /\ Returns(c, "err", NoView)
            /\ UNCHANGED <<arena, ui>>

Serve(c) ==
  /\ cmd[c].state = "out" /\ cmd[c].kind \in {"create", "join", "attack"}
  /\ \E view \in Accepted(cmd[c].kind, cmd[c].id) :
       /\ Becomes(view.id, view.b)
       /\ Returns(c, "ok", view) \/ Returns(c, "err", NoView)
  /\ UNCHANGED ui

\* A poll, after its interval, or a resume
Get(c) ==
  /\ cmd[c].state = "out" /\ cmd[c].kind \in {"poll", "get"}
  /\ Returns(c, "ok", [id |-> cmd[c].id, b |-> arena[cmd[c].id]])
  /\ UNCHANGED <<arena, ui>>

List(c) ==
  /\ cmd[c].state = "out" /\ cmd[c].kind = "lobby"
  /\ cmd' = [cmd EXCEPT ![c] = [@ EXCEPT !.state = "ok", !.list = Waiting]]
  /\ UNCHANGED <<arena, ui>>

-----------------------------------------------------------------------------
\* Update.
Follow(c, command) == cmd' = [cmd EXCEPT ![c] = command]

IsBattleMsg(c) == cmd[c].state \in {"ok", "err"} /\ cmd[c].kind \in {"poll", "attack"}

BattleMsgNobody(c) ==
  /\ IsBattleMsg(c) /\ battle = NotEntered
  /\ Follow(c, NoCmd)
  /\ UNCHANGED <<arena, ui>>

\* Mutant: a miss ends the chain of polls
BattleMsgErrEnds(c) ==
  /\ IsBattleMsg(c) /\ battle # NotEntered /\ cmd[c].state = "err"
  /\ IF battle.misses + 1 >= MaxMisses
     THEN screen' = "lobby" /\ battle' = NotEntered /\ Follow(c, Cmd("lobby", NoId))
     ELSE battle' = [battle EXCEPT !.misses = @ + 1] /\ Follow(c, NoCmd) /\ UNCHANGED screen
  /\ UNCHANGED <<arena, lobby, joining, lastBattle>>

\* Mutant: the last miss leaves the battle, not its screen
BattleMsgErrStays(c) ==
  /\ IsBattleMsg(c) /\ battle # NotEntered /\ cmd[c].state = "err"
  /\ IF battle.misses + 1 >= MaxMisses
     THEN battle' = NotEntered /\ Follow(c, Cmd("lobby", NoId))
     ELSE battle' = [battle EXCEPT !.misses = @ + 1] /\ Follow(c, Cmd("poll", battle.id))
  /\ UNCHANGED <<arena, screen, lobby, joining, lastBattle>>

\* Also a turn that was refused
BattleMsgErr(c) ==
  /\ IsBattleMsg(c) /\ battle # NotEntered /\ cmd[c].state = "err"
  /\ IF battle.misses + 1 >= MaxMisses
     THEN screen' = "lobby" /\ battle' = NotEntered /\ Follow(c, Cmd("lobby", NoId))
     ELSE /\ battle' = [battle EXCEPT !.misses = @ + 1]
          /\ Follow(c, Cmd("poll", battle.id))
          /\ UNCHANGED screen
  /\ UNCHANGED <<arena, lobby, joining, lastBattle>>

\* Mutant: a poll is shown while it is not our move only
BattleMsgTheirs(c) ==
  /\ IsBattleMsg(c) /\ battle # NotEntered /\ cmd[c].state = "ok"
  /\ battle' = [battle EXCEPT !.shown = IF IsMyTurn(@.b) THEN @ ELSE cmd[c].view, !.misses = 0]
  /\ Follow(c, Cmd("poll", battle.id))
  /\ UNCHANGED <<arena, screen, lobby, joining, lastBattle>>

\* applyBattle takes what comes, whichever battle and version it is of
BattleMsg(c) ==
  /\ IsBattleMsg(c) /\ battle # NotEntered /\ cmd[c].state = "ok"
  /\ battle' = [battle EXCEPT !.shown = cmd[c].view, !.misses = 0]
  /\ Follow(c, Cmd("poll", battle.id))
  /\ UNCHANGED <<arena, screen, lobby, joining, lastBattle>>

IsStartedMsg(c) == cmd[c].state \in {"ok", "err"} /\ cmd[c].kind \in {"create", "join", "get"}

\* The battle that is entered stays entered
StartedMsgErr(c) ==
  /\ IsStartedMsg(c) /\ cmd[c].state = "err"
  /\ screen' = "lobby"
  /\ Follow(c, Cmd("lobby", NoId))
  /\ UNCHANGED <<arena, battle, lobby, joining, lastBattle>>

StartedMsg(c) ==
  LET view == cmd[c].view
  IN  /\ IsStartedMsg(c) /\ cmd[c].state = "ok"
      /\ battle' = [id |-> view.id, shown |-> view, misses |-> 0]
      /\ lastBattle' = view.id
      /\ screen' = "battle"
      /\ Follow(c, Cmd("poll", view.id))
      /\ UNCHANGED <<arena, lobby, joining>>

\* Polled again while the lobby is on the screen
LobbyMsg(c) ==
  /\ cmd[c].state \in {"ok", "err"} /\ cmd[c].kind = "lobby"
  /\ lobby' = IF cmd[c].state = "ok" THEN cmd[c].list ELSE lobby
  /\ Follow(c, IF screen = "lobby" THEN Cmd("lobby", NoId) ELSE NoCmd)
  /\ UNCHANGED <<arena, screen, battle, joining, lastBattle>>

Update(c) == \/ BattleMsgNobody(c) \/ BattleMsgErr(c) \/ BattleMsg(c)
             \/ StartedMsgErr(c) \/ StartedMsg(c) \/ LobbyMsg(c)

TuiNext == \/ Keys
           \/ \E c \in Cmds : Fails(c) \/ Serve(c) \/ Get(c) \/ List(c) \/ Update(c)
           \/ \E id \in BattleIds : TheyPlay(id) /\ UNCHANGED <<ui, cmd>>

\* Messages are handled and commands have a deadline; polls do not fail forever.
TuiFairness ==
  \A c \in Cmds : /\ WF_tuiVars(Update(c))
                  /\ WF_tuiVars(Fails(c) \/ Serve(c) \/ Get(c) \/ List(c))
                  /\ SF_tuiVars(Get(c))

TuiSpec == TuiInit /\ [][TuiNext]_tuiVars /\ TuiFairness

-----------------------------------------------------------------------------
\* The screen, the battle entered and the commands have their types.
TuiTypeOK ==
  /\ ArenaTypeOK
  /\ screen \in {"browse", "lobby", "team", "battle"}
  /\ battle.id \in BattleIds \cup {NoId} /\ battle.misses \in 0..(MaxMisses - 1)
  /\ lobby \subseteq BattleIds
  /\ {joining, lastBattle} \subseteq BattleIds \cup {NoId}
  /\ \A c \in Cmds : cmd[c].state \in {"idle", "out", "ok", "err"}

\* The battle view never stands still: as long as a battle is entered, a poll of
\* that battle is under way, whatever turns, misses and late answers of other
\* battles Update had to handle (battleMsg and startedMsg in model.go).
BattleIsPolled ==
  battle # NotEntered => \E c \in Cmds : cmd[c].kind = "poll" /\ cmd[c].id = battle.id

\* The screen of a battle has one to show: View would draw nothing.
BattleScreenHasBattle == screen = "battle" => battle # NotEntered

\* What a late answer put on the screen, an older version or another battle,
\* gives way: a player who stays in a battle is in the end shown that battle, as
\* the server has it, and nothing else again.
NewestIsShown ==
  <>[][battle'.id = battle.id]_battle
  => <>[](battle # NotEntered => battle.shown = [id |-> battle.id, b |-> arena[battle.id]])
=============================================================================

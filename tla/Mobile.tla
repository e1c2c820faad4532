------------------------------- MODULE Mobile -------------------------------
(***************************************************************************)
(* The mobile app (pokedex-mobile): one screen, calls that run in the      *)
(* background (go1 in net.go) and post their results to a channel, and     *)
(* apply in main.go, which puts each result on the screen the player is on *)
(* by then.  The player has registered and picked a team; the three taps   *)
(* of a turn are a pick that is begun and sent.                            *)
(***************************************************************************)
EXTENDS Arena, FiniteSets

CONSTANTS TapCalls, WatchCalls   \* the background calls that may run at once

Calls == TapCalls \cup WatchCalls

VARIABLES screen,
          shown,      \* a.battle as <<id, battle>>
          lobby,      \* the battles a.lobby lists
          joining,    \* the battle the team is for, NoId for a new one
          pick,       \* the view of the battle a turn is being picked on, or NoView
          busy, watching,
          lastSeen,   \* what keepWatching hands to Watch
          confirmLeave,
          call        \* call[c]: a background call and its result

phone == <<screen, shown, lobby, joining, pick, busy, watching, lastSeen, confirmLeave>>
mobileVars == <<arena, phone, call>>

NoCall == [kind |-> "none", id |-> NoId, seen |-> 0,
           state |-> "idle", view |-> NoView, list |-> {}]

MobileInit == /\ ArenaInit
              /\ screen = "browse" /\ shown = NoView /\ lobby = {} /\ joining = NoId
              /\ pick = NoView /\ busy = FALSE /\ watching = FALSE /\ lastSeen = 0
              /\ confirmLeave = FALSE
              /\ call = [c \in Calls |-> NoCall]

\* go1: a goroutine for the call
Go1(cs, kind, id, seen) ==
  \E c \in cs : /\ call[c].kind = "none"
                /\ call' = [call EXCEPT ![c] =
                     [NoCall EXCEPT !.kind = kind, !.id = id, !.seen = seen, !.state = "out"]]

-----------------------------------------------------------------------------
\* The player.  handleNav: the lobby is loaded on arrival
Nav(dest) ==
  /\ screen' = dest
  /\ IF dest = "lobby" THEN Go1(TapCalls, "lobby", NoId, 0) ELSE UNCHANGED call
  /\ UNCHANGED <<arena, shown, lobby, joining, pick, busy, watching, lastSeen, confirmLeave>>

Refresh == /\ screen = "lobby"
           /\ Go1(TapCalls, "lobby", NoId, 0)
           /\ UNCHANGED <<arena, phone>>

\* "Open a new battle", or one of the list
ChooseBattle == /\ screen = "lobby"
                /\ joining' \in {NoId} \cup lobby
                /\ screen' = "team"
                /\ UNCHANGED <<arena, shown, lobby, pick, busy, watching, lastSeen, confirmLeave, call>>

\* The start button does not look at busy
StartBattle == /\ screen = "team"
               /\ Go1(TapCalls, IF joining = NoId THEN "create" ELSE "join", joining, 0)
               /\ busy' = TRUE
               /\ UNCHANGED <<arena, screen, shown, lobby, joining, pick, watching, lastSeen, confirmLeave>>

\* SideFor: a battle has two sides once it is joined
SideFor(b) == b.status \in {"active", "finished"}

\* handleBattleTaps
MayTap == screen = "battle" /\ IsMyTurn(shown.b) /\ ~busy

BeginPick == /\ MayTap
             /\ pick = NoView
             /\ pick' = shown
             /\ UNCHANGED <<arena, screen, shown, lobby, joining, busy, watching, lastSeen, confirmLeave, call>>

Send == /\ MayTap
        /\ pick # NoView
        /\ Go1(TapCalls, "attack", shown.id, 0)
        /\ busy' = TRUE
        /\ pick' = NoView
        /\ UNCHANGED <<arena, screen, shown, lobby, joining, watching, lastSeen, confirmLeave>>

Leave == /\ shown' = NoView
         /\ pick' = NoView
         /\ screen' = "lobby"
         /\ Go1(TapCalls, "lobby", NoId, 0)
         /\ UNCHANGED <<arena, lobby, joining, busy, watching, lastSeen>>

\* The button is there when the battle is over, or it is their turn
LeaveButton == /\ screen = "battle"
               /\ \/ shown.b.status = "finished"
                  \/ shown.b.status = "active" /\ ~IsMyTurn(shown.b) /\ ~busy
               /\ Leave
               /\ UNCHANGED confirmLeave

\* handleBack on the battle screen: undo the pick, arm, or leave
Back ==
  /\ screen = "battle"
  /\ IF pick # NoView
     THEN /\ pick' = NoView
          /\ UNCHANGED <<arena, screen, shown, lobby, joining, busy, watching, lastSeen, confirmLeave, call>>
     ELSE IF shown # NoView /\ shown.b.status # "finished" /\ ~confirmLeave
     THEN /\ confirmLeave' = TRUE
          /\ UNCHANGED <<arena, screen, shown, lobby, joining, pick, busy, watching, lastSeen, call>>
     ELSE Leave /\ confirmLeave' = FALSE

BackElsewhere == /\ screen \in {"lobby", "team"}
                 /\ screen' = "browse"
                 /\ UNCHANGED <<arena, shown, lobby, joining, pick, busy, watching, lastSeen, confirmLeave, call>>

\* A frame of battleScreen, which gives up before keepWatching when the
\* player has no side
KeepWatching ==
  /\ screen = "battle" /\ SideFor(shown.b)
  /\ ~watching /\ shown.b.status # "finished" /\ ~IsMyTurn(shown.b)
  /\ watching' = TRUE
  /\ Go1(WatchCalls, "watch", shown.id, lastSeen)
  /\ UNCHANGED <<arena, screen, shown, lobby, joining, pick, busy, lastSeen, confirmLeave>>

-----------------------------------------------------------------------------
\* The server and the network.
Returns(c, state, view) ==
  call' = [call EXCEPT ![c] = [@ EXCEPT !.state = state, !.view = view]]

\* A create, join or attack is refused or accepted; its answer may be lost
Serve(c) ==
  LET r == call[c]
  IN  /\ r.state = "out" /\ r.kind \in {"create", "join", "attack"}
      /\ \/ \E view \in Accepted(r.kind, r.id) :
              /\ Becomes(view.id, view.b)
              /\ Returns(c, "ok", view) \/ Returns(c, "err", NoView)
         \/ Returns(c, "err", NoView) /\ UNCHANGED arena
      /\ UNCHANGED phone

ServeLobby(c) ==
  /\ call[c].state = "out" /\ call[c].kind = "lobby"
  /\ \/ call' = [call EXCEPT ![c].state = "ok",
                             ![c].list = Waiting]
     \/ Returns(c, "err", NoView)
  /\ UNCHANGED <<arena, phone>>

\* Watch's poll that finds a newer version
WatchAnswer(c) ==
  LET r == call[c]
  IN  /\ r.state = "out" /\ r.kind = "watch"
      /\ WatchAnswers(arena[r.id], r.seen)
      /\ Returns(c, "ok", [id |-> r.id, b |-> arena[r.id]])
      /\ UNCHANGED <<arena, phone>>

\* Two minutes pass, or a poll fails
WatchEnds(c) ==
  /\ call[c].state = "out" /\ call[c].kind = "watch"
  /\ \E state \in {"timeout", "err"} : Returns(c, state, NoView)
  /\ UNCHANGED <<arena, phone>>

-----------------------------------------------------------------------------
Received(c) == call' = [call EXCEPT ![c] = NoCall]

\* Mutant: a failed watch is still thought to run
ApplyErrorOnly(c) ==
  /\ call[c].state = "err"
  /\ Received(c)
  /\ busy' = FALSE
  /\ UNCHANGED <<arena, screen, shown, lobby, joining, pick, watching, lastSeen, confirmLeave>>

\* Mutant: the controls stay dead after an error
ApplyErrorBusy(c) ==
  /\ call[c].state = "err"
  /\ Received(c)
  /\ watching' = (watching /\ call[c].kind = "lobby")
  /\ UNCHANGED <<arena, screen, shown, lobby, joining, pick, busy, lastSeen, confirmLeave>>

ApplyError(c) ==
  /\ call[c].state = "err"
  /\ Received(c)
  /\ busy' = FALSE
  /\ watching' = (watching /\ call[c].kind = "lobby")
  /\ UNCHANGED <<arena, screen, shown, lobby, joining, pick, lastSeen, confirmLeave>>

ApplyLobby(c) ==
  /\ call[c].state = "ok" /\ call[c].kind = "lobby"
  /\ Received(c)
  /\ busy' = FALSE
  /\ lobby' = call[c].list
  /\ UNCHANGED <<arena, screen, shown, joining, pick, watching, lastSeen, confirmLeave>>

ApplyWatchIdle(c) ==
  /\ call[c].state = "timeout"
  /\ Received(c)
  /\ busy' = FALSE
  /\ watching' = FALSE
  /\ UNCHANGED <<arena, screen, shown, lobby, joining, pick, lastSeen, confirmLeave>>

\* Mutant: the pick survives the update
ApplyBattleKeepsPick(c) ==
  /\ call[c].state = "ok" /\ call[c].kind # "lobby"
  /\ Received(c)
  /\ busy' = FALSE
  /\ watching' = FALSE
  /\ shown' = call[c].view
  /\ screen' = "battle"
  /\ lastSeen' = call[c].view.b.log
  /\ UNCHANGED <<arena, lobby, joining, pick, confirmLeave>>

\* Whatever the player is looking at by now
ApplyBattle(c) ==
  /\ call[c].state = "ok" /\ call[c].kind # "lobby"
  /\ Received(c)
  /\ busy' = FALSE
  /\ watching' = FALSE
  /\ pick' = NoView
  /\ shown' = call[c].view
  /\ screen' = "battle"
  /\ lastSeen' = call[c].view.b.log
  /\ UNCHANGED <<arena, lobby, joining, confirmLeave>>

Apply(c) == ApplyError(c) \/ ApplyLobby(c) \/ ApplyWatchIdle(c) \/ ApplyBattle(c)

Player == \/ \E dest \in {"browse", "team", "lobby", "battle"} : Nav(dest)
          \/ Refresh \/ ChooseBattle \/ StartBattle \/ BeginPick \/ Send
          \/ LeaveButton \/ Back \/ BackElsewhere

MobileNext ==
  \/ Player
  \/ KeepWatching
  \/ \E c \in Calls : Serve(c) \/ ServeLobby(c) \/ WatchAnswer(c) \/ WatchEnds(c) \/ Apply(c)
  \/ \E id \in BattleIds : TheyPlay(id) /\ UNCHANGED <<phone, call>>

\* Frames are drawn, results are drained, every call has a deadline; and a
\* watch that can be answered again and again is answered some time.
MobileFairness ==
  /\ WF_mobileVars(KeepWatching)
  /\ \A c \in TapCalls : WF_mobileVars(Serve(c) \/ ServeLobby(c))
  /\ \A c \in WatchCalls : /\ WF_mobileVars(WatchAnswer(c) \/ WatchEnds(c))
                           /\ SF_mobileVars(WatchAnswer(c))
  /\ \A c \in Calls : WF_mobileVars(Apply(c))

MobileSpec == MobileInit /\ [][MobileNext]_mobileVars /\ MobileFairness

-----------------------------------------------------------------------------
\* Types; a battle on the screen is one the server has sent.
MobileTypeOK ==
  /\ ArenaTypeOK
  /\ screen \in {"browse", "lobby", "team", "battle"}
  /\ \A view \in {shown, pick} :
       view # NoView => view.id \in BattleIds /\ view.b.version \in Nat \ {0}
  /\ lobby \subseteq BattleIds
  /\ joining \in BattleIds \cup {NoId}
  /\ lastSeen \in Nat
  /\ busy \in BOOLEAN /\ watching \in BOOLEAN
  /\ confirmLeave \in BOOLEAN
  /\ \A c \in Calls : call[c].state \in {"idle", "out", "ok", "err", "timeout"}

\* "A failed watch must not stop us watching - the battle would silently
\* freeze" (main.go): when the app believes it watches, a watch is running or
\* its result is on the way, whatever other results came in between.
WatchingHasWatch == watching => \E c \in WatchCalls : call[c].kind = "watch"

\* "called after every server update since old indices may not point at a
\* living Pokemon" (pick.reset in state.go): a turn is picked on the battle, and
\* the version of it, that is shown, also when a late result of another battle
\* replaces it under the player's thumb.
PicksAreFresh == pick # NoView => pick = shown

\* The controls come back: whatever set busy is answered or times out.
BusyEnds == []<>~busy

\* The battle on the screen is not what the server has, and nobody but the
\* server can say so
Behind == /\ screen = "battle" /\ shown # NoView
          /\ shown.b.status = "active" /\ ~IsMyTurn(shown.b)
          /\ arena[shown.id].version > shown.b.version

\* "keepWatching long-polls while it is not our turn so the opponent's move
\* appears without a manual refresh" (battle.go): their turn, or the battle's
\* end, reaches a player who stays on the screen.
OpponentsMoveAppears == Behind ~> ~Behind
=============================================================================

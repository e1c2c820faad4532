---------------------------- MODULE ScreensProofs ----------------------------
(***************************************************************************)
(* Theorems about the mobile app and the React page: the types of the app, *)
(* that a watch it believes in is one that runs and that a turn is picked  *)
(* on the battle shown, and that the page's board never goes back, for any *)
(* number of battles, background calls, updates and misses.                *)
(***************************************************************************)
EXTENDS Screens, TLAPS

Players == {"me", "them"}
Records == [status : {"none", "waiting", "active", "finished"}, opener : Players,
            turn : Players, version : Nat, log : Nat]

\* A battle that is not there yet has had no update.
Battles == {b \in Records : b.status = "none" => b.version = 0}

Views == [id : BattleIds, b : Battles]

\* What the phone may show: nothing, or a battle the server has sent.
Shows == {NoView} \cup {v \in Views : v.b.version > 0}

CallRecords == [kind : {"none", "lobby", "create", "join", "attack", "watch"},
                id : BattleIds \cup {NoId}, seen : Nat,
                state : {"idle", "out", "ok", "err", "timeout"},
                view : Shows, list : SUBSET BattleIds]

\* A call for one battle has one, and brings one when it succeeds.
CallHasBattle(r) ==
  /\ r.kind \in {"join", "attack", "watch"} => r.id \in BattleIds
  /\ r.state = "ok" /\ r.kind # "lobby" => r.view # NoView

PhoneTypes ==
  /\ arena \in [BattleIds -> Battles]
  /\ screen \in {"browse", "lobby", "team", "battle"}
  /\ shown \in Shows /\ pick \in Shows
  /\ lobby \in SUBSET BattleIds /\ joining \in BattleIds \cup {NoId}
  /\ busy \in BOOLEAN /\ watching \in BOOLEAN /\ confirmLeave \in BOOLEAN
  /\ lastSeen \in Nat
  /\ call \in [Calls -> CallRecords]
  /\ \A c \in Calls : CallHasBattle(call[c])

PhoneInv == PhoneTypes /\ WatchingHasWatch /\ PicksAreFresh

-----------------------------------------------------------------------------
\* An accepted call makes a battle of a battle, one version further (Arena).
LEMMA ResultIsBattle ==
  ASSUME NEW kind \in {"create", "join", "attack"}, NEW p \in Players,
         NEW b \in Battles, NEW r \in Results(kind, p, b)
  PROVE  r \in Battles /\ r.version > b.version
<1> DEFINE v == b.version + 1
           n == b.log + 1
<1>1. /\ v = b.version + 1 /\ n = b.log + 1 /\ n \in Nat
      /\ v \in Nat /\ v > b.version /\ b.version \in Nat
  BY DEF Battles, Records
<1> HIDE DEF v, n
<1> USE DEF Battles, Records
<1>2. CASE kind = "create"
  <2>1. r = Opened(p) /\ b.status = "none"
    BY <1>2 DEF Results
  <2>2. b.version = 0
    BY <2>1
  <2> QED  BY <2>1, <2>2 DEF Opened
<1>3. CASE kind = "join"
  <2>1. r = Joined(b)
    BY <1>3 DEF Results
  <2>2. [b EXCEPT !.status = "active", !.version = v, !.log = n] \in Battles
    BY <1>1
  <2> QED  BY <1>1, <2>1, <2>2 DEF Joined
<1>4. CASE kind = "attack"
  <2>1. r \in Turned(b)
    BY <1>4 DEF Results
  <2>2. PICK s \in {"active", "finished"}, e \in Entries : r = TurnEnds(b, s, e)
    BY <2>1 DEF Turned
  <2> DEFINE t == IF s = "active" THEN Other(b.turn) ELSE b.turn
             l == b.log + e
  <2>3. t \in Players /\ l \in Nat
    BY ArenaAssumption DEF Players, Other
  <2>4. r = [b EXCEPT !.status = s, !.turn = t, !.version = v, !.log = l]
    BY <1>1, <2>2 DEF TurnEnds
  <2> HIDE DEF t, l
  <2> QED  BY <1>1, <2>3, <2>4
<1> QED  BY <1>2, <1>3, <1>4

LEMMA AcceptedIsShown ==
  ASSUME arena \in [BattleIds -> Battles], NEW kind \in {"create", "join", "attack"},
         NEW id, kind # "create" => id \in BattleIds,
         NEW view \in Accepted(kind, id)
  PROVE  /\ view \in Shows /\ view # NoView /\ view.id \in BattleIds /\ view.b \in Battles
         /\ view.b.version > arena[view.id].version
<1>1. PICK i \in BattleIds : \E b \in Results(kind, "me", arena[i]) : view = [id |-> i, b |-> b]
  BY DEF Accepted
<1>2. PICK b \in Results(kind, "me", arena[i]) : view = [id |-> i, b |-> b]
  BY <1>1
<1>3. b \in Battles /\ b.version > arena[i].version
  BY <1>2, ResultIsBattle DEF Players
<1>4. b.version > 0
  BY <1>3 DEF Battles, Records
<1>5. i # NoId
  BY ArenaAssumption
<1> QED  BY <1>2, <1>3, <1>4, <1>5 DEF Shows, Views, NoView

\* Starting a call takes a place that has none, so no watch is lost.
LEMMA Go1Keeps ==
  ASSUME PhoneTypes, NEW cs \in SUBSET Calls,
         NEW kind \in {"lobby", "create", "join", "attack", "watch"},
         NEW id \in BattleIds \cup {NoId}, NEW since \in Nat,
         kind \in {"join", "attack", "watch"} => id \in BattleIds,
         Go1(cs, kind, id, since)
  PROVE  /\ call' \in [Calls -> CallRecords]
         /\ \A c \in Calls : CallHasBattle(call'[c])
         /\ \A c \in Calls : call[c].kind = "watch" => call'[c].kind = "watch"
         /\ kind = "watch" => \E c \in cs : call'[c].kind = "watch"
<1> DEFINE new == [NoCall EXCEPT !.kind = kind, !.id = id, !.seen = since, !.state = "out"]
<1>1. PICK c \in cs : call[c].kind = "none" /\ call' = [call EXCEPT ![c] = new]
  BY DEF Go1
<1>2. new \in CallRecords /\ new.kind = kind /\ CallHasBattle(new)
  BY DEF NoCall, CallRecords, CallHasBattle, Shows
<1> HIDE DEF new
<1> QED  BY <1>1, <1>2 DEF PhoneTypes

\* A call that ends keeps its kind, and so it does when its result waits.
LEMMA ReturnsKeeps ==
  ASSUME PhoneTypes, NEW c \in Calls, NEW state \in {"ok", "err", "timeout"},
         NEW view \in Shows, call[c].kind # "lobby" /\ state = "ok" => view # NoView,
         Returns(c, state, view)
  PROVE  /\ call' \in [Calls -> CallRecords]
         /\ \A d \in Calls : CallHasBattle(call'[d])
         /\ \A d \in Calls : call'[d].kind = call[d].kind
<1> DEFINE new == [call[c] EXCEPT !.state = state, !.view = view]
<1>1. call[c] \in CallRecords /\ CallHasBattle(call[c])
  BY DEF PhoneTypes
<1>2. /\ new \in CallRecords /\ new.kind = call[c].kind /\ CallHasBattle(new)
  BY <1>1 DEF CallRecords, CallHasBattle
<1>3. call' = [call EXCEPT ![c] = new]
  BY DEF Returns
<1> HIDE DEF new
<1> QED  BY <1>2, <1>3 DEF PhoneTypes

LEMMA ReceivedKeeps ==
  ASSUME PhoneTypes, NEW c \in Calls, Received(c)
  PROVE  /\ call' \in [Calls -> CallRecords]
         /\ \A d \in Calls : CallHasBattle(call'[d])
         /\ \A d \in Calls : d # c => call'[d] = call[d]
<1>1. NoCall \in CallRecords /\ CallHasBattle(NoCall)
  BY DEF NoCall, CallRecords, CallHasBattle, Shows
<1> QED  BY <1>1 DEF Received, PhoneTypes

-----------------------------------------------------------------------------
LEMMA PhoneStarts == MobileInit => PhoneInv
<1> SUFFICES ASSUME MobileInit PROVE PhoneInv
  OBVIOUS
<1>1. NoBattle \in Battles /\ NoView \in Shows
  BY ArenaAssumption DEF NoBattle, NoView, Battles, Records, Players, Shows
<1>2. NoCall \in CallRecords /\ CallHasBattle(NoCall)
  BY DEF NoCall, CallRecords, CallHasBattle, Shows
<1> QED
  BY <1>1, <1>2 DEF MobileInit, ArenaInit, PhoneInv, PhoneTypes, WatchingHasWatch, PicksAreFresh

\* A battle that is in play, or the player's move, is one the server has sent.
LEMMA PlayedIsReal ==
  ASSUME PhoneTypes, SideFor(shown.b) \/ IsMyTurn(shown.b)
  PROVE  shown.id \in BattleIds
BY DEF PhoneTypes, Shows, Views, SideFor, IsMyTurn, NoView, NoBattle

LEMMA PlayerKeeps ==
  ASSUME PhoneInv, Player
  PROVE  PhoneInv'
<1> USE DEF PhoneInv
<1> DEFINE Watched == \A c \in Calls : call[c].kind = "watch" => call'[c].kind = "watch"
           CallsKept == /\ call' \in [Calls -> CallRecords]
                        /\ \A c \in Calls : CallHasBattle(call'[c])
                        /\ Watched
<1>1. UNCHANGED call => CallsKept
  BY DEF PhoneTypes
<1>2. \A kind \in {"lobby", "create", "join", "attack"}, id \in BattleIds \cup {NoId} :
        (kind \in {"join", "attack"} => id \in BattleIds) /\ Go1(TapCalls, kind, id, 0)
        => CallsKept
  BY Go1Keeps DEF Calls
<1>3. CallsKept /\ UNCHANGED watching => WatchingHasWatch'
  BY DEF WatchingHasWatch, Calls
<1>4. NoView \in Shows
  BY DEF Shows
<1> HIDE DEF CallsKept
<1>5. ASSUME NEW dest \in {"browse", "team", "lobby", "battle"}, Nav(dest)
      PROVE  PhoneInv'
  <2>1. CallsKept
    BY <1>1, <1>2, <1>5 DEF Nav
  <2> QED  BY <1>3, <1>5, <2>1 DEF Nav, PhoneTypes, PicksAreFresh, CallsKept
<1>6. CASE Refresh
  <2>1. CallsKept
    BY <1>2, <1>6 DEF Refresh
  <2> QED  BY <1>3, <1>6, <2>1 DEF Refresh, phone, PhoneTypes, PicksAreFresh, CallsKept
<1>7. CASE ChooseBattle
  <2>1. CallsKept
    BY <1>1, <1>7 DEF ChooseBattle
  <2> QED  BY <1>3, <1>7, <2>1 DEF ChooseBattle, PhoneTypes, PicksAreFresh, CallsKept
<1>8. CASE StartBattle
  <2>1. CallsKept
    BY <1>2, <1>8 DEF StartBattle, PhoneTypes
  <2> QED  BY <1>3, <1>8, <2>1 DEF StartBattle, PhoneTypes, PicksAreFresh, CallsKept
<1>9. CASE BeginPick
  <2>1. CallsKept
    BY <1>1, <1>9 DEF BeginPick
  <2> QED  BY <1>3, <1>9, <2>1 DEF BeginPick, PhoneTypes, PicksAreFresh, CallsKept
<1>10. CASE Send
  <2>1. shown.id \in BattleIds
    BY <1>10, PlayedIsReal DEF Send, MayTap
  <2>2. CallsKept
    BY <1>2, <1>10, <2>1 DEF Send
  <2> QED  BY <1>3, <1>4, <1>10, <2>2 DEF Send, PhoneTypes, PicksAreFresh, CallsKept
<1>11. ASSUME Leave, confirmLeave' \in BOOLEAN
       PROVE  PhoneInv'
  <2>1. CallsKept
    BY <1>2, <1>11 DEF Leave
  <2> QED  BY <1>3, <1>4, <1>11, <2>1 DEF Leave, PhoneTypes, PicksAreFresh, CallsKept
<1>12. CASE LeaveButton
  BY <1>11, <1>12 DEF LeaveButton, PhoneTypes
<1>13. CASE Back
  <2>1. CASE pick # NoView
    <3>1. CallsKept
      BY <1>1, <1>13, <2>1 DEF Back
    <3> QED  BY <1>3, <1>4, <1>13, <2>1, <3>1 DEF Back, PhoneTypes, PicksAreFresh, CallsKept
  <2>2. CASE pick = NoView /\ shown # NoView /\ shown.b.status # "finished" /\ ~confirmLeave
    <3>1. CallsKept
      BY <1>1, <1>13, <2>2 DEF Back
    <3> QED  BY <1>3, <1>13, <2>2, <3>1 DEF Back, PhoneTypes, PicksAreFresh, CallsKept
  <2>3. CASE pick = NoView /\ ~(shown # NoView /\ shown.b.status # "finished" /\ ~confirmLeave)
    BY <1>11, <1>13, <2>3 DEF Back
  <2> QED  BY <2>1, <2>2, <2>3
<1>14. CASE BackElsewhere
  <2>1. CallsKept
    BY <1>1, <1>14 DEF BackElsewhere
  <2> QED  BY <1>3, <1>14, <2>1 DEF BackElsewhere, PhoneTypes, PicksAreFresh, CallsKept
<1> QED
  BY <1>5, <1>6, <1>7, <1>8, <1>9, <1>10, <1>12, <1>13, <1>14 DEF Player

LEMMA WatchBegins ==
  ASSUME PhoneInv, KeepWatching
  PROVE  PhoneInv'
<1> USE DEF PhoneInv
<1>1. shown.id \in BattleIds
  BY PlayedIsReal DEF KeepWatching
<1>2. /\ call' \in [Calls -> CallRecords]
      /\ \A c \in Calls : CallHasBattle(call'[c])
      /\ \E c \in WatchCalls : call'[c].kind = "watch"
  BY <1>1, Go1Keeps DEF KeepWatching, Calls, PhoneTypes
<1> QED
  BY <1>2 DEF KeepWatching, PhoneTypes, WatchingHasWatch, PicksAreFresh

\* What the server and the network do leaves the phone alone.
LEMMA AnswersKeep ==
  ASSUME PhoneInv, NEW c \in Calls,
         Serve(c) \/ ServeLobby(c) \/ WatchAnswer(c) \/ WatchEnds(c)
  PROVE  PhoneInv'
<1> USE DEF PhoneInv
<1> DEFINE Ended == /\ arena' \in [BattleIds -> Battles]
                    /\ call' \in [Calls -> CallRecords]
                    /\ \A d \in Calls : CallHasBattle(call'[d])
                    /\ \A d \in Calls : call'[d].kind = call[d].kind
<1>1. Ended /\ UNCHANGED phone => PhoneInv'
  BY DEF phone, PhoneTypes, WatchingHasWatch, PicksAreFresh, Calls
<1>2. NoView \in Shows /\ call[c] \in CallRecords /\ CallHasBattle(call[c])
  BY DEF Shows, PhoneTypes
<1>3. CASE Serve(c)
  <2>1. call[c].kind \in {"create", "join", "attack"}
    BY <1>3 DEF Serve
  <2>2. \A view \in Accepted(call[c].kind, call[c].id) :
          view \in Shows /\ view # NoView /\ view.id \in BattleIds /\ view.b \in Battles
    BY <1>2, <2>1, AcceptedIsShown DEF PhoneTypes, CallHasBattle
  <2>3. arena' \in [BattleIds -> Battles]
    BY <1>3, <2>2 DEF Serve, Becomes, PhoneTypes
  <2>4. \E state \in {"ok", "err"} : \E view \in Shows :
          (state = "ok" => view # NoView) /\ Returns(c, state, view)
    BY <1>2, <1>3, <2>2 DEF Serve
  <2>5. Ended
    BY <2>3, <2>4, ReturnsKeeps
  <2> QED  BY <1>1, <1>3, <2>5 DEF Serve
<1>4. CASE ServeLobby(c)
  <2>1. CASE Returns(c, "err", NoView)
    BY <1>1, <1>2, <1>4, <2>1, ReturnsKeeps DEF ServeLobby, PhoneTypes
  <2>2. CASE call' = [call EXCEPT ![c].state = "ok", ![c].list = Waiting]
    <3> DEFINE new == [call[c] EXCEPT !.state = "ok", !.list = Waiting]
    <3>1. new \in CallRecords /\ new.kind = call[c].kind /\ CallHasBattle(new)
      BY <1>2, <1>4 DEF ServeLobby, CallRecords, CallHasBattle, Waiting
    <3>2. call' = [call EXCEPT ![c] = new]
      BY <2>2
    <3> HIDE DEF new
    <3>3. Ended
      BY <1>4, <3>1, <3>2 DEF ServeLobby, PhoneTypes
    <3> QED  BY <1>1, <1>4, <3>3 DEF ServeLobby
  <2> QED  BY <1>4, <2>1, <2>2 DEF ServeLobby
<1>5. CASE WatchAnswer(c)
  <2> DEFINE view == [id |-> call[c].id, b |-> arena[call[c].id]]
  <2>1. call[c].id \in BattleIds
    BY <1>2, <1>5 DEF WatchAnswer, CallHasBattle
  <2>2. view \in Shows /\ view # NoView
    <3>1. arena[call[c].id] \in Battles /\ arena[call[c].id].version > 0
      BY <1>2, <1>5, <2>1 DEF WatchAnswer, WatchAnswers, PhoneTypes, Battles, Records, CallRecords
    <3> QED  BY <2>1, <3>1, ArenaAssumption DEF Shows, Views, NoView
  <2>3. Returns(c, "ok", view)
    BY <1>5 DEF WatchAnswer
  <2> HIDE DEF view
  <2>4. Ended
    BY <1>5, <2>2, <2>3, ReturnsKeeps DEF WatchAnswer, PhoneTypes
  <2> QED  BY <1>1, <1>5, <2>4 DEF WatchAnswer
<1>6. CASE WatchEnds(c)
  <2>1. Ended
    BY <1>2, <1>6, ReturnsKeeps DEF WatchEnds, PhoneTypes
  <2> QED  BY <1>1, <1>6, <2>1 DEF WatchEnds
<1> QED  BY <1>3, <1>4, <1>5, <1>6

\* apply: a result that is not of a watch leaves the watch that runs.
LEMMA ApplyKeeps ==
  ASSUME PhoneInv, NEW c \in Calls, Apply(c)
  PROVE  PhoneInv'
<1> USE DEF PhoneInv
<1>1. /\ call' \in [Calls -> CallRecords]
      /\ \A d \in Calls : CallHasBattle(call'[d])
      /\ \A d \in Calls : d # c => call'[d] = call[d]
  BY ReceivedKeeps DEF Apply, ApplyError, ApplyLobby, ApplyWatchIdle, ApplyBattle
<1>2. watching' => watching /\ call[c].kind = "lobby"
  BY DEF Apply, ApplyError, ApplyLobby, ApplyWatchIdle, ApplyBattle
<1>3. WatchingHasWatch'
  BY <1>1, <1>2 DEF WatchingHasWatch, Calls
<1>4. NoView \in Shows /\ call[c] \in CallRecords /\ CallHasBattle(call[c])
  BY DEF Shows, PhoneTypes
<1>5. CASE ApplyError(c)
  BY <1>1, <1>3, <1>5 DEF ApplyError, PhoneTypes, PicksAreFresh
<1>6. CASE ApplyLobby(c)
  BY <1>1, <1>3, <1>4, <1>6 DEF ApplyLobby, PhoneTypes, PicksAreFresh, CallRecords
<1>7. CASE ApplyWatchIdle(c)
  BY <1>1, <1>3, <1>7 DEF ApplyWatchIdle, PhoneTypes, PicksAreFresh
<1>8. CASE ApplyBattle(c)
  <2>1. call[c].view \in Shows /\ call[c].view.b.log \in Nat
    BY <1>4, <1>8 DEF ApplyBattle, CallHasBattle, CallRecords, Shows, Views, Battles, Records
  <2> QED  BY <1>1, <1>3, <1>4, <1>8, <2>1 DEF ApplyBattle, PhoneTypes, PicksAreFresh
<1> QED  BY <1>5, <1>6, <1>7, <1>8 DEF Apply

\* The other player, and the page, leave the phone alone.
LEMMA ElsewhereKeeps ==
  ASSUME PhoneInv, arena' \in [BattleIds -> Battles], UNCHANGED <<phone, call>>
  PROVE  PhoneInv'
BY DEF phone, PhoneInv, PhoneTypes, WatchingHasWatch, PicksAreFresh

LEMMA PhoneStep == PhoneInv /\ [MobileNext]_mobileVars => PhoneInv'
<1> SUFFICES ASSUME PhoneInv, [MobileNext]_mobileVars
             PROVE  PhoneInv'
  OBVIOUS
<1>1. CASE UNCHANGED mobileVars
  BY <1>1 DEF mobileVars, phone, PhoneInv, PhoneTypes, WatchingHasWatch, PicksAreFresh
<1>2. ASSUME NEW id \in BattleIds, TheyPlay(id), UNCHANGED <<phone, call>>
      PROVE  PhoneInv'
  <2>1. arena' \in [BattleIds -> Battles]
    BY <1>2, ResultIsBattle DEF TheyPlay, Becomes, PhoneInv, PhoneTypes, Players
  <2> QED  BY <1>2, <2>1, ElsewhereKeeps
<1> QED
  BY <1>1, <1>2, PlayerKeeps, WatchBegins, AnswersKeep, ApplyKeeps DEF MobileNext

-----------------------------------------------------------------------------
\* The page: what it shows is what it has seen, and nothing it has seen or is
\* about to be answered is ahead of the server.
PageInv ==
  /\ program \in {"phone", "page"}
  /\ program = "phone" => page = Closed /\ poll = NoFetch /\ turn = NoFetch
  /\ page \in [at : {"closed", "loading", "ok", "stopped"}, id : BattleIds \cup {NoId}, shown : Battles]
  /\ poll \in [at : {"none", "timer", "out", "in"},
               answer : {"none", "ok", "404", "failed", "terminal"}, b : Battles]
  /\ seen \in Nat
  /\ Live \/ poll # NoFetch \/ turn.at # "none" => page.id \in BattleIds
  /\ page.at = "ok" => page.shown.version = seen
  /\ page.id \in BattleIds => seen <= arena[page.id].version
  /\ poll.answer = "ok" => /\ seen <= poll.b.version
                           /\ poll.b.version <= arena[page.id].version

ScreensInv == PhoneInv /\ PageInv

\* Every update of a battle adds to its version.
Grows == /\ arena' \in [BattleIds -> Battles]
         /\ \A id \in BattleIds : arena'[id].version >= arena[id].version

LEMMA BecomesGrows ==
  ASSUME arena \in [BattleIds -> Battles], NEW id \in BattleIds, NEW b \in Battles,
         b.version > arena[id].version, Becomes(id, b)
  PROVE  Grows
<1>1. \A i \in BattleIds : arena[i].version \in Nat
  BY ArenaAssumption DEF Battles, Records
<1>2. b.version \in Nat
  BY ArenaAssumption DEF Battles, Records
<1> QED  BY <1>1, <1>2 DEF Becomes, Grows

LEMMA StaysGrows ==
  ASSUME arena \in [BattleIds -> Battles], UNCHANGED arena
  PROVE  Grows
<1>1. \A i \in BattleIds : arena[i].version \in Nat
  BY ArenaAssumption DEF Battles, Records
<1> QED  BY <1>1 DEF Grows

LEMMA AcceptedGrows ==
  ASSUME arena \in [BattleIds -> Battles], NEW kind \in {"create", "join", "attack"},
         NEW id, kind # "create" => id \in BattleIds,
         NEW view \in Accepted(kind, id), Becomes(view.id, view.b)
  PROVE  Grows
<1>1. view.id \in BattleIds /\ view.b \in Battles /\ view.b.version > arena[view.id].version
  BY AcceptedIsShown
<1> QED  BY <1>1, BecomesGrows

LEMMA TheyPlayGrows ==
  ASSUME arena \in [BattleIds -> Battles], NEW id \in BattleIds, TheyPlay(id)
  PROVE  Grows
<1>0. PICK kind \in {"create", "join", "attack"} :
        \E b \in Results(kind, "them", arena[id]) : Becomes(id, b)
  BY DEF TheyPlay
<1>1. PICK b \in Results(kind, "them", arena[id]) : Becomes(id, b)
  BY <1>0
<1>2. b \in Battles /\ b.version > arena[id].version
  BY ResultIsBattle DEF TheyPlay, Players
<1> QED  BY <1>1, <1>2, BecomesGrows

-----------------------------------------------------------------------------
LEMMA PageStarts == ScreensInit => PageInv
<1> SUFFICES ASSUME ScreensInit PROVE PageInv
  OBVIOUS
<1>1. NoBattle \in Battles
  BY ArenaAssumption DEF NoBattle, Battles, Records, Players
<1> QED
  BY <1>1, ArenaAssumption DEF ScreensInit, PageInit, PageInv, Closed, NoFetch, Live

\* What the server does by itself leaves the page behind it.
LEMMA PageUnchanged ==
  ASSUME ScreensInv, Grows, UNCHANGED <<page, poll, seen, program>>, turn' = turn \/ page.id \in BattleIds,
         turn' = turn \/ program = "page"
  PROVE  PageInv'
<1> USE DEF ScreensInv, PhoneInv, PhoneTypes
<1>1. \A id \in BattleIds : arena[id].version \in Nat /\ arena'[id].version \in Nat
  BY ArenaAssumption DEF Battles, Records, Grows
<1>2. seen \in Nat /\ poll.b.version \in Nat
  BY ArenaAssumption DEF PageInv, Battles, Records
<1>3. page.id \in BattleIds => seen <= arena'[page.id].version
  BY <1>1, <1>2 DEF PageInv, Grows
<1>4. poll.answer = "ok" => page.id \in BattleIds
  BY DEF PageInv, NoFetch
<1>5. poll.answer = "ok" => poll.b.version <= arena'[page.id].version
  BY <1>1, <1>2, <1>4 DEF PageInv, Grows
<1> QED  BY <1>3, <1>5 DEF PageInv, Live

\* The first steps of a page, and the last.
LEMMA PageOpensCloses ==
  ASSUME ScreensInv, program = "page", UNCHANGED program, OpenPage \/ ClosePage
  PROVE  PageInv'
<1>1. NoBattle \in Battles
  BY ArenaAssumption DEF NoBattle, Battles, Records, Players
<1>2. \A id \in BattleIds : 0 <= arena[id].version
  BY ArenaAssumption DEF ScreensInv, PhoneInv, PhoneTypes, Battles, Records
<1>3. CASE OpenPage
  BY <1>1, <1>2, <1>3 DEF OpenPage, PageInv, Timer, NoFetch, Live
<1>4. CASE ClosePage
  BY <1>1, <1>4, ArenaAssumption DEF ClosePage, PageInv, Closed, NoFetch, Live
<1> QED  BY <1>3, <1>4

LEMMA PollKeeps ==
  ASSUME ScreensInv, program = "page", UNCHANGED program,
         Tick \/ StateFound \/ StateRefused \/ PollAnswered
  PROVE  PageInv'
<1> USE DEF PageInv
<1>1. NoBattle \in Battles /\ PageInv /\ arena \in [BattleIds -> Battles]
  BY ArenaAssumption DEF NoBattle, Battles, Records, Players, ScreensInv, PhoneInv, PhoneTypes
<1>2. \A b \in Battles : b.version \in Nat
  BY DEF Battles, Records
<1>3. CASE Tick
  BY <1>1, <1>3 DEF Tick, Timer, Out, NoFetch, Live
<1>4. CASE StateFound
  <2>1. page.id \in BattleIds
    BY <1>1, <1>4 DEF StateFound, Out, NoFetch
  <2>2. arena[page.id] \in Battles /\ arena[page.id].version \in Nat
    BY <1>1, <1>2, <2>1, ArenaAssumption
  <2> QED  BY <1>1, <1>4, <2>1, <2>2 DEF StateFound, Answered, Live
<1>5. CASE StateRefused
  <2>1. page.id \in BattleIds
    BY <1>1, <1>5 DEF StateRefused, Out, NoFetch
  <2> QED  BY <1>1, <1>5, <2>1 DEF StateRefused, Answered, Live
<1>6. CASE Show
  <2>1. page.id \in BattleIds
    BY <1>1, <1>6 DEF Show, NoFetch
  <2>2. poll.b \in Battles /\ poll.b.version \in Nat
    BY <1>1, <1>2
  <2>3. Timer \in [at : {"none", "timer", "out", "in"},
                  answer : {"none", "ok", "404", "failed", "terminal"}, b : Battles]
    BY <1>1 DEF Timer, NoFetch
  <2>4. Timer.answer = "none"
    BY DEF Timer, NoFetch
  <2>5. CASE poll.b.version = seen
    BY <1>1, <1>6, <2>1, <2>3, <2>4, <2>5 DEF Show, Live
  <2>6. CASE poll.b.version # seen
    <3>1. page' = [page EXCEPT !.at = "ok", !.shown = poll.b] /\ seen' = poll.b.version
      BY <1>6, <2>6 DEF Show
    <3> QED  BY <1>1, <1>6, <2>1, <2>2, <2>3, <2>4, <3>1 DEF Show, Live
  <2> QED  BY <2>5, <2>6
<1>7. ASSUME StopPage, UNCHANGED <<arena, seen>>
      PROVE  PageInv'
  <2>1. page' = [page EXCEPT !.at = "stopped", !.shown = NoBattle]
    BY <1>7 DEF StopPage
  <2> QED  BY <1>1, <1>7, <2>1 DEF StopPage, NoFetch, Live
<1>8. ASSUME poll' = Timer, poll.answer # "none", UNCHANGED <<arena, page, seen, turn>>
      PROVE  PageInv'
  <2>1. page.id \in BattleIds
    BY <1>1, <1>8 DEF NoFetch
  <2> QED  BY <1>1, <1>8, <2>1 DEF Timer, NoFetch, Live
<1>9. CASE Miss \/ OutOfDate \/ Dropped
  BY <1>7, <1>8, <1>9 DEF Miss, OutOfDate, Dropped
<1> QED  BY <1>3, <1>4, <1>5, <1>6, <1>9 DEF PollAnswered

LEMMA TurnKeeps ==
  ASSUME ScreensInv, program = "page", UNCHANGED program,
         SendTurn \/ TurnTaken \/ TurnRefused \/ TurnAnswered
  PROVE  PageInv'
<1>1. arena \in [BattleIds -> Battles]
  BY DEF ScreensInv, PhoneInv, PhoneTypes
<1>2. page.id \in BattleIds
  BY DEF ScreensInv, PageInv, SendTurn, TurnTaken, TurnRefused, TurnAnswered, Live
<1>3. Grows
  <2>1. CASE TurnTaken
    BY <1>1, <1>2, <2>1, AcceptedGrows DEF TurnTaken
  <2>2. CASE SendTurn \/ TurnRefused \/ TurnAnswered
    BY <1>1, <2>2, StaysGrows DEF SendTurn, TurnRefused, TurnAnswered
  <2> QED  BY <2>1, <2>2
<1> QED  BY <1>2, <1>3, PageUnchanged DEF SendTurn, TurnTaken, TurnRefused, TurnAnswered

LEMMA ScreensStarts == ScreensInit => ScreensInv
BY PhoneStarts, PageStarts DEF ScreensInit, ScreensInv

LEMMA ScreensStep == ScreensInv /\ [ScreensNext]_screensVars => ScreensInv'
<1> SUFFICES ASSUME ScreensInv, [ScreensNext]_screensVars
             PROVE  ScreensInv'
  OBVIOUS
<1>1. CASE UNCHANGED screensVars
  <2>1. PageInv'
    BY <1>1 DEF screensVars, mobileVars, pageVars, ScreensInv, PageInv, Live
  <2>2. PhoneInv'
    BY <1>1, PhoneStep DEF screensVars, ScreensInv
  <2> QED  BY <2>1, <2>2 DEF ScreensInv
<1>2. CASE OnPhone /\ UNCHANGED program
  <2>1. PhoneInv'
    BY <1>2, PhoneStep DEF OnPhone, ScreensInv
  <2>2. PageInv'
    BY <1>2, ArenaAssumption DEF OnPhone, pageVars, ScreensInv, PageInv, Live, Closed, NoFetch
  <2> QED  BY <2>1, <2>2 DEF ScreensInv
<1>3. CASE OnPage /\ UNCHANGED program
  <2>1. arena \in [BattleIds -> Battles] /\ program = "page"
    BY <1>3 DEF OnPage, ScreensInv, PhoneInv, PhoneTypes
  <2>2. Grows /\ UNCHANGED pageVars => PageInv'
    BY <1>3, PageUnchanged DEF pageVars
  <2>3. Ready => PageInv'
    BY <2>1, <2>2, AcceptedGrows DEF Ready
  <2>4. (\E id \in BattleIds : TheyPlay(id) /\ UNCHANGED pageVars) => PageInv'
    BY <2>1, <2>2, TheyPlayGrows
  <2>5. Toggle => PageInv'
    BY <1>3, <2>1, StaysGrows, PageUnchanged DEF Toggle
  <2>6. PageInv'
    BY <1>3, <2>1, <2>3, <2>4, <2>5, PageOpensCloses, PollKeeps, TurnKeeps DEF OnPage, PageNext
  <2>7. arena' \in [BattleIds -> Battles]
    <3>1. ASSUME Ready \/ TurnTaken \/ \E id \in BattleIds : TheyPlay(id) /\ UNCHANGED pageVars
          PROVE  arena' \in [BattleIds -> Battles]
      <4>1. TurnTaken => page.id \in BattleIds
        BY DEF ScreensInv, PageInv, TurnTaken
      <4> QED  BY <2>1, <3>1, <4>1, AcceptedGrows, TheyPlayGrows DEF Ready, TurnTaken, Grows
    <3>2. UNCHANGED arena => arena' \in [BattleIds -> Battles]
      BY <2>1
    <3> QED
      BY <1>3, <3>1, <3>2 DEF OnPage, PageNext, OpenPage, ClosePage, Toggle, Tick, StateFound,
         StateRefused, PollAnswered, Show, Miss, OutOfDate, Dropped, SendTurn, TurnRefused, TurnAnswered
  <2>8. PhoneInv'
    BY <1>3, <2>7, ElsewhereKeeps DEF OnPage, phone, ScreensInv
  <2> QED  BY <2>6, <2>8 DEF ScreensInv
<1> QED  BY <1>1, <1>2, <1>3 DEF ScreensNext

\* A poll that shows a battle shows one no older than the page has.
LEMMA PageStepsForward ==
  ScreensInv /\ [ScreensNext]_screensVars
  => [page.at = "ok" /\ page'.at = "ok" => page'.shown.version >= page.shown.version]_page
<1> SUFFICES ASSUME ScreensInv, [ScreensNext]_screensVars, page.at = "ok", page'.at = "ok",
                    page' # page
             PROVE  page'.shown.version >= page.shown.version
  OBVIOUS
<1>1. Show
  <2>1. program = "page" /\ PageNext
    BY DEF screensVars, pageVars, ScreensNext, OnPhone, OnPage, PageNext
  <2>2. ~OpenPage /\ ~ClosePage
    BY DEF OpenPage, ClosePage, Closed
  <2>3. ~StopPage
    BY DEF StopPage, ScreensInv, PageInv
  <2>4. ~Miss /\ ~OutOfDate /\ ~Dropped
    BY <2>3 DEF Miss, OutOfDate, Dropped
  <2>5. /\ ~Ready /\ ~Toggle /\ ~Tick /\ ~StateFound /\ ~StateRefused
        /\ ~SendTurn /\ ~TurnTaken /\ ~TurnRefused /\ ~TurnAnswered
    BY DEF pageVars, Ready, Toggle, Tick, StateFound, StateRefused, SendTurn, TurnTaken,
           TurnRefused, TurnAnswered
  <2>6. ~\E id \in BattleIds : TheyPlay(id) /\ UNCHANGED pageVars
    BY DEF pageVars
  <2> QED  BY <2>1, <2>2, <2>4, <2>5, <2>6 DEF PageNext, PollAnswered
<1>2. page'.shown = poll.b
  BY <1>1 DEF Show, ScreensInv, PageInv
<1>3. poll.b.version >= seen /\ page.shown.version = seen
  BY <1>1 DEF Show, ScreensInv, PageInv, Battles, Records
<1> QED  BY <1>2, <1>3

-----------------------------------------------------------------------------
\* What the phone shows is nothing or a battle the server has sent, for any
\* number of calls and updates.
THEOREM PhoneTyped == ScreensSpec => []MobileTypeOK
<1>1. ScreensInv => MobileTypeOK
  <2> SUFFICES ASSUME ScreensInv PROVE MobileTypeOK
    OBVIOUS
  <2>1. ArenaTypeOK
    BY DEF ScreensInv, PhoneInv, PhoneTypes, ArenaTypeOK, Battles, Records, Players
  <2>2. \A view \in Shows :
          view # NoView => view.id \in BattleIds /\ view.b.version \in Nat \ {0}
    BY ArenaAssumption DEF Shows, Views, Battles, Records
  <2> QED  BY <2>1, <2>2 DEF ScreensInv, PhoneInv, PhoneTypes, MobileTypeOK, CallRecords
<1> QED  BY <1>1, ScreensStarts, ScreensStep, PTL DEF ScreensSpec

\* Whatever results come in, and in whatever order, a watch that the app
\* believes in runs or its result is on the way (apply in main.go).
THEOREM WatchIsOut == ScreensSpec => []WatchingHasWatch
<1>1. ScreensInv => WatchingHasWatch
  BY DEF ScreensInv, PhoneInv
<1> QED  BY <1>1, ScreensStarts, ScreensStep, PTL DEF ScreensSpec

\* A turn is picked on the battle shown, whatever replaces it meanwhile
\* (pick.reset in state.go).
THEOREM PickIsOfShown == ScreensSpec => []PicksAreFresh
<1>1. ScreensInv => PicksAreFresh
  BY DEF ScreensInv, PhoneInv
<1> QED  BY <1>1, ScreensStarts, ScreensStep, PTL DEF ScreensSpec

\* The board never goes back to an older state of its battle, for any number of
\* battles and misses, and whatever is lost or late (useBattle in useBattle.ts).
THEOREM BoardMovesForward == ScreensSpec => PageMovesForward
BY ScreensStarts, ScreensStep, PageStepsForward, PTL DEF ScreensSpec, PageMovesForward
=============================================================================

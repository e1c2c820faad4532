-------------------------------- MODULE Page --------------------------------
(***************************************************************************)
(* The React page of a battle (pokedex-web): useBattle polls its server    *)
(* with one timer after another, and the board sends turns beside it.  The *)
(* server asks the API, and answers 404 for every error it gets from it.   *)
(***************************************************************************)
EXTENDS Arena

CONSTANT PageMisses     \* MAX_MISSES: answers of 404 until the page gives up

ASSUME PageAssumption == PageMisses \in Nat \ {0}

VARIABLES
    page,      \* [at, id, shown]: closed, loading, ok or stopped
    poll,      \* [at, answer, b]: the timer, or the request it started
    seen,      \* the version last set, 0 before the first
    misses,
    hidden,    \* document.hidden
    turn,      \* [at, answer, b]: the turn being sent
    rejected   \* the version shown when a turn was refused, 0 for none

pageVars == <<page, poll, seen, misses, hidden, turn, rejected>>

NoFetch == [at |-> "none", answer |-> "none", b |-> NoBattle]
Timer == [NoFetch EXCEPT !.at = "timer"]
Out == [NoFetch EXCEPT !.at = "out"]
Answered(answer, b) == [at |-> "in", answer |-> answer, b |-> b]

Closed == [at |-> "closed", id |-> NoId, shown |-> NoBattle]

PageInit ==
    /\ page = Closed
    /\ poll = NoFetch /\ seen = 0 /\ misses = 0
    /\ hidden = FALSE
    /\ turn = NoFetch /\ rejected = 0

Live == page.at \in {"loading", "ok"}

\* The pages before it: Ready and OpenRow open or join a battle, and go to its
\* page when the answer arrives, which OpenPage is.
Ready ==
    /\ page.at = "closed"
    /\ \E kind \in {"create", "join"}, id \in BattleIds :
          \E view \in Accepted(kind, id) : Becomes(view.id, view.b)
    /\ UNCHANGED pageVars

\* The page is loaded, its effect runs, and the first tick with it.
OpenPage ==
    /\ page.at = "closed"
    /\ \E id \in BattleIds : page' = [at |-> "loading", id |-> id, shown |-> NoBattle]
    /\ poll' = Timer
    /\ seen' = 0 /\ misses' = 0 /\ turn' = NoFetch /\ rejected' = 0
    /\ UNCHANGED <<arena, hidden>>

\* Leaving it ends the effect: its timer is cleared, its fetch is not looked at.
ClosePage ==
    /\ page.at # "closed"
    /\ page' = Closed /\ poll' = NoFetch /\ turn' = NoFetch
    /\ seen' = 0 /\ misses' = 0 /\ rejected' = 0
    /\ UNCHANGED <<arena, hidden>>

\* The browser's tab is put in the back, or in front.
Toggle == hidden' = ~hidden /\ UNCHANGED <<arena, page, poll, seen, misses, turn, rejected>>

-----------------------------------------------------------------------------
(* useBattle                                                               *)

\* Mutant: a hidden page returns without another timer.
TickHiddenEnds ==
    /\ poll = Timer
    /\ poll' = IF hidden THEN NoFetch ELSE Out
    /\ UNCHANGED <<arena, page, seen, misses, hidden, turn, rejected>>

\* A hidden page waits another interval.
Tick ==
    /\ poll = Timer
    /\ poll' = IF hidden THEN Timer ELSE Out
    /\ UNCHANGED <<arena, page, seen, misses, hidden, turn, rejected>>

\* The page's server, asked for the state of the battle, has it.
StateFound ==
    /\ poll = Out /\ arena[page.id].status # "none"
    /\ poll' = Answered("ok", arena[page.id])
    /\ UNCHANGED <<arena, page, seen, misses, hidden, turn, rejected>>

\* The API has no such battle, or fails: 404.  Another status or none at
\* all: "failed".  One of a deploy that is done with this page: "terminal".
StateRefused ==
    /\ poll = Out
    /\ poll' \in {Answered(answer, NoBattle) : answer \in {"404", "failed", "terminal"}}
    /\ UNCHANGED <<arena, page, seen, misses, hidden, turn, rejected>>

\* A battle is set when its version is not the one seen.
Show ==
    /\ poll.answer = "ok"
    /\ misses' = 0
    /\ IF poll.b.version # seen
       THEN seen' = poll.b.version /\ page' = [page EXCEPT !.at = "ok", !.shown = poll.b]
       ELSE UNCHANGED <<seen, page>>
    /\ poll' = Timer
    /\ UNCHANGED <<arena, hidden, turn, rejected>>

\* stopped shows a message in place of the board, and with it goes what the
\* board knew of a turn on its way.
StopPage ==
    /\ page' = [page EXCEPT !.at = "stopped", !.shown = NoBattle]
    /\ poll' = NoFetch
    /\ turn' = NoFetch /\ rejected' = 0

Miss ==
    /\ poll.answer = "404"
    /\ misses' = misses + 1
    /\ IF misses' >= PageMisses
       THEN StopPage
       ELSE poll' = Timer /\ UNCHANGED <<page, turn, rejected>>
    /\ UNCHANGED <<arena, seen, hidden>>

OutOfDate ==
    /\ poll.answer = "terminal"
    /\ StopPage
    /\ UNCHANGED <<arena, seen, misses, hidden>>

\* A dropped poll is not shown; a body that cannot be read was an answer.
Dropped ==
    /\ poll.answer = "failed"
    /\ misses' \in {misses, 0}
    /\ poll' = Timer
    /\ UNCHANGED <<arena, page, seen, hidden, turn, rejected>>

PollAnswered == Show \/ Miss \/ OutOfDate \/ Dropped

-----------------------------------------------------------------------------
(* send                                                                    *)

\* The button is there on the player's turn and dead while a turn is sent.
\* checkTurn refuses what is picked, or it is sent.
SendTurn ==
    /\ page.at = "ok" /\ IsMyTurn(page.shown) /\ turn = NoFetch
    /\ \/ rejected' = page.shown.version /\ UNCHANGED turn
       \/ turn' = [Out EXCEPT !.b = page.shown] /\ UNCHANGED rejected
    /\ UNCHANGED <<arena, page, poll, seen, misses, hidden>>

\* Accepted; its answer arrives, or is lost on the way to the page, or to its
\* server, which then says 409 of a turn that was taken.
TurnTaken ==
    /\ turn.at = "out"
    /\ \E view \in Accepted("attack", page.id) :
          /\ Becomes(view.id, view.b)
          /\ turn' \in {Answered("ok", view.b), Answered("failed", turn.b),
                       Answered("409", turn.b)}
    /\ UNCHANGED <<page, poll, seen, misses, hidden, rejected>>

\* Refused: the board remembers which version it showed when it was sent.
TurnRefused ==
    /\ turn.at = "out"
    /\ turn' \in {Answered("409", turn.b), Answered("failed", turn.b)}
    /\ UNCHANGED <<arena, page, poll, seen, misses, hidden, rejected>>

\* Mutant: the board shows the battle the turn was answered with.
TurnAnsweredShows ==
    /\ turn.at = "in"
    /\ IF turn.answer = "ok" THEN page' = [page EXCEPT !.shown = turn.b] ELSE UNCHANGED page
    /\ rejected' = IF turn.answer = "409" THEN turn.b.version ELSE rejected
    /\ turn' = NoFetch
    /\ UNCHANGED <<arena, poll, seen, misses, hidden>>

\* The answer's battle is not shown: the next poll brings it.
TurnAnswered ==
    /\ turn.at = "in"
    /\ rejected' = IF turn.answer = "409" THEN turn.b.version ELSE rejected
    /\ turn' = NoFetch
    /\ UNCHANGED <<arena, page, poll, seen, misses, hidden>>

-----------------------------------------------------------------------------
PageNext ==
    \/ Ready \/ OpenPage \/ ClosePage \/ Toggle
    \/ Tick \/ StateFound \/ StateRefused \/ PollAnswered
    \/ SendTurn \/ TurnTaken \/ TurnRefused \/ TurnAnswered
    \/ \E id \in BattleIds : TheyPlay(id) /\ UNCHANGED pageVars

\* Timers fire, fetches end, and a battle that is there is not refused for
\* ever to a page that keeps asking.
PageFairness ==
    /\ WF_<<arena, pageVars>>(Tick) /\ WF_<<arena, pageVars>>(PollAnswered)
    /\ WF_<<arena, pageVars>>(StateFound \/ StateRefused)
    /\ SF_<<arena, pageVars>>(StateFound)
    /\ WF_<<arena, pageVars>>(TurnTaken \/ TurnRefused) /\ WF_<<arena, pageVars>>(TurnAnswered)

-----------------------------------------------------------------------------
\* The board never goes back to an older state of its battle, though turns
\* and polls are answered in any order (useBattle, send).
PageMovesForward ==
    [][page.at = "ok" /\ page'.at = "ok" => page'.shown.version >= page.shown.version]_page

\* A page that stays open in front says that it stopped, or shows the battle
\* as it is on the server in the end, however often it was in the back.
PageShowsNewest ==
    \A id \in BattleIds :
        <>[](page.id = id /\ Live /\ ~hidden) => <>[](page.shown = arena[id])
=============================================================================

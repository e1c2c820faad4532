------------------------------- MODULE Arena -------------------------------
(***************************************************************************)
(* The battles of one player on the server, as a program that polls them   *)
(* sees them: status, whose turn it is, version and the length of the log. *)
(* Battle has the rules; here a turn passes the move on or ends the        *)
(* battle, adds one to the version and some entries to the log.  Battles   *)
(* between two others are left out.                                        *)
(***************************************************************************)
EXTENDS Integers

CONSTANTS BattleIds, NoId,
          Entries,      \* how many log entries a turn may add: 1 to 4 in the code
          MaxVersion    \* [BattleIds -> Nat]: bound of the model on the updates of each

ASSUME ArenaAssumption == /\ NoId \notin BattleIds
                          /\ Entries \subseteq 1..4 /\ Entries # {}
                          /\ MaxVersion \in [BattleIds -> Nat]

VARIABLE arena

NoBattle == [status |-> "none", opener |-> "me", turn |-> "me",
             version |-> 0, log |-> 0]

ArenaInit == arena = [id \in BattleIds |-> NoBattle]

Other(p) == IF p = "me" THEN "them" ELSE "me"

\* newBattle: its opener will move first
Opened(p) == [status |-> "waiting", opener |-> p, turn |-> p, version |-> 1, log |-> 1]

Joined(b) == [b EXCEPT !.status = "active", !.version = @ + 1, !.log = @ + 1]

\* takeTurn, finishTurn: the battle goes on or is over, with n entries more
TurnEnds(b, s, n) ==
  [b EXCEPT !.status = s, !.turn = IF s = "active" THEN Other(@) ELSE @,
            !.version = @ + 1, !.log = @ + n]

Turned(b) == {TurnEnds(b, s, n) : s \in {"active", "finished"}, n \in Entries}

\* What an accepted call of player p makes of a battle, none when refused
Results(kind, p, b) ==
  CASE kind = "create" -> IF b.status = "none" THEN {Opened(p)} ELSE {}
    [] kind = "join"   -> IF b.status = "waiting" /\ b.opener # p THEN {Joined(b)} ELSE {}
    [] kind = "attack" -> IF b.status = "active" /\ b.turn = p THEN Turned(b) ELSE {}

Becomes(id, b) == arena' = [arena EXCEPT ![id] = b]

\* The other player, through a program of their own
TheyPlay(id) ==
  /\ arena[id].version < MaxVersion[id]
  /\ \E kind \in {"create", "join", "attack"} :
       \E b \in Results(kind, "them", arena[id]) : Becomes(id, b)

NoView == [id |-> NoId, b |-> NoBattle]

\* What the player's program gets for an accepted call
Accepted(kind, id) ==
  LET ids == IF kind = "create" THEN BattleIds ELSE {id}
  IN  UNION {{[id |-> i, b |-> b] : b \in Results(kind, "me", arena[i])} :
             i \in {j \in ids : arena[j].version < MaxVersion[j]}}

\* ListWaitingTrainers
Waiting == {id \in BattleIds : arena[id].status = "waiting"}

IsMyTurn(b) == b.status = "active" /\ b.turn = "me"

\* Watch polls until the battle has a version beyond seen
WatchAnswers(b, seen) == b.version > seen

\* A battle as a polling program sees it has its type.
ArenaTypeOK ==
  \A id \in BattleIds :
    /\ arena[id].status \in {"none", "waiting", "active", "finished"}
    /\ arena[id].opener \in {"me", "them"} /\ arena[id].turn \in {"me", "them"}
    /\ arena[id].version \in Nat /\ arena[id].log \in Nat
=============================================================================

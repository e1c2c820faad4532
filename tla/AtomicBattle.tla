---------------------------- MODULE AtomicBattle ----------------------------
(***************************************************************************)
(* What the callers of a battle are promised, whichever store is behind    *)
(* it: a call to join or to take a turn happens at one instant between its *)
(* start and its answer.  It is accepted or refused for the battle as it   *)
(* is at that instant; a call that ends in an error took effect once or    *)
(* not at all.                                                             *)
(***************************************************************************)
EXTENDS Integers

CONSTANTS Players, NoPlayer,
          Requests,     \* the requests that may be in flight at once
          NoBattle

ASSUME AtomicAssumption == NoPlayer \notin Players

Battles == [status: {"waiting", "active", "finished"},
            owner: [1..2 -> Players \cup {NoPlayer}],
            turn: 1..2, version: Nat]

ASSUME NoBattleAssumption == NoBattle \notin Battles

Calls == [op: {"join", "turn"}, by: Players]

Refusals == {"errNoBattle", "errBattleFull", "errAlreadyIn",
             "errBattleOver", "errNotWaiting", "errNotYourTurn"}

VARIABLES battle,  \* the battle, or NoBattle once it is gone
          call,    \* call[r]: what request r asks for
          answer   \* answer[r]: "idle", "pending", "ok", "error" or a refusal

vars == <<battle, call, answer>>

Opened(p) == [status |-> "waiting",
              owner |-> [i \in 1..2 |-> IF i = 1 THEN p ELSE NoPlayer],
              turn |-> 1, version |-> 1]

\* The guards of join and takeTurn that read the battle and not the move
Verdict(b, c) ==
  IF b = NoBattle THEN "errNoBattle"
  ELSE IF c.op = "join"
       THEN IF b.status # "waiting" THEN "errBattleFull"
            ELSE IF b.owner[1] = c.by THEN "errAlreadyIn" ELSE "ok"
       ELSE IF b.status = "finished" THEN "errBattleOver"
            ELSE IF b.status # "active" THEN "errNotWaiting"
            ELSE IF b.owner[b.turn] # c.by THEN "errNotYourTurn" ELSE "ok"

\* What an accepted call may make of the battle: a turn passes the move on or
\* ends the battle (Duel says when).
Outcomes(b, c) ==
  IF c.op = "join"
  THEN {[status |-> "active", owner |-> [b.owner EXCEPT ![2] = c.by],
         turn |-> 1, version |-> b.version + 1]}
  ELSE {[b EXCEPT !.turn = 3 - b.turn, !.version = b.version + 1],
        [b EXCEPT !.status = "finished", !.version = b.version + 1]}

Init == /\ \E p \in Players : battle = Opened(p)
        /\ call = [r \in Requests |-> CHOOSE c \in Calls : TRUE]
        /\ answer = [r \in Requests |-> "idle"]

Call(r, c) == /\ answer[r] # "pending"
              /\ call' = [call EXCEPT ![r] = c]
              /\ answer' = [answer EXCEPT ![r] = "pending"]
              /\ UNCHANGED battle

Accept(r) == /\ answer[r] = "pending"
             /\ Verdict(battle, call[r]) = "ok"
             /\ battle' \in Outcomes(battle, call[r])
             /\ answer' \in {[answer EXCEPT ![r] = a] : a \in {"ok", "error"}}
             /\ UNCHANGED call

Refuse(r) == /\ answer[r] = "pending"
             /\ Verdict(battle, call[r]) # "ok"
             /\ answer' = [answer EXCEPT ![r] = Verdict(battle, call[r])]
             /\ UNCHANGED <<battle, call>>

Fail(r) == /\ answer[r] = "pending"
           /\ answer' = [answer EXCEPT ![r] = "error"]
           /\ UNCHANGED <<battle, call>>

Expire == battle' = NoBattle /\ UNCHANGED <<call, answer>>

Next == \/ \E r \in Requests : \/ \E c \in Calls : Call(r, c)
                               \/ Accept(r) \/ Refuse(r) \/ Fail(r)
        \/ Expire

Spec == Init /\ [][Next]_vars
=============================================================================

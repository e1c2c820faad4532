------------------------------- MODULE Lobby -------------------------------
(***************************************************************************)
(* The part of the server's state that crosses battles: the trainers, the  *)
(* battles by id, how long ago each was last used, and the requests of     *)
(* battle_handlers.go that are in flight, with what both stores promise    *)
(* about them.  PgLobby (pgstore.go) and MemLobby (memStore in battle.go)  *)
(* have the store calls.                                                   *)
(*                                                                         *)
(* Time is kept as ages that stop growing once past every TTL.  Tokens and *)
(* battle ids are random in the code and never come up twice here.         *)
(***************************************************************************)
EXTENDS Integers, FiniteSets

CONSTANTS Names, Tokens, NoToken, Ids, NoId,
          Unissued, Swept,   \* a token not handed out yet, or not good any more
          Requests,          \* the requests that may be in flight at once
          BattleTTL,         \* 2h in the code
          WaitingTTL,        \* 24h
          TrainerTTL         \* 7 days

ASSUME LobbyAssumption ==
  /\ BattleTTL \in Nat /\ WaitingTTL \in Nat /\ TrainerTTL \in Nat
  /\ NoToken \notin Tokens
  /\ NoId \notin Ids
  /\ Unissued \notin Names /\ Swept \notin Names /\ Unissued # Swept

VARIABLES trainer,     \* trainer[t]: the name token t stands for
          seenAge,     \* seenAge[t]: the time since last_seen
          status,      \* status[id]: "none" before the battle, "gone" after it
          opener,      \* opener[id], joiner[id]: the tokens of its sides
          joiner,
          touchedAge,  \* touchedAge[id]: the time since touched_at
          op,          \* op[r]: the handler that runs request r
          pc,          \* pc[r]: the store call it makes next
          token,       \* token[r]: the X-Trainer-Token it came with
          target       \* target[r]: the battle it is for

trainerVars == <<trainer, seenAge>>
battleVars == <<status, opener, joiner, touchedAge>>
requestVars == <<op, pc, token, target>>
lobbyVars == <<trainerVars, battleVars, requestVars>>

MaxAge == IF WaitingTTL > BattleTTL THEN WaitingTTL + 1 ELSE BattleTTL + 1

\* Trainers, battles and requests have their types; ages stay in bounds.
LobbyTypeOK ==
  /\ trainer \in [Tokens -> Names \cup {Unissued, Swept}]
  /\ seenAge \in [Tokens -> 0..(TrainerTTL + 1)]
  /\ status \in [Ids -> {"none", "waiting", "active", "finished", "gone"}]
  /\ opener \in [Ids -> Tokens \cup {NoToken}]
  /\ joiner \in [Ids -> Tokens \cup {NoToken}]
  /\ touchedAge \in [Ids -> 0..MaxAge]
  /\ op \in [Requests -> {"none", "create", "join", "turn", "list"}]
  /\ \A r \in Requests : /\ pc[r] = "idle" <=> op[r] = "none"
                         /\ pc[r] \in {"count", "insert"} => op[r] = "create"
                         /\ pc[r] = "update" => op[r] \in {"join", "turn"}
  /\ token \in [Requests -> Tokens \cup {NoToken}]
  /\ target \in [Requests -> Ids \cup {NoId}]

LobbyInit == /\ trainer = [t \in Tokens |-> Unissued]
             /\ seenAge = [t \in Tokens |-> 0]
             /\ status = [id \in Ids |-> "none"]
             /\ opener = [id \in Ids |-> NoToken]
             /\ joiner = [id \in Ids |-> NoToken]
             /\ touchedAge = [id \in Ids |-> 0]
             /\ op = [r \in Requests |-> "none"]
             /\ pc = [r \in Requests |-> "idle"]
             /\ token = [r \in Requests |-> NoToken]
             /\ target = [r \in Requests |-> NoId]

-----------------------------------------------------------------------------
Known(t) == t \in Tokens /\ trainer[t] \in Names

Present(id) == status[id] \in {"waiting", "active", "finished"}

Plays(t, id) == Present(id) /\ t \in {opener[id], joiner[id]}

OpenBattles(t) == {id \in Ids : status[id] = "waiting" /\ opener[id] = t}

\* Mutant: one cutoff for every status
ExpiredByOneCutoff(id) == Present(id) /\ touchedAge[id] > BattleTTL

\* Two cutoffs, by status: both sweeps have them
Expired(id) ==
  \/ status[id] = "waiting" /\ touchedAge[id] > WaitingTTL
  \/ status[id] \in {"active", "finished"} /\ touchedAge[id] > BattleTTL

Idle(t) == Known(t) /\ seenAge[t] > TrainerTTL

-----------------------------------------------------------------------------
\* The handlers.  A client holds a token it was given, good or not.
Goto(r, s) == pc' = [pc EXCEPT ![r] = s]

Arrive(r, o, s, t, id) ==
  /\ pc[r] = "idle"
  /\ Goto(r, s)
  /\ op' = [op EXCEPT ![r] = o]
  /\ token' = [token EXCEPT ![r] = t]
  /\ target' = [target EXCEPT ![r] = id]
  /\ UNCHANGED <<trainerVars, battleVars>>

Issued == {t \in Tokens : trainer[t] # Unissued}

CreateBattle(r) == \E t \in Issued : Arrive(r, "create", "auth", t, NoId)

JoinBattle(r) == \E t \in Issued, id \in Ids : Arrive(r, "join", "auth", t, id)

TakeTurn(r) == \E t \in Issued, id \in Ids : Arrive(r, "turn", "auth", t, id)

\* The request ends, with an answer the state does not depend on
Done(r) == /\ Goto(r, "idle")
           /\ op' = [op EXCEPT ![r] = "none"]
           /\ token' = [token EXCEPT ![r] = NoToken]
           /\ target' = [target EXCEPT ![r] = NoId]

Proceed(r, s) == Goto(r, s) /\ UNCHANGED <<op, token, target>>

\* registerTrainer: one statement, refused when a trainer has the name
RegisterTrainer(n) ==
  /\ \A t \in Tokens : trainer[t] # n
  /\ \E t \in Tokens : /\ trainer[t] = Unissued
                       /\ trainer' = [trainer EXCEPT ![t] = n]
                       /\ seenAge' = [seenAge EXCEPT ![t] = 0]
  /\ UNCHANGED <<battleVars, requestVars>>

-----------------------------------------------------------------------------
\* newBattle stored under an id nothing has had
Opens(t, id) ==
  /\ status[id] = "none"
  /\ status' = [status EXCEPT ![id] = "waiting"]
  /\ opener' = [opener EXCEPT ![id] = t]
  /\ touchedAge' = [touchedAge EXCEPT ![id] = 0]
  /\ UNCHANGED joiner

\* What join and takeTurn ask of the battle; whose turn it is and the rest of
\* the rules are Battle's.
Accepts(o, t, id) ==
  IF o = "join" THEN status[id] = "waiting" /\ opener[id] # t
  ELSE status[id] = "active" /\ t \in {opener[id], joiner[id]}

\* update, in one step: the mutex makes it one, and PgBattle shows that the
\* serializable transactions are as good as one.
Updates(o, t, id) ==
  /\ touchedAge' = [touchedAge EXCEPT ![id] = 0]
  /\ IF o = "join"
     THEN /\ status' = [status EXCEPT ![id] = "active"]
          /\ joiner' = [joiner EXCEPT ![id] = t]
     ELSE /\ \E s \in {"active", "finished"} : status' = [status EXCEPT ![id] = s]
          /\ UNCHANGED joiner
  /\ UNCHANGED opener

DropBattles(swept) ==
  /\ status' = [id \in Ids |-> IF id \in swept THEN "gone" ELSE status[id]]
  /\ opener' = [id \in Ids |-> IF id \in swept THEN NoToken ELSE opener[id]]
  /\ joiner' = [id \in Ids |-> IF id \in swept THEN NoToken ELSE joiner[id]]
  /\ touchedAge' = [id \in Ids |-> IF id \in swept THEN 0 ELSE touchedAge[id]]

DropTrainers(swept) ==
  /\ trainer' = [t \in Tokens |-> IF t \in swept THEN Swept ELSE trainer[t]]
  /\ seenAge' = [t \in Tokens |-> IF t \in swept THEN 0 ELSE seenAge[t]]

-----------------------------------------------------------------------------
Older(age, limit) == IF age < limit THEN age + 1 ELSE limit

\* Requests are short against the TTLs: time passes between them
TimePasses ==
  /\ \A r \in Requests : pc[r] = "idle"
  /\ seenAge' = [t \in Tokens |-> IF Known(t) THEN Older(seenAge[t], TrainerTTL + 1)
                                  ELSE seenAge[t]]
  /\ touchedAge' = [id \in Ids |-> IF Present(id) THEN Older(touchedAge[id], MaxAge)
                                   ELSE touchedAge[id]]
  /\ UNCHANGED <<trainer, status, opener, joiner, requestVars>>

-----------------------------------------------------------------------------
\* "A trainer in a battle is never swept, whatever this says" (trainerTTL in
\* battle.go): the token of either side still authenticates its player.  True
\* of the memory's store; see PlayersKeepTokens for Postgres.
TrainersInBattleKept ==
  \A id \in Ids, t \in Tokens : Plays(t, id) => Known(t)

\* "One waiting battle per trainer" (maxOpenBattlesPerTrainer in battle.go).
OneWaitingEach == \A t \in Tokens : Cardinality(OpenBattles(t)) <= 1

\* A battle someone waits in is swept only after waitingBattleTTL: "otherwise
\* polling clients get 404'd out from under them" (battle.go).
WaitersKeepTheirPlace ==
  [][\A id \in Ids : status[id] = "waiting" /\ status'[id] = "gone"
                       => touchedAge[id] > WaitingTTL]_lobbyVars
=============================================================================

------------------------------ MODULE PgLobby ------------------------------
(***************************************************************************)
(* The lobby on Postgres (pgStore in pgstore.go, queries/game.sql), under  *)
(* several replicas.  Outside the transactions of create and update every  *)
(* statement commits by itself, and a DELETE is two steps here: it selects *)
(* its rows on a snapshot and deletes them later, whatever was committed   *)
(* in between.  A row that was itself updated in between is looked at      *)
(* again: its own columns count as they are now, a subquery's answer does  *)
(* not change.                                                             *)
(***************************************************************************)
EXTENDS Lobby

CONSTANT BatchSize   \* sweepBatchSize, 1000 in the code

ASSUME PgLobbyAssumption == BatchSize \in Nat \ {0}

VARIABLES waitingFor,  \* waitingFor[id]: the battle's waiting_for_token
          sides,       \* the rows of battle_sides, <<id, idx, token>>
          picked,      \* picked[r]: the rows a DELETE of request r has selected
          missed       \* a history: the tokens up for the sweep when they were
                       \* last used, and still up for it, as the touch failed

pgLobbyVars == <<lobbyVars, waitingFor, sides, picked, missed>>
rows == <<waitingFor, sides>>

PgLobbyInit == /\ LobbyInit
               /\ waitingFor = [id \in Ids |-> NoToken]
               /\ sides = {}
               /\ picked = [r \in Requests |-> {}]
               /\ missed = {}

-----------------------------------------------------------------------------
\* trainerByToken: the SELECT, then the UPDATE of last_seen.  The UPDATE finds
\* no row when the trainer was swept between the two, which is no error; when
\* it fails that is only logged, and the request goes on with the token.
SelectTrainer(r) ==
  /\ pc[r] = "auth"
  /\ IF Known(token[r]) THEN Proceed(r, "touch") ELSE Done(r)
  /\ UNCHANGED <<trainerVars, battleVars, rows, picked>>

TouchTrainer(r) ==
  /\ pc[r] = "touch"
  /\ \/ /\ Known(token[r])
        /\ seenAge' = [seenAge EXCEPT ![token[r]] = 0]
        /\ missed' = missed \ {token[r]}
     \/ /\ missed' = IF Idle(token[r]) THEN missed \cup {token[r]} ELSE missed
        /\ UNCHANGED seenAge
  /\ Proceed(r, IF op[r] = "create" THEN "count" ELSE "update")
  /\ UNCHANGED <<trainer, battleVars, rows, picked>>

\* CountOpenBattlesFor and the cap of the handler; no sweep comes first
CountOpenBattlesFor(r) ==
  /\ pc[r] = "count"
  /\ IF \A id \in Ids : status[id] = "waiting" => <<id, 0, token[r]>> \notin sides
     THEN Proceed(r, "sweep") ELSE Done(r)
  /\ UNCHANGED <<trainerVars, battleVars, rows, picked>>

\* The oldest of the expired battles, as many as the batch takes
Batches ==
  LET expired == {id \in Ids : Expired(id)}
  IN  {S \in SUBSET expired :
         /\ Cardinality(S) <= BatchSize
         /\ S # expired => Cardinality(S) = BatchSize
         /\ \A id \in S, other \in expired \ S : touchedAge[id] >= touchedAge[other]}

SweepBattles(r) ==
  /\ pc[r] = "sweep"
  /\ \E S \in Batches : picked' = [picked EXCEPT ![r] = S]
  /\ Proceed(r, "delete")
  /\ UNCHANGED <<trainerVars, battleVars, rows>>

\* The rows go with their sides (ON DELETE CASCADE).  Or the sweep fails, and
\* is only logged.
DeleteBattles(r) ==
  /\ pc[r] = "delete"
  /\ \E swept \in {picked[r], {}} :
       /\ DropBattles(swept)
       /\ waitingFor' = [id \in Ids |-> IF id \in swept THEN NoToken ELSE waitingFor[id]]
       /\ sides' = {row \in sides : row[1] \notin swept}
  /\ picked' = [picked EXCEPT ![r] = {}]
  /\ Proceed(r, IF op[r] = "create" THEN "insert" ELSE "sweepTrainers")
  /\ UNCHANGED trainerVars

\* Mutant: no unique index behind the count
InsertUncapped(r) ==
  /\ pc[r] = "insert"
  /\ IF Known(token[r])
     THEN \E id \in Ids :
            /\ Opens(token[r], id)
            /\ waitingFor' = [waitingFor EXCEPT ![id] = token[r]]
            /\ sides' = sides \cup {<<id, 0, token[r]>>}
     ELSE UNCHANGED <<battleVars, rows>>
  /\ Done(r)
  /\ UNCHANGED <<trainerVars, picked>>

\* create's transaction: battles_one_waiting_per_trainer refuses a second
\* waiting battle, the foreign key of battle_sides a trainer who is gone.
Insert(r) ==
  /\ pc[r] = "insert"
  /\ IF Known(token[r]) /\ \A id \in Ids : waitingFor[id] # token[r]
     THEN \E id \in Ids :
            /\ Opens(token[r], id)
            /\ waitingFor' = [waitingFor EXCEPT ![id] = token[r]]
            /\ sides' = sides \cup {<<id, 0, token[r]>>}
     ELSE UNCHANGED <<battleVars, rows>>
  /\ Done(r)
  /\ UNCHANGED <<trainerVars, picked>>

\* Mutant: the place is kept past the join
PlaceKept(id) == waitingFor

\* UpdateBattle gives the opener's place back when the battle stops waiting,
\* and whatever is updated has: a join or a turn.
PlaceAfterUpdate(id) == [waitingFor EXCEPT ![id] = NoToken]

\* Mutant: the side that was there is written, the new one is not
OpenerSideRow(id, t) == {<<id, 0, opener[id]>>}

\* AddBattleSide for every side of a joined battle, an upsert for the opener's
SideRows(id, t) == {<<id, 0, opener[id]>>, <<id, 1, t>>}

\* A side row that is new must have its trainer (foreign key)
Update(r) ==
  LET id == target[r]
      joins == op[r] = "join"
  IN  /\ pc[r] = "update"
      /\ IF /\ Accepts(op[r], token[r], id)
            /\ joins => /\ Known(token[r])
                        /\ <<id, 0, opener[id]>> \in sides \/ Known(opener[id])
         THEN /\ Updates(op[r], token[r], id)
              /\ waitingFor' = PlaceAfterUpdate(id)
              /\ sides' = IF joins THEN sides \cup SideRows(id, token[r]) ELSE sides
         ELSE UNCHANGED <<battleVars, rows>>
      /\ Done(r)
      /\ UNCHANGED <<trainerVars, picked>>

-----------------------------------------------------------------------------
\* ListWaitingTrainers: the battles' sweep, then the trainers'
ListWaitingTrainers(r) == /\ Arrive(r, "list", "sweep", NoToken, NoId)
                          /\ UNCHANGED <<rows, picked>>

\* Mutant: without NOT EXISTS
SweepTrainersAnywhere(r) ==
  /\ pc[r] = "sweepTrainers"
  /\ picked' = [picked EXCEPT ![r] = {t \in Tokens : Idle(t)}]
  /\ Proceed(r, "deleteTrainers")
  /\ UNCHANGED <<trainerVars, battleVars, rows>>

SweepTrainers(r) ==
  /\ pc[r] = "sweepTrainers"
  /\ picked' = [picked EXCEPT ![r] =
       {t \in Tokens : Idle(t) /\ \A row \in sides : row[3] # t}]
  /\ Proceed(r, "deleteTrainers")
  /\ UNCHANGED <<trainerVars, battleVars, rows>>

\* last_seen is looked at again, battle_sides is not; the trainers' side rows
\* go with them.
DeleteTrainers(r) ==
  /\ pc[r] = "deleteTrainers"
  /\ \E swept \in {{t \in picked[r] : Idle(t)}, {}} :
       /\ DropTrainers(swept)
       /\ sides' = {row \in sides : row[3] \notin swept}
  /\ picked' = [picked EXCEPT ![r] = {}]
  /\ Done(r)
  /\ UNCHANGED <<battleVars, waitingFor>>

\* Any statement that is not best-effort may fail, and with it the request
DatabaseError(r) == /\ pc[r] \in {"auth", "count", "insert", "update"}
                    /\ Done(r)
                    /\ UNCHANGED <<trainerVars, battleVars, rows, picked>>

-----------------------------------------------------------------------------
PgLobbyNext ==
  \/ \E r \in Requests :
       \/ TouchTrainer(r)
       \/ /\ \/ (CreateBattle(r) \/ JoinBattle(r) \/ TakeTurn(r)) /\ UNCHANGED <<rows, picked>>
             \/ ListWaitingTrainers(r)
             \/ SelectTrainer(r) \/ CountOpenBattlesFor(r)
             \/ SweepBattles(r) \/ DeleteBattles(r) \/ Insert(r) \/ Update(r)
             \/ SweepTrainers(r) \/ DeleteTrainers(r) \/ DatabaseError(r)
          /\ UNCHANGED missed
  \/ \E n \in Names : RegisterTrainer(n) /\ UNCHANGED <<rows, picked, missed>>
  \/ TimePasses /\ UNCHANGED <<rows, picked, missed>>

PgLobbySpec == PgLobbyInit /\ [][PgLobbyNext]_pgLobbyVars

-----------------------------------------------------------------------------
\* Tables, requests and what a sweep has selected have their types.
PgLobbyTypeOK ==
  /\ LobbyTypeOK
  /\ pc \in [Requests -> {"idle", "auth", "touch", "count", "sweep", "delete", "insert",
                          "update", "sweepTrainers", "deleteTrainers"}]
  /\ waitingFor \in [Ids -> Tokens \cup {NoToken}]
  /\ sides \subseteq Ids \X {0, 1} \X Tokens
  /\ picked \in [Requests -> SUBSET (Ids \cup Tokens)]
  /\ missed \subseteq Tokens

\* The column behind the unique index says exactly who waits: a trainer is
\* never kept from opening a battle by one that is not waiting any more
\* ("Released the moment the battle stops waiting", game.sql).
PlaceHeldOnlyWhileWaiting ==
  \A id \in Ids : waitingFor[id] = IF status[id] = "waiting" THEN opener[id] ELSE NoToken

\* The table of sides says who plays what, though the state document has it
\* too, and it is all that keeps a player's token from the sweep: there is a row
\* for each side of each battle whose trainer is there, and for nothing else.
SideRowsMatch ==
  \A id \in Ids, t \in Tokens :
    Plays(t, id) /\ Known(t) <=> \E i \in {0, 1} : <<id, i, t>> \in sides

\* What does come of the promise that "a trainer in a battle is never swept"
\* (battle.go): a player whose trainer is gone had let the name lie for longer
\* than trainerTTL, and the request they came back with could not touch it.
PlayersKeepTokens ==
  \A id \in Ids, t \in Tokens : Plays(t, id) => Known(t) \/ t \in missed

\* While a request that has looked up its token and touched it runs, no sweep
\* of another takes the token away: "any authenticated call keeps the name
\* alive" (battle.go).  And a sweep that comes between the look-up and the rest
\* of the request lets nobody into a battle whose token is no longer good.
UsedTokensStayGood ==
  /\ [][\A r \in Requests :
          /\ pc[r] \in {"count", "sweep", "delete", "insert", "update"}
          /\ Known(token[r])
          /\ token[r] \notin missed
          => trainer'[token[r]] = trainer[token[r]]]_pgLobbyVars
  /\ [][\A id \in Ids, t \in Tokens :
          ~Plays(t, id) /\ Plays(t, id)' => Known(t)']_pgLobbyVars
=============================================================================

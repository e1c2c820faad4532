------------------------------ MODULE Service ------------------------------
(***************************************************************************)
(* The lobby of the service on the store it was started with: handler in   *)
(* server.go takes Postgres when DATABASE_URL is set, several replicas     *)
(* sharing it, and the memory of the one process otherwise.  Nothing       *)
(* switches later.  The store interface promises the same of both.         *)
(***************************************************************************)
EXTENDS PgLobby

VARIABLE store   \* "postgres" or "memory"

serviceVars == <<pgLobbyVars, store>>

Memory == INSTANCE MemLobby

ServiceInit == PgLobbyInit /\ store \in {"postgres", "memory"}

OnPostgres == store = "postgres" /\ PgLobbyNext

OnMemory == store = "memory" /\ Memory!MemNext /\ UNCHANGED <<rows, picked, missed>>

ServiceNext == (OnPostgres \/ OnMemory) /\ UNCHANGED store

ServiceSpec == ServiceInit /\ [][ServiceNext]_serviceVars

-----------------------------------------------------------------------------
\* Under replicas that both counted none, "one waiting battle per trainer"
\* (maxOpenBattlesPerTrainer) still holds in Postgres; in memory the count and
\* the create are two turns of the mutex, and nothing behind them.
OneWaitingInPostgres == store = "postgres" => OneWaitingEach

\* The column behind the unique index says exactly who waits: a trainer is
\* never kept from opening a battle by one that is not waiting any more
\* ("Released the moment the battle stops waiting", game.sql).
PlacesAreReleased == store = "postgres" => PlaceHeldOnlyWhileWaiting

\* The table of sides says who plays what, though the state document has it
\* too, and it is all that keeps a player's token from the sweep: there is a row
\* for each side of each battle whose trainer is there, and for nothing else.
SidesAreRecorded == store = "postgres" => SideRowsMatch
=============================================================================

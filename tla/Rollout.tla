------------------------------- MODULE Rollout -------------------------------
(***************************************************************************)
(* How the service comes up: pokedex replicas of several releases and the  *)
(* `pokedex seed` job meet in one database.  Each process migrates under a *)
(* session advisory lock (migrate.go); the job then rewrites the reference *)
(* tables in one transaction, a replica reads them in three statements and *)
(* serves what buildPokedex makes of them until it stops (seed.go,         *)
(* pokedex.go, main.go).  A process may die between any two statements;    *)
(* its database session outlives it for a while, with the lock it holds.   *)
(* A link, a row of pokemon_moves, is of one of two kinds: a move the      *)
(* Pokemon fights with, or one it can learn.                               *)
(***************************************************************************)
EXTENDS Naturals, FiniteSets

CONSTANTS Replica,      \* processes that serve
          Seeder,       \* processes that run `pokedex seed`
          Release,      \* the releases of the program
          ReleaseOf,    \* [Replica \cup Seeder -> Release]
          Migrations,   \* [Release -> Nat]: a release embeds 001 .. Migrations[r]
          Embedded,     \* [Release -> [moves, links]]: its pokedex.json
          NoOne,        \* the holder of a free lock
          MaxCrashes,   \* bound on processes killed or timed out
          MaxSeeds      \* bound on runs of the seed job

Process == Replica \cup Seeder
Version == 1 .. 5

\* pokedex.json of a release: its moves, and for every Pokemon its links.
MonsOf(r) == DOMAIN Embedded[r].links

Kind == {"battle", "learnable"}
Battle(links) == {l \in links : l.kind = "battle"}
InCatalogue(links, moves) == {l \in links : l.move \in moves}

ASSUME RolloutAssumption ==
    /\ ReleaseOf \in [Process -> Release]
    /\ Migrations \in [Release -> Version]
    /\ NoOne \notin Process
    /\ MaxCrashes \in Nat /\ MaxSeeds \in Nat
    /\ \A r \in Release : \A m \in MonsOf(r) :
          /\ Embedded[r].links[m] \subseteq [kind : Kind, move : Embedded[r].moves]
          /\ Battle(Embedded[r].links[m]) # {}
    \* Every release has some move of every other, so two seeds meet in a row.
    /\ \A r, s \in Release : Embedded[r].moves \cap Embedded[s].moves # {}

VARIABLES
    pc,        \* [Process -> Step]: the statement a process is about to run
    todo,      \* [Process -> SUBSET Version]: migrations it found unapplied
    open,      \* [Process -> SUBSET Version]: the migration its transaction has run
    lock,      \* the session that holds the advisory lock, or NoOne
    orphans,   \* dead processes whose database session has not ended yet
    schema,    \* migrations whose SQL is in the schema
    applied,   \* rows of schema_migrations
    tables,    \* committed reference data: [moves, links], links by Pokemon
    buffer,    \* [Process -> such tables]: what a seeding transaction will commit
    read,      \* [Process -> what the load has read so far]
    dex,       \* [Replica -> the moves it serves and the links of every Pokemon]
    crashes, seeds

migrateVars == <<todo, open, lock, orphans, schema, applied>>
dataVars == <<tables, buffer, read, dex>>
vars == <<pc, todo, open, lock, orphans, schema, applied, tables, buffer, read,
          dex, crashes, seeds>>

Step == {"down", "lock", "bootstrap", "migrate", "record", "unlock", "upsert moves",
         "upsert pokemon", "link", "commit", "moves", "pokemon", "links", "serving"}

Empty == [moves |-> {}, links |-> << >>]
Unread == [moves |-> {}, mons |-> {}]

Init ==
    /\ pc = [p \in Process |-> "down"]
    /\ todo = [p \in Process |-> {}] /\ open = [p \in Process |-> {}]
    /\ lock = NoOne /\ orphans = {}
    /\ schema = {} /\ applied = {}
    /\ tables = Empty /\ buffer = [p \in Process |-> Empty]
    /\ read = [p \in Process |-> Unread] /\ dex = [p \in Replica |-> Empty]
    /\ crashes = 0 /\ seeds = 0

Goto(p, step) == pc' = [pc EXCEPT ![p] = step]

-----------------------------------------------------------------------------
(* A process starts, stops, and dies.                                      *)

\* main: handler() connects and migrates; runSeed does the same for the job.
\* A new process has a new session: its predecessor's must not be reused.
Start(p) ==
    /\ pc[p] = "down" /\ p \notin orphans
    /\ p \in Seeder => seeds < MaxSeeds
    /\ seeds' = IF p \in Seeder THEN seeds + 1 ELSE seeds
    /\ Goto(p, "lock")
    /\ UNCHANGED <<migrateVars, dataVars, crashes>>

\* What a process loses when it ends; its session stays until EndSession.
Die(p) ==
    /\ Goto(p, "down")
    /\ orphans' = orphans \cup {p}
    /\ todo' = [todo EXCEPT ![p] = {}]
    /\ read' = [read EXCEPT ![p] = Unread]
    /\ dex' = [q \in Replica |-> IF q = p THEN Empty ELSE dex[q]]

\* Killed, or out of the 30 seconds handler() has: anywhere.  The COMMIT of
\* an open transaction may have reached the database or not.
Crash(p) ==
    /\ pc[p] # "down" /\ crashes < MaxCrashes
    /\ crashes' = crashes + 1
    /\ Die(p)
    /\ \/ UNCHANGED <<schema, applied, open, tables, buffer>>
       \/ /\ pc[p] = "record"
          /\ open[p] \cap applied = {}
          /\ schema' = schema \cup open[p] /\ applied' = applied \cup open[p]
          /\ open' = [open EXCEPT ![p] = {}]
          /\ UNCHANGED <<tables, buffer>>
       \/ /\ pc[p] = "commit"
          /\ tables' = buffer[p] /\ buffer' = [buffer EXCEPT ![p] = Empty]
          /\ UNCHANGED <<schema, applied, open>>
    /\ UNCHANGED <<lock, seeds>>

\* The database notices that a client is gone: it rolls its transaction back
\* and gives up the session's advisory locks.
EndSession(p) ==
    /\ p \in orphans
    /\ orphans' = orphans \ {p}
    /\ lock' = IF lock = p THEN NoOne ELSE lock
    /\ open' = [open EXCEPT ![p] = {}]
    /\ buffer' = [buffer EXCEPT ![p] = Empty]
    /\ UNCHANGED <<pc, todo, schema, applied, tables, read, dex, crashes, seeds>>

\* SIGTERM, srv.Shutdown, and main returns: the pod is replaced.
Stop(p) ==
    /\ pc[p] = "serving" /\ crashes < MaxCrashes
    /\ crashes' = crashes + 1
    /\ Die(p)
    /\ UNCHANGED <<lock, open, schema, applied, tables, buffer, seeds>>

-----------------------------------------------------------------------------
(* migrate                                                                 *)

\* Mutant: a lock each session gets for itself.
TakeLockShared(p) ==
    /\ pc[p] = "lock"
    /\ lock' = p
    /\ Goto(p, "bootstrap")
    /\ UNCHANGED <<todo, open, orphans, schema, applied, dataVars, crashes, seeds>>

\* pg_advisory_lock waits for the session that has it.
TakeLock(p) ==
    /\ pc[p] = "lock"
    /\ lock = NoOne
    /\ lock' = p
    /\ Goto(p, "bootstrap")
    /\ UNCHANGED <<todo, open, orphans, schema, applied, dataVars, crashes, seeds>>

\* CREATE TABLE IF NOT EXISTS schema_migrations, then what it lists.
ReadApplied(p) ==
    /\ pc[p] = "bootstrap"
    /\ todo' = [todo EXCEPT ![p] = (1 .. Migrations[ReleaseOf[p]]) \ applied]
    /\ Goto(p, "migrate")
    /\ UNCHANGED <<open, lock, orphans, schema, applied, dataVars, crashes, seeds>>

\* The first migration left, inside a transaction.  Run on a schema that has
\* it already, 002 fails ("constraint exists") and the process gives up.
RunSql(p) ==
    /\ pc[p] = "migrate"
    /\ \E v \in todo[p] :
          /\ \A w \in todo[p] : v <= w
          /\ IF v \in schema
             THEN Goto(p, "unlock") /\ UNCHANGED open
             ELSE Goto(p, "record") /\ open' = [open EXCEPT ![p] = {v}]
    /\ UNCHANGED <<todo, lock, orphans, schema, applied, dataVars, crashes, seeds>>

\* The row that records it, and the commit of both.  A duplicate row is
\* refused by the primary key and rolls the migration back.
Record(p) ==
    /\ pc[p] = "record"
    /\ IF open[p] \cap applied = {}
       THEN /\ schema' = schema \cup open[p] /\ applied' = applied \cup open[p]
            /\ todo' = [todo EXCEPT ![p] = @ \ open[p]]
            /\ Goto(p, "migrate")
       ELSE UNCHANGED <<schema, applied, todo>> /\ Goto(p, "unlock")
    /\ open' = [open EXCEPT ![p] = {}]
    /\ UNCHANGED <<lock, orphans, dataVars, crashes, seeds>>

Migrated(p) ==
    /\ pc[p] = "migrate" /\ todo[p] = {}
    /\ Goto(p, "unlock")
    /\ UNCHANGED <<migrateVars, dataVars, crashes, seeds>>

\* Mutant: the connection goes back to the pool with the lock.
UnlockNever(p) ==
    /\ pc[p] = "unlock"
    /\ IF todo[p] # {}
       THEN Die(p)
       ELSE /\ Goto(p, IF p \in Seeder THEN "upsert moves" ELSE "moves")
            /\ UNCHANGED <<orphans, todo, read, dex>>
    /\ UNCHANGED <<lock, open, schema, applied, tables, buffer, crashes, seeds>>

\* The deferred pg_advisory_unlock runs on every way out of migrate.
Unlock(p) ==
    /\ pc[p] = "unlock"
    /\ lock' = IF lock = p THEN NoOne ELSE lock
    /\ IF todo[p] # {}
       THEN Die(p)
       ELSE /\ Goto(p, IF p \in Seeder THEN "upsert moves" ELSE "moves")
            /\ UNCHANGED <<orphans, todo, read, dex>>
    /\ UNCHANGED <<open, schema, applied, tables, buffer, crashes, seeds>>

-----------------------------------------------------------------------------
(* seed: one transaction                                                   *)

\* The rows of a seeding transaction stay locked until it ends, so the first
\* move two releases share makes the second job wait for the first.
RowsLocked(p) ==
    \E q \in Process \ {p} :
       /\ buffer[q] # Empty
       /\ Embedded[ReleaseOf[p]].moves \cap Embedded[ReleaseOf[q]].moves # {}

UpsertMoves(p) ==
    /\ pc[p] = "upsert moves" /\ ~RowsLocked(p)
    /\ buffer' = [buffer EXCEPT ![p] =
          [tables EXCEPT !.moves = @ \cup Embedded[ReleaseOf[p]].moves]]
    /\ Goto(p, "upsert pokemon")
    /\ UNCHANGED <<migrateVars, tables, read, dex, crashes, seeds>>

\* Mutant: the links a Pokemon had are not cleared.
UpsertPokemonKeeping(p) ==
    /\ pc[p] = "upsert pokemon"
    /\ LET mons == MonsOf(ReleaseOf[p])
           old  == buffer[p].links
       IN  buffer' = [buffer EXCEPT ![p].links =
              [m \in DOMAIN old \cup mons |-> IF m \in DOMAIN old THEN old[m] ELSE {}]]
    /\ Goto(p, "link")
    /\ UNCHANGED <<migrateVars, tables, read, dex, crashes, seeds>>

\* UpsertPokemon and DeletePokemonMovesFor, Pokemon by Pokemon.
UpsertPokemon(p) ==
    /\ pc[p] = "upsert pokemon"
    /\ LET mons == MonsOf(ReleaseOf[p])
           old  == buffer[p].links
       IN  buffer' = [buffer EXCEPT ![p].links =
              [m \in DOMAIN old \cup mons |-> IF m \in mons THEN {} ELSE old[m]]]
    /\ Goto(p, "link")
    /\ UNCHANGED <<migrateVars, tables, read, dex, crashes, seeds>>

\* UpsertPokemonMoves: every link of the file in one statement.
LinkMoves(p) ==
    /\ pc[p] = "link"
    /\ LET new == Embedded[ReleaseOf[p]].links
       IN  buffer' = [buffer EXCEPT ![p].links =
              [m \in DOMAIN @ |-> @[m] \cup (IF m \in DOMAIN new THEN new[m] ELSE {})]]
    /\ Goto(p, "commit")
    /\ UNCHANGED <<migrateVars, tables, read, dex, crashes, seeds>>

\* The job is done: it closes its pool and exits.
CommitSeed(p) ==
    /\ pc[p] = "commit"
    /\ tables' = buffer[p]
    /\ buffer' = [buffer EXCEPT ![p] = Empty]
    /\ Goto(p, "down")
    /\ UNCHANGED <<migrateVars, read, dex, crashes, seeds>>

-----------------------------------------------------------------------------
(* loadPokedexFromDB: three statements, each of its own moment             *)

Exit(p) == Die(p) /\ UNCHANGED <<lock, open, schema, applied, tables, buffer>>

LoadMoves(p) ==
    /\ pc[p] = "moves"
    /\ \/ tables.moves = {} /\ Exit(p)
       \/ /\ tables.moves # {}
          /\ read' = [read EXCEPT ![p].moves = tables.moves]
          /\ Goto(p, "pokemon")
          /\ UNCHANGED <<migrateVars, tables, buffer, dex>>
    /\ UNCHANGED <<crashes, seeds>>

LoadPokemon(p) ==
    /\ pc[p] = "pokemon"
    /\ \/ DOMAIN tables.links = {} /\ Exit(p)
       \/ /\ DOMAIN tables.links # {}
          /\ read' = [read EXCEPT ![p].mons = DOMAIN tables.links]
          /\ Goto(p, "links")
          /\ UNCHANGED <<migrateVars, tables, buffer, dex>>
    /\ UNCHANGED <<crashes, seeds>>

\* What is served of the links that were read: learnableFor passes over a move
\* outside the catalogue, and says nothing of it.
Served(p) ==
    [moves |-> read[p].moves,
     links |-> [m \in read[p].mons |-> InCatalogue(tables.links[m], read[p].moves)]]

\* The links, and buildPokedex: a Pokemon that fights with a move outside the
\* catalogue that was read is an error, and the process exits.
LoadLinks(p) ==
    /\ pc[p] = "links"
    /\ LET fits == \A m \in read[p].mons :
                      Battle(tables.links[m]) \subseteq Served(p).links[m]
       IN  \/ ~fits /\ Exit(p)
           \/ /\ fits
              /\ dex' = [dex EXCEPT ![p] = Served(p)]
              /\ read' = [read EXCEPT ![p] = Unread]
              /\ Goto(p, "serving")
              /\ UNCHANGED <<migrateVars, tables, buffer>>
    /\ UNCHANGED <<crashes, seeds>>

-----------------------------------------------------------------------------
Migrate(p) ==
    TakeLock(p) \/ ReadApplied(p) \/ RunSql(p) \/ Record(p) \/ Migrated(p) \/ Unlock(p)
Seed(p) == UpsertMoves(p) \/ UpsertPokemon(p) \/ LinkMoves(p) \/ CommitSeed(p)
Load(p) == LoadMoves(p) \/ LoadPokemon(p) \/ LoadLinks(p)

Next == \E p \in Process :
    \/ Start(p) \/ Crash(p) \/ EndSession(p) \/ Migrate(p)
    \/ p \in Seeder /\ Seed(p)
    \/ p \in Replica /\ (Load(p) \/ Stop(p))

\* The platform restarts a replica, a process that runs keeps running, and
\* the database ends the session of a dead client.  Nobody has to run a seed.
Fairness == \A p \in Process :
    /\ WF_vars(EndSession(p))
    /\ WF_vars(Migrate(p))
    /\ p \in Seeder => WF_vars(Seed(p))
    /\ p \in Replica => WF_vars(Start(p)) /\ WF_vars(Load(p))

Spec == Init /\ [][Next]_vars /\ Fairness

-----------------------------------------------------------------------------
TypeOK ==
    /\ pc \in [Process -> Step]
    /\ todo \in [Process -> SUBSET Version] /\ open \in [Process -> SUBSET Version]
    /\ lock \in Process \cup {NoOne} /\ orphans \subseteq Process
    /\ schema \subseteq Version /\ applied \subseteq Version

\* A migration is run once and in order however many replicas start
\* together and wherever they die: the schema holds exactly the migrations
\* recorded, no version is skipped, and a transaction only ever runs one that
\* nobody has committed (migrate_test.go: "a migration ran twice").
MigrationsRunOnce ==
    /\ schema = applied
    /\ \A v \in schema : 1 .. v \subseteq schema
    /\ \A p \in Process : open[p] \cap schema = {}

\* Whatever seeds and crashes happen while it loads, a replica serves for
\* every Pokemon what one release gives it: all the moves it fights with, of
\* those it can learn all that are in the catalogue the replica serves, and
\* never a move of another release beside them.  (A load that a seed cuts in
\* two can have the older catalogue, and then the newer of the moves to learn
\* are missing until the replica starts again.)
MovesetsAreWhole ==
    \A p \in Replica : \A m \in DOMAIN dex[p].links :
       \E r \in Release :
          /\ m \in MonsOf(r)
          /\ Battle(Embedded[r].links[m]) \subseteq dex[p].links[m]
          /\ dex[p].links[m] = InCatalogue(Embedded[r].links[m], dex[p].moves)

\* Once the database has been seeded every replica keeps coming back to
\* service: no dead process holds the lock for ever, and no migration left
\* half done makes the next start fail.
EventuallyServes ==
    \A p \in Replica : (tables # Empty) ~> (pc[p] = "serving")

=============================================================================

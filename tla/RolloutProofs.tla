----------------------------- MODULE RolloutProofs -----------------------------
(***************************************************************************)
(* Proofs about Rollout: for every number of replicas, seed jobs and       *)
(* releases, wherever processes die, each migration is run once and in     *)
(* order, and what a replica serves are whole movesets.                    *)
(***************************************************************************)
EXTENDS Rollout, TLAPS

-----------------------------------------------------------------------------
\* The inductive invariant, in parts.

\* The steps of migrate between the lock and its release.
Locked == {"bootstrap", "migrate", "record", "unlock"}

\* A process has a new session only when its predecessor's has ended.
OneSessionEach == \A p \in orphans : pc[p] = "down"

\* Whoever is inside migrate has the lock.
LockIsHeld == \A p \in Process : pc[p] \in Locked => lock = p

\* What a process still has to run is what the database does not have.
TodoIsLeft ==
    \A p \in Process : pc[p] \in {"migrate", "record"} =>
        todo[p] = (1 .. Migrations[ReleaseOf[p]]) \ applied

\* A transaction with a migration in it belongs to the session that has the
\* lock, dead or alive, and the migration is the first one missing.
IsNext(v) == v \in Version /\ v \notin applied /\ 1 .. (v - 1) \subseteq applied
OpenIsNext ==
    \A p \in Process : open[p] # {} =>
        /\ lock = p
        /\ pc[p] = "record" \/ p \in orphans
        /\ \E v \in Version : open[p] = {v} /\ IsNext(v)

RunOnceInv ==
    TypeOK /\ OneSessionEach /\ LockIsHeld /\ TodoIsLeft /\ OpenIsNext /\ MigrationsRunOnce

-----------------------------------------------------------------------------
LEMMA RolloutStarts == Init => RunOnceInv
<1> SUFFICES ASSUME Init PROVE RunOnceInv
    OBVIOUS
<1> QED
    BY DEF Init, RunOnceInv, TypeOK, OneSessionEach, LockIsHeld, Locked, TodoIsLeft,
           OpenIsNext, MigrationsRunOnce, Step

\* A step that only moves a process, outside migrate, or ends it.
LEMMA OutsideKeeps ==
    ASSUME RunOnceInv, NEW p \in Process,
           pc[p] \notin {"bootstrap", "migrate", "record"},
           pc[p] = "unlock" => lock' = NoOne /\ open[p] = {},
           pc[p] # "unlock" => lock' = lock,
           UNCHANGED <<open, schema, applied>>,
           NEW step \in Step \ Locked, pc' = [pc EXCEPT ![p] = step],
           \/ UNCHANGED <<orphans, todo>> /\ p \notin orphans
           \/ step = "down" /\ orphans' = orphans \cup {p} /\ todo' = [todo EXCEPT ![p] = {}]
    PROVE  RunOnceInv'
<1> USE DEF RunOnceInv
<1>1. TypeOK'
    BY DEF TypeOK
<1>2. OneSessionEach'
    BY DEF TypeOK, OneSessionEach
<1>3. \A q \in Process \ {p} : pc[q] \in Locked => pc[p] # "unlock"
    BY RolloutAssumption DEF LockIsHeld, Locked
<1>4. LockIsHeld'
    BY <1>3 DEF TypeOK, LockIsHeld, Locked
<1>5. TodoIsLeft'
    BY DEF TypeOK, TodoIsLeft, Locked
<1>6. OpenIsNext'
  <2> SUFFICES ASSUME NEW q \in Process, open[q] # {}
               PROVE  /\ lock' = q
                      /\ pc'[q] = "record" \/ q \in orphans'
                      /\ \E v \in Version : open[q] = {v} /\ IsNext(v)'
      BY DEF OpenIsNext
  <2>1. /\ lock = q
        /\ pc[q] = "record" \/ q \in orphans
        /\ \E v \in Version : open[q] = {v} /\ IsNext(v)
      BY DEF OpenIsNext
  <2>2. pc[p] # "unlock"
      BY <2>1 DEF OpenIsNext, LockIsHeld, Locked
  <2>3. lock' = q
      BY <2>2, <2>1 DEF OpenIsNext
  <2>4. pc'[q] = "record" \/ q \in orphans'
      BY <2>1 DEF TypeOK
  <2>5. \A v : IsNext(v) => IsNext(v)'
      BY DEF IsNext
  <2> QED
      BY <2>1, <2>3, <2>4, <2>5
<1>7. MigrationsRunOnce'
    BY DEF MigrationsRunOnce
<1> QED
    BY <1>1, <1>2, <1>4, <1>5, <1>6, <1>7

\* Outside migrate's transaction nothing is open, under a lock of one's own.
LEMMA NothingOpen ==
    ASSUME RunOnceInv, NEW p \in Process, lock = p \/ lock = NoOne,
           pc[p] # "record", p \notin orphans
    PROVE  \A q \in Process : open[q] = {}
BY RolloutAssumption DEF RunOnceInv, OpenIsNext

\* Committing the first migration missing keeps the schema without gaps.
LEMMA CommitAppends ==
    ASSUME RunOnceInv, NEW p \in Process, pc[p] = "record",
           schema' = schema \cup open[p], applied' = applied \cup open[p],
           open' = [open EXCEPT ![p] = {}]
    PROVE  /\ MigrationsRunOnce' /\ schema' \subseteq Version /\ applied' \subseteq Version
           /\ open' = [q \in Process |-> {}]
<1> USE DEF RunOnceInv
<1>1. lock = p
    BY DEF LockIsHeld, Locked
<1>2. \A q \in Process \ {p} : open[q] = {}
    BY <1>1 DEF OpenIsNext
<1>3. open' = [q \in Process |-> {}]
    BY <1>2 DEF TypeOK
<1>4. CASE open[p] = {}
    BY <1>3, <1>4 DEF TypeOK, MigrationsRunOnce
<1>5. CASE open[p] # {}
  <2>1. PICK v \in Version : open[p] = {v} /\ IsNext(v)
      BY <1>5 DEF OpenIsNext
  <2>2. \A w \in schema' : 1 .. w \subseteq schema'
    <3> SUFFICES ASSUME NEW w \in schema', NEW i \in 1 .. w
                 PROVE  i \in schema'
        OBVIOUS
    <3>1. CASE w \in schema
        BY <3>1 DEF MigrationsRunOnce
    <3>2. CASE w = v
        BY <3>2, <2>1 DEF IsNext, MigrationsRunOnce, Version
    <3> QED
        BY <2>1, <3>1, <3>2
  <2> QED
      BY <1>3, <2>1, <2>2 DEF TypeOK, MigrationsRunOnce
<1> QED
    BY <1>3, <1>4, <1>5

\* A process that dies takes no migration with it: its transaction is
\* committed whole, or stays open under the lock its session still has.
LEMMA CrashKeeps ==
    ASSUME RunOnceInv, NEW p \in Process, Crash(p)
    PROVE  RunOnceInv'
<1> USE DEF RunOnceInv
<1>1. /\ pc' = [pc EXCEPT ![p] = "down"] /\ orphans' = orphans \cup {p}
      /\ todo' = [todo EXCEPT ![p] = {}] /\ lock' = lock
    BY DEF Crash, Die, Goto
<1>2. TypeOK /\ "down" \in Step
    BY DEF Step
<1>3. OneSessionEach'
    BY <1>1, <1>2 DEF TypeOK, OneSessionEach
<1>4. LockIsHeld'
    BY <1>1 DEF TypeOK, LockIsHeld, Locked
<1>5. CASE UNCHANGED <<schema, applied, open>>
  <2>1. TypeOK'
      BY <1>1, <1>2, <1>5 DEF TypeOK
  <2>2. TodoIsLeft'
      BY <1>1, <1>5 DEF TypeOK, TodoIsLeft
  <2>3. \A v : IsNext(v) => IsNext(v)'
      BY <1>5 DEF IsNext
  <2>4. OpenIsNext'
      BY <1>1, <1>5, <2>3 DEF TypeOK, OpenIsNext
  <2>5. MigrationsRunOnce'
      BY <1>5 DEF MigrationsRunOnce
  <2> QED
      BY <1>3, <1>4, <2>1, <2>2, <2>4, <2>5
<1>6. CASE /\ pc[p] = "record"
           /\ schema' = schema \cup open[p] /\ applied' = applied \cup open[p]
           /\ open' = [open EXCEPT ![p] = {}]
  <2>1. /\ MigrationsRunOnce' /\ schema' \subseteq Version /\ applied' \subseteq Version
        /\ open' = [q \in Process |-> {}]
      BY <1>6, CommitAppends
  <2>2. TypeOK'
      BY <1>1, <1>2, <2>1 DEF TypeOK
  <2>3. TodoIsLeft'
    <3>1. \A q \in Process : pc'[q] \notin {"migrate", "record"}
        BY <1>1, <1>6 DEF TypeOK, LockIsHeld, Locked
    <3> QED
        BY <3>1 DEF TodoIsLeft
  <2>4. OpenIsNext'
      BY <2>1 DEF OpenIsNext
  <2> QED
      BY <1>3, <1>4, <2>1, <2>2, <2>3, <2>4
<1> QED
    BY <1>5, <1>6 DEF Crash

\* The session that ends takes its own lock and transaction, and no other's.
LEMMA EndSessionKeeps ==
    ASSUME RunOnceInv, NEW p \in Process, EndSession(p)
    PROVE  RunOnceInv'
<1> USE DEF RunOnceInv, EndSession
<1>1. pc[p] = "down"
    BY DEF OneSessionEach
<1>2. TypeOK'
    BY DEF TypeOK
<1>3. OneSessionEach'
    BY DEF OneSessionEach
<1>4. LockIsHeld'
    BY <1>1 DEF LockIsHeld, Locked
<1>5. TodoIsLeft'
    BY DEF TodoIsLeft
<1>6. OpenIsNext'
  <2>1. \A v : IsNext(v) => IsNext(v)'
      BY DEF IsNext
  <2>2. \A q \in Process \ {p} : open[q] # {} => lock # p
      BY DEF OpenIsNext
  <2> QED
      BY <2>1, <2>2 DEF TypeOK, OpenIsNext
<1>7. MigrationsRunOnce'
    BY DEF TypeOK, MigrationsRunOnce
<1> QED
    BY <1>2, <1>3, <1>4, <1>5, <1>6, <1>7

-----------------------------------------------------------------------------
\* The steps of migrate.

LEMMA TakeLockKeeps ==
    ASSUME RunOnceInv, NEW p \in Process, TakeLock(p) \/ ReadApplied(p)
    PROVE  RunOnceInv'
<1> USE DEF RunOnceInv
<1>1. /\ p \notin orphans
      /\ lock = p \/ lock = NoOne
      /\ UNCHANGED <<open, orphans, schema, applied>> /\ lock' = p
    BY DEF TakeLock, ReadApplied, OneSessionEach, LockIsHeld, Locked
<1>2. \A q \in Process : open[q] = {}
    BY <1>1, NothingOpen DEF TakeLock, ReadApplied
<1>3. \A q \in Process \ {p} : pc[q] \notin Locked
    BY <1>1, RolloutAssumption DEF LockIsHeld
<1>4. TypeOK'
  <2>1. Migrations[ReleaseOf[p]] \in Version
      BY RolloutAssumption
  <2>2. \A n \in Version : 1 .. n \subseteq Version
      BY DEF Version
  <2>3. (1 .. Migrations[ReleaseOf[p]]) \ applied \in SUBSET Version
      BY <2>1, <2>2
  <2> QED
      BY <1>1, <2>3 DEF TakeLock, ReadApplied, Goto, TypeOK, Step
<1>5. OneSessionEach'
    BY <1>1 DEF TakeLock, ReadApplied, Goto, OneSessionEach, TypeOK
<1>6. LockIsHeld'
    BY <1>1, <1>3 DEF TakeLock, ReadApplied, Goto, LockIsHeld, Locked, TypeOK
<1>7. TodoIsLeft'
    BY <1>1, <1>3 DEF TakeLock, ReadApplied, Goto, TodoIsLeft, Locked, TypeOK
<1>8. OpenIsNext' /\ MigrationsRunOnce'
    BY <1>1, <1>2 DEF OpenIsNext, MigrationsRunOnce
<1> QED
    BY <1>4, <1>5, <1>6, <1>7, <1>8

LEMMA RunSqlKeeps ==
    ASSUME RunOnceInv, NEW p \in Process, RunSql(p)
    PROVE  RunOnceInv'
<1> USE DEF RunOnceInv
<1>1. /\ pc[p] = "migrate" /\ lock = p /\ p \notin orphans
      /\ UNCHANGED <<todo, lock, orphans, schema, applied>>
    BY DEF RunSql, LockIsHeld, OneSessionEach, Locked
<1>2. \A q \in Process : open[q] = {}
    BY <1>1, NothingOpen
<1>3. PICK v \in todo[p] :
          /\ \A w \in todo[p] : v <= w
          /\ IF v \in schema
             THEN Goto(p, "unlock") /\ UNCHANGED open
             ELSE Goto(p, "record") /\ open' = [open EXCEPT ![p] = {v}]
    BY DEF RunSql
<1>4. v \in Version /\ todo[p] \subseteq Version
    BY <1>3 DEF TypeOK
<1>5. v \notin schema => IsNext(v)
  <2> SUFFICES ASSUME v \notin schema, NEW w \in 1 .. (v - 1), w \notin applied
               PROVE  FALSE
      BY <1>4 DEF IsNext, MigrationsRunOnce
  <2>1. todo[p] = (1 .. Migrations[ReleaseOf[p]]) \ applied
      BY <1>1 DEF TodoIsLeft
  <2>2. Migrations[ReleaseOf[p]] \in Nat /\ v \in 1 .. Migrations[ReleaseOf[p]]
      BY <2>1, <1>3, RolloutAssumption DEF Version
  <2>3. w \in todo[p] /\ ~(v <= w)
      BY <2>1, <2>2
  <2> QED
      BY <2>3, <1>3
<1>6. TypeOK'
  <2>1. \/ pc' = [pc EXCEPT ![p] = "unlock"] /\ open' = open
        \/ pc' = [pc EXCEPT ![p] = "record"] /\ open' = [open EXCEPT ![p] = {v}]
      BY <1>3 DEF Goto
  <2>2. pc' \in [Process -> Step]
      BY <2>1 DEF TypeOK, Step
  <2>3. open' \in [Process -> SUBSET Version]
      BY <2>1, <1>4 DEF TypeOK
  <2> QED
      BY <2>2, <2>3, <1>1 DEF TypeOK
<1>7. OneSessionEach'
    BY <1>1, <1>3 DEF OneSessionEach, Goto, TypeOK
<1>8. LockIsHeld'
    BY <1>1, <1>3 DEF LockIsHeld, Goto, TypeOK
<1>9. TodoIsLeft'
    BY <1>1, <1>3 DEF TodoIsLeft, Goto, TypeOK
<1>10. OpenIsNext'
  <2>1. CASE v \in schema
      BY <2>1, <1>2, <1>3 DEF OpenIsNext
  <2>2. CASE v \notin schema
    <3>1. IsNext(v)'
        BY <2>2, <1>1, <1>5 DEF IsNext
    <3>2. /\ open'[p] = {v} /\ pc'[p] = "record" /\ lock' = p
          /\ \A q \in Process \ {p} : open'[q] = {}
        BY <2>2, <1>1, <1>2, <1>3 DEF TypeOK, Goto
    <3> QED
        BY <3>1, <3>2, <1>4 DEF OpenIsNext
  <2> QED
      BY <2>1, <2>2
<1>11. MigrationsRunOnce'
    BY <1>1, <1>2, <1>3 DEF MigrationsRunOnce, TypeOK
<1> QED
    BY <1>6, <1>7, <1>8, <1>9, <1>10, <1>11

LEMMA RecordKeeps ==
    ASSUME RunOnceInv, NEW p \in Process, Record(p)
    PROVE  RunOnceInv'
<1> USE DEF RunOnceInv
<1>1. /\ pc[p] = "record" /\ lock = p /\ p \notin orphans
      /\ UNCHANGED <<lock, orphans>> /\ open' = [open EXCEPT ![p] = {}]
    BY DEF Record, LockIsHeld, OneSessionEach, Locked
<1>2. open[p] \cap applied = {}
    BY DEF MigrationsRunOnce
<1>3. /\ schema' = schema \cup open[p] /\ applied' = applied \cup open[p]
      /\ todo' = [todo EXCEPT ![p] = @ \ open[p]]
      /\ pc' = [pc EXCEPT ![p] = "migrate"]
    BY <1>2 DEF Record, Goto
<1>4. /\ MigrationsRunOnce' /\ schema' \subseteq Version /\ applied' \subseteq Version
      /\ open' = [q \in Process |-> {}]
    BY <1>1, <1>3, CommitAppends
<1>5. TypeOK'
    BY <1>1, <1>3, <1>4 DEF TypeOK, Step
<1>6. OneSessionEach'
    BY <1>1, <1>3 DEF OneSessionEach, TypeOK
<1>7. LockIsHeld'
    BY <1>1, <1>3 DEF LockIsHeld, TypeOK
<1>8. TodoIsLeft'
  <2>1. \A q \in Process \ {p} : pc[q] \notin Locked
      BY <1>1 DEF LockIsHeld
  <2>2. todo[p] = (1 .. Migrations[ReleaseOf[p]]) \ applied
      BY <1>1 DEF TodoIsLeft
  <2> QED
      BY <2>1, <2>2, <1>3 DEF TodoIsLeft, TypeOK, Locked
<1>9. OpenIsNext'
    BY <1>4 DEF OpenIsNext
<1> QED
    BY <1>4, <1>5, <1>6, <1>7, <1>8, <1>9

LEMMA MigratedKeeps ==
    ASSUME RunOnceInv, NEW p \in Process, Migrated(p)
    PROVE  RunOnceInv'
<1> USE DEF RunOnceInv
<1>1. /\ pc[p] = "migrate" /\ lock = p /\ p \notin orphans
      /\ UNCHANGED <<todo, open, lock, orphans, schema, applied>>
      /\ pc' = [pc EXCEPT ![p] = "unlock"]
    BY DEF Migrated, migrateVars, Goto, LockIsHeld, OneSessionEach, Locked
<1>2. \A q \in Process : open[q] = {}
    BY <1>1, NothingOpen
<1>3. TypeOK'
    BY <1>1 DEF TypeOK, Step
<1>4. OneSessionEach' /\ LockIsHeld' /\ TodoIsLeft'
    BY <1>1 DEF OneSessionEach, LockIsHeld, TodoIsLeft, Locked, TypeOK
<1>5. OpenIsNext' /\ MigrationsRunOnce'
    BY <1>1, <1>2 DEF OpenIsNext, MigrationsRunOnce
<1> QED
    BY <1>3, <1>4, <1>5

LEMMA UnlockKeeps ==
    ASSUME RunOnceInv, NEW p \in Process, Unlock(p)
    PROVE  RunOnceInv'
<1>1. /\ pc[p] = "unlock" /\ lock = p /\ p \notin orphans
      /\ lock' = NoOne /\ UNCHANGED <<open, schema, applied>>
    BY DEF Unlock, RunOnceInv, LockIsHeld, OneSessionEach, Locked
<1>2. open[p] = {}
    BY <1>1, NothingOpen
<1>3. CASE todo[p] # {}
    BY <1>1, <1>2, <1>3, OutsideKeeps DEF Unlock, Die, Goto, Step, Locked
<1>4. CASE todo[p] = {}
    BY <1>1, <1>2, <1>4, OutsideKeeps DEF Unlock, Goto, Step, Locked
<1> QED
    BY <1>3, <1>4

-----------------------------------------------------------------------------
\* The steps outside migrate.

LEMMA ElsewhereKeeps ==
    ASSUME RunOnceInv, NEW p \in Process,
           Start(p) \/ Stop(p) \/ Seed(p) \/ Load(p)
    PROVE  RunOnceInv'
<1>1. p \in orphans => pc[p] = "down"
    BY DEF RunOnceInv, OneSessionEach
<1>2. CASE Start(p)
    BY <1>2, OutsideKeeps DEF Start, Goto, migrateVars, Step, Locked
<1>3. CASE Stop(p)
    BY <1>3, OutsideKeeps DEF Stop, Die, Goto, Step, Locked
<1>4. CASE Seed(p)
  <2>1. CASE UpsertMoves(p)
      BY <2>1, <1>1, OutsideKeeps DEF UpsertMoves, Goto, migrateVars, Step, Locked
  <2>2. CASE UpsertPokemon(p)
      BY <2>2, <1>1, OutsideKeeps DEF UpsertPokemon, Goto, migrateVars, Step, Locked
  <2>3. CASE LinkMoves(p)
      BY <2>3, <1>1, OutsideKeeps DEF LinkMoves, Goto, migrateVars, Step, Locked
  <2>4. CASE CommitSeed(p)
      BY <2>4, <1>1, OutsideKeeps DEF CommitSeed, Goto, migrateVars, Step, Locked
  <2> QED
      BY <1>4, <2>1, <2>2, <2>3, <2>4 DEF Seed
<1>5. CASE Load(p)
  <2>1. CASE LoadMoves(p)
      BY <2>1, <1>1, OutsideKeeps
         DEF LoadMoves, Exit, Die, Goto, migrateVars, Step, Locked
  <2>2. CASE LoadPokemon(p)
      BY <2>2, <1>1, OutsideKeeps
         DEF LoadPokemon, Exit, Die, Goto, migrateVars, Step, Locked
  <2>3. CASE LoadLinks(p)
    <3>1. /\ pc[p] = "links" /\ UNCHANGED <<lock, open, schema, applied>>
          /\ \/ pc' = [pc EXCEPT ![p] = "serving"] /\ UNCHANGED <<orphans, todo>>
             \/ /\ pc' = [pc EXCEPT ![p] = "down"] /\ orphans' = orphans \cup {p}
                /\ todo' = [todo EXCEPT ![p] = {}]
        BY <2>3 DEF LoadLinks, Exit, Die, Goto, migrateVars
    <3> QED
        BY <3>1, <1>1, OutsideKeeps DEF Step, Locked
  <2> QED
      BY <1>5, <2>1, <2>2, <2>3 DEF Load
<1> QED
    BY <1>2, <1>3, <1>4, <1>5

\* The invariant is inductive.
LEMMA RolloutStep == RunOnceInv /\ [Next]_vars => RunOnceInv'
<1> SUFFICES ASSUME RunOnceInv, [Next]_vars PROVE RunOnceInv'
    OBVIOUS
<1>1. CASE UNCHANGED vars
  <2>1. \A v : IsNext(v)' <=> IsNext(v)
      BY <1>1 DEF vars, IsNext
  <2> QED
      BY <1>1, <2>1 DEF vars, RunOnceInv, TypeOK, OneSessionEach, LockIsHeld, TodoIsLeft,
                        OpenIsNext, MigrationsRunOnce
<1>2. CASE Next
    BY <1>2, CrashKeeps, EndSessionKeeps, TakeLockKeeps, RunSqlKeeps, RecordKeeps,
       MigratedKeeps, UnlockKeeps, ElsewhereKeeps DEF Next, Migrate
<1> QED
    BY <1>1, <1>2

\* The steps, the lock, the sessions and the migrations keep their types.
THEOREM RolloutTypes == Spec => []TypeOK
<1>1. RunOnceInv => TypeOK
    BY DEF RunOnceInv
<1> QED
    BY <1>1, RolloutStarts, RolloutStep, PTL DEF Spec

\* However many replicas and jobs start together, and wherever they die, the
\* schema holds the migrations recorded, without a gap, and nobody runs one
\* that is committed (migrate).
THEOREM EachRunsOnce == Spec => []MigrationsRunOnce
<1>1. RunOnceInv => MigrationsRunOnce
    BY DEF RunOnceInv
<1> QED
    BY <1>1, RolloutStarts, RolloutStep, PTL DEF Spec

-----------------------------------------------------------------------------
(* What is seeded and what is served.                                      *)

\* The steps at which a seeding transaction has written and not committed.
Seeding == {"upsert pokemon", "link", "commit"}

\* The moves ms are those some release gives the Pokemon m.
FromARelease(m, ms) == \E r \in Release : m \in MonsOf(r) /\ ms = Embedded[r].links[m]
Whole(links) == \A m \in DOMAIN links : FromARelease(m, links[m])

\* Tables and readings are records, one for every process.
IsTables(t) == t = [moves |-> t.moves, links |-> t.links]
IsReading(t) == t = [moves |-> t.moves, mons |-> t.mons]
DataTypes ==
    /\ IsTables(tables)
    /\ DOMAIN buffer = Process /\ buffer = [p \in Process |-> buffer[p]]
    /\ \A p \in Process : IsTables(buffer[p])
    /\ DOMAIN read = Process /\ read = [p \in Process |-> read[p]]
    /\ \A p \in Process : IsReading(read[p])
    /\ DOMAIN dex = Replica /\ dex = [p \in Replica |-> dex[p]]

\* The row locks let one transaction seed at a time.
OneSeeds == \A p, q \in Process : pc[p] \in Seeding /\ pc[q] \in Seeding => p = q

\* The transaction lists all the tables list; between its DELETE and its
\* links the Pokemon of its own release have no moves.
BufferGrows ==
    \A p \in Process : pc[p] \in Seeding =>
        /\ buffer[p].moves # {}
        /\ DOMAIN tables.links \subseteq DOMAIN buffer[p].links
        /\ \A m \in DOMAIN buffer[p].links :
              IF pc[p] = "link" /\ m \in MonsOf(ReleaseOf[p])
              THEN buffer[p].links[m] = {}
              ELSE FromARelease(m, buffer[p].links[m])

\* What a replica has read of the list is still in the tables.
ReadIsListed ==
    \A p \in Process : pc[p] = "links" => read[p].mons \subseteq DOMAIN tables.links

\* What a replica serves: of one release every move to fight with, and of
\* those to learn the ones in its catalogue.
ServedWhole(d) ==
    \A m \in DOMAIN d.links : \E r \in Release :
       /\ m \in MonsOf(r)
       /\ Battle(Embedded[r].links[m]) \subseteq d.links[m]
       /\ d.links[m] = InCatalogue(Embedded[r].links[m], d.moves)

WholeInv ==
    /\ DataTypes /\ Whole(tables.links) /\ OneSeeds /\ BufferGrows /\ ReadIsListed
    /\ \A p \in Replica : ServedWhole(dex[p])

\* Updating one field leaves tables of the other.
LEMMA Updating ==
    ASSUME NEW t, IsTables(t), NEW x
    PROVE  /\ [t EXCEPT !.moves = x] = [moves |-> x, links |-> t.links]
           /\ [t EXCEPT !.links = x] = [moves |-> t.moves, links |-> x]
           /\ IsTables([moves |-> x, links |-> t.links])
           /\ IsTables([moves |-> t.moves, links |-> x])
<1>1. ASSUME NEW a, NEW b
      PROVE  /\ [[moves |-> a, links |-> b] EXCEPT !.moves = x] = [moves |-> x, links |-> b]
             /\ [[moves |-> a, links |-> b] EXCEPT !.links = x] = [moves |-> a, links |-> x]
    OBVIOUS
<1>2. t = [moves |-> t.moves, links |-> t.links]
    BY DEF IsTables
<1>3. /\ [t EXCEPT !.moves = x] = [moves |-> x, links |-> t.links]
      /\ [t EXCEPT !.links = x] = [moves |-> t.moves, links |-> x]
    BY <1>1, <1>2
<1> QED
    BY <1>3 DEF IsTables

LEMMA WholeStarts == Init => WholeInv
<1> SUFFICES ASSUME Init PROVE WholeInv
    OBVIOUS
<1>1. DOMAIN << >> = {}
    OBVIOUS
<1>2. DataTypes
    BY DEF Init, DataTypes, IsTables, IsReading, Empty, Unread
<1>3. Whole(tables.links) /\ \A p \in Replica : ServedWhole(dex[p])
    BY <1>1 DEF Init, Whole, ServedWhole, Empty
<1>4. OneSeeds /\ BufferGrows /\ ReadIsListed
    BY DEF Init, OneSeeds, BufferGrows, ReadIsListed, Seeding
<1> QED
    BY <1>2, <1>3, <1>4 DEF WholeInv

\* A process moves or dies without a write.
Forgets(p) ==
    /\ \/ read' = read
       \/ read' = [read EXCEPT ![p] = Unread]
    /\ \/ dex' = dex
       \/ dex' = [q \in Replica |-> IF q = p THEN Empty ELSE dex[q]]

LEMMA ForgettingKeeps ==
    ASSUME WholeInv, NEW p \in Process, Forgets(p)
    PROVE  /\ DOMAIN read' = Process /\ read' = [q \in Process |-> read'[q]]
           /\ \A q \in Process : IsReading(read'[q])
           /\ \A q \in Process \ {p} : read'[q] = read[q]
           /\ DOMAIN dex' = Replica /\ dex' = [q \in Replica |-> dex'[q]]
           /\ \A q \in Replica : ServedWhole(dex'[q])
<1>1. DOMAIN << >> = {}
    OBVIOUS
<1>2. IsReading(Unread)
    BY DEF IsReading, Unread
<1>3. /\ DOMAIN read' = Process /\ read' = [q \in Process |-> read'[q]]
      /\ \A q \in Process \ {p} : read'[q] = read[q]
      /\ read'[p] = read[p] \/ read'[p] = Unread
    BY DEF Forgets, WholeInv, DataTypes
<1>4. /\ DOMAIN dex' = Replica /\ dex' = [q \in Replica |-> dex'[q]]
      /\ \A q \in Replica : dex'[q] = dex[q] \/ dex'[q] = Empty
    BY DEF Forgets, WholeInv, DataTypes
<1>5. ServedWhole(Empty)
    BY <1>1 DEF ServedWhole, Empty
<1> QED
    BY <1>2, <1>3, <1>4, <1>5 DEF WholeInv, DataTypes

LEMMA MovingKeeps ==
    ASSUME RunOnceInv, WholeInv, NEW p \in Process, Forgets(p),
           NEW step \in Step \ (Seeding \cup {"links"}),
           pc' = [pc EXCEPT ![p] = step],
           UNCHANGED <<tables, buffer>>
    PROVE  WholeInv'
<1> USE ForgettingKeeps
<1>1. DataTypes'
    BY DEF WholeInv, DataTypes, IsTables
<1>2. \A q \in Process : pc'[q] \in Seeding \cup {"links"} => q # p /\ pc'[q] = pc[q]
    BY DEF RunOnceInv, TypeOK
<1>3. OneSeeds'
    BY <1>2 DEF WholeInv, OneSeeds
<1>4. BufferGrows'
    BY <1>2 DEF WholeInv, BufferGrows
<1>5. ReadIsListed'
    BY <1>2 DEF WholeInv, ReadIsListed
<1> QED
    BY <1>1, <1>3, <1>4, <1>5 DEF WholeInv

\* COMMIT puts whole movesets in the tables, and takes no Pokemon out.
LEMMA CommittingKeeps ==
    ASSUME RunOnceInv, WholeInv, NEW p \in Process, Forgets(p),
           pc[p] = "commit", pc' = [pc EXCEPT ![p] = "down"],
           tables' = buffer[p], buffer' = [buffer EXCEPT ![p] = Empty]
    PROVE  WholeInv'
<1> USE ForgettingKeeps
<1>1. IsTables(Empty)
    BY DEF IsTables, Empty
<1>2. DataTypes'
    BY <1>1 DEF WholeInv, DataTypes, IsTables
<1>3. \A q \in Process : q # p => pc'[q] = pc[q]
    BY DEF RunOnceInv, TypeOK
<1>4. \A q \in Process : pc'[q] \notin Seeding
    BY <1>3 DEF WholeInv, OneSeeds, Seeding, RunOnceInv, TypeOK
<1>5. OneSeeds' /\ BufferGrows'
    BY <1>4 DEF OneSeeds, BufferGrows
<1>6. /\ DOMAIN tables.links \subseteq DOMAIN tables'.links
      /\ Whole(tables'.links)
    BY DEF WholeInv, BufferGrows, Seeding, Whole
<1>7. ReadIsListed'
    BY <1>3, <1>6 DEF WholeInv, ReadIsListed, RunOnceInv, TypeOK
<1> QED
    BY <1>2, <1>5, <1>6, <1>7 DEF WholeInv

\* A write of the transaction, which is the only one.
LEMMA WritingKeeps ==
    ASSUME RunOnceInv, WholeInv, NEW p \in Process, NEW step \in Seeding, NEW new,
           pc' = [pc EXCEPT ![p] = step],
           \A q \in Process \ {p} : pc[q] \notin Seeding,
           buffer' = [buffer EXCEPT ![p] = new], UNCHANGED <<tables, read, dex>>,
           IsTables(new), new.moves # {},
           DOMAIN tables.links \subseteq DOMAIN new.links,
           \A m \in DOMAIN new.links :
              IF step = "link" /\ m \in MonsOf(ReleaseOf[p])
              THEN new.links[m] = {}
              ELSE FromARelease(m, new.links[m])
    PROVE  WholeInv'
<1>1. \A q \in Process : IF q = p THEN pc'[q] = step ELSE pc'[q] = pc[q]
    BY DEF RunOnceInv, TypeOK
<1>2. \A q \in Process : IF q = p THEN buffer'[q] = new ELSE buffer'[q] = buffer[q]
    BY DEF WholeInv, DataTypes
<1>3. DataTypes'
    BY <1>2 DEF WholeInv, DataTypes
<1>4. OneSeeds'
    BY <1>1 DEF OneSeeds
<1>5. BufferGrows'
    BY <1>1, <1>2 DEF BufferGrows
<1>6. ReadIsListed'
    BY <1>1 DEF WholeInv, ReadIsListed, Seeding
<1> QED
    BY <1>3, <1>4, <1>5, <1>6 DEF WholeInv

\* Each statement of seed (UpsertMove, UpsertPokemon with its DELETE, the links).
LEMMA SeedKeepsWhole ==
    ASSUME RunOnceInv, WholeInv, NEW p \in Process, Seed(p)
    PROVE  WholeInv'
<1>1. CASE UpsertMoves(p)
  <2> DEFINE new == [tables EXCEPT !.moves = @ \cup Embedded[ReleaseOf[p]].moves]
  <2>1. \A q \in Process \ {p} : pc[q] \notin Seeding
    <3> SUFFICES ASSUME NEW q \in Process \ {p}, pc[q] \in Seeding PROVE FALSE
        OBVIOUS
    <3>1. buffer[q] # Empty
        BY DEF WholeInv, BufferGrows, Empty
    <3>2. ReleaseOf[p] \in Release /\ ReleaseOf[q] \in Release
        BY RolloutAssumption
    <3>3. Embedded[ReleaseOf[p]].moves \cap Embedded[ReleaseOf[q]].moves # {}
        BY <3>2, RolloutAssumption
    <3> QED
        BY <3>1, <3>3, <1>1 DEF UpsertMoves, RowsLocked
  <2>2. /\ new.moves = tables.moves \cup Embedded[ReleaseOf[p]].moves
        /\ new.links = tables.links /\ IsTables(new)
    <3>1. IsTables(tables)
        BY DEF WholeInv, DataTypes
    <3>2. new = [moves |-> tables.moves \cup Embedded[ReleaseOf[p]].moves, links |-> tables.links]
        BY <3>1, Updating
    <3> HIDE DEF new
    <3> QED
        BY <3>2 DEF IsTables
  <2>3. Embedded[ReleaseOf[p]].moves # {}
    <3>1. ReleaseOf[p] \in Release
        BY RolloutAssumption
    <3> QED
        BY <3>1, RolloutAssumption
  <2>4. /\ buffer' = [buffer EXCEPT ![p] = new] /\ UNCHANGED <<tables, read, dex>>
        /\ pc' = [pc EXCEPT ![p] = "upsert pokemon"]
      BY <1>1 DEF UpsertMoves, Goto
  <2>5. \A m \in DOMAIN new.links : FromARelease(m, new.links[m])
      BY <2>2 DEF WholeInv, Whole
  <2> HIDE DEF new
  <2> QED
      BY <2>1, <2>2, <2>3, <2>4, <2>5, WritingKeeps DEF Seeding
<1>2. CASE UpsertPokemon(p)
  <2> DEFINE mons == MonsOf(ReleaseOf[p])
             old == buffer[p].links
             links == [m \in DOMAIN old \cup mons |-> IF m \in mons THEN {} ELSE old[m]]
             new == [buffer[p] EXCEPT !.links = links]
  <2>1. pc[p] = "upsert pokemon"
      BY <1>2 DEF UpsertPokemon
  <2>2. \A q \in Process \ {p} : pc[q] \notin Seeding
      BY <2>1 DEF WholeInv, OneSeeds, Seeding
  <2>3. /\ IsTables(new) /\ new.moves = buffer[p].moves /\ new.links = links
    <3>1. IsTables(buffer[p])
        BY DEF WholeInv, DataTypes
    <3> HIDE DEF links
    <3>2. new = [moves |-> buffer[p].moves, links |-> links]
        BY <3>1, Updating
    <3> HIDE DEF new
    <3> QED
        BY <3>2 DEF IsTables
  <2>4. /\ buffer' = [buffer EXCEPT ![p] = new] /\ UNCHANGED <<tables, read, dex>>
        /\ pc' = [pc EXCEPT ![p] = "link"]
      BY <1>2 DEF UpsertPokemon, Goto
  <2>5. /\ buffer[p].moves # {} /\ DOMAIN tables.links \subseteq DOMAIN old
        /\ \A m \in DOMAIN old : FromARelease(m, old[m])
      BY <2>1 DEF WholeInv, BufferGrows, Seeding
  <2>6. \A m \in DOMAIN links :
            IF m \in mons THEN links[m] = {} ELSE FromARelease(m, links[m])
      BY <2>5
  <2>7. DOMAIN tables.links \subseteq DOMAIN links
      BY <2>5
  <2> HIDE DEF new, links
  <2> QED
      BY <2>2, <2>3, <2>4, <2>5, <2>6, <2>7, WritingKeeps DEF Seeding
<1>3. CASE LinkMoves(p)
  <2> DEFINE given == Embedded[ReleaseOf[p]].links
             old == buffer[p].links
             links == [m \in DOMAIN old |-> old[m] \cup (IF m \in DOMAIN given THEN given[m] ELSE {})]
             new == [buffer[p] EXCEPT !.links = links]
  <2>1. pc[p] = "link"
      BY <1>3 DEF LinkMoves
  <2>2. \A q \in Process \ {p} : pc[q] \notin Seeding
      BY <2>1 DEF WholeInv, OneSeeds, Seeding
  <2>3. /\ IsTables(new) /\ new.moves = buffer[p].moves /\ new.links = links
    <3>1. IsTables(buffer[p])
        BY DEF WholeInv, DataTypes
    <3> HIDE DEF links
    <3>2. new = [moves |-> buffer[p].moves, links |-> links]
        BY <3>1, Updating
    <3> HIDE DEF new
    <3> QED
        BY <3>2 DEF IsTables
  <2>4. /\ buffer' = [buffer EXCEPT ![p] = new] /\ UNCHANGED <<tables, read, dex>>
        /\ pc' = [pc EXCEPT ![p] = "commit"]
      BY <1>3 DEF LinkMoves, Goto
  <2>5. /\ buffer[p].moves # {} /\ DOMAIN tables.links \subseteq DOMAIN old
        /\ \A m \in DOMAIN old : IF m \in MonsOf(ReleaseOf[p]) THEN old[m] = {}
                                 ELSE FromARelease(m, old[m])
      BY <2>1 DEF WholeInv, BufferGrows, Seeding
  <2>6. \A m \in DOMAIN links : FromARelease(m, links[m])
    <3> SUFFICES ASSUME NEW m \in DOMAIN old PROVE FromARelease(m, links[m])
        OBVIOUS
    <3>1. CASE m \in MonsOf(ReleaseOf[p])
      <4>1. links[m] = given[m] /\ ReleaseOf[p] \in Release
          BY <3>1, <2>5, RolloutAssumption DEF MonsOf
      <4> QED
          BY <4>1, <3>1 DEF FromARelease
    <3>2. CASE m \notin MonsOf(ReleaseOf[p])
        BY <3>2, <2>5 DEF MonsOf
    <3> QED
        BY <3>1, <3>2
  <2>7. DOMAIN tables.links \subseteq DOMAIN links
      BY <2>5
  <2> HIDE DEF new, links
  <2> QED
      BY <2>2, <2>3, <2>4, <2>5, <2>6, <2>7, WritingKeeps DEF Seeding
<1>4. CASE CommitSeed(p)
    BY <1>4, CommittingKeeps DEF CommitSeed, Goto, Forgets
<1> QED
    BY <1>1, <1>2, <1>3, <1>4 DEF Seed

\* Each statement of the load (loadPokedexFromDB).
LEMMA LoadKeepsWhole ==
    ASSUME RunOnceInv, WholeInv, NEW p \in Replica, Load(p)
    PROVE  WholeInv'
<1> p \in Process
    BY DEF Process
<1>1. ASSUME Exit(p) PROVE WholeInv'
    BY <1>1, MovingKeeps DEF Exit, Die, Goto, Forgets, Step, Seeding
<1>2. CASE LoadMoves(p)
  <2>1. ASSUME read' = [read EXCEPT ![p].moves = tables.moves], Goto(p, "pokemon"),
               UNCHANGED <<tables, buffer, dex>>
        PROVE  WholeInv'
    <3>1. DataTypes'
        BY <2>1 DEF WholeInv, DataTypes, IsTables, IsReading
    <3>2. \A q \in Process \ {p} : pc'[q] = pc[q] /\ read'[q] = read[q]
        BY <2>1 DEF RunOnceInv, TypeOK, Goto, WholeInv, DataTypes
    <3>3. pc'[p] = "pokemon"
        BY <2>1 DEF RunOnceInv, TypeOK, Goto
    <3>4. OneSeeds' /\ BufferGrows' /\ ReadIsListed'
        BY <2>1, <3>2, <3>3 DEF WholeInv, OneSeeds, BufferGrows, ReadIsListed, Seeding
    <3> QED
        BY <2>1, <3>1, <3>4 DEF WholeInv
  <2> QED
      BY <1>1, <1>2, <2>1 DEF LoadMoves
<1>3. CASE LoadPokemon(p)
  <2>1. ASSUME read' = [read EXCEPT ![p].mons = DOMAIN tables.links], Goto(p, "links"),
               UNCHANGED <<tables, buffer, dex>>
        PROVE  WholeInv'
    <3>1. DataTypes' /\ read'[p].mons = DOMAIN tables.links
        BY <2>1 DEF WholeInv, DataTypes, IsTables, IsReading
    <3>2. \A q \in Process \ {p} : pc'[q] = pc[q] /\ read'[q] = read[q]
        BY <2>1 DEF RunOnceInv, TypeOK, Goto, WholeInv, DataTypes
    <3>3. pc'[p] = "links"
        BY <2>1 DEF RunOnceInv, TypeOK, Goto
    <3>4. OneSeeds' /\ BufferGrows' /\ ReadIsListed'
        BY <2>1, <3>1, <3>2, <3>3 DEF WholeInv, OneSeeds, BufferGrows, ReadIsListed, Seeding
    <3> QED
        BY <2>1, <3>1, <3>4 DEF WholeInv
  <2> QED
      BY <1>1, <1>3, <2>1 DEF LoadPokemon
<1>4. CASE LoadLinks(p)
  <2>1. ASSUME \A m \in read[p].mons : Battle(tables.links[m]) \subseteq Served(p).links[m],
               dex' = [dex EXCEPT ![p] = Served(p)], read' = [read EXCEPT ![p] = Unread],
               Goto(p, "serving"), UNCHANGED <<tables, buffer>>
        PROVE  WholeInv'
    <3>1. read[p].mons \subseteq DOMAIN tables.links
        BY <1>4 DEF LoadLinks, WholeInv, ReadIsListed
    <3>2. ServedWhole(Served(p))
      <4> DEFINE d == Served(p)
      <4>1. /\ DOMAIN d.links = read[p].mons /\ d.moves = read[p].moves
            /\ \A m \in read[p].mons : d.links[m] = InCatalogue(tables.links[m], d.moves)
          BY DEF Served
      <4>2. \A m \in read[p].mons : FromARelease(m, tables.links[m])
          BY <3>1 DEF WholeInv, Whole
      <4>3. \A m \in read[p].mons : Battle(tables.links[m]) \subseteq d.links[m]
          BY <2>1
      <4> HIDE DEF d
      <4>4. ASSUME NEW m \in DOMAIN d.links
            PROVE  \E r \in Release :
                      /\ m \in MonsOf(r)
                      /\ Battle(Embedded[r].links[m]) \subseteq d.links[m]
                      /\ d.links[m] = InCatalogue(Embedded[r].links[m], d.moves)
        <5>1. PICK r \in Release : m \in MonsOf(r) /\ tables.links[m] = Embedded[r].links[m]
            BY <4>1, <4>2 DEF FromARelease
        <5>2. Battle(Embedded[r].links[m]) \subseteq d.links[m]
            BY <4>1, <4>3, <5>1
        <5>3. d.links[m] = InCatalogue(Embedded[r].links[m], d.moves)
            BY <4>1, <5>1
        <5> QED
            BY <5>1, <5>2, <5>3
      <4> QED
          BY <4>4 DEF ServedWhole, d
    <3>3. IsReading(Unread)
        BY DEF IsReading, Unread
    <3>4. DataTypes' /\ \A q \in Replica : ServedWhole(dex'[q])
        BY <2>1, <3>2, <3>3 DEF WholeInv, DataTypes, IsTables
    <3>5. \A q \in Process \ {p} : pc'[q] = pc[q] /\ read'[q] = read[q]
        BY <2>1 DEF RunOnceInv, TypeOK, Goto, WholeInv, DataTypes
    <3>6. pc'[p] = "serving"
        BY <2>1 DEF RunOnceInv, TypeOK, Goto
    <3>7. OneSeeds' /\ BufferGrows' /\ ReadIsListed'
        BY <2>1, <3>5, <3>6 DEF WholeInv, OneSeeds, BufferGrows, ReadIsListed, Seeding
    <3> QED
        BY <2>1, <3>4, <3>7 DEF WholeInv
  <2> QED
      BY <1>1, <1>4, <2>1 DEF LoadLinks
<1> QED
    BY <1>2, <1>3, <1>4 DEF Load

\* Starting, stopping, migrating and dying, with or without the COMMIT.
LEMMA OthersKeepWhole ==
    ASSUME RunOnceInv, WholeInv, NEW p \in Process,
           Start(p) \/ Crash(p) \/ EndSession(p) \/ Migrate(p) \/ Stop(p)
    PROVE  WholeInv'
<1>1. CASE Start(p)
    BY <1>1, MovingKeeps DEF Start, Goto, dataVars, Forgets, Step, Seeding
<1>2. CASE Stop(p)
    BY <1>2, MovingKeeps DEF Stop, Die, Goto, Forgets, Step, Seeding
<1>3. CASE Crash(p)
  <2>1. pc' = [pc EXCEPT ![p] = "down"] /\ Forgets(p)
      BY <1>3 DEF Crash, Die, Goto, Forgets
  <2>2. CASE UNCHANGED <<tables, buffer>>
      BY <2>1, <2>2, MovingKeeps DEF Step, Seeding
  <2>3. CASE /\ pc[p] = "commit"
             /\ tables' = buffer[p] /\ buffer' = [buffer EXCEPT ![p] = Empty]
      BY <2>1, <2>3, CommittingKeeps
  <2> QED
      BY <1>3, <2>2, <2>3 DEF Crash
<1>4. CASE EndSession(p)
  <2>1. /\ pc[p] = "down" /\ UNCHANGED <<pc, tables, read, dex>>
        /\ buffer' = [buffer EXCEPT ![p] = Empty]
      BY <1>4 DEF EndSession, RunOnceInv, OneSessionEach
  <2>2. IsTables(Empty)
      BY DEF IsTables, Empty
  <2>3. DataTypes' /\ \A q \in Process \ {p} : buffer'[q] = buffer[q]
      BY <2>1, <2>2 DEF WholeInv, DataTypes, IsTables
  <2>4. OneSeeds' /\ BufferGrows' /\ ReadIsListed'
      BY <2>1, <2>3 DEF WholeInv, OneSeeds, BufferGrows, ReadIsListed, Seeding
  <2> QED
      BY <2>1, <2>3, <2>4 DEF WholeInv
<1>5. CASE Migrate(p)
  <2>1. CASE TakeLock(p) \/ ReadApplied(p)
      BY <2>1, MovingKeeps
         DEF TakeLock, ReadApplied, Goto, dataVars, Forgets, Step, Seeding
  <2>2. CASE RunSql(p)
    <3>1. pc' = [pc EXCEPT ![p] = "unlock"] \/ pc' = [pc EXCEPT ![p] = "record"]
        BY <2>2 DEF RunSql, Goto
    <3> QED
        BY <2>2, <3>1, MovingKeeps DEF RunSql, dataVars, Forgets, Step, Seeding
  <2>3. CASE Record(p)
    <3>1. pc' = [pc EXCEPT ![p] = "migrate"] \/ pc' = [pc EXCEPT ![p] = "unlock"]
        BY <2>3 DEF Record, Goto
    <3> QED
        BY <2>3, <3>1, MovingKeeps DEF Record, dataVars, Forgets, Step, Seeding
  <2>4. CASE Migrated(p)
      BY <2>4, MovingKeeps DEF Migrated, Goto, dataVars, Forgets, Step, Seeding
  <2>5. CASE Unlock(p)
    <3>1. /\ \/ pc' = [pc EXCEPT ![p] = "down"]
             \/ pc' = [pc EXCEPT ![p] = "upsert moves"]
             \/ pc' = [pc EXCEPT ![p] = "moves"]
          /\ Forgets(p) /\ UNCHANGED <<tables, buffer>>
        BY <2>5 DEF Unlock, Die, Goto, Forgets
    <3> QED
        BY <3>1, MovingKeeps DEF Step, Seeding
  <2> QED
      BY <1>5, <2>1, <2>2, <2>3, <2>4, <2>5 DEF Migrate
<1> QED
    BY <1>1, <1>2, <1>3, <1>4, <1>5

LEMMA WholeStep == RunOnceInv /\ WholeInv /\ [Next]_vars => WholeInv'
<1> SUFFICES ASSUME RunOnceInv, WholeInv, [Next]_vars PROVE WholeInv'
    OBVIOUS
<1>1. CASE UNCHANGED vars
    BY <1>1 DEF vars, WholeInv, DataTypes, IsTables, IsReading, Whole, ServedWhole, OneSeeds, BufferGrows,
                ReadIsListed
<1>2. CASE Next
    BY <1>2, SeedKeepsWhole, LoadKeepsWhole, OthersKeepWhole DEF Next
<1> QED
    BY <1>1, <1>2

\* Whatever seeds and crashes happen while it loads, a replica serves for
\* every Pokemon all the moves one release has it fight with, of those it can
\* learn all that are in the catalogue served, and no other (loadPokedexFromDB,
\* buildPokedex, learnableFor, seed).
THEOREM ServedAreWhole == Spec => []MovesetsAreWhole
<1>1. WholeInv => MovesetsAreWhole
    BY DEF WholeInv, ServedWhole, MovesetsAreWhole
<1> QED
    BY <1>1, RolloutStarts, RolloutStep, WholeStarts, WholeStep, PTL DEF Spec
=============================================================================

------------------------------ MODULE PgBattle ------------------------------
(***************************************************************************)
(* pgStore.update and attemptUpdate of services/pokedex/pgstore.go, under  *)
(* several replicas: each request reads the row in a SERIALIZABLE          *)
(* transaction, applies join or takeTurn to what it read, writes and       *)
(* commits, and starts over on 40001; sweeps (SweepBattles) select and     *)
(* delete in between.  Postgres is modelled by what those statements do    *)
(* under concurrency: a write to a row that has changed since the          *)
(* transaction's snapshot fails with 40001, and so may any other, and the  *)
(* DELETE of a sweep removes the rows its subquery selected even when they *)
(* have been written since.                                                *)
(***************************************************************************)
EXTENDS AtomicBattle

CONSTANTS MaxRetries,   \* 10 in the code
          Sweeps,       \* the sweeps that may run at once
          MaxVersion    \* bound of the model: later, no more requests come

ASSUME PgAssumption == MaxRetries \in Nat \ {0} /\ MaxVersion \in Nat

VARIABLES stale,     \* nobody has touched the row inside its TTL
          pc,        \* pc[r]: where the request stands in update()
          attempt,   \* attempt[r]: the attempts it has made
          snap,      \* snap[r]: the row its transaction read
          next,      \* next[r]: what fn made of it
          selected   \* the sweeps whose subquery has returned the battle

pgVars == <<battle, call, answer, stale, pc, attempt, snap, next, selected>>

PgInit == /\ Init
          /\ stale = FALSE
          /\ pc = [r \in Requests |-> "idle"]
          /\ attempt = [r \in Requests |-> 0]
          /\ snap = [r \in Requests |-> NoBattle]
          /\ next = [r \in Requests |-> NoBattle]
          /\ selected = {}

Answer(r, a) == /\ pc' = [pc EXCEPT ![r] = "idle"]
                /\ answer' = [answer EXCEPT ![r] = a]

\* The copy of the row lives no longer than its attempt
Forget(r) == /\ snap' = [snap EXCEPT ![r] = NoBattle]
             /\ next' = [next EXCEPT ![r] = NoBattle]

Start(r, c) == /\ pc[r] = "idle"
               /\ battle # NoBattle => battle.version < MaxVersion
               /\ Call(r, c)
               /\ pc' = [pc EXCEPT ![r] = "read"]
               /\ attempt' = [attempt EXCEPT ![r] = 0]
               /\ UNCHANGED <<stale, snap, next, selected>>

\* BeginTx, GetBattleForUpdate and fn: the snapshot is that of the SELECT,
\* and fn works on the copy that was read.
Read(r) == /\ pc[r] = "read"
           /\ UNCHANGED <<battle, call, stale, attempt, selected>>
           /\ IF Verdict(battle, call[r]) = "ok"
              THEN /\ snap' = [snap EXCEPT ![r] = battle]
                   /\ \E b \in Outcomes(battle, call[r]) :
                        next' = [next EXCEPT ![r] = b]
                   /\ pc' = [pc EXCEPT ![r] = "write"]
                   /\ UNCHANGED answer
              ELSE /\ Answer(r, Verdict(battle, call[r]))
                   /\ UNCHANGED <<snap, next>>

\* Mutant: the write goes through whatever came between (READ COMMITTED)
CommitBlind(r) == /\ pc[r] = "write"
                  /\ battle # NoBattle
                  /\ battle' = [next[r] EXCEPT !.version = battle.version + 1]
                  /\ stale' = FALSE
                  /\ Answer(r, "ok")
                  /\ Forget(r)
                  /\ UNCHANGED <<call, attempt, selected>>

\* UpdateBattle, the sides and Commit when nothing came between: version is
\* the row's own plus one and touched_at is now().  The caller may not learn
\* of it: Commit's answer can be lost with the connection.
Commit(r) == /\ pc[r] = "write"
             /\ battle = snap[r]
             /\ battle' = [next[r] EXCEPT !.version = battle.version + 1]
             /\ stale' = FALSE
             /\ \E a \in {"ok", "error"} : Answer(r, a)
             /\ Forget(r)
             /\ UNCHANGED <<call, attempt, selected>>

\* Mutant: one attempt too many
SerializationFailureLate(r) ==
  /\ pc[r] = "write"
  /\ attempt' = [attempt EXCEPT ![r] = @ + 1]
  /\ IF attempt[r] < MaxRetries
     THEN pc' = [pc EXCEPT ![r] = "backoff"] /\ UNCHANGED answer
     ELSE Answer(r, "error")
  /\ Forget(r)
  /\ UNCHANGED <<battle, call, stale, selected>>

\* Mutant: attempts are not counted
SerializationFailureUncounted(r) ==
  /\ pc[r] = "write"
  /\ pc' = [pc EXCEPT ![r] = "backoff"]
  /\ Forget(r)
  /\ UNCHANGED <<battle, call, answer, stale, attempt, selected>>

\* 40001, certain when the row has changed or gone and possible otherwise
SerializationFailure(r) ==
  /\ pc[r] = "write"
  /\ attempt' = [attempt EXCEPT ![r] = @ + 1]
  /\ IF attempt[r] + 1 < MaxRetries
     THEN pc' = [pc EXCEPT ![r] = "backoff"] /\ UNCHANGED answer
     ELSE Answer(r, "error")
  /\ Forget(r)
  /\ UNCHANGED <<battle, call, stale, selected>>

\* The wait between attempts ends, or the request's context does
Retry(r) == /\ pc[r] = "backoff"
            /\ \/ pc' = [pc EXCEPT ![r] = "read"] /\ UNCHANGED answer
               \/ Answer(r, "error")
            /\ UNCHANGED <<battle, call, stale, attempt, snap, next, selected>>

\* Any other database error is returned at once; the transaction is rolled back
DatabaseError(r) == /\ pc[r] \in {"read", "write"}
                    /\ Answer(r, "error")
                    /\ Forget(r)
                    /\ UNCHANGED <<battle, call, stale, attempt, selected>>

\* The TTL of the row's status passes without an update
Age == /\ battle # NoBattle
       /\ ~stale
       /\ stale' = TRUE
       /\ UNCHANGED <<battle, call, answer, pc, attempt, snap, next, selected>>

SweepSelect(w) == /\ w \notin selected
                  /\ battle # NoBattle
                  /\ stale
                  /\ selected' = selected \cup {w}
                  /\ UNCHANGED <<battle, call, answer, stale, pc, attempt, snap, next>>

SweepDelete(w) == /\ w \in selected
                  /\ selected' = selected \ {w}
                  /\ battle' = NoBattle
                  /\ stale' = FALSE
                  /\ UNCHANGED <<call, answer, pc, attempt, snap, next>>

Step(r) == \/ Read(r) \/ Commit(r) \/ SerializationFailure(r)
           \/ Retry(r) \/ DatabaseError(r)

PgNext == \/ \E r \in Requests : (\E c \in Calls : Start(r, c)) \/ Step(r)
          \/ \E w \in Sweeps : SweepSelect(w) \/ SweepDelete(w)
          \/ Age

\* A replica goes on with the requests it has taken
PgSpec == PgInit /\ [][PgNext]_pgVars /\ \A r \in Requests : WF_pgVars(Step(r))

-----------------------------------------------------------------------------
\* The row, the requests and the sweeps have their types.
PgTypeOK ==
  /\ battle \in Battles \cup {NoBattle}
  /\ call \in [Requests -> Calls]
  /\ answer \in [Requests -> {"idle", "pending", "ok", "error"} \cup Refusals]
  /\ stale \in BOOLEAN
  /\ pc \in [Requests -> {"idle", "read", "write", "backoff"}]
  /\ attempt \in [Requests -> 0..MaxRetries]
  /\ snap \in [Requests -> Battles \cup {NoBattle}]
  /\ next \in [Requests -> Battles \cup {NoBattle}]
  /\ selected \subseteq Sweeps

\* Two turns that read the same row cannot both be written, a turn computed
\* on an old row is never written, and a refusal is true of the row when it is
\* decided: the transactions are as good as one instant (TakeTurn, JoinBattle).
ImplementsAtomic == Spec

\* A request stands in update() exactly while its caller has no answer, and it
\* has a retry left while it is under way.
PendingIsRunning ==
  \A r \in Requests : /\ answer[r] = "pending" <=> pc[r] # "idle"
                      /\ pc[r] # "idle" => attempt[r] < MaxRetries

\* Every request is answered: the retry loop of update ends however the other
\* replicas interleave.
EveryCallAnswered ==
  \A r \in Requests : answer[r] = "pending" ~> answer[r] # "pending"
=============================================================================

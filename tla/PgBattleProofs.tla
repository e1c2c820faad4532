--------------------------- MODULE PgBattleProofs ---------------------------
(***************************************************************************)
(* Theorems about PgBattle for any number of requests, sweeps, retries and *)
(* updates.                                                                *)
(***************************************************************************)
EXTENDS PgBattle, TLAPS

\* fn only ever builds battles, one version on from the row it was given
LEMMA OutcomesAreBattles ==
  ASSUME NEW b \in Battles, NEW c \in Calls, Verdict(b, c) = "ok",
         NEW o \in Outcomes(b, c)
  PROVE  o \in Battles /\ o.version = b.version + 1
<1>1. /\ b.version \in Nat /\ b.turn \in 1..2 /\ c.by \in Players
      /\ b.owner \in [1..2 -> Players \cup {NoPlayer}]
  BY DEF Battles, Calls
<1>2. CASE c.op = "join"
  <2> DEFINE owner == [b.owner EXCEPT ![2] = c.by]
  <2>1. owner \in [1..2 -> Players \cup {NoPlayer}]
    BY <1>1
  <2>2. o = [status |-> "active", owner |-> owner, turn |-> 1,
             version |-> b.version + 1]
    BY <1>2 DEF Outcomes
  <2> HIDE DEF owner
  <2> QED  BY <1>1, <2>1, <2>2 DEF Battles
<1>3. CASE c.op # "join"
  <2>1. \/ o = [b EXCEPT !.turn = 3 - b.turn, !.version = b.version + 1]
        \/ o = [b EXCEPT !.status = "finished", !.version = b.version + 1]
    BY <1>3 DEF Outcomes
  <2>2. 3 - b.turn \in 1..2
    BY <1>1
  <2> DEFINE turn == 3 - b.turn
             version == b.version + 1
  <2>3. turn \in 1..2 /\ version \in Nat
    BY <1>1, <2>2
  <2>4. \/ o = [b EXCEPT !.turn = turn, !.version = version]
        \/ o = [b EXCEPT !.status = "finished", !.version = version]
    BY <2>1
  <2> HIDE DEF turn, version
  <2>5. o \in Battles /\ o.version = version
    BY <2>3, <2>4 DEF Battles
  <2> QED  BY <2>5 DEF version
<1> QED  BY <1>2, <1>3

LEMMA VerdictIsAnswer ==
  ASSUME NEW b, NEW c
  PROVE  Verdict(b, c) \in Refusals \cup {"ok"}
BY DEF Verdict, Refusals

\* What a transaction is about to write follows from what it read: the link
\* between a commit and the atomic step it stands for.
WriteFollowsRead ==
  \A r \in Requests : pc[r] = "write" =>
    /\ snap[r] \in Battles
    /\ Verdict(snap[r], call[r]) = "ok"
    /\ next[r] \in Outcomes(snap[r], call[r])

PgInv == PgTypeOK /\ PendingIsRunning /\ WriteFollowsRead

LEMMA InitPgInv == PgInit => PgInv
<1> SUFFICES ASSUME PgInit PROVE PgInv
  OBVIOUS
<1>1. PICK p \in Players : battle = Opened(p)
  BY DEF PgInit, Init
<1>2. battle \in Battles
  BY <1>1 DEF Opened, Battles
<1>3. [op |-> "turn", by |-> p] \in Calls
  BY <1>1 DEF Calls
<1>4. (CHOOSE c \in Calls : TRUE) \in Calls
  BY <1>3
<1>5. PgTypeOK
  <2>1. call \in [Requests -> Calls]
    BY <1>4 DEF PgInit, Init
  <2>2. answer \in [Requests -> {"idle", "pending", "ok", "error"} \cup Refusals]
    BY DEF PgInit, Init
  <2>3. attempt \in [Requests -> 0..MaxRetries]
    BY PgAssumption DEF PgInit
  <2>4. /\ pc \in [Requests -> {"idle", "read", "write", "backoff"}]
        /\ stale \in BOOLEAN /\ selected \subseteq Sweeps
    BY DEF PgInit
  <2>5. /\ snap \in [Requests -> Battles \cup {NoBattle}]
        /\ next \in [Requests -> Battles \cup {NoBattle}]
    BY DEF PgInit
  <2> QED  BY <1>2, <2>1, <2>2, <2>3, <2>4, <2>5 DEF PgTypeOK
<1>6. PendingIsRunning /\ WriteFollowsRead
  BY DEF PgInit, Init, PendingIsRunning, WriteFollowsRead
<1> QED  BY <1>5, <1>6 DEF PgInv

LEMMA StartKeeps ==
  ASSUME PgInv, NEW r \in Requests, NEW c \in Calls, Start(r, c)
  PROVE  PgInv'
<1>1. /\ pc[r] = "idle" /\ pc' = [pc EXCEPT ![r] = "read"]
      /\ call' = [call EXCEPT ![r] = c]
      /\ answer' = [answer EXCEPT ![r] = "pending"]
      /\ attempt' = [attempt EXCEPT ![r] = 0]
      /\ UNCHANGED <<battle, stale, snap, next, selected>>
  BY DEF Start, Call
<1>2. PgTypeOK'
  BY <1>1, PgAssumption DEF PgInv, PgTypeOK
<1>3. PendingIsRunning'
  BY <1>1, PgAssumption DEF PgInv, PgTypeOK, PendingIsRunning
<1>4. WriteFollowsRead'
  BY <1>1 DEF PgInv, PgTypeOK, WriteFollowsRead, Verdict, Outcomes
<1> QED  BY <1>2, <1>3, <1>4 DEF PgInv

\* Ways an attempt ends without a write: the request is done with an answer,
\* or goes on to its next attempt; the battle stays as it is.
AttemptEnds(r, s, a) ==
  /\ pc' = [pc EXCEPT ![r] = s]
  /\ answer' = [answer EXCEPT ![r] = a]
  /\ \/ s = "idle" /\ a \in {"ok", "error"} \cup Refusals
     \/ s \in {"read", "backoff"} /\ a = "pending" /\ attempt'[r] < MaxRetries
  /\ attempt' \in [Requests -> 0..MaxRetries]
  /\ \A q \in Requests \ {r} : attempt'[q] = attempt[q]
  /\ snap' \in [Requests -> Battles \cup {NoBattle}]
  /\ next' \in [Requests -> Battles \cup {NoBattle}]
  /\ \A q \in Requests \ {r} : snap'[q] = snap[q] /\ next'[q] = next[q]
  /\ UNCHANGED <<call, selected>>

LEMMA AttemptEndKeeps ==
  ASSUME PgInv, NEW r \in Requests, NEW s, NEW a, AttemptEnds(r, s, a),
         battle' \in Battles \cup {NoBattle}, stale' \in BOOLEAN
  PROVE  PgInv'
<1>1. PgTypeOK'
  BY DEF PgInv, PgTypeOK, AttemptEnds
<1>2. PendingIsRunning'
  BY DEF PgInv, PgTypeOK, PendingIsRunning, AttemptEnds, Refusals
<1>3. WriteFollowsRead'
  <2> SUFFICES ASSUME NEW q \in Requests, pc'[q] = "write"
               PROVE  /\ snap'[q] \in Battles
                      /\ Verdict(snap'[q], call'[q]) = "ok"
                      /\ next'[q] \in Outcomes(snap'[q], call'[q])
    BY DEF WriteFollowsRead, Verdict, Outcomes
  <2>1. q # r /\ pc[q] = "write"
    BY DEF AttemptEnds, PgInv, PgTypeOK
  <2> QED  BY <2>1 DEF AttemptEnds, PgInv, WriteFollowsRead
<1> QED  BY <1>1, <1>2, <1>3 DEF PgInv

LEMMA ReadKeeps ==
  ASSUME PgInv, NEW r \in Requests, Read(r)
  PROVE  PgInv'
<1>1. pc[r] = "read" /\ UNCHANGED <<battle, call, stale, attempt, selected>>
  BY DEF Read
<1>2. CASE Verdict(battle, call[r]) = "ok"
  <2>1. battle \in Battles /\ call[r] \in Calls
    BY <1>2 DEF PgInv, PgTypeOK, Verdict
  <2>2. PICK b \in Outcomes(battle, call[r]) :
          /\ next' = [next EXCEPT ![r] = b]
          /\ snap' = [snap EXCEPT ![r] = battle]
          /\ pc' = [pc EXCEPT ![r] = "write"]
          /\ UNCHANGED answer
    BY <1>2 DEF Read
  <2>3. b \in Battles
    BY <1>2, <2>1, OutcomesAreBattles
  <2>4. PgTypeOK'
    BY <1>1, <2>1, <2>2, <2>3 DEF PgInv, PgTypeOK
  <2>5. PendingIsRunning'
    BY <1>1, <2>2 DEF PgInv, PgTypeOK, PendingIsRunning
  <2>6. WriteFollowsRead'
    <3> SUFFICES ASSUME NEW q \in Requests, pc'[q] = "write"
                 PROVE  /\ snap'[q] \in Battles
                        /\ Verdict(snap'[q], call'[q]) = "ok"
                        /\ next'[q] \in Outcomes(snap'[q], call'[q])
      BY DEF WriteFollowsRead, Verdict, Outcomes
    <3>1. CASE q = r
      BY <3>1, <1>1, <1>2, <2>1, <2>2 DEF PgInv, PgTypeOK
    <3>2. CASE q # r
      BY <3>2, <1>1, <2>2 DEF PgInv, PgTypeOK, WriteFollowsRead
    <3> QED  BY <3>1, <3>2
  <2> QED  BY <2>4, <2>5, <2>6 DEF PgInv
<1>3. CASE Verdict(battle, call[r]) # "ok"
  <2>1. /\ pc' = [pc EXCEPT ![r] = "idle"]
        /\ answer' = [answer EXCEPT ![r] = Verdict(battle, call[r])]
        /\ UNCHANGED <<snap, next>>
    BY <1>3 DEF Read, Answer
  <2>2. AttemptEnds(r, "idle", Verdict(battle, call[r]))
    BY <1>1, <1>3, <2>1, VerdictIsAnswer DEF AttemptEnds, PgInv, PgTypeOK
  <2> QED  BY <1>1, <2>2, AttemptEndKeeps DEF PgInv, PgTypeOK
<1> QED  BY <1>2, <1>3

LEMMA StepKeeps ==
  ASSUME PgInv, NEW r \in Requests, Step(r)
  PROVE  PgInv'
<1>1. CASE Read(r)
  BY <1>1, ReadKeeps
<1>2. CASE Commit(r)
  <2>1. pc[r] = "write" /\ battle = snap[r]
    BY <1>2 DEF Commit
  <2>2. battle \in Battles /\ next[r] \in Battles
    BY <2>1, OutcomesAreBattles DEF PgInv, PgTypeOK, WriteFollowsRead
  <2>3. battle' \in Battles /\ stale' \in BOOLEAN
    <3> DEFINE version == battle.version + 1
    <3>1. version \in Nat
      BY <2>2 DEF Battles
    <3>2. battle' = [next[r] EXCEPT !.version = version] /\ stale' = FALSE
      BY <1>2 DEF Commit
    <3> HIDE DEF version
    <3> QED  BY <2>2, <3>1, <3>2 DEF Battles
  <2>4. PICK a \in {"ok", "error"} : /\ pc' = [pc EXCEPT ![r] = "idle"]
                                     /\ answer' = [answer EXCEPT ![r] = a]
    BY <1>2 DEF Commit, Answer
  <2>5. UNCHANGED <<call, attempt, selected>> /\ Forget(r)
    BY <1>2 DEF Commit
  <2>6. AttemptEnds(r, "idle", a)
    BY <2>4, <2>5 DEF Forget, AttemptEnds, PgInv, PgTypeOK
  <2> QED  BY <2>3, <2>6, AttemptEndKeeps
<1>3. CASE SerializationFailure(r)
  <2>1. /\ pc[r] = "write" /\ answer[r] = "pending" /\ attempt[r] < MaxRetries
        /\ attempt[r] \in Nat
    BY <1>3 DEF SerializationFailure, PgInv, PgTypeOK, PendingIsRunning
  <2>2. /\ attempt' = [attempt EXCEPT ![r] = attempt[r] + 1]
        /\ attempt' \in [Requests -> 0..MaxRetries]
    BY <1>3, <2>1, PgAssumption DEF SerializationFailure, PgInv, PgTypeOK
  <2>3. CASE attempt[r] + 1 < MaxRetries
    <3>1. answer' = [answer EXCEPT ![r] = "pending"] /\ pc' = [pc EXCEPT ![r] = "backoff"]
      BY <1>3, <2>1, <2>3 DEF SerializationFailure, PgInv, PgTypeOK
    <3>2. AttemptEnds(r, "backoff", "pending")
      BY <1>3, <2>2, <2>3, <3>1
         DEF SerializationFailure, Forget, AttemptEnds, PgInv, PgTypeOK
    <3> QED  BY <1>3, <3>2, AttemptEndKeeps DEF SerializationFailure, PgInv, PgTypeOK
  <2>4. CASE ~(attempt[r] + 1 < MaxRetries)
    <3>1. AttemptEnds(r, "idle", "error")
      BY <1>3, <2>2, <2>4
         DEF SerializationFailure, Answer, Forget, AttemptEnds, PgInv, PgTypeOK
    <3> QED  BY <1>3, <3>1, AttemptEndKeeps DEF SerializationFailure, PgInv, PgTypeOK
  <2> QED  BY <2>3, <2>4
<1>4. CASE Retry(r)
  <2>1. pc[r] = "backoff" /\ answer[r] = "pending" /\ attempt[r] < MaxRetries
    BY <1>4 DEF Retry, PgInv, PgTypeOK, PendingIsRunning
  <2>2. CASE pc' = [pc EXCEPT ![r] = "read"] /\ UNCHANGED answer
    <3>1. answer' = [answer EXCEPT ![r] = "pending"]
      BY <2>1, <2>2 DEF PgInv, PgTypeOK
    <3>2. AttemptEnds(r, "read", "pending")
      BY <1>4, <2>1, <2>2, <3>1 DEF Retry, AttemptEnds, PgInv, PgTypeOK
    <3> QED  BY <1>4, <3>2, AttemptEndKeeps DEF Retry, PgInv, PgTypeOK
  <2>3. CASE Answer(r, "error")
    <3>1. AttemptEnds(r, "idle", "error")
      BY <1>4, <2>3 DEF Retry, Answer, AttemptEnds, PgInv, PgTypeOK
    <3> QED  BY <1>4, <3>1, AttemptEndKeeps DEF Retry, PgInv, PgTypeOK
  <2> QED  BY <1>4, <2>2, <2>3 DEF Retry
<1>5. CASE DatabaseError(r)
  <2>1. AttemptEnds(r, "idle", "error")
    BY <1>5 DEF DatabaseError, Answer, Forget, AttemptEnds, PgInv, PgTypeOK
  <2> QED  BY <1>5, <2>1, AttemptEndKeeps DEF DatabaseError, PgInv, PgTypeOK
<1> QED  BY <1>1, <1>2, <1>3, <1>4, <1>5 DEF Step

\* The types, the attempts and what is about to be written, under every interleaving.
THEOREM PgInductive == PgSpec => []PgInv
<1>1. PgInit => PgInv
  BY InitPgInv
<1>2. PgInv /\ [PgNext]_pgVars => PgInv'
  <2> SUFFICES ASSUME PgInv, [PgNext]_pgVars PROVE PgInv'
    OBVIOUS
  <2>1. ASSUME NEW r \in Requests, NEW c \in Calls, Start(r, c) PROVE PgInv'
    BY <2>1, StartKeeps
  <2>2. ASSUME NEW r \in Requests, Step(r) PROVE PgInv'
    BY <2>2, StepKeeps
  <2>3. ASSUME \/ Age
               \/ \E w \in Sweeps : SweepSelect(w) \/ SweepDelete(w)
               \/ UNCHANGED pgVars
        PROVE  PgInv'
    <3>1. /\ UNCHANGED <<call, answer, pc, attempt, snap, next>>
          /\ battle' \in {battle, NoBattle} /\ stale' \in BOOLEAN
          /\ selected' \subseteq Sweeps
      BY <2>3 DEF Age, SweepSelect, SweepDelete, pgVars, PgInv, PgTypeOK
    <3> QED  BY <3>1 DEF PgInv, PgTypeOK, PendingIsRunning, WriteFollowsRead,
                         Verdict, Outcomes
  <2> QED  BY <2>1, <2>2, <2>3 DEF PgNext
<1> QED  BY <1>1, <1>2, PTL DEF PgSpec

\* All variables keep their types under any interleaving.
THEOREM PgTypeCorrect == PgSpec => []PgTypeOK
<1>1. PgInv => PgTypeOK
  BY DEF PgInv
<1> QED  BY <1>1, PgInductive, PTL

\* A request without an answer is a request that runs, with an attempt left.
THEOREM PendingRuns == PgSpec => []PendingIsRunning
<1>1. PgInv => PendingIsRunning
  BY DEF PgInv
<1> QED  BY <1>1, PgInductive, PTL

\* Every step of the transactions, retries and sweeps is a step of the atomic
\* battle or none: no turn is lost, none is written over another.
THEOREM PgImplementsAtomic == PgSpec => ImplementsAtomic
<1>1. PgInit => Init
  BY DEF PgInit
<1>2. PgInv /\ [PgNext]_pgVars => [Next]_vars
  <2> SUFFICES ASSUME PgInv, PgNext PROVE Next \/ UNCHANGED vars
    BY DEF pgVars, vars
  <2>1. ASSUME NEW r \in Requests, NEW c \in Calls, Start(r, c)
        PROVE  Next
    BY <2>1 DEF Start, Next
  <2>2. ASSUME NEW r \in Requests, Step(r) PROVE Next \/ UNCHANGED vars
    <3>1. pc[r] # "idle" => answer[r] = "pending"
      BY DEF PgInv, PendingIsRunning
    <3>2. CASE Read(r)
      <4>1. CASE Verdict(battle, call[r]) = "ok"
        BY <3>2, <4>1 DEF Read, vars
      <4>2. CASE Verdict(battle, call[r]) # "ok"
        <5>1. Refuse(r)
          BY <3>1, <3>2, <4>2 DEF Read, Answer, Refuse
        <5> QED  BY <5>1 DEF Next
      <4> QED  BY <4>1, <4>2
    <3>3. CASE Commit(r)
      <4>1. pc[r] = "write" /\ battle = snap[r]
            /\ battle' = [next[r] EXCEPT !.version = battle.version + 1]
            /\ call' = call
        BY <3>3 DEF Commit
      <4>2. /\ battle \in Battles /\ Verdict(battle, call[r]) = "ok"
            /\ next[r] \in Outcomes(battle, call[r])
            /\ call[r] \in Calls
        BY <4>1 DEF PgInv, PgTypeOK, WriteFollowsRead
      <4>3. next[r] \in Battles /\ next[r].version = battle.version + 1
        BY <4>2, OutcomesAreBattles
      <4>4. battle' = next[r]
        BY <4>1, <4>3 DEF Battles
      <4>5. \E a \in {"ok", "error"} : answer' = [answer EXCEPT ![r] = a]
        BY <3>3 DEF Commit, Answer
      <4>6. Accept(r)
        BY <3>1, <4>1, <4>2, <4>4, <4>5 DEF Accept
      <4> QED  BY <4>6 DEF Next
    <3>4. CASE SerializationFailure(r) \/ Retry(r) \/ DatabaseError(r)
      <4>1. /\ pc[r] # "idle"
            /\ UNCHANGED <<battle, call>>
            /\ answer' = answer \/ answer' = [answer EXCEPT ![r] = "error"]
        BY <3>4 DEF SerializationFailure, Retry, DatabaseError, Answer
      <4>2. UNCHANGED vars \/ Fail(r)
        BY <3>1, <4>1 DEF vars, Fail
      <4> QED  BY <4>2 DEF Next
    <3> QED  BY <2>2, <3>2, <3>3, <3>4 DEF Step
  <2>3. ASSUME NEW w \in Sweeps, SweepSelect(w) \/ SweepDelete(w)
        PROVE  Next \/ UNCHANGED vars
    BY <2>3 DEF SweepSelect, SweepDelete, vars, Next, Expire
  <2>4. CASE Age
    BY <2>4 DEF Age, vars
  <2> QED  BY <2>1, <2>2, <2>3, <2>4 DEF PgNext
<1> QED  BY <1>1, <1>2, PgInductive, PTL DEF PgSpec, Spec, ImplementsAtomic

-----------------------------------------------------------------------------
(* What follows for whoever reads the row                                  *)

\* The row only changes by one call somebody waits for, accepted for the row as
\* it is, which adds one to its version and never touches a finished battle; or
\* it goes, for good.
RowMovesForward ==
  battle' # battle =>
    \/ battle' = NoBattle
    \/ /\ battle # NoBattle /\ battle.status # "finished"
       /\ battle' \in Battles /\ battle'.version = battle.version + 1
       /\ \E r \in Requests : /\ answer[r] = "pending"
                              /\ Verdict(battle, call[r]) = "ok"
                              /\ battle' \in Outcomes(battle, call[r])

\* Nobody is told of a turn that was not made: "ok" comes with a change of the
\* row, and a refusal with none.
AnswersAreTrue ==
  \A r \in Requests : answer'[r] # answer[r] =>
    /\ answer'[r] = "ok" =>
         Verdict(battle, call[r]) = "ok" /\ battle' \in Outcomes(battle, call[r])
    /\ answer'[r] \in Refusals =>
         Verdict(battle, call[r]) = answer'[r] /\ battle' = battle

AtomicTypes ==
  /\ battle \in Battles \cup {NoBattle}
  /\ call \in [Requests -> Calls]
  /\ answer \in [Requests -> {"idle", "pending", "ok", "error"} \cup Refusals]

LEMMA AcceptMovesForward ==
  ASSUME AtomicTypes, NEW r \in Requests, Accept(r)
  PROVE  RowMovesForward /\ AnswersAreTrue /\ AtomicTypes'
<1>1. /\ answer[r] = "pending" /\ Verdict(battle, call[r]) = "ok"
      /\ battle' \in Outcomes(battle, call[r]) /\ call' = call
  BY DEF Accept
<1>2. PICK a \in {"ok", "error"} : answer' = [answer EXCEPT ![r] = a]
  BY DEF Accept
<1>3. battle # NoBattle /\ battle \in Battles /\ call[r] \in Calls
  BY <1>1 DEF Verdict, AtomicTypes
<1>4. battle' \in Battles /\ battle'.version = battle.version + 1
  BY <1>1, <1>3, OutcomesAreBattles
<1>5. battle.status # "finished"
  BY <1>1, <1>3 DEF Verdict
<1>6. RowMovesForward
  BY <1>1, <1>3, <1>4, <1>5 DEF RowMovesForward
<1>7. AnswersAreTrue
  <2> SUFFICES ASSUME NEW q \in Requests, answer'[q] # answer[q]
               PROVE  /\ answer'[q] = "ok" => /\ Verdict(battle, call[q]) = "ok"
                                              /\ battle' \in Outcomes(battle, call[q])
                      /\ answer'[q] \notin Refusals
    BY DEF AnswersAreTrue
  <2>1. q = r /\ answer'[q] \in {"ok", "error"}
    BY <1>2 DEF AtomicTypes
  <2> QED  BY <1>1, <2>1 DEF Refusals
<1>8. AtomicTypes'
  BY <1>1, <1>2, <1>4 DEF AtomicTypes
<1> QED  BY <1>6, <1>7, <1>8

LEMMA QuietMovesForward ==
  ASSUME AtomicTypes,
         \/ \E r \in Requests : Refuse(r) \/ Fail(r) \/ \E c \in Calls : Call(r, c)
         \/ Expire
         \/ UNCHANGED vars
  PROVE  RowMovesForward /\ AnswersAreTrue /\ AtomicTypes'
<1>1. CASE Expire \/ UNCHANGED vars
  BY <1>1 DEF Expire, vars, RowMovesForward, AnswersAreTrue, AtomicTypes
<1>2. ASSUME NEW r \in Requests, NEW a \in {"error", "pending"} \cup Refusals,
             battle' = battle, call' \in [Requests -> Calls],
             answer' = [answer EXCEPT ![r] = a],
             a \in Refusals => Verdict(battle, call[r]) = a
      PROVE  RowMovesForward /\ AnswersAreTrue /\ AtomicTypes'
  <2>1. RowMovesForward
    BY <1>2 DEF RowMovesForward
  <2>2. AtomicTypes'
    BY <1>2 DEF AtomicTypes
  <2>3. a # "ok"
    BY DEF Refusals
  <2>4. AnswersAreTrue
    BY <1>2, <2>3 DEF AnswersAreTrue, AtomicTypes
  <2> QED  BY <2>1, <2>2, <2>4
<1>3. ASSUME NEW r \in Requests, Refuse(r)
      PROVE  RowMovesForward /\ AnswersAreTrue /\ AtomicTypes'
  <2>1. Verdict(battle, call[r]) \in Refusals
    BY <1>3, VerdictIsAnswer DEF Refuse
  <2> QED  BY <1>2, <1>3, <2>1 DEF Refuse, AtomicTypes
<1>4. ASSUME NEW r \in Requests, Fail(r)
      PROVE  RowMovesForward /\ AnswersAreTrue /\ AtomicTypes'
  BY <1>2, <1>4 DEF Fail, AtomicTypes, Refusals
<1>5. ASSUME NEW r \in Requests, NEW c \in Calls, Call(r, c)
      PROVE  RowMovesForward /\ AnswersAreTrue /\ AtomicTypes'
  BY <1>2, <1>5 DEF Call, AtomicTypes, Refusals
<1> QED  BY <1>1, <1>3, <1>4, <1>5

\* In the atomic battle, and by PgImplementsAtomic in the rows of Postgres too,
\* the row moves forward and callers are told the truth.
THEOREM AtomicPromises ==
  ImplementsAtomic => [][RowMovesForward /\ AnswersAreTrue]_vars
<1>1. Init => AtomicTypes
  <2> SUFFICES ASSUME Init PROVE AtomicTypes
    OBVIOUS
  <2>1. PICK p \in Players : battle = Opened(p)
    BY DEF Init
  <2>2. Opened(p) \in Battles
    BY DEF Opened, Battles
  <2>3. [op |-> "join", by |-> p] \in Calls
    BY DEF Calls
  <2>4. (CHOOSE c \in Calls : TRUE) \in Calls
    BY <2>3
  <2> QED  BY <2>1, <2>2, <2>4 DEF Init, AtomicTypes
<1>2. AtomicTypes /\ [Next]_vars => AtomicTypes' /\ [RowMovesForward /\ AnswersAreTrue]_vars
  BY AcceptMovesForward, QuietMovesForward DEF Next
<1> QED  BY <1>1, <1>2, PTL DEF ImplementsAtomic, Spec

\* With retries, replicas and sweeps: a version is never reused or skipped, no
\* late writer brings back a battle that was swept or changes one that is over,
\* and "ok" is only said of what was committed.
THEOREM PgRowMovesForward ==
  PgSpec => [][RowMovesForward /\ AnswersAreTrue]_vars
BY AtomicPromises, PgImplementsAtomic, PTL
=============================================================================

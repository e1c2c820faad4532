---------------------------- MODULE ServiceProofs ----------------------------
(***************************************************************************)
(* Theorems about the lobby of the service, on either store: what sweeps   *)
(* may take between two store calls of a handler, and what the tables of   *)
(* Postgres say, for any number of replicas, requests, trainers and        *)
(* battles.                                                                *)
(***************************************************************************)
EXTENDS Service, FiniteSetTheorems, TLAPS

Handlers == {"create", "join", "turn"}

RequestTypes ==
  /\ op \in [Requests -> Handlers \cup {"none", "list"}]
  /\ pc \in [Requests -> {"idle", "auth", "touch", "count", "sweep", "delete", "insert",
                          "update", "sweepTrainers", "deleteTrainers"}]
  /\ token \in [Requests -> Tokens \cup {NoToken}]
  /\ target \in [Requests -> Ids \cup {NoId}]

\* A handler has the token it came with, and its battle until it is done.
RequestsFit ==
  \A r \in Requests :
    /\ op[r] = "list" => pc[r] \in {"sweep", "delete", "sweepTrainers", "deleteTrainers"}
    /\ op[r] = "none" => pc[r] = "idle"
    /\ op[r] \in Handlers => token[r] \in Tokens
    /\ op[r] \in {"join", "turn"} => target[r] \in Ids
    /\ op[r] = "create" => pc[r] \in {"auth", "touch", "count", "sweep", "delete", "insert"}
    /\ op[r] \in {"join", "turn"} => pc[r] \in {"auth", "touch", "update"}

TrainerTypes ==
  /\ trainer \in [Tokens -> Names \cup {Unissued, Swept}]
  /\ seenAge \in [Tokens -> Nat]

BattleTypes ==
  /\ status \in [Ids -> {"none", "waiting", "active", "finished", "gone"}]
  /\ opener \in [Ids -> Tokens \cup {NoToken}]
  /\ joiner \in [Ids -> Tokens \cup {NoToken}]
  /\ touchedAge \in [Ids -> Nat]

\* A battle that is there has its opener, and one that was joined its joiner.
SidesFit ==
  \A id \in Ids :
    /\ Present(id) => opener[id] \in Tokens
    /\ status[id] \in {"active", "finished"} <=> joiner[id] \in Tokens

TypeInv == /\ store \in {"postgres", "memory"}
           /\ RequestTypes /\ RequestsFit /\ TrainerTypes /\ BattleTypes /\ SidesFit

-----------------------------------------------------------------------------
\* MemLobby speaks of the same variables as Lobby does.
LEMMA SameWords ==
  /\ \A t : Memory!Known(t) <=> Known(t)
  /\ \A id : Memory!Expired(id) <=> Expired(id)
  /\ \A r \in Requests : \A s : Memory!Proceed(r, s) <=> Proceed(r, s)
  /\ \A r \in Requests : Memory!Done(r) <=> Done(r)
  /\ \A S : Memory!DropTrainers(S) <=> DropTrainers(S)
  /\ \A S : Memory!DropBattles(S) <=> DropBattles(S)
  /\ \A o, t, id : Memory!Accepts(o, t, id) <=> Accepts(o, t, id)
  /\ \A o, t, id : Memory!Updates(o, t, id) <=> Updates(o, t, id)
<1>1. \A t : Memory!Known(t) <=> Known(t)
  BY DEF Memory!Known, Known
<1>2. \A id : Memory!Expired(id) <=> Expired(id)
  BY DEF Memory!Expired, Expired
<1>3. \A r \in Requests : \A s : Memory!Proceed(r, s) <=> Proceed(r, s)
  BY DEF Memory!Proceed, Proceed, Memory!Goto, Goto
<1>4. \A r \in Requests : Memory!Done(r) <=> Done(r)
  BY DEF Memory!Done, Done, Memory!Goto, Goto
<1>5. \A S : Memory!DropTrainers(S) <=> DropTrainers(S)
  BY DEF Memory!DropTrainers, DropTrainers
<1>6. \A S : Memory!DropBattles(S) <=> DropBattles(S)
  BY DEF Memory!DropBattles, DropBattles
<1>7. \A o, t, id : Memory!Accepts(o, t, id) <=> Accepts(o, t, id)
  BY DEF Memory!Accepts, Accepts
<1>8. \A o, t, id : Memory!Updates(o, t, id) <=> Updates(o, t, id)
  BY DEF Memory!Updates, Updates
<1> QED  BY <1>1, <1>2, <1>3, <1>4, <1>5, <1>6, <1>7, <1>8

\* The arrival of a request, a registration and the passing of time are the
\* same on either store.
Arrivals == \E r \in Requests : CreateBattle(r) \/ JoinBattle(r) \/ TakeTurn(r)

LEMMA SameArrivals ==
  /\ (\E r \in Requests : Memory!CreateBattle(r) \/ Memory!JoinBattle(r) \/ Memory!TakeTurn(r))
     <=> Arrivals
  /\ \A n : Memory!RegisterTrainer(n) <=> RegisterTrainer(n)
  /\ Memory!TimePasses <=> TimePasses
<1>1. \A r \in Requests : \A o, s, t, id : Memory!Arrive(r, o, s, t, id) <=> Arrive(r, o, s, t, id)
  BY DEF Memory!Arrive, Arrive, Memory!Goto, Goto, Memory!trainerVars, Memory!battleVars,
         trainerVars, battleVars
<1>2. \A r \in Requests : /\ Memory!CreateBattle(r) <=> CreateBattle(r)
                          /\ Memory!JoinBattle(r) <=> JoinBattle(r)
                          /\ Memory!TakeTurn(r) <=> TakeTurn(r)
  BY <1>1 DEF Memory!CreateBattle, CreateBattle, Memory!JoinBattle, JoinBattle,
              Memory!TakeTurn, TakeTurn, Memory!Issued, Issued
<1>3. \A n : Memory!RegisterTrainer(n) <=> RegisterTrainer(n)
  BY DEF Memory!RegisterTrainer, RegisterTrainer, Memory!battleVars, Memory!requestVars,
         battleVars, requestVars
<1>4. Memory!TimePasses <=> TimePasses
  BY DEF TimePasses, Memory!TimePasses, Memory!Known, Known, Memory!Present, Present,
         Memory!Older, Older, Memory!MaxAge, MaxAge, Memory!requestVars, requestVars
<1> QED  BY <1>2, <1>3, <1>4 DEF Arrivals

ExpiredIds == {id \in Ids : Expired(id)}

\* What the sweep of the memory takes, once the expired battles are gone
IdleTokens == {t \in Tokens : Idle(t) /\ \A id \in Ids \ ExpiredIds : ~Plays(t, id)}

LEMMA SameSweep ==
  /\ Memory!ExpiredBattles = ExpiredIds
  /\ Memory!IdleTrainers = IdleTokens
  /\ Memory!SweepLocked <=> DropBattles(ExpiredIds) /\ DropTrainers(IdleTokens)
<1>1. Memory!ExpiredBattles = ExpiredIds
  BY SameWords DEF Memory!ExpiredBattles, ExpiredIds
<1>2. \A t \in Tokens, id \in Ids : /\ Memory!Plays(t, id) <=> Plays(t, id)
                                    /\ Memory!Idle(t) <=> Idle(t)
  BY SameWords DEF Memory!Plays, Plays, Memory!Present, Present, Memory!Idle, Idle
<1>3. \A t \in Tokens : Memory!Idle(t) <=> Idle(t)
  BY SameWords DEF Memory!Idle, Idle
<1>4. Memory!IdleTrainers = IdleTokens
  BY <1>1, <1>2, <1>3 DEF Memory!IdleTrainers, IdleTokens
<1> QED  BY <1>1, <1>4, SameWords DEF Memory!SweepLocked

-----------------------------------------------------------------------------
\* The requests take their steps in the order of their handlers.
LEMMA ProceedFits ==
  ASSUME RequestTypes, RequestsFit, NEW r \in Requests, NEW s, Proceed(r, s),
         \/ op[r] = "create" /\ s \in {"touch", "count", "sweep", "delete", "insert"}
         \/ op[r] \in {"join", "turn"} /\ s \in {"touch", "update"}
         \/ op[r] = "list" /\ s \in {"delete", "sweepTrainers", "deleteTrainers"}
  PROVE  RequestTypes' /\ RequestsFit'
<1>1. /\ pc' = [pc EXCEPT ![r] = s] /\ op' = op /\ token' = token /\ target' = target
      /\ op[r] \in Handlers \cup {"list"}
  BY DEF Proceed, Goto, Handlers
<1> QED  BY <1>1 DEF RequestTypes, RequestsFit, Handlers

LEMMA DoneFits ==
  ASSUME RequestTypes, RequestsFit, NEW r \in Requests, Done(r)
  PROVE  RequestTypes' /\ RequestsFit'
<1>1. /\ pc' = [pc EXCEPT ![r] = "idle"] /\ op' = [op EXCEPT ![r] = "none"]
      /\ token' = [token EXCEPT ![r] = NoToken] /\ target' = [target EXCEPT ![r] = NoId]
  BY DEF Done, Goto
<1> QED  BY <1>1 DEF RequestTypes, RequestsFit, Handlers

LEMMA ArriveFits ==
  ASSUME RequestTypes, RequestsFit, NEW r \in Requests, NEW o, NEW s, NEW t, NEW id,
         Arrive(r, o, s, t, id),
         \/ o = "create" /\ s = "auth" /\ t \in Tokens /\ id = NoId
         \/ o \in {"join", "turn"} /\ s = "auth" /\ t \in Tokens /\ id \in Ids
         \/ o = "list" /\ s = "sweep" /\ t = NoToken /\ id = NoId
  PROVE  RequestTypes' /\ RequestsFit'
<1>1. /\ pc' = [pc EXCEPT ![r] = s] /\ op' = [op EXCEPT ![r] = o]
      /\ token' = [token EXCEPT ![r] = t] /\ target' = [target EXCEPT ![r] = id]
  BY DEF Arrive, Goto
<1> QED  BY <1>1 DEF RequestTypes, RequestsFit, Handlers

LEMMA ArrivalsFit ==
  ASSUME RequestTypes, RequestsFit, Arrivals
  PROVE  RequestTypes' /\ RequestsFit'
<1>1. PICK r \in Requests : CreateBattle(r) \/ JoinBattle(r) \/ TakeTurn(r)
  BY DEF Arrivals
<1>2. CASE CreateBattle(r)
  BY <1>2, ArriveFits DEF CreateBattle, Issued
<1>3. CASE JoinBattle(r)
  BY <1>3, ArriveFits DEF JoinBattle, Issued
<1>4. CASE TakeTurn(r)
  BY <1>4, ArriveFits DEF TakeTurn, Issued
<1> QED  BY <1>1, <1>2, <1>3, <1>4

\* The steps of a request after its arrival
PgCalls(r) == \/ SelectTrainer(r) \/ TouchTrainer(r) \/ CountOpenBattlesFor(r)
              \/ SweepBattles(r) \/ DeleteBattles(r) \/ Insert(r) \/ Update(r)
              \/ SweepTrainers(r) \/ DeleteTrainers(r) \/ DatabaseError(r)

MemCalls(r) == \/ Memory!TrainerByToken(r) \/ Memory!OpenBattlesFor(r)
               \/ Memory!Create(r) \/ Memory!Update(r)

LEMMA PgCallsFit ==
  ASSUME RequestTypes, RequestsFit, NEW r \in Requests, PgCalls(r)
  PROVE  RequestTypes' /\ RequestsFit'
<1>1. op[r] \in Handlers \cup {"none", "list"}
  BY DEF RequestTypes
<1> USE ProceedFits, DoneFits DEF RequestsFit, Handlers
<1>2. CASE SelectTrainer(r)
  BY <1>1, <1>2 DEF SelectTrainer
<1>3. CASE TouchTrainer(r)
  BY <1>1, <1>3 DEF TouchTrainer
<1>4. CASE CountOpenBattlesFor(r)
  BY <1>1, <1>4 DEF CountOpenBattlesFor
<1>5. CASE SweepBattles(r)
  BY <1>1, <1>5 DEF SweepBattles
<1>6. CASE DeleteBattles(r)
  BY <1>1, <1>6 DEF DeleteBattles
<1>7. CASE Insert(r) \/ Update(r) \/ DeleteTrainers(r) \/ DatabaseError(r)
  BY <1>7 DEF Insert, Update, DeleteTrainers, DatabaseError
<1>8. CASE SweepTrainers(r)
  BY <1>1, <1>8 DEF SweepTrainers
<1> QED  BY <1>2, <1>3, <1>4, <1>5, <1>6, <1>7, <1>8 DEF PgCalls

LEMMA MemCallsFit ==
  ASSUME RequestTypes, RequestsFit, NEW r \in Requests, MemCalls(r)
  PROVE  RequestTypes' /\ RequestsFit'
<1>1. op[r] \in Handlers \cup {"none", "list"}
  BY DEF RequestTypes
<1> USE ProceedFits, DoneFits, SameWords DEF RequestsFit, Handlers
<1>2. CASE Memory!TrainerByToken(r)
  BY <1>1, <1>2 DEF Memory!TrainerByToken
<1>3. CASE Memory!OpenBattlesFor(r)
  BY <1>1, <1>3 DEF Memory!OpenBattlesFor
<1>4. CASE Memory!Create(r) \/ Memory!Update(r)
  BY <1>4 DEF Memory!Create, Memory!Update
<1> QED  BY <1>2, <1>3, <1>4 DEF MemCalls

-----------------------------------------------------------------------------
\* What may happen to the trainers, and to the battles, in one step
LEMMA TouchTypes ==
  ASSUME TrainerTypes, NEW t \in Tokens, trainer' = trainer,
         seenAge' = [seenAge EXCEPT ![t] = 0]
  PROVE  TrainerTypes'
  BY DEF TrainerTypes

LEMMA DropTrainersTypes ==
  ASSUME TrainerTypes, NEW S, DropTrainers(S)
  PROVE  TrainerTypes'
  BY DEF TrainerTypes, DropTrainers

LEMMA RegisterTypes ==
  ASSUME TrainerTypes, NEW n \in Names, RegisterTrainer(n)
  PROVE  TrainerTypes'
  BY DEF TrainerTypes, RegisterTrainer

LEMMA OpensTypes ==
  ASSUME BattleTypes, SidesFit, NEW t \in Tokens, NEW id \in Ids, Opens(t, id)
  PROVE  BattleTypes' /\ SidesFit'
<1>1. /\ status' = [status EXCEPT ![id] = "waiting"] /\ opener' = [opener EXCEPT ![id] = t]
      /\ touchedAge' = [touchedAge EXCEPT ![id] = 0] /\ joiner' = joiner /\ status[id] = "none"
  BY DEF Opens
<1> QED  BY <1>1 DEF BattleTypes, SidesFit, Present

LEMMA UpdatesTypes ==
  ASSUME BattleTypes, SidesFit, NEW o \in {"join", "turn"}, NEW t \in Tokens, NEW id \in Ids,
         Accepts(o, t, id), Updates(o, t, id)
  PROVE  BattleTypes' /\ SidesFit'
<1>1. touchedAge' = [touchedAge EXCEPT ![id] = 0] /\ opener' = opener
  BY DEF Updates
<1>2. CASE o = "join"
  <2>1. /\ status' = [status EXCEPT ![id] = "active"] /\ joiner' = [joiner EXCEPT ![id] = t]
        /\ status[id] = "waiting"
    BY <1>2 DEF Updates, Accepts
  <2> QED  BY <1>1, <2>1 DEF BattleTypes, SidesFit, Present
<1>3. CASE o = "turn"
  <2>1. PICK s \in {"active", "finished"} : status' = [status EXCEPT ![id] = s]
    BY <1>3 DEF Updates
  <2>2. joiner' = joiner /\ status[id] = "active"
    BY <1>3 DEF Updates, Accepts
  <2> QED  BY <1>1, <2>1, <2>2 DEF BattleTypes, SidesFit, Present
<1> QED  BY <1>2, <1>3

LEMMA DropBattlesTypes ==
  ASSUME BattleTypes, SidesFit, NEW S, DropBattles(S)
  PROVE  BattleTypes' /\ SidesFit'
  BY LobbyAssumption DEF BattleTypes, SidesFit, DropBattles, Present

LEMMA TimeTypes ==
  ASSUME TrainerTypes, BattleTypes, SidesFit, TimePasses
  PROVE  TrainerTypes' /\ BattleTypes' /\ SidesFit'
<1>1. MaxAge \in Nat /\ TrainerTTL + 1 \in Nat
  BY LobbyAssumption DEF MaxAge
<1>2. \A age, limit \in Nat : Older(age, limit) \in Nat
  BY DEF Older
<1>3. seenAge' \in [Tokens -> Nat] /\ touchedAge' \in [Ids -> Nat]
  BY <1>1, <1>2 DEF TimePasses, TrainerTypes, BattleTypes
<1> QED  BY <1>3 DEF TimePasses, TrainerTypes, BattleTypes, SidesFit, Present

\* The create of the memory, which sweeps the expired battles as it stores one
MemCreates(t, id) ==
  /\ status[id] = "none"
  /\ status' = [i \in Ids |-> IF i = id THEN "waiting"
                              ELSE IF Expired(i) THEN "gone" ELSE status[i]]
  /\ opener' = [i \in Ids |-> IF i = id THEN t ELSE IF Expired(i) THEN NoToken ELSE opener[i]]
  /\ joiner' = [i \in Ids |-> IF Expired(i) THEN NoToken ELSE joiner[i]]
  /\ touchedAge' = [i \in Ids |-> IF Expired(i) THEN 0 ELSE touchedAge[i]]

LEMMA MemCreatesTypes ==
  ASSUME BattleTypes, SidesFit, NEW t \in Tokens, NEW id \in Ids, MemCreates(t, id)
  PROVE  BattleTypes' /\ SidesFit'
<1>1. ~Expired(id)
  BY DEF MemCreates, Expired
<1>2. BattleTypes'
  BY DEF MemCreates, BattleTypes
<1>3. joiner'[id] \notin Tokens
  BY <1>1 DEF MemCreates, SidesFit
<1> QED  BY <1>1, <1>2, <1>3, LobbyAssumption DEF MemCreates, BattleTypes, SidesFit, Present

LEMMA MemCreateIs ==
  ASSUME NEW r \in Requests, Memory!Create(r)
  PROVE  /\ pc[r] = "insert" /\ Done(r) /\ DropTrainers(IdleTokens)
         /\ \E id \in Ids : MemCreates(token[r], id)
  BY SameWords, SameSweep DEF Memory!Create, MemCreates

-----------------------------------------------------------------------------
Stays == UNCHANGED <<trainerVars, battleVars>>

LEMMA StaysTypes ==
  ASSUME TrainerTypes, BattleTypes, SidesFit, NEW A, NEW B
  PROVE  /\ UNCHANGED trainerVars => TrainerTypes'
         /\ UNCHANGED battleVars => BattleTypes' /\ SidesFit'
  BY DEF trainerVars, battleVars, TrainerTypes, BattleTypes, SidesFit, Present

LEMMA ArrivalsStay == Arrivals => Stays
  BY DEF Arrivals, CreateBattle, JoinBattle, TakeTurn, Arrive, Stays

LEMMA PgCallsTypes ==
  ASSUME TypeInv, NEW r \in Requests, PgCalls(r)
  PROVE  TrainerTypes' /\ BattleTypes' /\ SidesFit'
<1> USE StaysTypes DEF TypeInv
<1>1. CASE \/ SelectTrainer(r) \/ CountOpenBattlesFor(r) \/ SweepBattles(r)
           \/ SweepTrainers(r) \/ DatabaseError(r)
  BY <1>1 DEF SelectTrainer, CountOpenBattlesFor, SweepBattles, SweepTrainers, DatabaseError
<1>2. CASE TouchTrainer(r)
  BY <1>2, TouchTypes DEF TouchTrainer, Known, trainerVars
<1>3. CASE DeleteBattles(r)
  BY <1>3, DropBattlesTypes DEF DeleteBattles
<1>4. CASE Insert(r)
  BY <1>4, OpensTypes DEF Insert, Known
<1>5. CASE Update(r)
  <2>1. /\ op[r] \in {"join", "turn"} /\ token[r] \in Tokens /\ target[r] \in Ids
    BY <1>5 DEF Update, RequestTypes, RequestsFit, Handlers
  <2> QED  BY <1>5, <2>1, UpdatesTypes DEF Update
<1>6. CASE DeleteTrainers(r)
  BY <1>6, DropTrainersTypes DEF DeleteTrainers
<1> QED  BY <1>1, <1>2, <1>3, <1>4, <1>5, <1>6 DEF PgCalls

LEMMA MemCallsTypes ==
  ASSUME TypeInv, NEW r \in Requests, MemCalls(r)
  PROVE  TrainerTypes' /\ BattleTypes' /\ SidesFit'
<1> USE StaysTypes, SameWords DEF TypeInv
<1>1. CASE Memory!TrainerByToken(r)
  BY <1>1, TouchTypes DEF Memory!TrainerByToken, Known, trainerVars, Memory!battleVars, battleVars
<1>2. CASE Memory!OpenBattlesFor(r)
  BY <1>2, SameSweep, DropBattlesTypes, DropTrainersTypes DEF Memory!OpenBattlesFor
<1>3. CASE Memory!Create(r)
  <2>1. pc[r] = "insert" /\ token[r] \in Tokens
    BY <1>3, MemCreateIs DEF RequestTypes, RequestsFit, Handlers
  <2> QED  BY <1>3, <2>1, MemCreateIs, MemCreatesTypes, DropTrainersTypes
<1>4. CASE Memory!Update(r)
  <2>1. /\ op[r] \in {"join", "turn"} /\ token[r] \in Tokens /\ target[r] \in Ids
    BY <1>4 DEF Memory!Update, RequestTypes, RequestsFit, Handlers
  <2> QED
    BY <1>4, <2>1, UpdatesTypes DEF Memory!Update, Memory!battleVars, battleVars,
                                    Memory!trainerVars, trainerVars
<1> QED  BY <1>1, <1>2, <1>3, <1>4 DEF MemCalls

\* A step of the service, in the words of this module
LEMMA ServiceSteps ==
  ASSUME ServiceNext
  PROVE  /\ store' = store
         /\ \/ /\ Arrivals \/ TimePasses \/ \E n \in Names : RegisterTrainer(n)
               /\ UNCHANGED <<rows, picked, missed>>
            \/ /\ store = "postgres"
               /\ \E r \in Requests : /\ ListWaitingTrainers(r) \/ PgCalls(r)
                                      /\ TouchTrainer(r) \/ UNCHANGED missed
            \/ /\ store = "memory" /\ UNCHANGED <<rows, picked, missed>>
               /\ \/ \E r \in Requests : MemCalls(r)
                  \/ /\ UNCHANGED requestVars
                     /\ DropBattles(ExpiredIds) /\ DropTrainers(IdleTokens)
<1>1. CASE OnPostgres /\ UNCHANGED store
  <2>1. PgLobbyNext /\ store = "postgres"
    BY <1>1 DEF OnPostgres
  <2> QED  BY <1>1, <2>1 DEF PgLobbyNext, PgCalls, Arrivals
<1>2. CASE OnMemory /\ UNCHANGED store
  <2>1. Memory!MemNext /\ store = "memory" /\ UNCHANGED <<rows, picked, missed>>
    BY <1>2 DEF OnMemory
  <2>2. Memory!Waiting => /\ UNCHANGED requestVars
                          /\ DropBattles(ExpiredIds) /\ DropTrainers(IdleTokens)
    BY SameSweep DEF Memory!Waiting, Memory!requestVars, requestVars
  <2> QED  BY <1>2, <2>1, <2>2, SameArrivals DEF Memory!MemNext, MemCalls
<1> QED  BY <1>1, <1>2 DEF ServiceNext

LEMMA TypesStep == TypeInv /\ [ServiceNext]_serviceVars => TypeInv'
<1> SUFFICES ASSUME TypeInv, [ServiceNext]_serviceVars
             PROVE  TypeInv'
  OBVIOUS
<1> USE DEF TypeInv
<1>1. CASE UNCHANGED serviceVars
  BY <1>1, StaysTypes DEF serviceVars, pgLobbyVars, lobbyVars, requestVars, RequestTypes, RequestsFit
<1>2. CASE ServiceNext
  <2>1. store' = store
    BY <1>2, ServiceSteps
  <2>2. Stays /\ RequestTypes' /\ RequestsFit' => TypeInv'
    BY <2>1, StaysTypes DEF Stays
  <2>3. UNCHANGED requestVars => RequestTypes' /\ RequestsFit'
    BY DEF requestVars, RequestTypes, RequestsFit
  <2>4. Arrivals => TypeInv'
    BY <2>2, ArrivalsStay, ArrivalsFit
  <2>5. TimePasses => TypeInv'
    BY <2>1, <2>3, TimeTypes DEF TimePasses, requestVars
  <2>6. (\E n \in Names : RegisterTrainer(n)) => TypeInv'
    BY <2>1, <2>3, StaysTypes, RegisterTypes DEF RegisterTrainer
  <2>7. \A r \in Requests : PgCalls(r) \/ MemCalls(r) => TypeInv'
    BY <2>1, PgCallsFit, PgCallsTypes, MemCallsFit, MemCallsTypes
  <2>8. \A r \in Requests : ListWaitingTrainers(r) => TypeInv'
    BY <2>2, ArriveFits DEF ListWaitingTrainers, Arrive, Stays
  <2>9. UNCHANGED requestVars /\ DropBattles(ExpiredIds) /\ DropTrainers(IdleTokens) => TypeInv'
    BY <2>1, <2>3, DropBattlesTypes, DropTrainersTypes
  <2> QED  BY <1>2, <2>4, <2>5, <2>6, <2>7, <2>8, <2>9, ServiceSteps
<1> QED  BY <1>1, <1>2

LEMMA TypesStart == ServiceInit => TypeInv
  BY LobbyAssumption DEF ServiceInit, PgLobbyInit, LobbyInit, TypeInv, RequestTypes, RequestsFit,
     Handlers, TrainerTypes, BattleTypes, SidesFit, Present

-----------------------------------------------------------------------------
\* On Postgres: whoever waits holds the place, so nobody waits twice; and what a
\* sweep has picked but not deleted is still expired if someone waits in it.
OneEach == \A i, j \in Ids : /\ status[i] = "waiting" /\ status[j] = "waiting"
                             /\ opener[i] = opener[j]
                             => i = j

PickedExpired ==
  \A r \in Requests : \A id \in picked[r] :
    pc[r] = "delete" => /\ id \in Ids /\ status[id] # "none"
                        /\ status[id] = "waiting" => touchedAge[id] > WaitingTTL

RowTypes == /\ waitingFor \in [Ids -> Tokens \cup {NoToken}]
            /\ picked \in [Requests -> SUBSET (Ids \cup Tokens)]

CapInv == /\ TypeInv /\ RowTypes
          /\ store = "postgres" => PlaceHeldOnlyWhileWaiting /\ OneEach /\ PickedExpired

\* The request table of a step that moves one request on
Moves(r, s) == pc' = [pc EXCEPT ![r] = s]

LEMMA CapQuiet ==
  ASSUME CapInv, NEW r \in Requests, NEW s, Moves(r, s), s # "delete",
         UNCHANGED <<battleVars, waitingFor, store>>, NEW P \in SUBSET (Ids \cup Tokens),
         picked' = picked \/ picked' = [picked EXCEPT ![r] = P]
  PROVE  RowTypes' /\ (store' = "postgres" => PlaceHeldOnlyWhileWaiting' /\ OneEach' /\ PickedExpired')
<1> USE DEF CapInv, TypeInv, RowTypes, BattleTypes, RequestTypes, battleVars
<1>1. RowTypes'
  OBVIOUS
<1>2. PlaceHeldOnlyWhileWaiting => PlaceHeldOnlyWhileWaiting'
  BY DEF PlaceHeldOnlyWhileWaiting
<1>3. OneEach => OneEach'
  BY DEF OneEach
<1>4. PickedExpired => PickedExpired'
  BY DEF PickedExpired, Moves
<1> QED  BY <1>1, <1>2, <1>3, <1>4

LEMMA CapPgCalls ==
  ASSUME CapInv, store = "postgres", UNCHANGED store, NEW r \in Requests, PgCalls(r)
  PROVE  RowTypes' /\ PlaceHeldOnlyWhileWaiting' /\ OneEach' /\ PickedExpired'
<1> USE DEF CapInv, RowTypes
<1>1. /\ \A s : Proceed(r, s) => Moves(r, s)
      /\ Done(r) => Moves(r, "idle")
      /\ {} \in SUBSET (Ids \cup Tokens)
  BY DEF Proceed, Done, Goto, Moves
<1>2. CASE SelectTrainer(r) \/ CountOpenBattlesFor(r) \/ DatabaseError(r) \/ TouchTrainer(r)
  <2>1. \E s : Moves(r, s) /\ s # "delete"
    BY <1>1, <1>2 DEF SelectTrainer, CountOpenBattlesFor, DatabaseError, TouchTrainer
  <2>2. UNCHANGED <<battleVars, waitingFor, picked>>
    BY <1>2 DEF SelectTrainer, CountOpenBattlesFor, DatabaseError, TouchTrainer, rows
  <2> QED  BY <1>1, <2>1, <2>2, CapQuiet
<1>3. CASE SweepTrainers(r)
  <2>1. {t \in Tokens : Idle(t) /\ \A row \in sides : row[3] # t} \in SUBSET (Ids \cup Tokens)
    OBVIOUS
  <2> QED  BY <1>1, <1>3, <2>1, CapQuiet DEF SweepTrainers, rows
<1>4. CASE DeleteTrainers(r)
  BY <1>1, <1>4, CapQuiet DEF DeleteTrainers
<1>5. CASE SweepBattles(r)
  <2>1. PICK S \in Batches : picked' = [picked EXCEPT ![r] = S]
    BY <1>5 DEF SweepBattles
  <2>2. S \subseteq {id \in Ids : Expired(id)}
    BY DEF Batches
  <2>3. Moves(r, "delete") /\ UNCHANGED <<battleVars, waitingFor>>
    BY <1>1, <1>5 DEF SweepBattles, rows
  <2>4. RowTypes' /\ PlaceHeldOnlyWhileWaiting' /\ OneEach'
    BY <2>1, <2>2, <2>3 DEF battleVars, PlaceHeldOnlyWhileWaiting, OneEach
  <2>5. \A id \in S : status[id] # "none" /\ (status[id] = "waiting" => touchedAge[id] > WaitingTTL)
    BY <2>2 DEF Expired
  <2>6. PickedExpired'
    BY <2>1, <2>2, <2>3, <2>5 DEF battleVars, PickedExpired, Moves, TypeInv, RequestTypes
  <2> QED  BY <2>4, <2>6
<1>6. CASE DeleteBattles(r)
  <2>1. PICK swept \in {picked[r], {}} :
          /\ DropBattles(swept)
          /\ waitingFor' = [id \in Ids |-> IF id \in swept THEN NoToken ELSE waitingFor[id]]
    BY <1>6 DEF DeleteBattles
  <2>2. picked' = [picked EXCEPT ![r] = {}] /\ \E s : Moves(r, s)
    BY <1>1, <1>6 DEF DeleteBattles
  <2>3. RowTypes'
    BY <2>1, <2>2
  <2>4. PlaceHeldOnlyWhileWaiting' /\ OneEach'
    BY <2>1 DEF DropBattles, PlaceHeldOnlyWhileWaiting, OneEach
  <2>5. PickedExpired'
    BY <2>1, <2>2 DEF DropBattles, PickedExpired, Moves, TypeInv, RequestTypes
  <2> QED  BY <2>3, <2>4, <2>5
<1>7. CASE Insert(r)
  <2>1. Moves(r, "idle") /\ picked' = picked
    BY <1>1, <1>7 DEF Insert
  <2>2. CASE UNCHANGED <<battleVars, rows>>
    BY <1>1, <2>1, <2>2, CapQuiet DEF rows
  <2>3. ASSUME token[r] \in Tokens, \A id \in Ids : waitingFor[id] # token[r], NEW id \in Ids,
               Opens(token[r], id), waitingFor' = [waitingFor EXCEPT ![id] = token[r]]
        PROVE  RowTypes' /\ PlaceHeldOnlyWhileWaiting' /\ OneEach' /\ PickedExpired'
    <3>1. /\ status' = [status EXCEPT ![id] = "waiting"] /\ status[id] = "none"
          /\ opener' = [opener EXCEPT ![id] = token[r]]
          /\ touchedAge' = [touchedAge EXCEPT ![id] = 0]
      BY <2>3 DEF Opens
    <3>2. RowTypes' /\ PlaceHeldOnlyWhileWaiting'
      BY <2>1, <2>3, <3>1 DEF PlaceHeldOnlyWhileWaiting, TypeInv, BattleTypes
    <3>3. \A i \in Ids : status[i] = "waiting" => opener[i] # token[r]
      BY <2>3 DEF PlaceHeldOnlyWhileWaiting
    <3>4. OneEach'
      BY <3>1, <3>3 DEF OneEach, TypeInv, BattleTypes
    <3>5. PickedExpired'
      BY <2>1, <3>1 DEF PickedExpired, Moves, TypeInv, RequestTypes, BattleTypes
    <3> QED  BY <3>2, <3>4, <3>5
  <2> QED  BY <1>7, <2>2, <2>3 DEF Insert, Known
<1>8. CASE Update(r)
  <2>1. Moves(r, "idle") /\ picked' = picked
    BY <1>1, <1>8 DEF Update
  <2>2. CASE UNCHANGED <<battleVars, rows>>
    BY <1>1, <2>1, <2>2, CapQuiet DEF rows
  <2>3. CASE /\ Accepts(op[r], token[r], target[r]) /\ Updates(op[r], token[r], target[r])
             /\ waitingFor' = PlaceAfterUpdate(target[r])
    <3>1. PICK s \in {"active", "finished"} : status' = [status EXCEPT ![target[r]] = s]
      BY <2>3 DEF Updates
    <3>2. /\ target[r] \in Ids /\ status[target[r]] # "none"
      BY <1>8, <2>3 DEF Update, Accepts, TypeInv, RequestTypes, RequestsFit, Handlers
    <3>3. /\ opener' = opener /\ touchedAge' = [touchedAge EXCEPT ![target[r]] = 0]
          /\ waitingFor' = [waitingFor EXCEPT ![target[r]] = NoToken]
      BY <2>3 DEF Updates, PlaceAfterUpdate
    <3>4. RowTypes' /\ PlaceHeldOnlyWhileWaiting'
      BY <2>1, <3>1, <3>2, <3>3 DEF PlaceHeldOnlyWhileWaiting, TypeInv, BattleTypes
    <3>5. OneEach'
      BY <3>1, <3>2, <3>3 DEF OneEach, TypeInv, BattleTypes
    <3>6. PickedExpired'
      BY <2>1, <3>1, <3>2, <3>3 DEF PickedExpired, Moves, TypeInv, RequestTypes, BattleTypes
    <3> QED  BY <3>4, <3>5, <3>6
  <2> QED  BY <1>8, <2>2, <2>3 DEF Update
<1> QED  BY <1>2, <1>3, <1>4, <1>5, <1>6, <1>7, <1>8 DEF PgCalls

LEMMA CapStep == CapInv /\ [ServiceNext]_serviceVars => CapInv'
<1> SUFFICES ASSUME CapInv, [ServiceNext]_serviceVars
             PROVE  CapInv'
  OBVIOUS
<1>1. TypeInv'
  BY TypesStep DEF CapInv
<1>2. ASSUME UNCHANGED <<battleVars, waitingFor, picked, pc, store>>
      PROVE  CapInv'
  BY <1>1, <1>2 DEF battleVars, CapInv, RowTypes, PlaceHeldOnlyWhileWaiting, OneEach, PickedExpired
<1>3. CASE UNCHANGED serviceVars
  BY <1>2, <1>3 DEF serviceVars, pgLobbyVars, lobbyVars, requestVars, rows
<1>4. CASE ServiceNext
  <2>1. store' = store
    BY <1>4, ServiceSteps
  <2>2. CASE /\ Arrivals \/ TimePasses \/ \E n \in Names : RegisterTrainer(n)
             /\ UNCHANGED <<rows, picked>>
    <3>1. CASE Arrivals
      <4>1. PICK r \in Requests : Moves(r, "auth") /\ UNCHANGED battleVars
        BY <3>1 DEF Arrivals, CreateBattle, JoinBattle, TakeTurn, Arrive, Goto, Moves
      <4>2. {} \in SUBSET (Ids \cup Tokens)
        OBVIOUS
      <4> QED  BY <1>1, <2>1, <2>2, <4>1, <4>2, CapQuiet DEF rows, CapInv
    <3>2. CASE \E n \in Names : RegisterTrainer(n)
      BY <1>2, <2>1, <2>2, <3>2 DEF RegisterTrainer, requestVars, rows
    <3>3. CASE TimePasses
      <4>1. \A r \in Requests : pc'[r] = "idle"
        BY <3>3 DEF TimePasses, requestVars
      <4> QED
        BY <1>1, <2>1, <2>2, <3>3, <4>1 DEF TimePasses, rows, CapInv, RowTypes,
           PlaceHeldOnlyWhileWaiting, OneEach, PickedExpired
    <3> QED  BY <2>2, <3>1, <3>2, <3>3
  <2>3. ASSUME store = "postgres", NEW r \in Requests, ListWaitingTrainers(r) \/ PgCalls(r)
        PROVE  CapInv'
    <3>1. CASE ListWaitingTrainers(r)
      <4>1. /\ Moves(r, "sweep") /\ {} \in SUBSET (Ids \cup Tokens)
            /\ UNCHANGED <<battleVars, waitingFor, picked>>
        BY <3>1 DEF ListWaitingTrainers, Arrive, Goto, Moves, rows
      <4> QED  BY <1>1, <2>1, <4>1, CapQuiet DEF CapInv
    <3> QED  BY <1>1, <2>1, <2>3, <3>1, CapPgCalls DEF CapInv
  <2>4. CASE store = "memory" /\ UNCHANGED <<rows, picked>>
    BY <1>1, <2>1, <2>4 DEF CapInv, RowTypes, rows
  <2> QED  BY <1>4, <2>2, <2>3, <2>4, ServiceSteps
<1> QED  BY <1>3, <1>4

LEMMA CapStart == ServiceInit => CapInv
<1> SUFFICES ASSUME ServiceInit PROVE CapInv
  OBVIOUS
<1>1. TypeInv
  BY TypesStart
<1> QED
  BY <1>1 DEF ServiceInit, PgLobbyInit, LobbyInit, CapInv, RowTypes, PlaceHeldOnlyWhileWaiting,
              OneEach, PickedExpired

LEMMA OneEachCounts == OneEach => OneWaitingEach
<1> SUFFICES ASSUME OneEach, NEW t \in Tokens
             PROVE  Cardinality(OpenBattles(t)) <= 1
  BY DEF OneWaitingEach
<1>1. CASE OpenBattles(t) = {}
  BY <1>1, FS_EmptySet
<1>2. CASE OpenBattles(t) # {}
  <2>1. PICK id \in OpenBattles(t) : TRUE
    BY <1>2
  <2>2. OpenBattles(t) = {id}
    BY <2>1 DEF OpenBattles, OneEach
  <2> QED  BY <2>2, FS_Singleton
<1> QED  BY <1>1, <1>2

\* A battle that goes while someone waits in it has outlived its TTL, though the
\* sweep that deletes it looked at it some calls ago.
LEMMA WaitersStep ==
  CapInv /\ [ServiceNext]_serviceVars
  => [\A id \in Ids : status[id] = "waiting" /\ status'[id] = "gone"
                        => touchedAge[id] > WaitingTTL]_lobbyVars
<1> SUFFICES ASSUME CapInv, ServiceNext, NEW id \in Ids, status[id] = "waiting",
                    status'[id] = "gone"
             PROVE  touchedAge[id] > WaitingTTL
  BY DEF serviceVars, pgLobbyVars, lobbyVars, battleVars
<1>1. Expired(id) => touchedAge[id] > WaitingTTL
  BY DEF Expired
<1>2. \A S : DropBattles(S) => id \in S
  BY DEF DropBattles
<1>3. ~UNCHANGED battleVars
  BY DEF battleVars
<1>4. ~Arrivals /\ ~TimePasses /\ ~\E n \in Names : RegisterTrainer(n)
  BY <1>3, ArrivalsStay DEF Stays, TimePasses, RegisterTrainer
<1>5. ASSUME NEW r \in Requests, ListWaitingTrainers(r) \/ PgCalls(r), store = "postgres"
      PROVE  touchedAge[id] > WaitingTTL
  <2>1. DeleteBattles(r)
    <3>1. \A i \in Ids, t \in Tokens : ~Opens(t, i)
      BY DEF Opens, CapInv, TypeInv, BattleTypes
    <3>2. \A o, t, i : ~Updates(o, t, i)
      BY DEF Updates, CapInv, TypeInv, BattleTypes
    <3> QED
      BY <1>3, <1>5, <3>1, <3>2 DEF ListWaitingTrainers, Arrive, PgCalls, SelectTrainer, TouchTrainer,
         CountOpenBattlesFor, SweepBattles, Insert, Update, SweepTrainers, DeleteTrainers,
         DatabaseError, Known
  <2>2. id \in picked[r] /\ pc[r] = "delete"
    BY <1>2, <2>1 DEF DeleteBattles
  <2> QED  BY <1>5, <2>2 DEF CapInv, PickedExpired
<1>6. ASSUME NEW r \in Requests, MemCalls(r)
      PROVE  touchedAge[id] > WaitingTTL
  <2>1. CASE Memory!TrainerByToken(r)
    BY <1>3, <2>1 DEF Memory!TrainerByToken, Memory!battleVars, battleVars
  <2>2. CASE Memory!OpenBattlesFor(r)
    BY <1>1, <1>2, <2>2, SameSweep DEF Memory!OpenBattlesFor, ExpiredIds
  <2>3. CASE Memory!Create(r)
    <3>1. PICK i \in Ids : MemCreates(token[r], i)
      BY <2>3, MemCreateIs
    <3> QED  BY <1>1, <3>1 DEF MemCreates
  <2>4. CASE Memory!Update(r)
    <3>1. ~UNCHANGED Memory!battleVars
      BY DEF Memory!battleVars
    <3>2. Updates(op[r], token[r], target[r])
      BY <2>4, <3>1, SameWords DEF Memory!Update
    <3> QED  BY <3>2 DEF Updates, CapInv, TypeInv, BattleTypes
  <2> QED  BY <1>6, <2>1, <2>2, <2>3, <2>4 DEF MemCalls
<1>7. DropBattles(ExpiredIds) => touchedAge[id] > WaitingTTL
  BY <1>1, <1>2 DEF ExpiredIds
<1> QED  BY <1>4, <1>5, <1>6, <1>7, ServiceSteps

\* One waiting battle per trainer, whatever two replicas have counted, for any
\* number of requests, trainers and battles (battles_one_waiting_per_trainer).
THEOREM OneWaits == ServiceSpec => []OneWaitingInPostgres
<1>1. CapInv => OneWaitingInPostgres
  BY OneEachCounts DEF CapInv, OneWaitingInPostgres
<1> QED  BY <1>1, CapStart, CapStep, PTL DEF ServiceSpec

\* waiting_for_token names a battle's opener exactly while it waits (game.sql).
THEOREM PlacesReleased == ServiceSpec => []PlacesAreReleased
<1>1. CapInv => PlacesAreReleased
  BY DEF CapInv, PlacesAreReleased
<1> QED  BY <1>1, CapStart, CapStep, PTL DEF ServiceSpec

\* On either store, a battle someone waits in goes only after waitingBattleTTL.
THEOREM WaitersKept == ServiceSpec => WaitersKeepTheirPlace
  BY CapStart, CapStep, WaitersStep, PTL DEF ServiceSpec, WaitersKeepTheirPlace

-----------------------------------------------------------------------------
(***************************************************************************)
(* Tokens in use.  A handler that is past its touch has a token that is    *)
(* not up for the sweep, and time does not pass until it is done: a sweep  *)
(* of trainers does not take it, nor one that has just been given a side.  *)
(* The exception are the tokens whose touch failed when it mattered, and   *)
(* the history keeps them until a touch of theirs succeeds.                *)
(***************************************************************************)
FreshSteps == {"count", "sweep", "delete", "insert", "update"}

\* Up for the sweep, and not because a touch failed
Ripe(t) == Idle(t) /\ t \notin missed

Fresh == \A r \in Requests : pc[r] \in FreshSteps => ~Ripe(token[r])

\* The side rows are those of the battles and of the trainers that are there.
RowsFit ==
  /\ sides \subseteq Ids \X {0, 1} \X Tokens
  /\ \A id \in Ids, t \in Tokens :
       /\ <<id, 0, t>> \in sides <=> Present(id) /\ t = opener[id] /\ Known(t)
       /\ <<id, 1, t>> \in sides <=> Present(id) /\ t = joiner[id] /\ Known(t)

HasRow(t) == \E id \in Ids, i \in {0, 1} : <<id, i, t>> \in sides

\* A token picked for deletion that is still ripe has not been given a side.
PickedIdle ==
  \A r \in Requests : \A t \in Tokens :
    pc[r] = "deleteTrainers" /\ t \in picked[r] /\ Ripe(t) => ~HasRow(t)

\* The memory holds its mutex over look-up and touch: the token is good.
MemKnown == \A r \in Requests : pc[r] \in {"count", "insert", "update"} => Known(token[r])

MissedFits == missed \subseteq Tokens /\ \A t \in missed : trainer[t] # Unissued

KeptInv == /\ TypeInv /\ RowTypes /\ MissedFits /\ Fresh /\ PlayersKeepTokens
           /\ store = "postgres" => RowsFit /\ PickedIdle
           /\ store = "memory" => MemKnown /\ missed = {}

\* A step that lets somebody into a battle lets a known trainer in.
OnlyKnownEnter == \A t \in Tokens, id \in Ids : Plays(t, id)' => Plays(t, id) \/ Known(t)'

\* What every step must show of tokens and battles, whatever the store
Kept == Fresh' /\ PlayersKeepTokens' /\ OnlyKnownEnter

Others(r) == \A q \in Requests \ {r} : pc'[q] = pc[q] /\ token'[q] = token[q] /\ picked'[q] = picked[q]

\* A token that request r uses from this step on was in use, or is not ripe.
InUse(r) == \A t \in Tokens :
  pc'[r] \in FreshSteps /\ token'[r] = t
  => (pc[r] \in FreshSteps /\ token[r] = t) \/ ~Ripe(t)'

\* Nobody gets ripe.
NobodyOlder == \A t \in Tokens : Ripe(t)' => Ripe(t)

LEMMA OldestIsKnown ==
  /\ \A t : Ripe(t) => t \in Tokens /\ Known(t)
  /\ \A t : Ripe(t)' => t \in Tokens
  BY DEF Ripe, Idle, Known

LEMMA FreshKeeps ==
  ASSUME Fresh, NobodyOlder, NEW r \in Requests, InUse(r),
         \A q \in Requests \ {r} : pc'[q] = pc[q] /\ token'[q] = token[q]
  PROVE  Fresh'
<1> SUFFICES ASSUME NEW q \in Requests, pc'[q] \in FreshSteps, Ripe(token[q])'
             PROVE  FALSE
  BY DEF Fresh
<1>1. token'[q] \in Tokens
  BY OldestIsKnown
<1>2. CASE q = r
  BY <1>1, <1>2 DEF InUse, Fresh, NobodyOlder
<1>3. CASE q # r
  BY <1>1, <1>3 DEF Fresh, NobodyOlder
<1> QED  BY <1>2, <1>3

LEMMA PickedKeeps ==
  ASSUME PickedIdle, NobodyOlder, NEW r \in Requests, Others(r), pc'[r] # "deleteTrainers",
         \A t \in Tokens : HasRow(t)' => HasRow(t) \/ ~Ripe(t)'
  PROVE  PickedIdle'
<1> SUFFICES ASSUME NEW q \in Requests, NEW t \in Tokens, pc'[q] = "deleteTrainers", t \in picked'[q],
                    Ripe(t)'
             PROVE  ~HasRow(t)'
  BY DEF PickedIdle
<1>1. Ripe(t) /\ q # r
  BY DEF NobodyOlder
<1> QED  BY <1>1 DEF Others, PickedIdle

\* A player's token stays good, or joins the missed, or had no battle to lose.
LEMMA PlayersKeep ==
  ASSUME PlayersKeepTokens, OnlyKnownEnter,
         \A t \in Tokens : Known(t) \/ t \in missed
                           => Known(t)' \/ t \in missed' \/ \A id \in Ids : ~Plays(t, id)'
  PROVE  PlayersKeepTokens'
  BY DEF PlayersKeepTokens, OnlyKnownEnter

LEMMA Untouched ==
  ASSUME UNCHANGED <<trainerVars, missed>>
  PROVE  /\ NobodyOlder
         /\ \A t \in Tokens : /\ Known(t)' <=> Known(t)
                              /\ Ripe(t)' <=> Ripe(t)
                              /\ t \in missed' <=> t \in missed
  BY DEF trainerVars, NobodyOlder, Known, Idle, Ripe

LEMMA SidesUntouched ==
  ASSUME UNCHANGED <<battleVars, sides>>
  PROVE  /\ RowsFit /\ (\A t \in Tokens : Known(t)' <=> Known(t)) => RowsFit'
         /\ \A t \in Tokens : HasRow(t)' <=> HasRow(t)
         /\ \A t \in Tokens, id \in Ids : Plays(t, id)' <=> Plays(t, id)
         /\ OnlyKnownEnter
  BY DEF battleVars, RowsFit, HasRow, Plays, Present, OnlyKnownEnter

\* Who has a row plays, and who plays and is there has one.
LEMMA RowsMatch == TypeInv /\ RowsFit => SideRowsMatch
  BY DEF TypeInv, RowsFit, SideRowsMatch, Plays, Present

\* A step of request r that leaves trainers, battles and rows as they are
LEMMA KeptQuiet ==
  ASSUME KeptInv, store = "postgres", NEW r \in Requests, Others(r), InUse(r),
         UNCHANGED <<trainerVars, missed, battleVars, sides>>,
         \/ pc'[r] # "deleteTrainers"
         \/ picked'[r] = {t \in Tokens : Idle(t) /\ \A row \in sides : row[3] # t}
  PROVE  Kept /\ RowsFit' /\ PickedIdle'
<1> USE DEF KeptInv
<1>1. Fresh'
  BY FreshKeeps, Untouched DEF Others
<1>2. OnlyKnownEnter /\ RowsFit'
  BY Untouched, SidesUntouched
<1>3. PlayersKeepTokens'
  BY <1>2, PlayersKeep, Untouched
<1>4. CASE pc'[r] # "deleteTrainers"
  BY <1>1, <1>2, <1>3, <1>4, PickedKeeps, Untouched, SidesUntouched DEF Kept
<1>5. CASE picked'[r] = {t \in Tokens : Idle(t) /\ \A row \in sides : row[3] # t}
  <2> SUFFICES ASSUME NEW q \in Requests, NEW t \in Tokens, pc'[q] = "deleteTrainers",
                      t \in picked'[q], Ripe(t)
               PROVE  ~HasRow(t)
    BY <1>1, <1>2, <1>3, Untouched, SidesUntouched DEF PickedIdle, Kept
  <2>1. CASE q = r
    BY <1>5, <2>1 DEF HasRow
  <2>2. CASE q # r
    BY <2>2 DEF Others, PickedIdle
  <2> QED  BY <2>1, <2>2
<1> QED  BY <1>4, <1>5

LEMMA CallsMove ==
  ASSUME TypeInv, RowTypes, NEW r \in Requests
  PROVE  /\ \A s : Proceed(r, s) => /\ pc'[r] = s /\ token'[r] = token[r]
                                    /\ \A q \in Requests \ {r} : pc'[q] = pc[q] /\ token'[q] = token[q]
         /\ Done(r) => /\ pc'[r] = "idle"
                       /\ \A q \in Requests \ {r} : pc'[q] = pc[q] /\ token'[q] = token[q]
         /\ \A P : picked' = [picked EXCEPT ![r] = P]
                   => picked'[r] = P /\ \A q \in Requests \ {r} : picked'[q] = picked[q]
  BY DEF TypeInv, RequestTypes, RowTypes, Proceed, Done, Goto

LEMMA DropsKnown ==
  ASSUME TypeInv, NEW S, DropTrainers(S), missed' = missed
  PROVE  /\ NobodyOlder
         /\ \A t \in Tokens : Known(t)' <=> Known(t) /\ t \notin S
  BY LobbyAssumption DEF TypeInv, TrainerTypes, DropTrainers, NobodyOlder, Known, Idle, Ripe

\* The touch, whether it succeeds or fails
LEMMA KeptTouch ==
  ASSUME KeptInv, store = "postgres", NEW r \in Requests, TouchTrainer(r)
  PROVE  Kept /\ RowsFit' /\ PickedIdle'
<1> USE CallsMove DEF KeptInv
<1>1. trainer' = trainer /\ UNCHANGED <<battleVars, sides, picked>>
  BY DEF TouchTrainer, rows
<1>2. /\ \A t \in Tokens : /\ Known(t)' <=> Known(t)
                           /\ Ripe(t)' => Ripe(t) /\ t # token[r]
                           /\ t \in missed => t \in missed' \/ Known(t)'
  <2>1. CASE /\ Known(token[r]) /\ seenAge' = [seenAge EXCEPT ![token[r]] = 0]
             /\ missed' = missed \ {token[r]}
    BY <1>1, <2>1, LobbyAssumption DEF Ripe, Idle, Known, TypeInv, TrainerTypes
  <2>2. CASE /\ missed' = IF Idle(token[r]) THEN missed \cup {token[r]} ELSE missed
             /\ UNCHANGED seenAge
    BY <1>1, <2>2 DEF Ripe, Idle, Known
  <2> QED  BY <2>1, <2>2 DEF TouchTrainer
<1>3. /\ Others(r) /\ pc'[r] # "deleteTrainers" /\ token'[r] = token[r]
  BY <1>1 DEF TouchTrainer, Others
<1>4. NobodyOlder /\ InUse(r)
  BY <1>2, <1>3 DEF NobodyOlder, InUse
<1>5. Fresh' /\ PickedIdle' /\ RowsFit' /\ OnlyKnownEnter
  BY <1>1, <1>2, <1>3, <1>4, FreshKeeps, PickedKeeps, SidesUntouched DEF Others
<1> QED  BY <1>2, <1>5, PlayersKeep DEF Kept

LEMMA KeptPgCalls ==
  ASSUME KeptInv, store = "postgres", NEW r \in Requests, PgCalls(r),
         TouchTrainer(r) \/ UNCHANGED missed
  PROVE  Kept /\ RowsFit' /\ PickedIdle'
<1> USE CallsMove DEF KeptInv
<1> DEFINE Goal == Kept /\ RowsFit' /\ PickedIdle'
<1>1. \A t : Known(t) => t \in Tokens
  BY DEF Known
<1> SUFFICES ASSUME UNCHANGED missed
             PROVE  Goal
  BY KeptTouch
<1>2. CASE SelectTrainer(r) \/ DatabaseError(r)
  <2>1. Others(r) /\ pc'[r] \notin FreshSteps \cup {"deleteTrainers"}
    BY <1>2 DEF SelectTrainer, DatabaseError, Others, FreshSteps
  <2> QED  BY <1>2, <2>1, KeptQuiet DEF InUse, SelectTrainer, DatabaseError, rows
<1>3. CASE CountOpenBattlesFor(r)
  <2>1. Others(r) /\ pc'[r] # "deleteTrainers" /\ InUse(r)
    BY <1>3 DEF CountOpenBattlesFor, Others, FreshSteps, InUse
  <2> QED  BY <1>3, <2>1, KeptQuiet DEF CountOpenBattlesFor, rows
<1>4. CASE SweepBattles(r)
  <2>1. Others(r) /\ pc'[r] # "deleteTrainers" /\ InUse(r)
    BY <1>4 DEF SweepBattles, Others, FreshSteps, InUse
  <2> QED  BY <1>4, <2>1, KeptQuiet DEF SweepBattles, rows
<1>5. CASE SweepTrainers(r)
  <2> DEFINE P == {t \in Tokens : Idle(t) /\ \A row \in sides : row[3] # t}
  <2>1. /\ picked' = [picked EXCEPT ![r] = P] /\ pc'[r] = "deleteTrainers"
        /\ \A q \in Requests \ {r} : pc'[q] = pc[q] /\ token'[q] = token[q]
    BY <1>5 DEF SweepTrainers
  <2> HIDE DEF P
  <2>2. Others(r) /\ InUse(r) /\ picked'[r] = P
    BY <2>1 DEF Others, FreshSteps, InUse
  <2> QED  BY <1>5, <2>2, KeptQuiet DEF SweepTrainers, rows, P
<1>6. CASE TouchTrainer(r)
  BY <1>6, KeptTouch
<1>7. CASE DeleteTrainers(r)
  <2>1. PICK S \in {{t \in picked[r] : Idle(t)}, {}} :
          DropTrainers(S) /\ sides' = {row \in sides : row[3] \notin S}
    BY <1>7 DEF DeleteTrainers
  <2>2. Others(r) /\ pc'[r] = "idle" /\ UNCHANGED battleVars
    BY <1>7 DEF DeleteTrainers, Others
  <2>3. \A t \in Tokens : t \in S => Known(t) /\ (t \in missed \/ ~HasRow(t))
    BY <1>7, <2>1 DEF PickedIdle, DeleteTrainers, Ripe, Idle
  <2>4. NobodyOlder /\ InUse(r) /\ \A t \in Tokens : Known(t)' <=> Known(t) /\ t \notin S
    BY <2>1, <2>2, DropsKnown DEF InUse, FreshSteps
  <2>5. RowsFit'
    BY <2>1, <2>2, <2>4 DEF RowsFit, battleVars, Present
  <2>6. \A t \in Tokens : HasRow(t)' => HasRow(t)
    BY <2>1 DEF HasRow
  <2>7. Fresh' /\ PickedIdle'
    BY <2>2, <2>4, <2>6, FreshKeeps, PickedKeeps DEF Others
  <2>8. \A t \in Tokens, id \in Ids : /\ Plays(t, id) /\ Known(t) => HasRow(t)
                                      /\ Plays(t, id)' <=> Plays(t, id)
    BY <2>2, RowsMatch DEF SideRowsMatch, HasRow, Plays, Present, battleVars
  <2>9. OnlyKnownEnter
    BY <2>8 DEF OnlyKnownEnter
  <2>10. PlayersKeepTokens'
    BY <2>3, <2>4, <2>8, <2>9, PlayersKeep
  <2> QED  BY <2>5, <2>7, <2>9, <2>10 DEF Kept
<1>8. CASE DeleteBattles(r)
  <2>1. PICK S \in {picked[r], {}} : DropBattles(S) /\ sides' = {row \in sides : row[1] \notin S}
    BY <1>8 DEF DeleteBattles
  <2>2. Others(r) /\ pc'[r] # "deleteTrainers" /\ InUse(r) /\ UNCHANGED trainerVars
    BY <1>8 DEF DeleteBattles, Others, FreshSteps, InUse
  <2>3. \A id \in Ids : /\ Present(id)' <=> Present(id) /\ id \notin S
                        /\ Present(id)' => opener'[id] = opener[id] /\ joiner'[id] = joiner[id]
    BY <2>1 DEF DropBattles, Present, TypeInv, BattleTypes
  <2>4. RowsFit'
    BY <2>1, <2>2, <2>3, Untouched DEF RowsFit
  <2>5. \A t \in Tokens : HasRow(t)' => HasRow(t)
    BY <2>1 DEF HasRow
  <2>6. Fresh' /\ PickedIdle'
    BY <2>2, <2>5, FreshKeeps, PickedKeeps, Untouched DEF Others
  <2>7. OnlyKnownEnter
    BY <2>3 DEF OnlyKnownEnter, Plays
  <2>8. PlayersKeepTokens'
    BY <2>2, <2>7, PlayersKeep, Untouched
  <2> QED  BY <2>4, <2>6, <2>7, <2>8 DEF Kept
<1>9. CASE Insert(r)
  <2>1. Others(r) /\ pc'[r] = "idle" /\ UNCHANGED <<trainerVars, picked>> /\ pc[r] \in FreshSteps
    BY <1>9 DEF Insert, Others, FreshSteps
  <2>2. InUse(r)
    BY <2>1 DEF InUse, FreshSteps
  <2>3. CASE UNCHANGED <<battleVars, rows>>
    BY <2>1, <2>2, <2>3, KeptQuiet DEF rows
  <2>4. ASSUME Known(token[r]), NEW id \in Ids, Opens(token[r], id),
               sides' = sides \cup {<<id, 0, token[r]>>}
        PROVE  Goal
    <3>1. /\ status' = [status EXCEPT ![id] = "waiting"] /\ status[id] = "none"
          /\ opener' = [opener EXCEPT ![id] = token[r]] /\ joiner' = joiner
          /\ token[r] \in Tokens
      BY <1>1, <2>4 DEF Opens
    <3>2. joiner[id] \notin Tokens
      BY <3>1 DEF TypeInv, SidesFit
    <3>3. RowsFit'
      BY <2>1, <2>4, <3>1, <3>2, Untouched DEF RowsFit, Present, TypeInv, BattleTypes
    <3>4. \A t \in Tokens : HasRow(t)' => HasRow(t) \/ ~Ripe(t)'
      BY <2>1, <2>4, <3>1, Untouched DEF HasRow, Fresh
    <3>5. Fresh' /\ PickedIdle'
      BY <2>1, <2>2, <3>4, FreshKeeps, PickedKeeps, Untouched DEF Others
    <3>6. \A t \in Tokens, i \in Ids : Plays(t, i)' => Plays(t, i) \/ t = token[r]
      BY <3>1, <3>2 DEF Plays, Present, TypeInv, BattleTypes
    <3>7. OnlyKnownEnter /\ PlayersKeepTokens'
      BY <2>1, <2>4, <3>6, Untouched, PlayersKeep DEF OnlyKnownEnter
    <3> QED  BY <3>3, <3>5, <3>7 DEF Kept
  <2> QED  BY <1>9, <2>3, <2>4 DEF Insert
<1>10. CASE Update(r)
  <2>1. Others(r) /\ pc'[r] = "idle" /\ UNCHANGED <<trainerVars, picked>> /\ pc[r] \in FreshSteps
    BY <1>10 DEF Update, Others, FreshSteps
  <2>2. InUse(r)
    BY <2>1 DEF InUse, FreshSteps
  <2>3. CASE UNCHANGED <<battleVars, rows>>
    BY <2>1, <2>2, <2>3, KeptQuiet DEF rows
  <2>4. target[r] \in Ids /\ token[r] \in Tokens /\ op[r] \in {"join", "turn"}
    BY <1>10 DEF Update, TypeInv, RequestTypes, RequestsFit, Handlers
  <2>5. CASE op[r] = "turn" /\ Updates(op[r], token[r], target[r]) /\ sides' = sides
             /\ Accepts(op[r], token[r], target[r])
    <3>1. PICK s \in {"active", "finished"} : status' = [status EXCEPT ![target[r]] = s]
      BY <2>5 DEF Updates
    <3>2. opener' = opener /\ joiner' = joiner /\ Present(target[r])
      BY <2>5 DEF Updates, Accepts, Present
    <3>3. \A id \in Ids : Present(id)' <=> Present(id)
      BY <2>4, <3>1, <3>2 DEF Present, TypeInv, BattleTypes
    <3>4. RowsFit' /\ \A t \in Tokens : HasRow(t)' => HasRow(t)
      BY <2>1, <2>5, <3>2, <3>3, Untouched DEF RowsFit, HasRow
    <3>5. Fresh' /\ PickedIdle'
      BY <2>1, <2>2, <3>4, FreshKeeps, PickedKeeps, Untouched DEF Others
    <3>6. OnlyKnownEnter
      BY <3>2, <3>3 DEF OnlyKnownEnter, Plays
    <3>7. PlayersKeepTokens'
      BY <2>1, <3>6, Untouched, PlayersKeep
    <3> QED  BY <3>4, <3>5, <3>6, <3>7 DEF Kept
  <2>6. CASE /\ op[r] = "join" /\ Updates(op[r], token[r], target[r])
             /\ Accepts(op[r], token[r], target[r]) /\ Known(token[r])
             /\ <<target[r], 0, opener[target[r]]>> \in sides \/ Known(opener[target[r]])
             /\ sides' = sides \cup SideRows(target[r], token[r])
    <3>1. /\ status' = [status EXCEPT ![target[r]] = "active"] /\ status[target[r]] = "waiting"
          /\ joiner' = [joiner EXCEPT ![target[r]] = token[r]] /\ opener' = opener
      BY <2>6 DEF Updates, Accepts
    <3>2. opener[target[r]] \in Tokens /\ joiner[target[r]] \notin Tokens
      BY <2>4, <3>1 DEF TypeInv, SidesFit, Present
    <3>3. <<target[r], 0, opener[target[r]]>> \in sides
      BY <2>4, <2>6, <3>1, <3>2 DEF RowsFit, Present
    <3>4. sides' = sides \cup {<<target[r], 1, token[r]>>}
      BY <2>6, <3>3 DEF SideRows
    <3>5. RowsFit'
      BY <2>1, <2>4, <2>6, <3>1, <3>2, <3>4, Untouched DEF RowsFit, Present, TypeInv, BattleTypes
    <3>6. \A t \in Tokens : HasRow(t)' => HasRow(t) \/ ~Ripe(t)'
      BY <2>1, <2>4, <3>4, Untouched DEF HasRow, Fresh
    <3>7. Fresh' /\ PickedIdle'
      BY <2>1, <2>2, <3>6, FreshKeeps, PickedKeeps, Untouched DEF Others
    <3>8. \A t \in Tokens, i \in Ids : Plays(t, i)' => Plays(t, i) \/ t = token[r]
      BY <2>4, <3>1 DEF Plays, Present, TypeInv, BattleTypes
    <3>9. OnlyKnownEnter /\ PlayersKeepTokens'
      BY <2>1, <2>6, <3>8, Untouched, PlayersKeep DEF OnlyKnownEnter
    <3> QED  BY <3>5, <3>7, <3>9 DEF Kept
  <2> QED  BY <1>10, <2>3, <2>4, <2>5, <2>6 DEF Update
<1> QED
  BY <1>2, <1>3, <1>4, <1>5, <1>6, <1>7, <1>8, <1>9, <1>10 DEF PgCalls

-----------------------------------------------------------------------------
\* A sweep of the memory spares the tokens in use, and who plays on.
LEMMA MemSweeps ==
  ASSUME KeptInv, store = "memory", missed' = missed, DropTrainers(IdleTokens)
  PROVE  /\ NobodyOlder
         /\ \A t \in Tokens : Known(t)' <=> Known(t) /\ ~(t \in IdleTokens)
         /\ \A r \in Requests : pc[r] \in FreshSteps => token[r] \notin IdleTokens
         /\ \A t \in Tokens, id \in Ids \ ExpiredIds : Plays(t, id) => Known(t)'
<1>1. /\ NobodyOlder
      /\ \A t \in Tokens : Known(t)' <=> Known(t) /\ t \notin IdleTokens
  BY DropsKnown DEF KeptInv
<1>2. \A r \in Requests : pc[r] \in FreshSteps => token[r] \notin IdleTokens
  BY DEF KeptInv, IdleTokens, Fresh, Ripe
<1> QED  BY <1>1, <1>2 DEF KeptInv, IdleTokens, PlayersKeepTokens

LEMMA SweptBattles ==
  ASSUME TypeInv, NEW S, DropBattles(S)
  PROVE  \A t \in Tokens, id \in Ids : Plays(t, id)' => Plays(t, id) /\ id \notin S
  BY DEF DropBattles, Plays, Present, TypeInv, BattleTypes

\* After a sweep who plays plays on, and is known.
LEMMA MemKeeps ==
  ASSUME KeptInv, store = "memory", missed' = missed, DropTrainers(IdleTokens),
         \A t \in Tokens, id \in Ids :
            Plays(t, id)' => Known(t)' \/ (Plays(t, id) /\ id \notin ExpiredIds)
  PROVE  PlayersKeepTokens' /\ OnlyKnownEnter
  BY MemSweeps DEF PlayersKeepTokens, OnlyKnownEnter

LEMMA KeptMemCalls ==
  ASSUME KeptInv, store = "memory", NEW r \in Requests, MemCalls(r), UNCHANGED <<picked, missed>>
  PROVE  Kept /\ MemKnown'
<1> USE CallsMove, SameWords DEF KeptInv
<1>1. \A t : Known(t) => t \in Tokens
  BY DEF Known
<1>2. CASE Memory!TrainerByToken(r)
  <2>1. /\ trainer' = trainer /\ UNCHANGED battleVars
        /\ seenAge' = IF Known(token[r]) THEN [seenAge EXCEPT ![token[r]] = 0] ELSE seenAge
    BY <1>2 DEF Memory!TrainerByToken, Memory!battleVars, battleVars
  <2>2. \A t \in Tokens : /\ Known(t)' <=> Known(t)
                          /\ Ripe(t)' => Ripe(t) /\ ~(t = token[r])
    BY <2>1, LobbyAssumption DEF Known, Idle, Ripe, TypeInv, TrainerTypes
  <2>3. NobodyOlder
    BY <2>2 DEF NobodyOlder
  <2>4. /\ Others(r)
        /\ pc'[r] = "idle" \/ (token'[r] = token[r] /\ Known(token[r]))
    BY <1>2 DEF Memory!TrainerByToken, Others
  <2>5. InUse(r)
    BY <2>2, <2>4 DEF InUse, FreshSteps
  <2>6. Fresh'
    BY <2>3, <2>4, <2>5, FreshKeeps DEF Others
  <2>7. MemKnown'
    BY <1>1, <2>1, <2>4 DEF MemKnown, Known, Others
  <2>8. OnlyKnownEnter
    BY <2>1 DEF OnlyKnownEnter, Plays, Present, battleVars
  <2>9. PlayersKeepTokens'
    BY <2>2, <2>8, PlayersKeep
  <2> QED  BY <2>6, <2>7, <2>8, <2>9 DEF Kept
\* A sweep in a step of a request that is past its touch
<1>3. ASSUME DropTrainers(IdleTokens), Others(r), pc[r] \in FreshSteps,
             pc'[r] = "idle" \/ (token'[r] = token[r] /\ pc[r] \in {"count", "insert", "update"})
      PROVE  Fresh' /\ MemKnown'
  <2>1. InUse(r)
    BY <1>3 DEF InUse, FreshSteps
  <2>2. Fresh'
    BY <1>3, <2>1, FreshKeeps, MemSweeps DEF Others
  <2>3. \A q \in Requests : \A t \in Tokens :
          pc[q] \in {"count", "insert", "update"} /\ t = token[q] => Known(t)'
    BY <1>3, MemSweeps DEF FreshSteps, MemKnown
  <2>4. \A q \in Requests : pc'[q] \in {"count", "insert", "update"}
          => pc[q] \in {"count", "insert", "update"} /\ token'[q] = token[q] /\ token[q] \in Tokens
    BY <1>1, <1>3 DEF Others, MemKnown
  <2>5. MemKnown'
    BY <2>3, <2>4 DEF MemKnown, Known
  <2> QED  BY <2>2, <2>5
<1>4. CASE Memory!OpenBattlesFor(r)
  <2>1. DropTrainers(IdleTokens) /\ DropBattles(ExpiredIds) /\ pc[r] = "count"
    BY <1>4, SameSweep DEF Memory!OpenBattlesFor
  <2>2. Others(r) /\ (pc'[r] = "idle" \/ token'[r] = token[r])
    BY <1>4 DEF Memory!OpenBattlesFor, Others
  <2>3. Fresh' /\ MemKnown'
    BY <1>3, <2>1, <2>2 DEF FreshSteps
  <2>4. PlayersKeepTokens' /\ OnlyKnownEnter
    BY <2>1, MemKeeps, SweptBattles
  <2> QED  BY <2>3, <2>4 DEF Kept
<1>5. CASE Memory!Create(r)
  <2>1. pc[r] = "insert" /\ Done(r) /\ DropTrainers(IdleTokens)
    BY <1>5, MemCreateIs
  <2>2. PICK id \in Ids : MemCreates(token[r], id)
    BY <1>5, MemCreateIs
  <2>3. Fresh' /\ MemKnown'
    BY <1>3, <2>1 DEF Others, FreshSteps
  <2>4. Known(token[r]) /\ token[r] \in Tokens /\ token[r] \notin IdleTokens
    BY <1>1, <2>1, MemSweeps DEF MemKnown, FreshSteps
  <2>5. \A t \in Tokens, i \in Ids : Plays(t, i)' => t = token[r] \/ (Plays(t, i) /\ i \notin ExpiredIds)
    BY <2>2 DEF MemCreates, Plays, Present, ExpiredIds, TypeInv, BattleTypes, SidesFit, Expired
  <2>6. \A t \in Tokens : t = token[r] => Known(t)'
    BY <2>1, <2>4, MemSweeps
  <2>7. PlayersKeepTokens' /\ OnlyKnownEnter
    BY <2>1, <2>5, <2>6, MemKeeps
  <2> QED  BY <2>3, <2>7 DEF Kept
<1>6. CASE Memory!Update(r)
  <2>1. Done(r) /\ UNCHANGED trainerVars /\ pc[r] = "update"
    BY <1>6 DEF Memory!Update, Memory!trainerVars, trainerVars
  <2>2. Others(r) /\ InUse(r) /\ pc'[r] = "idle"
    BY <2>1 DEF Others, InUse, FreshSteps
  <2>3. Fresh'
    BY <2>1, <2>2, FreshKeeps, Untouched DEF Others
  <2>4. MemKnown'
    BY <2>1, <2>2 DEF MemKnown, Others, Known, trainerVars
  <2>5. /\ Known(token[r]) /\ token[r] \in Tokens /\ target[r] \in Ids /\ op[r] \in {"join", "turn"}
    BY <1>1, <2>1 DEF MemKnown, TypeInv, RequestTypes, RequestsFit, Handlers
  <2>6. \A t \in Tokens, i \in Ids : Plays(t, i)' => t = token[r] \/ Plays(t, i)
    <3>1. CASE UNCHANGED battleVars
      BY <3>1 DEF battleVars, Plays, Present
    <3>2. CASE Accepts(op[r], token[r], target[r]) /\ Updates(op[r], token[r], target[r])
      BY <2>5, <3>2 DEF Accepts, Updates, Plays, Present, TypeInv, BattleTypes
    <3> QED  BY <1>6, <3>1, <3>2 DEF Memory!Update, Memory!battleVars, battleVars
  <2>7. OnlyKnownEnter /\ PlayersKeepTokens'
    BY <2>1, <2>5, <2>6, Untouched, PlayersKeep DEF OnlyKnownEnter
  <2> QED  BY <2>3, <2>4, <2>7 DEF Kept
<1> QED  BY <1>2, <1>4, <1>5, <1>6 DEF MemCalls

LEMMA RowTypesStep ==
  ASSUME TypeInv, RowTypes, ServiceNext
  PROVE  RowTypes'
<1> USE DEF RowTypes
<1>1. UNCHANGED <<rows, picked>> => RowTypes'
  BY DEF rows
<1>2. ASSUME store = "postgres", NEW r \in Requests, ListWaitingTrainers(r) \/ PgCalls(r)
      PROVE  RowTypes'
  <2>1. {} \in SUBSET (Ids \cup Tokens)
    OBVIOUS
  <2>2. CASE SweepBattles(r)
    BY <2>2 DEF SweepBattles, Batches, rows
  <2>3. CASE SweepTrainers(r)
    BY <2>3 DEF SweepTrainers, rows
  <2>4. CASE DeleteBattles(r)
    BY <2>1, <2>4 DEF DeleteBattles
  <2>5. CASE DeleteTrainers(r)
    BY <2>1, <2>5 DEF DeleteTrainers
  <2>6. CASE Insert(r)
    BY <2>6 DEF Insert, rows, Known
  <2>7. CASE Update(r)
    BY <2>7 DEF Update, rows, PlaceAfterUpdate
  <2> QED
    BY <1>1, <1>2, <2>2, <2>3, <2>4, <2>5, <2>6, <2>7 DEF PgCalls, ListWaitingTrainers,
       SelectTrainer, TouchTrainer, CountOpenBattlesFor, DatabaseError
<1> QED  BY <1>1, <1>2, ServiceSteps

\* A token is missed once it was handed out, and tokens are never taken back.
LEMMA MissedStep ==
  ASSUME TypeInv, MissedFits, ServiceNext
  PROVE  MissedFits'
<1> USE LobbyAssumption DEF MissedFits
<1>1. ASSUME UNCHANGED missed, \A t \in Tokens : trainer'[t] = Unissued => trainer[t] = Unissued
      PROVE  MissedFits'
  BY <1>1
<1>2. UNCHANGED trainerVars => \A t \in Tokens : trainer'[t] = Unissued => trainer[t] = Unissued
  BY DEF trainerVars
<1>3. \A S : DropTrainers(S) => \A t \in Tokens : trainer'[t] = Unissued => trainer[t] = Unissued
  BY DEF DropTrainers
<1>4. ASSUME UNCHANGED missed, Arrivals \/ TimePasses
      PROVE  MissedFits'
  BY <1>1, <1>2, <1>4, ArrivalsStay DEF Stays, TimePasses
<1>5. ASSUME UNCHANGED missed, \E n \in Names : RegisterTrainer(n)
      PROVE  MissedFits'
  BY <1>1, <1>5 DEF RegisterTrainer, TypeInv, TrainerTypes
<1>6. ASSUME NEW r \in Requests, TouchTrainer(r)
      PROVE  MissedFits'
  BY <1>6 DEF TouchTrainer, Idle, Known
<1>7. ASSUME UNCHANGED missed, NEW r \in Requests, ListWaitingTrainers(r) \/ PgCalls(r)
      PROVE  MissedFits'
  BY <1>1, <1>2, <1>3, <1>6, <1>7 DEF ListWaitingTrainers, Arrive, PgCalls, SelectTrainer,
     CountOpenBattlesFor, SweepBattles, DeleteBattles, Insert, Update, SweepTrainers,
     DeleteTrainers, DatabaseError
<1>8. ASSUME UNCHANGED missed, NEW r \in Requests, MemCalls(r)
      PROVE  MissedFits'
  BY <1>1, <1>2, <1>3, <1>8, MemCreateIs, SameSweep, SameWords DEF MemCalls, Memory!TrainerByToken,
     Memory!OpenBattlesFor, Memory!Update, Memory!trainerVars, trainerVars
<1> QED  BY <1>1, <1>3, <1>4, <1>5, <1>6, <1>7, <1>8, ServiceSteps

LEMMA KeptStep == KeptInv /\ [ServiceNext]_serviceVars => KeptInv' /\ OnlyKnownEnter
<1> SUFFICES ASSUME KeptInv, [ServiceNext]_serviceVars
             PROVE  KeptInv' /\ OnlyKnownEnter
  OBVIOUS
<1>1. TypeInv'
  BY TypesStep DEF KeptInv
<1>2. CASE UNCHANGED serviceVars
  <2>1. UNCHANGED <<trainerVars, battleVars, sides, pc, token, picked, waitingFor, missed, store>>
    BY <1>2 DEF serviceVars, pgLobbyVars, lobbyVars, requestVars, rows
  <2>2. OnlyKnownEnter /\ PlayersKeepTokens'
    BY <2>1, Untouched, SidesUntouched, PlayersKeep DEF KeptInv
  <2>3. Fresh' /\ (PickedIdle => PickedIdle') /\ (RowsFit => RowsFit')
    BY <2>1, Untouched, SidesUntouched DEF KeptInv, Fresh, PickedIdle, Ripe, Idle, Known, trainerVars
  <2> QED
    BY <1>1, <2>1, <2>2, <2>3 DEF KeptInv, RowTypes, MissedFits, MemKnown, Known, trainerVars
<1>3. CASE ServiceNext
  <2>1. store' = store /\ RowTypes' /\ MissedFits'
    <3>1. store' = store
      BY <1>3, ServiceSteps
    <3>2. RowTypes' /\ MissedFits'
      BY <1>3, RowTypesStep, MissedStep DEF KeptInv
    <3> QED  BY <3>1, <3>2
  <2>2. ASSUME Kept, store = "postgres" => RowsFit' /\ PickedIdle',
               store = "memory" => MemKnown' /\ missed' = {}
        PROVE  KeptInv' /\ OnlyKnownEnter
    BY <1>1, <2>1, <2>2 DEF KeptInv, Kept
  <2>3. CASE /\ Arrivals \/ TimePasses \/ \E n \in Names : RegisterTrainer(n)
             /\ UNCHANGED <<rows, picked, missed>>
    <3>1. CASE Arrivals
      <4>1. Stays
        BY <3>1, ArrivalsStay
      <4>2. PICK r \in Requests : pc' = [pc EXCEPT ![r] = "auth"] /\ \E t : token' = [token EXCEPT ![r] = t]
        BY <3>1 DEF Arrivals, CreateBattle, JoinBattle, TakeTurn, Arrive, Goto
      <4>3. Others(r) /\ pc'[r] = "auth"
        BY <2>3, <4>2 DEF Others, KeptInv, TypeInv, RequestTypes
      <4>4. InUse(r)
        BY <4>3 DEF InUse, FreshSteps
      <4>5. Fresh'
        BY <2>3, <4>1, <4>3, <4>4, FreshKeeps, Untouched DEF Stays, Others, KeptInv
      <4>6. OnlyKnownEnter /\ PlayersKeepTokens'
        BY <2>3, <4>1, Untouched, SidesUntouched, PlayersKeep DEF Stays, rows, KeptInv
      <4>7. RowsFit /\ PickedIdle => RowsFit' /\ PickedIdle'
        BY <2>3, <4>1, <4>3, PickedKeeps, Untouched, SidesUntouched DEF Stays, rows
      <4>8. MemKnown => MemKnown'
        BY <4>1, <4>3 DEF MemKnown, Others, Known, Stays, trainerVars
      <4> QED  BY <2>2, <2>3, <4>5, <4>6, <4>7, <4>8 DEF KeptInv, Kept
    <3>2. CASE \E n \in Names : RegisterTrainer(n)
      <4>1. PICK n \in Names, t \in Tokens : /\ trainer[t] = Unissued
                                            /\ trainer' = [trainer EXCEPT ![t] = n]
                                            /\ seenAge' = [seenAge EXCEPT ![t] = 0]
        BY <3>2 DEF RegisterTrainer
      <4>2. /\ UNCHANGED <<requestVars, battleVars, rows, picked, missed>>
        BY <2>3, <3>2 DEF RegisterTrainer
      <4>3. \A u \in Tokens : /\ Known(u) => Known(u)'
                              /\ u # t => (Known(u)' <=> Known(u))
                              /\ Ripe(u)' => Ripe(u)
        BY <4>1, <4>2, LobbyAssumption DEF Known, Idle, Ripe, KeptInv, TypeInv, TrainerTypes
      <4>4. \A id \in Ids : ~Plays(t, id)
        BY <4>1, LobbyAssumption DEF KeptInv, PlayersKeepTokens, MissedFits, Known
      <4>5. OnlyKnownEnter /\ PlayersKeepTokens'
        BY <4>2, <4>3, SidesUntouched, PlayersKeep DEF KeptInv, rows
      <4>6. Fresh' /\ (PickedIdle => PickedIdle')
        BY <4>2, <4>3, OldestIsKnown, SidesUntouched DEF requestVars, rows, Fresh, PickedIdle, KeptInv
      <4>7. RowsFit => RowsFit'
        BY <4>2, <4>3, <4>4 DEF RowsFit, rows, battleVars, Plays, Present
      <4>8. MemKnown => MemKnown'
        BY <4>2, <4>3 DEF MemKnown, Known, requestVars
      <4> QED  BY <2>2, <4>2, <4>5, <4>6, <4>7, <4>8 DEF KeptInv, Kept
    <3>3. CASE TimePasses
      <4>1. \A r \in Requests : pc'[r] = "idle"
        BY <3>3 DEF TimePasses, requestVars
      <4>2. \A t \in Tokens : Known(t)' <=> Known(t)
        BY <3>3 DEF TimePasses, Known
      <4>3. OnlyKnownEnter /\ (RowsFit => RowsFit')
        BY <2>3, <3>3, <4>2 DEF TimePasses, rows, Plays, Present, RowsFit, OnlyKnownEnter
      <4>4. PlayersKeepTokens'
        BY <2>3, <4>2, <4>3, PlayersKeep DEF KeptInv
      <4>5. Fresh' /\ PickedIdle' /\ MemKnown'
        BY <4>1 DEF Fresh, PickedIdle, MemKnown, FreshSteps
      <4> QED  BY <2>2, <2>3, <4>3, <4>4, <4>5 DEF KeptInv, Kept
    <3> QED  BY <2>3, <3>1, <3>2, <3>3
  <2>4. ASSUME store = "postgres", NEW r \in Requests, ListWaitingTrainers(r) \/ PgCalls(r),
               TouchTrainer(r) \/ UNCHANGED missed
        PROVE  KeptInv' /\ OnlyKnownEnter
    <3>1. CASE ListWaitingTrainers(r)
      <4>1. /\ pc' = [pc EXCEPT ![r] = "sweep"] /\ token' = [token EXCEPT ![r] = NoToken]
            /\ UNCHANGED <<trainerVars, battleVars, rows, picked>>
        BY <3>1 DEF ListWaitingTrainers, Arrive, Goto
      <4>2. Others(r) /\ pc'[r] = "sweep" /\ token'[r] = NoToken
        BY <4>1 DEF Others, KeptInv, TypeInv, RequestTypes
      <4>3. InUse(r)
        BY <4>2, LobbyAssumption DEF InUse
      <4>4. CASE UNCHANGED missed
        BY <2>2, <2>4, <4>1, <4>2, <4>3, <4>4, KeptQuiet DEF rows
      <4>5. CASE TouchTrainer(r)
        BY <2>2, <2>4, <4>5, KeptTouch
      <4> QED  BY <2>4, <4>4, <4>5
    <3>2. CASE PgCalls(r)
      BY <2>2, <2>4, <3>2, KeptPgCalls
    <3> QED  BY <2>4, <3>1, <3>2
  <2>5. ASSUME store = "memory", UNCHANGED <<rows, picked, missed>>, NEW r \in Requests, MemCalls(r)
        PROVE  KeptInv' /\ OnlyKnownEnter
    BY <2>2, <2>5, KeptMemCalls DEF KeptInv
  <2>6. ASSUME store = "memory", UNCHANGED <<rows, picked, missed>>, UNCHANGED requestVars,
               DropBattles(ExpiredIds), DropTrainers(IdleTokens)
        PROVE  KeptInv' /\ OnlyKnownEnter
    <3>1. PlayersKeepTokens' /\ OnlyKnownEnter
      BY <2>6, MemKeeps, SweptBattles DEF KeptInv
    <3>2. \A q \in Requests : pc'[q] = pc[q] /\ token'[q] = token[q]
      BY <2>6 DEF requestVars
    <3>3. Fresh'
      BY <2>6, <3>2, MemSweeps, OldestIsKnown DEF Fresh, NobodyOlder, KeptInv
    <3>4. \A q \in Requests : \A t \in Tokens :
            pc[q] \in {"count", "insert", "update"} /\ t = token[q] => Known(t)'
      BY <2>6, MemSweeps DEF FreshSteps, MemKnown, KeptInv
    <3>5. MemKnown'
      BY <2>6, <3>2, <3>4 DEF MemKnown, KeptInv, Known
    <3> QED  BY <2>2, <2>6, <3>1, <3>3, <3>5 DEF KeptInv, Kept
  <2> QED  BY <1>3, <2>3, <2>4, <2>5, <2>6, ServiceSteps
<1> QED  BY <1>2, <1>3

LEMMA KeptStart == ServiceInit => KeptInv
<1> SUFFICES ASSUME ServiceInit PROVE KeptInv
  OBVIOUS
<1>1. TypeInv /\ RowTypes
  BY TypesStart, CapStart DEF CapInv
<1> QED
  BY <1>1, LobbyAssumption DEF ServiceInit, PgLobbyInit, LobbyInit, KeptInv, Fresh, FreshSteps,
     MissedFits, PlayersKeepTokens, Plays, Present, RowsFit, PickedIdle, MemKnown, Known

\* Trainers go to a sweep, and only idle ones.
LEMMA OnlyIdleGo ==
  ASSUME KeptInv, ServiceNext, NEW t \in Tokens, Known(t), ~Idle(t)
  PROVE  trainer'[t] = trainer[t]
<1>1. \A S : (\A u \in Tokens : u \in S => Idle(u)) /\ DropTrainers(S) => trainer'[t] = trainer[t]
  BY DEF DropTrainers
<1>2. UNCHANGED trainerVars => trainer'[t] = trainer[t]
  BY DEF trainerVars
<1>3. CASE Arrivals \/ TimePasses
  BY <1>2, <1>3, ArrivalsStay DEF Stays, TimePasses
<1>4. CASE \E n \in Names : RegisterTrainer(n)
  BY <1>4, LobbyAssumption DEF RegisterTrainer, Known, KeptInv, TypeInv, TrainerTypes
<1>5. ASSUME NEW r \in Requests, ListWaitingTrainers(r) \/ PgCalls(r)
      PROVE  trainer'[t] = trainer[t]
  <2>1. CASE DeleteTrainers(r)
    BY <1>1, <2>1 DEF DeleteTrainers
  <2>2. CASE TouchTrainer(r)
    BY <2>2 DEF TouchTrainer
  <2> QED
    BY <1>2, <1>5, <2>1, <2>2 DEF ListWaitingTrainers, Arrive, PgCalls, SelectTrainer,
       CountOpenBattlesFor, SweepBattles, DeleteBattles, Insert, Update, SweepTrainers, DatabaseError
<1>6. DropTrainers(IdleTokens) => trainer'[t] = trainer[t]
  BY <1>1 DEF IdleTokens
<1>7. ASSUME NEW r \in Requests, MemCalls(r)
      PROVE  trainer'[t] = trainer[t]
  BY <1>2, <1>6, <1>7, MemCreateIs, SameSweep, SameWords DEF MemCalls, Memory!TrainerByToken,
     Memory!OpenBattlesFor, Memory!Update, Memory!trainerVars, trainerVars
<1> QED  BY <1>3, <1>4, <1>5, <1>6, <1>7, ServiceSteps

LEMMA UsedStep ==
  KeptInv /\ [ServiceNext]_serviceVars
  => [\A r \in Requests :
        /\ pc[r] \in {"count", "sweep", "delete", "insert", "update"}
        /\ Known(token[r])
        /\ token[r] \notin missed
        => trainer'[token[r]] = trainer[token[r]]]_pgLobbyVars
<1> SUFFICES ASSUME KeptInv, ServiceNext, NEW r \in Requests, pc[r] \in FreshSteps,
                    Known(token[r]), token[r] \notin missed
             PROVE  trainer'[token[r]] = trainer[token[r]]
  BY DEF serviceVars, FreshSteps
<1>1. token[r] \in Tokens /\ ~Idle(token[r])
  BY DEF KeptInv, Fresh, Ripe, Known
<1> QED  BY <1>1, OnlyIdleGo

LEMMA EnterStep ==
  KeptInv /\ [ServiceNext]_serviceVars
  => [\A id \in Ids, t \in Tokens : ~Plays(t, id) /\ Plays(t, id)' => Known(t)']_pgLobbyVars
  BY KeptStep DEF OnlyKnownEnter

\* On either store, a player whose token is no longer good had let it lie for
\* longer than trainerTTL, and the touch of the request they came back with
\* failed (pgstore.go): nothing else loses a player their trainer, however
\* sweeps come between the calls of a handler.
THEOREM PlayersKept == ServiceSpec => []PlayersKeepTokens
<1>1. KeptInv => PlayersKeepTokens
  BY DEF KeptInv
<1> QED  BY <1>1, KeptStart, KeptStep, PTL DEF ServiceSpec

\* On Postgres, battle_sides lists every side whose trainer is there and nothing
\* else (pgstore.go), whether touches fail or not.
THEOREM SidesRecorded == ServiceSpec => []SidesAreRecorded
<1>1. KeptInv => SidesAreRecorded
  BY RowsMatch DEF KeptInv, SidesAreRecorded
<1> QED  BY <1>1, KeptStart, KeptStep, PTL DEF ServiceSpec

\* On either store, no sweep takes the token of a handler that has touched it
\* ("any authenticated call keeps the name alive", battle.go), and nobody enters
\* a battle with a token that was swept after its look-up.
THEOREM UsedTokensKept == ServiceSpec => UsedTokensStayGood
  BY KeptStart, KeptStep, UsedStep, EnterStep, PTL DEF ServiceSpec, UsedTokensStayGood

-----------------------------------------------------------------------------
(***************************************************************************)
(* The life of a battle, on either store: it is opened once, joined by     *)
(* another trainer, may finish, and goes; its sides stay as they are.      *)
(***************************************************************************)
SidesStay(id) == opener'[id] = opener[id] /\ joiner'[id] = joiner[id]

LivesOn(id) ==
  \/ status'[id] = status[id] /\ (Present(id) => SidesStay(id))
  \/ status[id] = "none" /\ status'[id] = "waiting" /\ opener'[id] \in Tokens
  \/ /\ status[id] = "waiting" /\ status'[id] = "active"
     /\ opener'[id] = opener[id] /\ joiner'[id] \in Tokens \ {opener[id]}
  \/ status[id] = "active" /\ status'[id] = "finished" /\ SidesStay(id)
  \/ Present(id) /\ status'[id] = "gone"

BattlesLiveOnce == \A id \in Ids : LivesOn(id)

LEMMA StayLive ==
  ASSUME UNCHANGED battleVars
  PROVE  BattlesLiveOnce
BY DEF battleVars, BattlesLiveOnce, LivesOn, SidesStay

LEMMA OpensLive ==
  ASSUME BattleTypes, NEW t \in Tokens, NEW id \in Ids, Opens(t, id)
  PROVE  BattlesLiveOnce
BY DEF BattleTypes, Opens, BattlesLiveOnce, LivesOn, SidesStay, Present

LEMMA UpdatesLive ==
  ASSUME BattleTypes, NEW o \in {"join", "turn"}, NEW t \in Tokens, NEW id \in Ids,
         Accepts(o, t, id), Updates(o, t, id)
  PROVE  BattlesLiveOnce
<1> SUFFICES ASSUME NEW i \in Ids
             PROVE  LivesOn(i)
  BY DEF BattlesLiveOnce
<1>1. opener' = opener
  BY DEF Updates
<1>2. CASE i # id
  BY <1>1, <1>2 DEF Updates, BattleTypes, LivesOn, SidesStay
<1>3. CASE i = id /\ o = "join"
  BY <1>1, <1>3 DEF Updates, Accepts, BattleTypes, LivesOn
<1>4. CASE i = id /\ o # "join"
  BY <1>1, <1>4 DEF Updates, Accepts, BattleTypes, LivesOn, SidesStay
<1> QED  BY <1>2, <1>3, <1>4

\* A sweep may find a battle gone already, never one that is not there yet.
LEMMA DropsLive ==
  ASSUME NEW S, DropBattles(S), \A id \in S \cap Ids : status[id] = "gone" \/ Present(id)
  PROVE  BattlesLiveOnce
BY DEF DropBattles, BattlesLiveOnce, LivesOn, SidesStay, Present

LEMMA MemCreatesLive ==
  ASSUME NEW t \in Tokens, NEW id \in Ids, MemCreates(t, id)
  PROVE  BattlesLiveOnce
<1> SUFFICES ASSUME NEW i \in Ids
             PROVE  LivesOn(i)
  BY DEF BattlesLiveOnce
<1>1. Expired(i) => Present(i)
  BY DEF Expired, Present
<1> QED  BY <1>1 DEF MemCreates, LivesOn, SidesStay

LEMMA LifeStep == CapInv /\ [ServiceNext]_serviceVars => [BattlesLiveOnce]_serviceVars
<1> SUFFICES ASSUME CapInv, ServiceNext
             PROVE  BattlesLiveOnce
  OBVIOUS
<1> USE DEF CapInv, TypeInv
<1>1. ASSUME Arrivals \/ TimePasses \/ \E n \in Names : RegisterTrainer(n)
      PROVE  BattlesLiveOnce
  <2>1. /\ Arrivals => UNCHANGED battleVars
        /\ (\E n \in Names : RegisterTrainer(n)) => UNCHANGED battleVars
    BY ArrivalsStay DEF Stays, RegisterTrainer
  <2>2. TimePasses => UNCHANGED <<status, opener, joiner>>
    BY DEF TimePasses
  <2> QED  BY <1>1, <2>1, <2>2, StayLive DEF BattlesLiveOnce, LivesOn, SidesStay
<1>2. ASSUME NEW r \in Requests, PgCalls(r), store = "postgres"
      PROVE  BattlesLiveOnce
  <2>1. CASE \/ SelectTrainer(r) \/ TouchTrainer(r) \/ CountOpenBattlesFor(r)
             \/ SweepBattles(r) \/ SweepTrainers(r) \/ DeleteTrainers(r) \/ DatabaseError(r)
    BY <2>1, StayLive DEF SelectTrainer, TouchTrainer, CountOpenBattlesFor, SweepBattles,
       SweepTrainers, DeleteTrainers, DatabaseError
  <2>2. CASE DeleteBattles(r)
    <3>1. PICK S \in {picked[r], {}} : DropBattles(S)
      BY <2>2 DEF DeleteBattles
    <3>2. \A id \in S \cap Ids : status[id] = "gone" \/ Present(id)
      BY <1>2, <2>2 DEF DeleteBattles, PickedExpired, BattleTypes, Present
    <3> QED  BY <3>1, <3>2, DropsLive
  <2>3. CASE Insert(r)
    BY <2>3, OpensLive, StayLive DEF Insert, Known
  <2>4. CASE Update(r)
    <3>1. /\ op[r] \in {"join", "turn"} /\ token[r] \in Tokens /\ target[r] \in Ids
      BY <2>4 DEF Update, RequestTypes, RequestsFit, Handlers
    <3> QED  BY <2>4, <3>1, UpdatesLive, StayLive DEF Update
  <2> QED  BY <1>2, <2>1, <2>2, <2>3, <2>4 DEF PgCalls
<1>3. ASSUME DropBattles(ExpiredIds)
      PROVE  BattlesLiveOnce
  <2>1. \A id \in ExpiredIds \cap Ids : Present(id)
    BY DEF ExpiredIds, Expired, Present
  <2> QED  BY <1>3, <2>1, DropsLive
<1>4. ASSUME NEW r \in Requests, MemCalls(r)
      PROVE  BattlesLiveOnce
  <2>1. CASE Memory!TrainerByToken(r)
    BY <2>1, StayLive DEF Memory!TrainerByToken, Memory!battleVars, battleVars
  <2>2. CASE Memory!OpenBattlesFor(r)
    BY <1>3, <2>2, SameSweep DEF Memory!OpenBattlesFor
  <2>3. CASE Memory!Create(r)
    <3>1. pc[r] = "insert" /\ token[r] \in Tokens
      BY <2>3, MemCreateIs DEF RequestTypes, RequestsFit, Handlers
    <3> QED  BY <2>3, <3>1, MemCreateIs, MemCreatesLive
  <2>4. CASE Memory!Update(r)
    <3>1. /\ op[r] \in {"join", "turn"} /\ token[r] \in Tokens /\ target[r] \in Ids
      BY <2>4 DEF Memory!Update, RequestTypes, RequestsFit, Handlers
    <3> QED
      BY <2>4, <3>1, UpdatesLive, StayLive, SameWords DEF Memory!Update, Memory!battleVars,
         battleVars
  <2> QED  BY <1>4, <2>1, <2>2, <2>3, <2>4 DEF MemCalls
<1>5. ASSUME NEW r \in Requests, ListWaitingTrainers(r)
      PROVE  BattlesLiveOnce
  BY <1>5, StayLive DEF ListWaitingTrainers, Arrive
<1> QED  BY <1>1, <1>2, <1>3, <1>4, <1>5, ServiceSteps

\* Whatever two replicas, sweeps and late requests do in between, a battle never
\* goes back, never changes its sides, is never joined by its opener or twice,
\* and once swept it stays away: a turn that arrives late finds nothing.
THEOREM LivesOnce == ServiceSpec => [][BattlesLiveOnce]_serviceVars
BY CapStart, CapStep, LifeStep, PTL DEF ServiceSpec

-----------------------------------------------------------------------------
(***************************************************************************)
(* Types.  Ages only grow while time passes, and stop at their bound.      *)
(***************************************************************************)
AgesBounded == /\ \A t \in Tokens : seenAge[t] <= TrainerTTL + 1
               /\ \A id \in Ids : touchedAge[id] <= MaxAge

IdleIsNone == \A r \in Requests : pc[r] = "idle" => op[r] = "none"

LobbyTypesInv == /\ CapInv /\ AgesBounded /\ IdleIsNone
                 /\ sides \subseteq Ids \X {0, 1} \X Tokens
                 /\ MissedFits

LEMMA TtlFacts ==
  /\ TrainerTTL + 1 \in Nat /\ MaxAge \in Nat
  /\ \A age, limit \in Nat : age <= limit => Older(age, limit) <= limit
BY LobbyAssumption DEF MaxAge, Older

\* No step but the passing of time makes anything older.
LEMMA NoneOlder ==
  ASSUME TypeInv, ServiceNext, ~TimePasses
  PROVE  /\ \A t \in Tokens : seenAge'[t] \in {seenAge[t], 0}
         /\ \A id \in Ids : touchedAge'[id] \in {touchedAge[id], 0}
<1> DEFINE Young == /\ \A t \in Tokens : seenAge'[t] \in {seenAge[t], 0}
                    /\ \A id \in Ids : touchedAge'[id] \in {touchedAge[id], 0}
<1> USE DEF TypeInv, TrainerTypes, BattleTypes, trainerVars, battleVars
<1>1. ASSUME Arrivals \/ \E n \in Names : RegisterTrainer(n)
      PROVE  Young
  BY <1>1, ArrivalsStay DEF Stays, RegisterTrainer
<1>2. ASSUME NEW r \in Requests, ListWaitingTrainers(r) \/ PgCalls(r)
      PROVE  Young
  BY <1>2 DEF ListWaitingTrainers, Arrive, PgCalls, SelectTrainer, TouchTrainer,
     CountOpenBattlesFor, SweepBattles, DeleteBattles, DropBattles, Insert, Opens, Update,
     Updates, SweepTrainers, DeleteTrainers, DropTrainers, DatabaseError, Known
<1>3. ASSUME DropBattles(ExpiredIds), DropTrainers(IdleTokens)
      PROVE  Young
  BY <1>3 DEF DropBattles, DropTrainers
<1>4. ASSUME NEW r \in Requests, MemCalls(r)
      PROVE  Young
  <2>1. CASE Memory!Create(r)
    BY <2>1, MemCreateIs DEF MemCreates, DropTrainers
  <2>2. CASE Memory!OpenBattlesFor(r)
    BY <1>3, <2>2, SameSweep DEF Memory!OpenBattlesFor
  <2>3. CASE Memory!TrainerByToken(r)
    BY <2>3, SameWords DEF Memory!TrainerByToken, Memory!battleVars, Known
  <2>4. CASE Memory!Update(r)
    BY <2>4, SameWords DEF Memory!Update, Memory!trainerVars, Memory!battleVars, Updates
  <2> QED  BY <1>4, <2>1, <2>2, <2>3, <2>4 DEF MemCalls
<1> HIDE DEF Young
<1>5. Young
  BY <1>1, <1>2, <1>3, <1>4, ServiceSteps
<1> QED  BY <1>5 DEF Young

LEMMA AgesStep ==
  ASSUME TypeInv, AgesBounded, ServiceNext
  PROVE  AgesBounded'
<1> USE TtlFacts DEF AgesBounded, TypeInv, TrainerTypes, BattleTypes
<1>1. CASE TimePasses
  <2>1. \A t \in Tokens : seenAge'[t] <= TrainerTTL + 1
    BY <1>1 DEF TimePasses
  <2>2. \A id \in Ids : touchedAge'[id] <= MaxAge
    BY <1>1 DEF TimePasses
  <2> QED  BY <2>1, <2>2, LobbyAssumption DEF MaxAge
<1>2. CASE ~TimePasses
  <2>1. \A t \in Tokens : seenAge'[t] <= TrainerTTL + 1
    BY <1>2, NoneOlder
  <2>2. \A id \in Ids : touchedAge'[id] <= MaxAge
    BY <1>2, NoneOlder
  <2> QED  BY <2>1, <2>2, LobbyAssumption DEF MaxAge
<1> QED  BY <1>1, <1>2

\* A place in the request table is free exactly when nothing runs in it.
LEMMA PlacesStep ==
  ASSUME TypeInv, IdleIsNone, ServiceNext
  PROVE  IdleIsNone'
<1> USE DEF TypeInv, RequestTypes, IdleIsNone
<1>1. ASSUME NEW r \in Requests, NEW st, st # "idle", pc' = [pc EXCEPT ![r] = st],
             \A q \in Requests : q # r => op'[q] = op[q]
      PROVE  IdleIsNone'
  BY <1>1
<1>2. ASSUME NEW r \in Requests, Done(r)
      PROVE  IdleIsNone'
  BY <1>2 DEF Done, Goto
<1>3. ASSUME NEW r \in Requests, NEW st, st # "idle", Proceed(r, st)
      PROVE  IdleIsNone'
  BY <1>1, <1>3 DEF Proceed, Goto
<1>4. ASSUME NEW r \in Requests, NEW o, NEW st, NEW t, NEW id, st # "idle",
             Arrive(r, o, st, t, id)
      PROVE  IdleIsNone'
  BY <1>1, <1>4 DEF Arrive, Goto
<1>5. CASE Arrivals
  BY <1>4, <1>5 DEF Arrivals, CreateBattle, JoinBattle, TakeTurn
<1>6. CASE UNCHANGED requestVars
  BY <1>6 DEF requestVars
<1>7. ASSUME NEW r \in Requests, ListWaitingTrainers(r) \/ PgCalls(r)
      PROVE  IdleIsNone'
  BY <1>2, <1>3, <1>4, <1>7 DEF ListWaitingTrainers, PgCalls, SelectTrainer, TouchTrainer,
     CountOpenBattlesFor, SweepBattles, DeleteBattles, Insert, Update, SweepTrainers,
     DeleteTrainers, DatabaseError
<1>8. ASSUME NEW r \in Requests, MemCalls(r)
      PROVE  IdleIsNone'
  BY <1>2, <1>3, <1>8, SameWords DEF MemCalls, Memory!TrainerByToken, Memory!OpenBattlesFor,
     Memory!Create, Memory!Update
<1> QED  BY <1>5, <1>6, <1>7, <1>8, ServiceSteps DEF TimePasses, RegisterTrainer

LEMMA RowsStep ==
  ASSUME TypeInv, sides \subseteq Ids \X {0, 1} \X Tokens, ServiceNext
  PROVE  sides' \subseteq Ids \X {0, 1} \X Tokens
<1> USE DEF TypeInv, rows
<1>1. ASSUME NEW r \in Requests, PgCalls(r)
      PROVE  sides' \subseteq Ids \X {0, 1} \X Tokens
  <2>1. CASE Insert(r)
    BY <2>1 DEF Insert, Known
  <2>2. CASE Update(r)
    <3>1. /\ op[r] \in {"join", "turn"} /\ token[r] \in Tokens /\ target[r] \in Ids
      BY <2>2 DEF Update, RequestTypes, RequestsFit, Handlers
    <3>2. Accepts("join", token[r], target[r]) => opener[target[r]] \in Tokens
      BY <3>1 DEF Accepts, SidesFit, Present
    <3> QED  BY <2>2, <3>1, <3>2 DEF Update, SideRows
  <2>3. CASE \/ SelectTrainer(r) \/ TouchTrainer(r) \/ CountOpenBattlesFor(r)
             \/ SweepBattles(r) \/ DeleteBattles(r) \/ SweepTrainers(r)
             \/ DeleteTrainers(r) \/ DatabaseError(r)
    <3>1. sides' \subseteq sides
      BY <2>3 DEF SelectTrainer, TouchTrainer, CountOpenBattlesFor, SweepBattles, DeleteBattles,
         SweepTrainers, DeleteTrainers, DatabaseError
    <3> QED  BY <3>1
  <2> QED  BY <1>1, <2>1, <2>2, <2>3 DEF PgCalls
<1>2. \A r \in Requests : ListWaitingTrainers(r) => sides' = sides
  BY DEF ListWaitingTrainers
<1> QED  BY <1>1, <1>2, ServiceSteps

\* Every variable of the lobby keeps its type on either store, the tables of
\* Postgres and what a sweep has selected included.
THEOREM LobbyTyped == ServiceSpec => []PgLobbyTypeOK
<1>1. ServiceInit => LobbyTypesInv
  <2> SUFFICES ASSUME ServiceInit PROVE LobbyTypesInv
    OBVIOUS
  <2> QED
    BY CapStart, TtlFacts DEF ServiceInit, PgLobbyInit, LobbyInit, LobbyTypesInv, AgesBounded,
       IdleIsNone, MissedFits
<1>2. LobbyTypesInv /\ [ServiceNext]_serviceVars => LobbyTypesInv'
  <2> SUFFICES ASSUME LobbyTypesInv, [ServiceNext]_serviceVars PROVE LobbyTypesInv'
    OBVIOUS
  <2>1. CapInv'
    BY CapStep DEF LobbyTypesInv
  <2>2. CASE UNCHANGED serviceVars
    BY <2>1, <2>2 DEF serviceVars, pgLobbyVars, lobbyVars, trainerVars, battleVars, requestVars,
       rows, LobbyTypesInv, AgesBounded, IdleIsNone, MissedFits
  <2>3. CASE ServiceNext
    BY <2>1, <2>3, AgesStep, PlacesStep, RowsStep, MissedStep DEF LobbyTypesInv, CapInv
  <2> QED  BY <2>2, <2>3
<1>3. LobbyTypesInv => PgLobbyTypeOK
  <2> SUFFICES ASSUME LobbyTypesInv PROVE PgLobbyTypeOK
    OBVIOUS
  <2> USE DEF LobbyTypesInv, CapInv, TypeInv
  <2>1. seenAge \in [Tokens -> 0..(TrainerTTL + 1)] /\ touchedAge \in [Ids -> 0..MaxAge]
    BY TtlFacts DEF AgesBounded, TrainerTypes, BattleTypes
  <2>2. \A r \in Requests : /\ pc[r] = "idle" <=> op[r] = "none"
                            /\ pc[r] \in {"count", "insert"} => op[r] = "create"
                            /\ pc[r] = "update" => op[r] \in {"join", "turn"}
    BY DEF IdleIsNone, RequestsFit, RequestTypes, Handlers
  <2>3. op \in [Requests -> {"none", "create", "join", "turn", "list"}]
    BY DEF RequestTypes, Handlers
  <2>4. /\ trainer \in [Tokens -> Names \cup {Unissued, Swept}]
        /\ status \in [Ids -> {"none", "waiting", "active", "finished", "gone"}]
        /\ opener \in [Ids -> Tokens \cup {NoToken}] /\ joiner \in [Ids -> Tokens \cup {NoToken}]
        /\ token \in [Requests -> Tokens \cup {NoToken}]
        /\ target \in [Requests -> Ids \cup {NoId}]
    BY DEF TrainerTypes, BattleTypes, RequestTypes
  <2>5. LobbyTypeOK
    BY <2>1, <2>2, <2>3, <2>4 DEF LobbyTypeOK
  <2> QED  BY <2>5 DEF PgLobbyTypeOK, RowTypes, RequestTypes, MissedFits
<1> QED  BY <1>1, <1>2, <1>3, PTL DEF ServiceSpec

=============================================================================

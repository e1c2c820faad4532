------------------------------ MODULE MemLobby ------------------------------
(***************************************************************************)
(* The lobby on the in-memory store (memStore in battle.go): every store   *)
(* call holds the mutex, and a handler is a sequence of store calls with   *)
(* other requests in between.                                              *)
(***************************************************************************)
EXTENDS Lobby

\* Mutant: reading a token does not touch it
TrainerByTokenUntouched(r) ==
  /\ pc[r] = "auth"
  /\ IF Known(token[r])
     THEN Proceed(r, IF op[r] = "create" THEN "count" ELSE "update")
     ELSE Done(r)
  /\ UNCHANGED <<trainerVars, battleVars>>

\* A known token is touched in the call that looks it up
TrainerByToken(r) ==
  /\ pc[r] = "auth"
  /\ IF Known(token[r])
     THEN /\ seenAge' = [seenAge EXCEPT ![token[r]] = 0]
          /\ Proceed(r, IF op[r] = "create" THEN "count" ELSE "update")
     ELSE Done(r) /\ UNCHANGED seenAge
  /\ UNCHANGED <<trainer, battleVars>>

ExpiredBattles == {id \in Ids : Expired(id)}

\* The trainers to sweep once the expired battles are gone
IdleTrainers ==
  {t \in Tokens : Idle(t) /\ \A id \in Ids \ ExpiredBattles : ~Plays(t, id)}

SweepLocked == DropBattles(ExpiredBattles) /\ DropTrainers(IdleTrainers)

\* openBattlesFor and the cap of the handler
OpenBattlesFor(r) ==
  /\ pc[r] = "count"
  /\ SweepLocked
  /\ IF OpenBattles(token[r]) \subseteq ExpiredBattles
     THEN Proceed(r, "insert") ELSE Done(r)

\* create sweeps and then stores the battle without looking for another
Create(r) ==
  /\ pc[r] = "insert"
  /\ DropTrainers(IdleTrainers)
  /\ \E id \in Ids :
       /\ status[id] = "none"
       /\ status' = [i \in Ids |-> IF i = id THEN "waiting"
                                   ELSE IF Expired(i) THEN "gone" ELSE status[i]]
       /\ opener' = [i \in Ids |-> IF i = id THEN token[r]
                                   ELSE IF Expired(i) THEN NoToken ELSE opener[i]]
       /\ joiner' = [i \in Ids |-> IF Expired(i) THEN NoToken ELSE joiner[i]]
       /\ touchedAge' = [i \in Ids |-> IF Expired(i) THEN 0 ELSE touchedAge[i]]
  /\ Done(r)

Update(r) ==
  /\ pc[r] = "update"
  /\ IF Accepts(op[r], token[r], target[r])
     THEN Updates(op[r], token[r], target[r])
     ELSE UNCHANGED battleVars
  /\ Done(r)
  /\ UNCHANGED trainerVars

\* ListWaitingTrainers is one call
Waiting == SweepLocked /\ UNCHANGED requestVars

MemNext ==
  \/ \E r \in Requests : \/ CreateBattle(r) \/ JoinBattle(r) \/ TakeTurn(r)
                         \/ TrainerByToken(r) \/ OpenBattlesFor(r)
                         \/ Create(r) \/ Update(r)
  \/ \E n \in Names : RegisterTrainer(n)
  \/ Waiting
  \/ TimePasses

MemSpec == LobbyInit /\ [][MemNext]_lobbyVars

=============================================================================

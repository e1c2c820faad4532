---------------------------- MODULE ExchangeProofs ----------------------------
(***************************************************************************)
(* Theorems about Exchange, for all argument values and every request a    *)
(* stranger may send: a legal call reaches the handler of its operation    *)
(* and no other does, and what that handler answers is what its caller     *)
(* reads.  They rest on three facts about the tables of Operations and     *)
(* Schemas, which the two generated halves keep separately: the routes     *)
(* know the requests, the decoders the statuses, and the readers of a      *)
(* document its writers.                                                   *)
(***************************************************************************)
EXTENDS Exchange, TLAPS

-----------------------------------------------------------------------------
(* Documents                                                               *)

LEMMA Schemas21 ==
  Schema = {"Battle", "BattleEvent", "BattlePokemon", "Side", "StatStages", "Move",
            "MoveList", "Pokemon", "PokemonList", "TypeSummary", "TypeList",
            "WaitingBattle", "WaitingList", "Trainer", "Identity", "Health", "Error",
            "CreateBattle", "JoinBattle", "RegisterTrainer", "TakeTurn"}
BY DEF Schema, Encoder

\* What the decoder and the validator of a schema ask for is always written;
\* what is written when it is set is kept, and never taken for a required field.
CodersAgree(s) ==
  /\ Decoder[s].required \cup NotNil(s) \subseteq Encoder[s].always
  /\ Encoder[s].maybe \subseteq Decoder[s].optional
  /\ Encoder[s].always \cap Decoder[s].optional = {}
  /\ Encoder[s].parts \subseteq Schema

LEMMA Agree == \A s \in Schema : CodersAgree(s)
<1> USE Schemas21 DEF CodersAgree, Encoder, Decoder, NotNil, Writes, Reads
<1>1. CodersAgree("Battle")
  BY DEF BattleEncode, BattleDecode, BattleValidate
<1>2. CodersAgree("BattleEvent")
  BY DEF BattleEventEncode, BattleEventDecode
<1>3. CodersAgree("BattlePokemon")
  BY DEF BattlePokemonEncode, BattlePokemonDecode, BattlePokemonValidate
<1>4. CodersAgree("Side")
  BY DEF SideEncode, SideDecode, SideValidate
<1>5. CodersAgree("StatStages")
  BY DEF StatStagesEncode, StatStagesDecode
<1>6. CodersAgree("Move")
  BY DEF MoveEncode, MoveDecode
<1>7. CodersAgree("MoveList")
  BY DEF MoveListEncode, MoveListDecode, MoveListValidate
<1>8. CodersAgree("Pokemon")
  BY DEF PokemonEncode, PokemonDecode, PokemonValidate
<1>9. CodersAgree("PokemonList")
  BY DEF PokemonListEncode, PokemonListDecode, PokemonListValidate
<1>10. CodersAgree("TypeSummary")
  BY DEF TypeSummaryEncode, TypeSummaryDecode
<1>11. CodersAgree("TypeList")
  BY DEF TypeListEncode, TypeListDecode, TypeListValidate
<1>12. CodersAgree("WaitingBattle")
  BY DEF WaitingBattleEncode, WaitingBattleDecode, WaitingBattleValidate
<1>13. CodersAgree("WaitingList")
  BY DEF WaitingListEncode, WaitingListDecode, WaitingListValidate
<1>14. CodersAgree("Trainer")
  BY DEF TrainerEncode, TrainerDecode
<1>15. CodersAgree("Identity")
  BY DEF IdentityEncode, IdentityDecode
<1>16. CodersAgree("Health")
  BY DEF HealthEncode, HealthDecode
<1>17. CodersAgree("Error")
  BY DEF ErrorEncode, ErrorDecode
<1>18. CodersAgree("CreateBattle")
  BY DEF CreateBattleEncode, CreateBattleDecode
<1>19. CodersAgree("JoinBattle")
  BY DEF JoinBattleEncode, JoinBattleDecode
<1>20. CodersAgree("RegisterTrainer")
  BY DEF RegisterTrainerEncode, RegisterTrainerDecode
<1>21. CodersAgree("TakeTurn")
  BY DEF TakeTurnEncode, TakeTurnDecode
<1> HIDE DEF CodersAgree, Encoder, Decoder, NotNil, Writes, Reads
<1> QED
  BY <1>1, <1>2, <1>3, <1>4, <1>5, <1>6, <1>7, <1>8, <1>9, <1>10, <1>11, <1>12, <1>13, <1>14, <1>15, <1>16, <1>17, <1>18, <1>19, <1>20, <1>21

\* The documents nested in one of a schema are of schemas too.
LEMMA NestedAreSchemas == \A s \in Schema : Within(s) \subseteq Schema
<1> DEFINE Nest(X) == X \cup UNION {Encoder[x].parts : x \in X}
<1>1. ASSUME NEW X \in SUBSET Schema
      PROVE  Nest(X) \in SUBSET Schema
  BY Agree DEF CodersAgree
<1> SUFFICES ASSUME NEW s \in Schema PROVE Within(s) \subseteq Schema
  OBVIOUS
<1>2. Within(s) = Nest(Nest(Nest({s})))
  BY DEF Within
<1> HIDE DEF Nest
<1>3. {s} \in SUBSET Schema
  OBVIOUS
<1> QED  BY <1>1, <1>2, <1>3

\* A value is read back as it was written, however many schemas deep and
\* whichever of its optional fields are set.
LEMMA ReadBack ==
  ASSUME NEW s \in Schema, NEW v \in ValuesOf(s)
  PROVE  Decodable(s, Encode(v)) /\ Decode(s, Encode(v)) = v
<1>1. PICK u \in Within(s) : \E set \in SUBSET Encoder[u].maybe :
        v = [w \in Within(s) |-> IF w = u THEN set ELSE Encoder[w].maybe]
  BY DEF ValuesOf
<1>2. /\ v = [w \in Within(s) |-> v[w]]
      /\ \A w \in Within(s) : v[w] \subseteq Encoder[w].maybe
  BY <1>1
<1>3. \A w \in Within(s) : CodersAgree(w)
  BY NestedAreSchemas, Agree
<1>4. /\ DOMAIN Encode(v) = Within(s)
      /\ \A w \in Within(s) : Encode(v)[w] = Encoder[w].always \cup v[w]
  BY <1>2 DEF Encode
<1>5. Decodable(s, Encode(v))
  BY <1>3, <1>4 DEF Decodable, CodersAgree
<1>6. ASSUME NEW w \in Within(s)
      PROVE  Encode(v)[w] \cap Decoder[w].optional = v[w]
  BY <1>2, <1>3, <1>4 DEF CodersAgree
<1>7. Decode(s, Encode(v)) = v
  BY <1>2, <1>6 DEF Decode
<1> QED  BY <1>5, <1>7

-----------------------------------------------------------------------------
(* Answers                                                                 *)

LEMMA Operations15 ==
  Operation = {"CreateBattle", "JoinBattle", "TakeTurn", "RegisterTrainer", "GetBattle",
               "ListWaitingTrainers", "ListPokemon", "GetPokemon", "ListPokemonMoves",
               "ListMoves", "GetMove", "ListTypes", "GetHealthz", "GetReadyz", "GetRoot"}
BY DEF Operation, Sent

\* Every answer of a handler has a status; the client reads that status, and no
\* other answer's, as its type, and a failure's as none it knows.
StatusesAgree(answers, encoded, decoded) ==
  /\ answers \subseteq DOMAIN encoded \cup {Failure}
  /\ \A type \in answers \ {Failure} :
       /\ \E d \in decoded : d.status = encoded[type]
       /\ \A d \in decoded : d.status = encoded[type] => d.type = type
  /\ \A d \in decoded : d.status # 500 /\ d.type # Failure

LEMMA StatusTables ==
  \A op \in Operation : StatusesAgree(Answers[op], Encoded[op], Decoded[op])
<1> DEFINE Agreed(op) == StatusesAgree(Answers[op], Encoded[op], Decoded[op])
<1> USE DEF StatusesAgree, Failure, As
<1>1. Agreed("CreateBattle")
  <2>1. StatusesAgree(CreateBattleAnswers, CreateBattleEncoded, CreateBattleDecoded)
    BY DEF CreateBattleAnswers, CreateBattleEncoded, CreateBattleDecoded
  <2> QED  BY <2>1 DEF Answers, Encoded, Decoded
<1>2. Agreed("JoinBattle")
  <2>1. StatusesAgree(JoinBattleAnswers, JoinBattleEncoded, JoinBattleDecoded)
    BY DEF JoinBattleAnswers, JoinBattleEncoded, JoinBattleDecoded
  <2> QED  BY <2>1 DEF Answers, Encoded, Decoded
<1>3. Agreed("TakeTurn")
  <2>1. StatusesAgree(TakeTurnAnswers, TakeTurnEncoded, TakeTurnDecoded)
    BY DEF TakeTurnAnswers, TakeTurnEncoded, TakeTurnDecoded
  <2> QED  BY <2>1 DEF Answers, Encoded, Decoded
<1>4. Agreed("RegisterTrainer")
  <2>1. StatusesAgree(RegisterTrainerAnswers, RegisterTrainerEncoded, RegisterTrainerDecoded)
    BY DEF RegisterTrainerAnswers, RegisterTrainerEncoded, RegisterTrainerDecoded
  <2> QED  BY <2>1 DEF Answers, Encoded, Decoded
<1>5. Agreed("GetBattle")
  <2>1. StatusesAgree(GetBattleAnswers, GetBattleEncoded, GetBattleDecoded)
    BY DEF GetBattleAnswers, GetBattleEncoded, GetBattleDecoded
  <2> QED  BY <2>1 DEF Answers, Encoded, Decoded
<1>6. Agreed("ListWaitingTrainers")
  <2>1. StatusesAgree(ListWaitingTrainersAnswers, ListWaitingTrainersEncoded, ListWaitingTrainersDecoded)
    BY DEF ListWaitingTrainersAnswers, ListWaitingTrainersEncoded, ListWaitingTrainersDecoded
  <2> QED  BY <2>1 DEF Answers, Encoded, Decoded
<1>7. Agreed("ListPokemon")
  <2>1. StatusesAgree(ListPokemonAnswers, ListPokemonEncoded, ListPokemonDecoded)
    BY DEF ListPokemonAnswers, ListPokemonEncoded, ListPokemonDecoded
  <2> QED  BY <2>1 DEF Answers, Encoded, Decoded
<1>8. Agreed("GetPokemon")
  <2>1. StatusesAgree(GetPokemonAnswers, GetPokemonEncoded, GetPokemonDecoded)
    BY DEF GetPokemonAnswers, GetPokemonEncoded, GetPokemonDecoded
  <2> QED  BY <2>1 DEF Answers, Encoded, Decoded
<1>9. Agreed("ListPokemonMoves")
  <2>1. StatusesAgree(ListPokemonMovesAnswers, ListPokemonMovesEncoded, ListPokemonMovesDecoded)
    BY DEF ListPokemonMovesAnswers, ListPokemonMovesEncoded, ListPokemonMovesDecoded
  <2> QED  BY <2>1 DEF Answers, Encoded, Decoded
<1>10. Agreed("ListMoves")
  <2>1. StatusesAgree(ListMovesAnswers, ListMovesEncoded, ListMovesDecoded)
    BY DEF ListMovesAnswers, ListMovesEncoded, ListMovesDecoded
  <2> QED  BY <2>1 DEF Answers, Encoded, Decoded
<1>11. Agreed("GetMove")
  <2>1. StatusesAgree(GetMoveAnswers, GetMoveEncoded, GetMoveDecoded)
    BY DEF GetMoveAnswers, GetMoveEncoded, GetMoveDecoded
  <2> QED  BY <2>1 DEF Answers, Encoded, Decoded
<1>12. Agreed("ListTypes")
  <2>1. StatusesAgree(ListTypesAnswers, ListTypesEncoded, ListTypesDecoded)
    BY DEF ListTypesAnswers, ListTypesEncoded, ListTypesDecoded
  <2> QED  BY <2>1 DEF Answers, Encoded, Decoded
<1>13. Agreed("GetHealthz")
  <2>1. StatusesAgree(GetHealthzAnswers, GetHealthzEncoded, GetHealthzDecoded)
    BY DEF GetHealthzAnswers, GetHealthzEncoded, GetHealthzDecoded
  <2> QED  BY <2>1 DEF Answers, Encoded, Decoded
<1>14. Agreed("GetReadyz")
  <2>1. StatusesAgree(GetReadyzAnswers, GetReadyzEncoded, GetReadyzDecoded)
    BY DEF GetReadyzAnswers, GetReadyzEncoded, GetReadyzDecoded
  <2> QED  BY <2>1 DEF Answers, Encoded, Decoded
<1>15. Agreed("GetRoot")
  <2>1. StatusesAgree(GetRootAnswers, GetRootEncoded, GetRootDecoded)
    BY DEF GetRootAnswers, GetRootEncoded, GetRootDecoded
  <2> QED  BY <2>1 DEF Answers, Encoded, Decoded
<1> HIDE DEF Agreed
<1>16. \A op \in Operation : Agreed(op)
  BY Operations15, <1>1, <1>2, <1>3, <1>4, <1>5, <1>6, <1>7, <1>8,
     <1>9, <1>10, <1>11, <1>12, <1>13, <1>14, <1>15
<1> QED  BY <1>16 DEF Agreed

-----------------------------------------------------------------------------
(* Requests                                                                *)

\* The request of an operation has a route, and no other operation's.
RoutesAgree(op, sends) ==
  /\ \E r \in Routes : r.path = sends.path /\ r.method = sends.method
  /\ \A r \in Routes : r.path = sends.path /\ r.method = sends.method => r.op = op

LEMMA RouteTable == \A op \in Operation : RoutesAgree(op, Sent[op])
<1> DEFINE Agreed(op) == RoutesAgree(op, Sent[op])
<1> USE DEF RoutesAgree, Routes, RootRoute, BattleRoutes, HealthzRoute, MoveRoutes,
            PokemonRoutes, ReadyzRoute, TrainerRoutes, TypesRoute, Route, Param
<1>1. RoutesAgree("CreateBattle", CreateBattleSend)
  BY DEF CreateBattleSend, Sends
<1>2. RoutesAgree("JoinBattle", JoinBattleSend)
  BY DEF JoinBattleSend, Sends
<1>3. RoutesAgree("TakeTurn", TakeTurnSend)
  BY DEF TakeTurnSend, Sends
<1>4. RoutesAgree("RegisterTrainer", RegisterTrainerSend)
  BY DEF RegisterTrainerSend, Sends
<1>5. RoutesAgree("GetBattle", GetBattleSend)
  BY DEF GetBattleSend, Sends, Get
<1>6. RoutesAgree("ListWaitingTrainers", ListWaitingTrainersSend)
  BY DEF ListWaitingTrainersSend, Sends, Get
<1>7. RoutesAgree("ListPokemon", ListPokemonSend)
  BY DEF ListPokemonSend, Sends, Get
<1>8. RoutesAgree("GetPokemon", GetPokemonSend)
  BY DEF GetPokemonSend, Sends, Get
<1>9. RoutesAgree("ListPokemonMoves", ListPokemonMovesSend)
  BY DEF ListPokemonMovesSend, Sends, Get
<1>10. RoutesAgree("ListMoves", ListMovesSend)
  BY DEF ListMovesSend, Sends, Get
<1>11. RoutesAgree("GetMove", GetMoveSend)
  BY DEF GetMoveSend, Sends, Get
<1>12. RoutesAgree("ListTypes", ListTypesSend)
  BY DEF ListTypesSend, Sends, Get
<1>13. RoutesAgree("GetHealthz", GetHealthzSend)
  BY DEF GetHealthzSend, Sends, Get
<1>14. RoutesAgree("GetReadyz", GetReadyzSend)
  BY DEF GetReadyzSend, Sends, Get
<1>15. RoutesAgree("GetRoot", GetRootSend)
  BY DEF GetRootSend, Sends, Get
<1> HIDE DEF RoutesAgree
<1>16. \A op \in Operation : Agreed(op)
  BY Operations15, <1>1, <1>2, <1>3, <1>4, <1>5, <1>6, <1>7, <1>8,
     <1>9, <1>10, <1>11, <1>12, <1>13, <1>14, <1>15 DEF Sent
<1> QED  BY <1>16 DEF Agreed

\* The arguments of a call: all it takes but some that are optional.
LEMMA ArgumentsAre ==
  ASSUME NEW op \in Operation, NEW args \in Arguments(op)
  PROVE  /\ args = [a \in DOMAIN args |-> args[a]]
         /\ DOMAIN args \subseteq Sent[op].args \cup BodyFields(op)
         /\ (Sent[op].args \cup BodyFields(op)) \ Optional(op) \subseteq DOMAIN args
         /\ \A a \in DOMAIN args : args[a] \in ArgValues[a]
<1> DEFINE all == Sent[op].args \cup BodyFields(op)
<1>1. PICK set \in {x \in SUBSET all : all \ Optional(op) \subseteq x} :
         args \in {f \in [set -> UNION {ArgValues[a] : a \in set}] :
                     \A a \in set : f[a] \in ArgValues[a]}
  BY DEF Arguments
<1> HIDE DEF all
<1>2. /\ args \in [set -> UNION {ArgValues[a] : a \in set}]
      /\ \A a \in set : args[a] \in ArgValues[a]
      /\ set \subseteq all /\ all \ Optional(op) \subseteq set
  BY <1>1
<1> QED  BY <1>2 DEF all

\* Which they are, operation by operation
Takes(op, params, fields, optional) ==
  Sent[op].args = params /\ BodyFields(op) = fields /\ Optional(op) = optional

LEMMA TakesTable ==
  /\ Takes("CreateBattle", {Token}, {"team"}, {"team"})
  /\ Takes("JoinBattle", {"id", Token}, {"team"}, {"team"})
  /\ Takes("TakeTurn", {"id", Token}, {"attacker", "move", "target"}, {})
  /\ Takes("RegisterTrainer", {}, {"name"}, {})
  /\ Takes("GetBattle", {"id"}, {}, {})
  /\ Takes("ListWaitingTrainers", {}, {}, {})
  /\ Takes("ListPokemon", {"type", "limit", "after"}, {}, {"type", "limit", "after"})
  /\ Takes("GetPokemon", {"name"}, {}, {})
  /\ Takes("ListPokemonMoves", {"name"}, {}, {})
  /\ Takes("ListMoves", {}, {}, {})
  /\ Takes("GetMove", {"name"}, {}, {})
  /\ Takes("ListTypes", {}, {}, {})
  /\ Takes("GetHealthz", {}, {}, {})
  /\ Takes("GetReadyz", {}, {}, {})
  /\ Takes("GetRoot", {}, {}, {})
<1> USE DEF Takes, BodyFields, Optional, NoBody, Sends
<1>1. Takes("CreateBattle", {Token}, {"team"}, {"team"})
  <2>1. Sent["CreateBattle"] = CreateBattleSend
    BY DEF Sent
  <2> QED  BY <2>1 DEF CreateBattleSend, Encoder, CreateBattleEncode, Writes
<1>2. Takes("JoinBattle", {"id", Token}, {"team"}, {"team"})
  <2>1. Sent["JoinBattle"] = JoinBattleSend
    BY DEF Sent
  <2> QED  BY <2>1 DEF JoinBattleSend, Encoder, JoinBattleEncode, Writes
<1>3. Takes("TakeTurn", {"id", Token}, {"attacker", "move", "target"}, {})
  <2>1. Sent["TakeTurn"] = TakeTurnSend
    BY DEF Sent
  <2> QED  BY <2>1 DEF TakeTurnSend, Encoder, TakeTurnEncode, Writes
<1>4. Takes("RegisterTrainer", {}, {"name"}, {})
  <2>1. Sent["RegisterTrainer"] = RegisterTrainerSend
    BY DEF Sent
  <2> QED  BY <2>1 DEF RegisterTrainerSend, Encoder, RegisterTrainerEncode, Writes
<1>5. Takes("GetBattle", {"id"}, {}, {})
  <2>1. Sent["GetBattle"] = GetBattleSend
    BY DEF Sent
  <2> QED  BY <2>1 DEF GetBattleSend, Get
<1>6. Takes("ListWaitingTrainers", {}, {}, {})
  <2>1. Sent["ListWaitingTrainers"] = ListWaitingTrainersSend
    BY DEF Sent
  <2> QED  BY <2>1 DEF ListWaitingTrainersSend, Get
<1>7. Takes("ListPokemon", {"type", "limit", "after"}, {}, {"type", "limit", "after"})
  <2>1. Sent["ListPokemon"] = ListPokemonSend
    BY DEF Sent
  <2> QED  BY <2>1 DEF ListPokemonSend, Get
<1>8. Takes("GetPokemon", {"name"}, {}, {})
  <2>1. Sent["GetPokemon"] = GetPokemonSend
    BY DEF Sent
  <2> QED  BY <2>1 DEF GetPokemonSend, Get
<1>9. Takes("ListPokemonMoves", {"name"}, {}, {})
  <2>1. Sent["ListPokemonMoves"] = ListPokemonMovesSend
    BY DEF Sent
  <2> QED  BY <2>1 DEF ListPokemonMovesSend, Get
<1>10. Takes("ListMoves", {}, {}, {})
  <2>1. Sent["ListMoves"] = ListMovesSend
    BY DEF Sent
  <2> QED  BY <2>1 DEF ListMovesSend, Get
<1>11. Takes("GetMove", {"name"}, {}, {})
  <2>1. Sent["GetMove"] = GetMoveSend
    BY DEF Sent
  <2> QED  BY <2>1 DEF GetMoveSend, Get
<1>12. Takes("ListTypes", {}, {}, {})
  <2>1. Sent["ListTypes"] = ListTypesSend
    BY DEF Sent
  <2> QED  BY <2>1 DEF ListTypesSend, Get
<1>13. Takes("GetHealthz", {}, {}, {})
  <2>1. Sent["GetHealthz"] = GetHealthzSend
    BY DEF Sent
  <2> QED  BY <2>1 DEF GetHealthzSend, Get
<1>14. Takes("GetReadyz", {}, {}, {})
  <2>1. Sent["GetReadyz"] = GetReadyzSend
    BY DEF Sent
  <2> QED  BY <2>1 DEF GetReadyzSend, Get
<1>15. Takes("GetRoot", {}, {}, {})
  <2>1. Sent["GetRoot"] = GetRootSend
    BY DEF Sent
  <2> QED  BY <2>1 DEF GetRootSend, Get
<1> QED
  BY <1>1, <1>2, <1>3, <1>4, <1>5, <1>6, <1>7, <1>8,
     <1>9, <1>10, <1>11, <1>12, <1>13, <1>14, <1>15

\* The checks of an operation, on the two halves of what its call has sent
Passes(op, args) ==
  /\ ParamsOk(op, Restricted(args, Sent[op].args))
  /\ BodyOk(op, Restricted(args, BodyFields(op)))

LEMMA RestrictedAre ==
  ASSUME NEW args, NEW names
  PROVE  /\ DOMAIN Restricted(args, names) = DOMAIN args \cap names
         /\ \A a \in DOMAIN args \cap names : Restricted(args, names)[a] = args[a]
BY DEF Restricted

\* The generated checks let through exactly what openapi.yml allows.
LEMMA ChecksAgree ==
  ASSUME NEW op \in Operation, NEW args \in Arguments(op)
  PROVE  Passes(op, args) <=> Allows(op, args)
<1> DEFINE params == Restricted(args, Sent[op].args)
           body == Restricted(args, BodyFields(op))
<1>1. /\ DOMAIN args \subseteq Sent[op].args \cup BodyFields(op)
      /\ (Sent[op].args \cup BodyFields(op)) \ Optional(op) \subseteq DOMAIN args
      /\ DOMAIN params = DOMAIN args \cap Sent[op].args
      /\ DOMAIN body = DOMAIN args \cap BodyFields(op)
      /\ \A a \in DOMAIN args \cap Sent[op].args : params[a] = args[a]
      /\ \A a \in DOMAIN args \cap BodyFields(op) : body[a] = args[a]
  BY ArgumentsAre, RestrictedAre
<1>2. \A a \in DOMAIN args \cap {"id", "name", "limit", "team"} : args[a] \in Int
  BY ArgumentsAre, ExchangeAssumption
<1>3. Passes(op, args) <=> ParamsOk(op, params) /\ BodyOk(op, body)
  BY DEF Passes
<1> HIDE DEF params, body
<1> USE <1>1, <1>2, TakesTable DEF Takes, ParamsOk, BodyOk, Allows, Token
<1>4. CASE op = "CreateBattle"
  BY <1>3, <1>4 DEF CreateBattleParams, CreateBattleRequest, CreateBattleValidate, Has, Decoder, CreateBattleDecode, Reads
<1>5. CASE op = "JoinBattle"
  BY <1>3, <1>5 DEF JoinBattleParams, NotEmpty, JoinBattleRequest, JoinBattleValidate, Has, Decoder, JoinBattleDecode, Reads
<1>6. CASE op = "TakeTurn"
  BY <1>3, <1>6 DEF TakeTurnParams, NotEmpty, TakeTurnRequest, Has, Decoder, TakeTurnDecode, Reads
<1>7. CASE op = "RegisterTrainer"
  BY <1>3, <1>7 DEF RegisterTrainerRequest, RegisterTrainerValidate, Has, Decoder, RegisterTrainerDecode, Reads
<1>8. CASE op = "GetBattle"
  BY <1>3, <1>8 DEF GetBattleParams, NotEmpty
<1>9. CASE op = "ListWaitingTrainers"
  BY <1>3, <1>9
<1>10. CASE op = "ListPokemon"
  BY <1>3, <1>10 DEF ListPokemonParams
<1>11. CASE op = "GetPokemon"
  BY <1>3, <1>11 DEF GetPokemonParams, NotEmpty
<1>12. CASE op = "ListPokemonMoves"
  BY <1>3, <1>12 DEF ListPokemonMovesParams, NotEmpty
<1>13. CASE op = "ListMoves"
  BY <1>3, <1>13
<1>14. CASE op = "GetMove"
  BY <1>3, <1>14 DEF GetMoveParams, NotEmpty
<1>15. CASE op = "ListTypes"
  BY <1>3, <1>15
<1>16. CASE op = "GetHealthz"
  BY <1>3, <1>16
<1>17. CASE op = "GetReadyz"
  BY <1>3, <1>17
<1>18. CASE op = "GetRoot"
  BY <1>3, <1>18
<1> QED
  BY Operations15, <1>4, <1>5, <1>6, <1>7, <1>8, <1>9, <1>10, <1>11,
     <1>12, <1>13, <1>14, <1>15, <1>16, <1>17, <1>18


CheckLists == {<<"params", "body">>, <<"params">>, <<"body">>, << >>}

\* The checks a handler makes, and what it needs no check for
ChecksMade(op, checks) ==
  /\ checks \in CheckLists
  /\ checks \in {<<"params", "body">>, <<"params">>} \/ \A args : ParamsOk(op, args)
  /\ checks \in {<<"params", "body">>, <<"body">>} \/ \A body : BodyOk(op, body)

LEMMA ChecksTable == \A op \in Operation : ChecksMade(op, Checks[op])
<1> DEFINE Agreed(op) == ChecksMade(op, Checks[op])
<1> USE DEF ChecksMade, CheckLists, ParamsOk, BodyOk
<1>1. ChecksMade("CreateBattle", CreateBattleHandle)
  BY DEF CreateBattleHandle
<1>2. ChecksMade("JoinBattle", JoinBattleHandle)
  BY DEF JoinBattleHandle
<1>3. ChecksMade("TakeTurn", TakeTurnHandle)
  BY DEF TakeTurnHandle
<1>4. ChecksMade("RegisterTrainer", RegisterTrainerHandle)
  BY DEF RegisterTrainerHandle
<1>5. ChecksMade("GetBattle", GetBattleHandle)
  BY DEF GetBattleHandle
<1>6. ChecksMade("ListWaitingTrainers", ListWaitingTrainersHandle)
  BY DEF ListWaitingTrainersHandle
<1>7. ChecksMade("ListPokemon", ListPokemonHandle)
  BY DEF ListPokemonHandle
<1>8. ChecksMade("GetPokemon", GetPokemonHandle)
  BY DEF GetPokemonHandle
<1>9. ChecksMade("ListPokemonMoves", ListPokemonMovesHandle)
  BY DEF ListPokemonMovesHandle
<1>10. ChecksMade("ListMoves", ListMovesHandle)
  BY DEF ListMovesHandle
<1>11. ChecksMade("GetMove", GetMoveHandle)
  BY DEF GetMoveHandle
<1>12. ChecksMade("ListTypes", ListTypesHandle)
  BY DEF ListTypesHandle
<1>13. ChecksMade("GetHealthz", GetHealthzHandle)
  BY DEF GetHealthzHandle
<1>14. ChecksMade("GetReadyz", GetReadyzHandle)
  BY DEF GetReadyzHandle
<1>15. ChecksMade("GetRoot", GetRootHandle)
  BY DEF GetRootHandle
<1> HIDE DEF ChecksMade
<1>16. \A op \in Operation : Agreed(op)
  BY Operations15, <1>1, <1>2, <1>3, <1>4, <1>5, <1>6, <1>7, <1>8,
     <1>9, <1>10, <1>11, <1>12, <1>13, <1>14, <1>15 DEF Checks
<1> QED  BY <1>16 DEF Agreed

-----------------------------------------------------------------------------
(* The inductive invariant                                                 *)

RequestOf(op, args) ==
  [method |-> Sent[op].method, path |-> Sent[op].path,
   args |-> Restricted(args, Sent[op].args), body |-> Restricted(args, BodyFields(op))]

\* What is on its way is what the caller's arguments make.
CallIsSent ==
  call # NoCall => /\ call.op \in Operation
                   /\ call.args \in Arguments(call.op)
                   /\ request = RequestOf(call.op, call.args)

Unanswered == given = Nothing /\ answer = NoAnswer

\* The handler is that of the call, and a check that is no longer before it
\* has been passed.
OnItsWay ==
  /\ reached \in [op : Operation, checks : CheckLists] /\ reached.op = call.op
  /\ ParamsOk(call.op, request.args) \/ reached.checks \in {<<"params", "body">>, <<"params">>}
  /\ BodyOk(call.op, request.body) \/ reached.checks \in {<<"params", "body">>, <<"body">>}

Refused == ~Passes(call.op, call.args) /\ Unanswered

Refusal == [status |-> 400, kind |-> "json", doc |-> [w \in {"Error"} |-> {"error_message"}]]

Handled ==
  /\ Passes(call.op, call.args)
  /\ given = Given(call.op, request.args, request.body)
  /\ answer.type \in Answers[call.op]
  /\ answer.value \in ValuesOf(SchemaOf(answer.type))

\* The response says what was answered, and the caller is told it.
Carried == response = [status |-> StatusOf(call.op, answer.type), kind |-> "json",
                       doc |-> Encode(answer.value)]
Arrived == result = [kind |-> IF answer.type = Failure THEN "failed" ELSE Told(answer.type),
                     type |-> answer.type, value |-> answer.value]

Phases ==
  /\ at \in {"idle", "sent", "checking", "answered", "done"}
  /\ at \in {"idle", "sent", "checking"} => Unanswered
  /\ at # "done" => result = NoResult
  /\ at = "idle" => call = NoCall
  /\ at = "checking" /\ call # NoCall => OnItsWay
  /\ at = "answered" /\ call # NoCall =>
       (Refused /\ response = Refusal) \/ (Handled /\ Carried)
  /\ at = "done" /\ result.kind # "lost" =>
       call # NoCall /\ ((Refused /\ result = Garbled) \/ (Handled /\ Arrived))

ExchangeInv == CallIsSent /\ Phases

LEMMA StartIdle == Init => ExchangeInv
BY DEF Init, ExchangeInv, CallIsSent, Phases, Unanswered

LEMMA NoneIsNoOperation == "none" \notin Operation
BY Operations15

LEMMA CallKeeps ==
  ASSUME ExchangeInv, NEW op \in Operation, Call(op)
  PROVE  ExchangeInv'
<1>1. PICK args \in Arguments(op) :
         /\ call' = [op |-> op, args |-> args] /\ request' = RequestOf(op, args)
         /\ at = "idle" /\ at' = "sent"
         /\ UNCHANGED <<reached, given, answer, response, result>>
  BY DEF Call, RequestOf
<1>2. CallIsSent'
  BY <1>1 DEF CallIsSent
<1>3. Phases'
  BY <1>1 DEF ExchangeInv, Phases, Unanswered
<1> QED  BY <1>2, <1>3 DEF ExchangeInv

\* A stranger's request is nobody's call.
LEMMA StrayKeeps ==
  ASSUME ExchangeInv, Stray
  PROVE  ExchangeInv'
<1>1. /\ at = "idle" /\ at' = "sent"
      /\ UNCHANGED <<call, reached, given, answer, response, result>>
  BY DEF Stray
<1> QED  BY <1>1 DEF ExchangeInv, CallIsSent, Phases, Unanswered

LEMMA LoseKeeps ==
  ASSUME ExchangeInv, Lose
  PROVE  ExchangeInv'
<1>1. result'.kind = "lost"
  BY DEF Lose, NoResult
<1>2. CallIsSent'
  BY DEF Lose, ExchangeInv, CallIsSent
<1>3. Phases'
  BY <1>1 DEF Lose, Phases
<1> QED  BY <1>2, <1>3 DEF ExchangeInv

\* The router knows the request of every call, by its operation.
LEMMA DispatchKeeps ==
  ASSUME ExchangeInv, Dispatch
  PROVE  ExchangeInv'
<1>1. /\ at = "sent" /\ at' \in {"checking", "answered"}
      /\ UNCHANGED <<call, request, given, answer, result>>
  BY DEF Dispatch, Respond
<1>2. CallIsSent'
  BY <1>1 DEF ExchangeInv, CallIsSent, RequestOf
<1>3. ASSUME call # NoCall
      PROVE  at' = "checking" /\ OnItsWay'
  <2>1. /\ call.op \in Operation /\ RoutesAgree(call.op, Sent[call.op])
        /\ request.path = Sent[call.op].path /\ request.method = Sent[call.op].method
    BY <1>3, RouteTable DEF ExchangeInv, CallIsSent, RequestOf
  <2>2. PICK r \in Routes : r.path = request.path /\ r.method = request.method
    BY <2>1 DEF RoutesAgree
  <2>3. PICK q \in Matching : /\ q.method = request.method
                              /\ reached' = [op |-> q.op, checks |-> Checks[q.op]]
                              /\ at' = "checking"
    BY <2>2 DEF Dispatch, Matching
  <2>4. q.op = call.op
    BY <2>1, <2>3 DEF RoutesAgree, Matching
  <2>5. OnItsWay'
    BY <1>1, <2>1, <2>3, <2>4, ChecksTable DEF ChecksMade, OnItsWay
  <2> QED  BY <2>3, <2>5
<1>4. Phases'
  BY <1>1, <1>3 DEF ExchangeInv, Phases, Unanswered
<1> QED  BY <1>2, <1>4 DEF ExchangeInv

LEMMA CheckTaken ==
  ASSUME NEW checks \in CheckLists, checks # << >>
  PROVE  \/ checks = <<"params", "body">> /\ Head(checks) = "params" /\ Tail(checks) = <<"body">>
         \/ checks = <<"params">> /\ Head(checks) = "params" /\ Tail(checks) = << >>
         \/ checks = <<"body">> /\ Head(checks) = "body" /\ Tail(checks) = << >>
<1>1. CASE checks = <<"params", "body">>
  BY <1>1
<1>2. CASE checks = <<"params">>
  BY <1>2
<1>3. CASE checks = <<"body">>
  BY <1>3
<1> QED  BY <1>1, <1>2, <1>3 DEF CheckLists

LEMMA CheckKeeps ==
  ASSUME ExchangeInv, Check
  PROVE  ExchangeInv'
<1>1. /\ at = "checking" /\ reached.checks # << >>
      /\ UNCHANGED <<call, request, given, answer, result>>
  BY DEF Check
<1>2. CallIsSent'
  BY <1>1 DEF ExchangeInv, CallIsSent, RequestOf
<1> DEFINE ok == IF Head(reached.checks) = "params" THEN ParamsOk(reached.op, request.args)
                 ELSE BodyOk(reached.op, request.body)
<1>3. CASE ok
  <2>1. reached' = [reached EXCEPT !.checks = Tail(@)] /\ UNCHANGED <<response, at>>
    BY <1>3 DEF Check, Handling
  <2>2. ASSUME call # NoCall
        PROVE  OnItsWay'
    <3>1. OnItsWay
      BY <1>1, <2>2 DEF ExchangeInv, Phases
    <3> DEFINE checks == reached.checks
               left == Tail(reached.checks)
    <3>2. /\ reached.op = call.op /\ call.op \in Operation /\ checks \in CheckLists
          /\ reached'.op = reached.op /\ reached'.checks = left
          /\ reached' = [op |-> reached.op, checks |-> left]
      BY <2>1, <3>1 DEF OnItsWay
    <3>3. \/ checks = <<"params", "body">> /\ Head(checks) = "params" /\ left = <<"body">>
          \/ checks = <<"params">> /\ Head(checks) = "params" /\ left = << >>
          \/ checks = <<"body">> /\ Head(checks) = "body" /\ left = << >>
      BY <1>1, <3>2, CheckTaken
    <3>4. /\ ParamsOk(call.op, request.args) \/ checks \in {<<"params", "body">>, <<"params">>}
          /\ BodyOk(call.op, request.body) \/ checks \in {<<"params", "body">>, <<"body">>}
      BY <3>1 DEF OnItsWay
    <3>5. IF Head(checks) = "params" THEN ParamsOk(call.op, request.args)
          ELSE BodyOk(call.op, request.body)
      BY <1>3, <3>2
    <3> HIDE DEF checks, left
    <3>6. left \in CheckLists
      BY <3>3 DEF CheckLists
    <3>7. /\ ParamsOk(call.op, request.args) \/ left \in {<<"params", "body">>, <<"params">>}
          /\ BodyOk(call.op, request.body) \/ left \in {<<"params", "body">>, <<"body">>}
      BY <3>3, <3>4, <3>5
    <3> QED  BY <1>1, <3>2, <3>6, <3>7 DEF OnItsWay
  <2> QED  BY <1>1, <1>2, <2>1, <2>2 DEF ExchangeInv, Phases, Unanswered
<1>4. CASE ~ok
  <2>1. at' = "answered" /\ response' = Refusal
    BY <1>4 DEF Check, Handling, Refuse, Refusal, Respond
  <2>2. ASSUME call # NoCall
        PROVE  Refused
    <3>1. OnItsWay /\ Unanswered /\ request = RequestOf(call.op, call.args)
      BY <1>1, <2>2 DEF ExchangeInv, Phases, CallIsSent
    <3>2. ~ParamsOk(call.op, request.args) \/ ~BodyOk(call.op, request.body)
      BY <1>4, <3>1 DEF OnItsWay
    <3> QED  BY <3>1, <3>2 DEF Refused, Passes, RequestOf
  <2> QED  BY <1>1, <1>2, <2>1, <2>2 DEF ExchangeInv, Phases, Refused, Unanswered
<1> QED  BY <1>3, <1>4

\* What the handler is given is what the caller gave, and the default limit.
LEMMA GivenAre ==
  ASSUME NEW op \in Operation, NEW args \in Arguments(op), NEW params, NEW body,
         params = Restricted(args, Sent[op].args), body = Restricted(args, BodyFields(op))
  PROVE  /\ \A a \in DOMAIN args : Given(op, params, body)[a] = args[a]
         /\ DOMAIN Given(op, params, body) \ DOMAIN args \subseteq {"limit"}
<1> DEFINE unpacked == Unpacked(op, params)
           all == Given(op, params, body)
<1>1. /\ DOMAIN args \subseteq Sent[op].args \cup BodyFields(op)
      /\ DOMAIN params = DOMAIN args \cap Sent[op].args
      /\ DOMAIN body = DOMAIN args \cap BodyFields(op)
      /\ \A a \in DOMAIN params : params[a] = args[a]
      /\ \A a \in DOMAIN body : body[a] = args[a]
  <2>1. DOMAIN args \subseteq Sent[op].args \cup BodyFields(op)
    BY ArgumentsAre
  <2>2. /\ DOMAIN params = DOMAIN args \cap Sent[op].args
        /\ \A a \in DOMAIN params : params[a] = args[a]
    BY RestrictedAre
  <2>3. /\ DOMAIN body = DOMAIN args \cap BodyFields(op)
        /\ \A a \in DOMAIN body : body[a] = args[a]
    BY RestrictedAre
  <2> QED  BY <2>1, <2>2, <2>3
<1>2. /\ \A a \in DOMAIN params : a \in DOMAIN unpacked /\ unpacked[a] = params[a]
      /\ DOMAIN unpacked \subseteq DOMAIN params \cup {"limit"}
      /\ "limit" \in DOMAIN unpacked \ DOMAIN params => op = "ListPokemon"
  BY DEF Unpacked
<1>3. op = "ListPokemon" => BodyFields(op) = {}
  BY TakesTable DEF Takes
<1>4. all = [a \in DOMAIN unpacked \cup DOMAIN body |->
                IF a \in DOMAIN unpacked THEN unpacked[a] ELSE body[a]]
  BY DEF Given
<1> HIDE DEF unpacked, all
<1>5. ASSUME NEW a \in DOMAIN args
      PROVE  all[a] = args[a]
  <2>1. CASE a \in DOMAIN params
    BY <1>1, <1>2, <1>4, <2>1
  <2>2. CASE a \in DOMAIN body /\ a \notin DOMAIN params
    <3>1. a \notin DOMAIN unpacked
      BY <1>1, <1>2, <1>3, <2>2
    <3> QED  BY <1>1, <1>4, <2>2, <3>1
  <2> QED  BY <1>1, <2>1, <2>2
<1>6. DOMAIN all \ DOMAIN args \subseteq {"limit"}
  BY <1>1, <1>2, <1>4
<1> QED  BY <1>5, <1>6 DEF all

\* Every answer of a handler goes out with its own status.
LEMMA HandleKeeps ==
  ASSUME ExchangeInv, Handle
  PROVE  ExchangeInv'
<1>1. /\ at = "checking" /\ reached.checks = << >>
      /\ at' = "answered"
      /\ UNCHANGED <<call, request, reached, result>>
  BY DEF Handle, Respond
<1>2. CallIsSent'
  BY <1>1 DEF ExchangeInv, CallIsSent, RequestOf
<1>3. ASSUME call # NoCall
      PROVE  (Handled /\ Carried)'
  <2>1. /\ OnItsWay /\ call.op \in Operation
        /\ request.args = Restricted(call.args, Sent[call.op].args)
        /\ request.body = Restricted(call.args, BodyFields(call.op))
    BY <1>1, <1>3 DEF ExchangeInv, Phases, CallIsSent, RequestOf
  <2>2. Passes(call.op, call.args)
    <3>1. << >> \notin {<<"params", "body">>, <<"params">>, <<"body">>}
      OBVIOUS
    <3> QED  BY <1>1, <2>1, <3>1 DEF OnItsWay, Passes
  <2>3. Handling = call.op
    BY <2>1 DEF OnItsWay, Handling
  <2>4. given' = Given(call.op, request.args, request.body)
    BY <2>3 DEF Handle
  <2>5. PICK type \in Answers[call.op] : \E value \in ValuesOf(SchemaOf(type)) :
          /\ answer' = [type |-> type, value |-> value]
          /\ IF type \in DOMAIN Encoded[call.op] \cup {Failure}
             THEN Respond(StatusOf(call.op, type), "json", Encode(value))
             ELSE Respond(500, "json", [w \in {"Error"} |-> {"error_message"}])
    BY <2>3 DEF Handle
  <2>6. PICK value \in ValuesOf(SchemaOf(type)) :
          /\ answer' = [type |-> type, value |-> value]
          /\ IF type \in DOMAIN Encoded[call.op] \cup {Failure}
             THEN Respond(StatusOf(call.op, type), "json", Encode(value))
             ELSE Respond(500, "json", [w \in {"Error"} |-> {"error_message"}])
    BY <2>5
  <2>7. type \in DOMAIN Encoded[call.op] \cup {Failure}
    BY <2>1, StatusTables DEF StatusesAgree
  <2>8. /\ answer'.type = type /\ answer'.value = value
        /\ response' = [status |-> StatusOf(call.op, type), kind |-> "json",
                        doc |-> Encode(value)]
    BY <2>6, <2>7 DEF Respond
  <2>9. Carried'
    BY <1>1, <2>8 DEF Carried
  <2>10. Handled'
    BY <1>1, <2>2, <2>4, <2>8 DEF Handled
  <2> QED  BY <2>9, <2>10
<1>4. Phases'
  BY <1>1, <1>3 DEF ExchangeInv, Phases
<1> QED  BY <1>2, <1>4 DEF ExchangeInv

\* The client reads the type of the answer from its status, and the value
\* from its document.
LEMMA AnswerIsRead ==
  ASSUME call.op \in Operation, Handled, Carried, Receive
  PROVE  Arrived'
<1>1. answer.type \in Answers[call.op] /\ answer.value \in ValuesOf(SchemaOf(answer.type))
  BY DEF Handled
<1>2. /\ response.kind = "json" /\ response.doc = Encode(answer.value)
      /\ response.status = StatusOf(call.op, answer.type)
  BY DEF Carried
<1>3. StatusesAgree(Answers[call.op], Encoded[call.op], Decoded[call.op])
  BY StatusTables
<1>4. SchemaOf(answer.type) \in Schema
  BY Schemas21 DEF SchemaOf
<1>5. /\ Decodable(SchemaOf(answer.type), response.doc)
      /\ Decode(SchemaOf(answer.type), response.doc) = answer.value
  BY <1>1, <1>2, <1>4, ReadBack
<1>6. ASSUME NEW kind, Read(answer.type, kind)
      PROVE  result' = [kind |-> kind, type |-> answer.type, value |-> answer.value]
  BY <1>2, <1>5, <1>6 DEF Read
<1>7. UNCHANGED <<call, answer>>
  BY DEF Receive
<1>8. CASE answer.type = Failure
  <2>1. response.status = 500
    BY <1>2, <1>8 DEF StatusOf
  <2>2. Read(Failure, "failed")
    BY <1>3, <2>1 DEF Receive, StatusesAgree
  <2> QED  BY <1>6, <1>7, <1>8, <2>2 DEF Arrived
<1>9. CASE answer.type # Failure
  <2>1. response.status = Encoded[call.op][answer.type]
    BY <1>2, <1>9 DEF StatusOf
  <2>2. /\ \E d \in Decoded[call.op] : d.status = response.status
        /\ \A d \in Decoded[call.op] : d.status = response.status => d.type = answer.type
    BY <1>1, <1>3, <1>9, <2>1 DEF StatusesAgree
  <2>3. Read(answer.type, Told(answer.type))
    BY <2>2 DEF Receive
  <2>4. Told(answer.type)' = Told(answer.type)
    BY <1>7 DEF Told
  <2> QED  BY <1>6, <1>7, <1>9, <2>3, <2>4 DEF Arrived
<1> QED  BY <1>8, <1>9

\* A refusal has an error_message where every Error has a message.
LEMMA RefusalIsGarbled ==
  ASSUME response = Refusal, Receive
  PROVE  result' = Garbled
<1>1. ASSUME NEW type
      PROVE  ~Decodable(SchemaOf(type), response.doc)
  <2>1. SchemaOf(type) \in Within(SchemaOf(type))
    BY DEF Within
  <2>2. "message" \in Decoder["Error"].required
    BY DEF Decoder, ErrorDecode, Reads
  <2>3. /\ DOMAIN response.doc = {"Error"}
        /\ response.doc["Error"] = {"error_message"}
    BY DEF Refusal
  <2> QED  BY <2>1, <2>2, <2>3 DEF Decodable
<1> QED  BY <1>1 DEF Receive, Read

LEMMA ReceiveKeeps ==
  ASSUME ExchangeInv, Receive
  PROVE  ExchangeInv'
<1>1. /\ at = "answered" /\ call # NoCall /\ at' = "done"
      /\ UNCHANGED <<call, request, reached, given, answer, response>>
  BY DEF Receive
<1>2. CallIsSent'
  BY <1>1 DEF ExchangeInv, CallIsSent, RequestOf
<1>3. CASE Refused /\ response = Refusal
  <2>1. Refused'
    BY <1>1, <1>3 DEF Refused, Unanswered
  <2>2. result' = Garbled
    BY <1>3, RefusalIsGarbled
  <2> QED  BY <1>1, <1>2, <2>1, <2>2 DEF ExchangeInv, Phases, Garbled
<1>4. CASE Handled /\ Carried
  <2>1. Handled'
    BY <1>1, <1>4 DEF Handled
  <2>2. Arrived'
    BY <1>1, <1>4, AnswerIsRead DEF ExchangeInv, CallIsSent
  <2> QED  BY <1>1, <1>2, <2>1, <2>2 DEF ExchangeInv, Phases
<1> QED  BY <1>1, <1>3, <1>4 DEF ExchangeInv, Phases

LEMMA ReturnKeeps ==
  ASSUME ExchangeInv, Return
  PROVE  ExchangeInv'
BY DEF Return, ExchangeInv, CallIsSent, Phases, Unanswered

LEMMA ExchangeStep == ExchangeInv /\ [Next]_vars => ExchangeInv'
<1> SUFFICES ASSUME ExchangeInv, [Next]_vars PROVE ExchangeInv'
  OBVIOUS
<1>1. ASSUME UNCHANGED vars PROVE ExchangeInv'
  BY <1>1 DEF vars, ExchangeInv, CallIsSent, Phases, Unanswered, OnItsWay, Refused, Handled,
              Carried, Arrived, Told, Garbled
<1> QED
  BY <1>1, CallKeeps, StrayKeeps, LoseKeeps, DispatchKeeps, CheckKeeps, HandleKeeps,
     ReceiveKeeps, ReturnKeeps DEF Next

\* Where a call is on its way says what has been checked and answered so far.
THEOREM ExchangeInvariant == Spec => []ExchangeInv
  BY StartIdle, ExchangeStep, PTL DEF Spec

-----------------------------------------------------------------------------
\* A call openapi.yml allows is passed by every generated check, reaches the
\* handler of its own operation with what the caller gave, and no other call
\* reaches any: for all argument values, whatever strangers ask meanwhile.
THEOREM LegalCallsArrive == Spec => []LegalCallsReachTheirHandler
<1>1. ExchangeInv => LegalCallsReachTheirHandler
  <2> SUFFICES ASSUME ExchangeInv, call # NoCall, at \in {"answered", "done"},
                      result.kind # "lost"
               PROVE  IF Legal
                      THEN /\ answer.type \in Answers[call.op]
                           /\ \A a \in DOMAIN call.args : given[a] = call.args[a]
                           /\ DOMAIN given \ DOMAIN call.args \subseteq {"limit"}
                      ELSE given = Nothing
    BY DEF LegalCallsReachTheirHandler
  <2>1. /\ call.op \in Operation /\ call.args \in Arguments(call.op)
        /\ request.args = Restricted(call.args, Sent[call.op].args)
        /\ request.body = Restricted(call.args, BodyFields(call.op))
    BY DEF ExchangeInv, CallIsSent, RequestOf
  <2>2. Legal <=> Passes(call.op, call.args)
    BY <2>1, ChecksAgree DEF Legal
  <2>3. Refused \/ Handled
    BY DEF ExchangeInv, Phases
  <2>4. CASE Refused
    BY <2>2, <2>4 DEF Refused, Unanswered
  <2>5. CASE Handled
    BY <2>1, <2>2, <2>5, GivenAre DEF Handled
  <2> QED  BY <2>3, <2>4, <2>5
<1> QED  BY <1>1, ExchangeInvariant, PTL

\* Whatever a handler answers, with whichever optional fields set, its caller
\* reads the same outcome with the same fields: no status stands for two
\* outcomes of an operation, and no reader asks for what its writer leaves out.
THEOREM AnswersAreRead == Spec => []AnswersArrive
<1>1. ExchangeInv => AnswersArrive
  <2> SUFFICES ASSUME ExchangeInv, at = "done", answer.value # Nothing,
                      result.kind # "lost"
               PROVE  /\ result.type = answer.type
                      /\ result.value = answer.value
                      /\ result.kind = "failed" <=> answer.type = Failure
    BY DEF AnswersArrive
  <2>1. Arrived
    BY DEF ExchangeInv, Phases, Refused, Unanswered, NoAnswer
  <2>2. Told(answer.type) # "failed"
    BY DEF Told
  <2> QED  BY <2>1, <2>2 DEF Arrived
<1> QED  BY <1>1, ExchangeInvariant, PTL

\* Who sends what the specification refuses is not told why: the answer of the
\* default error handler is no document of the API.
RefusedCallsAreGarbled ==
  call # NoCall /\ at = "done" /\ result.kind # "lost" /\ ~Legal => result = Garbled

\* That is so of every operation and every value tried (decodeXResponse).
THEOREM RefusedAreGarbled == Spec => []RefusedCallsAreGarbled
<1>1. ExchangeInv => RefusedCallsAreGarbled
  <2> SUFFICES ASSUME ExchangeInv, call # NoCall, at = "done", result.kind # "lost", ~Legal
               PROVE  result = Garbled
    BY DEF RefusedCallsAreGarbled
  <2>1. Legal <=> Passes(call.op, call.args)
    BY ChecksAgree DEF Legal, ExchangeInv, CallIsSent
  <2> QED  BY <2>1 DEF ExchangeInv, Phases, Handled
<1> QED  BY <1>1, ExchangeInvariant, PTL

===============================================================================

------------------------------ MODULE Operations ------------------------------
(***************************************************************************)
(* The fifteen operations of the API as the two generated halves know      *)
(* them: how the client builds a request, which route and which decoders   *)
(* take it in, what the handler may answer, the status each answer gets    *)
(* and the type each status is read back as (api/oas_*_gen.go, server.go,  *)
(* battle_handlers.go), and the answers battleclient has words for.        *)
(***************************************************************************)
EXTENDS Schemas, Sequences

NoBody == "none"
Token == "X-Trainer-Token"

\* A segment of a path that holds a parameter, whatever it is.
Param == "parameter"

-----------------------------------------------------------------------------
(* The client: sendX.                                                      *)

Sends(method, path, args, body) ==
    [method |-> method, path |-> path, args |-> args, body |-> body]
Get(path, args) == Sends("GET", path, args, NoBody)

CreateBattleSend == Sends("POST", <<"battles">>, {Token}, "CreateBattle")
JoinBattleSend == Sends("POST", <<"battles", Param, "join">>, {"id", Token}, "JoinBattle")
TakeTurnSend == Sends("POST", <<"battles", Param, "turn">>, {"id", Token}, "TakeTurn")
RegisterTrainerSend == Sends("POST", <<"trainers">>, {}, "RegisterTrainer")
GetBattleSend == Get(<<"battles", Param>>, {"id"})
ListWaitingTrainersSend == Get(<<"trainers", "waiting">>, {})
ListPokemonSend == Get(<<"pokemon">>, {"type", "limit", "after"})
GetPokemonSend == Get(<<"pokemon", Param>>, {"name"})
ListPokemonMovesSend == Get(<<"pokemon", Param, "moves">>, {"name"})
ListMovesSend == Get(<<"moves">>, {})
GetMoveSend == Get(<<"moves", Param>>, {"name"})
ListTypesSend == Get(<<"types">>, {})
GetHealthzSend == Get(<<"healthz">>, {})
GetReadyzSend == Get(<<"readyz">>, {})
GetRootSend == Get(<<>>, {})

Sent == [
    CreateBattle |-> CreateBattleSend, JoinBattle |-> JoinBattleSend,
    TakeTurn |-> TakeTurnSend, RegisterTrainer |-> RegisterTrainerSend,
    GetBattle |-> GetBattleSend, ListWaitingTrainers |-> ListWaitingTrainersSend,
    ListPokemon |-> ListPokemonSend, GetPokemon |-> GetPokemonSend,
    ListPokemonMoves |-> ListPokemonMovesSend, ListMoves |-> ListMovesSend,
    GetMove |-> GetMoveSend, ListTypes |-> ListTypesSend, GetHealthz |-> GetHealthzSend,
    GetReadyz |-> GetReadyzSend, GetRoot |-> GetRootSend]

Operation == DOMAIN Sent

-----------------------------------------------------------------------------
(* The router: ServeHTTP, one branch per first letter of the path.         *)

Route(method, path, op) == [method |-> method, path |-> path, op |-> op]

RootRoute == {Route("GET", <<>>, "GetRoot")}
BattleRoutes == {
    Route("POST", <<"battles">>, "CreateBattle"),
    Route("GET", <<"battles", Param>>, "GetBattle"),
    Route("POST", <<"battles", Param, "join">>, "JoinBattle"),
    Route("POST", <<"battles", Param, "turn">>, "TakeTurn")}
HealthzRoute == {Route("GET", <<"healthz">>, "GetHealthz")}
MoveRoutes == {
    Route("GET", <<"moves">>, "ListMoves"), Route("GET", <<"moves", Param>>, "GetMove")}
PokemonRoutes == {
    Route("GET", <<"pokemon">>, "ListPokemon"),
    Route("GET", <<"pokemon", Param>>, "GetPokemon"),
    Route("GET", <<"pokemon", Param, "moves">>, "ListPokemonMoves")}
ReadyzRoute == {Route("GET", <<"readyz">>, "GetReadyz")}
TrainerRoutes == {
    Route("POST", <<"trainers">>, "RegisterTrainer"),
    Route("GET", <<"trainers", "waiting">>, "ListWaitingTrainers")}
TypesRoute == {Route("GET", <<"types">>, "ListTypes")}

Routes == RootRoute \cup BattleRoutes \cup HealthzRoute \cup MoveRoutes
          \cup PokemonRoutes \cup ReadyzRoute \cup TrainerRoutes \cup TypesRoute

-----------------------------------------------------------------------------
(* The server's decoders.  Parameters are read into a struct, and the same *)
(* struct is unpacked again behind the middleware.  A path parameter must  *)
(* not be empty; text is abstracted to its length.                         *)

NotEmpty(args, name) == name \in DOMAIN args /\ args[name] > 0

CreateBattleParams(args) == Token \in DOMAIN args
JoinBattleParams(args) == NotEmpty(args, "id") /\ Token \in DOMAIN args
TakeTurnParams(args) == NotEmpty(args, "id") /\ Token \in DOMAIN args
GetBattleParams(args) == NotEmpty(args, "id")
GetPokemonParams(args) == NotEmpty(args, "name")
ListPokemonMovesParams(args) == NotEmpty(args, "name")
GetMoveParams(args) == NotEmpty(args, "name")

\* limit has a default, and bounds that are checked when it is given.
LimitDefault == 50
\* Mutant: the maximum is taken to be exclusive.
ListPokemonParamsBelow(args) == "limit" \in DOMAIN args => args["limit"] \in 1 .. 49
ListPokemonParams(args) == "limit" \in DOMAIN args => args["limit"] \in 1 .. 50

ParamsOk(op, args) ==
    CASE op = "CreateBattle" -> CreateBattleParams(args)
      [] op = "JoinBattle" -> JoinBattleParams(args)
      [] op = "TakeTurn" -> TakeTurnParams(args)
      [] op = "GetBattle" -> GetBattleParams(args)
      [] op = "GetPokemon" -> GetPokemonParams(args)
      [] op = "ListPokemonMoves" -> ListPokemonMovesParams(args)
      [] op = "GetMove" -> GetMoveParams(args)
      [] op = "ListPokemon" -> ListPokemonParams(args)
      [] OTHER -> TRUE

\* What the handler is given: the default stands in for a limit left out.
Unpacked(op, args) ==
    IF op # "ListPokemon" THEN args
    ELSE [a \in DOMAIN args \cup {"limit"} |->
             IF a \in DOMAIN args THEN args[a] ELSE LimitDefault]

\* Request bodies: decodeXRequest needs a non-empty JSON document with the
\* required fields, and then the validator of its schema.
Has(body, s) == Decoder[s].required \subseteq DOMAIN body

CreateBattleValidate(body) == "team" \in DOMAIN body => body["team"] <= 3
JoinBattleValidate(body) == "team" \in DOMAIN body => body["team"] <= 3
RegisterTrainerValidate(body) == body["name"] \in 1 .. 32

CreateBattleRequest(body) == Has(body, "CreateBattle") /\ CreateBattleValidate(body)
JoinBattleRequest(body) == Has(body, "JoinBattle") /\ JoinBattleValidate(body)
RegisterTrainerRequest(body) == Has(body, "RegisterTrainer") /\ RegisterTrainerValidate(body)
TakeTurnRequest(body) == Has(body, "TakeTurn")

BodyOk(op, body) ==
    CASE op = "CreateBattle" -> CreateBattleRequest(body)
      [] op = "JoinBattle" -> JoinBattleRequest(body)
      [] op = "RegisterTrainer" -> RegisterTrainerRequest(body)
      [] op = "TakeTurn" -> TakeTurnRequest(body)
      [] OTHER -> TRUE

-----------------------------------------------------------------------------
(* handleXRequest: the checks between the route and the handler.           *)

CreateBattleHandle == <<"params", "body">>
JoinBattleHandle == <<"params", "body">>
TakeTurnHandle == <<"params", "body">>
RegisterTrainerHandle == <<"body">>
GetBattleHandle == <<"params">>
GetPokemonHandle == <<"params">>
ListPokemonHandle == <<"params">>
ListPokemonMovesHandle == <<"params">>
GetMoveHandle == <<"params">>
ListWaitingTrainersHandle == << >>
ListMovesHandle == << >>
ListTypesHandle == << >>
GetHealthzHandle == << >>
GetReadyzHandle == << >>
GetRootHandle == << >>

Checks == [
    CreateBattle |-> CreateBattleHandle, JoinBattle |-> JoinBattleHandle,
    TakeTurn |-> TakeTurnHandle, RegisterTrainer |-> RegisterTrainerHandle,
    GetBattle |-> GetBattleHandle, ListWaitingTrainers |-> ListWaitingTrainersHandle,
    ListPokemon |-> ListPokemonHandle, GetPokemon |-> GetPokemonHandle,
    ListPokemonMoves |-> ListPokemonMovesHandle, ListMoves |-> ListMovesHandle,
    GetMove |-> GetMoveHandle, ListTypes |-> ListTypesHandle,
    GetHealthz |-> GetHealthzHandle, GetReadyz |-> GetReadyzHandle,
    GetRoot |-> GetRootHandle]

-----------------------------------------------------------------------------
(* The handlers: what each may answer.  Every one that reaches the store   *)
(* may also fail, and NewError makes that a 500.                           *)

Failure == "ErrorStatusCode"

CreateBattleAnswers == {"Battle", "CreateBattleBadRequest", "CreateBattleUnauthorized",
                        "CreateBattleConflict", Failure}
JoinBattleAnswers == {"Battle", "JoinBattleBadRequest", "JoinBattleUnauthorized",
                      "JoinBattleNotFound", "JoinBattleConflict", Failure}
TakeTurnAnswers == {"Battle", "TakeTurnUnauthorized", "TakeTurnNotFound",
                    "TakeTurnConflict", Failure}
RegisterTrainerAnswers == {"Trainer", "Error", Failure}
GetBattleAnswers == {"Battle", "Error", Failure}
ListWaitingTrainersAnswers == {"WaitingList", Failure}
ListPokemonAnswers == {"PokemonList"}
GetPokemonAnswers == {"Pokemon", "Error"}
ListPokemonMovesAnswers == {"MoveList", "Error"}
ListMovesAnswers == {"MoveList"}
GetMoveAnswers == {"Move", "Error"}
ListTypesAnswers == {"TypeList"}
GetHealthzAnswers == {"Health"}
GetReadyzAnswers == {"Health", "Error"}
GetRootAnswers == {"Identity"}

Answers == [
    CreateBattle |-> CreateBattleAnswers, JoinBattle |-> JoinBattleAnswers,
    TakeTurn |-> TakeTurnAnswers, RegisterTrainer |-> RegisterTrainerAnswers,
    GetBattle |-> GetBattleAnswers, ListWaitingTrainers |-> ListWaitingTrainersAnswers,
    ListPokemon |-> ListPokemonAnswers, GetPokemon |-> GetPokemonAnswers,
    ListPokemonMoves |-> ListPokemonMovesAnswers, ListMoves |-> ListMovesAnswers,
    GetMove |-> GetMoveAnswers, ListTypes |-> ListTypesAnswers,
    GetHealthz |-> GetHealthzAnswers, GetReadyz |-> GetReadyzAnswers,
    GetRoot |-> GetRootAnswers]

\* The refusals of the battle operations are Error documents by other names.
SchemaOf(type) == IF type \in Schema THEN type ELSE "Error"

-----------------------------------------------------------------------------
(* encodeXResponse: the status of each answer.                             *)

CreateBattleEncoded == [Battle |-> 201, CreateBattleBadRequest |-> 400,
    CreateBattleUnauthorized |-> 401, CreateBattleConflict |-> 409]
JoinBattleEncoded == [Battle |-> 200, JoinBattleBadRequest |-> 400,
    JoinBattleUnauthorized |-> 401, JoinBattleNotFound |-> 404,
    JoinBattleConflict |-> 409]
TakeTurnEncoded == [Battle |-> 200, TakeTurnUnauthorized |-> 401,
    TakeTurnNotFound |-> 404, TakeTurnConflict |-> 409]
RegisterTrainerEncoded == [Trainer |-> 201, Error |-> 409]
GetBattleEncoded == [Battle |-> 200, Error |-> 404]
ListWaitingTrainersEncoded == [WaitingList |-> 200]
ListPokemonEncoded == [PokemonList |-> 200]
GetPokemonEncoded == [Pokemon |-> 200, Error |-> 404]
ListPokemonMovesEncoded == [MoveList |-> 200, Error |-> 404]
ListMovesEncoded == [MoveList |-> 200]
GetMoveEncoded == [Move |-> 200, Error |-> 404]
ListTypesEncoded == [TypeList |-> 200]
GetHealthzEncoded == [Health |-> 200]
GetReadyzEncoded == [Health |-> 200, Error |-> 503]
GetRootEncoded == [Identity |-> 200]

Encoded == [
    CreateBattle |-> CreateBattleEncoded, JoinBattle |-> JoinBattleEncoded,
    TakeTurn |-> TakeTurnEncoded, RegisterTrainer |-> RegisterTrainerEncoded,
    GetBattle |-> GetBattleEncoded, ListWaitingTrainers |-> ListWaitingTrainersEncoded,
    ListPokemon |-> ListPokemonEncoded, GetPokemon |-> GetPokemonEncoded,
    ListPokemonMoves |-> ListPokemonMovesEncoded, ListMoves |-> ListMovesEncoded,
    GetMove |-> GetMoveEncoded, ListTypes |-> ListTypesEncoded,
    GetHealthz |-> GetHealthzEncoded, GetReadyz |-> GetReadyzEncoded,
    GetRoot |-> GetRootEncoded]

\* encodeErrorResponse gives a failure the status NewError chose.
StatusOf(op, type) == IF type = Failure THEN 500 ELSE Encoded[op][type]

-----------------------------------------------------------------------------
(* decodeXResponse: the type each status is read as; any other status is   *)
(* the default, an Error document that the caller gets as a Go error.      *)

As(status, type) == [status |-> status, type |-> type]

CreateBattleDecoded == {As(201, "Battle"), As(400, "CreateBattleBadRequest"),
    As(401, "CreateBattleUnauthorized"), As(409, "CreateBattleConflict")}
JoinBattleDecoded == {As(200, "Battle"), As(400, "JoinBattleBadRequest"),
    As(401, "JoinBattleUnauthorized"), As(404, "JoinBattleNotFound"),
    As(409, "JoinBattleConflict")}
TakeTurnDecoded == {As(200, "Battle"), As(401, "TakeTurnUnauthorized"),
    As(404, "TakeTurnNotFound"), As(409, "TakeTurnConflict")}
RegisterTrainerDecoded == {As(201, "Trainer"), As(409, "Error")}
GetBattleDecoded == {As(200, "Battle"), As(404, "Error")}
ListWaitingTrainersDecoded == {As(200, "WaitingList")}
ListPokemonDecoded == {As(200, "PokemonList")}
GetPokemonDecoded == {As(200, "Pokemon"), As(404, "Error")}
ListPokemonMovesDecoded == {As(200, "MoveList"), As(404, "Error")}
ListMovesDecoded == {As(200, "MoveList")}
GetMoveDecoded == {As(200, "Move"), As(404, "Error")}
ListTypesDecoded == {As(200, "TypeList")}
GetHealthzDecoded == {As(200, "Health")}
GetReadyzDecoded == {As(200, "Health"), As(503, "Error")}
GetRootDecoded == {As(200, "Identity")}

Decoded == [
    CreateBattle |-> CreateBattleDecoded, JoinBattle |-> JoinBattleDecoded,
    TakeTurn |-> TakeTurnDecoded, RegisterTrainer |-> RegisterTrainerDecoded,
    GetBattle |-> GetBattleDecoded, ListWaitingTrainers |-> ListWaitingTrainersDecoded,
    ListPokemon |-> ListPokemonDecoded, GetPokemon |-> GetPokemonDecoded,
    ListPokemonMoves |-> ListPokemonMovesDecoded, ListMoves |-> ListMovesDecoded,
    GetMove |-> GetMoveDecoded, ListTypes |-> ListTypesDecoded,
    GetHealthz |-> GetHealthzDecoded, GetReadyz |-> GetReadyzDecoded,
    GetRoot |-> GetRootDecoded]

-----------------------------------------------------------------------------
(* battleclient: the answers each method's switch has a case for.          *)

CreateKnows == {"Battle", "CreateBattleBadRequest", "CreateBattleUnauthorized"}
JoinKnows == {"Battle", "JoinBattleBadRequest", "JoinBattleConflict",
              "JoinBattleNotFound", "JoinBattleUnauthorized"}
AttackKnows == {"Battle", "TakeTurnConflict", "TakeTurnNotFound", "TakeTurnUnauthorized"}
GetKnows == {"Battle", "Error"}
RegisterKnows == {"Trainer", "Error"}
LobbyKnows == {"WaitingList"}

Knows(op) ==
    CASE op = "CreateBattle" -> CreateKnows [] op = "JoinBattle" -> JoinKnows
      [] op = "TakeTurn" -> AttackKnows [] op = "GetBattle" -> GetKnows
      [] op = "RegisterTrainer" -> RegisterKnows
      [] op = "ListWaitingTrainers" -> LobbyKnows
      [] OTHER -> DOMAIN Encoded[op]

=============================================================================

------------------------------- MODULE Schemas -------------------------------
(***************************************************************************)
(* The JSON documents of the API, as the generated coders read and write   *)
(* them (api/oas_json_gen.go).  A document is abstracted to the fields it  *)
(* carries: an encoder always writes some, writes some only when they are  *)
(* set, and nests the documents of other schemas; a decoder counts the     *)
(* required ones in a bit set, keeps the optional ones it knows and skips  *)
(* any other; a validator refuses an array that is still nil.              *)
(***************************************************************************)
EXTENDS Naturals

Writes(always, maybe, parts) == [always |-> always, maybe |-> maybe, parts |-> parts]
Reads(required, optional) == [required |-> required, optional |-> optional]

-----------------------------------------------------------------------------
BattleEncode == Writes({"id", "status", "version", "sides", "log"}, {"turn", "winner"},
                       {"Side", "BattleEvent"})
BattleDecode == Reads({"id", "status", "version", "sides", "log"}, {"turn", "winner"})
BattleValidate == {"sides", "log"}

BattleEventEncode == Writes({"turnNumber", "text"},
    {"attacker", "target", "move", "damage", "effectiveness", "fainted"}, {})
BattleEventDecode == Reads({"turnNumber", "text"},
    {"attacker", "target", "move", "damage", "effectiveness", "fainted"})

BattlePokemonEncode == Writes(
    {"name", "types", "hp", "maxHp", "fainted", "sprite", "moves"},
    {"stages", "confused", "disabledMove", "canAct", "canBeTargeted", "usableMoves"},
    {"Move", "StatStages"})
\* Mutant: the fields of the turn are required, as an older server has them not.
BattlePokemonDecodeStrict == Reads(
    {"name", "types", "hp", "maxHp", "fainted", "sprite", "moves",
     "canAct", "canBeTargeted", "usableMoves"}, {"stages", "confused", "disabledMove"})
BattlePokemonDecode == Reads(
    {"name", "types", "hp", "maxHp", "fainted", "sprite", "moves"},
    {"stages", "confused", "disabledMove", "canAct", "canBeTargeted", "usableMoves"})
BattlePokemonValidate == {"types", "moves"}

SideEncode == Writes({"trainer", "team"}, {}, {"BattlePokemon"})
SideDecode == Reads({"trainer", "team"}, {})
SideValidate == {"team"}

StatStagesEncode == Writes({}, {"attack", "defense", "speed", "accuracy"}, {})
StatStagesDecode == Reads({}, {"attack", "defense", "speed", "accuracy"})

MoveEncode == Writes(
    {"name", "type", "power", "description", "effect", "pp", "damageClass"}, {"accuracy"}, {})
MoveDecode == Reads(
    {"name", "type", "power", "description", "effect", "pp", "damageClass"}, {"accuracy"})

MoveListEncode == Writes({"count", "moves"}, {}, {"Move"})
MoveListDecode == Reads({"count", "moves"}, {})
MoveListValidate == {"moves"}

PokemonEncode == Writes(
    {"id", "name", "description", "genus", "types", "height", "weight", "sprite", "moves"},
    {"habitat", "artwork", "evolvesFrom", "legendary"}, {"Move"})
PokemonDecode == Reads(
    {"id", "name", "description", "genus", "types", "height", "weight", "sprite", "moves"},
    {"habitat", "artwork", "evolvesFrom", "legendary"})
PokemonValidate == {"types", "moves"}

PokemonListEncode == Writes({"count", "pokemon"}, {"nextCursor"}, {"Pokemon"})
PokemonListDecode == Reads({"count", "pokemon"}, {"nextCursor"})
PokemonListValidate == {"pokemon"}

TypeSummaryEncode ==
    Writes({"name", "count"}, {"strongAgainst", "weakAgainst", "noEffectAgainst"}, {})
TypeSummaryDecode ==
    Reads({"name", "count"}, {"strongAgainst", "weakAgainst", "noEffectAgainst"})

TypeListEncode == Writes({"types"}, {}, {"TypeSummary"})
TypeListDecode == Reads({"types"}, {})
TypeListValidate == {"types"}

WaitingBattleEncode == Writes({"battleId", "trainer", "team", "createdAt"}, {}, {})
WaitingBattleDecode == Reads({"battleId", "trainer", "team", "createdAt"}, {})
WaitingBattleValidate == {"team"}

WaitingListEncode == Writes({"count", "waiting"}, {}, {"WaitingBattle"})
WaitingListDecode == Reads({"count", "waiting"}, {})
WaitingListValidate == {"waiting"}

TrainerEncode == Writes({"name", "token"}, {}, {})
TrainerDecode == Reads({"name", "token"}, {})
IdentityEncode == Writes({"service", "version"}, {}, {})
IdentityDecode == Reads({"service", "version"}, {})
HealthEncode == Writes({"status"}, {}, {})
HealthDecode == Reads({"status"}, {})
ErrorEncode == Writes({"message"}, {}, {})
ErrorDecode == Reads({"message"}, {})

\* The documents of requests.
CreateBattleEncode == Writes({}, {"team"}, {})
CreateBattleDecode == Reads({}, {"team"})
JoinBattleEncode == Writes({}, {"team"}, {})
JoinBattleDecode == Reads({}, {"team"})
RegisterTrainerEncode == Writes({"name"}, {}, {})
RegisterTrainerDecode == Reads({"name"}, {})
TakeTurnEncode == Writes({"attacker", "move", "target"}, {}, {})
TakeTurnDecode == Reads({"attacker", "move", "target"}, {})

-----------------------------------------------------------------------------
Encoder == [
    Battle |-> BattleEncode, BattleEvent |-> BattleEventEncode,
    BattlePokemon |-> BattlePokemonEncode, Side |-> SideEncode,
    StatStages |-> StatStagesEncode, Move |-> MoveEncode, MoveList |-> MoveListEncode,
    Pokemon |-> PokemonEncode, PokemonList |-> PokemonListEncode,
    TypeSummary |-> TypeSummaryEncode, TypeList |-> TypeListEncode,
    WaitingBattle |-> WaitingBattleEncode, WaitingList |-> WaitingListEncode,
    Trainer |-> TrainerEncode, Identity |-> IdentityEncode, Health |-> HealthEncode,
    Error |-> ErrorEncode, CreateBattle |-> CreateBattleEncode,
    JoinBattle |-> JoinBattleEncode, RegisterTrainer |-> RegisterTrainerEncode,
    TakeTurn |-> TakeTurnEncode]

Decoder == [
    Battle |-> BattleDecode, BattleEvent |-> BattleEventDecode,
    BattlePokemon |-> BattlePokemonDecode, Side |-> SideDecode,
    StatStages |-> StatStagesDecode, Move |-> MoveDecode, MoveList |-> MoveListDecode,
    Pokemon |-> PokemonDecode, PokemonList |-> PokemonListDecode,
    TypeSummary |-> TypeSummaryDecode, TypeList |-> TypeListDecode,
    WaitingBattle |-> WaitingBattleDecode, WaitingList |-> WaitingListDecode,
    Trainer |-> TrainerDecode, Identity |-> IdentityDecode, Health |-> HealthDecode,
    Error |-> ErrorDecode, CreateBattle |-> CreateBattleDecode,
    JoinBattle |-> JoinBattleDecode, RegisterTrainer |-> RegisterTrainerDecode,
    TakeTurn |-> TakeTurnDecode]

Schema == DOMAIN Encoder

\* The arrays of a schema whose validator refuses nil; no other has one.
NotNil(s) ==
    CASE s = "Battle" -> BattleValidate [] s = "BattlePokemon" -> BattlePokemonValidate
      [] s = "Side" -> SideValidate [] s = "MoveList" -> MoveListValidate
      [] s = "Pokemon" -> PokemonValidate [] s = "PokemonList" -> PokemonListValidate
      [] s = "TypeList" -> TypeListValidate [] s = "WaitingList" -> WaitingListValidate
      [] s = "WaitingBattle" -> WaitingBattleValidate
      [] OTHER -> {}

\* The schemas a document of s nests, itself among them: four levels at most.
Within(s) ==
    LET Nest(X) == X \cup UNION {Encoder[x].parts : x \in X}
    IN  Nest(Nest(Nest({s})))

\* A value of a schema: for every schema within it, the optional fields set.
\* One schema at a time takes every subset, the others have them all.
ValuesOf(s) ==
    UNION {{[w \in Within(s) |-> IF w = v THEN set ELSE Encoder[w].maybe]
              : set \in SUBSET Encoder[v].maybe} : v \in Within(s)}

Encode(value) == [w \in DOMAIN value |-> Encoder[w].always \cup value[w]]

Decodable(s, doc) ==
    /\ Within(s) \subseteq DOMAIN doc
    /\ \A w \in Within(s) : Decoder[w].required \cup NotNil(w) \subseteq doc[w]

Decode(s, doc) == [w \in Within(s) |-> doc[w] \cap Decoder[w].optional]

=============================================================================

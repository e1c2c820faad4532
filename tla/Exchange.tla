------------------------------- MODULE Exchange -------------------------------
(***************************************************************************)
(* One call of the API, from the Go client's method to what its caller is  *)
(* told: request, route, the generated checks, the handler, the response   *)
(* and its decoding, with a network that may lose either message.  Any     *)
(* call of any operation may follow.                                       *)
(***************************************************************************)
EXTENDS Operations, Integers

CONSTANTS ArgValues,  \* [argument -> the values tried for it]; text is its length
          Strays      \* requests of other programs: [method, path]

ASSUME ExchangeAssumption ==
    \A a \in {"id", "name", "limit", "team"} : ArgValues[a] \subseteq Int

VARIABLES
    call,       \* [op, args]: the method called and its arguments
    request,    \* what is on its way to the server
    at,         \* where the call is
    reached,    \* [op, checks]: the handler reached, and the checks it has yet to make
    given,      \* the arguments the service's handler was given
    answer,     \* [type, value]: what it answered
    response,   \* [status, kind, doc]: what is on its way back
    result      \* [kind, type, value]: what the caller of battleclient gets

vars == <<call, request, at, reached, given, answer, response, result>>

Nothing == << >>
NoCall == [op |-> "none", args |-> Nothing]
NoRequest == [method |-> "none", path |-> << >>, args |-> Nothing, body |-> Nothing]
Nowhere == [op |-> "none", checks |-> << >>]
NoAnswer == [type |-> "none", value |-> Nothing]
NoResponse == [status |-> 0, kind |-> "none", doc |-> Nothing]
NoResult == [kind |-> "none", type |-> "none", value |-> Nothing]

Init ==
    /\ call = NoCall /\ request = NoRequest /\ at = "idle" /\ reached = Nowhere
    /\ given = Nothing /\ answer = NoAnswer /\ response = NoResponse /\ result = NoResult

-----------------------------------------------------------------------------
BodyFields(op) ==
    IF Sent[op].body = NoBody THEN {}
    ELSE Encoder[Sent[op].body].always \cup Encoder[Sent[op].body].maybe

\* The client leaves out query parameters and optional fields that are unset.
Optional(op) ==
    (IF op = "ListPokemon" THEN Sent[op].args ELSE {})
    \cup (IF Sent[op].body = NoBody THEN {} ELSE Encoder[Sent[op].body].maybe)

Arguments(op) ==
    LET all == Sent[op].args \cup BodyFields(op)
    IN  UNION {{args \in [set -> UNION {ArgValues[a] : a \in set}] :
                   \A a \in set : args[a] \in ArgValues[a]}
                : set \in {x \in SUBSET all : all \ Optional(op) \subseteq x}}

Restricted(args, names) == [a \in DOMAIN args \cap names |-> args[a]]

\* A method of the generated client: it checks nothing, and sends.
Call(op) == \E args \in Arguments(op) :
    /\ at = "idle"
    /\ call' = [op |-> op, args |-> args]
    /\ request' = [method |-> Sent[op].method, path |-> Sent[op].path,
                   args |-> Restricted(args, Sent[op].args),
                   body |-> Restricted(args, BodyFields(op))]
    /\ at' = "sent"
    /\ UNCHANGED <<reached, given, answer, response, result>>

\* A browser or a probe asks for a path of its own.
Stray == \E stray \in Strays :
    /\ at = "idle"
    /\ request' = [NoRequest EXCEPT !.method = stray.method, !.path = stray.path]
    /\ at' = "sent"
    /\ UNCHANGED <<call, reached, given, answer, response, result>>

\* The request or the response never arrives: Do returns an error.
Lose ==
    /\ at \in {"sent", "answered"}
    /\ result' = [NoResult EXCEPT !.kind = "lost"]
    /\ at' = "done"
    /\ UNCHANGED <<call, request, reached, given, answer, response>>

-----------------------------------------------------------------------------
(* The server                                                              *)

Respond(status, kind, doc) ==
    /\ response' = [status |-> status, kind |-> kind, doc |-> doc]
    /\ at' = "answered"

Matching == {r \in Routes : r.path = request.path}

\* ServeHTTP: an unknown path is 404 in plain text; another method is 405, but
\* OPTIONS gets the methods allowed.
Dispatch ==
    /\ at = "sent"
    /\ \/ /\ Matching = {}
          /\ Respond(404, "plain", Nothing)
          /\ UNCHANGED reached
       \/ /\ Matching # {} /\ ~\E r \in Matching : r.method = request.method
          /\ Respond(IF request.method = "OPTIONS" THEN 204 ELSE 405, "plain", Nothing)
          /\ UNCHANGED reached
       \/ \E r \in Matching :
          /\ r.method = request.method
          /\ reached' = [op |-> r.op, checks |-> Checks[r.op]]
          /\ at' = "checking"
          /\ UNCHANGED response
    /\ UNCHANGED <<call, request, given, answer, result>>

Handling == reached.op

\* A failed check answers through the default ErrorHandler: status 400, and
\* a document whose only field is error_message.
Refuse == Respond(400, "json", [w \in {"Error"} |-> {"error_message"}])

Check ==
    /\ at = "checking" /\ reached.checks # << >>
    /\ LET ok == IF Head(reached.checks) = "params" THEN ParamsOk(Handling, request.args)
                 ELSE BodyOk(Handling, request.body)
       IN  IF ok THEN reached' = [reached EXCEPT !.checks = Tail(@)] /\ UNCHANGED <<response, at>>
           ELSE Refuse /\ UNCHANGED reached
    /\ UNCHANGED <<call, request, given, answer, result>>

\* What the service's handler is given: the parameters and the body.
Given(op, args, body) ==
    LET params == Unpacked(op, args)
    IN  [a \in DOMAIN params \cup DOMAIN body |->
            IF a \in DOMAIN params THEN params[a] ELSE body[a]]

\* The middleware, the service's handler and encodeXResponse: the answer is
\* any the handler gives, with any optional fields set; a failure is the
\* Error document NewError makes.
Handle ==
    /\ at = "checking" /\ reached.checks = << >>
    /\ given' = Given(Handling, request.args, request.body)
    /\ \E type \in Answers[Handling] : \E value \in ValuesOf(SchemaOf(type)) :
          /\ answer' = [type |-> type, value |-> value]
          /\ IF type \in DOMAIN Encoded[Handling] \cup {Failure}
             THEN Respond(StatusOf(Handling, type), "json", Encode(value))
             ELSE Respond(500, "json", [w \in {"Error"} |-> {"error_message"}])
    /\ UNCHANGED <<call, request, reached, result>>

-----------------------------------------------------------------------------
(* The client                                                              *)

Garbled == [NoResult EXCEPT !.kind = "garbled"]

\* battleclient's switch
Told(type) == IF type \in Knows(call.op) THEN "told" ELSE "unexpected"

\* The document is read as one of the type, if it is one.
Read(type, kind) ==
    result' = IF response.kind = "json" /\ Decodable(SchemaOf(type), response.doc)
              THEN [kind |-> kind, type |-> type,
                    value |-> Decode(SchemaOf(type), response.doc)]
              ELSE Garbled

\* decodeXResponse: a status it knows, or the default.
Receive ==
    /\ at = "answered" /\ call # NoCall
    /\ \/ \E d \in Decoded[call.op] : d.status = response.status /\ Read(d.type, Told(d.type))
       \/ /\ \A d \in Decoded[call.op] : d.status # response.status
          /\ Read(Failure, "failed")
    /\ at' = "done"
    /\ UNCHANGED <<call, request, reached, given, answer, response>>

\* The caller goes on to its next call.
Return ==
    /\ at = "done" \/ (at = "answered" /\ call = NoCall)
    /\ at' = "idle"
    /\ call' = NoCall /\ request' = NoRequest /\ reached' = Nowhere /\ given' = Nothing
    /\ answer' = NoAnswer /\ response' = NoResponse /\ result' = NoResult

Next ==
    \/ \E op \in Operation : Call(op)
    \/ Stray \/ Lose \/ Dispatch \/ Check \/ Handle \/ Receive \/ Return

Spec == Init /\ [][Next]_vars

-----------------------------------------------------------------------------
\* What openapi.yml allows of a call.
Allows(op, args) ==
    \A a \in DOMAIN args :
       LET v == args[a]
       IN  /\ a \in {"id", "name"} => v >= 1
           /\ a = "name" /\ op = "RegisterTrainer" => v <= 32
           /\ a = "limit" => v \in 1 .. 50
           /\ a = "team" => v <= 3
Legal == Allows(call.op, call.args)

\* A call the specification allows reaches the handler of its own operation,
\* with every argument the caller gave and only the documented default added;
\* and a call it does not allow reaches none.
LegalCallsReachTheirHandler ==
    call # NoCall /\ at \in {"answered", "done"} /\ result.kind # "lost" =>
       IF Legal
       THEN /\ answer.type \in Answers[call.op]
            /\ \A a \in DOMAIN call.args : given[a] = call.args[a]
            /\ DOMAIN given \ DOMAIN call.args \subseteq {"limit"}
       ELSE given = Nothing

\* Whatever a handler answers, its caller reads that answer and no other: the
\* same type, with the same fields set, whichever of them an older server
\* leaves out.  So an answer that is garbled or belongs to another outcome
\* never stands for a turn that was taken.
AnswersArrive ==
    at = "done" /\ answer.value # Nothing /\ result.kind # "lost" =>
       /\ result.type = answer.type
       /\ result.value = answer.value
       /\ result.kind = "failed" <=> answer.type = Failure

\* A player is told why the server refused a call (openapi.yml gives createBattle
\* a 409 for a trainer who has a battle waiting; battle_handlers.go words it).
RefusalsAreTold == result.kind # "unexpected"

=============================================================================

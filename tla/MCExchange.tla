------------------------------ MODULE MCExchange ------------------------------
EXTENDS Exchange

\* Each bound of openapi.yml from both sides.
MCArgValues == [a \in {"id", "name", "limit", "team", "type", "after",
                       "attacker", "move", "target", Token} |->
    CASE a = "id" -> {0, 1} [] a = "name" -> {0, 1, 32, 33}
      [] a = "limit" -> {0, 1, 50, 51} [] a = "team" -> {0, 3, 4} [] OTHER -> {1}]

\* A probe, a path nobody serves, a path asked for with the wrong method, a preflight.
MCStrays == {[method |-> "GET", path |-> <<"healthz">>],
             [method |-> "GET", path |-> <<"favicon">>],
             [method |-> "GET", path |-> <<"trainers">>],
             [method |-> "OPTIONS", path |-> <<"battles">>]}
==============================================================================

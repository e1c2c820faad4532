----------------------------- MODULE MCPgBattle -----------------------------
(***************************************************************************)
(* Two players, requests and sweeps of PgBattle for TLC.                   *)
(***************************************************************************)
EXTENDS PgBattle, TLC

CONSTANTS ann, bob

MCPlayers == {ann, bob}
=============================================================================

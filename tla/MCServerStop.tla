----------------------------- MODULE MCServerStop -----------------------------
(***************************************************************************)
(* ServerStop on one instance (api_server and EngineCore), a second        *)
(* instance, one late fork, one supervisor restart, a shell whose command  *)
(* line passes no pattern and a tail whose command line names the module.  *)
(***************************************************************************)
EXTENDS ServerStop, TLC

CONSTANTS leader, engine, late, other, again, shell, tail, self, init

MCCore == {engine}
MCTree == engine :> leader
MCPatterned == {leader, engine, late, other, again, tail}
MCMarked == {leader, other, again, tail}
=============================================================================

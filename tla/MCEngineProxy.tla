---------------------------- MODULE MCEngineProxy ----------------------------
(* Instances of EngineProxy for TLC: a client that commands an order twice   *)
(* and one that streams; or one that reads and one that streams.             *)
EXTENDS EngineProxy, TLC

CONSTANTS trader, watcher

MCTraderUses == trader :> {"command"} @@ watcher :> {"stream"}
MCTraderCalls == trader :> 2 @@ watcher :> 1

MCReaderUses == trader :> {"read"} @@ watcher :> {"stream"}
MCReaderCalls == trader :> 1 @@ watcher :> 1
=============================================================================

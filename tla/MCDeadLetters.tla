--------------------------- MODULE MCDeadLetters ----------------------------
(***************************************************************************)
(* One event for two queues, relayed by two backend instances, which both  *)
(* work on one of the queues; its dead letters are replayed twice.         *)
(***************************************************************************)
EXTENDS DeadLetters, TLC

CONSTANTS stockChanged, search, realtime, i1, i2

MCRoute == stockChanged :> {search, realtime}
MCWorkers == (search :> {i1, i2}) @@ (realtime :> {i1})
MCMaxReplays == (search :> 2) @@ (realtime :> 0)
=============================================================================

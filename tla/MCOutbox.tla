------------------------------ MODULE MCOutbox ------------------------------
(***************************************************************************)
(* One event for two queues, relayed by two backend instances, which both  *)
(* work on one of the queues.  Nobody replays anything.                    *)
(***************************************************************************)
EXTENDS Outbox, TLC

CONSTANTS stockChanged, search, realtime, i1, i2

MCRoute == stockChanged :> {search, realtime}
MCWorkers == (search :> {i1, i2}) @@ (realtime :> {i2})
MCMaxReplays == (search :> 0) @@ (realtime :> 0)
=============================================================================

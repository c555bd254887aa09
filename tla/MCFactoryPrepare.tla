-------------------------- MODULE MCFactoryPrepare --------------------------
(* Model-checking instances of FactoryPrepare. *)
EXTENDS FactoryPrepare

AllCallers   == {"job", "heartbeat", "page", "user"}
OfTheWorker  == {"job", "heartbeat"}

\* The environments of the passing run.
Weathers == {{"heartbeat", "polls", "raises", "kill"},
             {"heartbeat", "polls", "no_mongo"},
             {"heartbeat", "edits", "no_mongo"},
             {"heartbeat", "store_error"},
             {"polls", "deletes", "raises"},
             {"heartbeat", "deletes", "kill", "no_mongo"}}

\* Nothing fails, and nobody looks.
OnlyHeartbeat == {{"heartbeat"}}
=============================================================================

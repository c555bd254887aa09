-------------------------- MODULE FactoryTaskStore --------------------------
(***************************************************************************)
(* Where the document of a factory task is kept: the factory_task_states   *)
(* table, MongoDB where it is configured, a cache in Redis, and the dict   *)
(* FACTORY_PREPARE_TASKS of each process                                   *)
(* (app/services/factory_task_state_service.py, and the two wrappers and   *)
(* the delete routes of app/api/routes/products.py).                       *)
(*                                                                         *)
(* A save, a get or a delete goes from store to store with an await before *)
(* each of them, so the calls of different coroutines interleave there.    *)
(* The module gives the steps of a call; who calls is up to the module     *)
(* that extends it.                                                        *)
(***************************************************************************)
CONSTANTS
    Callers,        \* the coroutines that call the store
    InWorker,       \* those that run in the worker; the others in the API
    Documents,      \* what may be saved
    Absent,         \* no document
    Environments    \* sets of the kinds of events named here and later

\* no_mongo     settings.mongodb_url is empty
\* store_error  a call to MongoDB or Redis fails, which is logged and passed over
StoreEvents == {"no_mongo", "store_error"}

ASSUME StoreAssumption ==
    /\ InWorker \subseteq Callers
    /\ Absent \notin Documents

VARIABLES
    db,         \* the row of factory_task_states
    mongo,      \* the document in MongoDB
    redis,      \* the cached document
    memory,     \* FACTORY_PREPARE_TASKS of the API and of the worker
    call,       \* the call each caller is in, and the document it carries
    events      \* what may happen: one of the Environments, to the end

stores    == <<db, mongo, redis, memory>>
storeVars == <<stores, call, events>>

-----------------------------------------------------------------------------
Processes == {"api", "worker"}
Home(w) == IF w \in InWorker THEN "worker" ELSE "api"

Idle == [at |-> "idle", doc |-> Absent]

SaveLabels   == {"commit", "save_mongo", "save_cache"}
GetLabels    == {"find", "cached", "select", "fill", "return"}
DeleteLabels == {"delete_mongo", "delete_cache", "delete_row"}

Going(w, label)      == call' = [call EXCEPT ![w].at = label]
Carrying(w, label, d) == call' = [call EXCEPT ![w] = [at |-> label, doc |-> d]]
Over(w)              == call' = [call EXCEPT ![w] = Idle]

HasMongo == "no_mongo" \notin events

\* If no store has the document, the process falls back on its own copy.  The
\* caller goes on from here without an await.
Result(w) == IF call[w].doc = Absent THEN memory[Home(w)] ELSE call[w].doc

\* A store takes a value, or the call fails and nobody is told.
Written(store, d) == IF "store_error" \in events THEN {d, store} ELSE {d}

-----------------------------------------------------------------------------
(* _save_factory_task_state and save_task.                                 *)

\* A seeded fault: the process remembers only what it has read.
RememberLater(w, d) == [memory EXCEPT ![Home(w)] = Result(w)]

Remember(w, d) == [memory EXCEPT ![Home(w)] = d]

StartSave(w, d) ==
    /\ memory' = Remember(w, d)
    /\ Carrying(w, "commit", d)
    /\ UNCHANGED <<db, mongo, redis, events>>

CommitSave(w) ==
    /\ call[w].at = "commit"
    /\ db' = call[w].doc
    /\ Going(w, IF HasMongo THEN "save_mongo" ELSE "save_cache")
    /\ UNCHANGED <<mongo, redis, memory, events>>

SaveMongo(w) ==
    /\ call[w].at = "save_mongo"
    /\ mongo' \in Written(mongo, call[w].doc)
    /\ Going(w, "save_cache")
    /\ UNCHANGED <<db, redis, memory, events>>

SaveCache(w) ==
    /\ call[w].at = "save_cache"
    /\ redis' \in Written(redis, call[w].doc)
    /\ Over(w)
    /\ UNCHANGED <<db, mongo, memory, events>>

-----------------------------------------------------------------------------
(* _get_factory_task_state and get_task.                                   *)

StartGet(w) == /\ Going(w, IF HasMongo THEN "find" ELSE "cached")
               /\ UNCHANGED <<stores, events>>

\* A store that has no document, or does not answer, is passed over.
Find(w) ==
    /\ call[w].at = "find"
    /\ \/ mongo # Absent /\ Carrying(w, "return", mongo)
       \/ /\ mongo = Absent \/ "store_error" \in events
          /\ Going(w, "cached")
    /\ UNCHANGED <<stores, events>>

Cached(w) ==
    /\ call[w].at = "cached"
    /\ \/ redis # Absent /\ Carrying(w, "return", redis)
       \/ /\ redis = Absent \/ "store_error" \in events
          /\ Going(w, "select")
    /\ UNCHANGED <<stores, events>>

Select(w) ==
    /\ call[w].at = "select"
    /\ Carrying(w, IF db = Absent THEN "return" ELSE "fill", db)
    /\ UNCHANGED <<stores, events>>

\* What was read from the table is put into the cache.
Fill(w) ==
    /\ call[w].at = "fill"
    /\ redis' \in Written(redis, call[w].doc)
    /\ Going(w, "return")
    /\ UNCHANGED <<db, mongo, memory, events>>

Returned(w) == call[w].at = "return"

\* A caller that changes nothing; the process remembers what it read.
Return(w) ==
    /\ Returned(w)
    /\ memory' = [memory EXCEPT ![Home(w)] = Result(w)]
    /\ Over(w)
    /\ UNCHANGED <<db, mongo, redis, events>>

-----------------------------------------------------------------------------
(* The delete routes and delete_task.                                      *)

\* A seeded fault: the process keeps its copy.
ForgetNothing(w) == memory

Forget(w) == [memory EXCEPT ![Home(w)] = Absent]

StartDelete(w) ==
    /\ memory' = Forget(w)
    /\ Carrying(w, IF HasMongo THEN "delete_mongo" ELSE "delete_cache", Absent)
    /\ UNCHANGED <<db, mongo, redis, events>>

DeleteMongo(w) ==
    /\ call[w].at = "delete_mongo"
    /\ mongo' \in Written(mongo, Absent)
    /\ Going(w, "delete_cache")
    /\ UNCHANGED <<db, redis, memory, events>>

DeleteCache(w) ==
    /\ call[w].at = "delete_cache"
    /\ redis' \in Written(redis, Absent)
    /\ Going(w, "delete_row")
    /\ UNCHANGED <<db, mongo, memory, events>>

DeleteRow(w) ==
    /\ call[w].at = "delete_row"
    /\ db' = Absent
    /\ Over(w)
    /\ UNCHANGED <<mongo, redis, memory, events>>

\* Where the table is read or written nothing catches what it raises.
AtTable(w) == call[w].at \in {"select", "commit", "delete_row"}

-----------------------------------------------------------------------------
\* The store holds document d everywhere, as after a save.
StoreInit(d) ==
    /\ events \in Environments
    /\ db = d /\ redis = d
    /\ mongo = IF HasMongo THEN d ELSE Absent
    /\ memory = [p \in Processes |-> IF p = "api" THEN d ELSE Absent]
    /\ call = [w \in Callers |-> Idle]

StoreStep(w) ==
    \/ CommitSave(w) \/ SaveMongo(w) \/ SaveCache(w)
    \/ Find(w) \/ Cached(w) \/ Select(w) \/ Fill(w)
    \/ DeleteMongo(w) \/ DeleteCache(w) \/ DeleteRow(w)

-----------------------------------------------------------------------------
Kept == Documents \cup {Absent}

\* Every store holds a document or none, and the calls are well formed.
StoreTypeOK ==
    /\ db \in Kept /\ mongo \in Kept /\ redis \in Kept
    /\ memory \in [Processes -> Kept]
    /\ call \in [Callers -> [at : {"idle"} \cup SaveLabels \cup GetLabels \cup DeleteLabels,
                             doc : Kept]]
    /\ events \in Environments

\* What a get in the API answers while no other call is in flight and every
\* store answers.
Readable == IF mongo # Absent THEN mongo
            ELSE IF redis # Absent THEN redis
            ELSE IF db # Absent THEN db
            ELSE memory["api"]

=============================================================================

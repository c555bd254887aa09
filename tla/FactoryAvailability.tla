------------------------- MODULE FactoryAvailability -------------------------
(***************************************************************************)
(* The job that sends stock and delivery profile of created products to    *)
(* OTTO (_run_factory_availability_task in app/api/routes/products.py,      *)
(* ProductService.create_availability), with a user who edits the draft of  *)
(* the same task or deletes the task meanwhile.                            *)
(*                                                                         *)
(* The job reads the document, sleeps, and saves the copy it has read.  Its *)
(* workers take the products from a queue and count them one after the     *)
(* other under availability_lock; an exception is counted by the handler.  *)
(***************************************************************************)
EXTENDS Scenes, Integers, Sequences, FiniteSets

CONSTANTS
    Skus,           \* availability_items: 1 .. n
    Unshippable,    \* those without a shipping profile
    AvailWorkers    \* min(FACTORY_PRODUCT_CONCURRENCY, number of items) workers

ASSUME AvailabilityAssumption ==
    /\ IsFiniteSet(Skus) /\ Skus = 1 .. Cardinality(Skus) /\ Unshippable \subseteq Skus
    /\ IsFiniteSet(AvailWorkers) /\ Cardinality(AvailWorkers) <= Cardinality(Skus)
    /\ AvailWorkers \cap {"task", "user"} = {}

VARIABLES
    availDoc,       \* the document in the stores, or NoDoc
    availPc,        \* the job: where it is
    availCopy,      \* the copies of the job, of each worker and of the user
    availQueue,     \* availability_queue: items, and Sentinel for each worker
    unfinished,     \* puts without a task_done: what join waits for
    worker,         \* [at, item] of each worker
    availErrors,    \* availability_errors: <<item, "refused">> and <<item, "raised">>
    accepted,       \* history: what OTTO has accepted for each item
    counted,        \* history: the saves of the counter, <<item, "worker" or "handler">>
    refusals,       \* history: the saves of the counter that raised
    edit            \* history: the edit is "none", "saved", or "overlapped"
                    \* by a copy that was read before it and saved after it

availVars == <<availDoc, availPc, availCopy, availQueue, unfinished, worker,
               availErrors, accepted, counted, refusals, edit>>

Sentinel == 0
NoDoc == [state |-> "absent", done |-> 0, failed |-> 0, edited |-> FALSE]
QueuedForStock == [NoDoc EXCEPT !.state = "QUEUED"]

NoWork == [at |-> "idle", item |-> Sentinel]

\* A seeded fault: the copy read at first is used throughout.
AlwaysTask(d) == availCopy["task"]

\* "or task": where no document is found, the copy the job has read at first.
OrTask(d) == IF d = NoDoc THEN availCopy["task"] ELSE d

Locked == \E w \in AvailWorkers : worker[w].at \in {"count", "count_failed"}

\* The copies that will be saved over the document.
Pending == {w \in AvailWorkers : worker[w].at \in {"count", "count_failed"}}
           \cup (IF availPc \in {"sleeping", "translating"} THEN {"task"} ELSE {})

-----------------------------------------------------------------------------
(* The job.                                                                *)

StartAvailability ==
    /\ availPc = "start"
    /\ availCopy' = [availCopy EXCEPT !["task"] =
                        IF availDoc = NoDoc THEN [NoDoc EXCEPT !.state = "none"] ELSE availDoc]
    /\ availPc' = "sleeping"
    /\ UNCHANGED <<scene, availDoc, availQueue, unfinished, worker, availErrors,
                   accepted, counted, refusals, edit>>

\* A seeded fault: the last worker gets no sentinel.
SentinelsShort == Cardinality(AvailWorkers) - 1

Sentinels == Cardinality(AvailWorkers)

\* After the sleep the old copy is saved, and the items are put into the queue,
\* with one sentinel for each worker.
StartProgress ==
    /\ availPc = "sleeping"
    /\ LET task == [availCopy["task"] EXCEPT !.state = "IN_PROGRESS", !.done = 0]
       IN  availDoc' = task /\ availCopy' = [availCopy EXCEPT !["task"] = task]
    /\ availQueue' = [i \in 1 .. Cardinality(Skus) + Sentinels |->
                        IF i \in Skus THEN i ELSE Sentinel]
    /\ unfinished' = Cardinality(Skus) + Sentinels
    /\ availPc' = "join"
    /\ UNCHANGED <<scene, worker, availErrors, accepted, counted, refusals, edit>>

\* join and gather have returned; the last document is read, and its errors are
\* translated before it is saved.
Joined ==
    /\ availPc = "join" /\ unfinished = 0
    /\ \A w \in AvailWorkers : worker[w].at = "ended"
    /\ availPc' = "translating"
    /\ availCopy' = [availCopy EXCEPT !["task"] = OrTask(availDoc)]
    /\ UNCHANGED <<scene, availDoc, availQueue, unfinished, worker, availErrors,
                   accepted, counted, refusals, edit>>

AvailFailed == Cardinality(availErrors)

FinishAvailability ==
    /\ availPc = "translating"
    /\ availDoc' = [availCopy["task"] EXCEPT
                        !.state = IF AvailFailed > 0 THEN "FAILED" ELSE "DONE",
                        !.failed = AvailFailed, !.done = Cardinality(Skus)]
    /\ availPc' = "ended"
    /\ UNCHANGED <<scene, availCopy, availQueue, unfinished, worker, availErrors,
                   accepted, counted, refusals, edit>>

\* The job's timeout, or the end of the process: nothing of it runs again.
KillAvailability ==
    /\ May("kill") /\ availPc \in {"sleeping", "join", "translating"}
    /\ availPc' = "killed"
    /\ worker' = [w \in AvailWorkers |-> NoWork]
    /\ UNCHANGED <<scene, availDoc, availCopy, availQueue, unfinished, availErrors,
                   accepted, counted, refusals, edit>>

-----------------------------------------------------------------------------
(* _availability_worker and _submit_availability.                          *)

TakeItem(w) ==
    /\ availPc = "join" /\ worker[w].at = "idle" /\ availQueue # <<>>
    /\ availQueue' = Tail(availQueue)
    /\ LET item == Head(availQueue)
       IN  IF item = Sentinel
           THEN /\ worker' = [worker EXCEPT ![w] = [at |-> "ended", item |-> Sentinel]]
                /\ unfinished' = unfinished - 1
                /\ UNCHANGED availErrors
           ELSE /\ UNCHANGED unfinished
                /\ IF May("incomplete") /\ item \in Unshippable
                   THEN /\ worker' = [worker EXCEPT ![w] = [at |-> "failed", item |-> item]]
                        /\ availErrors' = availErrors \cup {<<item, "raised">>}
                   ELSE /\ worker' = [worker EXCEPT ![w] = [at |-> "quantity", item |-> item]]
                        /\ UNCHANGED availErrors
    /\ UNCHANGED <<scene, availDoc, availPc, availCopy, accepted, counted, refusals, edit>>

\* update_quantity: a refusal does not keep the second request back.
SendQuantity(w) ==
    /\ worker[w].at = "quantity"
    /\ \/ accepted' = [accepted EXCEPT ![worker[w].item] = @ \cup {"quantity"}]
       \/ May("refusals") /\ UNCHANGED accepted
    /\ worker' = [worker EXCEPT ![w].at = "delivery"]
    /\ UNCHANGED <<scene, availDoc, availPc, availCopy, availQueue, unfinished,
                   availErrors, counted, refusals, edit>>

\* A seeded fault: one of the two answers is enough.
OneIsEnough(results) == results # {}

IsAvailable(results) == results = {"quantity", "delivery"}

SendDelivery(w) ==
    /\ worker[w].at = "delivery"
    /\ LET i == worker[w].item
       IN  /\ \/ accepted' = [accepted EXCEPT ![i] = @ \cup {"delivery"}]
              \/ May("refusals") /\ UNCHANGED accepted
           /\ availErrors' = IF IsAvailable(accepted'[i]) THEN availErrors
                             ELSE availErrors \cup {<<i, "refused">>}
    /\ worker' = [worker EXCEPT ![w].at = "sent"]
    /\ UNCHANGED <<scene, availDoc, availPc, availCopy, availQueue, unfinished,
                   counted, refusals, edit>>

\* A seeded fault: the handler counts without the lock.
MayCountUnlocked(w) == worker[w].at = "failed" \/ (worker[w].at = "sent" /\ ~Locked)

\* async with availability_lock.
MayCount(w) == worker[w].at \in {"sent", "failed"} /\ ~Locked

ReadCount(w) ==
    /\ MayCount(w)
    /\ worker' = [worker EXCEPT ![w].at = IF @ = "sent" THEN "count" ELSE "count_failed"]
    /\ availCopy' = [availCopy EXCEPT ![w] = OrTask(availDoc)]
    /\ UNCHANGED <<scene, availDoc, availPc, availQueue, unfinished, availErrors,
                   accepted, counted, refusals, edit>>

\* What a count is for: the item, counted by its worker or by the handler.
Counting(w) == <<worker[w].item, IF worker[w].at = "count" THEN "worker" ELSE "handler">>

SaveCount(w) ==
    /\ worker[w].at \in {"count", "count_failed"}
    /\ availDoc' = [availCopy[w] EXCEPT !.done = @ + 1]
    /\ counted' = counted \cup {Counting(w)}
    /\ worker' = [worker EXCEPT ![w] = NoWork]
    /\ unfinished' = unfinished - 1
    /\ UNCHANGED <<scene, availPc, availCopy, availQueue, availErrors, accepted,
                   refusals, edit>>

\* One save of the counter may raise, and one in the handler.
MayRaise(at) ==
    \/ at = "count" /\ May("count_fails") /\ refusals = 0
    \/ at = "count_failed" /\ May("handler_fails") /\ refusals < 2

\* The save raises, with the document written or not.  The handler enters the
\* item as an error and counts it once more; if that raises too, the worker is
\* over: its sentinel stays in the queue.
CountRaises(w) ==
    /\ worker[w].at \in {"count", "count_failed"}
    /\ MayRaise(worker[w].at) /\ refusals' = refusals + 1
    /\ \/ UNCHANGED <<availDoc, counted>>
       \/ /\ availDoc' = [availCopy[w] EXCEPT !.done = @ + 1]
          /\ counted' = counted \cup {Counting(w)}
    /\ \/ /\ worker[w].at = "count"
          /\ worker' = [worker EXCEPT ![w].at = "failed"]
          /\ availErrors' = availErrors \cup {<<worker[w].item, "raised">>}
          /\ UNCHANGED unfinished
       \/ /\ worker[w].at = "count_failed"
          /\ worker' = [worker EXCEPT ![w] = [at |-> "died", item |-> Sentinel]]
          /\ unfinished' = unfinished - 1
          /\ UNCHANGED availErrors
    /\ UNCHANGED <<scene, availPc, availCopy, availQueue, accepted, edit>>

-----------------------------------------------------------------------------
(* The user of the task page.                                              *)

\* save_factory_prepare_task_draft reads the document and saves the edited copy.
OpenDraft ==
    /\ May("edits") /\ availCopy["user"] = NoDoc /\ edit = "none" /\ availDoc # NoDoc
    /\ availCopy' = [availCopy EXCEPT !["user"] = availDoc]
    /\ UNCHANGED <<scene, availDoc, availPc, availQueue, unfinished, worker,
                   availErrors, accepted, counted, refusals, edit>>

SaveEdit ==
    /\ availCopy["user"] # NoDoc
    /\ availDoc' = [availCopy["user"] EXCEPT !.edited = TRUE]
    /\ availCopy' = [availCopy EXCEPT !["user"] = NoDoc]
    /\ edit' = IF Pending = {} THEN "saved" ELSE "overlapped"
    /\ UNCHANGED <<scene, availPc, availQueue, unfinished, worker, availErrors,
                   accepted, counted, refusals>>

DeleteTask ==
    /\ May("deletes") /\ availDoc # NoDoc
    /\ availDoc' = NoDoc
    /\ UNCHANGED <<scene, availPc, availCopy, availQueue, unfinished, worker,
                   availErrors, accepted, counted, refusals, edit>>

-----------------------------------------------------------------------------
AvailInit ==
    /\ availDoc = QueuedForStock
    /\ availPc = "start"
    /\ availCopy = [who \in AvailWorkers \cup {"task", "user"} |-> NoDoc]
    /\ availQueue = <<>>
    /\ unfinished = 0
    /\ worker = [w \in AvailWorkers |-> NoWork]
    /\ availErrors = {}
    /\ accepted = [i \in Skus |-> {}]
    /\ counted = {}
    /\ refusals = 0
    /\ edit = "none"

WorkerStep(w) ==
    TakeItem(w) \/ SendQuantity(w) \/ SendDelivery(w) \/ ReadCount(w) \/ SaveCount(w)

AvailJobStep == StartAvailability \/ StartProgress \/ Joined \/ FinishAvailability

AvailNext ==
    /\ Plays("availability")
    /\ \/ AvailJobStep \/ KillAvailability
       \/ \E w \in AvailWorkers : WorkerStep(w) \/ CountRaises(w)
       \/ OpenDraft \/ SaveEdit \/ DeleteTask

\* The event loop of the worker runs what is ready; OTTO answers.
AvailFairness ==
    /\ WF_availVars(Plays("availability") /\ AvailJobStep)
    /\ \A w \in AvailWorkers : WF_availVars(Plays("availability") /\ WorkerStep(w))

-----------------------------------------------------------------------------
(* Properties.                                                             *)

AvailDocs == [state : {"absent", "none", "QUEUED", "IN_PROGRESS", "DONE", "FAILED"},
              done : 0 .. 2 * Cardinality(Skus), failed : 0 .. 2 * Cardinality(Skus),
              edited : BOOLEAN]

AvailTypeOK ==
    /\ availDoc \in AvailDocs
    /\ availPc \in {"start", "sleeping", "join", "translating", "ended", "killed"}
    /\ availCopy \in [AvailWorkers \cup {"task", "user"} -> AvailDocs]
    /\ unfinished \in 0 .. Cardinality(Skus) + Cardinality(AvailWorkers)
    /\ worker \in [AvailWorkers -> [at : {"idle", "quantity", "delivery", "sent", "failed",
                                          "count", "count_failed", "ended", "died"},
                                    item : Skus \cup {Sentinel}]]
    /\ accepted \in [Skus -> SUBSET {"quantity", "delivery"}]
    /\ edit \in {"none", "saved", "overlapped"}

\* Two workers never count over each other: as long as nobody else writes, the
\* document shows every count that was saved, and the verdict every item.
NoCountLost ==
    ~May("edits") /\ ~May("deletes") /\ availPc \in {"join", "translating"}
        => availDoc.done = Cardinality(counted)

\* "DONE": OTTO has taken stock and delivery profile of every product, whatever
\* was written over the document meanwhile.
DoneMeansAvailable ==
    availPc = "ended" /\ availDoc.state = "DONE"
        => \A i \in Skus : accepted[i] = {"quantity", "delivery"}

\* An edit of the draft is lost only to a copy that was read before it: during
\* the sleep, while a worker counts, or while the errors are translated.
EditKeptUnlessOverlapped ==
    edit = "saved" /\ ~May("deletes") => availDoc.edited

\* A save of the counter that fails does not keep the job from its verdict.  One
\* that fails in the handler of exceptions does: the worker is over, the sentinel
\* meant for it stays in the queue, and join waits for ever.
AvailabilitySettles ==
    Plays("availability")
        => \/ scene.events \cap {"kill", "edits", "deletes", "handler_fails"} # {}
           \/ <>[](availDoc.state \in {"DONE", "FAILED"})

=============================================================================

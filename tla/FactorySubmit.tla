--------------------------- MODULE FactorySubmit ---------------------------
(***************************************************************************)
(* Submission of prepared products to OTTO: the submit and submit-preview  *)
(* routes, the ARQ job submit_factory_products_task, and what they do to   *)
(* the EAN pool, to the saved task state and at OTTO                       *)
(* (app/api/routes/products.py).                                           *)
(*                                                                         *)
(* A job is one click on submit or on preview.  It takes an EAN from the   *)
(* pool for each active variant that has none; those variants are the      *)
(* products of the model (a product that brings its own EAN never touches  *)
(* the pool).  A submit job creates the products at OTTO on its account    *)
(* and, for the JV account, clones of them with the same EANs on XL.       *)
(*                                                                         *)
(* One action is the code between two awaits at which another job can run. *)
(* A save writes the whole document the job holds, doc[j], over the saved  *)
(* one.  What may go wrong is chosen once per behaviour, see FaultKinds.   *)
(***************************************************************************)
EXTENDS EanPool

CONSTANTS
    Jobs,           \* clicks on submit or preview
    Previews,       \* the jobs of the preview route; they run in the API
    DualAccount,    \* the submit jobs of the JV controller, cloned to XL
    Processes,      \* the factory tasks
    Process,        \* the task of a job
    Missing,        \* how many variants of a job have no EAN
    Concurrency,    \* WorkerSettings.max_jobs
    Environments    \* the sets of faults under which the jobs may run

\* kill       the worker or the API dies, or ARQ's job timeout expires
\* error      any awaited call raises; a request to OTTO may raise after OTTO
\*            has accepted any of its products
\* uncounted  OTTO's counters tell of less than it did: it is still processing
\*            after the last poll, answers without a process id, ends the task
\*            'failed' or 'error' before it is through, or leaves 'failed' out
\* presumed   OTTO ends a task 'done' and leaves 'succeeded' out: the code
\*            presumes that all it has not counted as failed succeeded
\* users      users of the ean-pool routes work on the same table
\* That OTTO accepts some products of a request and rejects the others, on
\* each account as it likes, is no fault.
FaultKinds == {"kill", "error", "uncounted", "presumed", "users"}

ASSUME JobsAssumption ==
    /\ Previews \subseteq Jobs
    /\ DualAccount \subseteq Jobs \ Previews
    /\ Process \in [Jobs -> Processes]
    /\ Missing \in [Jobs -> Nat \ {0}]
    /\ Concurrency \in Nat \ {0}
    /\ Environments \subseteq SUBSET FaultKinds

VARIABLES
    faults,         \* what may go wrong around the jobs
    pc,             \* where each job is
    doc,            \* the task document each job has read and changed
    task,           \* the saved task document of each process
    filled,         \* how many variants the fill has given an EAN
    list,           \* ean_pool_assignments in the hands of the job
    todo,           \* the assignments its release or mark_used loop has left
    loaded,         \* the pool row its session has loaded and not committed
    report,         \* what OTTO's update task said, for "own" and "xl"
    availability,   \* the jobs whose availability job has been enqueued
    \* history
    held,           \* EANs reserved by the job and not released by it
    listed,         \* EANs OTTO has accepted for each job on each account
    lost,           \* EANs a failed pool call or a job cut off left behind
    raised,         \* when an exception ended the job's course, see RaisedAt
    byHand          \* EANs that a user of the routes has used or released

jobVars == <<pc, doc, task, filled, list, todo, loaded, report, availability>>
history == <<held, listed, lost, raised, byHand>>
vars    == <<faults, pool, call, jobVars, history>>

-----------------------------------------------------------------------------
(* The task document.                                                      *)

Steps == {"prepared", "otto_create_queued", "final_validation_in_progress",
          "otto_create_in_progress", "otto_create_done",
          "final_validation_failed", "otto_create_failed"}

Doc == [status : {"IN_PROGRESS", "DONE", "FAILED"}, step : Steps,
        availability : {"none", "QUEUED"}, eans : SUBSET Eans]

Prepared == [status |-> "DONE", step |-> "prepared",
             availability |-> "none", eans |-> {}]

\* Seeded fault: the arguments change places.
EditSwapped(d, status, step) == [d EXCEPT !.status = step, !.step = status]

Edit(d, status, step) == [d EXCEPT !.status = status, !.step = step]

Goto(j, label) == pc' = [pc EXCEPT ![j] = label]

\* _save_factory_task_state: job j writes document d and goes on.
Save(j, d, label) ==
    /\ doc'  = [doc  EXCEPT ![j] = d]
    /\ task' = [task EXCEPT ![Process[j]] = d]
    /\ Goto(j, label)

\* The job reads the saved document.
ReadTask(j) == doc' = [doc EXCEPT ![j] = task[Process[j]]]

\* Seeded fault: the handler forgets the release.
HandlerWithoutRelease(j) == IF j \in Previews THEN "end" ELSE "save_failed"

\* An exception is handled by releasing the assignments the job knows of.
Handler(j) == IF j \in Previews THEN "undo_preview_error" ELSE "undo"

Unwind(j) ==
    /\ todo' = [todo EXCEPT ![j] = list[j]]
    /\ Goto(j, Handler(j))

-----------------------------------------------------------------------------
(* What OTTO reports of the products of a job.                             *)

NoReport == [called |-> FALSE, succeeded |-> 0, failed |-> 0]
Answer(succeeded, failed) ==
    [called |-> TRUE, succeeded |-> succeeded, failed |-> failed]

Accounts(j) == IF j \in DualAccount THEN {"own", "xl"} ELSE {"own"}

Count(j) == Cardinality(list[j])

\* What OTTO may say of a request of which it has accepted A: how many
\* succeeded, how many failed, summed over the batches.
Told(j, A, succeeded, failed) ==
    LET good == Cardinality(A)
        bad  == Cardinality(list[j] \ A)
    IN  \/ succeeded = good /\ failed = bad
        \/ "uncounted" \in faults /\ succeeded <= good /\ failed <= bad
        \/ "presumed" \in faults /\ failed <= bad /\ succeeded + failed <= Count(j)

\* Seeded faults: the clones are not looked at; an answer is enough; only the
\* status is looked at.
NoneFailedOnOwn(j)  == report[j]["own"].failed = 0
AnsweredAtAll(j)    == report[j]["own"].called
StatusIsDone(j)     == doc[j].status = "DONE"

\* create_failed_count and xl_create_failed_count are 0.
NoneFailed(j) == \A a \in Accounts(j) : report[j][a].failed = 0
\* jv_create_done: only the job's own account is looked at.
CreateDone(j) == /\ report[j]["own"].failed = 0
                 /\ report[j]["own"].succeeded >= Count(j)
\* The availability job is enqueued only when every account has succeeded.
AllSucceeded(j) ==
    /\ doc[j].status = "DONE"
    /\ \A a \in Accounts(j) : report[j][a].succeeded >= Count(j)

-----------------------------------------------------------------------------
(* The submit route: nothing stops a second click while a job runs.        *)

Click(j) ==
    /\ j \notin Previews /\ pc[j] = "idle"
    /\ ReadTask(j)
    /\ Goto(j, "save_queued")
    /\ UNCHANGED <<pool, call, task, filled, list, todo, loaded, report, availability, history>>

SaveQueued(j) ==
    /\ pc[j] = "save_queued"
    /\ Save(j, Edit(doc[j], "IN_PROGRESS", "otto_create_queued"), "enqueue")
    /\ UNCHANGED <<pool, call, filled, list, todo, loaded, report, availability, history>>

Enqueue(j) ==
    /\ pc[j] = "enqueue"
    /\ Goto(j, "queued")
    /\ UNCHANGED <<pool, call, doc, task, filled, list, todo, loaded, report, availability, history>>

\* The preview route: its document is read before the EANs are reserved and
\* saved after they are released.
Preview(j) ==
    /\ j \in Previews /\ pc[j] = "idle"
    /\ ReadTask(j)
    /\ Goto(j, "fill")
    /\ UNCHANGED <<pool, call, task, filled, list, todo, loaded, report, availability, history>>

-----------------------------------------------------------------------------
(* _run_factory_submit_task                                                *)

Finished == {"idle", "end", "dead"}

InWorker(j) == j \notin Previews
               /\ pc[j] \notin Finished \cup {"save_queued", "enqueue", "queued"}

Start(j) ==
    /\ pc[j] = "queued"
    /\ Cardinality({k \in Jobs : InWorker(k)}) < Concurrency
    /\ ReadTask(j)
    /\ Goto(j, "save_start")
    /\ UNCHANGED <<pool, call, task, filled, list, todo, loaded, report, availability, history>>

SaveStart(j) ==
    /\ pc[j] = "save_start"
    /\ Save(j, Edit(doc[j], "IN_PROGRESS", "final_validation_in_progress"), "fill")
    /\ UNCHANGED <<pool, call, filled, list, todo, loaded, report, availability, history>>

\* _fill_missing_variant_eans_from_pool: one reservation per turn of the loop.
FillOne(j) ==
    /\ pc[j] = "fill" /\ filled[j] < Missing[j]
    /\ \E e \in Eans :
         /\ IsNext(pool, e)
         /\ pool' = Reserved(pool, e, Process[j])
         /\ held' = [held EXCEPT ![j] = @ \cup {e}]
    /\ filled' = [filled EXCEPT ![j] = @ + 1]
    /\ UNCHANGED <<call, pc, doc, task, list, todo, loaded, report, availability, listed, lost, raised, byHand>>

\* The list of assignments is returned only by a fill that completes.
Filled(j) ==
    /\ pc[j] = "fill" /\ filled[j] >= Missing[j]
    /\ list' = [list EXCEPT ![j] = held[j]]
    /\ Goto(j, IF j \in Previews THEN "validate" ELSE "save_eans")
    /\ UNCHANGED <<pool, call, doc, task, filled, todo, loaded, report, availability, history>>

\* "No available EAN in pool.": the handler finds an empty list, and what the
\* loop has reserved stays reserved.
PoolExhausted(j) ==
    /\ pc[j] = "fill" /\ filled[j] < Missing[j]
    /\ Available(pool) = {}
    /\ lost' = lost \cup held[j]
    /\ raised' = [raised EXCEPT ![j] = "before"]
    /\ Unwind(j)
    /\ UNCHANGED <<pool, call, doc, task, filled, list, loaded, report, availability, held, listed, byHand>>

SaveEans(j) ==
    /\ pc[j] = "save_eans"
    /\ Save(j, [doc[j] EXCEPT !.eans = list[j]], "validate")
    /\ UNCHANGED <<pool, call, filled, list, todo, loaded, report, availability, history>>

\* Duplicate or missing identifiers, and conflicts with local products.
ValidationFails(j) ==
    /\ pc[j] = "validate"
    /\ todo' = [todo EXCEPT ![j] = list[j]]
    /\ Goto(j, IF j \in Previews THEN "undo_preview" ELSE "undo_invalid")
    /\ UNCHANGED <<pool, call, doc, task, filled, list, loaded, report, availability, history>>

\* Validation passes, with an EAN of its own for each variant; the payloads
\* are built and written to snapshot files.
Validated(j) ==
    /\ pc[j] = "validate" /\ Cardinality(list[j]) = Missing[j]
    /\ IF j \in Previews
       THEN /\ todo' = [todo EXCEPT ![j] = list[j]]
            /\ Goto(j, "undo_preview")
       ELSE /\ UNCHANGED todo
            /\ Goto(j, "save_create")
    /\ UNCHANGED <<pool, call, doc, task, filled, list, loaded, report, availability, history>>

SaveCreate(j) ==
    /\ pc[j] = "save_create"
    /\ Save(j, [doc[j] EXCEPT !.step = "otto_create_in_progress"], "create_own")
    /\ UNCHANGED <<pool, call, filled, list, todo, loaded, report, availability, history>>

\* _submit_products_to_otto_in_batches for one account: OTTO accepts any of
\* the products.
Create(j, account, next) ==
    \E A \in SUBSET list[j] : \E succeeded, failed \in 0..Count(j) :
       /\ Told(j, A, succeeded, failed)
       /\ listed' = [listed EXCEPT ![j][account] = A]
       /\ report' = [report EXCEPT ![j][account] = Answer(succeeded, failed)]
       /\ Goto(j, next)
       /\ UNCHANGED <<pool, call, doc, task, filled, list, todo, loaded, availability, held, lost, raised, byHand>>

CreateOwn(j) ==
    /\ pc[j] = "create_own"
    /\ Create(j, "own", IF j \in DualAccount THEN "create_xl" ELSE "settle")

\* The clones are sent whatever OTTO said of the products.
CreateXl(j) ==
    /\ pc[j] = "create_xl"
    /\ Create(j, "xl", "settle")

\* The verdict, and the EANs of the pool: used if the own account took all
\* products, else released.
Settle(j) ==
    /\ pc[j] = "settle"
    /\ doc' = [doc EXCEPT ![j] =
                 Edit(@, IF NoneFailed(j) THEN "DONE" ELSE "FAILED", "otto_create_done")]
    /\ todo' = [todo EXCEPT ![j] = list[j]]
    /\ Goto(j, IF CreateDone(j) THEN "mark" ELSE "undo_create")
    /\ UNCHANGED <<pool, call, task, filled, list, loaded, report, availability, history>>

\* _mark_ean_pool_assignments_used
LoadToMark(j) ==
    /\ pc[j] = "mark" /\ loaded[j] = Idle
    /\ \E e \in todo[j] :
         loaded' = [loaded EXCEPT ![j] = Pending("use", e, pool[e].status)]
    /\ UNCHANGED <<pool, call, pc, doc, task, filled, list, todo, report, availability, history>>

CommitMark(j) ==
    /\ pc[j] = "mark" /\ loaded[j] # Idle
    /\ pool' = MarkedUsed(pool, loaded[j].ean, loaded[j].seen)
    /\ todo' = [todo EXCEPT ![j] = @ \ {loaded[j].ean}]
    /\ loaded' = [loaded EXCEPT ![j] = Idle]
    /\ UNCHANGED <<call, pc, doc, task, filled, list, report, availability, history>>

Marked(j) ==
    /\ pc[j] = "mark" /\ todo[j] = {}
    /\ Goto(j, "save_result")
    /\ UNCHANGED <<pool, call, doc, task, filled, list, todo, loaded, report, availability, history>>

SaveResult(j) ==
    /\ pc[j] = "save_result"
    /\ Save(j, doc[j], IF AllSucceeded(j) THEN "save_availability" ELSE "end")
    /\ UNCHANGED <<pool, call, filled, list, todo, loaded, report, availability, history>>

SaveAvailability(j) ==
    /\ pc[j] = "save_availability"
    /\ Save(j, [doc[j] EXCEPT !.availability = "QUEUED"], "enqueue_availability")
    /\ UNCHANGED <<pool, call, filled, list, todo, loaded, report, availability, history>>

EnqueueAvailability(j) ==
    /\ pc[j] = "enqueue_availability"
    /\ availability' = availability \cup {j}
    /\ Goto(j, "end")
    /\ UNCHANGED <<pool, call, doc, task, filled, list, todo, loaded, report, history>>

-----------------------------------------------------------------------------
(* _release_ean_pool_assignments, wherever it is called from: by the       *)
(* validation branch, after an OTTO result that is not complete, by the    *)
(* exception handler, by the preview's finally.                            *)

ReleaseLoops == {"undo_invalid", "undo_create", "undo", "undo_preview",
                 "undo_preview_error"}

AfterLoop(label) ==
    CASE label = "undo_invalid" -> "save_invalid"
      [] label = "undo_create"  -> "save_result"
      [] label = "undo"         -> "save_failed"
      [] label = "undo_preview" -> "save_preview"
      [] OTHER                  -> "end"

\* Seeded fault: an EAN that release refuses stays in the list.
LoadToReleaseRetrying(j) ==
    /\ pc[j] \in ReleaseLoops /\ loaded[j] = Idle
    /\ \E e \in todo[j] :
         /\ MayRelease(pool[e].status)
         /\ loaded' = [loaded EXCEPT ![j] = Pending("release", e, pool[e].status)]
    /\ UNCHANGED <<pool, call, pc, doc, task, filled, list, todo, report, availability, history>>

\* release raises for an EAN that is not reserved; the loop logs and goes on.
LoadToRelease(j) ==
    /\ pc[j] \in ReleaseLoops /\ loaded[j] = Idle
    /\ \E e \in todo[j] :
         IF MayRelease(pool[e].status)
         THEN /\ loaded' = [loaded EXCEPT ![j] = Pending("release", e, pool[e].status)]
              /\ UNCHANGED todo
         ELSE /\ todo' = [todo EXCEPT ![j] = @ \ {e}]
              /\ UNCHANGED loaded
    /\ UNCHANGED <<pool, call, pc, doc, task, filled, list, report, availability, history>>

CommitToRelease(j) ==
    /\ pc[j] \in ReleaseLoops /\ loaded[j] # Idle
    /\ pool' = Released(pool, loaded[j].ean)
    /\ todo' = [todo EXCEPT ![j] = @ \ {loaded[j].ean}]
    /\ held' = [held EXCEPT ![j] = @ \ {loaded[j].ean}]
    /\ loaded' = [loaded EXCEPT ![j] = Idle]
    /\ UNCHANGED <<call, pc, doc, task, filled, list, report, availability, listed, lost, raised, byHand>>

ReleaseLoopDone(j) ==
    /\ pc[j] \in ReleaseLoops /\ todo[j] = {}
    /\ Goto(j, AfterLoop(pc[j]))
    /\ UNCHANGED <<pool, call, doc, task, filled, list, todo, loaded, report, availability, history>>

SaveInvalid(j) ==
    /\ pc[j] = "save_invalid"
    /\ Save(j, Edit(doc[j], "FAILED", "final_validation_failed"), "end")
    /\ UNCHANGED <<pool, call, filled, list, todo, loaded, report, availability, history>>

SaveFailed(j) ==
    /\ pc[j] = "save_failed"
    /\ Save(j, Edit(doc[j], "FAILED", "otto_create_failed"), "end")
    /\ UNCHANGED <<pool, call, filled, list, todo, loaded, report, availability, history>>

\* The preview keeps status and step of the document it read.
SavePreview(j) ==
    /\ pc[j] = "save_preview"
    /\ Save(j, doc[j], "end")
    /\ UNCHANGED <<pool, call, filled, list, todo, loaded, report, availability, history>>

-----------------------------------------------------------------------------
(* Faults.                                                                 *)

\* When the exception came: before the first request; while OTTO was asked or
\* its answer looked at; after the release of all assignments; after they were
\* marked used.
RaisedAt(j) ==
    CASE pc[j] \in {"save_start", "fill", "save_eans", "validate", "save_create"} -> "before"
      [] pc[j] \in {"create_own", "create_xl", "settle"} -> "asking"
      [] pc[j] = "save_invalid" \/ (pc[j] = "save_result" /\ ~CreateDone(j)) -> "again"
      [] OTHER -> "marked"

\* An awaited call of the try block raises, and the handler takes over: it
\* releases the list again, whatever has been done with it.
Raises(j) ==
    /\ "error" \in faults
    /\ pc[j] \in {"save_start", "fill", "save_eans", "validate", "save_create", "settle",
                  "save_invalid", "save_result", "save_availability", "enqueue_availability"}
    /\ raised' = [raised EXCEPT ![j] = RaisedAt(j)]
    /\ lost' = IF pc[j] = "fill" THEN lost \cup held[j] ELSE lost
    /\ Unwind(j)
    /\ UNCHANGED <<pool, call, doc, task, filled, list, loaded, report, availability, held, listed, byHand>>

\* A request or a poll raises, whatever OTTO has accepted by then.
RequestRaises(j) ==
    /\ "error" \in faults
    /\ \E account \in Accounts(j), A \in SUBSET list[j] :
         /\ pc[j] = IF account = "own" THEN "create_own" ELSE "create_xl"
         /\ listed' = [listed EXCEPT ![j][account] = A]
    /\ raised' = [raised EXCEPT ![j] = RaisedAt(j)]
    /\ Unwind(j)
    /\ UNCHANGED <<pool, call, doc, task, filled, list, loaded, report, availability, held, lost, byHand>>

\* A route, or the handler itself, raises: nobody is left to catch it.
GivesUp(j) ==
    /\ "error" \in faults
    /\ pc[j] \in {"save_queued", "enqueue", "save_failed", "save_preview"}
    /\ Goto(j, "end")
    /\ UNCHANGED <<pool, call, doc, task, filled, list, todo, loaded, report, availability, history>>

\* A pool call inside one of the loops raises; the loop logs and goes on.
LoopSkips(j) ==
    /\ "error" \in faults /\ pc[j] \in ReleaseLoops \cup {"mark"}
    /\ \E e \in todo[j] :
         /\ loaded[j] # Idle => loaded[j].ean = e
         /\ todo' = [todo EXCEPT ![j] = @ \ {e}]
         /\ lost' = lost \cup {e}
    /\ loaded' = [loaded EXCEPT ![j] = Idle]
    /\ UNCHANGED <<pool, call, pc, doc, task, filled, list, report, availability, held, listed, raised, byHand>>

\* max_tries = 1: a job that was cut off is never run again.
Kill(j) ==
    /\ "kill" \in faults /\ pc[j] \notin Finished
    /\ Goto(j, "dead")
    /\ loaded' = [loaded EXCEPT ![j] = Idle]
    /\ lost' = lost \cup held[j]
    /\ UNCHANGED <<pool, call, doc, task, filled, list, todo, report, availability, held, listed, raised, byHand>>

-----------------------------------------------------------------------------
\* No job has done anything; the pool has some of the EANs.
NothingYet ==
    /\ \E S \in SUBSET Eans :
         pool = [e \in Eans |-> IF e \in S THEN AvailableRow ELSE NoRow]
    /\ call = [c \in Clients |-> Idle]
    /\ doc = [j \in Jobs |-> Prepared]
    /\ task = [p \in Processes |-> Prepared]
    /\ filled = [j \in Jobs |-> 0]
    /\ list = [j \in Jobs |-> {}]
    /\ todo = [j \in Jobs |-> {}]
    /\ loaded = [j \in Jobs |-> Idle]
    /\ report = [j \in Jobs |-> [a \in {"own", "xl"} |-> NoReport]]
    /\ availability = {}
    /\ held = [j \in Jobs |-> {}]
    /\ listed = [j \in Jobs |-> [a \in {"own", "xl"} |-> {}]]
    /\ lost = {}
    /\ raised = [j \in Jobs |-> "no"]
    /\ byHand = {}

Init ==
    /\ faults \in Environments
    /\ pc = [j \in Jobs |-> "idle"]
    /\ NothingYet

UserStep(j) == Click(j) \/ Preview(j)

JobStep(j) ==
    \/ SaveQueued(j) \/ Enqueue(j) \/ Start(j) \/ SaveStart(j)
    \/ FillOne(j) \/ Filled(j) \/ PoolExhausted(j) \/ SaveEans(j)
    \/ ValidationFails(j) \/ Validated(j) \/ SaveCreate(j)
    \/ CreateOwn(j) \/ CreateXl(j) \/ Settle(j)
    \/ LoadToMark(j) \/ CommitMark(j) \/ Marked(j)
    \/ SaveResult(j) \/ SaveAvailability(j) \/ EnqueueAvailability(j)
    \/ LoadToRelease(j) \/ CommitToRelease(j) \/ ReleaseLoopDone(j)
    \/ SaveInvalid(j) \/ SaveFailed(j) \/ SavePreview(j)

FaultStep(j) ==
    Raises(j) \/ RequestRaises(j) \/ GivesUp(j) \/ LoopSkips(j) \/ Kill(j)

\* A user of the ean-pool routes acts on the same table.
ConsoleStep(c) ==
    /\ "users" \in faults
    /\ \/ /\ Import(c) \/ Reserve(c) \/ LoadForUse(c) \/ LoadForRelease(c) \/ Abort(c)
          /\ UNCHANGED byHand
       \/ /\ CommitUse(c) \/ CommitRelease(c)
          /\ byHand' = byHand \cup {call[c].ean}
    /\ UNCHANGED <<jobVars, held, listed, lost, raised>>

Next ==
    /\ \/ \E j \in Jobs : UserStep(j) \/ JobStep(j) \/ FaultStep(j)
       \/ \E c \in Clients : ConsoleStep(c)
    /\ UNCHANGED faults

Spec == Init /\ [][Next]_vars

\* The event loops of the API and of the worker run every ready step; users
\* need not click, and faults need not happen.
Fairness == \A j \in Jobs : WF_vars(JobStep(j) /\ UNCHANGED faults)

FairSpec == Spec /\ Fairness

-----------------------------------------------------------------------------
(* Properties.                                                             *)

Labels == {"idle", "save_queued", "enqueue", "queued", "save_start", "fill",
           "save_eans", "validate", "save_create", "create_own", "create_xl",
           "settle", "mark", "save_result", "save_availability",
           "enqueue_availability", "save_invalid", "save_failed",
           "save_preview", "end", "dead"} \cup ReleaseLoops

JobPoolRow == [status : EanPoolStatuses,
               reservedFor : Clients \cup Processes \cup {Nobody}]
Reports == [called : BOOLEAN, succeeded : Nat, failed : Nat]

\* Every variable has the shape the code gives it.
TypeOK ==
    /\ faults \in SUBSET FaultKinds
    /\ pool \in [Eans -> JobPoolRow]
    /\ call \in [Clients -> Call]
    /\ pc \in [Jobs -> Labels]
    /\ doc \in [Jobs -> Doc]
    /\ task \in [Processes -> Doc]
    /\ filled \in [Jobs -> Nat]
    /\ list \in [Jobs -> SUBSET Eans]
    /\ todo \in [Jobs -> SUBSET Eans]
    /\ loaded \in [Jobs -> Call]
    /\ report \in [Jobs -> [{"own", "xl"} -> Reports]]
    /\ availability \subseteq Jobs
    /\ held \in [Jobs -> SUBSET Eans]
    /\ listed \in [Jobs -> [{"own", "xl"} -> SUBSET Eans]]
    /\ lost \subseteq Eans
    /\ raised \in [Jobs -> {"no", "before", "asking", "marked", "again"}]
    /\ byHand \subseteq Eans

Listed(j) == listed[j]["own"] \cup listed[j]["xl"]

\* EANs whose release has nothing to do with who holds them: the handler
\* releases the list a second time when a save raises after the release, and a
\* user releases or uses what he names.
ReleasedTwice == UNION {list[j] : j \in {k \in Jobs : raised[k] = "again"}}
Loose == ReleasedTwice \cup byHand

\* The job has released, or is about to release, an EAN although OTTO has it:
\* an exception came while OTTO was asked, or the own account's answer did not
\* count every product, or mark_used failed for it and an exception came then.
LetGo(j, e) ==
    \/ raised[j] = "asking"
    \/ report[j]["own"].called /\ ~CreateDone(j)
    \/ raised[j] = "marked" /\ e \in lost

\* The promise of the pool under every fault: two jobs list products under the
\* same EAN only if one of them has let the EAN go with a product under it, or
\* a second release or a user has made the EAN loose (products.py 5979, 6030).
\* A job whose own account took and counted all its products, and that was not
\* interrupted, keeps its EANs to itself whatever the others do.
NoDoubleListing ==
    \A j, k \in Jobs : j # k =>
        \A e \in Listed(j) \cap Listed(k) : e \in Loose \/ LetGo(j, e) \/ LetGo(k, e)

\* What the pool is for: "One free/reserved/used EAN for variants that do not
\* exist in source fetches." (app/models/ean_pool.py, EanPoolItem), an EAN being
\* free for one product; collisions are looked for before an export
\* (find_identifier_conflicts).
ListedOnce == \A j, k \in Jobs : j # k => Listed(j) \cap Listed(k) = {}

\* No step takes an EAN back that is marked used, two-step releases and marks
\* of concurrent jobs included, unless the EAN is loose.
UsedStays ==
    [][\A e \in Eans : pool[e].status = "used" /\ e \notin Loose'
                         => pool'[e].status = "used"]_vars

\* Every reservation has code ahead of it that will settle it, or is one of
\* the reservations known to be lost: a job cut off, a fill that raised, a
\* pool call that failed inside a loop.
WillSettle(j, e) ==
    /\ pc[j] \notin Finished
    /\ e \in held[j]
    /\ IF pc[j] \in ReleaseLoops \cup {"mark"}
       THEN e \in todo[j]
       ELSE pc[j] \notin {"save_invalid", "save_failed", "save_result",
                          "save_preview", "save_availability",
                          "enqueue_availability"}
NoForgottenReservation ==
    \A e \in Eans :
        (pool[e].status = "reserved" /\ pool[e].reservedFor \in Processes)
        => e \in lost \/ \E j \in Jobs : WillSettle(j, e)

\* The counters of an account are what OTTO did; they count more than it did.
CountsAreTrue(j, a) ==
    /\ report[j][a].succeeded = Cardinality(listed[j][a])
    /\ report[j][a].failed = Cardinality(list[j] \ listed[j][a])
Overcounted(j, a) == report[j][a].succeeded > Cardinality(listed[j][a])

\* "Send stock and delivery profile after OTTO product creation succeeds."
\* (tasks.py, submit_factory_availability_task): an availability job exists
\* only if OTTO took every product on every account, or its counters said so.
AvailabilityAfterCreation ==
    \A j \in availability : \A a \in Accounts(j) :
        listed[j][a] = list[j] \/ Overcounted(j, a)

\* A saved DONE verdict is true of the EANs it names: OTTO has accepted them
\* all for the task, on both accounts where it has two. The creator page
\* announces such a task as uploaded.
DoneMeansListed ==
    \A p \in Processes :
        (task[p].status = "DONE" /\ task[p].step = "otto_create_done")
        => \E j \in Jobs : /\ Process[j] = p
                            /\ \A a \in Accounts(j) : task[p].eans \subseteq listed[j][a]

\* What is left of it when OTTO's counters may be wrong: the document that says
\* DONE names the EANs of one job of its task, every account of that job has
\* answered, and each account whose counters are true has taken them all,
\* although several jobs save whole documents over one another.
DoneMeansListedIfCounted ==
    \A p \in Processes :
        (task[p].status = "DONE" /\ task[p].step = "otto_create_done")
        => \E j \in Jobs :
             /\ Process[j] = p /\ task[p].eans = list[j]
             /\ \A a \in Accounts(j) :
                  /\ report[j][a].called
                  /\ CountsAreTrue(j, a) => listed[j][a] = list[j]

\* An EAN the pool calls used carries a product at OTTO, unless OTTO's counters
\* presumed the product or a user marked the EAN.
UsedIsListed ==
    \A e \in Eans : pool[e].status = "used" =>
        \/ e \in byHand
        \/ \E j \in Jobs : \/ e \in listed[j]["own"]
                           \/ e \in list[j] /\ Overcounted(j, "own")

\* A submission that was queued ends, and then each EAN it has not given back
\* is used, left behind by a failure, or loose.
SubmissionSettles ==
    \A j \in Jobs :
        pc[j] = "queued" ~>
            /\ pc[j] \in {"end", "dead"}
            /\ \A e \in held[j] : pool[e].status = "used" \/ e \in lost \cup Loose

-----------------------------------------------------------------------------
(* What the pool promises its users: see EanAllocation.                    *)

\* A job that an exception ended, or whose own account did not count all, is
\* one whose use of its EANs is no longer promised anything.
GaveUp(j) == raised[j] # "no" \/ (report[j]["own"].called /\ ~CreateDone(j))

alloc == [e \in Eans |->
            IF e \in Loose \/ \E j \in Jobs : e \in Listed(j) /\ LetGo(j, e)
            THEN [state |-> "void", by |-> Nobody]
            ELSE IF \E j \in Jobs : e \in Listed(j)
            THEN [state |-> "listed", by |-> CHOOSE j \in Jobs : e \in Listed(j)]
            ELSE IF \E j \in Jobs : e \in held[j]
            THEN [state |-> "held", by |-> CHOOSE j \in Jobs : e \in held[j]]
            ELSE [state |-> "free", by |-> Nobody]]

taken == [j \in Jobs |-> held[j] \cup list[j]]

Allocation == INSTANCE EanAllocation
                WITH Holders <- Jobs, failed <- {j \in Jobs : GaveUp(j)}

\* The jobs and the pool implement the allocation of EANs.
AllocationSpec == Allocation!Spec

=============================================================================

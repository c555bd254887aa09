--------------------------- MODULE AttributeFill ---------------------------
(***************************************************************************)
(* The attribute fill of one task (app/services/attribute_fill_service.py): *)
(* a coordinating job fetches OTTO's products, writes a row for every      *)
(* active one, cuts them into chunks and enqueues a job per chunk.  A chunk *)
(* job generates the missing attributes of its products one by one, sends  *)
(* them to OTTO in batches, and counts what it did in the task document    *)
(* that all chunk jobs share.  The job whose count completes the chunks    *)
(* concludes the task.                                                     *)
(*                                                                         *)
(* The document is read, changed and saved under a lock in Redis, which    *)
(* expires after ATTRIBUTE_FILL_LOCK_SECONDS and is released in two steps.  *)
(***************************************************************************)
EXTENDS Integers, FiniteSets

CONSTANTS
    MaxActive,      \* a bound on the active products OTTO returns
    ChunkSize,      \* ATTRIBUTE_FILL_CHUNK_SIZE
    BatchSize,      \* OTTO_SUBMIT_BATCH_SIZE
    Concurrency,    \* WorkerSettings.max_jobs
    Free,           \* nobody holds the lock
    Environments    \* sets of FaultKinds

\* otto_error     OTTO or the AI fails a call
\* store_error    Redis or a database fails a call
\* kill           a job is cut off by the job timeout or a dying worker
\* lock_expires   a job holds the lock for longer than its life time
\*                (where redis_url cannot be parsed, _task_state_lock yields without
\*                any lock: the steps are those of a lock that expires at once)
\* declared_stale the creator page asks for the user's latest tasks, this one
\*                included, more than 300 seconds after its last heartbeat
FaultKinds == {"otto_error", "store_error", "kill", "lock_expires", "declared_stale"}

ASSUME AttributeFillAssumption ==
    /\ MaxActive \in Nat \ {0} /\ ChunkSize \in Nat \ {0}
    /\ BatchSize \in Nat \ {0} /\ Concurrency \in Nat \ {0}
    /\ Environments \subseteq SUBSET FaultKinds

VARIABLES
    task,       \* the saved document
    lock,       \* attribute-fill-lock: its token stands for the job that set it
    at,         \* where each job is; the name of the change it is making
    phase,      \* how far it is with that change
    copy,       \* the document it has read
    verdict,    \* the document a poll has declared stale and not yet saved
    total,      \* active products found
    rows,       \* AttributeFillItem.status
    next,       \* the product each chunk job has reached
    result,     \* the status it has found for that product
    pending,    \* pending_submit
    accepted,   \* the products OTTO has taken new attributes for
    faults      \* what can go wrong: one of the Environments, to the end

vars == <<task, lock, at, phase, copy, verdict, total, rows, next, result, pending, accepted, faults>>

-----------------------------------------------------------------------------
Items    == 1 .. MaxActive
Chunks   == 1 .. (MaxActive + ChunkSize - 1) \div ChunkSize
Coordinator == 0
Jobs     == {Coordinator} \cup Chunks

\* The key is absent, or it holds a token: SET NX distinguishes the two.
ASSUME FreeAssumption == Free \notin Jobs

\* _prepare_attribute_fill_tables: chunks are numbered from 1.
ChunkOf(i)   == (i - 1) \div ChunkSize + 1
ItemsOf(c)   == {i \in 1 .. total : ChunkOf(i) = c}
ChunksUsed   == {ChunkOf(i) : i \in 1 .. total}
FirstOf(c)   == (c - 1) * ChunkSize + 1

Results == {"done", "skipped", "failed"}

Ended == {"DONE", "FAILED"}

Doc == [status : {"IN_PROGRESS"} \cup Ended, chunks : Chunks \cup {0},
        completed : Chunks \cup {0}, processed : Items \cup {0},
        failed : 0 .. 2 * MaxActive]

NewTask == [status |-> "IN_PROGRESS", chunks |-> 0, completed |-> 0,
            processed |-> 0, failed |-> 0]

\* Where a job stands between two changes of the document, and the changes.
Places  == {"none", "queued", "fetch", "enqueue", "next_item", "generate",
            "item_row", "submit", "failed_rows", "end"}
Changes == {"fetch_failed", "queued_all", "empty_done", "chunk_started", "ai_start",
            "ai_done", "item_done", "submit_start", "submit_failed", "chunk_done"}

-----------------------------------------------------------------------------
(* The changes: what each mutator does to the document.                    *)

\* A seeded fault: a product counts when it begins and when it ends.
MarkItemDoneTwice(c, d) ==
    [d EXCEPT !.processed = @ + 2,
              !.failed = IF result[c] = "failed" THEN @ + 1 ELSE @]

MarkItemDone(c, d) ==
    [d EXCEPT !.processed = @ + 1,
              !.failed = IF result[c] = "failed" THEN @ + 1 ELSE @]

MarkSubmitFailed(c, d) == [d EXCEPT !.failed = @ + Cardinality(pending[c])]

\* Seeded faults: the last chunk is not waited for; failures do not count;
\* the count would have to exceed the total.
MarkChunkDoneEarly(d) ==
    LET e == [d EXCEPT !.completed = @ + 1] IN
    IF e.chunks > 0 /\ e.completed + 1 >= e.chunks
    THEN [e EXCEPT !.status = IF e.failed = 0 THEN "DONE" ELSE "FAILED"]
    ELSE e
MarkChunkDoneAnyway(d) ==
    LET e == [d EXCEPT !.completed = @ + 1] IN
    IF e.chunks > 0 /\ e.completed >= e.chunks
    THEN [e EXCEPT !.status = "DONE"]
    ELSE e

MarkChunkDoneBeyond(d) ==
    LET e == [d EXCEPT !.completed = @ + 1] IN
    IF e.chunks > 0 /\ e.completed > e.chunks
    THEN [e EXCEPT !.status = IF e.failed = 0 THEN "DONE" ELSE "FAILED"]
    ELSE e

\* chunks_failed is never incremented: the chunks that end are those completed.
MarkChunkDone(d) ==
    LET e == [d EXCEPT !.completed = @ + 1] IN
    IF e.chunks > 0 /\ e.completed >= e.chunks
    THEN [e EXCEPT !.status = IF e.failed = 0 THEN "DONE" ELSE "FAILED"]
    ELSE e

Changed(a, d) ==
    CASE at[a] = "fetch_failed"  -> [d EXCEPT !.status = "FAILED"]
      [] at[a] = "queued_all"    -> [d EXCEPT !.chunks = Cardinality(ChunksUsed), !.completed = 0,
                                            !.processed = 0, !.failed = 0]
      [] at[a] = "empty_done"    -> [d EXCEPT !.status = "DONE"]
      [] at[a] = "item_done"     -> MarkItemDone(a, d)
      [] at[a] = "submit_failed" -> MarkSubmitFailed(a, d)
      [] at[a] = "chunk_done"    -> MarkChunkDone(d)
      [] OTHER                   -> d

-----------------------------------------------------------------------------
(* _mutate_task_state under _task_state_lock.                              *)

Goto(a, place) == /\ at' = [at EXCEPT ![a] = place]
                  /\ phase' = [phase EXCEPT ![a] = "idle"]
Change(a, change) == /\ at' = [at EXCEPT ![a] = change]
                     /\ phase' = [phase EXCEPT ![a] = "acquire"]

\* A seeded fault: the key is set although it exists.
AcquireAnyway(a) ==
    /\ phase[a] = "acquire"
    /\ lock' = a
    /\ phase' = [phase EXCEPT ![a] = "read"]
    /\ UNCHANGED <<task, at, copy, verdict, total, rows, next, result, pending, accepted, faults>>

\* SET key token NX EX: tried again every 0.1 s.
Acquire(a) ==
    /\ phase[a] = "acquire" /\ lock = Free
    /\ lock' = a
    /\ phase' = [phase EXCEPT ![a] = "read"]
    /\ UNCHANGED <<task, at, copy, verdict, total, rows, next, result, pending, accepted, faults>>

ReadTask(a) ==
    /\ phase[a] = "read"
    /\ copy' = [copy EXCEPT ![a] = task]
    /\ phase' = [phase EXCEPT ![a] = "save"]
    /\ UNCHANGED <<task, lock, at, verdict, total, rows, next, result, pending, accepted, faults>>

\* The save, with what the job goes by from then on.
SaveTask(a) ==
    /\ phase[a] = "save"
    /\ task' = Changed(a, copy[a])
    /\ copy' = [copy EXCEPT ![a] = NewTask]
    /\ phase' = [phase EXCEPT ![a] = "check"]
    /\ next' = IF at[a] = "item_done" THEN [next EXCEPT ![a] = @ + 1] ELSE next
    /\ UNCHANGED <<lock, at, verdict, total, rows, result, pending, accepted, faults>>

\* GET key, compare, DELETE key: the token may expire in between.
CheckToken(a) ==
    /\ phase[a] = "check"
    /\ phase' = [phase EXCEPT ![a] = IF lock = a THEN "delete" ELSE "leave"]
    /\ UNCHANGED <<task, lock, at, copy, verdict, total, rows, next, result, pending, accepted, faults>>

DeleteToken(a) ==
    /\ phase[a] = "delete"
    /\ lock' = Free
    /\ phase' = [phase EXCEPT ![a] = "leave"]
    /\ UNCHANGED <<task, at, copy, verdict, total, rows, next, result, pending, accepted, faults>>

-----------------------------------------------------------------------------
(* run_attribute_fill_task, the coordinator.                               *)

InWorker == {a \in Jobs : ~ (phase[a] = "idle" /\ at[a] \in {"none", "queued", "end"})}
SlotFree == Cardinality(InWorker) < Concurrency

Begin ==
    /\ at[Coordinator] = "queued" /\ SlotFree
    /\ task' = NewTask
    /\ Goto(Coordinator, "fetch")
    /\ UNCHANGED <<lock, copy, verdict, total, rows, next, result, pending, accepted, faults>>

\* No other job writes the document while the pages are fetched; the progress
\* saved after each of them is left out.
Fetched ==
    /\ at[Coordinator] = "fetch"
    /\ \E n \in 0 .. MaxActive :
         /\ total' = n
         /\ rows' = [i \in Items |-> IF i <= n THEN "queued" ELSE "none"]
    /\ Change(Coordinator, "queued_all")
    /\ UNCHANGED <<task, lock, copy, verdict, next, result, pending, accepted, faults>>

FetchFails ==
    /\ "otto_error" \in faults
    /\ at[Coordinator] = "fetch"
    /\ Change(Coordinator, "fetch_failed")
    /\ UNCHANGED <<task, lock, copy, verdict, total, rows, next, result, pending, accepted, faults>>

\* The next step of the coordinator after a change.
Coordinated ==
    /\ phase[Coordinator] = "leave"
    /\ CASE at[Coordinator] = "queued_all" /\ total > 0 -> Goto(Coordinator, "enqueue")
         [] at[Coordinator] = "queued_all" /\ total = 0 -> Change(Coordinator, "empty_done")
         [] OTHER -> Goto(Coordinator, "end")
    /\ UNCHANGED <<task, lock, copy, verdict, total, rows, next, result, pending, accepted, faults>>

\* enqueue_jobs: one chunk after the other.
EnqueueChunk(c) ==
    /\ at[Coordinator] = "enqueue"
    /\ c \in ChunksUsed /\ at[c] = "none"
    /\ \A k \in Chunks : k < c => at[k] # "none"
    /\ at' = [at EXCEPT ![c] = "queued",
                        ![Coordinator] = IF c + 1 \in ChunksUsed THEN "enqueue" ELSE "end"]
    /\ UNCHANGED <<task, lock, phase, copy, verdict, total, rows, next, result, pending, accepted, faults>>

-----------------------------------------------------------------------------
(* run_attribute_fill_chunk_task                                           *)

StartChunk(c) ==
    /\ at[c] = "queued" /\ SlotFree
    /\ rows' = [i \in Items |-> IF i \in ItemsOf(c) THEN "running" ELSE rows[i]]
    /\ next' = [next EXCEPT ![c] = FirstOf(c)]
    /\ Change(c, "chunk_started")
    /\ UNCHANGED <<task, lock, copy, verdict, total, result, pending, accepted, faults>>

\* A seeded fault: what is left after the last full batch is not sent.
FlushWhenFull(c) == Cardinality(pending[c]) >= BatchSize

\* flush_pending_submit is due when a batch is full, and after the last item.
FlushDue(c) == \/ Cardinality(pending[c]) >= BatchSize
               \/ pending[c] # {} /\ next[c] \notin ItemsOf(c)

\* Ahead of the AI call: a product without category attributes, or without a
\* missing one, is skipped; one without a SKU fails.
NextItem(c) ==
    /\ at[c] = "next_item"
    /\ \/ /\ FlushDue(c)
          /\ Change(c, "submit_start") /\ UNCHANGED result
       \/ /\ ~FlushDue(c) /\ next[c] \notin ItemsOf(c)
          /\ Change(c, "chunk_done") /\ UNCHANGED result
       \/ /\ ~FlushDue(c) /\ next[c] \in ItemsOf(c)
          /\ \/ Change(c, "ai_start") /\ UNCHANGED result
             \/ \E r \in {"skipped", "failed"} :
                  result' = [result EXCEPT ![c] = r] /\ Goto(c, "item_row")
    /\ UNCHANGED <<task, lock, copy, verdict, total, rows, next, pending, accepted, faults>>

Generated(c) ==
    /\ at[c] = "generate"
    /\ \/ Change(c, "ai_done") /\ UNCHANGED result
       \/ /\ "otto_error" \in faults
          /\ result' = [result EXCEPT ![c] = "failed"] /\ Goto(c, "item_row")
    /\ UNCHANGED <<task, lock, copy, verdict, total, rows, next, pending, accepted, faults>>

\* A product with new attributes waits in pending_submit.
Shaped(c) ==
    /\ at[c] = "ai_done" /\ phase[c] = "leave"
    /\ \/ /\ result' = [result EXCEPT ![c] = "done"]
          /\ pending' = [pending EXCEPT ![c] = @ \cup {next[c]}]
       \/ /\ result' = [result EXCEPT ![c] = "skipped"]
          /\ UNCHANGED pending
    /\ Goto(c, "item_row")
    /\ UNCHANGED <<task, lock, copy, verdict, total, rows, next, accepted, faults>>

SaveItemRow(c) ==
    /\ at[c] = "item_row"
    /\ rows' = [rows EXCEPT ![next[c]] = result[c]]
    /\ Change(c, "item_done")
    /\ UNCHANGED <<task, lock, copy, verdict, total, next, result, pending, accepted, faults>>

\* A call that fails may have reached OTTO.
Submit(c) ==
    /\ at[c] = "submit"
    /\ \/ /\ accepted' = accepted \cup pending[c]
          /\ pending' = [pending EXCEPT ![c] = {}]
          /\ Goto(c, "next_item")
       \/ /\ "otto_error" \in faults
          /\ accepted' \in {accepted, accepted \cup pending[c]}
          /\ Change(c, "submit_failed") /\ UNCHANGED pending
    /\ UNCHANGED <<task, lock, copy, verdict, total, rows, next, result, faults>>

SaveFailedRows(c) ==
    /\ at[c] = "failed_rows"
    /\ rows' = [i \in Items |-> IF i \in pending[c] THEN "failed" ELSE rows[i]]
    /\ pending' = [pending EXCEPT ![c] = {}]
    /\ Goto(c, "next_item")
    /\ UNCHANGED <<task, lock, copy, verdict, total, next, result, accepted, faults>>

Following == [chunk_started |-> "next_item", ai_start |-> "generate",
              item_done |-> "next_item", submit_start |-> "submit",
              submit_failed |-> "failed_rows", chunk_done |-> "end"]

\* The next step of a chunk job after any other change.
Continue(c) ==
    /\ phase[c] = "leave" /\ at[c] \in DOMAIN Following
    /\ Goto(c, Following[at[c]])
    /\ UNCHANGED <<task, lock, copy, verdict, total, rows, next, result, pending, accepted, faults>>

-----------------------------------------------------------------------------
(* Faults.                                                                 *)

\* A job that fails may leave its lock behind: Redis is away, or it is dead.
LeaveLock(a) == /\ lock' \in IF lock = a THEN {lock, Free} ELSE {lock}
                /\ copy' = [copy EXCEPT ![a] = NewTask]

\* What is raised while a product is processed fails the product; anywhere
\* else it ends the job, which is not tried again (max_tries = 1).
StoreFails(a) ==
    /\ "store_error" \in faults
    /\ at[a] \notin {"none", "generate", "submit", "end"}
    /\ at[a] = "queued" => SlotFree
    /\ phase[a] # "leave"
    /\ IF at[a] \in {"ai_start", "ai_done"}
       THEN Goto(a, "item_row") /\ result' = [result EXCEPT ![a] = "failed"]
       ELSE Goto(a, "end") /\ UNCHANGED result
    /\ LeaveLock(a)
    /\ UNCHANGED <<task, verdict, total, rows, next, pending, accepted, faults>>

Kill(a) ==
    /\ "kill" \in faults
    /\ at[a] \notin {"none", "end"}
    /\ Goto(a, "end")
    /\ LeaveLock(a)
    /\ UNCHANGED <<task, verdict, total, rows, next, result, pending, accepted, faults>>

\* A lock that was left behind always expires.
Holds(a) == phase[a] \in {"read", "save", "check", "delete"}
Expires ==
    /\ lock # Free
    /\ ~Holds(lock) \/ "lock_expires" \in faults
    /\ lock' = Free
    /\ UNCHANGED <<task, at, phase, copy, verdict, total, rows, next, result, pending, accepted, faults>>

-----------------------------------------------------------------------------
(* get_latest_factory_prepare_task: the stale marker, without the lock.    *)

DeclareStale ==
    /\ "declared_stale" \in faults
    /\ verdict = NewTask
    /\ task.status = "IN_PROGRESS"
    /\ verdict' = [task EXCEPT !.status = "FAILED"]
    /\ UNCHANGED <<task, lock, at, phase, copy, total, rows, next, result, pending, accepted, faults>>

SaveVerdict ==
    /\ verdict # NewTask
    /\ task' = verdict
    /\ verdict' = NewTask
    /\ UNCHANGED <<lock, at, phase, copy, total, rows, next, result, pending, accepted, faults>>

-----------------------------------------------------------------------------
Init ==
    /\ task = NewTask
    /\ lock = Free
    /\ at = [a \in Jobs |-> IF a = Coordinator THEN "queued" ELSE "none"]
    /\ phase = [a \in Jobs |-> "idle"]
    /\ copy = [a \in Jobs |-> NewTask]
    /\ verdict = NewTask
    /\ total = 0
    /\ rows = [i \in Items |-> "none"]
    /\ next = [c \in Chunks |-> FirstOf(c)]
    /\ result = [c \in Chunks |-> "skipped"]
    /\ pending = [c \in Chunks |-> {}]
    /\ accepted = {}
    /\ faults \in Environments

ChangeStep(a) == Acquire(a) \/ ReadTask(a) \/ SaveTask(a) \/ CheckToken(a) \/ DeleteToken(a)

CoordinatorStep ==
    \/ ChangeStep(Coordinator) \/ Begin \/ Fetched \/ FetchFails \/ Coordinated
    \/ \E c \in Chunks : EnqueueChunk(c)

ChunkStep(c) ==
    \/ ChangeStep(c) \/ StartChunk(c) \/ NextItem(c) \/ Generated(c) \/ Shaped(c)
    \/ SaveItemRow(c) \/ Submit(c) \/ SaveFailedRows(c) \/ Continue(c)

Next ==
    \/ CoordinatorStep
    \/ \E c \in Chunks : ChunkStep(c)
    \/ \E a \in Jobs : StoreFails(a) \/ Kill(a)
    \/ Expires \/ DeclareStale \/ SaveVerdict

Spec == Init /\ [][Next]_vars

\* The event loop runs what is ready, every attempt to take the lock has its
\* chance, and a lock that was left behind expires.
Fairness ==
    /\ WF_vars(CoordinatorStep)
    /\ \A c \in Chunks : WF_vars(ChunkStep(c)) /\ SF_vars(Acquire(c))
    /\ WF_vars(Expires)

FairSpec == Spec /\ Fairness

-----------------------------------------------------------------------------
(* Properties.                                                             *)

TypeOK ==
    /\ task \in Doc
    /\ lock \in Jobs \cup {Free}
    /\ at \in [Jobs -> Places \cup Changes]
    /\ phase \in [Jobs -> {"idle", "acquire", "read", "save", "check", "delete", "leave"}]
    /\ \A a \in Jobs : phase[a] = "idle" <=> at[a] \in Places
    /\ copy \in [Jobs -> Doc]
    /\ verdict \in Doc
    /\ total \in 0 .. MaxActive
    /\ rows \in [Items -> {"none", "queued", "running"} \cup Results]
    /\ next \in [Chunks -> 1 .. MaxActive + 1]
    /\ result \in [Chunks -> Results]
    /\ pending \in [Chunks -> SUBSET Items]
    /\ accepted \subseteq Items
    /\ faults \in Environments

\* While no lock expires under its holder and no poll writes the document, no
\* count is lost: it counts every product the chunk jobs have been through.
NoLostCount ==
    faults \cap {"lock_expires", "declared_stale"} = {} =>
        task.processed = Cardinality({i \in 1 .. total : i < next[ChunkOf(i)]})

\* A row that says what became of its product: new attributes that are "done"
\* are with OTTO, not in a batch that was never sent.
RowIsTrue(i) == rows[i] \in Results /\ (rows[i] = "done" => i \in accepted)

\* A task that has ended, as the user is told, has been through all its
\* products, and its rows are true.
EndedMeansProcessed == task.status \in Ended => \A i \in 1 .. total : RowIsTrue(i)

\* That is so of every task that only its own jobs write, even where locks
\* expire and counts are lost: a count may be lost, never invented.
JobsEndTruly == "declared_stale" \notin faults => EndedMeansProcessed

\* The same of a task that is DONE, even where it was declared stale before.
DoneMeansProcessed ==
    "lock_expires" \notin faults /\ task.status = "DONE"
        => \A i \in 1 .. total : RowIsTrue(i)

\* A task is DONE only if no product has failed, by the AI or by OTTO: where
\* no count is lost, no failure is.
DoneMeansNoneFailed ==
    faults \cap {"lock_expires", "declared_stale"} = {} /\ task.status = "DONE"
        => \A i \in 1 .. total : rows[i] # "failed"

\* The verdict is final: no late save of a job takes it back, unless it was
\* a poll's.
VerdictIsFinal ==
    [][task.status \in Ended /\ "declared_stale" \notin faults => task' = task]_vars

\* If no job is cut off, the stores answer and no poll interferes, every task
\* ends.
FillSettles == faults \subseteq {"otto_error"} => <>(task.status \in Ended)

=============================================================================

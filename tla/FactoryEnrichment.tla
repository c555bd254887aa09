------------------------- MODULE FactoryEnrichment -------------------------
(***************************************************************************)
(* AI enrichment of the products of one factory task: the enrich route,    *)
(* the coordinating job enrich_factory_products_task, the chunk jobs it    *)
(* enqueues, and the readers of the task, who declare it stale when its    *)
(* heartbeat is old (app/api/routes/products.py, app/tasks.py).            *)
(*                                                                         *)
(* The chunk jobs of the one worker update the saved document under an     *)
(* asyncio lock; route, coordinator and readers write it without the lock. *)
(* Every update reads the whole document, changes it and saves it, with    *)
(* other steps between the read and the save.                              *)
(*                                                                         *)
(* An item is the run whose job has generated it, or Raw.  A heartbeat is  *)
(* fresh until more than FACTORY_STUCK_THRESHOLD_SEC pass after it; that   *)
(* may be while a job waits for a slot, for OpenAI or for the database.    *)
(***************************************************************************)
EXTENDS Integers, FiniteSets

CONSTANTS
    Clicks,         \* clicks on "enrich"; a click that is not refused is a run
    Readers,        \* polling clients: the GET routes and the web socket
    Total,          \* len(products)
    KeyCount,       \* len(_factory_ai_api_keys())
    ChunkSize,      \* FACTORY_AI_ENRICH_CHUNK_SIZE
    Concurrency,    \* WorkerSettings.max_jobs
    Raw,            \* an item that no chunk job has been through
    Free,           \* nobody holds the lock
    Environments    \* sets of EventKinds

\* polls         the readers poll, and find the heartbeat old
\* second_click  "enrich" is clicked twice, at once or later
\* chunk_error   an await of a chunk job raises
\* chunk_kill    a chunk job is cut off by the job timeout or a dying worker
\* run_error     an await of the route or of the coordinator raises, or the
\*               coordinator is cut off
EventKinds == {"polls", "second_click", "chunk_error", "chunk_kill", "run_error"}

ASSUME EnrichmentAssumption ==
    /\ Total \in Nat \ {0} /\ KeyCount \in Nat \ {0}
    /\ ChunkSize \in Nat \ {0} /\ Concurrency \in Nat \ {0}
    /\ Raw \notin Clicks
    /\ Environments \subseteq SUBSET EventKinds

VARIABLES
    task,       \* the saved document
    copy,       \* the document a click, a job or a reader has read
    run,        \* where each click and its coordinating job are
    pc,         \* where each chunk job is
    next,       \* the index its loop has reached
    lock,       \* the chunk job inside the enrichment lock
    events      \* what may happen: one of the Environments, to the end

vars == <<task, copy, run, pc, next, lock, events>>

-----------------------------------------------------------------------------
(* Chunks.                                                                 *)

Larger(m, n)  == IF m >= n THEN m ELSE n
Smaller(m, n) == IF m <= n THEN m ELSE n

\* _factory_ai_enrichment_chunks: at least one chunk per key while there are
\* products, cut by integer division.
ChunkCount ==
    Larger((Total + ChunkSize - 1) \div ChunkSize, Smaller(Total, KeyCount))
StartIndex(c) == (c * Total) \div ChunkCount
\* A seeded fault: the slice ends one product late.
EndIndexPastEnd(c) == ((c + 1) * Total) \div ChunkCount + 1
EndIndex(c)   == ((c + 1) * Total) \div ChunkCount
ChunkIds == {c \in 0 .. ChunkCount - 1 : StartIndex(c) < EndIndex(c)}

Index == 0 .. Total - 1
Jobs  == Clicks \X ChunkIds

ASSUME FreeAssumption == Free \notin Jobs

\* A click, a chunk job and a polling client are different actors.
ASSUME ActorsAssumption ==
    /\ Clicks \cap Readers = {}
    /\ Clicks \cap Jobs = {} /\ Readers \cap Jobs = {}

\* int(chunk.get("chunkId") or -1) == chunk_id: "or" takes 0 for missing.
Matches(row, c) == (IF row = 0 THEN -1 ELSE row) = c

-----------------------------------------------------------------------------
(* The document.                                                           *)

ChunkStatuses == {"none", "queued", "running", "done", "failed"}
Terminal      == {"done", "failed"}

Steps == {"prepared", "ai_enrichment_queued", "ai_enrichment_chunks_queued",
          "ai_enrichment_in_progress", "ai_enrichment_done",
          "ai_enrichment_failed"}

Doc == [status : {"IN_PROGRESS", "DONE", "FAILED"}, step : Steps,
        stuck : BOOLEAN, fresh : BOOLEAN,
        items : [Index -> Clicks \cup {Raw}], partial : SUBSET Index,
        completed : 0 .. Total, chunks : [ChunkIds -> ChunkStatuses]]

RawItems == [i \in Index |-> Raw]

Prepared == [status |-> "DONE", step |-> "prepared", stuck |-> FALSE,
             fresh |-> TRUE, items |-> RawItems, partial |-> {},
             completed |-> 0, chunks |-> [c \in ChunkIds |-> "none"]]

\* The enrich route and the coordinator start over.
Reset(d, step) ==
    [d EXCEPT !.status = "IN_PROGRESS", !.step = step, !.stuck = FALSE,
              !.fresh = TRUE, !.items = RawItems, !.partial = {},
              !.completed = 0]

WithChunk(d, c, status) ==
    [d EXCEPT !.chunks = [k \in ChunkIds |-> IF Matches(k, c) THEN status ELSE @[k]]]

Running(d) == [d EXCEPT !.status = "IN_PROGRESS",
                        !.step = "ai_enrichment_in_progress", !.fresh = TRUE]

\* _save_factory_enrichment_item_progress
WithItem(d, r, c, i) ==
    LET partial == d.partial \cup {i} IN
    WithChunk(Running([d EXCEPT !.items[i] = r, !.partial = partial,
                                !.completed = Smaller(Total, Cardinality(partial))]),
              c, "running")

\* _mark_factory_enrichment_chunk_terminal
AllTerminal(d) == \A k \in ChunkIds : d.chunks[k] \in Terminal

Concluded(d) ==
    IF (\E k \in ChunkIds : d.chunks[k] = "failed") \/ d.completed < Total
    THEN [d EXCEPT !.status = "FAILED", !.step = "ai_enrichment_failed"]
    ELSE [d EXCEPT !.status = "DONE", !.step = "ai_enrichment_done",
                   !.partial = {}, !.completed = Total]

Marked(d, c, status) ==
    LET e == [WithChunk(d, c, status) EXCEPT !.fresh = TRUE]
    IN  IF AllTerminal(e) THEN Concluded(e) ELSE e

-----------------------------------------------------------------------------
(* Saving, and the lock.                                                   *)

Read(who)    == copy' = [copy EXCEPT ![who] = task]
Save(who, d) == /\ task' = d
                /\ copy' = [copy EXCEPT ![who] = Prepared]

At(j, label)  == pc' = [pc EXCEPT ![j] = label]
RunAt(r, label) == run' = [run EXCEPT ![r] = label]

InWorker == {j \in Jobs : pc[j] \notin {"none", "queued", "end"}}
            \cup {r \in Clicks : run[r] \in {"save_chunks", "enqueue_chunks"}}
SlotFree == Cardinality(InWorker) < Concurrency

-----------------------------------------------------------------------------
(* The enrich route.                                                       *)

EnrichmentSteps == {"ai_enrichment_queued", "ai_enrichment_chunks_queued",
                    "ai_enrichment_in_progress"}

Click(r) ==
    /\ run[r] = "idle"
    /\ "second_click" \in events \/ \A q \in Clicks : run[q] = "idle"
    /\ IF task.status = "IN_PROGRESS" /\ task.step \in EnrichmentSteps
       THEN RunAt(r, "end") /\ UNCHANGED copy
       ELSE RunAt(r, "save_queued") /\ Read(r)
    /\ UNCHANGED <<task, pc, next, lock, events>>

\* Then the route enqueues the coordinator; a run that never gets there is one
\* that stops while it is queued (RunStops).
SaveQueued(r) ==
    /\ run[r] = "save_queued"
    /\ Save(r, Reset(copy[r], "ai_enrichment_queued"))
    /\ RunAt(r, "queued")
    /\ UNCHANGED <<pc, next, lock, events>>

-----------------------------------------------------------------------------
(* _run_factory_enrichment_task, the coordinator.                          *)

Begin(r) ==
    /\ run[r] = "queued" /\ SlotFree
    /\ Read(r)
    /\ RunAt(r, "save_chunks")
    /\ UNCHANGED <<task, pc, next, lock, events>>

SaveChunks(r) ==
    /\ run[r] = "save_chunks"
    /\ Save(r, [Reset(copy[r], "ai_enrichment_chunks_queued")
                  EXCEPT !.chunks = [c \in ChunkIds |-> "queued"]])
    /\ RunAt(r, "enqueue_chunks")
    /\ UNCHANGED <<pc, next, lock, events>>

\* enqueue_jobs: one chunk after the other.
EnqueueChunk(r) ==
    /\ run[r] = "enqueue_chunks"
    /\ \E c \in ChunkIds :
         /\ pc[<<r, c>>] = "none"
         /\ \A k \in ChunkIds : k < c => pc[<<r, k>>] # "none"
         /\ At(<<r, c>>, "queued")
         /\ RunAt(r, IF \E k \in ChunkIds : k > c THEN "enqueue_chunks" ELSE "end")
    /\ UNCHANGED <<task, copy, next, lock, events>>

-----------------------------------------------------------------------------
(* _run_factory_enrichment_chunk_task                                      *)

StartJob(j) ==
    /\ pc[j] = "queued" /\ SlotFree
    /\ At(j, "want_start")
    /\ UNCHANGED <<task, copy, run, next, lock, events>>

Inside(label) == CASE label = "want_start" -> "start"
                   [] label = "want_item"  -> "item"
                   [] label = "want_done"  -> "done"
                   [] label = "want_failed" -> "failed"
Waiting == {"want_start", "want_item", "want_done", "want_failed"}

\* A seeded fault: the lock is not waited for.
EnterUnlocked(j) ==
    /\ pc[j] \in Waiting
    /\ lock' = j
    /\ Read(j)
    /\ At(j, Inside(pc[j]))
    /\ UNCHANGED <<task, run, next, events>>

\* The three places that take the lock and read the document under it.
Enter(j) ==
    /\ pc[j] \in Waiting /\ lock = Free
    /\ lock' = j
    /\ Read(j)
    /\ At(j, Inside(pc[j]))
    /\ UNCHANGED <<task, run, next, events>>

SaveStart(j) ==
    /\ pc[j] = "start"
    /\ Save(j, Running(WithChunk(copy[j], j[2], "running")))
    /\ next' = [next EXCEPT ![j] = StartIndex(j[2])]
    /\ lock' = Free
    /\ At(j, "loop")
    /\ UNCHANGED <<run, events>>

\* An item that is in partial_products_by_index already is skipped.  One whose
\* generation fails is saved as it was, with a message.
NextItem(j) ==
    /\ pc[j] = "loop"
    /\ IF next[j] >= EndIndex(j[2])
       THEN At(j, "want_done") /\ UNCHANGED next
       ELSE IF next[j] \in task.partial
       THEN next' = [next EXCEPT ![j] = @ + 1] /\ UNCHANGED pc
       ELSE At(j, "want_item") /\ UNCHANGED next
    /\ UNCHANGED <<task, copy, run, lock, events>>

SaveItem(j) ==
    /\ pc[j] = "item"
    /\ Save(j, WithItem(copy[j], j[1], j[2], next[j]))
    /\ next' = [next EXCEPT ![j] = @ + 1]
    /\ lock' = Free
    /\ At(j, "loop")
    /\ UNCHANGED <<run, events>>

\* Where all chunks are terminal, the lock is also dropped from the table, so
\* that later jobs make one of their own: here, the same lock, free again.
SaveEnd(j) ==
    /\ pc[j] \in {"done", "failed"}
    /\ Save(j, Marked(copy[j], j[2], pc[j]))
    /\ lock' = Free
    /\ At(j, "end")
    /\ UNCHANGED <<run, next, events>>

-----------------------------------------------------------------------------
(* _mark_factory_task_stale_if_needed, called by every poll.               *)

\* Seeded faults: the chunk steps count as queued too; the first completed
\* product is enough.
QueuedStepsAll == EnrichmentSteps
HasCompletedAny(d) == d.completed > 0

QueuedSteps == {"ai_enrichment_queued"}
HasCompleted(d) == d.completed >= Total

Recovered(d) == [d EXCEPT !.status = "DONE", !.step = "ai_enrichment_done",
                          !.fresh = TRUE, !.stuck = FALSE]
Stale(d) == /\ d.status = "IN_PROGRESS"
            /\ d.step \notin QueuedSteps
            /\ ~d.fresh

Verdict(d) ==
    IF HasCompleted(d)
    THEN Recovered(d)
    ELSE [d EXCEPT !.status = "FAILED", !.stuck = TRUE]

\* The poll decides on the document it has read, and saves if it changes it.
Poll(o) ==
    /\ "polls" \in events
    /\ copy[o] = Prepared
    /\ \/ Stale(task)
       \/ task.status = "FAILED" /\ task.stuck /\ HasCompleted(task)
    /\ copy' = [copy EXCEPT ![o] = Verdict(task)]
    /\ UNCHANGED <<task, run, pc, next, lock, events>>

SaveVerdict(o) ==
    /\ copy[o] # Prepared
    /\ Save(o, copy[o])
    /\ UNCHANGED <<run, pc, next, lock, events>>

\* More than 300 seconds pass without a heartbeat.
Ages ==
    /\ task.fresh /\ task.status = "IN_PROGRESS"
    /\ task' = [task EXCEPT !.fresh = FALSE]
    /\ UNCHANGED <<copy, run, pc, next, lock, events>>

-----------------------------------------------------------------------------
(* Faults.                                                                 *)

Leave(j) == /\ lock' = IF lock = j THEN Free ELSE lock
            /\ copy' = [copy EXCEPT ![j] = Prepared]

\* Inside the try block the handler marks the chunk failed; before it, where
\* the contexts of the categories are loaded, and in the handler itself,
\* nothing does.
Raises(j) ==
    /\ "chunk_error" \in events
    /\ \/ pc[j] \in {"loop", "want_item", "item", "done"} /\ At(j, "want_failed")
       \/ pc[j] \in {"start", "failed"} /\ At(j, "end")
       \/ pc[j] = "loop" /\ next[j] = StartIndex(j[2]) /\ At(j, "end")
    /\ Leave(j)
    /\ UNCHANGED <<task, run, next, events>>

\* max_tries = 1: the job is not run again.
Kill(j) ==
    /\ "chunk_kill" \in events
    /\ pc[j] \notin {"none", "end"}
    /\ Leave(j)
    /\ At(j, "end")
    /\ UNCHANGED <<task, run, next, events>>

RunStops(r) ==
    /\ "run_error" \in events
    /\ run[r] \notin {"idle", "end"}
    /\ RunAt(r, "end")
    /\ copy' = [copy EXCEPT ![r] = Prepared]
    /\ UNCHANGED <<task, pc, next, lock, events>>

-----------------------------------------------------------------------------
Init ==
    /\ task = Prepared
    /\ copy = [w \in Clicks \cup Jobs \cup Readers |-> Prepared]
    /\ run = [r \in Clicks |-> "idle"]
    /\ pc = [j \in Jobs |-> "none"]
    /\ next = [j \in Jobs |-> 0]
    /\ lock = Free
    /\ events \in Environments

RunStep(r) == SaveQueued(r) \/ Begin(r) \/ SaveChunks(r) \/ EnqueueChunk(r)
JobStep(j) == \/ StartJob(j) \/ Enter(j) \/ SaveStart(j) \/ NextItem(j)
              \/ SaveItem(j) \/ SaveEnd(j)
ReaderStep(o) == Poll(o) \/ SaveVerdict(o)

Next ==
    \/ \E r \in Clicks : Click(r) \/ RunStep(r) \/ RunStops(r)
    \/ \E j \in Jobs : JobStep(j) \/ Raises(j) \/ Kill(j)
    \/ \E o \in Readers : ReaderStep(o)
    \/ Ages

Spec == Init /\ [][Next]_vars

\* The event loops run what is ready.  While the creator page is open its web
\* socket polls every second, and time passes.
Fairness ==
    /\ \A r \in Clicks : WF_vars(RunStep(r))
    /\ \A j \in Jobs : WF_vars(JobStep(j))
    /\ \A o \in Readers : WF_vars(ReaderStep(o))
    /\ WF_vars(Ages)

FairSpec == Spec /\ Fairness

-----------------------------------------------------------------------------
(* Properties.                                                             *)

TypeOK ==
    /\ task \in Doc
    /\ copy \in [Clicks \cup Jobs \cup Readers -> Doc]
    /\ run \in [Clicks -> {"idle", "save_queued", "queued", "save_chunks",
                           "enqueue_chunks", "end"}]
    /\ pc \in [Jobs -> {"none", "queued", "loop", "end"} \cup Waiting
                       \cup {"start", "item", "done", "failed"}]
    /\ next \in [Jobs -> 0 .. Total]
    /\ lock \in Jobs \cup {Free}
    /\ events \in Environments

\* What a chunk job has generated and saved stays in the document while the
\* jobs of the other chunks save theirs: what the enrichment lock is for.  A
\* poll and a second run save without the lock.
NoLostItem ==
    events \cap {"polls", "second_click"} = {} => \A j \in Jobs : \A i \in Index :
        StartIndex(j[2]) <= i /\ i < next[j] => task.items[i] # Raw

\* A task that is "ai_enrichment_done" has no product left that no chunk job
\* has been through, whatever polls, failing jobs and a second run did.
DoneIsEnriched ==
    task.status = "DONE" /\ task.step = "ai_enrichment_done"
        => \A i \in Index : task.items[i] # Raw

\* Once clicks, jobs and polls have done what they will do, the task is no
\* longer in progress: what the polls are for, where a job of the one run is
\* cut off.
EnrichmentSettles ==
    "polls" \in events /\ events \cap {"second_click", "run_error"} = {}
        => <>[](task.status # "IN_PROGRESS")

\* A chunk whose job went through to its end has a terminal row: the rows are
\* what _mark_factory_enrichment_chunk_terminal concludes the task from.
EndedChunksAreTerminal ==
    \A j \in Jobs : pc[j] = "end" => task.chunks[j[2]] \in Terminal

=============================================================================

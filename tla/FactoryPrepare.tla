--------------------------- MODULE FactoryPrepare ---------------------------
(***************************************************************************)
(* Preparation of products for a factory task: the job with its heartbeat, *)
(* the page that polls the task, and the user who works on the draft or    *)
(* deletes the task meanwhile (app/api/routes/products.py).                *)
(*                                                                         *)
(* Job, page and user get the document, change their copy and save it; the *)
(* heartbeat saves the copy in the memory of the worker.  Only the steps   *)
(* of the job exclude each other (progress_lock).                          *)
(***************************************************************************)
EXTENDS FactoryTaskStore, Integers, Sequences

CONSTANT Total      \* the products of the factory

\* heartbeat    the heartbeat interval may end at any moment of the job
\* polls        the page is open
\* edits        the user edits the draft, and the page saves it
\* deletes      the user deletes the task
\* raises       the database raises, or another await of the job
\* kill         the job is cut off, or the worker dies
EventKinds == StoreEvents \cup {"heartbeat", "polls", "edits", "deletes", "raises", "kill"}

ASSUME PrepareAssumption ==
    /\ Total \in Nat \ {0}
    /\ Callers = {"job", "heartbeat", "page", "user"}
    /\ InWorker = {"job", "heartbeat"}
    /\ Environments \subseteq SUBSET EventKinds

VARIABLES
    heart,      \* no exception has ended the heartbeat loop
    old,        \* more than FACTORY_STUCK_THRESHOLD_SEC have passed since the
                \* last heartbeat
    place,      \* the change of the document the job comes to next
    finished,   \* history: prepare_done has been logged
    alone,      \* history: no other call was in flight when the job began its
                \* last save, and none that may save has begun during it
    deletion    \* history: whether other calls have met the deletion

vars == <<storeVars, heart, old, place, finished, alone, deletion>>
jobVars == <<heart, old, place, finished, alone, deletion>>

-----------------------------------------------------------------------------
(* The document.                                                           *)

Doc == [status : {"none", "IN_PROGRESS", "DONE", "FAILED"},
        step : {"none", "prepare_queued", "prepare_initializing",
                "building_category_preview", "saving_snapshot", "category_preview_done"},
        items : 0 .. Total]

ASSUME DocumentsAssumption == Doc \subseteq Documents

\* "or {}": a job that finds no document begins a new one.
Blank  == [status |-> "none", step |-> "none", items |-> 0]
Queued == [status |-> "IN_PROGRESS", step |-> "prepare_queued", items |-> 0]

\* The changes of the job, one after the other, each with a get of its own.  Every product
\* that is mapped is appended and then counted, and appended once more after the mapping.
Changes == <<"initialize", "set_building", "set_total">>
           \o [i \in 1 .. 2 * Total |-> IF i % 2 = 1 THEN "append_item" ELSE "count_item"]
           \o [i \in 1 .. Total |-> "append_again"]
           \o <<"set_progress", "set_snapshot">>

Last      == Len(Changes) + 1
Failing   == Last + 1
Stopped   == Last + 2

\* The heartbeat loop begins after the first save and ends with the job.
FirstSave == place = 2 /\ call["job"].at \in SaveLabels
Running   == heart /\ place \in 2 .. Failing /\ ~FirstSave

\* The rounds of one product: what raises in them is noted, and the job goes on.
Appends == {"append_item", "append_again"}
Round   == IF call["job"].at \in SaveLabels THEN place - 1 ELSE place
InRound(changes) == Round \in DOMAIN Changes /\ Changes[Round] \in changes

Changed(change, d) ==
    CASE change = "initialize"   -> [d EXCEPT !.status = "IN_PROGRESS",
                                              !.step = "prepare_initializing"]
      [] change = "set_building" -> [d EXCEPT !.step = "building_category_preview"]
      [] change = "set_total"    -> [d EXCEPT !.items = 0]
      [] change \in Appends      -> [d EXCEPT !.items = IF @ < Total THEN @ + 1 ELSE @]
      [] change = "set_snapshot" -> [d EXCEPT !.step = "saving_snapshot"]
      [] OTHER                   -> d

PreparedDoc == [status |-> "DONE", step |-> "category_preview_done", items |-> Total]
\* A seeded fault: the handler of the exception leaves the products out.
FailedDocShort == [status |-> "FAILED", step |-> "none"]

FailedDoc   == [status |-> "FAILED", step |-> "none", items |-> 0]

-----------------------------------------------------------------------------
(* _run_factory_prepare_task                                               *)

NextChange ==
    /\ call["job"].at = "idle" /\ place < Last
    /\ StartGet("job")
    /\ UNCHANGED jobVars

SaveChange ==
    /\ Returned("job")
    /\ LET d == IF Result("job") = Absent THEN Blank ELSE Result("job")
       IN  StartSave("job", Changed(Changes[place], d))
    /\ place' = place + 1
    /\ UNCHANGED <<heart, old, finished, alone, deletion>>

Quiet(callers) == \A w \in callers : call[w].at = "idle"

\* The last save writes a new document, whatever the stores hold.
SaveDone ==
    /\ call["job"].at = "idle" /\ place = Last /\ ~finished
    /\ StartSave("job", PreparedDoc)
    /\ finished' = TRUE
    /\ alone' = Quiet(Callers \ {"job"})
    /\ UNCHANGED <<heart, old, place, deletion>>

\* The finally block: no further heartbeat after this.
Stop ==
    /\ call["job"].at = "idle"
    /\ (place = Last /\ finished) \/ place = Failing
    /\ place' = Stopped
    /\ UNCHANGED <<storeVars, heart, old, finished, alone, deletion>>

\* _build_and_publish_normalized_one, _map_one: the product cannot be mapped, or the
\* database raises in a get or a save of its round, which is left.
ItemRaises ==
    /\ "raises" \in events
    /\ InRound(Appends) /\ ~finished
    /\ AtTable("job") \/ call["job"].at = "idle"
    /\ place' = IF call["job"].at = "commit" THEN place ELSE place + 1
    /\ Over("job")
    /\ UNCHANGED <<stores, events, heart, old, finished, alone, deletion>>

\* What raises inside the try block: the database in a get or a save, an await
\* between the changes, or the time limit of the mapping.  The handler saves a
\* new document too.
JobRaises ==
    /\ "raises" \in events
    /\ place \in 2 .. Last /\ ~ FirstSave /\ ~InRound({"append_again"})
    /\ AtTable("job") \/ (call["job"].at = "idle" /\ ~finished)
    /\ StartSave("job", FailedDoc)
    /\ place' = Failing
    /\ finished' = FALSE
    /\ UNCHANGED <<heart, old, alone, deletion>>

\* CancelledError passes the handler; a worker that dies takes its memory and
\* its heartbeat with it.  The job is not run again.  What raises before the try
\* block or in the handler ends the job in the same way.
KillJob ==
    /\ "kill" \in events
    /\ place # Stopped
    /\ place' = Stopped
    /\ \/ Over("job") /\ UNCHANGED memory
       \/ /\ call' = [w \in Callers |-> IF w \in InWorker THEN Idle ELSE call[w]]
          /\ memory' = [memory EXCEPT !["worker"] = Absent]
    /\ finished' = (finished /\ call["job"].at = "idle")
    /\ UNCHANGED <<db, mongo, redis, events, heart, old, alone, deletion>>

\* _heartbeat_loop
Beat ==
    /\ "heartbeat" \in events
    /\ call["heartbeat"].at = "idle" /\ Running
    /\ memory["worker"] # Absent
    /\ StartSave("heartbeat", memory["worker"])
    /\ UNCHANGED jobVars

\* An exception ends the loop for good, or the request.
Raises(w) ==
    /\ "raises" \in events
    /\ AtTable(w)
    /\ Over(w)
    /\ heart' = (heart /\ w # "heartbeat")
    /\ deletion' = IF call[w].at = "delete_row" THEN "disturbed" ELSE deletion
    /\ UNCHANGED <<stores, events, old, place, finished, alone>>

-----------------------------------------------------------------------------
(* The page and the user.                                                  *)

\* A seeded fault: the first step of the job counts as queued too.
QueuedStepsMore == {"prepare_queued", "prepare_initializing"}

QueuedSteps == {"prepare_queued"}

\* A copy that a failing store has kept may be older than the last heartbeat.
Stale(d) ==
    /\ d # Absent
    /\ d.status = "IN_PROGRESS" /\ d.step \notin QueuedSteps
    /\ old \/ "store_error" \in events

\* No call is in flight for as long as that.
Ages ==
    /\ place = Stopped \/ ~heart
    /\ ~old /\ Quiet(Callers)
    /\ old' = TRUE
    /\ UNCHANGED <<storeVars, heart, place, finished, alone, deletion>>

\* One round of the web socket, or a GET of the task.
Poll ==
    /\ "polls" \in events
    /\ call["page"].at = "idle"
    /\ StartGet("page")
    /\ alone' = (alone /\ (call["job"].at = "idle" \/ ~old))
    /\ deletion' = IF deletion = "alone" /\ call["user"].at \in DeleteLabels
                   THEN "disturbed" ELSE deletion
    /\ UNCHANGED <<heart, old, place, finished>>

\* _mark_factory_task_stale_if_needed
Polled ==
    /\ Returned("page")
    /\ LET d == Result("page")
       IN  IF Stale(d) THEN StartSave("page", [d EXCEPT !.status = "FAILED"])
                       ELSE Return("page")
    /\ UNCHANGED jobVars

\* The routes of the user begin with a get, and answer "Task not found" if
\* there is none.
UserCalls ==
    /\ events \cap {"edits", "deletes"} # {}
    /\ call["user"].at = "idle"
    /\ StartGet("user")
    /\ alone' = (alone /\ call["job"].at = "idle")
    /\ UNCHANGED <<heart, old, place, finished, deletion>>

NotFound == Result("user") = Absent /\ Return("user") /\ UNCHANGED jobVars

\* save_factory_prepare_task_draft.  The edits (products, step, the page's own
\* draft) are left out: a document stands for itself with any edits.
SaveDraft ==
    /\ "edits" \in events
    /\ Returned("user") /\ Result("user") # Absent
    /\ StartSave("user", Result("user"))
    /\ UNCHANGED jobVars

\* One task, after a get, or all whose rows are there.
Delete ==
    /\ "deletes" \in events /\ deletion = "none"
    /\ \/ Returned("user") /\ Result("user") # Absent
       \/ call["user"].at = "idle" /\ db # Absent
    /\ StartDelete("user")
    /\ deletion' = IF place = Stopped /\ Quiet(Callers \ {"user"})
                   THEN "alone" ELSE "disturbed"
    /\ UNCHANGED <<heart, old, place, finished, alone>>

-----------------------------------------------------------------------------
Init ==
    /\ StoreInit(Queued)
    /\ heart = TRUE
    /\ old = FALSE
    /\ place = 1
    /\ finished = FALSE
    /\ alone = FALSE
    /\ deletion = "none"

Continue(w) == StoreStep(w) /\ UNCHANGED jobVars

JobStep  == NextChange \/ SaveChange \/ SaveDone \/ Stop \/ Continue("job")
PageStep == Poll \/ Polled \/ Continue("page")
UserStep == UserCalls \/ NotFound \/ SaveDraft \/ Delete \/ Continue("user")

Next ==
    \/ JobStep \/ ItemRaises \/ JobRaises \/ KillJob
    \/ Beat \/ Continue("heartbeat")
    \/ \E w \in Callers \ {"job"} : Raises(w)
    \/ PageStep \/ UserStep \/ Ages

Spec == Init /\ [][Next]_vars

\* The event loops run what is ready, ARQ starts the queued job, and somebody
\* looks at the task again and again; time passes between the calls, and the
\* database does not raise at every save of a poll.
Fairness ==
    /\ WF_vars(JobStep) /\ WF_vars(PageStep)
    /\ WF_vars(Continue("heartbeat")) /\ WF_vars(Continue("user"))
    /\ SF_vars(Ages) /\ SF_vars(CommitSave("page") /\ UNCHANGED jobVars)

FairSpec == Spec /\ Fairness

-----------------------------------------------------------------------------
(* Properties.                                                             *)

TypeOK ==
    /\ StoreTypeOK
    /\ heart \in BOOLEAN /\ old \in BOOLEAN /\ place \in 1 .. Stopped
    /\ finished \in BOOLEAN /\ alone \in BOOLEAN
    /\ deletion \in {"none", "alone", "disturbed"}

\* "PIPELINE event=prepare_done ... current_step=category_preview_done": a task
\* whose preparation has ended well is read as prepared.
PreparedIsKept ==
    finished /\ place = Stopped /\ Quiet(Callers) => Readable = PreparedDoc

\* The only thing that can take a prepared task back is a call that overlaps the
\* last save: a heartbeat that begins during it finds the new document in the
\* memory of the worker, and whatever begins later finds it in the stores.  The
\* row has it even where the other stores fail, until somebody saves what they
\* answer.
PreparedUnlessOverlapped ==
    alone /\ "deletes" \notin events =>
        /\ "store_error" \notin events => PreparedIsKept
        /\ events \cap {"polls", "edits"} = {}
             => (finished /\ place = Stopped /\ Quiet(Callers) => db = PreparedDoc)

\* A deletion that no other call meets is final: no store and no memory that
\* the routes fall back on brings the task back.
DeletedIsGone ==
    deletion = "alone" /\ call["user"].at \notin DeleteLabels
      /\ "store_error" \notin events => Readable = Absent

\* Whatever was lost or cut off, the page sees the task end, unless the job
\* never got to its first save: a queued task is exempt from the stale marker.
PrepareSettles ==
    "polls" \in events /\ events \cap {"store_error", "edits", "deletes"} = {}
        => <>[](Readable = Absent \/ Readable.status # "IN_PROGRESS"
                  \/ Readable.step \in {"prepare_queued"})

=============================================================================

----------------------------- MODULE TaskRoutes -----------------------------
(***************************************************************************)
(* The routes that begin a long job (app/api/routes/products.py): each      *)
(* looks for a task that is under way, saves a document that says "queued", *)
(* and then puts the job into the ARQ queue.  Two clicks may look at the    *)
(* same time, the queue may refuse the job, and a job nobody starts for two *)
(* weeks expires.  The stale marker, which the task pages apply, gives up   *)
(* what has had no heartbeat for 300 seconds, except what says "queued".    *)
(*                                                                         *)
(* A task without an owner goes to the first user who asks for it           *)
(* (_get_owned_factory_task_state).                                        *)
(***************************************************************************)
EXTENDS Scenes, Integers, Sequences, SequencesExt, FiniteSets

CONSTANTS
    RouteClicks,    \* clicks on the button of the route
    Enriched,       \* the task whose products are enriched
    Users           \* users who ask for a task without an owner

ASSUME UsersAssumption == 0 \notin Users

VARIABLES
    routeTask,      \* per task: "none", "queued", "running", "ended"
    clickAt,        \* per click: where its request is
    jobQueue,       \* jobs in Redis, by task
    working,        \* tasks whose job is at work
    overlap,        \* history: pairs of clicks one of which looked when the other was to save
    givenUp,        \* history: tasks given up while their job was in the queue
    ownedBy,        \* the owner of the task without owner, or Nobody
    asking,         \* per user: "idle", "asked", "claims", "got", "refused"
    crossed         \* history: pairs of users who had both asked when neither had claimed

clickVars == <<routeTask, clickAt, jobQueue, working, overlap, givenUp>>
ownerVars == <<ownedBy, asking, crossed>>
routeVars == <<clickVars, ownerVars>>

Nobody == 0
Enriching == Plays("enrich_route")
AllTasks == RouteClicks \cup {Enriched}

\* A fill is a new task with each click; what is enriched is the prepared one.
TaskOf(c) == IF Enriching THEN Enriched ELSE c

\* A seeded fault: a task that is running does not keep a second one back.
UnderWayQueued == \E t \in AllTasks : routeTask[t] = "queued"

\* create_attribute_fill_task: a fill of the user that is IN_PROGRESS, at whatever
\* step.  enrich_factory_prepared_products: the three steps of the enrichment.
UnderWay == \E t \in AllTasks : routeTask[t] \in {"queued", "running"}

-----------------------------------------------------------------------------
Look(c) ==
    /\ clickAt[c] \in {"idle", "failed"}
    /\ clickAt' = [clickAt EXCEPT ![c] = IF UnderWay THEN "answered" ELSE "save"]
    /\ overlap' = overlap \cup {{c, d} : d \in {d \in RouteClicks \ {c} : clickAt[d] = "save" /\ ~UnderWay}}
    /\ UNCHANGED <<scene, routeTask, jobQueue, working, givenUp, ownerVars>>

SaveQueuedTask(c) ==
    /\ clickAt[c] = "save"
    /\ routeTask' = [routeTask EXCEPT ![TaskOf(c)] = "queued"]
    /\ clickAt' = [clickAt EXCEPT ![c] = "enqueue"]
    /\ UNCHANGED <<scene, jobQueue, working, overlap, givenUp, ownerVars>>

\* A seeded fault: the job is given a process id of its own.
JobOfClick(c) == c

JobOf(c) == TaskOf(c)

Enqueue(c) ==
    /\ clickAt[c] = "enqueue"
    /\ jobQueue' = Append(jobQueue, JobOf(c))
    /\ clickAt' = [clickAt EXCEPT ![c] = "answered"]
    /\ UNCHANGED <<scene, routeTask, working, overlap, givenUp, ownerVars>>

\* The route has no handler: the document stays as it is.
EnqueueRaises(c) ==
    /\ May("enqueue_raises") /\ clickAt[c] = "enqueue"
    /\ clickAt' = [clickAt EXCEPT ![c] = "failed"]
    /\ UNCHANGED <<scene, routeTask, jobQueue, working, overlap, givenUp, ownerVars>>

\* The worker: arq_job_expires_seconds is two weeks.
JobExpires ==
    /\ May("expires") /\ jobQueue # <<>>
    /\ jobQueue' = Tail(jobQueue)
    /\ UNCHANGED <<scene, routeTask, clickAt, working, overlap, givenUp, ownerVars>>

WorkerStarts ==
    /\ jobQueue # <<>>
    /\ jobQueue' = Tail(jobQueue)
    /\ working' = working \cup {Head(jobQueue)}
    /\ routeTask' = [routeTask EXCEPT ![Head(jobQueue)] = "running"]
    /\ UNCHANGED <<scene, clickAt, overlap, givenUp, ownerVars>>

WorkerEnds(t) ==
    /\ t \in working
    /\ working' = working \ {t}
    /\ routeTask' = [routeTask EXCEPT ![t] = "ended"]
    /\ UNCHANGED <<scene, clickAt, jobQueue, overlap, givenUp, ownerVars>>

WorkerIsKilled(t) ==
    /\ May("kill") /\ t \in working
    /\ working' = working \ {t}
    /\ UNCHANGED <<scene, routeTask, clickAt, jobQueue, overlap, givenUp, ownerVars>>

\* A seeded fault: every step that is called queued is exempt.
ExemptAllQueued == {"ai_enrichment_queued", "attribute_fill_queued"}

\* FACTORY_QUEUED_STEPS, of which a fill's "attribute_fill_queued" is none.
ExemptSteps == {"ai_enrichment_queued"}

StepOf(t) == IF Enriching THEN "ai_enrichment_queued" ELSE "attribute_fill_queued"

\* Somebody looks at the task more than 300 seconds after its last heartbeat.  Jobs
\* that are at work have one; a job may wait behind others for so long.
GiveUp(t) ==
    /\ t \notin working /\ (t \in Range(jobQueue) => May("waits"))
    /\ \A c \in RouteClicks : clickAt[c] # "enqueue"
    /\ \/ routeTask[t] = "running"
       \/ routeTask[t] = "queued" /\ StepOf(t) \notin ExemptSteps
    /\ routeTask' = [routeTask EXCEPT ![t] = "ended"]
    /\ givenUp' = IF t \in Range(jobQueue) THEN givenUp \cup {t} ELSE givenUp
    /\ UNCHANGED <<scene, clickAt, jobQueue, working, overlap, ownerVars>>

-----------------------------------------------------------------------------
(* _get_owned_factory_task_state                                           *)

AskFor(u) ==
    /\ Plays("owner") /\ asking[u] \in {"idle", "got"}
    /\ asking' = [asking EXCEPT ![u] =
                    IF ownedBy = Nobody THEN "claims" ELSE IF ownedBy = u THEN "got" ELSE "refused"]
    /\ crossed' = crossed \cup {{u, v} : v \in {v \in Users \ {u} : asking[v] = "claims" /\ ownedBy = Nobody}}
    /\ UNCHANGED <<scene, clickVars, ownedBy>>

\* A seeded fault: the claim is answered and not saved.
ClaimNotSaved(u) == Nobody

Claimed(u) == u

Claim(u) ==
    /\ asking[u] = "claims"
    /\ ownedBy' = Claimed(u)
    /\ asking' = [asking EXCEPT ![u] = "got"]
    /\ UNCHANGED <<scene, clickVars, crossed>>

-----------------------------------------------------------------------------
RouteInit ==
    /\ routeTask = [t \in AllTasks |-> "none"]
    /\ clickAt = [c \in RouteClicks |-> "idle"]
    /\ jobQueue = <<>> /\ working = {} /\ overlap = {} /\ givenUp = {}
    /\ ownedBy = Nobody /\ asking = [u \in Users |-> "idle"] /\ crossed = {}

RouteStep == \E c \in RouteClicks : SaveQueuedTask(c) \/ Enqueue(c) \/ EnqueueRaises(c)
RouteWorkerStep == WorkerStarts \/ \E t \in AllTasks : WorkerEnds(t)
LookStep == \E t \in AllTasks : GiveUp(t)

RouteNext ==
    \/ /\ Plays("fill_route") \/ Enriching
       /\ \/ RouteStep \/ RouteWorkerStep \/ LookStep \/ JobExpires
          \/ \E c \in RouteClicks : Look(c)
          \/ \E t \in AllTasks : WorkerIsKilled(t)
    \/ \E u \in Users : AskFor(u) \/ Claim(u)

\* Requests and the worker go on; a page of the task is looked at again and again.
RouteFairness ==
    /\ WF_routeVars(RouteStep) /\ WF_routeVars(RouteWorkerStep) /\ WF_routeVars(LookStep)

-----------------------------------------------------------------------------
(* Properties.                                                             *)

RouteTypeOK ==
    /\ routeTask \in [AllTasks -> {"none", "queued", "running", "ended"}]
    /\ clickAt \in [RouteClicks -> {"idle", "save", "enqueue", "answered", "failed"}]
    /\ working \subseteq AllTasks /\ ownedBy \in Users \cup {Nobody}

\* Two fills of a user are under way only if just these two clicks met, one looking when
\* the other had looked and not yet saved, or if one was given up whose job was still in
\* the queue.  An enrichment has one job unless any two clicks on it have met so:
\* its clicks share one document, and the end of one job frees the way past another.  In
\* the queue it is exempt from being given up, however long it waits.
OneJobUnlessOverlapped ==
    /\ Enriching /\ overlap = {} => Cardinality(working) + Len(jobQueue) <= 1
    /\ ~Enriching => \A s, t \in working \cup Range(jobQueue) :
                        s # t => {s, t} \in overlap \/ {s, t} \cap givenUp # {}

\* A document that says queued has its job, unless the queue has refused it or let it
\* expire.
QueuedHasJob ==
    scene.events \cap {"enqueue_raises", "expires"} = {}
        => \A t \in AllTasks : routeTask[t] = "queued"
             => t \in Range(jobQueue) \/ \E c \in RouteClicks : clickAt[c] = "enqueue" /\ TaskOf(c) = t

\* Whatever became of its job, a fill that somebody looks at ends, and a new one may
\* begin.  An enrichment does so if its job has got into the queue and out of it: the
\* step it is queued at is exempt from the stale marker.
RouteSettles ==
    Plays("fill_route") \/ (Enriching /\ scene.events \cap {"enqueue_raises", "expires"} = {})
        => []<>(\A t \in AllTasks : routeTask[t] \in {"none", "ended"})

\* Two users have a task that had no owner only if both had asked for it when neither
\* claim was saved; who asks after a claim is refused.
OneOwner ==
    \A u, v \in Users : u # v /\ asking[u] = "got" /\ asking[v] = "got" => {u, v} \in crossed

=============================================================================

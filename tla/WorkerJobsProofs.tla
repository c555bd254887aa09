-------------------------- MODULE WorkerJobsProofs --------------------------
(***************************************************************************)
(* Proofs about the jobs and routes around the core: each component is     *)
(* proved by itself, for every value of its constants and any events, and  *)
(* then as a part of MCWorkerJobs.                                         *)
(***************************************************************************)
EXTENDS MCWorkerJobs, LoopLemmas

-----------------------------------------------------------------------------
(* Queues.                                                                 *)

LEMMA EmptyQueue == Range(<<>>) = {} /\ Len(<<>>) = 0
BY DEF Range

LEMMA IsEmptyQueue ==
    ASSUME NEW S, NEW s \in Seq(S)
    PROVE  Len(s) \in Nat /\ (s = <<>> <=> Len(s) = 0)
BY EmptySeq, LenProperties

LEMMA Appended ==
    ASSUME NEW S, NEW s \in Seq(S), NEW x \in S
    PROVE  /\ Append(s, x) \in Seq(S)
           /\ Len(Append(s, x)) = Len(s) + 1
           /\ Range(Append(s, x)) = Range(s) \cup {x}
<1>1. /\ Append(s, x) \in Seq(S) /\ Len(Append(s, x)) = Len(s) + 1
      /\ \A i \in 1 .. Len(s) : Append(s, x)[i] = s[i]
      /\ Append(s, x)[Len(s) + 1] = x
    BY AppendProperties
<1>2. DOMAIN s = 1 .. Len(s) /\ Len(s) \in Nat /\ DOMAIN Append(s, x) = 1 .. Len(s) + 1
    BY <1>1, LenProperties
<1>3. 1 .. Len(s) + 1 = (1 .. Len(s)) \cup {Len(s) + 1}
    BY <1>2
<1>4. ASSUME NEW y \in Range(Append(s, x)) PROVE y \in Range(s) \cup {x}
    <2> PICK i \in 1 .. Len(s) + 1 : y = Append(s, x)[i]
        BY <1>2, <1>4 DEF Range
    <2> QED
        BY <1>1, <1>2, <1>3 DEF Range
<1>5. Range(s) \cup {x} \subseteq Range(Append(s, x))
    BY <1>1, <1>2, <1>3 DEF Range
<1> QED
    BY <1>1, <1>4, <1>5

LEMMA Popped ==
    ASSUME NEW S, NEW s \in Seq(S), s # <<>>
    PROVE  /\ Head(s) \in S /\ Tail(s) \in Seq(S)
           /\ Len(Tail(s)) = Len(s) - 1
           /\ Range(s) = {Head(s)} \cup Range(Tail(s))
<1>1. /\ Head(s) \in S /\ Tail(s) \in Seq(S) /\ Len(s) \in Nat /\ Len(s) > 0
      /\ Len(Tail(s)) = Len(s) - 1 /\ Head(s) = s[1]
      /\ DOMAIN s = 1 .. Len(s) /\ DOMAIN Tail(s) = 1 .. Len(s) - 1
      /\ \A i \in 1 .. Len(s) - 1 : Tail(s)[i] = s[i + 1]
    BY HeadTailProperties, LenProperties
<1>2. \A i \in 1 .. Len(s) : i = 1 \/ (i - 1 \in 1 .. Len(s) - 1 /\ s[i] = Tail(s)[i - 1])
    BY <1>1
<1>3. \A i \in 1 .. Len(s) - 1 : i + 1 \in 1 .. Len(s)
    BY <1>1
<1>4. ASSUME NEW y \in Range(s) PROVE y \in {Head(s)} \cup Range(Tail(s))
    <2> PICK i \in 1 .. Len(s) : y = s[i]
        BY <1>1, <1>4 DEF Range
    <2> QED
        BY <1>1, <1>2 DEF Range
<1>5. {Head(s)} \cup Range(Tail(s)) \subseteq Range(s)
    BY <1>1, <1>3 DEF Range
<1> QED
    BY <1>1, <1>4, <1>5

LEMMA Pushed ==
    ASSUME NEW S, NEW s \in Seq(S), NEW x \in S
    PROVE  /\ <<x>> \o s \in Seq(S)
           /\ Range(<<x>> \o s) = {x} \cup Range(s)
<1>1. <<x>> \in Seq(S) /\ <<x>> \o s \in Seq(S)
    BY ConcatProperties
<1>2. Range(<<x>>) = {x}
    BY DEF Range
<1>3. Range(<<x>> \o s) = Range(<<x>>) \cup Range(s)
    BY <1>1, RangeConcatenation, Zenon
<1> QED
    BY <1>1, <1>2, <1>3

\* A queue that has nothing twice, and what is put in or taken out.
Once(s) == \A m, n \in DOMAIN s : s[m] = s[n] => m = n

LEMMA OnceMore ==
    ASSUME NEW S, NEW s \in Seq(S), NEW x \in S, Once(s), x \notin Range(s)
    PROVE  Once(Append(s, x))
<1>1. /\ Len(s) \in Nat /\ DOMAIN s = 1 .. Len(s) /\ DOMAIN Append(s, x) = 1 .. Len(s) + 1
      /\ \A i \in 1 .. Len(s) : Append(s, x)[i] = s[i]
      /\ Append(s, x)[Len(s) + 1] = x
    BY AppendProperties, LenProperties
<1>2. \A i \in 1 .. Len(s) + 1 : i \in 1 .. Len(s) \/ i = Len(s) + 1
    BY <1>1
<1>3. \A i \in 1 .. Len(s) : s[i] # x
    BY <1>1 DEF Range
<1> QED
    BY <1>1, <1>2, <1>3 DEF Once

LEMMA OnceLess ==
    ASSUME NEW S, NEW s \in Seq(S), s # <<>>, Once(s)
    PROVE  Once(Tail(s)) /\ Head(s) \notin Range(Tail(s))
<1>1. /\ Len(s) \in Nat /\ Len(s) > 0 /\ Head(s) = s[1]
      /\ DOMAIN s = 1 .. Len(s) /\ DOMAIN Tail(s) = 1 .. Len(s) - 1
      /\ \A i \in 1 .. Len(s) - 1 : Tail(s)[i] = s[i + 1]
    BY HeadTailProperties, LenProperties
<1>2. \A i \in 1 .. Len(s) - 1 : i + 1 \in 1 .. Len(s) /\ i + 1 # 1 /\ 1 \in 1 .. Len(s)
    BY <1>1
<1>3. \A i \in 1 .. Len(s) - 1 : Tail(s)[i] # Head(s)
    BY <1>1, <1>2 DEF Once
<1>4. Once(Tail(s))
    BY <1>1, <1>2 DEF Once
<1> QED
    BY <1>1, <1>3, <1>4 DEF Range

-----------------------------------------------------------------------------
(* TaskRoutes: jobs and the tasks that are queued.                         *)

RouteSafety == RouteInit /\ [][RouteNext]_<<scene, routeVars>>

RouteShape ==
    /\ routeTask \in [AllTasks -> {"none", "queued", "running", "ended"}]
    /\ clickAt \in [RouteClicks -> {"idle", "save", "enqueue", "answered", "failed"}]
    /\ jobQueue \in Seq(AllTasks) /\ working \subseteq AllTasks
    /\ ownedBy \in Users \cup {Nobody}
    /\ asking \in [Users -> {"idle", "claims", "got", "refused"}]

\* As long as no two clicks on an enrichment have met, there is one of a click that is to
\* save or to enqueue, a job in the queue, and a job at work.
Unmet == Enriching /\ overlap = {}

OneUnderWay ==
    /\ \A c, d \in RouteClicks :
          clickAt[c] \in {"save", "enqueue"} /\ clickAt[d] \in {"save", "enqueue"} => c = d
    /\ \A c \in RouteClicks : clickAt[c] \in {"save", "enqueue"} => working = {} /\ jobQueue = <<>>
    /\ \A c \in RouteClicks : clickAt[c] = "enqueue" => routeTask[TaskOf(c)] = "queued"
    /\ \A t \in Range(jobQueue) : routeTask[t] = "queued"
    /\ \A t \in working : routeTask[t] = "running"
    /\ Len(jobQueue) <= 1
    /\ jobQueue # <<>> => working = {}
    /\ \A t, u \in working : t = u

\* A fill: what a click has saved says so as long as its one job is in the queue or at
\* work, if it is not given up, so that two clicks go on only if they have met.
RouteJobs == working \cup Range(jobQueue)
GoesOn(c) == clickAt[c] \in {"save", "enqueue"} \/ c \in RouteJobs
FillsApart ==
    /\ RouteJobs \subseteq RouteClicks /\ \A c \in RouteJobs : clickAt[c] = "answered"
    /\ \A c \in RouteClicks : clickAt[c] = "enqueue" => routeTask[c] = "queued"
    /\ Once(jobQueue)
    /\ \A c \in Range(jobQueue) : c \notin working /\ (routeTask[c] = "queued" \/ c \in givenUp)
    /\ \A c \in working : routeTask[c] = "running"
    /\ \A c, d \in RouteClicks :
          c # d /\ GoesOn(c) /\ GoesOn(d) => {c, d} \in overlap \/ {c, d} \cap givenUp # {}

\* The owner has the task, and who else has it or claims it has met everyone who does.
OwnerInv ==
    /\ ownedBy = Nobody => \A u \in Users : asking[u] # "got"
    /\ ownedBy # Nobody => asking[ownedBy] = "got"
    /\ \A u, v \in Users :
          u # v /\ asking[u] \in {"claims", "got"} /\ asking[v] \in {"claims", "got"} => {u, v} \in crossed

RouteInv ==
    /\ RouteShape /\ QueuedHasJob
    /\ Unmet => OneUnderWay
    /\ ~Enriching => FillsApart
    /\ OwnerInv

LEMMA RouteStarts == RouteInit => RouteInv
<1> SUFFICES ASSUME RouteInit PROVE RouteInv
    OBVIOUS
<1>1. Range(jobQueue) = {} /\ jobQueue \in Seq(AllTasks) /\ Len(jobQueue) = 0
    BY EmptyQueue DEF RouteInit
<1>2. RouteShape
    BY <1>1 DEF RouteInit, RouteShape
<1>3. Unmet => OneUnderWay
    BY <1>1 DEF RouteInit, OneUnderWay
<1>4. FillsApart
    BY <1>1 DEF RouteInit, FillsApart, GoesOn, RouteJobs, Once
<1> QED
    BY <1>2, <1>3, <1>4, UsersAssumption DEF RouteInit, RouteInv, QueuedHasJob, OwnerInv, Nobody

\* What a step does to the queue, and to the tasks whose jobs are in it.
LEMMA RouteShapeKept == RouteShape /\ [RouteNext]_<<scene, routeVars>> => RouteShape'
<1> SUFFICES ASSUME RouteShape, [RouteNext]_<<scene, routeVars>> PROVE RouteShape'
    OBVIOUS
<1> USE DEF RouteShape
<1>1. ASSUME NEW c \in RouteClicks, Look(c) \/ SaveQueuedTask(c) \/ EnqueueRaises(c)
      PROVE  RouteShape'
    BY <1>1 DEF Look, SaveQueuedTask, EnqueueRaises, TaskOf, AllTasks, ownerVars
<1>2. ASSUME NEW c \in RouteClicks, Enqueue(c) PROVE RouteShape'
    <2>1. JobOf(c) \in AllTasks
        BY DEF JobOf, TaskOf, AllTasks
    <2> QED
        BY <1>2, <2>1, Appended DEF Enqueue, ownerVars
<1>3. CASE JobExpires \/ WorkerStarts
    <2>1. Head(jobQueue) \in AllTasks /\ Tail(jobQueue) \in Seq(AllTasks)
        BY <1>3, Popped DEF JobExpires, WorkerStarts
    <2> QED
        BY <1>3, <2>1 DEF JobExpires, WorkerStarts, ownerVars
<1>4. ASSUME NEW t \in AllTasks, WorkerEnds(t) \/ WorkerIsKilled(t) \/ GiveUp(t)
      PROVE  RouteShape'
    BY <1>4 DEF WorkerEnds, WorkerIsKilled, GiveUp, ownerVars
<1>5. ASSUME NEW u \in Users, AskFor(u) \/ Claim(u) PROVE RouteShape'
    BY <1>5 DEF AskFor, Claim, Claimed, clickVars
<1>6. CASE UNCHANGED <<scene, routeVars>>
    BY <1>6 DEF routeVars, clickVars, ownerVars
<1> QED
    BY <1>1, <1>2, <1>3, <1>4, <1>5, <1>6 DEF RouteNext, RouteStep, RouteWorkerStep, LookStep

LEMMA QueuedKept ==
    RouteShape /\ QueuedHasJob /\ [RouteNext]_<<scene, routeVars>> => QueuedHasJob'
<1> SUFFICES ASSUME RouteShape, QueuedHasJob, [RouteNext]_<<scene, routeVars>>,
                    scene.events \cap {"enqueue_raises", "expires"} = {}, scene' = scene
             PROVE  QueuedHasJob'
    BY DEF QueuedHasJob, RouteNext, RouteStep, RouteWorkerStep, LookStep, Look, SaveQueuedTask,
        Enqueue, EnqueueRaises, JobExpires, WorkerStarts, WorkerEnds, WorkerIsKilled, GiveUp,
        AskFor, Claim
<1> USE DEF RouteShape, QueuedHasJob
<1>0. ~May("enqueue_raises") /\ ~May("expires") /\ \A c \in RouteClicks : TaskOf(c)' = TaskOf(c)
    BY DEF May, TaskOf, Enriching, Plays
<1>1. ASSUME NEW c \in RouteClicks, Look(c) \/ SaveQueuedTask(c) PROVE QueuedHasJob'
    BY <1>0, <1>1 DEF Look, SaveQueuedTask, TaskOf, AllTasks
<1>2. ASSUME NEW c \in RouteClicks, Enqueue(c) PROVE QueuedHasJob'
    <2>1. JobOf(c) \in AllTasks /\ JobOf(c) = TaskOf(c)
        BY DEF JobOf, TaskOf, AllTasks
    <2>2. Range(jobQueue') = Range(jobQueue) \cup {TaskOf(c)}
        BY <1>2, <2>1, Appended DEF Enqueue
    <2> QED
        BY <1>0, <1>2, <2>2 DEF Enqueue
<1>3. CASE WorkerStarts
    <2>1. Range(jobQueue) = {Head(jobQueue)} \cup Range(jobQueue')
        BY <1>3, Popped DEF WorkerStarts
    <2> QED
        BY <1>0, <1>3, <2>1 DEF WorkerStarts
<1>4. ASSUME NEW t \in AllTasks, WorkerEnds(t) \/ WorkerIsKilled(t) \/ GiveUp(t)
      PROVE  QueuedHasJob'
    <2>1. CASE WorkerEnds(t)
        BY <1>0, <2>1 DEF WorkerEnds
    <2>2. CASE WorkerIsKilled(t)
        BY <1>0, <2>2 DEF WorkerIsKilled
    <2>3. CASE GiveUp(t)
        BY <1>0, <2>3 DEF GiveUp
    <2> QED
        BY <1>4, <2>1, <2>2, <2>3
<1>5. ASSUME NEW u \in Users, AskFor(u) \/ Claim(u) PROVE QueuedHasJob'
    BY <1>0, <1>5 DEF AskFor, Claim, clickVars
<1>6. CASE UNCHANGED <<scene, routeVars>>
    BY <1>0, <1>6 DEF routeVars, clickVars
<1> QED
    BY <1>0, <1>1, <1>2, <1>3, <1>4, <1>5, <1>6
    DEF RouteNext, RouteStep, RouteWorkerStep, LookStep, EnqueueRaises, JobExpires

LEMMA OneUnderWayKept ==
    ASSUME RouteShape, Unmet => OneUnderWay, [RouteNext]_<<scene, routeVars>>
    PROVE  (Unmet => OneUnderWay)'
<1>0. scene' = scene /\ (overlap' = {} => overlap = {})
    BY DEF RouteShape, RouteNext, RouteStep, RouteWorkerStep, LookStep, Look, SaveQueuedTask, Enqueue,
        EnqueueRaises, JobExpires, WorkerStarts, WorkerEnds, WorkerIsKilled, GiveUp, AskFor, Claim,
        clickVars, ownerVars, routeVars
<1>0a. Unmet' => Unmet
    BY <1>0 DEF Unmet, May, Enriching, Plays
<1> SUFFICES ASSUME Unmet, Unmet', OneUnderWay PROVE OneUnderWay'
    BY <1>0a
<1>0b. \A c \in RouteClicks : TaskOf(c)' = TaskOf(c) /\ TaskOf(c) \in AllTasks
    BY <1>0 DEF TaskOf, Enriching, Plays, AllTasks
<1> USE DEF RouteShape
<1>1. ASSUME NEW c \in RouteClicks, Look(c) PROVE OneUnderWay'
    <2>1. ASSUME NEW d \in RouteClicks, clickAt[d] \in {"save", "enqueue"} PROVE clickAt'[c] = "answered"
        <3>1. CASE clickAt[d] = "enqueue"
            BY <1>0b, <1>1, <3>1 DEF Look, UnderWay, OneUnderWay
        <3>2. CASE clickAt[d] = "save"
            <4>1. d # c /\ overlap' = {}
                BY <1>1, <3>2 DEF Look, Unmet
            <4>2. ~UnderWay => {c, d} \in overlap'
                BY <1>1, <3>2, <4>1 DEF Look
            <4> QED
                BY <1>1, <4>1, <4>2 DEF Look
        <3> QED
            BY <2>1, <3>1, <3>2
    <2>2. jobQueue # <<>> => \E t \in Range(jobQueue) : t \in AllTasks
        BY Popped
    <2>3. working # {} \/ jobQueue # <<>> => clickAt'[c] = "answered"
        BY <1>1, <2>2 DEF Look, UnderWay, OneUnderWay
    <2> QED
        BY <1>0b, <1>1, <2>1, <2>3 DEF Look, OneUnderWay
<1>2. ASSUME NEW c \in RouteClicks, SaveQueuedTask(c) PROVE OneUnderWay'
    <2>1. Range(jobQueue) = {} /\ working = {}
        BY <1>2, EmptyQueue DEF SaveQueuedTask, OneUnderWay
    <2> QED
        BY <1>0b, <1>2, <2>1 DEF SaveQueuedTask, OneUnderWay
<1>3. ASSUME NEW c \in RouteClicks, Enqueue(c) PROVE OneUnderWay'
    <2>1. JobOf(c) = TaskOf(c) /\ jobQueue = <<>> /\ working = {}
        BY <1>3 DEF JobOf, Enqueue, OneUnderWay
    <2>2. jobQueue' = Append(jobQueue, TaskOf(c)) /\ TaskOf(c) \in AllTasks
        BY <1>0b, <1>3, <2>1 DEF Enqueue
    <2>3. /\ Range(jobQueue') = Range(jobQueue) \cup {TaskOf(c)}
          /\ Len(jobQueue') = Len(jobQueue) + 1
        BY <2>2, Appended
    <2>4. Range(jobQueue') = {TaskOf(c)} /\ Len(jobQueue') = 1
        BY <2>1, <2>3, EmptyQueue
    <2> QED
        BY <1>0b, <1>3, <2>1, <2>4 DEF Enqueue, OneUnderWay
<1>4. ASSUME NEW c \in RouteClicks, EnqueueRaises(c) PROVE OneUnderWay'
    BY <1>0b, <1>4 DEF EnqueueRaises, OneUnderWay
<1>5. CASE JobExpires \/ WorkerStarts
    <2>1. /\ jobQueue # <<>> /\ jobQueue' = Tail(jobQueue)
          /\ Head(jobQueue) \in AllTasks /\ Head(jobQueue) \in Range(jobQueue)
          /\ Tail(jobQueue) \in Seq(AllTasks) /\ Len(Tail(jobQueue)) = Len(jobQueue) - 1
        BY <1>5, Popped DEF JobExpires, WorkerStarts
    <2>2. Len(jobQueue) <= 1 /\ working = {} /\ \A c \in RouteClicks : clickAt[c] \notin {"save", "enqueue"}
        BY <2>1 DEF OneUnderWay
    <2>3. jobQueue' = <<>> /\ Range(jobQueue') = {} /\ Len(jobQueue') = 0
        <3>1. Len(jobQueue) = 1
            BY <2>1, <2>2, IsEmptyQueue
        <3>2. Len(Tail(jobQueue)) = 0
            BY <2>1, <3>1
        <3> QED
            BY <2>1, <3>2, EmptyQueue, IsEmptyQueue
    <2> QED
        BY <1>5, <2>1, <2>2, <2>3 DEF JobExpires, WorkerStarts, OneUnderWay
<1>6. ASSUME NEW t \in AllTasks, WorkerEnds(t) PROVE OneUnderWay'
    <2>1. working = {t} /\ jobQueue = <<>> /\ Range(jobQueue) = {}
        BY <1>6, EmptyQueue DEF WorkerEnds, OneUnderWay
    <2> QED
        BY <1>0b, <1>6, <2>1 DEF WorkerEnds, OneUnderWay
<1>7a. ASSUME NEW t \in AllTasks, WorkerIsKilled(t) PROVE OneUnderWay'
    BY <1>0b, <1>7a DEF WorkerIsKilled, OneUnderWay
<1>7. ASSUME NEW t \in AllTasks, GiveUp(t) PROVE OneUnderWay'
    <2>1. t \in Range(jobQueue) => Enriching /\ routeTask[t] = "queued"
        BY <1>7 DEF GiveUp, Unmet, OneUnderWay
    <2>2. t \notin Range(jobQueue) /\ t \notin working
        BY <1>7, <2>1 DEF GiveUp, StepOf, ExemptSteps
    <2> QED
        BY <1>0b, <1>7, <2>2 DEF GiveUp, OneUnderWay
<1>8. ASSUME NEW u \in Users, AskFor(u) \/ Claim(u) PROVE OneUnderWay'
    BY <1>0b, <1>8 DEF AskFor, Claim, clickVars, OneUnderWay
<1>9. CASE UNCHANGED <<scene, routeVars>>
    BY <1>0b, <1>9 DEF routeVars, clickVars, OneUnderWay
<1> QED
    BY <1>1, <1>2, <1>3, <1>4, <1>5, <1>6, <1>7, <1>7a, <1>8, <1>9
    DEF RouteNext, RouteStep, RouteWorkerStep, LookStep

LEMMA FillsApartKept ==
    ASSUME RouteShape, ~Enriching => FillsApart, [RouteNext]_<<scene, routeVars>>
    PROVE  (~Enriching => FillsApart)'
<1>0. scene' = scene
    BY DEF RouteNext, RouteStep, RouteWorkerStep, LookStep, Look, SaveQueuedTask, Enqueue, EnqueueRaises,
        JobExpires, WorkerStarts, WorkerEnds, WorkerIsKilled, GiveUp, AskFor, Claim
<1> SUFFICES ASSUME ~Enriching, FillsApart PROVE FillsApart'
    BY <1>0 DEF Enriching, Plays
<1>0a. \A c \in RouteClicks : TaskOf(c) = c /\ c \in AllTasks
    BY DEF TaskOf, AllTasks
<1> USE DEF RouteShape
<1>1. ASSUME NEW c \in RouteClicks, Look(c) PROVE FillsApart'
    <2>1. CASE UnderWay
        <3>1. clickAt' = [clickAt EXCEPT ![c] = "answered"] /\ overlap \subseteq overlap' /\ RouteJobs' = RouteJobs
              /\ UNCHANGED <<routeTask, jobQueue, working, givenUp>>
            BY <1>1, <2>1 DEF Look, RouteJobs
        <3> QED
            BY <3>1 DEF FillsApart, GoesOn
    <2>2. CASE ~UnderWay
        <3>1. /\ clickAt' = [clickAt EXCEPT ![c] = "save"] /\ overlap \subseteq overlap' /\ RouteJobs' = RouteJobs
              /\ clickAt[c] \in {"idle", "failed"} /\ UNCHANGED <<routeTask, jobQueue, working, givenUp>>
              /\ \A d \in RouteClicks \ {c} : clickAt[d] = "save" => {c, d} \in overlap'
            BY <1>1, <2>2 DEF Look, RouteJobs
        <3>2. \A d \in RouteClicks : routeTask[d] \notin {"queued", "running"}
            BY <1>0a, <2>2 DEF UnderWay
        <3>3. \A d \in RouteClicks : GoesOn(d) => clickAt[d] = "save" \/ d \in givenUp
            BY <3>2 DEF FillsApart, GoesOn, RouteJobs
        <3>4. c \notin RouteJobs
            BY <3>1 DEF FillsApart
        <3>5. \A d \in RouteClicks \ {c} : GoesOn(d)' = GoesOn(d)
            BY <3>1 DEF GoesOn
        <3>6. \A d \in RouteClicks \ {c} :
                 GoesOn(d) => {c, d} \in overlap' \/ {c, d} \cap givenUp' # {}
            BY <3>1, <3>3
        <3>7. ASSUME NEW x \in RouteClicks, NEW y \in RouteClicks, x # y, GoesOn(x)', GoesOn(y)'
              PROVE  {x, y} \in overlap' \/ {x, y} \cap givenUp' # {}
            <4>1. CASE x = c
                BY <3>5, <3>6, <3>7, <4>1
            <4>2. CASE y = c
                <5>1. {x, y} = {c, x}
                    BY <4>2
                <5> QED
                    BY <3>5, <3>6, <3>7, <4>2, <5>1
            <4>3. CASE x # c /\ y # c
                BY <3>1, <3>5, <3>7, <4>3 DEF FillsApart
            <4> QED
                BY <4>1, <4>2, <4>3
        <3> QED
            BY <3>1, <3>4, <3>7 DEF FillsApart
    <2> QED
        BY <2>1, <2>2
<1>2. ASSUME NEW c \in RouteClicks, SaveQueuedTask(c) PROVE FillsApart'
    <2>1. /\ clickAt[c] = "save" /\ clickAt' = [clickAt EXCEPT ![c] = "enqueue"]
          /\ routeTask' = [routeTask EXCEPT ![c] = "queued"] /\ RouteJobs' = RouteJobs
          /\ UNCHANGED <<jobQueue, working, overlap, givenUp>>
        BY <1>0a, <1>2 DEF SaveQueuedTask, RouteJobs
    <2>2. c \notin RouteJobs /\ c \notin working /\ c \notin Range(jobQueue)
        BY <2>1 DEF FillsApart, RouteJobs
    <2>3. \A d \in RouteClicks : GoesOn(d)' = GoesOn(d)
        BY <2>1 DEF GoesOn
    <2> QED
        BY <1>0a, <2>1, <2>2, <2>3 DEF FillsApart
<1>3. ASSUME NEW c \in RouteClicks, Enqueue(c) PROVE FillsApart'
    <2>1. /\ clickAt[c] = "enqueue" /\ clickAt' = [clickAt EXCEPT ![c] = "answered"]
          /\ jobQueue' = Append(jobQueue, c)
          /\ UNCHANGED <<routeTask, working, overlap, givenUp>>
        BY <1>0a, <1>3 DEF Enqueue, JobOf
    <2>2. Range(jobQueue') = Range(jobQueue) \cup {c} /\ RouteJobs' = RouteJobs \cup {c}
        BY <1>0a, <2>1, Appended DEF RouteJobs
    <2>3. c \notin RouteJobs /\ c \notin working /\ c \notin Range(jobQueue) /\ routeTask[c] = "queued"
        BY <2>1 DEF FillsApart, RouteJobs
    <2>5. Once(jobQueue')
        BY <1>0a, <2>1, <2>3, OnceMore DEF FillsApart
    <2>4. \A d \in RouteClicks : GoesOn(d)' = GoesOn(d)
        BY <2>1, <2>2 DEF GoesOn
    <2> QED
        BY <2>1, <2>2, <2>3, <2>4, <2>5 DEF FillsApart
<1>4. ASSUME NEW c \in RouteClicks, EnqueueRaises(c) PROVE FillsApart'
    <2>1. /\ clickAt[c] = "enqueue" /\ clickAt' = [clickAt EXCEPT ![c] = "failed"] /\ RouteJobs' = RouteJobs
          /\ UNCHANGED <<jobQueue, routeTask, working, overlap, givenUp>>
        BY <1>4 DEF EnqueueRaises, RouteJobs
    <2>2. c \notin RouteJobs
        BY <2>1 DEF FillsApart
    <2>3. \A d \in RouteClicks : GoesOn(d)' => GoesOn(d)
        BY <2>1 DEF GoesOn
    <2> QED
        BY <2>1, <2>2, <2>3 DEF FillsApart
<1>5. CASE JobExpires
    <2>1. Range(jobQueue') \subseteq Range(jobQueue) /\ UNCHANGED <<clickAt, routeTask, working, overlap, givenUp>>
        BY <1>5, Popped DEF JobExpires
    <2>2. RouteJobs' \subseteq RouteJobs
        BY <2>1 DEF RouteJobs
    <2>3. \A d \in RouteClicks : GoesOn(d)' => GoesOn(d)
        BY <2>1, <2>2 DEF GoesOn
    <2>4. Once(jobQueue')
        BY <1>5, OnceLess DEF JobExpires, FillsApart
    <2> QED
        BY <2>1, <2>2, <2>3, <2>4 DEF FillsApart
<1>6. CASE WorkerStarts
    <2> DEFINE t == Head(jobQueue)
    <2>1. /\ Range(jobQueue) = {t} \cup Range(jobQueue') /\ t \in AllTasks
          /\ working' = working \cup {t} /\ routeTask' = [routeTask EXCEPT ![t] = "running"]
          /\ UNCHANGED <<clickAt, overlap, givenUp>>
        BY <1>6, Popped DEF WorkerStarts
    <2>4. Once(jobQueue') /\ t \notin Range(jobQueue')
        BY <1>6, OnceLess DEF WorkerStarts, FillsApart
    <2> HIDE DEF t
    <2>2. RouteJobs' = RouteJobs /\ t \in RouteClicks /\ clickAt[t] = "answered"
        BY <2>1 DEF RouteJobs, FillsApart
    <2>3. \A d \in RouteClicks : GoesOn(d)' = GoesOn(d)
        BY <2>1, <2>2 DEF GoesOn
    <2> QED
        BY <2>1, <2>2, <2>3, <2>4 DEF FillsApart
<1>7. ASSUME NEW t \in AllTasks, WorkerEnds(t) PROVE FillsApart'
    <2>1. /\ t \in working /\ working' = working \ {t} /\ routeTask' = [routeTask EXCEPT ![t] = "ended"]
          /\ UNCHANGED <<clickAt, jobQueue, overlap, givenUp>>
        BY <1>7 DEF WorkerEnds
    <2>2. RouteJobs' \subseteq RouteJobs /\ clickAt[t] = "answered" /\ t \notin Range(jobQueue)
        BY <2>1 DEF RouteJobs, FillsApart
    <2>3. \A d \in RouteClicks : GoesOn(d)' => GoesOn(d)
        BY <2>1, <2>2 DEF GoesOn
    <2> QED
        BY <2>1, <2>2, <2>3 DEF FillsApart
<1>8. ASSUME NEW t \in AllTasks, WorkerIsKilled(t) PROVE FillsApart'
    <2>1. working' = working \ {t} /\ UNCHANGED <<clickAt, routeTask, jobQueue, overlap, givenUp>>
        BY <1>8 DEF WorkerIsKilled
    <2>2. RouteJobs' \subseteq RouteJobs
        BY <2>1 DEF RouteJobs
    <2>3. \A d \in RouteClicks : GoesOn(d)' => GoesOn(d)
        BY <2>1, <2>2 DEF GoesOn
    <2> QED
        BY <2>1, <2>2, <2>3 DEF FillsApart
<1>9. ASSUME NEW t \in AllTasks, GiveUp(t) PROVE FillsApart'
    <2>1. /\ t \notin working /\ (t \in Range(jobQueue) => t \in givenUp') /\ givenUp \subseteq givenUp'
          /\ \A c \in RouteClicks : clickAt[c] # "enqueue"
          /\ routeTask' = [routeTask EXCEPT ![t] = "ended"]
          /\ UNCHANGED <<clickAt, jobQueue, working, overlap>>
        BY <1>9 DEF GiveUp
    <2>2. RouteJobs' = RouteJobs
        BY <2>1 DEF RouteJobs
    <2>3. \A d \in RouteClicks : GoesOn(d)' = GoesOn(d)
        BY <2>1, <2>2 DEF GoesOn
    <2> QED
        BY <2>1, <2>2, <2>3 DEF FillsApart
<1>10. CASE UNCHANGED clickVars
    BY <1>10 DEF clickVars, FillsApart, GoesOn, RouteJobs
<1> QED
    BY <1>1, <1>2, <1>3, <1>4, <1>5, <1>6, <1>7, <1>8, <1>9, <1>10
    DEF RouteNext, RouteStep, RouteWorkerStep, LookStep, AskFor, Claim, routeVars

LEMMA OwnerKept ==
    RouteShape /\ OwnerInv /\ [RouteNext]_<<scene, routeVars>> => OwnerInv'
<1> SUFFICES ASSUME RouteShape, OwnerInv, [RouteNext]_<<scene, routeVars>> PROVE OwnerInv'
    OBVIOUS
<1>1. ASSUME NEW u \in Users, AskFor(u) PROVE OwnerInv'
    <2>1. CASE ownedBy = Nobody
        <3>1. /\ asking' = [asking EXCEPT ![u] = "claims"] /\ ownedBy' = ownedBy
              /\ crossed \subseteq crossed'
              /\ \A v \in Users \ {u} : asking[v] = "claims" => {u, v} \in crossed'
            BY <1>1, <2>1 DEF AskFor
        <3>2. \A v \in Users \ {u} : asking[v] \in {"claims", "got"} => {u, v} \in crossed' /\ {v, u} \in crossed'
            <4>1. \A v \in Users : asking[v] # "got" /\ {u, v} = {v, u}
                BY <2>1 DEF OwnerInv
            <4> QED
                BY <3>1, <4>1
        <3> QED
            BY <2>1, <3>1, <3>2 DEF RouteShape, OwnerInv
    <2>2. CASE ownedBy # Nobody
        <3>1. /\ asking' = [asking EXCEPT ![u] = IF ownedBy = u THEN "got" ELSE "refused"]
              /\ ownedBy' = ownedBy /\ crossed \subseteq crossed'
            BY <1>1, <2>2 DEF AskFor
        <3>2. ownedBy = u => asking[u] = "got"
            BY <2>2 DEF OwnerInv
        <3> QED
            BY <2>2, <3>1, <3>2 DEF RouteShape, OwnerInv
    <2> QED
        BY <2>1, <2>2
<1>2. ASSUME NEW u \in Users, Claim(u) PROVE OwnerInv'
    BY <1>2, UsersAssumption DEF RouteShape, Claim, Claimed, OwnerInv, Nobody
<1>3. ASSUME UNCHANGED ownerVars PROVE OwnerInv'
    BY <1>3 DEF OwnerInv, ownerVars
<1> QED
    BY <1>1, <1>2, <1>3
    DEF RouteNext, RouteStep, RouteWorkerStep, LookStep, Look, SaveQueuedTask, Enqueue,
        EnqueueRaises, JobExpires, WorkerStarts, WorkerEnds, WorkerIsKilled, GiveUp, routeVars

LEMMA RouteHolds == RouteSafety => []RouteInv
<1>1. RouteInv /\ [RouteNext]_<<scene, routeVars>> => RouteInv'
    BY RouteShapeKept, QueuedKept, OneUnderWayKept, FillsApartKept, OwnerKept DEF RouteInv
<1> QED
    BY <1>1, RouteStarts, PTL DEF RouteSafety

LEMMA OneOrNone ==
    ASSUME NEW S, \A x, y \in S : x = y
    PROVE  Cardinality(S) \in Nat /\ Cardinality(S) <= 1
<1>1. CASE S = {}
    BY <1>1, FS_EmptySet
<1>2. CASE S # {}
    <2> PICK x \in S : S = {x}
        BY <1>2
    <2> QED
        BY FS_Singleton
<1> QED
    BY <1>1, <1>2

\* An enrichment has one job unless two clicks on it have met, two fills are under way
\* only if just their clicks have met or one was given up as it waited, and two users
\* have a task without an owner only if just they have met.
LEMMA RouteIsTrue == RouteInv => OneJobUnlessOverlapped /\ OneOwner /\ QueuedHasJob
<1> SUFFICES ASSUME RouteInv PROVE OneJobUnlessOverlapped /\ OneOwner /\ QueuedHasJob
    OBVIOUS
<1>1. ASSUME Unmet PROVE Cardinality(working) + Len(jobQueue) <= 1
    <2>1. Cardinality(working) \in Nat /\ Cardinality(working) <= 1 /\ Len(jobQueue) \in Nat
        BY <1>1, OneOrNone, LenProperties DEF RouteInv, RouteShape, OneUnderWay
    <2>2. CASE jobQueue = <<>>
        BY <2>1, <2>2, EmptyQueue
    <2>3. CASE jobQueue # <<>>
        <3>1. working = {} /\ Len(jobQueue) <= 1
            BY <1>1, <2>3 DEF RouteInv, OneUnderWay
        <3> QED
            BY <2>1, <3>1, FS_EmptySet
    <2> QED
        BY <2>2, <2>3
<1>2. ASSUME ~Enriching, NEW s \in working \cup Range(jobQueue), NEW t \in working \cup Range(jobQueue), s # t
      PROVE  {s, t} \in overlap \/ {s, t} \cap givenUp # {}
    BY <1>2 DEF RouteInv, FillsApart, GoesOn, RouteJobs
<1>3. OneOwner
    BY DEF RouteInv, OwnerInv, OneOwner
<1> QED
    BY <1>1, <1>2, <1>3 DEF RouteInv, Unmet, OneJobUnlessOverlapped

-----------------------------------------------------------------------------
(* DeliveryJobs: delivery jobs and the stock of their products.            *)

DeliverySafety == DeliveryInit /\ [][DeliveryNext]_<<scene, deliveryVars>>

Jobs == ExternalProducts \cup {Garbage}

DeliveryShape ==
    /\ request \in [Requests -> {"new", "creating", "accepted", "ok", "error"}]
    /\ jobs \in Seq(Jobs)
    /\ delivery \in [at : {"idle", "reject", "quantity", "delivery", "ack", "nack"}, job : Jobs]
    /\ stocked \in [ExternalProducts -> SUBSET {"quantity", "delivery"}]
    /\ published \subseteq ExternalProducts

\* The consumer has a product's job, and OTTO has taken what it has got past.
ConsumerInv ==
    /\ delivery.at \in {"idle", "reject"} => delivery.job = Garbage
    /\ delivery.at \notin {"idle", "reject"} => delivery.job \in ExternalProducts
    /\ delivery.at \in {"delivery", "ack"} => "quantity" \in stocked[delivery.job]
    /\ delivery.at = "ack" => "delivery" \in stocked[delivery.job]

AcceptedIsCreated == \A r \in Requests : request[r] = "accepted" => ProductsOf(r) \subseteq atOtto

DeliveryInv ==
    DeliveryShape /\ ConsumerInv /\ AcceptedIsCreated /\ AnswerMeansJob /\ JobKeptUntilStocked

LEMMA ProductsAre ==
    ASSUME NEW r \in Requests
    PROVE  /\ FirstProduct(r) \in ProductsOf(r)
           /\ ProductsOf(r) \subseteq ExternalProducts
<1>1. Len(r) \in Nat \ {0} /\ DOMAIN r = 1 .. Len(r)
    BY RequestsAssumption, EmptySeq, LenProperties
<1> QED
    BY <1>1 DEF FirstProduct, ProductsOf, ExternalProducts, Range

LEMMA NoGarbage == Garbage \notin ExternalProducts
<1>1. ASSUME NEW r \in Requests PROVE Garbage \notin ProductsOf(r)
    BY RequestsAssumption, RangeOfSeq DEF ProductsOf, Garbage
<1> QED
    BY <1>1 DEF ExternalProducts

LEMMA DeliveryStarts == DeliveryInit => DeliveryInv
<1> SUFFICES ASSUME DeliveryInit PROVE DeliveryInv
    OBVIOUS
<1>1. jobs = <<>> \/ jobs = <<Garbage>>
    BY DEF DeliveryInit
<1>2. Garbage \in Jobs
    BY DEF Jobs
<1>2a. <<>> \in Seq(Jobs) /\ <<Garbage>> \in Seq(Jobs)
    BY <1>2
<1>3. jobs \in Seq(Jobs)
    BY <1>1, <1>2a
<1> QED
    BY <1>3 DEF DeliveryInit, DeliveryInv, DeliveryShape, ConsumerInv, AcceptedIsCreated,
        AnswerMeansJob, JobKeptUntilStocked, NoJob, Jobs

\* The steps of the requests, and those of the consumer that leave the queue alone.
LEMMA RequestsKept ==
    ASSUME DeliveryInv, NEW r \in Requests,
           SendProducts(r) \/ ProductsCreated(r) \/ PublishJob(r) \/ RequestRaises(r)
    PROVE  DeliveryInv'
<1>1. FirstProduct(r) \in ExternalProducts /\ FirstProduct(r) \in Jobs /\ jobs \in Seq(Jobs)
    BY ProductsAre DEF Jobs, DeliveryInv, DeliveryShape
<1>2. /\ jobs' \in Seq(Jobs) /\ Range(jobs) \subseteq Range(jobs')
      /\ PublishJob(r) => FirstProduct(r) \in Range(jobs')
    <2>1. CASE UNCHANGED jobs /\ ~PublishJob(r)
        BY <1>1, <2>1
    <2>2. CASE jobs' = Append(jobs, FirstProduct(r))
        BY <1>1, <2>2, Appended
    <2> QED
        BY <2>1, <2>2 DEF SendProducts, ProductsCreated, PublishJob, RequestRaises
<1>3. DeliveryShape'
    BY <1>1, <1>2 DEF SendProducts, ProductsCreated, PublishJob, RequestRaises, DeliveryInv,
        DeliveryShape, AnswerOfError
<1>4. ConsumerInv' /\ AcceptedIsCreated' /\ AnswerMeansJob'
    BY DEF SendProducts, ProductsCreated, PublishJob, RequestRaises, DeliveryInv, DeliveryShape,
        ConsumerInv, AcceptedIsCreated, AnswerMeansJob, AnswerOfError
<1>5. published' \subseteq published \cup Range(jobs')
    BY <1>2 DEF SendProducts, ProductsCreated, PublishJob, RequestRaises
<1>6. JobKeptUntilStocked'
    BY <1>2, <1>5 DEF SendProducts, ProductsCreated, PublishJob, RequestRaises, DeliveryInv,
        JobKeptUntilStocked
<1> QED
    BY <1>3, <1>4, <1>6 DEF DeliveryInv

LEMMA ConsumerKept ==
    ASSUME DeliveryInv, ConsumerStep \/ HandlerRaises \/ ConsumerDies
    PROVE  DeliveryInv'
<1> USE NoGarbage DEF DeliveryInv, DeliveryShape, ConsumerInv, Jobs
<1>1. CASE Receive
    <2>1. /\ Head(jobs) \in Jobs /\ Tail(jobs) \in Seq(Jobs)
          /\ Range(jobs) = {Head(jobs)} \cup Range(Tail(jobs))
        BY <1>1, Popped DEF Receive
    <2>2. delivery.job = Garbage
        BY <1>1 DEF Receive
    <2>3. DeliveryShape' /\ ConsumerInv'
        BY <1>1, <2>1 DEF Receive
    <2>4. JobKeptUntilStocked'
        BY <1>1, <2>1, <2>2 DEF Receive, JobKeptUntilStocked
    <2> QED
        BY <1>1, <2>3, <2>4 DEF Receive, AcceptedIsCreated, AnswerMeansJob
<1>2. CASE RejectGarbage
    BY <1>2 DEF RejectGarbage, NoJob, AcceptedIsCreated, AnswerMeansJob, JobKeptUntilStocked
<1>3. ASSUME NEW what \in {"quantity", "delivery"}, Stock(what), delivery.job \in ExternalProducts,
             delivery' = [delivery EXCEPT !.at = IF what = "quantity" THEN "delivery" ELSE "ack"],
             what = "delivery" => "quantity" \in stocked[delivery.job],
             UNCHANGED <<request, atOtto, jobs, published, acknowledged>>
      PROVE  DeliveryInv'
    <2>1. /\ delivery'.job = delivery.job
          /\ stocked' \in [ExternalProducts -> SUBSET {"quantity", "delivery"}]
          /\ \A p \in ExternalProducts : stocked[p] \subseteq stocked'[p]
          /\ what \in stocked'[delivery.job]
        BY <1>3 DEF Stock
    <2>2. DeliveryShape' /\ ConsumerInv'
        BY <1>3, <2>1
    <2>3. JobKeptUntilStocked'
        BY <1>3, <2>1 DEF JobKeptUntilStocked
    <2> QED
        BY <1>3, <2>2, <2>3 DEF AcceptedIsCreated, AnswerMeansJob
<1>4. CASE StockQuantity
    <2>1. Stock("quantity") /\ delivery.job \in ExternalProducts
        BY <1>4 DEF StockQuantity
    <2> QED
        BY <1>3, <1>4, <2>1 DEF StockQuantity
<1>5. CASE StockDelivery
    <2>1. /\ Stock("delivery") /\ delivery.job \in ExternalProducts
          /\ "quantity" \in stocked[delivery.job]
        BY <1>5 DEF StockDelivery
    <2> QED
        BY <1>3, <1>5, <2>1 DEF StockDelivery
<1>6. CASE HandlerRaises
    BY <1>6 DEF HandlerRaises, AcceptedIsCreated, AnswerMeansJob, JobKeptUntilStocked
<1>7. CASE Nack \/ ConsumerDies
    <2>1. jobs' = <<delivery.job>> \o jobs /\ delivery' = NoJob
        BY <1>7 DEF Nack, ConsumerDies, Requeued
    <2>2. jobs' \in Seq(Jobs) /\ Range(jobs') = {delivery.job} \cup Range(jobs)
        BY <2>1, Pushed
    <2>3. JobKeptUntilStocked'
        BY <1>7, <2>2 DEF Nack, ConsumerDies, JobKeptUntilStocked
    <2> QED
        BY <1>7, <2>1, <2>2, <2>3 DEF Nack, ConsumerDies, NoJob, AcceptedIsCreated, AnswerMeansJob
<1>8. CASE Ack
    <2>1. delivery.at = "ack" /\ delivery.job \in ExternalProducts
        BY <1>8 DEF Ack, MayAck
    <2>2. stocked[delivery.job] = {"quantity", "delivery"}
        BY <2>1
    <2> QED
        BY <1>8, <2>1, <2>2 DEF Ack, NoJob, AcceptedIsCreated, AnswerMeansJob, JobKeptUntilStocked
<1> QED
    BY <1>1, <1>2, <1>4, <1>5, <1>6, <1>7, <1>8 DEF ConsumerStep

LEMMA DeliveryHolds == DeliverySafety => []DeliveryInv
<1>1. DeliveryInv /\ [DeliveryNext]_<<scene, deliveryVars>> => DeliveryInv'
    <2> SUFFICES ASSUME DeliveryInv, [DeliveryNext]_<<scene, deliveryVars>> PROVE DeliveryInv'
        OBVIOUS
    <2>1. CASE UNCHANGED <<scene, deliveryVars>>
        BY <2>1 DEF deliveryVars, DeliveryInv, DeliveryShape, ConsumerInv, AcceptedIsCreated,
            AnswerMeansJob, JobKeptUntilStocked
    <2> QED
        BY <2>1, RequestsKept, ConsumerKept DEF DeliveryNext, RequestStep
<1> QED
    BY <1>1, DeliveryStarts, PTL DEF DeliverySafety

-----------------------------------------------------------------------------
(* VariantImages: rows, image jobs, and what the user sets by hand.        *)

VariantSafety == VariantInit /\ [][VariantNext]_<<scene, variantVars>>

VariantRow == [key : Range(Combinations), deleted : BOOLEAN, by : {"nobody", "model", "user"},
        status : {"pending_generation", "generating_image", "ready", "failed", "manual_override"}]

RowIds == DOMAIN variants

VariantShape ==
    /\ variants \in Seq(VariantRow) /\ Len(variants) <= MaxVariants
    /\ generateAt \in [VariantClicks -> [at : {"idle", "insert", "enqueue", "answered"},
                                         seen : SUBSET Range(Combinations), todo : SUBSET RowIds]]
    /\ imageQueue \in Seq(RowIds)
    /\ DOMAIN painting \subseteq RowIds /\ painting = [id \in DOMAIN painting |-> painting[id]]
    /\ overridden \subseteq RowIds

\* No job that there is, or that a click is about to queue, is for such a row.
LeftAlone ==
    \A id \in overridden : ~variants[id].deleted =>
        variants[id].status = "manual_override" /\ variants[id].by = "user" /\ ~Waiting(id)

VariantInv == VariantShape /\ PaintedByAJob /\ OneVariantPerCombination /\ LeftAlone

LEMMA CombinationsAreFinite == IsFiniteSet(Range(Combinations))
<1> DEFINE S == 1 .. Len(Combinations)
<1>1. Combinations \in Seq(Range(Combinations)) /\ Len(Combinations) \in Nat
    BY VariantsAssumption, LenProperties
<1>2. Combinations \in [S -> Range(Combinations)]
    BY <1>1
<1>3. \A k \in Range(Combinations) : \E i \in S : Combinations[i] = k
    BY <1>2 DEF Range
<1>4. Combinations \in Surjection(S, Range(Combinations))
    BY <1>2, <1>3, Zenon DEF Surjection
<1>5. IsFiniteSet(S)
    <2>1. 1 \in Int /\ Len(Combinations) \in Int
        BY <1>1
    <2> QED
        BY <2>1, FS_Interval
<1> QED
    BY <1>4, <1>5, FS_Surjection, Zenon

LEMMA VariantsStart == VariantInit => VariantInv
<1> SUFFICES ASSUME VariantInit PROVE VariantInv
    OBVIOUS
<1>1. DOMAIN variants = {} /\ Len(variants) = 0 /\ variants \in Seq(VariantRow)
    BY EmptySeq DEF VariantInit
<1>2. imageQueue \in Seq(RowIds) /\ DOMAIN painting = {}
    BY EmptySeq DEF VariantInit
<1>3. VariantShape
    BY <1>1, <1>2, VariantsAssumption DEF VariantInit, VariantShape, Resting, RowIds
<1> QED
    BY <1>1, <1>3 DEF VariantInit, VariantInv, PaintedByAJob, OneVariantPerCombination, LeftAlone

\* New rows come behind those there are, one for each combination that had none.
LEMMA Inserted ==
    ASSUME VariantShape, NEW c \in VariantClicks, InsertVariants(c)
    PROVE  /\ variants' \in Seq(VariantRow) /\ Len(variants') <= MaxVariants
           /\ DOMAIN variants \subseteq DOMAIN variants'
           /\ \A i \in DOMAIN variants : variants'[i] = variants[i]
           /\ \A i \in DOMAIN variants' \ DOMAIN variants :
                  /\ variants'[i].status # "generating_image"
                  /\ ~Active(variants'[i].key)
           /\ \A i, j \in DOMAIN variants' \ DOMAIN variants :
                  variants'[i].key = variants'[j].key => i = j
           /\ generateAt' = [generateAt EXCEPT ![c] =
                  [at |-> "enqueue", seen |-> {},
                   todo |-> {id \in DOMAIN variants' : NeedsImage(variants'[id])}]]
           /\ UNCHANGED <<scene, imageQueue, painting, overridden, cutOff>>
<1> DEFINE n == Cardinality(Missing(c))
<1>1. PICK keys \in [1 .. n -> Missing(c)] :
          /\ IsInjective(keys)
          /\ variants' = variants \o [i \in 1 .. n |-> NewRow(keys[i])]
    BY DEF InsertVariants
<1>2. n \in Nat /\ Len(variants) \in Nat /\ Len(variants) + n <= MaxVariants
      /\ DOMAIN variants = 1 .. Len(variants)
    <2>1. IsFiniteSet(Missing(c))
        BY CombinationsAreFinite, FS_Subset DEF Missing
    <2> QED
        BY <2>1, FS_CardinalityType, LenProperties DEF VariantShape, InsertVariants
<1> HIDE DEF n
<1> DEFINE new == [i \in 1 .. n |-> NewRow(keys[i])]
<1>3. \A i \in 1 .. n : keys[i] \in Missing(c) /\ keys[i] \in Range(Combinations)
    BY <1>1 DEF Missing
<1>4. \A i \in 1 .. n : new[i] \in VariantRow /\ new[i].key = keys[i] /\ new[i].status # "generating_image"
    BY <1>3 DEF NewRow, VariantRow
<1>5. new \in Seq(VariantRow) /\ Len(new) = n
    BY <1>2, <1>4, IsASeq
<1> HIDE DEF new
<1>6. /\ variants' \in Seq(VariantRow) /\ Len(variants') = Len(variants) + n
      /\ \A i \in 1 .. Len(variants) + n :
            variants'[i] = IF i <= Len(variants) THEN variants[i] ELSE new[i - Len(variants)]
    <2>1. variants \in Seq(VariantRow) /\ variants' = variants \o new
        BY <1>1 DEF VariantShape, new
    <2> QED
        BY <1>5, <2>1, ConcatProperties
<1>7. DOMAIN variants' = 1 .. Len(variants) + n
    BY <1>6, LenProperties
<1>8. \A i \in DOMAIN variants' \ DOMAIN variants :
         i - Len(variants) \in 1 .. n /\ variants'[i] = new[i - Len(variants)]
    BY <1>2, <1>6, <1>7
<1>9. \A i \in 1 .. n : ~Active(keys[i])
    BY <1>3 DEF InsertVariants, InsertTakes
<1>10. \A i, j \in 1 .. n : keys[i] = keys[j] => i = j
    BY <1>1 DEF IsInjective
<1>11. \A i, j \in DOMAIN variants' \ DOMAIN variants :
         variants'[i].key = variants'[j].key => i = j
    BY <1>2, <1>4, <1>7, <1>8, <1>10
<1>12. /\ DOMAIN variants \subseteq DOMAIN variants' /\ Len(variants') <= MaxVariants
       /\ \A i \in DOMAIN variants : variants'[i] = variants[i]
    BY <1>2, <1>6, <1>7
<1>13. \A i \in DOMAIN variants' \ DOMAIN variants :
         variants'[i].status # "generating_image" /\ ~Active(variants'[i].key)
    BY <1>4, <1>8, <1>9
<1>14. /\ generateAt' = [generateAt EXCEPT ![c] =
              [at |-> "enqueue", seen |-> {},
               todo |-> {id \in DOMAIN variants' : NeedsImage(variants'[id])}]]
       /\ UNCHANGED <<scene, imageQueue, painting, overridden, cutOff>>
    BY DEF InsertVariants
<1> QED
    BY <1>6, <1>11, <1>12, <1>13, <1>14

\* The steps of a click.
LEMMA GenerateKept ==
    ASSUME VariantInv, NEW c \in VariantClicks, LoadVariants(c) \/ GenerateStep(c)
    PROVE  VariantInv'
<1> USE DEF VariantInv
<1>1. CASE LoadVariants(c) \/ InsertRaises(c) \/ VariantsAnswered(c)
    <2> DEFINE Place == [at : {"idle", "insert", "enqueue", "answered"},
                         seen : SUBSET Range(Combinations), todo : SUBSET RowIds]
    <2>0. PICK place \in Place :
             /\ generateAt' = [generateAt EXCEPT ![c] = place] /\ place.todo = {}
             /\ UNCHANGED <<variants, imageQueue, painting, overridden, cutOff>>
        <3>1. CASE LoadVariants(c)
            <4> WITNESS [at |-> "insert", todo |-> {},
                         seen |-> {k \in Range(Combinations) : Active(k)}] \in Place
            <4> QED
                BY <3>1 DEF LoadVariants
        <3>2. CASE InsertRaises(c) \/ VariantsAnswered(c)
            <4> WITNESS [at |-> "answered", seen |-> {}, todo |-> {}] \in Place
            <4> QED
                BY <3>2 DEF InsertRaises, VariantsAnswered, Resting
        <3> QED
            BY <1>1, <3>1, <3>2
    <2>1. /\ UNCHANGED <<variants, imageQueue, painting, overridden, cutOff>>
          /\ \A d \in VariantClicks : generateAt'[d].todo \subseteq generateAt[d].todo
          /\ VariantShape'
        BY <2>0 DEF VariantShape, RowIds
    <2> QED
        BY <2>1 DEF PaintedByAJob, OneVariantPerCombination, LeftAlone, Waiting
<1>2. CASE InsertVariants(c)
    <2> USE Inserted, <1>2
    <2>1. RowIds \subseteq RowIds' /\ imageQueue' \in Seq(RowIds') /\ overridden \subseteq RowIds
        BY SeqMonotonic DEF RowIds, VariantShape
    <2>2. VariantShape'
        BY <2>1 DEF VariantShape, RowIds
    <2>3. PaintedByAJob'
        BY DEF PaintedByAJob
    <2>4. OneVariantPerCombination'
        BY DEF OneVariantPerCombination, Active
    <2>5. LeftAlone'
        <3> SUFFICES ASSUME NEW id \in overridden, ~variants'[id].deleted
                     PROVE  /\ variants'[id].status = "manual_override"
                            /\ variants'[id].by = "user" /\ ~Waiting(id)'
            BY DEF LeftAlone
        <3>1. /\ variants'[id] = variants[id] /\ variants[id].status = "manual_override"
              /\ variants[id].by = "user" /\ ~Waiting(id)
            BY <2>1 DEF LeftAlone, RowIds
        <3>2. \A d \in VariantClicks : id \notin generateAt'[d].todo
            BY <3>1 DEF Waiting, NeedsImage, VariantShape
        <3> QED
            BY <3>1, <3>2 DEF Waiting
    <2> QED
        BY <2>2, <2>3, <2>4, <2>5
<1>3. CASE EnqueueImage(c)
    <2>1. PICK id \in generateAt[c].todo :
             /\ imageQueue' = Append(imageQueue, id) \/ UNCHANGED imageQueue
             /\ generateAt' = [generateAt EXCEPT ![c].todo = @ \ {id}]
             /\ UNCHANGED <<variants, painting, overridden, cutOff>>
        BY <1>3 DEF EnqueueImage
    <2>2. id \in RowIds
        BY DEF VariantShape
    <2>3. imageQueue' \in Seq(RowIds) /\ Range(imageQueue') \subseteq Range(imageQueue) \cup {id}
        <3>1. CASE imageQueue' = Append(imageQueue, id)
            BY <2>2, <3>1, Appended DEF VariantShape
        <3> QED
            BY <2>1, <3>1 DEF VariantShape
    <2>4. VariantShape'
        BY <2>1, <2>3 DEF VariantShape, RowIds
    <2>5. \A i \in RowIds : Waiting(i)' => Waiting(i)
        BY <2>1, <2>3 DEF Waiting, VariantShape
    <2> QED
        BY <2>1, <2>4, <2>5 DEF PaintedByAJob, OneVariantPerCombination, LeftAlone, VariantShape, RowIds
<1> QED
    BY <1>1, <1>2, <1>3 DEF GenerateStep

\* A step that changes one row, and queues a job for no row that is left alone.
LEMMA RowKept ==
    ASSUME VariantInv, NEW id \in RowIds, NEW row \in VariantRow,
           variants' = [variants EXCEPT ![id] = row],
           row.key = variants[id].key, variants[id].deleted => row.deleted,
           VariantShape',
           row.status = "generating_image" => id \in DOMAIN painting' \cup cutOff',
           DOMAIN painting \subseteq DOMAIN painting' \cup {id}, cutOff \subseteq cutOff',
           overridden' \subseteq overridden \cup {id},
           \A i \in RowIds \ {id} : Waiting(i)' => Waiting(i),
           id \in overridden' /\ ~row.deleted =>
              row.status = "manual_override" /\ row.by = "user" /\ ~Waiting(id)'
    PROVE  VariantInv'
<1>1. DOMAIN variants' = RowIds /\ variants'[id] = row
      /\ \A i \in RowIds \ {id} : variants'[i] = variants[i]
    BY DEF RowIds
<1>2. PaintedByAJob' /\ OneVariantPerCombination'
    BY <1>1 DEF VariantInv, PaintedByAJob, OneVariantPerCombination, RowIds
<1>3. LeftAlone'
    BY <1>1 DEF VariantInv, VariantShape, LeftAlone, RowIds
<1> QED
    BY <1>2, <1>3 DEF VariantInv

LEMMA ImageKept ==
    ASSUME VariantInv, StartImage \/ \E id \in 1 .. MaxVariants : ImageStep(id) \/ ImageJobKilled(id)
    PROVE  VariantInv'
<1> USE DEF VariantInv, VariantShape
<1>1. CASE StartImage
    <2>1. /\ imageQueue # <<>> /\ imageQueue' = Tail(imageQueue)
          /\ imageQueue[1] = Head(imageQueue)
          /\ Head(imageQueue) \in RowIds /\ Tail(imageQueue) \in Seq(RowIds)
          /\ Range(imageQueue) = {Head(imageQueue)} \cup Range(Tail(imageQueue))
        BY <1>1, Popped, HeadTailProperties DEF StartImage
    <2> DEFINE id == Head(imageQueue)
    <2>2. Waiting(id)
        BY <2>1 DEF Waiting
    <2>3. CASE variants[id].deleted
        <3>1. UNCHANGED <<variants, painting, generateAt, overridden, cutOff>>
            BY <1>1, <2>1, <2>3 DEF StartImage
        <3> QED
            BY <2>1, <3>1 DEF PaintedByAJob, OneVariantPerCombination, LeftAlone, Waiting, RowIds
    <2>4. CASE ~variants[id].deleted
        <3> DEFINE row == [variants[id] EXCEPT !.status = "generating_image"]
        <3>1. /\ variants' = [variants EXCEPT ![id] = row] /\ UNCHANGED <<generateAt, overridden, cutOff>>
              /\ painting' = [i \in DOMAIN painting \cup {id} |->
                                IF i = id THEN "nothing" ELSE painting[i]]
            BY <1>1, <2>1, <2>4 DEF StartImage
        <3>2. id \notin overridden /\ id \in RowIds
            BY <2>1, <2>2, <2>4 DEF LeftAlone
        <3>2a. variants[id] \in VariantRow
            BY <3>2 DEF RowIds
        <3>3. /\ row \in VariantRow
              /\ row.key = variants[id].key /\ row.deleted = variants[id].deleted
            BY <3>2a DEF VariantRow
        <3>4. variants' \in Seq(VariantRow) /\ Len(variants') = Len(variants) /\ DOMAIN variants' = RowIds
            BY <3>1, <3>2, <3>3, ExceptSeq DEF RowIds
        <3>5. DOMAIN painting' = DOMAIN painting \cup {id}
              /\ painting' = [i \in DOMAIN painting' |-> painting'[i]]
            BY <3>1
        <3>6. VariantShape'
            BY <2>1, <3>1, <3>2, <3>4, <3>5 DEF RowIds
        <3>7. \A i \in RowIds \ {id} : Waiting(i)' => Waiting(i)
            BY <2>1, <3>1, <3>5 DEF Waiting
        <3> HIDE DEF row
        <3> QED
            BY <3>1, <3>2, <3>3, <3>5, <3>6, <3>7, RowKept
    <2> QED
        BY <2>3, <2>4
<1>2. ASSUME NEW id \in DOMAIN painting, NEW row \in VariantRow,
             variants' = [variants EXCEPT ![id] = row],
             row.key = variants[id].key, row.deleted = variants[id].deleted,
             row.status # "generating_image", painting' = Without(id),
             UNCHANGED <<generateAt, imageQueue, overridden, cutOff>>
      PROVE  VariantInv'
    <2>1. id \in RowIds /\ Waiting(id)
        BY DEF Waiting
    <2>2. id \in overridden => row.deleted
        BY <1>2, <2>1 DEF LeftAlone
    <2>3. variants' \in Seq(VariantRow) /\ Len(variants') = Len(variants) /\ DOMAIN variants' = RowIds
        BY <1>2, <2>1, ExceptSeq DEF RowIds
    <2>4. DOMAIN painting' = DOMAIN painting \ {id} /\ painting' = [i \in DOMAIN painting' |-> painting'[i]]
        BY <1>2 DEF Without
    <2>5. VariantShape'
        BY <1>2, <2>3, <2>4 DEF RowIds
    <2>6. \A i \in RowIds \ {id} : Waiting(i)' => Waiting(i)
        BY <1>2, <2>4 DEF Waiting
    <2> QED
        BY <1>2, <2>1, <2>2, <2>4, <2>5, <2>6, RowKept
<1>3. ASSUME NEW id \in 1 .. MaxVariants, ImageGenerated(id) PROVE VariantInv'
    <2> DEFINE row == [variants[id] EXCEPT !.status = "ready", !.by = "model"]
    <2>1. variants[id] \in VariantRow /\ id \in DOMAIN painting
        BY <1>3 DEF ImageGenerated, RowIds
    <2>2. /\ row \in VariantRow /\ row.key = variants[id].key /\ row.deleted = variants[id].deleted
          /\ row.status # "generating_image"
        BY <2>1 DEF VariantRow
    <2>3. variants' = [variants EXCEPT ![id] = row]
        BY <1>3 DEF ImageGenerated, OnlyDirty
    <2> HIDE DEF row
    <2> QED
        BY <1>2, <1>3, <2>1, <2>2, <2>3 DEF ImageGenerated
<1>4. ASSUME NEW id \in 1 .. MaxVariants, ImageFails(id) PROVE VariantInv'
    <2> DEFINE row == [variants[id] EXCEPT !.status = StatusOnError]
    <2>1. variants[id] \in VariantRow /\ id \in DOMAIN painting
        BY <1>4 DEF ImageFails, RowIds
    <2>2. /\ row \in VariantRow /\ row.key = variants[id].key /\ row.deleted = variants[id].deleted
          /\ row.status # "generating_image"
        BY <2>1 DEF VariantRow, StatusOnError
    <2>3. variants' = [variants EXCEPT ![id] = row]
        BY <1>4 DEF ImageFails
    <2> HIDE DEF row
    <2> QED
        BY <1>2, <1>4, <2>1, <2>2, <2>3 DEF ImageFails
<1>5. ASSUME NEW id \in 1 .. MaxVariants, ImageJobKilled(id) PROVE VariantInv'
    <2>1. DOMAIN painting' = DOMAIN painting \ {id} /\ painting' = [i \in DOMAIN painting' |-> painting'[i]]
          /\ cutOff' = cutOff \cup {id} /\ UNCHANGED <<variants, generateAt, imageQueue, overridden>>
        BY <1>5 DEF ImageJobKilled, Without
    <2>2. VariantShape'
        BY <2>1 DEF RowIds
    <2> QED
        BY <2>1, <2>2 DEF PaintedByAJob, OneVariantPerCombination, LeftAlone, Waiting
<1> QED
    BY <1>1, <1>3, <1>4, <1>5 DEF ImageStep

LEMMA UserKept ==
    ASSUME VariantInv, NEW id \in 1 .. MaxVariants,
           AskForImage(id) \/ OverrideImage(id) \/ DeleteVariant(id)
    PROVE  VariantInv'
<1> USE DEF VariantInv, VariantShape
<1>1. id \in RowIds /\ variants[id] \in VariantRow /\ UNCHANGED <<painting, generateAt, cutOff>>
    BY DEF AskForImage, OverrideImage, DeleteVariant, RowIds
<1>2. ASSUME NEW row \in VariantRow, variants' = [variants EXCEPT ![id] = row]
      PROVE  variants' \in Seq(VariantRow) /\ Len(variants') = Len(variants) /\ DOMAIN variants' = RowIds
    BY <1>1, <1>2, ExceptSeq DEF RowIds
<1>3. CASE AskForImage(id)
    <2> DEFINE row == [variants[id] EXCEPT !.status = "pending_generation"]
    <2>1. /\ row \in VariantRow /\ row.key = variants[id].key /\ row.deleted = variants[id].deleted
          /\ row.status # "generating_image"
        BY <1>1 DEF VariantRow
    <2>2. variants' = [variants EXCEPT ![id] = row] /\ overridden' = overridden \ {id}
        BY <1>3 DEF AskForImage
    <2>3. imageQueue' \in Seq(RowIds) /\ Range(imageQueue') \subseteq Range(imageQueue) \cup {id}
        <3>1. CASE imageQueue' = Append(imageQueue, id)
            BY <1>1, <3>1, Appended
        <3> QED
            BY <1>3, <3>1 DEF AskForImage
    <2> HIDE DEF row
    <2>4. VariantShape'
        BY <1>1, <1>2, <2>1, <2>2, <2>3 DEF RowIds
    <2>5. \A i \in RowIds \ {id} : Waiting(i)' => Waiting(i)
        BY <1>1, <2>3 DEF Waiting
    <2> QED
        BY <1>1, <2>1, <2>2, <2>4, <2>5, RowKept
<1>4. CASE OverrideImage(id)
    <2> DEFINE row == [variants[id] EXCEPT !.status = "manual_override", !.by = "user"]
    <2>1. /\ row \in VariantRow /\ row.key = variants[id].key /\ row.deleted = variants[id].deleted
          /\ row.status = "manual_override" /\ row.by = "user"
        BY <1>1 DEF VariantRow
    <2>2. /\ variants' = [variants EXCEPT ![id] = row] /\ UNCHANGED imageQueue
          /\ overridden' = IF Waiting(id) THEN overridden ELSE overridden \cup {id}
          /\ ~variants[id].deleted
        BY <1>1, <1>4 DEF OverrideImage, VariantRow, RowIds
    <2> HIDE DEF row
    <2>3. VariantShape'
        BY <1>1, <1>2, <2>1, <2>2 DEF RowIds
    <2>4. \A i \in RowIds : Waiting(i)' <=> Waiting(i)
        BY <1>1, <2>2 DEF Waiting
    <2>5. id \in overridden' => ~Waiting(id)'
        BY <1>1, <2>2, <2>4 DEF LeftAlone
    <2>6. row.status # "generating_image" /\ overridden' \subseteq overridden \cup {id}
        BY <2>1, <2>2
    <2> QED
        BY <1>1, <2>1, <2>2, <2>3, <2>4, <2>5, <2>6, RowKept
<1>5. CASE DeleteVariant(id)
    <2> DEFINE row == [variants[id] EXCEPT !.deleted = TRUE]
    <2>1. /\ row \in VariantRow /\ row.key = variants[id].key /\ row.deleted
          /\ row.status = variants[id].status
        BY <1>1 DEF VariantRow
    <2>2. variants' = [variants EXCEPT ![id] = row] /\ UNCHANGED <<imageQueue, overridden>>
        BY <1>5 DEF DeleteVariant
    <2> HIDE DEF row
    <2>3. VariantShape'
        BY <1>1, <1>2, <2>1, <2>2 DEF RowIds
    <2>4. \A i \in RowIds \ {id} : Waiting(i)' => Waiting(i)
        BY <1>1, <2>2 DEF Waiting
    <2>5. row.status = "generating_image" => id \in DOMAIN painting' \cup cutOff'
        BY <1>1, <2>1 DEF PaintedByAJob, RowIds
    <2> QED
        BY <1>1, <2>1, <2>2, <2>3, <2>4, <2>5, RowKept
<1> QED
    BY <1>3, <1>4, <1>5

LEMMA VariantsHold == VariantSafety => []VariantInv
<1>1. VariantInv /\ [VariantNext]_<<scene, variantVars>> => VariantInv'
    <2> SUFFICES ASSUME VariantInv, [VariantNext]_<<scene, variantVars>> PROVE VariantInv'
        OBVIOUS
    <2>1. CASE UNCHANGED <<scene, variantVars>>
        BY <2>1 DEF variantVars, VariantInv, VariantShape, PaintedByAJob, OneVariantPerCombination,
            LeftAlone, Waiting, RowIds
    <2> QED
        BY <2>1, GenerateKept, ImageKept, UserKept DEF VariantNext
<1> QED
    BY <1>1, VariantsStart, PTL DEF VariantSafety

-----------------------------------------------------------------------------
(* Accounts.                                                               *)

AccountsSafety == AccountsInit /\ [][AccountsNext]_<<scene, accountVars>>

AccountsShape ==
    /\ signUpAt \in [DOMAIN SignUps -> {"idle", "insert", "role", "created", "cut_off", "refused"}]
    /\ DOMAIN session = DOMAIN SignUps
    /\ \A user \in people : user.by \in DOMAIN SignUps /\ user.email = EmailOf(user.by)

SignedUp ==
    /\ \A a, b \in people : a.email = b.email => a = b
    /\ \A user \in people : signUpAt[user.by] \in {"role", "created", "cut_off"}
    /\ \A q \in DOMAIN SignUps : signUpAt[q] \in {"role", "created", "cut_off"} =>
          \E user \in people : user.by = q
    /\ \A r \in roles : /\ r.by \in DOMAIN SignUps /\ r.role = SignUps[r.by].role
                        /\ signUpAt[r.by] = "created"
    /\ \A q \in DOMAIN SignUps : signUpAt[q] = "created" =>
          \E r \in roles : r.by = q

SessionsAreTrue ==
    \A q \in DOMAIN SignUps : session[q] \notin {"none", "forbidden"} =>
        \E user \in people : /\ user.email = Addresses[SignUps[q].address]
                             /\ session[q] = SignUps[user.by].role

AccountsInv == AccountsShape /\ SignedUp /\ SessionsAreTrue

LEMMA AccountsStart == AccountsInit => AccountsInv
BY DEF AccountsInit, AccountsInv, AccountsShape, SignedUp, SessionsAreTrue

LEMMA EmailIs ==
    ASSUME NEW q \in DOMAIN SignUps
    PROVE  /\ EmailOf(q) = Addresses[SignUps[q].address]
           /\ Addresses[EmailOf(q)] = EmailOf(q)
BY AddressesAssumption DEF EmailOf, Normal

LEMMA AccountsKept ==
    AccountsInv /\ [AccountsNext]_<<scene, accountVars>> => AccountsInv'
<1> SUFFICES ASSUME AccountsInv, [AccountsNext]_<<scene, accountVars>> PROVE AccountsInv'
    OBVIOUS
<1> USE DEF AccountsInv, AccountsShape
<1>1. ASSUME NEW q \in DOMAIN SignUps, LookForUser(q) \/ CutOff(q) PROVE AccountsInv'
    BY <1>1 DEF LookForUser, CutOff, SignedUp, SessionsAreTrue
<1>2. ASSUME NEW q \in DOMAIN SignUps, CreateUser(q) PROVE AccountsInv'
    <2>1. CASE Taken(EmailOf(q))
        BY <1>2, <2>1 DEF CreateUser, SignedUp, SessionsAreTrue
    <2>2. CASE ~Taken(EmailOf(q))
        <3> DEFINE user == [email |-> EmailOf(q), by |-> q]
        <3>1. /\ people' = people \cup {user} /\ signUpAt[q] = "insert"
              /\ signUpAt' = [signUpAt EXCEPT ![q] = "role"] /\ UNCHANGED <<roles, session>>
            BY <1>2, <2>2 DEF CreateUser
        <3>2. user.email = EmailOf(q) /\ user.by = q /\ \A x \in people : x.email # user.email
            BY <2>2 DEF Taken
        <3> HIDE DEF user
        <3>3. AccountsShape'
            BY <3>1, <3>2
        <3>4. SignedUp'
            BY <3>1, <3>2 DEF SignedUp
        <3>5. SessionsAreTrue'
            BY <3>1 DEF SessionsAreTrue
        <3> QED
            BY <3>3, <3>4, <3>5
    <2> QED
        BY <2>1, <2>2
<1>3. ASSUME NEW q \in DOMAIN SignUps, AssignRole(q) PROVE AccountsInv'
    <2> DEFINE row == [by |-> q, role |-> SignUps[q].role]
    <2>1. /\ roles' = roles \cup {row} /\ signUpAt[q] = "role"
          /\ signUpAt' = [signUpAt EXCEPT ![q] = "created"] /\ UNCHANGED <<people, session>>
        BY <1>3 DEF AssignRole
    <2>2. row.by = q /\ row.role = SignUps[q].role
        OBVIOUS
    <2> HIDE DEF row
    <2> QED
        BY <2>1, <2>2 DEF SignedUp, SessionsAreTrue
<1>4. ASSUME NEW q \in DOMAIN SignUps, LogIn(q) PROVE AccountsInv'
    <2>1. PICK user \in people :
             LET mine == {r.role : r \in {x \in roles : x.by = user.by}}
             IN  /\ user.email = Addresses[SignUps[q].address]
                 /\ session' = [session EXCEPT ![q] =
                        IF mine = {} THEN "forbidden" ELSE CHOOSE r \in mine : TRUE]
        BY <1>4 DEF LogIn, Taken
    <2> DEFINE mine == {r.role : r \in {x \in roles : x.by = user.by}}
    <2>2. \A role \in mine : role = SignUps[user.by].role
        BY DEF SignedUp
    <2>3. session'[q] # "forbidden" => session'[q] = SignUps[user.by].role
        BY <2>1, <2>2
    <2>4. SessionsAreTrue'
        <3>1. \A p \in DOMAIN SignUps \ {q} : session'[p] = session[p]
            BY <2>1
        <3>2. people' = people
            BY <1>4 DEF LogIn
        <3> QED
            BY <2>1, <2>3, <3>1, <3>2 DEF SessionsAreTrue
    <2> QED
        BY <1>4, <2>4 DEF LogIn, SignedUp
<1>5. CASE UNCHANGED <<scene, accountVars>>
    BY <1>5 DEF accountVars, SignedUp, SessionsAreTrue
<1> QED
    BY <1>1, <1>2, <1>3, <1>4, <1>5 DEF AccountsNext

LEMMA AccountsHold == AccountsSafety => []AccountsInv
BY AccountsStart, AccountsKept, PTL DEF AccountsSafety

LEMMA AccountIsOne == AccountsInv => OneAccountPerPerson
<1> SUFFICES ASSUME AccountsInv PROVE OneAccountPerPerson
    OBVIOUS
<1> USE DEF AccountsInv, AccountsShape, SignedUp
<1>1. \A a, b \in people : Addresses[a.email] = Addresses[b.email] => a = b
    BY EmailIs
<1>2. ASSUME NEW q \in DOMAIN SignUps, signUpAt[q] = "created"
      PROVE  /\ Taken(Addresses[SignUps[q].address])
             /\ {r.role : r \in {x \in roles : x.by = q}} = {SignUps[q].role}
    <2>1. PICK user \in people : user.by = q
        BY <1>2
    <2>2. Taken(Addresses[SignUps[q].address])
        BY <2>1, EmailIs DEF Taken
    <2>3. PICK r \in roles : r.by = q
        BY <1>2
    <2>4. \A x \in roles : x.by = q => x.role = SignUps[q].role
        OBVIOUS
    <2> QED
        BY <2>2, <2>3, <2>4
<1>3. \A user \in people :
         (\A r \in roles : r.by # user.by) => signUpAt[user.by] \in {"role", "cut_off"}
    OBVIOUS
<1> QED
    BY <1>1, <1>2, <1>3 DEF OneAccountPerPerson, SessionsAreTrue

-----------------------------------------------------------------------------
(* Mirrors: factories.  Clients: slots and tokens.                         *)

MirrorSafety == MirrorInit /\ [][MirrorNext]_<<scene, mirrorVars>>
ClientsSafety == ClientsInit /\ [][ClientsNext]_<<scene, clientVars>>

\* The next slot is so far away as the last one is near.
SlotInv ==
    /\ slotIn \in Nat /\ sinceSlot \in Nat
    /\ slotIn + sinceSlot >= Interval
    /\ ~tooClose

LEMMA FactoriesHold == MirrorSafety => []FactoriesOnce
<1>1. MirrorInit => FactoriesOnce
    BY DEF MirrorInit, FactoriesOnce
<1>2. FactoriesOnce /\ [MirrorNext]_<<scene, mirrorVars>> => FactoriesOnce'
    <2> SUFFICES ASSUME FactoriesOnce, [MirrorNext]_<<scene, mirrorVars>> PROVE FactoriesOnce'
        OBVIOUS
    <2>1. ASSUME NEW f \in FactoryRequests, InsertFactories(f) PROVE FactoriesOnce'
        <3> DEFINE left == factories \ factoryAt[f].doomed
                   answer == factoryAt[f].answer
        <3>1. CASE ~Inserts(left, answer)
            BY <2>1, <3>1 DEF InsertFactories, FactoriesOnce
        <3>2. CASE Inserts(left, answer)
            <4>1. factories' = left \cup (answer \X {f})
                BY <2>1, <3>2 DEF InsertFactories
            <4>2. \A row \in answer \X {f} : row[1] \in answer /\ row = <<row[1], f>>
                OBVIOUS
            <4>3. \A row \in left : row[1] \notin answer
                BY <3>2 DEF Inserts
            <4>4. \A a, b \in left : a[1] = b[1] => a = b
                BY DEF FactoriesOnce
            <4> HIDE DEF left, answer
            <4> QED
                BY <4>1, <4>2, <4>3, <4>4 DEF FactoriesOnce
        <3> QED
            BY <3>1, <3>2
    <2>2. ASSUME UNCHANGED factories PROVE FactoriesOnce'
        BY <2>2 DEF FactoriesOnce
    <2> QED
        BY <2>1, <2>2 DEF MirrorNext, MediaStep, ImageSyncStep, OttoEdits, BeginMediaRun, GetProduct,
            GetRefused, CompareProduct, CommitProduct, MediaRaises, BeginImageRun, FetchChunk,
            ImageRunRaises, ShowImages, DeleteFactories, factoryVars, mirrorVars
<1> QED
    BY <1>1, <1>2, PTL DEF MirrorSafety

LEMMA SlotsHold == ClientsSafety => []SlotInv
<1>1. ClientsInit => SlotInv
    BY CallTimeAssumption DEF ClientsInit, SlotInv
<1>2. SlotInv /\ [ClientsNext]_<<scene, clientVars>> => SlotInv'
    <2> SUFFICES ASSUME SlotInv, [ClientsNext]_<<scene, clientVars>> PROVE SlotInv'
        OBVIOUS
    <2>1. ASSUME NEW t \in Translators, TakeSlot(t) PROVE SlotInv'
        <3>1. slotIn = 0 /\ slotIn + sinceSlot >= Interval /\ Interval \in Nat /\ sinceSlot \in Nat
            BY <2>1, CallTimeAssumption DEF TakeSlot, SlotIsFree, SlotInv
        <3>2. ~(sinceSlot < Interval)
            BY <3>1
        <3>3. slotIn' = Interval /\ sinceSlot' = 0 /\ tooClose' = (tooClose \/ sinceSlot < Interval)
            BY <2>1 DEF TakeSlot
        <3>4. ~tooClose'
            BY <3>2, <3>3 DEF SlotInv
        <3>5. slotIn' \in Nat /\ sinceSlot' \in Nat /\ slotIn' + sinceSlot' >= Interval
            BY <3>1, <3>3
        <3> QED
            BY <3>4, <3>5 DEF SlotInv
    <2>2. CASE DeepLTick
        <3>1. Interval \in Nat /\ slotIn \in Nat /\ sinceSlot \in Nat /\ slotIn + sinceSlot >= Interval
            BY CallTimeAssumption DEF SlotInv
        <3>2. /\ slotIn' = IF slotIn = 0 THEN 0 ELSE slotIn - 1
              /\ sinceSlot' = IF sinceSlot + 1 < Interval THEN sinceSlot + 1 ELSE Interval
            BY <2>2 DEF DeepLTick, Less, AtMost
        <3>3. slotIn' \in Nat /\ sinceSlot' \in Nat /\ slotIn' + sinceSlot' >= Interval
            BY <3>1, <3>2
        <3>4. ~tooClose'
            BY <2>2 DEF DeepLTick, SlotInv
        <3> QED
            BY <3>3, <3>4 DEF SlotInv
    <2>3. ASSUME UNCHANGED <<slotIn, sinceSlot, tooClose>> PROVE SlotInv'
        BY <2>3 DEF SlotInv
    <2> QED
        BY <2>1, <2>2, <2>3 DEF ClientsNext, CallStep, TranslateStep, TokenTick, GetToken, IssueToken,
            TokenArrives, TokenRefused, RequestArrives, WantSlot, DeepLAnswers, deeplVars, clientVars
<1> QED
    BY <1>1, <1>2, PTL DEF ClientsSafety

-----------------------------------------------------------------------------
(* MarketUpdates: what the tables say and what OTTO has.                   *)

MarketSafety == MarketInit /\ [][MarketNext]_<<scene, marketVars>>

ImportPairs == {x \in Accounts \X Priced : x[2] \in ImportedIn[x[1]]}

PriceShape ==
    /\ DOMAIN rowPrice = Priced
    /\ DOMAIN importPrice = ImportPairs /\ DOMAIN listedPrice = ImportPairs
    /\ agreed \subseteq ImportPairs
    /\ DOMAIN priceAt = PriceChanges
    /\ \A r \in PriceChanges :
          priceAt[r] = [at |-> priceAt[r].at, todo |-> priceAt[r].todo,
                        mixed |-> priceAt[r].mixed, seen |-> priceAt[r].seen]

\* A request that has met no other finds the rows as it has loaded them, and OTTO
\* has the prices of the accounts it is done with.
SendsAlone(r) ==
    /\ Sending = {r}
    /\ priceAt[r].seen = <<rowPrice, importPrice>>
    /\ \A pair \in SentPairs(r) :
          pair[1] \notin priceAt[r].todo => listedPrice[pair] = LastPrice(r, pair[2])

PriceInv ==
    /\ PriceShape /\ PricesAgree
    /\ \A r \in Sending : ~priceAt[r].mixed => SendsAlone(r)

Off(p) == shelf[p].quantity = 0 /\ shelf[p].active = FALSE

OffInv ==
    /\ offAt \in [DOMAIN Identifiers -> {"waiting", "quantity", "status", "done", "failed",
                                         "answered_done", "answered_failed"}]
    /\ shelf \in [Shelved -> [quantity : {0, 5}, active : BOOLEAN]]
    /\ \A i \in DOMAIN Identifiers :
          /\ offAt[i] \in {"quantity", "status", "done", "answered_done"} => ProductOf(i) \in Shelved
          /\ offAt[i] = "status" => shelf[ProductOf(i)].quantity = 0
          /\ offAt[i] = "done" => ProductOf(i) \in offInSession
    /\ offInSession \subseteq Shelved /\ rowOff \subseteq Shelved
    /\ \A p \in offInSession \cup rowOff : Off(p)
    /\ AnsweredIsOff

LEMMA MarketStarts == MarketInit => PriceInv /\ OffInv
<1> SUFFICES ASSUME MarketInit PROVE PriceInv /\ OffInv
    OBVIOUS
<1>1. /\ rowPrice = [p \in Priced |-> 0] /\ importPrice = [pair \in ImportPairs |-> 0]
      /\ listedPrice = importPrice /\ agreed = ImportPairs
      /\ priceAt = [r \in PriceChanges |-> Over("idle")]
    BY DEF MarketInit, ImportPairs
<1>2. PriceShape
    BY <1>1 DEF PriceShape, Over
<1>3. PricesAgree
    BY <1>1 DEF PricesAgree, ImportPairs
<1>4. Sending = {}
    BY <1>1 DEF Sending, Over
<1>5. OffInv
    BY DEF MarketInit, OffInv, AnsweredIsOff
<1> QED
    BY <1>2, <1>3, <1>4, <1>5 DEF PriceInv

LEMMA SentAreImported ==
    ASSUME NEW r \in PriceChanges
    PROVE  SentPairs(r) \subseteq ImportPairs
           /\ \A pair \in SentPairs(r) : Touches(r, pair[2]) /\ pair[2] \in Priced
<1> SUFFICES ASSUME NEW pair \in SentPairs(r)
             PROVE  pair \in ImportPairs /\ Touches(r, pair[2]) /\ pair[2] \in Priced
    OBVIOUS
<1>1. PICK a \in Accounts, item \in Sent(r) : pair = <<a, item[1]>> /\ pair[1] \in AccountsOf(r, pair[2])
    BY DEF SentPairs, Pairs
<1>2. item[1] \in ImportedIn[a] /\ item \in ItemsOf(r)
    BY <1>1 DEF AccountsOf, Sent
<1>3. item[1] \in Priced
    BY <1>2 DEF Priced
<1> QED
    BY <1>1, <1>2, <1>3 DEF ImportPairs, Touches

\* A request that is over, or refused, is none of those that send.
LEMMA LeavesSending ==
    ASSUME PriceInv, NEW r \in PriceChanges, NEW place, place.at # "send",
           place = [at |-> place.at, todo |-> place.todo, mixed |-> place.mixed, seen |-> place.seen],
           priceAt' = [priceAt EXCEPT ![r] = place],
           DOMAIN rowPrice' = Priced, DOMAIN importPrice' = ImportPairs,
           DOMAIN listedPrice' = ImportPairs, agreed' \subseteq ImportPairs,
           PricesAgree', r \in Sending \/ UNCHANGED <<rowPrice, importPrice, listedPrice>>
    PROVE  PriceInv'
<1>1. PriceShape' /\ Sending' = Sending \ {r}
    BY DEF PriceInv, PriceShape, Sending
<1>2. ASSUME NEW q \in Sending', ~priceAt'[q].mixed PROVE SendsAlone(q)'
    <2>1. q # r /\ q \in Sending /\ priceAt'[q] = priceAt[q]
        BY <1>1, <1>2 DEF PriceInv, PriceShape, Sending
    <2>2. SendsAlone(q)
        BY <1>2, <2>1 DEF PriceInv
    <2> QED
        BY <1>1, <2>1, <2>2 DEF SendsAlone
<1> QED
    BY <1>1, <1>2 DEF PriceInv

LEMMA LoadKept ==
    ASSUME PriceInv, NEW r \in PriceChanges, LoadPriceRows(r)
    PROVE  PriceInv'
<1>1. UNCHANGED <<rowPrice, importPrice, listedPrice, agreed>> /\ priceAt[r].at = "idle"
    BY DEF LoadPriceRows
<1>2. PricesAgree'
    BY <1>1 DEF PriceInv, PricesAgree
<1>3. CASE ~OneAccountEach(r)
    <2> DEFINE place == [priceAt[r] EXCEPT !.at = "refused"]
    <2>1. priceAt' = [priceAt EXCEPT ![r] = place]
        BY <1>3 DEF LoadPriceRows
    <2>2. place.at # "send"
          /\ place = [at |-> place.at, todo |-> place.todo, mixed |-> place.mixed, seen |-> place.seen]
        BY DEF PriceInv, PriceShape
    <2> HIDE DEF place
    <2> QED
        BY <1>1, <1>2, <2>1, <2>2, LeavesSending DEF PriceInv, PriceShape
<1>4. CASE OneAccountEach(r)
    <2>1. priceAt' = [q \in PriceChanges |->
                IF q = r THEN [at |-> "send", todo |-> {pair[1] : pair \in SentPairs(r)},
                               mixed |-> Sending # {}, seen |-> <<rowPrice, importPrice>>]
                ELSE IF q \in Sending THEN [priceAt[q] EXCEPT !.mixed = TRUE]
                ELSE priceAt[q]]
        BY <1>4 DEF LoadPriceRows
    <2>2. \A q \in PriceChanges :
             priceAt[q] = [at |-> priceAt[q].at, todo |-> priceAt[q].todo,
                           mixed |-> priceAt[q].mixed, seen |-> priceAt[q].seen]
        BY DEF PriceInv, PriceShape
    <2>3. \A q \in PriceChanges \ {r} : priceAt'[q].at = priceAt[q].at
        BY <2>1, <2>2 DEF Sending
    <2>4. Sending' = Sending \cup {r} /\ r \notin Sending
        BY <1>1, <2>1, <2>3 DEF Sending
    <2>5. PriceShape'
        <3>1. ASSUME NEW q \in PriceChanges
              PROVE  priceAt'[q] = [at |-> priceAt'[q].at, todo |-> priceAt'[q].todo,
                                    mixed |-> priceAt'[q].mixed, seen |-> priceAt'[q].seen]
            <4>1. CASE q = r
                BY <2>1, <4>1
            <4>2. CASE q # r /\ q \in Sending
                BY <2>1, <2>2, <4>2
            <4>3. CASE q # r /\ q \notin Sending
                BY <2>1, <2>2, <4>3
            <4> QED
                BY <4>1, <4>2, <4>3
        <3> QED
            BY <1>1, <2>1, <3>1 DEF PriceInv, PriceShape
    <2>6. ASSUME NEW q \in Sending', ~priceAt'[q].mixed PROVE SendsAlone(q)'
        <3>1. q = r
            <4>1. ASSUME q # r PROVE FALSE
                <5>1. q \in Sending /\ q \in PriceChanges
                    BY <2>4, <4>1 DEF Sending
                <5>2. priceAt'[q] = [priceAt[q] EXCEPT !.mixed = TRUE]
                    BY <2>1, <4>1, <5>1
                <5>3. priceAt'[q].mixed = TRUE
                    BY <2>2, <5>1, <5>2
                <5> QED
                    BY <2>6, <5>3
            <4> QED
                BY <4>1
        <3>2. priceAt'[r] = [at |-> "send", todo |-> {pair[1] : pair \in SentPairs(r)},
                               mixed |-> Sending # {}, seen |-> <<rowPrice, importPrice>>]
            BY <2>1
        <3>3. priceAt'[r].mixed = (Sending # {})
            BY <3>2
        <3>4. Sending = {}
            BY <2>6, <3>1, <3>3, Zenon
        <3> QED
            BY <1>1, <2>4, <3>1, <3>2, <3>4 DEF SendsAlone
    <2> QED
        BY <1>2, <2>5, <2>6 DEF PriceInv
<1> QED
    BY <1>3, <1>4

LEMMA SendKept ==
    ASSUME PriceInv, NEW r \in PriceChanges, NEW a \in Accounts, SendPrices(r, a)
    PROVE  PriceInv'
<1> DEFINE mine == {pair \in SentPairs(r) : pair[1] = a}
<1>1. PICK code \in {202, 422, 0} :
         /\ listedPrice' = [pair \in DOMAIN listedPrice |->
                IF code # 422 /\ pair \in mine THEN LastPrice(r, pair[2]) ELSE listedPrice[pair]]
         /\ agreed' = agreed \ mine
         /\ priceAt' = [priceAt EXCEPT ![r] =
                IF Accepted(code) THEN [priceAt[r] EXCEPT !.todo = @ \ {a}] ELSE Over("refused")]
    BY DEF SendPrices
<1>2. /\ UNCHANGED <<rowPrice, importPrice>> /\ priceAt[r].at = "send" /\ a \in priceAt[r].todo
      /\ r \in Sending
    BY DEF SendPrices, Sending
<1>3. DOMAIN listedPrice' = ImportPairs /\ agreed' \subseteq ImportPairs
    BY <1>1 DEF PriceInv, PriceShape
<1>4. PricesAgree'
    BY <1>1, <1>2 DEF PriceInv, PriceShape, PricesAgree
<1>5. CASE ~Accepted(code)
    <2> DEFINE place == Over("refused")
    <2>1. priceAt' = [priceAt EXCEPT ![r] = place]
        BY <1>1, <1>5
    <2>2. place.at # "send"
          /\ place = [at |-> place.at, todo |-> place.todo, mixed |-> place.mixed, seen |-> place.seen]
        BY DEF Over
    <2> HIDE DEF place
    <2> QED
        BY <1>2, <1>3, <1>4, <2>1, <2>2, LeavesSending DEF PriceInv, PriceShape
<1>6. CASE Accepted(code)
    <2> DEFINE place == [priceAt[r] EXCEPT !.todo = priceAt[r].todo \ {a}]
    <2>0. /\ DOMAIN priceAt = PriceChanges /\ code = 202
          /\ priceAt[r] = [at |-> priceAt[r].at, todo |-> priceAt[r].todo,
                           mixed |-> priceAt[r].mixed, seen |-> priceAt[r].seen]
        BY <1>6 DEF PriceInv, PriceShape, Accepted
    <2>1. priceAt' = [priceAt EXCEPT ![r] = place]
        BY <1>1, <1>6
    <2>2. /\ place.at = "send" /\ place.todo = priceAt[r].todo \ {a}
          /\ place.mixed = priceAt[r].mixed /\ place.seen = priceAt[r].seen
          /\ place = [at |-> place.at, todo |-> place.todo, mixed |-> place.mixed, seen |-> place.seen]
        <3>1. place = [at |-> priceAt[r].at, todo |-> priceAt[r].todo \ {a},
                       mixed |-> priceAt[r].mixed, seen |-> priceAt[r].seen]
            BY <2>0
        <3> HIDE DEF place
        <3> QED
            BY <1>2, <3>1
    <2> HIDE DEF place
    <2>3. DOMAIN priceAt = PriceChanges /\ priceAt'[r] = place /\ DOMAIN priceAt' = PriceChanges
          /\ \A q \in PriceChanges \ {r} : priceAt'[q] = priceAt[q]
        BY <2>1 DEF PriceInv, PriceShape
    <2>4. PriceShape' /\ Sending' = Sending
        BY <1>2, <1>3, <2>2, <2>3 DEF PriceInv, PriceShape, Sending
    <2>5. ASSUME NEW q \in Sending', ~priceAt'[q].mixed PROVE SendsAlone(q)'
        <3>1. q \in Sending /\ ~priceAt[q].mixed
            BY <2>2, <2>3, <2>4, <2>5 DEF Sending
        <3>2. SendsAlone(q) /\ q = r
            BY <1>2, <3>1 DEF PriceInv, SendsAlone
        <3>3. ASSUME NEW pair \in SentPairs(r), pair[1] \notin place.todo
              PROVE  listedPrice'[pair] = LastPrice(r, pair[2])
            <4>1. pair \in DOMAIN listedPrice
                BY SentAreImported DEF PriceInv, PriceShape
            <4> QED
                BY <1>1, <2>0, <2>2, <3>2, <3>3, <4>1 DEF SendsAlone
        <3> QED
            BY <1>2, <2>2, <2>3, <2>4, <3>2, <3>3 DEF SendsAlone
    <2> QED
        BY <1>4, <2>4, <2>5 DEF PriceInv
<1> QED
    BY <1>5, <1>6

LEMMA CommitKept ==
    ASSUME PriceInv, NEW r \in PriceChanges, CommitPrices(r) \/ CommitRaises(r)
    PROVE  PriceInv'
<1> USE DEF PriceInv, PriceShape
<1>1. /\ r \in Sending /\ priceAt[r].todo = {} /\ UNCHANGED listedPrice
      /\ \E answer \in {"idle", "refused"} : priceAt' = [priceAt EXCEPT ![r] = Over(answer)]
    BY DEF CommitPrices, CommitRaises, Sending
<1>2. ASSUME DOMAIN rowPrice' = Priced, DOMAIN importPrice' = ImportPairs,
             agreed' \subseteq ImportPairs, PricesAgree'
      PROVE  PriceInv'
    <2>1. PICK answer \in {"idle", "refused"} : priceAt' = [priceAt EXCEPT ![r] = Over(answer)]
        BY <1>1
    <2> DEFINE place == Over(answer)
    <2>2. place.at # "send"
          /\ place = [at |-> place.at, todo |-> place.todo, mixed |-> place.mixed, seen |-> place.seen]
        BY DEF Over
    <2> HIDE DEF place
    <2>3. priceAt' = [priceAt EXCEPT ![r] = place] /\ DOMAIN listedPrice' = ImportPairs
        BY <1>1, <2>1 DEF place
    <2> QED
        BY <1>1, <1>2, <2>2, <2>3, LeavesSending
<1>3. CASE CommitRaises(r)
    <2>1. UNCHANGED <<rowPrice, importPrice, listedPrice, agreed>>
        BY <1>3 DEF CommitRaises
    <2> QED
        BY <1>2, <2>1 DEF PricesAgree
<1>4. CASE CommitPrices(r)
    <2>1. /\ rowPrice' = [p \in Priced |->
                IF Touches(r, p) THEN Written(rowPrice[p], priceAt[r].seen[1][p], LastPrice(r, p))
                ELSE rowPrice[p]]
          /\ importPrice' = [pair \in DOMAIN importPrice |->
                IF pair \in SentPairs(r)
                THEN Written(importPrice[pair], priceAt[r].seen[2][pair], LastPrice(r, pair[2]))
                ELSE importPrice[pair]]
          /\ agreed' = IF priceAt[r].mixed
                       THEN {pair \in agreed : ~Touches(r, pair[2])}
                       ELSE {pair \in agreed : ~Touches(r, pair[2])}
                               \cup {pair \in SentPairs(r) : LastPrice(r, pair[2]) # NoPrice}
        BY <1>4 DEF CommitPrices
    <2>2. DOMAIN rowPrice' = Priced /\ DOMAIN importPrice' = ImportPairs /\ agreed' \subseteq ImportPairs
        BY <2>1, SentAreImported
    <2>3. ASSUME NEW pair \in agreed, ~Touches(r, pair[2])
          PROVE  rowPrice'[pair[2]] = listedPrice'[pair] /\ importPrice'[pair] = listedPrice'[pair]
        <3>1. pair \in ImportPairs /\ pair[2] \in Priced /\ pair \notin SentPairs(r)
            BY <2>3, SentAreImported DEF ImportPairs
        <3>2. rowPrice'[pair[2]] = rowPrice[pair[2]] /\ importPrice'[pair] = importPrice[pair]
            BY <2>1, <2>3, <3>1
        <3> QED
            BY <1>1, <3>2 DEF PricesAgree
    <2>4. ASSUME NEW pair \in SentPairs(r), ~priceAt[r].mixed
          PROVE  rowPrice'[pair[2]] = listedPrice'[pair] /\ importPrice'[pair] = listedPrice'[pair]
        <3>1. SendsAlone(r)
            BY <1>1, <2>4
        <3>2. pair \in ImportPairs /\ pair[2] \in Priced /\ Touches(r, pair[2])
            BY SentAreImported
        <3>3. listedPrice'[pair] = LastPrice(r, pair[2])
            BY <1>1, <3>1 DEF SendsAlone
        <3>4. rowPrice'[pair[2]] = LastPrice(r, pair[2])
            BY <2>1, <3>1, <3>2 DEF SendsAlone, Written
        <3>5. importPrice'[pair] = LastPrice(r, pair[2])
            BY <2>1, <3>1, <3>2 DEF SendsAlone, Written
        <3> QED
            BY <3>3, <3>4, <3>5
    <2>5. PricesAgree'
        BY <2>1, <2>3, <2>4 DEF PricesAgree
    <2> QED
        BY <1>2, <2>2, <2>5
<1> QED
    BY <1>3, <1>4

LEMMA OffKept ==
    ASSUME OffInv, OffStep \/ AskAgain
    PROVE  OffInv'
<1> USE DEF OffInv
<1>1. ASSUME NEW i \in DOMAIN Identifiers, BeginOff(i) PROVE OffInv'
    <2>1. ProductOf(i) # NotFound => ProductOf(i) \in Shelved
        BY DEF ProductOf, Shelved
    <2> QED
        BY <1>1, <2>1 DEF BeginOff, AnsweredIsOff, Off
<1>2. ASSUME NEW i \in DOMAIN Identifiers, SetQuantity(i) PROVE OffInv'
    <2>1. PICK code \in {200, 207, 0} :
             /\ shelf' = [shelf EXCEPT ![ProductOf(i)].quantity = IF code = 207 THEN @ ELSE 0]
             /\ offAt' = [offAt EXCEPT ![i] = IF QuantityTaken(code) THEN "status" ELSE "failed"]
        BY <1>2 DEF SetQuantity
    <2>2. ProductOf(i) \in Shelved /\ UNCHANGED <<rowOff, offInSession>>
        BY <1>2 DEF SetQuantity
    <2>3. /\ shelf' \in [Shelved -> [quantity : {0, 5}, active : BOOLEAN]]
          /\ \A p \in Shelved : /\ shelf'[p].active = shelf[p].active
                                /\ shelf[p].quantity = 0 => shelf'[p].quantity = 0
          /\ offAt'[i] = "status" => shelf'[ProductOf(i)].quantity = 0
        BY <2>1, <2>2 DEF QuantityTaken
    <2>4. \A p \in Shelved : Off(p) => Off(p)'
        <3> TAKE p \in Shelved
        <3>1. Off(p) => shelf'[p].quantity = 0 /\ shelf'[p].active = FALSE
            BY <2>3 DEF Off
        <3> QED
            BY <3>1 DEF Off
    <2> QED
        BY <2>1, <2>2, <2>3, <2>4 DEF AnsweredIsOff
<1>3. ASSUME NEW i \in DOMAIN Identifiers, SetStatus(i) PROVE OffInv'
    <2>1. PICK code \in {202, 422, 0} :
             /\ shelf' = [shelf EXCEPT ![ProductOf(i)].active = (@ /\ code = 422)]
             /\ offAt' = [offAt EXCEPT ![i] = IF Accepted(code) THEN "done" ELSE "failed"]
             /\ offInSession' = IF Accepted(code) THEN offInSession \cup {ProductOf(i)}
                                ELSE offInSession
        BY <1>3 DEF SetStatus
    <2>2. ProductOf(i) \in Shelved /\ UNCHANGED rowOff /\ shelf[ProductOf(i)].quantity = 0
        BY <1>3 DEF SetStatus
    <2>3. /\ shelf' \in [Shelved -> [quantity : {0, 5}, active : BOOLEAN]]
          /\ \A p \in Shelved : /\ shelf'[p].quantity = shelf[p].quantity
                                /\ shelf[p].active = FALSE => shelf'[p].active = FALSE
          /\ Accepted(code) => shelf'[ProductOf(i)].active = FALSE
        <3> DEFINE b == shelf[ProductOf(i)].active /\ code = 422
        <3>1. b \in BOOLEAN /\ (Accepted(code) => b = FALSE)
              /\ (shelf[ProductOf(i)].active = FALSE => b = FALSE)
            BY DEF Accepted
        <3>2. shelf' = [shelf EXCEPT ![ProductOf(i)].active = b]
            BY <2>1
        <3> HIDE DEF b
        <3>3. shelf' \in [Shelved -> [quantity : {0, 5}, active : BOOLEAN]]
            BY <2>2, <3>1, <3>2
        <3>4. shelf'[ProductOf(i)].active = b
            BY <2>2, <3>2
        <3>5. \A p \in Shelved : /\ shelf'[p].quantity = shelf[p].quantity
                                 /\ p # ProductOf(i) => shelf'[p].active = shelf[p].active
            BY <2>2, <3>2
        <3> QED
            BY <3>1, <3>3, <3>4, <3>5, Zenon
    <2>4. \A p \in Shelved : Off(p) => Off(p)'
        <3> TAKE p \in Shelved
        <3>1. Off(p) => shelf'[p].quantity = 0 /\ shelf'[p].active = FALSE
            BY <2>3 DEF Off
        <3> QED
            BY <3>1 DEF Off
    <2>5. Accepted(code) => Off(ProductOf(i))'
        BY <2>2, <2>3 DEF Off
    <2> QED
        BY <2>1, <2>2, <2>3, <2>4, <2>5 DEF AnsweredIsOff
<1>4. CASE CommitOff
    BY <1>4 DEF CommitOff, Committed, AnsweredIsOff, Off
<1>5. CASE AskAgain
    BY <1>5 DEF AskAgain, AnsweredIsOff, Off
<1> QED
    BY <1>1, <1>2, <1>3, <1>4, <1>5 DEF OffStep

LEMMA MarketHolds == MarketSafety => [](PriceInv /\ OffInv)
<1>1. PriceInv /\ OffInv /\ [MarketNext]_<<scene, marketVars>> => (PriceInv /\ OffInv)'
    <2> SUFFICES ASSUME PriceInv, OffInv, [MarketNext]_<<scene, marketVars>> PROVE (PriceInv /\ OffInv)'
        OBVIOUS
    <2>1. ASSUME UNCHANGED priceVars PROVE PriceInv'
        BY <2>1 DEF priceVars, PriceInv, PriceShape, PricesAgree, Sending, SendsAlone
    <2>2. ASSUME UNCHANGED offVars PROVE OffInv'
        BY <2>2 DEF offVars, OffInv, AnsweredIsOff, Off
    <2>3. ASSUME NEW r \in PriceChanges, LoadPriceRows(r) \/ PriceStep(r) PROVE PriceInv' /\ OffInv'
        <3>1. PriceInv'
            BY <2>3, LoadKept, SendKept, CommitKept DEF PriceStep
        <3>2. UNCHANGED offVars
            BY <2>3 DEF PriceStep, LoadPriceRows, SendPrices, CommitPrices, CommitRaises
        <3> QED
            BY <2>2, <3>1, <3>2
    <2>4. CASE OffStep \/ AskAgain
        <3>1. UNCHANGED priceVars
            BY <2>4 DEF OffStep, AskAgain, CommitOff, BeginOff, SetQuantity, SetStatus
        <3> QED
            BY <2>1, <2>4, <3>1, OffKept
    <2>5. CASE UNCHANGED <<scene, marketVars>>
        BY <2>1, <2>2, <2>5 DEF marketVars
    <2> QED
        BY <2>3, <2>4, <2>5 DEF MarketNext
<1> QED
    BY <1>1, MarketStarts, PTL DEF MarketSafety

LEMMA MarketIsTrue == PriceInv /\ OffInv => PricesAgree /\ InactiveIsOff /\ AnsweredIsOff
BY DEF PriceInv, OffInv, InactiveIsOff, Off

-----------------------------------------------------------------------------
(* The jobs together: the steps of one component are stutters of the others. *)

LEMMA SceneIsKept ==
    /\ AvailNext => UNCHANGED scene
    /\ ImportNext => UNCHANGED scene
    /\ DeliveryNext => UNCHANGED scene
    /\ RouteNext => UNCHANGED scene
    /\ VariantNext => UNCHANGED scene
    /\ MarketNext => UNCHANGED scene
    /\ CategoryNext => UNCHANGED scene
    /\ ClientsNext => UNCHANGED scene
    /\ MirrorNext => UNCHANGED scene
    /\ AccountsNext => UNCHANGED scene
<1>1. AvailNext => UNCHANGED scene
    BY DEF AvailNext, AvailJobStep, KillAvailability, WorkerStep, CountRaises, OpenDraft,
        SaveEdit, DeleteTask, StartAvailability, StartProgress, Joined,
        FinishAvailability, TakeItem, SendQuantity, SendDelivery, ReadCount, SaveCount
<1>2. ImportNext => UNCHANGED scene
    BY DEF ImportNext, SyncStep, CatalogueGrows, CatalogueShrinks, UploadStep, ImportRaises,
        KillImport, StartSync, FetchPage, SavePage, SaveProgress, CompleteSync, ReadFile,
        ImportBatch, CompleteImport
<1>3. DeliveryNext => UNCHANGED scene
    BY DEF DeliveryNext, RequestStep, ConsumerStep, HandlerRaises, ConsumerDies,
        SendProducts, RequestRaises, ProductsCreated, PublishJob, Receive, RejectGarbage,
        StockQuantity, StockDelivery, Nack, Ack
<1>4. RouteNext => UNCHANGED scene
    BY DEF RouteNext, RouteStep, RouteWorkerStep, LookStep, JobExpires, Look, WorkerIsKilled,
        AskFor, Claim, SaveQueuedTask, Enqueue, EnqueueRaises, WorkerStarts, WorkerEnds,
        GiveUp
<1>5. VariantNext => UNCHANGED scene
    BY DEF VariantNext, LoadVariants, GenerateStep, StartImage, ImageStep, ImageJobKilled,
        AskForImage, OverrideImage, DeleteVariant, InsertVariants, InsertRaises,
        EnqueueImage, VariantsAnswered, ImageGenerated, ImageFails
<1>6. MarketNext => UNCHANGED scene
    BY DEF MarketNext, LoadPriceRows, PriceStep, OffStep, AskAgain, SendPrices, CommitPrices,
        CommitRaises, CommitOff, BeginOff, SetQuantity, SetStatus
<1>7. CategoryNext => UNCHANGED scene
    BY DEF CategoryNext, BeginRefresh, RefreshStep, OttoChanges, LoadUnlabelled, LabelStep,
        FetchGroups, FetchRaises, ReadLabels, DeleteCategories, CommitRefresh,
        LookUpTranslation, StoreTranslation, DeepLFails, CommitLabels
<1>8. ClientsNext => UNCHANGED scene
    BY DEF ClientsNext, TokenTick, CallStep, DeepLTick, TranslateStep, GetToken, IssueToken,
        TokenArrives, TokenRefused, RequestArrives, WantSlot, TakeSlot, DeepLAnswers
<1>9. MirrorNext => UNCHANGED scene
    BY DEF MirrorNext, BeginMediaRun, MediaStep, OttoEdits, ImageSyncStep, ImageRunRaises,
        DeleteFactories, InsertFactories, GetProduct, GetRefused, CompareProduct,
        CommitProduct, MediaRaises, BeginImageRun, FetchChunk, ShowImages
<1>10. AccountsNext => UNCHANGED scene
    BY DEF AccountsNext, LookForUser, CreateUser, AssignRole, CutOff, LogIn
<1> QED
    BY <1>1, <1>2, <1>3, <1>4, <1>5, <1>6, <1>7, <1>8, <1>9, <1>10

JobsSafety ==
    /\ RouteSafety /\ DeliverySafety /\ VariantSafety /\ AccountsSafety
    /\ MirrorSafety /\ ClientsSafety /\ MarketSafety

LEMMA JobsAreTheirParts == JobsSpec => JobsSafety
<1>1. JobsInit => /\ RouteInit /\ DeliveryInit /\ VariantInit /\ AccountsInit
                  /\ MirrorInit /\ ClientsInit /\ MarketInit
    BY DEF JobsInit
<1>2. [JobsNext]_jobsVars => [RouteNext]_<<scene, routeVars>>
    BY SceneIsKept DEF JobsNext, jobsVars
<1>3. [JobsNext]_jobsVars => [DeliveryNext]_<<scene, deliveryVars>>
    BY SceneIsKept DEF JobsNext, jobsVars
<1>4. [JobsNext]_jobsVars => [VariantNext]_<<scene, variantVars>>
    BY SceneIsKept DEF JobsNext, jobsVars
<1>5. [JobsNext]_jobsVars => [AccountsNext]_<<scene, accountVars>>
    BY SceneIsKept DEF JobsNext, jobsVars
<1>6. [JobsNext]_jobsVars => [MirrorNext]_<<scene, mirrorVars>>
    BY SceneIsKept DEF JobsNext, jobsVars
<1>7. [JobsNext]_jobsVars => [ClientsNext]_<<scene, clientVars>>
    BY SceneIsKept DEF JobsNext, jobsVars
<1>8. [JobsNext]_jobsVars => [MarketNext]_<<scene, marketVars>>
    BY SceneIsKept DEF JobsNext, jobsVars
<1> QED
    BY <1>1, <1>2, <1>3, <1>4, <1>5, <1>6, <1>7, <1>8, PTL
        DEF JobsSpec, JobsSafety, RouteSafety, DeliverySafety, VariantSafety, AccountsSafety, MirrorSafety, ClientsSafety, MarketSafety

-----------------------------------------------------------------------------
(* Sequences and their parts.                                              *)

LEMMA RangeIsFinite ==
    ASSUME NEW S, NEW s \in Seq(S)
    PROVE  IsFiniteSet(Range(s)) /\ Range(s) \subseteq S
<1> DEFINE I == 1 .. Len(s)
<1>1. Len(s) \in Nat /\ s \in [I -> S] /\ DOMAIN s = I
    BY LenProperties
<1>2. s \in [I -> Range(s)] /\ \A y \in Range(s) : \E i \in I : s[i] = y
    BY <1>1 DEF Range
<1>3. s \in Surjection(I, Range(s))
    BY <1>2, Zenon DEF Surjection
<1>4. IsFiniteSet(I)
    <2>1. 1 \in Int /\ Len(s) \in Int
        BY <1>1
    <2> QED
        BY <2>1, FS_Interval
<1>5. Range(s) \subseteq S
    BY <1>1 DEF Range
<1> QED
    BY <1>3, <1>4, <1>5, FS_Surjection, Zenon

LEMMA MinOfTwo ==
    ASSUME NEW a \in Int, NEW b \in Int
    PROVE  Min({a, b}) = IF a <= b THEN a ELSE b
<1> DEFINE m == IF a <= b THEN a ELSE b
<1>1. m \in {a, b} /\ \A y \in {a, b} : m <= y
    OBVIOUS
<1>2. \A x \in {a, b} : (\A y \in {a, b} : x <= y) => x = m
    OBVIOUS
<1> QED
    BY <1>1, <1>2 DEF Min

\* A page that begins after the first k items.
LEMMA CutOut ==
    ASSUME NEW S, NEW s \in Seq(S), NEW k \in Nat, NEW n \in Int, n <= Len(s)
    PROVE  /\ SubSeq(s, k + 1, n) \in Seq(S)
           /\ Len(SubSeq(s, k + 1, n)) = IF k <= n THEN n - k ELSE 0
           /\ \A i \in 1 .. Len(SubSeq(s, k + 1, n)) : SubSeq(s, k + 1, n)[i] = s[k + i]
<1>1. Len(s) \in Nat /\ DOMAIN s = 1 .. Len(s) /\ \A i \in 1 .. Len(s) : s[i] \in S
    BY LenProperties
<1>2. k + 1 \in Int /\ \A i \in k + 1 .. n : s[i] \in S
    BY <1>1
<1>3. /\ SubSeq(s, k + 1, n) \in Seq(S)
      /\ Len(SubSeq(s, k + 1, n)) = IF k + 1 <= n THEN n - (k + 1) + 1 ELSE 0
      /\ \A i \in 1 .. n - (k + 1) + 1 : SubSeq(s, k + 1, n)[i] = s[(k + 1) + i - 1]
    BY <1>2, SubSeqProperties
<1>4. \A i \in Nat : (k + 1) + i - 1 = k + i
    OBVIOUS
<1> QED
    BY <1>3, <1>4

-----------------------------------------------------------------------------
(* FactoryAvailability: the documents, the queue and the workers.          *)

AvailSafety == AvailInit /\ [][AvailNext]_<<scene, availVars>>

AvailDocument == [state : {"absent", "none", "QUEUED", "IN_PROGRESS", "DONE", "FAILED"},
                  done : Nat, failed : Nat, edited : BOOLEAN]
Places == {"idle", "quantity", "delivery", "sent", "failed", "count", "count_failed",
           "ended", "died"}
Counts == {"count", "count_failed"}
AtWork == {"quantity", "delivery", "sent", "failed"} \cup Counts

AvailShape ==
    /\ availDoc \in AvailDocument
    /\ availCopy \in [AvailWorkers \cup {"task", "user"} -> AvailDocument]
    /\ availPc \in {"start", "sleeping", "join", "translating", "ended", "killed"}
    /\ worker \in [AvailWorkers -> [at : Places, item : Skus \cup {Sentinel}]]
    /\ availQueue \in Seq(Skus \cup {Sentinel})
    /\ accepted \in [Skus -> SUBSET {"quantity", "delivery"}]
    /\ availErrors \subseteq Skus \X {"refused", "raised"}
    /\ counted \subseteq Skus \X {"worker", "handler"}
    /\ edit \in {"none", "saved", "overlapped"}

\* The items come before the sentinels, each of them once.
QueueInv ==
    /\ \A i, j \in DOMAIN availQueue : availQueue[i] = availQueue[j] /\ availQueue[i] \in Skus => i = j
    /\ \A i, j \in DOMAIN availQueue : i < j /\ availQueue[j] \in Skus => availQueue[i] \in Skus

\* An item is in the queue or at one worker, and is counted from there.
PlaceInv ==
    /\ availPc \in {"start", "sleeping"} => counted = {} /\ availErrors = {}
    /\ availPc # "join" => \A w \in AvailWorkers : worker[w].at \notin AtWork
    /\ availPc \in {"start", "sleeping"} => \A w \in AvailWorkers : worker[w].at = "idle"
    /\ availPc \in {"translating", "ended"} => \A w \in AvailWorkers : worker[w].at = "ended"
    /\ (\E w \in AvailWorkers : worker[w].at = "ended") =>
          \A i \in DOMAIN availQueue : availQueue[i] \notin Skus
    /\ AvailWorkers = {} /\ availPc = "join" => unfinished = Cardinality(Skus)
    /\ AvailWorkers = {} /\ availPc = "translating" => Skus = {}
    /\ \A w \in AvailWorkers : worker[w].at \in AtWork =>
          /\ worker[w].item \in Skus
          /\ \A i \in DOMAIN availQueue : availQueue[i] # worker[w].item
    /\ \A w, v \in AvailWorkers :
          worker[w].at \in AtWork /\ worker[v].at \in AtWork /\ worker[w].item = worker[v].item
          => w = v
    /\ \A w, v \in AvailWorkers : worker[w].at \in Counts /\ worker[v].at \in Counts => w = v

NotCounted ==
    /\ \A i \in DOMAIN availQueue, by \in {"worker", "handler"} : <<availQueue[i], by>> \notin counted
    /\ \A w \in AvailWorkers :
          /\ worker[w].at \in AtWork => <<worker[w].item, "handler">> \notin counted
          /\ worker[w].at \in AtWork \ {"failed", "count_failed"} =>
                <<worker[w].item, "worker">> \notin counted

\* As long as only the job writes.
Undisturbed == ~May("edits") /\ ~May("deletes")

CountInv == Undisturbed =>
    /\ availCopy["user"] = NoDoc
    /\ availPc \in {"join", "translating"} => availDoc.done = Cardinality(counted)
    /\ availPc = "join" => availDoc.state = "IN_PROGRESS"
    /\ \A w \in AvailWorkers : worker[w].at \in Counts => availCopy[w] = availDoc

\* What has become of an item, and what a document may then say.
Full(i) == accepted[i] = {"quantity", "delivery"}
Fate(i) ==
    \/ Full(i) \/ \E kind \in {"refused", "raised"} : <<i, kind>> \in availErrors
    \/ \E k \in DOMAIN availQueue : availQueue[k] = i
    \/ \E w \in AvailWorkers : worker[w].at \in {"quantity", "delivery"} /\ worker[w].item = i

DoneInv ==
    /\ availPc \in {"join", "translating"} => \A i \in Skus : Fate(i)
    /\ \A d \in {availDoc} \cup {availCopy[who] : who \in DOMAIN availCopy} :
          d.state = "DONE" => \A i \in Skus : Full(i)

\* A document that is there says so, and an edit that met no other copy is in all
\* that are to be saved.
EditInv ==
    /\ availDoc.state = "absent" => availDoc = NoDoc
    /\ availCopy["user"].state = "absent" => availCopy["user"] = NoDoc
    /\ availPc \in {"sleeping", "join", "translating"} => availCopy["task"].state # "absent"
    /\ \A w \in AvailWorkers : worker[w].at \in Counts => availCopy[w].state # "absent"
    /\ ~May("deletes") => availDoc.state # "absent"
    /\ ~May("deletes") /\ edit = "saved" =>
          availDoc.edited /\ \A who \in Pending : availCopy[who].edited

AvailInv == AvailShape /\ QueueInv /\ PlaceInv /\ NotCounted /\ CountInv /\ DoneInv /\ EditInv

LEMMA SizesAre ==
    /\ IsFiniteSet(Skus) /\ Cardinality(Skus) \in Nat /\ Skus = 1 .. Cardinality(Skus)
    /\ Cardinality(AvailWorkers) \in Nat /\ 0 \notin Skus
BY AvailabilityAssumption, FS_CardinalityType

LEMMA AvailStarts == AvailInit => AvailInv
<1> SUFFICES ASSUME AvailInit PROVE AvailInv
    OBVIOUS
<1> USE DEF AvailInit
<1>1. availQueue \in Seq(Skus \cup {Sentinel}) /\ DOMAIN availQueue = {}
    BY EmptySeq
<1>2. NoDoc \in AvailDocument /\ QueuedForStock \in AvailDocument /\ QueuedForStock.state = "QUEUED"
    BY DEF NoDoc, QueuedForStock, AvailDocument
<1>3. NoDoc.state = "absent" /\ NoDoc \in AvailDocument
    BY <1>2 DEF NoDoc
<1>4. NoWork \in [at : Places, item : Skus \cup {Sentinel}] /\ NoWork.at = "idle"
    BY DEF NoWork, Places
<1>5. AvailShape
    BY <1>1, <1>2, <1>4 DEF AvailShape
<1>6. QueueInv /\ PlaceInv /\ NotCounted
    BY <1>1, <1>4 DEF QueueInv, PlaceInv, NotCounted, AtWork, Counts
<1>7. CountInv /\ DoneInv
    BY <1>2, <1>3, <1>4 DEF CountInv, DoneInv, Counts
<1>8. EditInv
    BY <1>2, <1>3, <1>4 DEF EditInv, Counts
<1> QED
    BY <1>5, <1>6, <1>7, <1>8 DEF AvailInv

LEMMA ErrorsAreFinite ==
    ASSUME AvailShape
    PROVE  IsFiniteSet(availErrors) /\ IsFiniteSet(counted)
<1>1. \A a, b : IsFiniteSet({a, b})
    <2> TAKE a, b
    <2>1. {a, b} = {a} \cup {b}
        OBVIOUS
    <2>2. IsFiniteSet({a}) /\ IsFiniteSet({b})
        BY FS_Singleton
    <2>3. IsFiniteSet({a} \cup {b})
        BY <2>2, FS_Union
    <2> QED
        BY <2>1, <2>3
<1> QED
    BY <1>1, SizesAre, FS_Product, FS_Subset DEF AvailShape

\* The documents that steps save.
LEMMA EditedDocuments ==
    ASSUME NEW d \in AvailDocument
    PROVE  /\ [d EXCEPT !.done = @ + 1] \in AvailDocument
           /\ [d EXCEPT !.done = @ + 1].done = d.done + 1
           /\ [d EXCEPT !.done = @ + 1].state = d.state
           /\ [d EXCEPT !.edited = TRUE] \in AvailDocument
           /\ [d EXCEPT !.edited = TRUE].state = d.state
           /\ [d EXCEPT !.edited = TRUE].edited
           /\ [d EXCEPT !.state = "IN_PROGRESS", !.done = 0] \in AvailDocument
           /\ [d EXCEPT !.state = "IN_PROGRESS", !.done = 0].state = "IN_PROGRESS"
           /\ [d EXCEPT !.state = "IN_PROGRESS", !.done = 0].done = 0
<1>1. [d EXCEPT !.done = @ + 1] \in AvailDocument
    BY DEF AvailDocument
<1>2. [d EXCEPT !.done = @ + 1].done = d.done + 1 /\ [d EXCEPT !.done = @ + 1].state = d.state
    BY DEF AvailDocument
<1>3. [d EXCEPT !.edited = TRUE] \in AvailDocument
    BY DEF AvailDocument
<1>4. [d EXCEPT !.edited = TRUE].state = d.state
    BY DEF AvailDocument
<1>5. [d EXCEPT !.edited = TRUE].edited
    BY DEF AvailDocument
<1>6. [d EXCEPT !.state = "IN_PROGRESS", !.done = 0] \in AvailDocument
    BY DEF AvailDocument
<1>7. /\ [d EXCEPT !.state = "IN_PROGRESS", !.done = 0].state = "IN_PROGRESS"
      /\ [d EXCEPT !.state = "IN_PROGRESS", !.done = 0].done = 0
    BY DEF AvailDocument
<1> QED
    BY <1>1, <1>2, <1>3, <1>4, <1>5, <1>6, <1>7

LEMMA EditKeepsEdited ==
    ASSUME NEW d \in AvailDocument, d.edited
    PROVE  /\ [d EXCEPT !.done = @ + 1].edited
           /\ [d EXCEPT !.state = "IN_PROGRESS", !.done = 0].edited
BY DEF AvailDocument

LEMMA AvailShapeKept ==
    ASSUME AvailInv, AvailNext
    PROVE  AvailShape'
<1> USE DEF AvailInv, AvailShape
<1>1. CASE StartAvailability
    <2>1. [NoDoc EXCEPT !.state = "none"] \in AvailDocument
        BY DEF NoDoc, AvailDocument
    <2> QED
        BY <1>1, <2>1 DEF StartAvailability
<1>2. CASE StartProgress
    <2> DEFINE n == Cardinality(Skus) + Sentinels
    <2> DEFINE d == [availCopy["task"] EXCEPT !.state = "IN_PROGRESS", !.done = 0]
    <2>1. d \in AvailDocument
        BY EditedDocuments
    <2>2. n \in Nat
        BY SizesAre DEF Sentinels
    <2>3. [i \in 1 .. n |-> IF i \in Skus THEN i ELSE Sentinel] \in Seq(Skus \cup {Sentinel})
        <3> HIDE DEF n
        <3>1. \A i \in 1 .. n : (IF i \in Skus THEN i ELSE Sentinel) \in Skus \cup {Sentinel}
            OBVIOUS
        <3> QED
            BY <2>2, <3>1, IsASeq
    <2>4. availDoc' = d /\ availCopy' = [availCopy EXCEPT !["task"] = d]
        BY <1>2 DEF StartProgress
    <2> HIDE DEF d
    <2> QED
        BY <1>2, <2>1, <2>3, <2>4 DEF StartProgress
<1>3. CASE Joined
    BY <1>3 DEF Joined, OrTask
<1>4. CASE FinishAvailability
    <2> DEFINE d == [availCopy["task"] EXCEPT
                        !.state = IF AvailFailed > 0 THEN "FAILED" ELSE "DONE",
                        !.failed = AvailFailed, !.done = Cardinality(Skus)]
    <2>1. AvailFailed \in Nat
        BY ErrorsAreFinite, FS_CardinalityType DEF AvailFailed
    <2>2. d \in AvailDocument
        BY <2>1, SizesAre DEF AvailDocument
    <2>3. availDoc' = d
        BY <1>4 DEF FinishAvailability
    <2> HIDE DEF d
    <2> QED
        BY <1>4, <2>2, <2>3 DEF FinishAvailability
<1>5. CASE KillAvailability
    BY <1>5 DEF KillAvailability, NoWork, Places
<1>6. ASSUME NEW w \in AvailWorkers, TakeItem(w) PROVE AvailShape'
    <2>1. Head(availQueue) \in Skus \cup {Sentinel} /\ Tail(availQueue) \in Seq(Skus \cup {Sentinel})
        BY <1>6, Popped DEF TakeItem
    <2> DEFINE i == Head(availQueue)
    <2>2. PICK row \in [at : Places, item : Skus \cup {Sentinel}] :
            worker' = [worker EXCEPT ![w] = row]
        BY <1>6, <2>1 DEF TakeItem, Places, Sentinel
    <2>3. availErrors' \subseteq Skus \X {"refused", "raised"}
        BY <1>6, <2>1 DEF TakeItem, Sentinel
    <2> QED
        BY <1>6, <2>1, <2>2, <2>3 DEF TakeItem
<1>7. ASSUME NEW w \in AvailWorkers, SendQuantity(w) \/ SendDelivery(w) PROVE AvailShape'
    <2>1. worker[w].item \in Skus /\ worker[w].at \in {"quantity", "delivery"}
        BY <1>7 DEF SendQuantity, SendDelivery, PlaceInv, AtWork
    <2>2. PICK at \in Places : worker' = [worker EXCEPT ![w].at = at]
        BY <1>7 DEF SendQuantity, SendDelivery, Places
    <2>3. accepted' \in [Skus -> SUBSET {"quantity", "delivery"}]
        BY <1>7, <2>1 DEF SendQuantity, SendDelivery
    <2>4. availErrors' \subseteq Skus \X {"refused", "raised"}
        BY <1>7, <2>1 DEF SendQuantity, SendDelivery
    <2>5. UNCHANGED <<availDoc, availPc, availCopy, availQueue, counted, edit>>
        BY <1>7 DEF SendQuantity, SendDelivery
    <2> QED
        BY <2>2, <2>3, <2>4, <2>5
<1>8. ASSUME NEW w \in AvailWorkers, ReadCount(w) PROVE AvailShape'
    <2>1. PICK at \in Places : worker' = [worker EXCEPT ![w].at = at]
        BY <1>8 DEF ReadCount, Places
    <2> QED
        BY <1>8, <2>1 DEF ReadCount, OrTask
<1>9. ASSUME NEW w \in AvailWorkers, SaveCount(w) \/ CountRaises(w) PROVE AvailShape'
    <2>1. worker[w].item \in Skus /\ worker[w].at \in {"count", "count_failed"}
        BY <1>9 DEF SaveCount, CountRaises, PlaceInv, AtWork, Counts
    <2> DEFINE d == [availCopy[w] EXCEPT !.done = @ + 1]
    <2>2. d \in AvailDocument
        BY EditedDocuments
    <2>3. availDoc' \in AvailDocument
        BY <1>9, <2>2 DEF SaveCount, CountRaises
    <2>4. counted' \subseteq Skus \X {"worker", "handler"}
        BY <1>9, <2>1 DEF SaveCount, CountRaises, Counting
    <2>5. PICK row \in [at : Places, item : Skus \cup {Sentinel}] :
            worker' = [worker EXCEPT ![w] = row]
        <3>1. CASE SaveCount(w)
            BY <3>1 DEF SaveCount, NoWork, Places
        <3>2. CASE CountRaises(w)
            <4>1. CASE worker[w].at = "count"
                <5> DEFINE row == [at |-> "failed", item |-> worker[w].item]
                <5>1. [worker[w] EXCEPT !.at = "failed"] = row /\ row \in [at : Places, item : Skus \cup {Sentinel}]
                    BY <2>1 DEF Places
                <5>2. worker' = [worker EXCEPT ![w] = row]
                    BY <3>2, <4>1, <5>1 DEF CountRaises
                <5> QED
                    BY <5>1, <5>2
            <4>2. CASE worker[w].at = "count_failed"
                BY <3>2, <4>2 DEF CountRaises, Places
            <4> QED
                BY <2>1, <4>1, <4>2
        <3> QED
            BY <1>9, <3>1, <3>2
    <2>6. availErrors' \subseteq Skus \X {"refused", "raised"}
        BY <1>9, <2>1 DEF SaveCount, CountRaises
    <2>7. UNCHANGED <<availPc, availCopy, availQueue, accepted, edit>>
        BY <1>9 DEF SaveCount, CountRaises
    <2> HIDE DEF d
    <2> QED
        BY <2>3, <2>4, <2>5, <2>6, <2>7
<1>10. NoDoc \in AvailDocument
    BY DEF NoDoc, AvailDocument
<1>11. CASE OpenDraft
    BY <1>11 DEF OpenDraft
<1>12. CASE DeleteTask
    BY <1>10, <1>12 DEF DeleteTask
<1>13. CASE SaveEdit
    <2> DEFINE d == [availCopy["user"] EXCEPT !.edited = TRUE]
    <2>1. d \in AvailDocument
        BY EditedDocuments
    <2>2. /\ availDoc' = d /\ availCopy' = [availCopy EXCEPT !["user"] = NoDoc]
          /\ edit' \in {"saved", "overlapped"}
          /\ UNCHANGED <<availPc, availQueue, worker, availErrors, accepted, counted>>
        BY <1>13 DEF SaveEdit
    <2> HIDE DEF d
    <2> QED
        BY <1>10, <2>1, <2>2
<1> QED
    BY <1>1, <1>2, <1>3, <1>4, <1>5, <1>6, <1>7, <1>8, <1>9, <1>11, <1>12, <1>13
        DEF AvailNext, AvailJobStep, WorkerStep

\* Taking the first item moves the others up.
LEMMA QueueMoves ==
    ASSUME AvailShape, availQueue # <<>>
    PROVE  /\ 1 \in DOMAIN availQueue /\ availQueue[1] = Head(availQueue)
           /\ Head(availQueue) \in Skus \cup {Sentinel}
           /\ \A i \in DOMAIN Tail(availQueue) :
                 i \in Nat \ {0} /\ i + 1 \in DOMAIN availQueue /\ Tail(availQueue)[i] = availQueue[i + 1]
<1>1. availQueue \in Seq(Skus \cup {Sentinel})
    BY DEF AvailShape
<1> QED
    BY <1>1, HeadTailProperties, LenProperties, EmptySeq

LEMMA QueueKept ==
    ASSUME AvailInv, AvailNext
    PROVE  QueueInv'
<1> USE DEF AvailInv
<1>1. CASE StartProgress
    <2> DEFINE n == Cardinality(Skus) + Sentinels
    <2>1. n \in Nat /\ Cardinality(Skus) \in Nat
        BY SizesAre DEF Sentinels
    <2>2. DOMAIN availQueue' = 1 .. n
          /\ \A i \in 1 .. n : availQueue'[i] = IF i \in Skus THEN i ELSE Sentinel
        BY <1>1 DEF StartProgress
    <2> HIDE DEF n
    <2> QED
        BY <2>1, <2>2, SizesAre DEF QueueInv, Sentinel
<1>2. ASSUME NEW w \in AvailWorkers, TakeItem(w) PROVE QueueInv'
    <2>1. availQueue # <<>> /\ availQueue' = Tail(availQueue)
        BY <1>2 DEF TakeItem
    <2>2. \A i \in DOMAIN availQueue' :
             i \in Nat \ {0} /\ i + 1 \in DOMAIN availQueue /\ availQueue'[i] = availQueue[i + 1]
        BY <2>1, QueueMoves
    <2> QED
        BY <2>2 DEF QueueInv
<1>3. UNCHANGED availQueue => QueueInv'
    BY DEF QueueInv
<1>4. StartAvailability \/ Joined \/ FinishAvailability \/ KillAvailability \/ OpenDraft \/ SaveEdit \/ DeleteTask
      => UNCHANGED availQueue
    BY DEF StartAvailability, Joined, FinishAvailability, KillAvailability, OpenDraft, SaveEdit, DeleteTask
<1>5. ASSUME NEW w \in AvailWorkers,
             SendQuantity(w) \/ SendDelivery(w) \/ ReadCount(w) \/ SaveCount(w) \/ CountRaises(w)
      PROVE  UNCHANGED availQueue
    BY <1>5 DEF SendQuantity, SendDelivery, ReadCount, SaveCount, CountRaises
<1> QED
    BY <1>1, <1>2, <1>3, <1>4, <1>5 DEF AvailNext, AvailJobStep, WorkerStep

\* A worker goes on with its item, or is done with it.
LEMMA StaysAtWork ==
    ASSUME AvailInv, NEW w \in AvailWorkers, NEW at \in AtWork, worker[w].at \in AtWork,
           worker' = [worker EXCEPT ![w].at = at], UNCHANGED <<availPc, availQueue>>,
           at \in Counts => \A v \in AvailWorkers : worker[v].at \notin Counts
    PROVE  PlaceInv'
<1> USE DEF AvailInv, AvailShape
<1>1. availPc = "join" /\ AvailWorkers # {}
    BY DEF PlaceInv
<1>2. /\ worker'[w].at = at /\ worker'[w].item = worker[w].item
      /\ \A v \in AvailWorkers \ {w} : worker'[v] = worker[v]
    OBVIOUS
<1>3. "ended" \notin AtWork /\ Counts \subseteq AtWork
    BY DEF AtWork, Counts
<1> HIDE DEF AvailShape
<1>4. \A v \in AvailWorkers : /\ worker'[v].at \in AtWork => worker[v].at \in AtWork
                              /\ worker'[v].item = worker[v].item
                              /\ worker'[v].at = "ended" => worker[v].at = "ended"
    BY <1>2, <1>3
<1>5. \A v, u \in AvailWorkers : worker'[v].at \in Counts /\ worker'[u].at \in Counts => v = u
    BY <1>2, <1>3 DEF PlaceInv
<1> QED
    BY <1>1, <1>4, <1>5 DEF PlaceInv

LEMMA LeavesWork ==
    ASSUME AvailInv, NEW w \in AvailWorkers, worker[w].at \in AtWork,
           NEW row \in [at : {"idle", "died"}, item : {Sentinel}],
           worker' = [worker EXCEPT ![w] = row], UNCHANGED <<availPc, availQueue>>
    PROVE  PlaceInv'
<1> USE DEF AvailInv, AvailShape
<1>1. availPc = "join" /\ AvailWorkers # {}
    BY DEF PlaceInv
<1>2. worker'[w] = row /\ \A v \in AvailWorkers \ {w} : worker'[v] = worker[v]
    OBVIOUS
<1> HIDE DEF AvailShape
<1>3. \A v \in AvailWorkers : worker'[v].at \in AtWork \cup Counts \cup {"ended"} => worker'[v] = worker[v]
    BY <1>2 DEF AtWork, Counts
<1> QED
    BY <1>1, <1>3 DEF PlaceInv

LEMMA TakePlace ==
    ASSUME AvailInv, NEW w \in AvailWorkers, TakeItem(w)
    PROVE  PlaceInv' /\ NotCounted'
<1> USE DEF AvailInv, AvailShape
<1>1. /\ availPc = "join" /\ availPc' = "join" /\ AvailWorkers # {} /\ worker[w].at = "idle"
      /\ availQueue # <<>> /\ availQueue' = Tail(availQueue) /\ UNCHANGED counted
    BY DEF TakeItem
<1> DEFINE i == Head(availQueue)
<1>2. /\ 1 \in DOMAIN availQueue /\ availQueue[1] = i
      /\ \A k \in DOMAIN availQueue' : /\ k \in Nat \ {0} /\ k + 1 \in DOMAIN availQueue
                                       /\ availQueue'[k] = availQueue[k + 1]
    BY <1>1, QueueMoves
<1>3. \A k \in DOMAIN availQueue', by \in {"worker", "handler"} : <<availQueue'[k], by>> \notin counted
    BY <1>2 DEF NotCounted
<1> HIDE DEF i
<1>4. CASE i = Sentinel
    <2>1. worker' = [worker EXCEPT ![w] = [at |-> "ended", item |-> Sentinel]]
        BY <1>4 DEF TakeItem, i
    <2>2. \A k \in DOMAIN availQueue' : availQueue'[k] \notin Skus
        <3>1. \A k \in Nat \ {0} : 1 < k + 1
            OBVIOUS
        <3>2. i \notin Skus /\ 1 \in Nat
            BY <1>4, SizesAre DEF Sentinel
        <3> QED
            BY <1>2, <3>1, <3>2 DEF QueueInv
    <2>3. worker'[w].at = "ended" /\ \A v \in AvailWorkers \ {w} : worker'[v] = worker[v]
        BY <2>1
    <2> HIDE DEF AvailShape
    <2>4. \A v \in AvailWorkers : worker'[v].at \in AtWork \cup Counts => worker'[v] = worker[v]
        BY <2>3 DEF AtWork, Counts
    <2>5. \A v \in AvailWorkers : worker'[v].at \in AtWork =>
             /\ worker[v].item \in Skus
             /\ \A k \in DOMAIN availQueue' : availQueue'[k] # worker[v].item
        BY <2>2, <2>4 DEF PlaceInv
    <2> QED
        BY <1>1, <1>3, <2>2, <2>4, <2>5 DEF PlaceInv, NotCounted
<1>5. CASE i # Sentinel
    <2>1. i \in Skus
        BY <1>1, <1>5, QueueMoves DEF i
    <2>2. PICK at \in {"quantity", "failed"} : worker' = [worker EXCEPT ![w] = [at |-> at, item |-> i]]
        BY <1>5 DEF TakeItem, i
    <2>3. /\ worker'[w].at = at /\ worker'[w].item = i
          /\ \A v \in AvailWorkers \ {w} : worker'[v] = worker[v]
        BY <2>2
    <2> HIDE DEF AvailShape
    <2>4. \A v \in AvailWorkers : worker[v].at # "ended"
        BY <1>2, <2>1 DEF PlaceInv
    <2>5. \A k \in DOMAIN availQueue' : availQueue'[k] # i
        BY <1>2, <2>1 DEF QueueInv
    <2>6. \A v \in AvailWorkers \ {w} : worker[v].at \in AtWork => worker[v].item # i
        BY <1>2 DEF PlaceInv
    <2>7. \A v \in AvailWorkers : worker'[v].at \in AtWork =>
             /\ worker'[v].item \in Skus
             /\ \A k \in DOMAIN availQueue' : availQueue'[k] # worker'[v].item
        BY <1>2, <2>1, <2>3, <2>5 DEF PlaceInv
    <2>8. \A v, u \in AvailWorkers :
             /\ worker'[v].at \in AtWork /\ worker'[u].at \in AtWork /\ worker'[v].item = worker'[u].item
                => v = u
             /\ worker'[v].at \in Counts /\ worker'[u].at \in Counts => v = u
        BY <2>3, <2>6 DEF PlaceInv, Counts
    <2>9. PlaceInv'
        BY <1>1, <2>3, <2>4, <2>7, <2>8 DEF PlaceInv
    <2>10. \A by \in {"worker", "handler"} : <<i, by>> \notin counted
        BY <1>2 DEF NotCounted
    <2>11. NotCounted'
        BY <1>1, <1>3, <2>3, <2>10 DEF NotCounted
    <2> QED
        BY <2>9, <2>11
<1> QED
    BY <1>4, <1>5

LEMMA PlaceKept ==
    ASSUME AvailInv, AvailNext
    PROVE  PlaceInv' /\ NotCounted'
<1> USE DEF AvailInv
<1>1. CASE StartAvailability
    BY <1>1 DEF StartAvailability, PlaceInv, NotCounted
<1>2. CASE StartProgress
    <2>1. /\ availPc' = "join" /\ UNCHANGED <<worker, availErrors, counted>> /\ counted = {}
          /\ \A w \in AvailWorkers : worker[w].at = "idle"
          /\ unfinished' = Cardinality(Skus) + Cardinality(AvailWorkers)
        BY <1>2 DEF StartProgress, PlaceInv, Sentinels
    <2>2. AvailWorkers = {} => unfinished' = Cardinality(Skus)
        BY <2>1, SizesAre, FS_EmptySet
    <2> QED
        BY <2>1, <2>2 DEF PlaceInv, NotCounted, AtWork, Counts
<1>3. CASE Joined \/ FinishAvailability
    <2>1. CASE Joined
        <3>1. /\ availPc = "join" /\ availPc' = "translating" /\ unfinished = 0
              /\ \A w \in AvailWorkers : worker[w].at = "ended"
              /\ UNCHANGED <<availQueue, unfinished, worker, counted>>
            BY <2>1 DEF Joined
        <3>2. AvailWorkers = {} => Skus = {}
            BY <3>1, SizesAre DEF PlaceInv
        <3> QED
            BY <3>1, <3>2 DEF PlaceInv, NotCounted, AtWork, Counts
    <2>2. CASE FinishAvailability
        BY <2>2 DEF FinishAvailability, PlaceInv, NotCounted
    <2> QED
        BY <1>3, <2>1, <2>2
<1>4. CASE KillAvailability
    <2>1. /\ availPc' = "killed" /\ \A w \in AvailWorkers : worker'[w].at = "idle"
          /\ UNCHANGED <<availQueue, counted>>
        BY <1>4 DEF KillAvailability, NoWork
    <2> QED
        BY <2>1 DEF PlaceInv, NotCounted, AtWork, Counts
<1>5. CASE OpenDraft \/ SaveEdit \/ DeleteTask
    BY <1>5 DEF OpenDraft, SaveEdit, DeleteTask, PlaceInv, NotCounted
<1>6. ASSUME NEW w \in AvailWorkers, SendQuantity(w) \/ SendDelivery(w) \/ ReadCount(w)
      PROVE  PlaceInv' /\ NotCounted'
    <2>1. PICK at \in AtWork :
             /\ worker' = [worker EXCEPT ![w].at = at] /\ worker[w].at \in AtWork
             /\ at \in Counts => \A v \in AvailWorkers : worker[v].at \notin Counts
             /\ at \in {"failed", "count_failed"} <=> worker[w].at \in {"failed", "count_failed"}
             /\ UNCHANGED <<availPc, availQueue, counted>>
        <3>1. CASE SendQuantity(w)
            BY <3>1 DEF SendQuantity, AtWork, Counts
        <3>2. CASE SendDelivery(w)
            BY <3>2 DEF SendDelivery, AtWork, Counts
        <3>3. CASE ReadCount(w)
            <4>1. /\ worker[w].at \in {"sent", "failed"}
                  /\ worker' = [worker EXCEPT ![w].at = IF worker[w].at = "sent" THEN "count" ELSE "count_failed"]
                  /\ \A v \in AvailWorkers : worker[v].at \notin Counts
                  /\ UNCHANGED <<availPc, availQueue, counted>>
                BY <3>3 DEF ReadCount, MayCount, Locked, Counts
            <4> QED
                BY <4>1 DEF AtWork, Counts
        <3> QED
            BY <1>6, <3>1, <3>2, <3>3
    <2>2. PlaceInv'
        BY <2>1, StaysAtWork
    <2>3. /\ worker'[w].at = at /\ worker'[w].item = worker[w].item
          /\ \A v \in AvailWorkers \ {w} : worker'[v] = worker[v]
        BY <2>1 DEF AvailShape
    <2>4. NotCounted'
        BY <2>1, <2>3 DEF NotCounted
    <2> QED
        BY <2>2, <2>4
<1>7. ASSUME NEW w \in AvailWorkers, SaveCount(w) \/ CountRaises(w)
      PROVE  PlaceInv' /\ NotCounted'
    <2>1. /\ worker[w].at \in Counts /\ worker[w].at \in AtWork
          /\ UNCHANGED <<availPc, availQueue>>
          /\ counted' \subseteq counted \cup {Counting(w)}
        BY <1>7 DEF SaveCount, CountRaises, Counts, AtWork
    <2>2. /\ Counting(w)[1] = worker[w].item /\ worker[w].item \in Skus
          /\ Counting(w) = <<worker[w].item, Counting(w)[2]>>
          /\ worker[w].at = "count" => Counting(w)[2] = "worker"
        BY <2>1 DEF Counting, PlaceInv
    <2>3. \A k \in DOMAIN availQueue, by \in {"worker", "handler"} : <<availQueue[k], by>> \notin counted'
        <3> SUFFICES ASSUME NEW k \in DOMAIN availQueue, NEW by \in {"worker", "handler"}
                     PROVE  <<availQueue[k], by>> \notin counted'
            OBVIOUS
        <3>1. availQueue[k] # worker[w].item
            BY <2>1 DEF PlaceInv
        <3>2. <<availQueue[k], by>> \notin counted
            BY DEF NotCounted
        <3>3. <<availQueue[k], by>> # Counting(w)
            BY <2>2, <3>1
        <3> QED
            BY <2>1, <3>2, <3>3
    <2>4. \A v \in AvailWorkers \ {w}, by \in {"worker", "handler"} :
             worker[v].at \in AtWork /\ <<worker[v].item, by>> \notin counted
             => <<worker[v].item, by>> \notin counted'
        BY <2>1, <2>2 DEF PlaceInv
    <2>5. CASE worker' = [worker EXCEPT ![w].at = "failed"] /\ worker[w].at = "count"
        <3>1. "failed" \in AtWork /\ "failed" \notin Counts
            BY DEF AtWork, Counts
        <3>2. PlaceInv'
            BY <2>1, <2>5, <3>1, StaysAtWork
        <3>3. /\ worker'[w].at = "failed" /\ worker'[w].item = worker[w].item
              /\ \A v \in AvailWorkers \ {w} : worker'[v] = worker[v]
            BY <2>5 DEF AvailShape
        <3>4. <<worker[w].item, "handler">> \notin counted'
            BY <2>1, <2>2, <2>5 DEF NotCounted
        <3> QED
            BY <2>1, <2>3, <2>4, <3>2, <3>3, <3>4 DEF NotCounted
    <2>6. ASSUME NEW row \in [at : {"idle", "died"}, item : {Sentinel}], worker' = [worker EXCEPT ![w] = row]
          PROVE  PlaceInv' /\ NotCounted'
        <3>1. worker[w].at \in AtWork /\ UNCHANGED <<availPc, availQueue>>
            BY <2>1
        <3>2. PlaceInv'
            BY <2>6, <3>1, LeavesWork
        <3>3. worker'[w].at \notin AtWork /\ \A v \in AvailWorkers \ {w} : worker'[v] = worker[v]
            BY <2>6 DEF AtWork, Counts, AvailShape
        <3> QED
            BY <2>1, <2>3, <2>4, <3>2, <3>3 DEF NotCounted
    <2>7. {NoWork, [at |-> "died", item |-> Sentinel]} \subseteq [at : {"idle", "died"}, item : {Sentinel}]
        BY DEF NoWork
    <2> QED
        BY <1>7, <2>5, <2>6, <2>7 DEF SaveCount, CountRaises
<1> QED
    BY <1>1, <1>2, <1>3, <1>4, <1>5, <1>6, <1>7, TakePlace DEF AvailNext, AvailJobStep, WorkerStep

\* A count is saved over the document it was read from, and is a new one.
LEMMA CountSaved ==
    ASSUME AvailInv, Undisturbed, NEW w \in AvailWorkers, worker[w].at \in Counts,
           availDoc' = [availCopy[w] EXCEPT !.done = @ + 1],
           counted' = counted \cup {Counting(w)}
    PROVE  availDoc'.done = Cardinality(counted') /\ availDoc'.state = "IN_PROGRESS"
<1> USE DEF AvailInv
<1>1. availPc = "join" /\ worker[w].at \in AtWork
    BY DEF PlaceInv, AtWork, Counts
<1>2. /\ availCopy[w] = availDoc /\ availDoc.state = "IN_PROGRESS"
      /\ availDoc.done = Cardinality(counted)
    BY <1>1 DEF CountInv
<1>3. Counting(w) \notin counted
    BY <1>1 DEF Counting, NotCounted, AtWork, Counts
<1>4. Cardinality(counted') = Cardinality(counted) + 1
    BY <1>3, ErrorsAreFinite, FS_AddElement
<1>5. availDoc \in AvailDocument
    BY DEF AvailShape
<1>6. availDoc' = [availDoc EXCEPT !.done = @ + 1]
    BY <1>2
<1>7. availDoc'.done = availDoc.done + 1 /\ availDoc'.state = availDoc.state
    BY <1>5, <1>6, EditedDocuments
<1> QED
    BY <1>2, <1>4, <1>7

LEMMA CountKept ==
    ASSUME AvailInv, AvailNext
    PROVE  CountInv'
<1> USE DEF AvailInv
<1>1. UNCHANGED scene
    BY SceneIsKept
<1> SUFFICES ASSUME Undisturbed PROVE CountInv'
    BY <1>1 DEF CountInv, Undisturbed, May
<1>2. availCopy["user"] = NoDoc
    BY DEF CountInv
<1>3. availCopy \in [AvailWorkers \cup {"task", "user"} -> AvailDocument] /\ "user" \notin AvailWorkers
      /\ "task" \notin AvailWorkers
    BY AvailabilityAssumption DEF AvailShape
<1>4. CASE StartAvailability
    <2>1. \A w \in AvailWorkers : worker'[w].at \notin Counts
        BY <1>4 DEF StartAvailability, PlaceInv, AtWork
    <2> QED
        BY <1>2, <1>3, <1>4, <2>1 DEF StartAvailability, CountInv
<1>5. CASE StartProgress
    <2> DEFINE d == [availCopy["task"] EXCEPT !.state = "IN_PROGRESS", !.done = 0]
    <2>1. d.state = "IN_PROGRESS" /\ d.done = 0
        BY <1>3, EditedDocuments
    <2>2. availDoc' = d /\ availCopy' = [availCopy EXCEPT !["task"] = d] /\ UNCHANGED <<worker, counted>>
        BY <1>5 DEF StartProgress
    <2> HIDE DEF d
    <2>3. \A w \in AvailWorkers : worker'[w].at \notin Counts
        BY <1>5, <2>2 DEF StartProgress, PlaceInv, AtWork
    <2>4. counted' = {} /\ Cardinality({}) = 0
        BY <1>5, <2>2, FS_EmptySet DEF StartProgress, PlaceInv
    <2> QED
        BY <1>2, <1>3, <2>1, <2>2, <2>3, <2>4 DEF CountInv
<1>6. CASE Joined \/ FinishAvailability \/ KillAvailability
    <2>1. /\ availPc' # "join"
          /\ availPc' = "translating" => availPc = "join" /\ UNCHANGED <<availDoc, counted>>
          /\ availCopy'["user"] = availCopy["user"]
        BY <1>3, <1>6 DEF Joined, FinishAvailability, KillAvailability
    <2>2. \A w \in AvailWorkers : worker'[w].at \notin AtWork
        BY <1>6 DEF Joined, FinishAvailability, KillAvailability, PlaceInv, NoWork, AtWork, Counts
    <2> QED
        BY <1>2, <2>1, <2>2 DEF CountInv, AtWork
<1>7. ASSUME NEW w \in AvailWorkers, TakeItem(w) \/ SendQuantity(w) \/ SendDelivery(w)
      PROVE  CountInv'
    <2>1. \A v \in AvailWorkers : worker'[v].at \in Counts => worker[v].at \in Counts
        <3>1. PICK row \in [at : {"ended", "failed", "quantity", "delivery", "sent"}, item : Skus \cup {Sentinel}] :
                    worker' = [worker EXCEPT ![w] = row]
            <4>1. CASE TakeItem(w)
                <5>1. Head(availQueue) \in Skus \cup {Sentinel}
                    BY <4>1, QueueMoves DEF TakeItem
                <5> QED
                    BY <4>1, <5>1 DEF TakeItem
            <4>2. CASE SendQuantity(w) \/ SendDelivery(w)
                BY <4>2 DEF SendQuantity, SendDelivery, AvailShape
            <4> QED
                BY <1>7, <4>1, <4>2
        <3> QED
            BY <3>1 DEF AvailShape, Counts
    <2>2. UNCHANGED <<availDoc, availPc, availCopy, counted>>
        BY <1>7 DEF TakeItem, SendQuantity, SendDelivery
    <2> QED
        BY <2>1, <2>2 DEF CountInv
<1>8. ASSUME NEW w \in AvailWorkers, ReadCount(w) PROVE CountInv'
    <2>1. /\ availCopy' = [availCopy EXCEPT ![w] = OrTask(availDoc)]
          /\ UNCHANGED <<availDoc, availPc, counted>>
          /\ \A v \in AvailWorkers \ {w} : worker'[v] = worker[v]
          /\ worker[w].at \in AtWork
        BY <1>8 DEF ReadCount, MayCount, AtWork, AvailShape
    <2>2. availPc = "join"
        BY <2>1 DEF PlaceInv
    <2>3. OrTask(availDoc) = availDoc
        BY <2>2 DEF CountInv, OrTask, NoDoc
    <2>4. /\ availCopy'["user"] = NoDoc /\ availCopy'[w] = availDoc
          /\ \A v \in AvailWorkers \ {w} : availCopy'[v] = availCopy[v]
        BY <1>2, <1>3, <2>1, <2>3
    <2>5. \A v \in AvailWorkers : worker'[v].at \in Counts => availCopy'[v] = availDoc
        BY <2>1, <2>4 DEF CountInv
    <2> QED
        BY <2>1, <2>4, <2>5 DEF CountInv
<1>9. ASSUME NEW w \in AvailWorkers, SaveCount(w) \/ CountRaises(w) PROVE CountInv'
    <2>1. worker[w].at \in Counts /\ worker[w].at \in AtWork /\ UNCHANGED <<availPc, availCopy>>
        BY <1>9 DEF SaveCount, CountRaises, AtWork, Counts
    <2>2. availPc = "join"
        BY <2>1 DEF PlaceInv
    <2>3. worker'[w].at \notin Counts /\ \A v \in AvailWorkers \ {w} : worker'[v] = worker[v]
        <3>1. CASE SaveCount(w)
            BY <3>1 DEF SaveCount, NoWork, AvailShape, Counts
        <3>2. CASE CountRaises(w)
            BY <3>2 DEF CountRaises, AvailShape, Counts
        <3> QED
            BY <1>9, <3>1, <3>2
    <2>4. \A v \in AvailWorkers : worker'[v].at \notin Counts
        BY <2>1, <2>3 DEF PlaceInv
    <2>5. \/ UNCHANGED <<availDoc, counted>>
          \/ availDoc' = [availCopy[w] EXCEPT !.done = @ + 1] /\ counted' = counted \cup {Counting(w)}
        BY <1>9 DEF SaveCount, CountRaises
    <2>6. availDoc'.done = Cardinality(counted') /\ availDoc'.state = "IN_PROGRESS"
        <3>1. CASE UNCHANGED <<availDoc, counted>>
            BY <2>2, <3>1 DEF CountInv
        <3>2. CASE availDoc' = [availCopy[w] EXCEPT !.done = @ + 1] /\ counted' = counted \cup {Counting(w)}
            BY <2>1, <3>2, CountSaved
        <3> QED
            BY <2>5, <3>1, <3>2
    <2> QED
        BY <1>2, <2>1, <2>4, <2>6 DEF CountInv
<1>10. ~OpenDraft /\ ~SaveEdit /\ ~DeleteTask
    BY <1>2 DEF OpenDraft, SaveEdit, DeleteTask, Undisturbed
<1> QED
    BY <1>4, <1>5, <1>6, <1>7, <1>8, <1>9, <1>10 DEF AvailNext, AvailJobStep, WorkerStep

\* Fates go on as long as nothing is taken back.
LEMMA FateKept ==
    ASSUME AvailShape, NEW i \in Skus, Fate(i), AvailShape',
           \A j \in Skus : accepted[j] \subseteq accepted'[j],
           availErrors \subseteq availErrors',
           \A k \in DOMAIN availQueue : availQueue[k] = i =>
              \/ \E n \in DOMAIN availQueue' : availQueue'[n] = i
              \/ \E kind \in {"refused", "raised"} : <<i, kind>> \in availErrors'
              \/ \E w \in AvailWorkers : worker'[w].at = "quantity" /\ worker'[w].item = i,
           \A w \in AvailWorkers : worker[w].at \in {"quantity", "delivery"} /\ worker[w].item = i =>
              \/ worker'[w].at \in {"quantity", "delivery"} /\ worker'[w].item = i
              \/ Full(i)' \/ \E kind \in {"refused", "raised"} : <<i, kind>> \in availErrors'
    PROVE  Fate(i)'
<1>1. Full(i) => Full(i)'
    BY DEF Full, AvailShape
<1> QED
    BY <1>1 DEF Fate

\* Only the last step of the job writes "DONE".
NoneDone == availDoc.state # "DONE" /\ \A who \in DOMAIN availCopy : availCopy[who].state # "DONE"

LEMMA NoneDoneKept ==
    ASSUME AvailInv, AvailNext, ~FinishAvailability, NoneDone
    PROVE  NoneDone'
<1> USE DEF AvailInv
<1>1. /\ availCopy \in [AvailWorkers \cup {"task", "user"} -> AvailDocument] /\ availDoc \in AvailDocument
      /\ DOMAIN availCopy' = DOMAIN availCopy
    BY AvailShapeKept DEF AvailShape
<1>2. NoDoc.state = "absent" /\ [NoDoc EXCEPT !.state = "none"].state = "none"
    BY DEF NoDoc
<1>3. CASE StartAvailability
    BY <1>1, <1>2, <1>3 DEF StartAvailability, NoneDone
<1>4. CASE StartProgress
    <2> DEFINE d == [availCopy["task"] EXCEPT !.state = "IN_PROGRESS", !.done = 0]
    <2>1. d.state = "IN_PROGRESS"
        BY <1>1, EditedDocuments
    <2>2. availDoc' = d /\ availCopy' = [availCopy EXCEPT !["task"] = d]
        BY <1>4 DEF StartProgress
    <2> HIDE DEF d
    <2> QED
        BY <1>1, <2>1, <2>2 DEF NoneDone
<1>5. CASE Joined
    BY <1>1, <1>5 DEF Joined, OrTask, NoneDone
<1>6. CASE KillAvailability \/ DeleteTask
    BY <1>2, <1>6 DEF KillAvailability, DeleteTask, NoneDone
<1>7. CASE OpenDraft
    BY <1>1, <1>7 DEF OpenDraft, NoneDone
<1>8. CASE SaveEdit
    <2>1. [availCopy["user"] EXCEPT !.edited = TRUE].state = availCopy["user"].state
        BY <1>1, EditedDocuments
    <2> QED
        BY <1>1, <1>2, <1>8, <2>1 DEF SaveEdit, NoneDone
<1>9. ASSUME NEW w \in AvailWorkers, TakeItem(w) \/ SendQuantity(w) \/ SendDelivery(w) \/ ReadCount(w)
      PROVE  NoneDone'
    BY <1>1, <1>9 DEF TakeItem, SendQuantity, SendDelivery, ReadCount, OrTask, NoneDone
<1>10. ASSUME NEW w \in AvailWorkers, SaveCount(w) \/ CountRaises(w) PROVE NoneDone'
    <2>1. [availCopy[w] EXCEPT !.done = @ + 1].state = availCopy[w].state
        BY <1>1, EditedDocuments
    <2> QED
        BY <1>1, <1>10, <2>1 DEF SaveCount, CountRaises, NoneDone
<1> QED
    BY <1>3, <1>4, <1>5, <1>6, <1>7, <1>8, <1>9, <1>10 DEF AvailNext, AvailJobStep, WorkerStep

\* When all workers have ended without an error, OTTO has taken everything.
LEMMA NoErrorIsFull ==
    ASSUME AvailInv, FinishAvailability, AvailFailed = 0
    PROVE  \A i \in Skus : Full(i)
<1> USE DEF AvailInv
<1>1. availPc = "translating"
    BY DEF FinishAvailability
<1>2. availErrors = {}
    BY ErrorsAreFinite, FS_EmptySet DEF AvailFailed
<1>3. \A w \in AvailWorkers : worker[w].at = "ended"
    BY <1>1 DEF PlaceInv
<1>4. \A i \in Skus : \A k \in DOMAIN availQueue : availQueue[k] # i
    BY <1>1, <1>3 DEF PlaceInv
<1> QED
    BY <1>1, <1>2, <1>3, <1>4 DEF DoneInv, Fate

LEMMA FatesKept ==
    ASSUME AvailInv, AvailNext, availPc' \in {"join", "translating"}
    PROVE  \A i \in Skus : Fate(i)'
<1> USE DEF AvailInv
<1> SUFFICES ASSUME NEW i \in Skus PROVE Fate(i)'
    OBVIOUS
<1>1. AvailShape'
    BY AvailShapeKept
<1>2. CASE StartProgress
    <2>1. \A n \in Nat : Cardinality(Skus) <= n => i \in 1 .. n
        BY SizesAre
    <2>2. Sentinels \in Nat /\ Cardinality(Skus) + Sentinels \in Nat
          /\ Cardinality(Skus) <= Cardinality(Skus) + Sentinels
        BY SizesAre DEF Sentinels
    <2>3. i \in DOMAIN availQueue' /\ availQueue'[i] = i
        BY <1>2, <2>1, <2>2 DEF StartProgress
    <2> QED
        BY <2>3 DEF Fate
<1>3. CASE ~StartProgress
    <2>1. availPc \in {"join", "translating"}
        BY <1>3 DEF AvailNext, AvailJobStep, KillAvailability, WorkerStep, CountRaises, OpenDraft,
            SaveEdit, DeleteTask, StartAvailability, Joined, FinishAvailability, TakeItem,
            SendQuantity, SendDelivery, ReadCount, SaveCount
    <2>2. Fate(i)
        BY <2>1 DEF DoneInv
    <2>3. CASE UNCHANGED <<accepted, availErrors, availQueue, worker>>
        BY <2>2, <2>3 DEF Fate, Full
    <2>4. ASSUME NEW w \in AvailWorkers, TakeItem(w) PROVE Fate(i)'
        <3>1. /\ availQueue # <<>> /\ availQueue' = Tail(availQueue) /\ worker[w].at = "idle"
              /\ UNCHANGED accepted /\ availErrors \subseteq availErrors'
            BY <2>4 DEF TakeItem
        <3>2. availQueue[1] = Head(availQueue)
              /\ \A k \in DOMAIN availQueue : k # 1 =>
                    k - 1 \in DOMAIN Tail(availQueue) /\ Tail(availQueue)[k - 1] = availQueue[k]
            BY <3>1, HeadTailProperties, LenProperties DEF AvailShape
        <3>3. CASE Head(availQueue) = i
            <4>1. i # Sentinel
                BY SizesAre DEF Sentinel
            <4>2. \/ <<i, "raised">> \in availErrors'
                  \/ worker'[w].at = "quantity" /\ worker'[w].item = i
                BY <2>4, <3>3, <4>1 DEF TakeItem, AvailShape
            <4> QED
                BY <4>2 DEF Fate
        <3>4. CASE Head(availQueue) # i
            <4>1. \A v \in AvailWorkers \ {w} : worker'[v] = worker[v]
                BY <2>4 DEF TakeItem, AvailShape
            <4>2. \A k \in DOMAIN availQueue : availQueue[k] = i =>
                     \E n \in DOMAIN availQueue' : availQueue'[n] = i
                BY <3>1, <3>2, <3>4
            <4> QED
                BY <1>1, <2>2, <3>1, <4>1, <4>2, FateKept
        <3> QED
            BY <3>3, <3>4
    <2>5. ASSUME NEW w \in AvailWorkers, SendQuantity(w) PROVE Fate(i)'
        <3>1. /\ UNCHANGED <<availErrors, availQueue>>
              /\ \A j \in Skus : accepted[j] \subseteq accepted'[j]
              /\ \A v \in AvailWorkers \ {w} : worker'[v] = worker[v]
              /\ worker'[w].at = "delivery" /\ worker'[w].item = worker[w].item
            BY <2>5 DEF SendQuantity, AvailShape
        <3> QED
            BY <1>1, <2>2, <3>1, FateKept
    <2>6. ASSUME NEW w \in AvailWorkers, SendDelivery(w) PROVE Fate(i)'
        <3>1. /\ UNCHANGED availQueue /\ availErrors \subseteq availErrors'
              /\ \A j \in Skus : accepted[j] \subseteq accepted'[j]
              /\ \A v \in AvailWorkers \ {w} : worker'[v] = worker[v]
            BY <2>6 DEF SendDelivery, AvailShape
        <3>2. worker[w].item = i => Full(i)' \/ <<i, "refused">> \in availErrors'
            BY <2>6 DEF SendDelivery, IsAvailable, Full
        <3> QED
            BY <1>1, <2>2, <3>1, <3>2, FateKept
    <2>7. ASSUME NEW w \in AvailWorkers, ReadCount(w) \/ SaveCount(w) \/ CountRaises(w) PROVE Fate(i)'
        <3>1. /\ UNCHANGED <<accepted, availQueue>> /\ availErrors \subseteq availErrors'
              /\ \A v \in AvailWorkers \ {w} : worker'[v] = worker[v]
              /\ worker[w].at \notin {"quantity", "delivery"}
            BY <2>7 DEF ReadCount, MayCount, SaveCount, CountRaises, AvailShape
        <3> QED
            BY <1>1, <2>2, <3>1, FateKept
    <2>8. ~KillAvailability
        BY DEF KillAvailability
    <2>9. StartAvailability \/ Joined \/ FinishAvailability \/ OpenDraft \/ SaveEdit \/ DeleteTask
          => UNCHANGED <<accepted, availErrors, availQueue, worker>>
        BY DEF StartAvailability, Joined, FinishAvailability, OpenDraft, SaveEdit, DeleteTask
    <2> QED
        BY <1>3, <2>3, <2>4, <2>5, <2>6, <2>7, <2>8, <2>9 DEF AvailNext, AvailJobStep, WorkerStep
<1> QED
    BY <1>2, <1>3

\* A document says "DONE" when all is; nothing is taken back from OTTO.
LEMMA DoneKept ==
    ASSUME AvailInv, AvailNext
    PROVE  DoneInv'
<1> USE DEF AvailInv
<1>1. AvailShape'
    BY AvailShapeKept
<1>2. \A i \in Skus : accepted[i] \subseteq accepted'[i]
    BY DEF AvailShape, AvailNext, AvailJobStep, KillAvailability, WorkerStep, CountRaises, OpenDraft,
        SaveEdit, DeleteTask, StartAvailability, StartProgress, Joined, FinishAvailability, TakeItem,
        SendQuantity, SendDelivery, ReadCount, SaveCount
<1>3. \A i \in Skus : Full(i) => Full(i)'
    BY <1>1, <1>2 DEF Full, AvailShape
<1>4. CASE \A i \in Skus : Full(i)
    BY <1>3, <1>4, FatesKept DEF DoneInv
<1>5. CASE NoneDone
    <2>1. CASE FinishAvailability
        <3>1. CASE AvailFailed = 0
            BY <1>3, <2>1, <3>1, FatesKept, NoErrorIsFull DEF DoneInv
        <3>2. CASE AvailFailed # 0
            <4>1. AvailFailed \in Nat
                BY ErrorsAreFinite, FS_CardinalityType DEF AvailFailed
            <4>2. availDoc'.state = "FAILED" /\ UNCHANGED availCopy
                BY <2>1, <3>2, <4>1 DEF FinishAvailability, AvailShape, AvailDocument
            <4> QED
                BY <1>5, <4>2, FatesKept DEF DoneInv, NoneDone
        <3> QED
            BY <3>1, <3>2
    <2>2. CASE ~FinishAvailability
        <3>1. NoneDone'
            BY <1>5, <2>2, NoneDoneKept
        <3> QED
            BY <3>1, FatesKept DEF DoneInv, NoneDone
    <2> QED
        BY <2>1, <2>2
<1> QED
    BY <1>4, <1>5 DEF DoneInv, NoneDone

\* Steps that write neither the document nor a copy, and bring no count nearer.
LEMMA EditUndisturbed ==
    ASSUME EditInv, UNCHANGED <<scene, availDoc, availPc, availCopy, edit>>,
           \A w \in AvailWorkers : worker'[w].at \in Counts => worker[w].at \in Counts
    PROVE  EditInv'
BY DEF EditInv, Pending, Counts, May

\* The document is written, and nothing is pending any more that was not.
LEMMA DocumentSaved ==
    ASSUME EditInv, UNCHANGED <<scene, edit>>, NEW d \in AvailDocument, availDoc' = d, d.state # "absent",
           ~May("deletes") /\ edit = "saved" => d.edited,
           Pending' \subseteq Pending, \A who \in Pending : availCopy'[who] = availCopy[who],
           availCopy'["user"] = availCopy["user"],
           availPc' \in {"sleeping", "join", "translating"} => availCopy'["task"].state # "absent",
           \A w \in AvailWorkers : worker'[w].at \in Counts => w \in Pending /\ worker[w].at \in Counts
    PROVE  EditInv'
<1>1. /\ availDoc'.state # "absent"
      /\ availCopy'["user"].state = "absent" => availCopy'["user"] = NoDoc
      /\ \A w \in AvailWorkers : worker'[w].at \in Counts => availCopy'[w].state # "absent"
    BY DEF EditInv
<1>2. ~May("deletes")' /\ edit' = "saved" => availDoc'.edited /\ \A who \in Pending' : availCopy'[who].edited
    BY DEF EditInv, May
<1> QED
    BY <1>1, <1>2 DEF EditInv

LEMMA EditKept ==
    ASSUME AvailInv, AvailNext
    PROVE  EditInv'
<1> USE DEF AvailInv
<1>1. UNCHANGED scene
    BY SceneIsKept
<1>2. /\ availCopy \in [AvailWorkers \cup {"task", "user"} -> AvailDocument] /\ availDoc \in AvailDocument
      /\ "task" \notin AvailWorkers /\ "user" \notin AvailWorkers
      /\ availCopy' \in [AvailWorkers \cup {"task", "user"} -> AvailDocument] /\ availDoc' \in AvailDocument
    BY AvailabilityAssumption, AvailShapeKept DEF AvailShape
<1>3. NoDoc.state = "absent" /\ [NoDoc EXCEPT !.state = "none"].state = "none"
    BY DEF NoDoc
<1>4. CASE StartAvailability
    <2>1. Pending' = {"task"}
        <3>1. \A w \in AvailWorkers : worker'[w].at \notin {"count", "count_failed"}
            BY <1>4 DEF StartAvailability, PlaceInv
        <3>2. availPc' = "sleeping"
            BY <1>4 DEF StartAvailability
        <3> QED
            BY <3>1, <3>2 DEF Pending
    <2>2. /\ UNCHANGED <<availDoc, edit>> /\ availCopy'["user"] = availCopy["user"]
          /\ availCopy'["task"].state # "absent"
          /\ availDoc # NoDoc => availCopy'["task"] = availDoc
        BY <1>2, <1>3, <1>4 DEF StartAvailability, EditInv
    <2>3. \A w \in AvailWorkers : worker'[w].at \notin Counts
        BY <1>4 DEF StartAvailability, PlaceInv, AtWork
    <2>4. ~May("deletes") => availDoc # NoDoc
        BY <1>3 DEF EditInv
    <2> QED
        BY <1>1, <2>1, <2>2, <2>3, <2>4 DEF EditInv, May
<1>5. CASE StartProgress
    <2> DEFINE d == [availCopy["task"] EXCEPT !.state = "IN_PROGRESS", !.done = 0]
    <2>1. d \in AvailDocument /\ d.state = "IN_PROGRESS" /\ (availCopy["task"].edited => d.edited)
        BY <1>2, EditedDocuments, EditKeepsEdited
    <2>2. availDoc' = d /\ availCopy' = [availCopy EXCEPT !["task"] = d]
          /\ UNCHANGED <<worker, edit>> /\ availPc = "sleeping" /\ availPc' = "join"
        BY <1>5 DEF StartProgress
    <2> HIDE DEF d
    <2>3. \A w \in AvailWorkers : worker[w].at = "idle"
        BY <2>2 DEF PlaceInv
    <2>4. Pending' = {} /\ "task" \in Pending
        BY <2>2, <2>3 DEF Pending
    <2>5. availCopy'["task"] = d /\ availCopy'["user"] = availCopy["user"]
        BY <1>2, <2>2
    <2> QED
        BY <1>1, <2>1, <2>2, <2>3, <2>4, <2>5 DEF EditInv, May, Counts
<1>6. CASE Joined
    <2>1. Pending' = {"task"} /\ \A w \in AvailWorkers : worker'[w].at \notin Counts
        BY <1>6 DEF Joined, Pending, Counts
    <2>2. /\ UNCHANGED <<availDoc, edit>> /\ availCopy'["user"] = availCopy["user"]
          /\ availCopy'["task"] = OrTask(availDoc) /\ availPc = "join"
        BY <1>2, <1>6 DEF Joined
    <2>3. OrTask(availDoc).state # "absent" /\ (~May("deletes") => OrTask(availDoc) = availDoc)
        BY <1>3, <2>2 DEF OrTask, EditInv
    <2> QED
        BY <1>1, <2>1, <2>2, <2>3 DEF EditInv, May
<1>7. CASE FinishAvailability
    <2> DEFINE task == availCopy["task"]
    <2>1. AvailFailed \in Nat /\ Cardinality(Skus) \in Nat /\ task \in AvailDocument
        BY <1>2, SizesAre, ErrorsAreFinite, FS_CardinalityType DEF AvailFailed
    <2>2. availDoc'.state # "absent" /\ (task.edited => availDoc'.edited)
        BY <1>7, <2>1 DEF FinishAvailability, AvailDocument
    <2>3. /\ availPc = "translating" /\ availPc' = "ended" /\ UNCHANGED <<availCopy, worker, edit>>
          /\ \A w \in AvailWorkers : worker[w].at = "ended"
        BY <1>7 DEF FinishAvailability, PlaceInv
    <2>4. Pending' = {} /\ "task" \in Pending /\ \A w \in AvailWorkers : worker'[w].at \notin Counts
        BY <2>3 DEF Pending, Counts
    <2> QED
        BY <1>1, <2>2, <2>3, <2>4 DEF EditInv, May
<1>8. CASE KillAvailability
    <2>1. /\ UNCHANGED <<availDoc, availCopy, edit>> /\ availPc' = "killed"
          /\ \A w \in AvailWorkers : worker'[w].at = "idle"
        BY <1>8 DEF KillAvailability, NoWork
    <2>2. Pending' = {} /\ \A w \in AvailWorkers : worker'[w].at \notin Counts
        BY <2>1 DEF Pending, Counts
    <2> QED
        BY <1>1, <2>1, <2>2 DEF EditInv, May
<1>9. ASSUME NEW w \in AvailWorkers, TakeItem(w) \/ SendQuantity(w) \/ SendDelivery(w) PROVE EditInv'
    <2>1. UNCHANGED <<availDoc, availPc, availCopy, edit>>
        BY <1>9 DEF TakeItem, SendQuantity, SendDelivery
    <2>2. \A v \in AvailWorkers \ {w} : worker'[v] = worker[v]
        BY <1>9 DEF TakeItem, SendQuantity, SendDelivery, AvailShape
    <2>3. worker'[w].at \notin Counts
        BY <1>9 DEF TakeItem, SendQuantity, SendDelivery, AvailShape, Counts
    <2> QED
        BY <1>1, <2>1, <2>2, <2>3, EditUndisturbed
<1>10. ASSUME NEW w \in AvailWorkers, ReadCount(w) PROVE EditInv'
    <2>1. /\ availCopy' = [availCopy EXCEPT ![w] = OrTask(availDoc)]
          /\ UNCHANGED <<availDoc, availPc, edit>>
          /\ \A v \in AvailWorkers \ {w} : worker'[v] = worker[v]
          /\ worker[w].at \in AtWork
        BY <1>10 DEF ReadCount, MayCount, AtWork, AvailShape
    <2>2. availPc = "join" /\ availCopy["task"].state # "absent"
        BY <2>1 DEF PlaceInv, EditInv
    <2>3. OrTask(availDoc).state # "absent" /\ (~May("deletes") => OrTask(availDoc) = availDoc)
        BY <1>3, <2>2 DEF OrTask, EditInv
    <2>4. /\ availCopy'["user"] = availCopy["user"] /\ availCopy'["task"] = availCopy["task"]
          /\ availCopy'[w] = OrTask(availDoc) /\ \A v \in AvailWorkers \ {w} : availCopy'[v] = availCopy[v]
        BY <1>2, <2>1
    <2>5. \A v \in AvailWorkers : worker'[v].at \in Counts => availCopy'[v].state # "absent"
        BY <2>1, <2>3, <2>4 DEF EditInv
    <2>6. Pending' \subseteq Pending \cup {w} /\ "task" \notin Pending'
        BY <1>2, <2>1, <2>2 DEF Pending
    <2>7. ~May("deletes") /\ edit = "saved" => \A who \in Pending' : availCopy'[who].edited
        BY <1>2, <2>3, <2>4, <2>6 DEF EditInv, Pending
    <2> QED
        BY <1>1, <2>1, <2>2, <2>4, <2>5, <2>7 DEF EditInv, May
<1>11. ASSUME NEW w \in AvailWorkers, SaveCount(w) \/ CountRaises(w) PROVE EditInv'
    <2>1. /\ UNCHANGED <<availPc, availCopy, edit>> /\ worker[w].at \in Counts
          /\ \A v \in AvailWorkers \ {w} : worker'[v] = worker[v]
        BY <1>11 DEF SaveCount, CountRaises, AvailShape, Counts
    <2>2. worker'[w].at \notin Counts
        BY <1>11 DEF SaveCount, CountRaises, AvailShape, Counts, NoWork
    <2>3. CASE UNCHANGED availDoc
        BY <1>1, <2>1, <2>2, <2>3, EditUndisturbed
    <2>4. CASE availDoc' = [availCopy[w] EXCEPT !.done = @ + 1]
        <3> DEFINE d == [availCopy[w] EXCEPT !.done = @ + 1]
        <3>1. d \in AvailDocument /\ d.state = availCopy[w].state /\ (availCopy[w].edited => d.edited)
            BY <1>2, EditedDocuments, EditKeepsEdited
        <3>2. w \in Pending /\ availCopy[w].state # "absent" /\ availDoc' = d
            BY <2>1, <2>4 DEF Pending, Counts, EditInv
        <3> HIDE DEF d
        <3>3. Pending' \subseteq Pending
            BY <2>1, <2>2 DEF Pending, Counts
        <3>4. /\ ~May("deletes") /\ edit = "saved" => d.edited
              /\ availPc' \in {"sleeping", "join", "translating"} => availCopy'["task"].state # "absent"
              /\ \A v \in AvailWorkers : worker'[v].at \in Counts => v \in Pending /\ worker[v].at \in Counts
            BY <2>1, <2>2, <3>1, <3>2 DEF EditInv, Pending, Counts
        <3> QED
            BY <1>1, <2>1, <3>1, <3>2, <3>3, <3>4, DocumentSaved
    <2> QED
        BY <1>11, <2>3, <2>4 DEF SaveCount, CountRaises
<1>12. CASE OpenDraft
    <2>1. /\ availCopy' = [availCopy EXCEPT !["user"] = availDoc] /\ edit = "none"
          /\ UNCHANGED <<availDoc, availPc, worker, edit>>
        BY <1>12 DEF OpenDraft
    <2>2. /\ availCopy'["user"] = availDoc /\ availCopy'["task"] = availCopy["task"]
          /\ \A w \in AvailWorkers : availCopy'[w] = availCopy[w]
        BY <1>2, <2>1
    <2> QED
        BY <1>1, <2>1, <2>2 DEF EditInv, May
<1>13. CASE SaveEdit
    <2> DEFINE d == [availCopy["user"] EXCEPT !.edited = TRUE]
    <2>1. d \in AvailDocument /\ d.state = availCopy["user"].state /\ d.edited
        BY <1>2, EditedDocuments
    <2>2. /\ availDoc' = d /\ availCopy' = [availCopy EXCEPT !["user"] = NoDoc]
          /\ availCopy["user"] # NoDoc /\ UNCHANGED <<availPc, worker>>
          /\ edit' = "saved" => Pending = {}
        BY <1>13 DEF SaveEdit
    <2> HIDE DEF d
    <2>3. /\ availCopy'["user"] = NoDoc /\ availCopy'["task"] = availCopy["task"]
          /\ \A w \in AvailWorkers : availCopy'[w] = availCopy[w]
        BY <1>2, <2>2
    <2>4. d.state # "absent" /\ Pending' = Pending
        BY <2>1, <2>2 DEF EditInv, Pending
    <2> QED
        BY <1>1, <2>1, <2>2, <2>3, <2>4 DEF EditInv, May
<1>14. CASE DeleteTask
    BY <1>1, <1>3, <1>14 DEF DeleteTask, EditInv, May
<1> QED
    BY <1>4, <1>5, <1>6, <1>7, <1>8, <1>9, <1>10, <1>11, <1>12, <1>13, <1>14
        DEF AvailNext, AvailJobStep, WorkerStep

LEMMA AvailHolds == AvailSafety => []AvailInv
<1>1. AvailInv /\ UNCHANGED <<scene, availVars>> => AvailInv'
    <2> SUFFICES ASSUME AvailInv, UNCHANGED <<scene, availVars>> PROVE AvailInv'
        OBVIOUS
    <2> USE DEF availVars
    <2>1. AvailShape' /\ QueueInv' /\ PlaceInv' /\ NotCounted'
        BY DEF AvailInv, AvailShape, QueueInv, PlaceInv, NotCounted
    <2>2. CountInv' /\ DoneInv' /\ EditInv'
        BY DEF AvailInv, CountInv, DoneInv, EditInv, Undisturbed, May, Fate, Full, Pending
    <2> QED
        BY <2>1, <2>2 DEF AvailInv
<1>2. AvailInv /\ AvailNext => AvailInv'
    BY AvailShapeKept, QueueKept, PlaceKept, CountKept, DoneKept, EditKept DEF AvailInv
<1> QED
    BY <1>1, <1>2, AvailStarts, PTL DEF AvailSafety

LEMMA AvailIsTrue == AvailInv => NoCountLost /\ DoneMeansAvailable /\ EditKeptUnlessOverlapped
BY DEF AvailInv, CountInv, DoneInv, EditInv, Undisturbed, Full, NoCountLost, DoneMeansAvailable,
    EditKeptUnlessOverlapped

-----------------------------------------------------------------------------
(* ImportTasks: the sync.                                                  *)

ImportSafety == ImportInit /\ [][ImportNext]_<<scene, importVars>>

CatalogueItems == {"new"} \cup UNION {Range(c) : c \in Catalogues}

SyncShape ==
    /\ importPc \in {"queued", "fetch", "save", "progress", "complete", "ended"}
    /\ remote \in Seq(CatalogueItems) /\ initially \in Seq(CatalogueItems)
    /\ page \in Seq(CatalogueItems)
    /\ offset \in Nat
    /\ tally \in [fetched : Int, saved : Int, skipped : Int]
    /\ importTask \in [status : {"queued", "running", "completed", "failed"},
                       fetched : Nat, saved : Int, skipped : Int]
    /\ ~May("grows") /\ ~May("shrinks") => remote = initially

\* What the numbers of the task count.
SyncCounts ==
    /\ tally.fetched = offset /\ importTask.fetched <= offset
    /\ tally.fetched = tally.saved + tally.skipped
    /\ importTask.fetched = importTask.saved + importTask.skipped

\* An item that came in front has moved all others by one place.
Shift == Len(remote) - Len(initially)
HasItem(id) == id # None => id \in table
AllThere == \A i \in 1 .. Len(initially) : HasItem(initially[i])

\* What is behind the offset is stored; the page is what follows it.
SyncedInv == ~May("shrinks") =>
    /\ Shift \in {0, 1} /\ offset <= Len(remote)
    /\ \A i \in 1 .. Len(initially) : remote[i + Shift] = initially[i]
    /\ \A i \in 1 .. Len(initially) : i + Shift <= offset => HasItem(initially[i])
    /\ importPc = "save" =>
          /\ offset + Len(page) <= Len(remote)
          /\ \A k \in 1 .. Len(page) : page[k] = remote[offset + k]
          /\ ~hasMore => offset + Len(page) = Len(remote)
    /\ importPc = "progress" /\ ~hasMore => AllThere
    /\ importPc = "complete" => AllThere
    /\ importTask.status = "completed" => AllThere

SyncInv == Plays("sync") => SyncShape /\ SyncCounts /\ SyncedInv

LEMMA SyncStarts == ImportInit => SyncInv
<1> SUFFICES ASSUME ImportInit, Plays("sync") PROVE SyncShape /\ SyncCounts /\ SyncedInv
    BY DEF SyncInv
<1> USE DEF ImportInit
<1>1. /\ importPc = "queued" /\ remote \in Catalogues /\ initially = remote
      /\ offset = 0 /\ page = <<>>
    BY DEF Plays
<1>2. remote \in Seq(Range(remote)) /\ Range(remote) \subseteq CatalogueItems
    BY <1>1, ImportsAssumption DEF CatalogueItems
<1>3. remote \in Seq(CatalogueItems) /\ <<>> \in Seq(CatalogueItems)
    BY <1>2, EmptySeq
<1>4. Len(remote) \in Nat
    BY <1>3, LenProperties
<1>5. SyncShape /\ SyncCounts
    BY <1>1, <1>3 DEF SyncShape, SyncCounts, Row, NoProgress
<1>6. importTask.status = "queued"
    BY DEF Row
<1>7. SyncedInv
    BY <1>1, <1>4, <1>6 DEF SyncedInv, Shift
<1> QED
    BY <1>5, <1>7

\* What a fetch brings: the items after the offset, up to the end or a full page.
LEMMA Fetched ==
    ASSUME SyncShape, FetchPage
    PROVE  /\ page' \in Seq(CatalogueItems) /\ Len(page') \in Nat
           /\ \A k \in 1 .. Len(page') : page'[k] = remote[offset + k]
           /\ offset <= Len(remote) => /\ offset + Len(page') <= Len(remote)
                                       /\ ~hasMore' => offset + Len(page') = Len(remote)
                                       /\ page' = <<>> => offset = Len(remote)
<1> USE DEF SyncShape
<1>1. Len(remote) \in Nat /\ PageLimit \in Nat \ {0}
    BY ImportsAssumption, LenProperties
<1> DEFINE n == Min({offset + PageLimit, Len(remote)})
<1>2. n = IF offset + PageLimit <= Len(remote) THEN offset + PageLimit ELSE Len(remote)
    <2>1. offset + PageLimit \in Int /\ Len(remote) \in Int
        BY <1>1
    <2> QED
        BY <2>1, MinOfTwo
<1>3. n \in Int /\ n <= Len(remote)
    BY <1>1, <1>2
<1>4. page' = SubSeq(remote, offset + 1, n) /\ hasMore' = (offset + PageLimit < Len(remote))
    BY DEF FetchPage
<1> HIDE DEF n
<1>5. /\ page' \in Seq(CatalogueItems)
      /\ Len(page') = IF offset <= n THEN n - offset ELSE 0
      /\ \A k \in 1 .. Len(page') : page'[k] = remote[offset + k]
    BY <1>3, <1>4, CutOut
<1>6. (page' = <<>> => Len(page') = 0) /\ Len(page') \in Nat
    BY <1>5, LenProperties
<1>7. ~hasMore' => Len(remote) <= offset + PageLimit
    <2> DEFINE more == offset + PageLimit < Len(remote)
    <2>1. ~more => Len(remote) <= offset + PageLimit
        BY <1>1
    <2>2. hasMore' = more
        BY <1>4
    <2> HIDE DEF more
    <2> QED
        BY <2>1, <2>2, Zenon
<1>8. offset <= Len(remote) => /\ offset + Len(page') <= Len(remote)
                               /\ Len(page') = n - offset
    BY <1>1, <1>2, <1>5
<1>9. offset <= Len(remote) /\ Len(page') = 0 => offset = Len(remote)
    BY <1>1, <1>2, <1>8
<1>10. offset <= Len(remote) /\ ~hasMore' => offset + Len(page') = Len(remote)
    BY <1>1, <1>2, <1>7, <1>8
<1> QED
    BY <1>5, <1>6, <1>8, <1>9, <1>10

LEMMA SyncShapeKept ==
    ASSUME Plays("sync"), SyncShape, SyncCounts, ImportNext
    PROVE  SyncShape'
<1> USE DEF SyncShape
<1>1. UNCHANGED scene
    BY SceneIsKept
<1>2. CASE StartSync
    <2>1. [importTask EXCEPT !.status = "running"] \in
            [status : {"queued", "running", "completed", "failed"}, fetched : Nat, saved : Int, skipped : Int]
        OBVIOUS
    <2> QED
        BY <1>1, <1>2, <2>1 DEF StartSync, May
<1>3. CASE FetchPage
    <2>1. page' \in Seq(CatalogueItems)
        BY <1>3, Fetched
    <2> QED
        BY <1>1, <1>3, <2>1 DEF FetchPage, May
<1>4. CASE SavePage
    <2>1. Cardinality(Identified(page)) \in Nat
        BY RangeIsFinite, FS_Subset, FS_CardinalityType DEF Identified
    <2>2. Len(page) \in Nat
        BY LenProperties
    <2> QED
        BY <1>1, <1>4, <2>1, <2>2 DEF SavePage, NextOffset, May
<1>5. CASE SaveProgress \/ CompleteSync
    <2>1. tally.fetched \in Nat
        BY DEF SyncCounts
    <2> QED
        BY <1>1, <1>5, <2>1 DEF SaveProgress, CompleteSync, Row, May
<1>6. CASE CatalogueGrows
    <2>1. "new" \in CatalogueItems
        BY DEF CatalogueItems
    <2>2. <<"new">> \o remote \in Seq(CatalogueItems)
        BY <2>1, Pushed
    <2> QED
        BY <1>1, <1>6, <2>2 DEF CatalogueGrows, May
<1>7. CASE CatalogueShrinks
    <2>1. PICK i \in DOMAIN remote : remote' = RemoveAt(remote, i)
        BY <1>7 DEF CatalogueShrinks
    <2>2. DOMAIN remote = 1 .. Len(remote) /\ Len(remote) \in Nat /\ i - 1 \in Nat /\ i \in Nat
        BY LenProperties
    <2>3. SubSeq(remote, 1, i - 1) \in Seq(CatalogueItems)
        <3>1. 0 + 1 = 1 /\ 0 \in Nat /\ i - 1 \in Int /\ i - 1 <= Len(remote)
            BY <2>2
        <3> QED
            BY <3>1, CutOut
    <2>4. SubSeq(remote, i + 1, Len(remote)) \in Seq(CatalogueItems)
        BY <2>2, CutOut
    <2>5. remote' \in Seq(CatalogueItems)
        BY <2>1, <2>3, <2>4, ConcatProperties DEF RemoveAt
    <2> QED
        BY <1>1, <1>7, <2>5 DEF CatalogueShrinks, May
<1>8. CASE ImportRaises \/ KillImport
    BY <1>1, <1>8 DEF ImportRaises, KillImport, FailedRow, May
<1>9. ~UploadStep
    BY DEF UploadStep, ReadFile, ImportBatch, CompleteImport
<1> QED
    BY <1>2, <1>3, <1>4, <1>5, <1>6, <1>7, <1>8, <1>9 DEF ImportNext, SyncStep

LEMMA SyncCountsKept ==
    ASSUME Plays("sync"), SyncShape, SyncCounts, ImportNext
    PROVE  SyncCounts'
<1> USE DEF SyncShape
<1>1. CASE SavePage
    <2>1. Cardinality(Identified(page)) \in Nat /\ Len(page) \in Nat
        BY RangeIsFinite, LenProperties, FS_Subset, FS_CardinalityType DEF Identified
    <2> DEFINE n == Cardinality(Identified(page))
    <2>2. /\ tally' = [fetched |-> tally.fetched + Len(page), saved |-> tally.saved + n,
                       skipped |-> tally.skipped + Len(page) - n]
          /\ offset' = offset + Len(page) /\ UNCHANGED importTask
        BY <1>1 DEF SavePage, NextOffset
    <2> HIDE DEF n
    <2>3. /\ tally'.fetched = tally.fetched + Len(page) /\ tally'.saved = tally.saved + n
          /\ tally'.skipped = tally.skipped + Len(page) - n
        BY <2>2
    <2>4. /\ n \in Int /\ tally.fetched \in Int /\ tally.saved \in Int /\ tally.skipped \in Int
          /\ offset \in Nat /\ importTask.fetched \in Nat
        BY <2>1 DEF n
    <2> HIDE DEF SyncShape
    <2>5. /\ tally.fetched = offset /\ importTask.fetched <= offset
          /\ tally.fetched = tally.saved + tally.skipped
          /\ importTask.fetched = importTask.saved + importTask.skipped
        BY DEF SyncCounts
    <2>6. \A f, x, y, l \in Int : f = x + y => f + l = (x + n) + (y + l - n)
        BY <2>4
    <2>7. tally'.fetched = tally'.saved + tally'.skipped
        BY <2>1, <2>3, <2>4, <2>5, <2>6
    <2>8. importTask.fetched <= offset + Len(page)
        BY <2>1, <2>4, <2>5
    <2> QED
        BY <2>2, <2>3, <2>5, <2>7, <2>8 DEF SyncCounts
<1>2. CASE SaveProgress \/ CompleteSync
    BY <1>2 DEF SaveProgress, CompleteSync, Row, SyncCounts
<1>3. CASE StartSync
    BY <1>3 DEF StartSync, SyncCounts
<1>4. CASE ImportRaises \/ KillImport
    BY <1>4 DEF ImportRaises, KillImport, FailedRow, SyncCounts
<1>5. CASE FetchPage \/ CatalogueGrows \/ CatalogueShrinks
    BY <1>5 DEF FetchPage, CatalogueGrows, CatalogueShrinks, SyncCounts
<1>6. ~UploadStep
    BY DEF UploadStep, ReadFile, ImportBatch, CompleteImport
<1> QED
    BY <1>1, <1>2, <1>3, <1>4, <1>5, <1>6 DEF ImportNext, SyncStep

\* A page that is saved puts its items behind the offset.
LEMMA PageIsStored ==
    ASSUME SyncShape, SyncCounts, SyncedInv, ~May("shrinks"), SavePage
    PROVE  /\ offset' = offset + Len(page) /\ offset' <= Len(remote)
           /\ \A i \in 1 .. Len(initially) : i + Shift <= offset' => HasItem(initially[i])'
           /\ ~hasMore => offset' = Len(remote)
<1> USE DEF SyncShape
<1>1. /\ importPc = "save" /\ offset' = offset + Len(page) /\ table' = table \cup Identified(page)
      /\ UNCHANGED initially
    BY DEF SavePage, NextOffset
<1>2. /\ offset + Len(page) <= Len(remote) /\ Shift \in {0, 1}
      /\ \A k \in 1 .. Len(page) : page[k] = remote[offset + k]
      /\ ~hasMore => offset + Len(page) = Len(remote)
    BY <1>1 DEF SyncedInv
<1>3. Len(page) \in Nat /\ DOMAIN page = 1 .. Len(page) /\ Len(initially) \in Nat
    BY LenProperties
<1>4. ASSUME NEW i \in 1 .. Len(initially), i + Shift <= offset' PROVE HasItem(initially[i])'
    <2>1. CASE i + Shift <= offset
        BY <1>1, <2>1 DEF SyncedInv, HasItem
    <2>2. CASE i + Shift > offset
        <3> DEFINE k == i + Shift - offset
        <3>1. k \in 1 .. Len(page) /\ offset + k = i + Shift
            BY <1>1, <1>2, <1>3, <1>4, <2>2
        <3>2. page[k] = initially[i]
            BY <1>2, <3>1 DEF SyncedInv
        <3> HIDE DEF k
        <3>3. page[k] \in Range(page)
            BY <1>3, <3>1 DEF Range
        <3> QED
            BY <1>1, <3>2, <3>3 DEF HasItem, Identified
    <2> QED
        BY <1>2, <1>3, <2>1, <2>2
<1> QED
    BY <1>1, <1>2, <1>4

LEMMA SyncedKept ==
    ASSUME Plays("sync"), SyncShape, SyncCounts, SyncedInv, ImportNext
    PROVE  SyncedInv'
<1> USE DEF SyncShape
<1>1. UNCHANGED scene
    BY SceneIsKept
<1> SUFFICES ASSUME ~May("shrinks") PROVE SyncedInv'
    BY <1>1 DEF SyncedInv, May
<1>2. /\ Shift \in {0, 1} /\ offset <= Len(remote)
      /\ \A i \in 1 .. Len(initially) : remote[i + Shift] = initially[i]
      /\ \A i \in 1 .. Len(initially) : i + Shift <= offset => HasItem(initially[i])
    BY DEF SyncedInv
<1>3. Len(remote) \in Nat /\ Len(initially) \in Nat /\ Len(remote) = Len(initially) + Shift
    BY LenProperties DEF Shift
<1>4. AllThere /\ UNCHANGED <<initially, table>> => AllThere'
    BY DEF AllThere, HasItem
<1>5. offset = Len(remote) => AllThere
    BY <1>2, <1>3 DEF AllThere
<1>6. CASE StartSync
    BY <1>6 DEF StartSync, SyncedInv, Shift, HasItem
<1>7. CASE FetchPage
    BY <1>2, <1>4, <1>5, <1>7, Fetched DEF FetchPage, SyncedInv, Shift, HasItem
<1>8. CASE SavePage
    <2>1. /\ importPc' = "progress" /\ UNCHANGED <<importTask, remote, initially, hasMore>>
          /\ Shift' = Shift
        BY <1>8 DEF SavePage, Shift
    <2>2. /\ offset' <= Len(remote)
          /\ \A i \in 1 .. Len(initially) : i + Shift <= offset' => HasItem(initially[i])'
          /\ ~hasMore => offset' = Len(remote)
        BY <1>8, PageIsStored
    <2>3. ~hasMore => AllThere'
        BY <1>2, <1>3, <2>1, <2>2 DEF AllThere
    <2>4. AllThere => AllThere'
        BY <1>8 DEF AllThere, HasItem, SavePage
    <2> QED
        BY <1>2, <2>1, <2>2, <2>3, <2>4 DEF SyncedInv
<1>9. CASE SaveProgress \/ CompleteSync
    BY <1>2, <1>4, <1>9 DEF SaveProgress, CompleteSync, Row, SyncedInv, Shift, HasItem
<1>10. CASE CatalogueGrows
    <2>1. "new" \in CatalogueItems
        BY DEF CatalogueItems
    <2>2. /\ importPc \in {"fetch", "progress"} /\ Len(remote) = Len(initially) /\ remote' = <<"new">> \o remote
          /\ UNCHANGED <<importTask, importPc, initially, offset, hasMore, table>>
        BY <1>10 DEF CatalogueGrows
    <2>3. <<"new">> \in Seq(CatalogueItems) /\ Len(<<"new">>) = 1
        BY <2>1
    <2>4. /\ Len(remote') = 1 + Len(remote)
          /\ \A i \in 1 .. 1 + Len(remote) : remote'[i] = IF i <= 1 THEN "new" ELSE remote[i - 1]
        BY <2>2, <2>3, ConcatProperties
    <2>5. Shift = 0 /\ Shift' = 1
        BY <1>3, <2>2, <2>4 DEF Shift
    <2>6. \A i \in 1 .. Len(initially) : remote'[i + 1] = initially[i]
        BY <1>2, <1>3, <2>4, <2>5
    <2> QED
        BY <1>2, <1>3, <1>4, <2>2, <2>4, <2>5, <2>6 DEF SyncedInv, HasItem
<1>11. CASE ImportRaises \/ KillImport
    BY <1>2, <1>4, <1>11 DEF ImportRaises, KillImport, FailedRow, SyncedInv, Shift, HasItem
<1>12. ~CatalogueShrinks /\ ~UploadStep
    BY DEF CatalogueShrinks, UploadStep, ReadFile, ImportBatch, CompleteImport
<1> QED
    BY <1>6, <1>7, <1>8, <1>9, <1>10, <1>11, <1>12 DEF ImportNext, SyncStep

LEMMA SyncHolds == ImportSafety => []SyncInv
<1>1. SyncInv /\ UNCHANGED <<scene, importVars>> => SyncInv'
    BY DEF importVars, SyncInv, SyncShape, SyncCounts, SyncedInv, Shift, HasItem, AllThere, Plays, May
<1>2. SyncInv /\ ImportNext => SyncInv'
    BY SceneIsKept, SyncShapeKept, SyncCountsKept, SyncedKept DEF SyncInv, Plays
<1> QED
    BY <1>1, <1>2, SyncStarts, PTL DEF ImportSafety

LEMMA SyncIsTrue == SyncInv => ProgressIsStored /\ CompletedHasAll
<1> SUFFICES ASSUME SyncInv, Plays("sync") PROVE ProgressIsStored /\ CompletedHasAll
    BY DEF ProgressIsStored, CompletedHasAll
<1> USE DEF SyncInv, SyncShape
<1>1. ASSUME ~May("grows"), ~May("shrinks")
      PROVE  Identified(SubSeq(remote, 1, importTask.fetched)) \subseteq table
    <2>1. remote = initially /\ importTask.fetched \in Nat /\ importTask.fetched <= offset
          /\ offset <= Len(remote) /\ Len(remote) \in Nat
        BY <1>1, LenProperties DEF SyncCounts, SyncedInv
    <2> DEFINE n == importTask.fetched
    <2> DEFINE part == SubSeq(remote, 1, n)
    <2>2. part \in Seq(CatalogueItems) /\ Len(part) = n /\ \A i \in 1 .. Len(part) : part[i] = remote[i]
        <3>1. 0 \in Nat /\ n \in Int /\ n <= Len(remote) /\ 0 <= n
            BY <2>1
        <3>2. /\ SubSeq(remote, 0 + 1, n) \in Seq(CatalogueItems)
              /\ Len(SubSeq(remote, 0 + 1, n)) = IF 0 <= n THEN n - 0 ELSE 0
              /\ \A i \in 1 .. Len(SubSeq(remote, 0 + 1, n)) : SubSeq(remote, 0 + 1, n)[i] = remote[0 + i]
            BY <3>1, CutOut
        <3>3. 0 + 1 = 1 /\ n - 0 = n /\ \A i \in Int : 0 + i = i
            BY <3>1
        <3> QED
            BY <3>1, <3>2, <3>3
    <2>3. Shift = 0
        BY <2>1 DEF Shift
    <2>4. \A i \in 1 .. n : HasItem(remote[i])
        BY <1>1, <2>1, <2>3 DEF SyncedInv
    <2>5. DOMAIN part = 1 .. n
        BY <2>2, LenProperties
    <2> HIDE DEF part, n
    <2> QED
        BY <2>2, <2>4, <2>5 DEF Identified, Range, HasItem, part, n
<1>2. ProgressIsStored
    BY <1>1 DEF ProgressIsStored, SyncCounts, May
<1>3. ASSUME importTask.status = "completed", ~May("shrinks") PROVE Identified(initially) \subseteq table
    <2>1. AllThere /\ DOMAIN initially = 1 .. Len(initially)
        BY <1>3, LenProperties DEF SyncedInv
    <2> QED
        BY <2>1 DEF AllThere, HasItem, Identified, Range
<1> QED
    BY <1>2, <1>3 DEF CompletedHasAll

-----------------------------------------------------------------------------
(* Clients: tokens.                                                        *)

TokenState == [believed : Nat, left : Nat, account : {"none", "JV", "XL"}]
CallState == [at : {"idle", "ask", "issued", "send"}, waited : 0 .. CallTime, left : Nat,
              account : {"none", "JV", "XL"}]

\* A token that is believed in outlives the belief by the margin, less the time its
\* answer took.
TokenRow(k, token) == token.believed > 0 =>
    token.left >= token.believed + SafetyMargin - CallTime /\ token.account = CredentialsOf(k)

\* A token on its way had its whole life when it was issued, and more than a call takes
\* when the request was sent.
CallRow(c, call) ==
    /\ call.at = "issued" => call.left + call.waited >= TokenLife
    /\ call.at = "send" => call.left + call.waited > CallTime
    /\ call.at \in {"issued", "send"} => call.account = CredentialsOf(Callers[c])

TokenInv ==
    /\ tokens \in [{"jv", "xl"} -> TokenState] /\ callAt \in [DOMAIN Callers -> CallState]
    /\ \A k \in {"jv", "xl"} : TokenRow(k, tokens[k])
    /\ \A c \in DOMAIN Callers : CallRow(c, callAt[c])

LEMMA TokensStart == ClientsInit => TokenInv
<1>1. NoToken \in TokenState /\ NoToken.believed = 0
    BY DEF NoToken, TokenState
<1>2. NotCalling \in CallState /\ NotCalling.at = "idle"
    BY CallTimeAssumption DEF NotCalling, CallState
<1> QED
    BY <1>1, <1>2 DEF ClientsInit, TokenInv, TokenRow, CallRow

\* One caller goes on; the tokens stay.
LEMMA CallGoesOn ==
    ASSUME TokenInv, NEW c \in DOMAIN Callers, NEW call \in CallState, CallRow(c, call),
           callAt' = [callAt EXCEPT ![c] = call], UNCHANGED tokens
    PROVE  TokenInv'
BY DEF TokenInv, TokenRow, CallRow

LEMMA CallKept ==
    ASSUME TokenInv, NEW c \in DOMAIN Callers, CallStep(c)
    PROVE  TokenInv'
<1> USE DEF TokenInv
<1>1. /\ TokenLife \in Nat /\ CallTime \in Nat /\ SafetyMargin \in Nat
      /\ CallTime * 2 <= SafetyMargin /\ CallTime * 2 < TokenLife
      /\ Callers[c] \in {"jv", "xl"}
    BY CallTimeAssumption, CallersAssumption
<1> DEFINE old == callAt[c]
<1>2. /\ old \in CallState /\ CallRow(c, old) /\ old.at \in {"idle", "ask", "issued", "send"}
      /\ old.waited \in 0 .. CallTime /\ old.left \in Nat /\ old.account \in {"none", "JV", "XL"}
    BY DEF CallState
<1>3. CredentialsOf(Callers[c]) \in {"none", "JV", "XL"}
    BY DEF CredentialsOf
<1>4. NotCalling \in CallState /\ NotCalling.at = "idle"
    BY <1>1 DEF NotCalling, CallState
<1>5. CASE GetToken(c)
    <2> DEFINE cached == tokens[Callers[c]]
    <2>1. cached \in TokenState /\ TokenRow(Callers[c], cached)
        BY <1>1
    <2>2. cached.believed \in Nat /\ cached.left \in Nat /\ cached.account \in {"none", "JV", "XL"}
        BY <2>1 DEF TokenState
    <2>3. CASE cached.believed > 0
        <3> DEFINE call == [at |-> "send", waited |-> 0, left |-> cached.left, account |-> cached.account]
        <3>1. callAt' = [callAt EXCEPT ![c] = call] /\ UNCHANGED tokens
            BY <1>5, <2>3 DEF GetToken, Key
        <3>2. call \in CallState
            BY <1>1, <2>2 DEF CallState
        <3>3. cached.left > CallTime /\ cached.account = CredentialsOf(Callers[c])
            BY <1>1, <2>1, <2>2, <2>3 DEF TokenRow
        <3>4. CallRow(c, call)
            BY <1>1, <2>2, <3>3 DEF CallRow
        <3> HIDE DEF call, cached
        <3> QED
            BY <3>1, <3>2, <3>4, CallGoesOn
    <2>4. CASE ~(cached.believed > 0)
        <3> DEFINE call == [NotCalling EXCEPT !.at = "ask"]
        <3>1. callAt' = [callAt EXCEPT ![c] = call] /\ UNCHANGED tokens
            BY <1>5, <2>4 DEF GetToken, Key
        <3>2. call \in CallState /\ CallRow(c, call)
            BY <1>1 DEF CallState, CallRow, NotCalling
        <3> HIDE DEF call, cached
        <3> QED
            BY <3>1, <3>2, CallGoesOn
    <2> QED
        BY <2>3, <2>4
<1>6. CASE IssueToken(c)
    <2> DEFINE call == [old EXCEPT !.at = "issued", !.left = TokenLife, !.account = CredentialsOf(Callers[c])]
    <2>1. callAt' = [callAt EXCEPT ![c] = call] /\ UNCHANGED tokens
        BY <1>6 DEF IssueToken
    <2>2. call \in CallState
        BY <1>1, <1>2, <1>3 DEF CallState
    <2>3. call.at = "issued" /\ call.left = TokenLife
        BY <1>2 DEF CallState
    <2>4. call.waited = old.waited /\ call.account = CredentialsOf(Callers[c])
        BY <1>2 DEF CallState
    <2> HIDE DEF call
    <2>5. CallRow(c, call)
        BY <1>1, <1>2, <2>3, <2>4 DEF CallRow
    <2> QED
        BY <2>1, <2>2, <2>5, CallGoesOn
<1>7. CASE TokenArrives(c)
    <2> DEFINE call == [old EXCEPT !.at = "send", !.waited = 0]
    <2> DEFINE token == [believed |-> Believed, left |-> old.left, account |-> old.account]
    <2>1. /\ callAt' = [callAt EXCEPT ![c] = call] /\ old.at = "issued"
          /\ tokens' = [tokens EXCEPT ![Callers[c]] = token]
        BY <1>7 DEF TokenArrives, Key
    <2>2. Believed \in Nat /\ (Believed > 0 => Believed = TokenLife - SafetyMargin)
        BY <1>1 DEF Believed, AtLeast
    <2>3. old.left + old.waited >= TokenLife /\ old.account = CredentialsOf(Callers[c])
        BY <1>2, <2>1 DEF CallRow
    <2>4. old.left >= TokenLife - CallTime
        BY <1>1, <1>2, <2>3
    <2>5. call \in CallState /\ token \in TokenState
        <3>1. 0 \in 0 .. CallTime
            BY <1>1
        <3>2. call \in CallState
            BY <1>2, <3>1 DEF CallState
        <3>3. token \in TokenState
            BY <1>2, <2>2 DEF TokenState
        <3> QED
            BY <3>2, <3>3
    <2>6. CallRow(c, call)
        <3>1. call.at = "send" /\ call.waited = 0
            BY <1>2 DEF CallState
        <3>2. call.left = old.left /\ call.account = old.account
            BY <1>2 DEF CallState
        <3> HIDE DEF call
        <3> QED
            BY <1>1, <1>2, <2>3, <2>4, <3>1, <3>2 DEF CallRow
    <2>7. TokenRow(Callers[c], token)
        BY <1>1, <1>2, <2>2, <2>3, <2>4 DEF TokenRow
    <2> HIDE DEF call, token
    <2>8. tokens' \in [{"jv", "xl"} -> TokenState] /\ \A k \in {"jv", "xl"} : TokenRow(k, tokens'[k])
        BY <1>1, <2>1, <2>5, <2>7
    <2>9. callAt' \in [DOMAIN Callers -> CallState] /\ \A d \in DOMAIN Callers : CallRow(d, callAt'[d])
        BY <2>1, <2>5, <2>6
    <2> QED
        BY <2>8, <2>9 DEF TokenRow, CallRow
<1>8. CASE TokenRefused(c) \/ RequestArrives(c)
    <2>1. callAt' = [callAt EXCEPT ![c] = NotCalling] /\ UNCHANGED tokens
        BY <1>8 DEF TokenRefused, RequestArrives
    <2>2. CallRow(c, NotCalling)
        BY <1>4 DEF CallRow
    <2> QED
        BY <1>4, <2>1, <2>2, CallGoesOn
<1> QED
    BY <1>5, <1>6, <1>7, <1>8 DEF CallStep

LEMMA TickKept ==
    ASSUME TokenInv, TokenTick
    PROVE  TokenInv'
<1> USE DEF TokenInv
<1>1. /\ TokenLife \in Nat /\ CallTime \in Nat /\ SafetyMargin \in Nat
      /\ CallTime * 2 <= SafetyMargin /\ CallTime * 2 < TokenLife
    BY CallTimeAssumption
<1>2. \A n \in Nat : Less(n) \in Nat /\ Less(n) + 1 >= n /\ Less(n) <= n /\ (n > 0 => Less(n) = n - 1)
                     /\ (Less(n) > 0 => n > 1)
    BY DEF Less
<1>3. ASSUME NEW k \in {"jv", "xl"} PROVE tokens'[k] \in TokenState /\ TokenRow(k, tokens'[k])
    <2> DEFINE old == tokens[k]
    <2> DEFINE new == [old EXCEPT !.believed = Less(@), !.left = Less(@)]
    <2>1. old \in TokenState /\ TokenRow(k, old) /\ old.believed \in Nat /\ old.left \in Nat
          /\ old.account \in {"none", "JV", "XL"}
        BY DEF TokenState
    <2>2. tokens'[k] = new
        BY DEF TokenTick
    <2>3. new \in TokenState
        BY <1>2, <2>1 DEF TokenState
    <2>4. Less(old.believed) > 0 => /\ old.believed > 0 /\ Less(old.believed) = old.believed - 1
                                    /\ Less(old.left) + 1 >= old.left /\ Less(old.left) \in Nat
        BY <1>2, <2>1
    <2>5. new.believed = Less(old.believed) /\ new.left = Less(old.left) /\ new.account = old.account
        BY <2>1 DEF TokenState
    <2> HIDE DEF new
    <2>6. TokenRow(k, new)
        BY <1>1, <2>1, <2>4, <2>5 DEF TokenRow
    <2> QED
        BY <2>2, <2>3, <2>6
<1>4. ASSUME NEW c \in DOMAIN Callers PROVE callAt'[c] \in CallState /\ CallRow(c, callAt'[c])
    <2> DEFINE old == callAt[c]
    <2> DEFINE new == [old EXCEPT !.waited = @ + 1, !.left = Less(@)]
    <2>1. old \in CallState /\ CallRow(c, old) /\ old.waited \in 0 .. CallTime /\ old.left \in Nat
          /\ old.account \in {"none", "JV", "XL"} /\ old.at \in {"idle", "ask", "issued", "send"}
        BY DEF CallState
    <2>2. CASE old.at = "idle"
        BY <2>1, <2>2 DEF TokenTick
    <2>3. CASE old.at # "idle"
        <3>1. callAt'[c] = new
            BY <2>3 DEF TokenTick
        <3>2. old.waited < CallTime
            BY DEF TokenTick
        <3>3. Less(old.left) \in Nat /\ Less(old.left) + 1 >= old.left
            BY <1>2, <2>1
        <3>4. new \in CallState
            <4>1. old.waited + 1 \in 0 .. CallTime
                BY <1>1, <2>1, <3>2
            <4> QED
                BY <2>1, <3>3, <4>1 DEF CallState
        <3>5. new.at = old.at /\ new.waited = old.waited + 1
            BY <2>1 DEF CallState
        <3>6. new.left = Less(old.left) /\ new.account = old.account
            BY <2>1 DEF CallState
        <3> HIDE DEF new
        <3>7. CallRow(c, new)
            BY <1>1, <2>1, <3>3, <3>5, <3>6 DEF CallRow
        <3> QED
            BY <3>1, <3>4, <3>7
    <2> QED
        BY <2>2, <2>3
<1>5. /\ tokens' = [k \in {"jv", "xl"} |-> tokens'[k]]
      /\ callAt' = [c \in DOMAIN Callers |-> callAt'[c]]
    <2>1. DOMAIN tokens = {"jv", "xl"}
        OBVIOUS
    <2> QED
        BY <2>1 DEF TokenTick
<1>6. tokens' \in [{"jv", "xl"} -> TokenState] /\ callAt' \in [DOMAIN Callers -> CallState]
    BY <1>3, <1>4, <1>5
<1> QED
    BY <1>3, <1>4, <1>6 DEF TokenRow, CallRow

LEMMA TokensHold == ClientsSafety => []TokenInv
<1>1. TokenInv /\ UNCHANGED tokenVars => TokenInv'
    BY DEF tokenVars, TokenInv, TokenRow, CallRow
<1>2. TokenInv /\ [ClientsNext]_<<scene, clientVars>> => TokenInv'
    <2>1. ASSUME NEW t \in Translators, TranslateStep(t) PROVE UNCHANGED tokenVars
        BY <2>1 DEF TranslateStep, WantSlot, TakeSlot, DeepLAnswers
    <2>2. DeepLTick \/ UNCHANGED clientVars => UNCHANGED tokenVars
        BY DEF DeepLTick, clientVars, tokenVars
    <2> QED
        BY <1>1, <2>1, <2>2, CallKept, TickKept DEF ClientsNext
<1> QED
    BY <1>2, TokensStart, PTL DEF ClientsSafety

LEMMA TokenIsTrue == TokenInv => TokenIsGood
<1> SUFFICES ASSUME TokenInv, NEW c \in DOMAIN Callers, callAt[c].at = "send"
             PROVE  callAt[c].left > 0 /\ callAt[c].account = CredentialsOf(Callers[c])
    BY DEF TokenIsGood
<1>1. callAt[c] \in CallState /\ CallRow(c, callAt[c]) /\ CallTime \in Nat
    BY CallTimeAssumption DEF TokenInv
<1>2. callAt[c].waited \in 0 .. CallTime /\ callAt[c].left \in Nat
    BY <1>1 DEF CallState
<1> QED
    BY <1>1, <1>2 DEF CallRow

-----------------------------------------------------------------------------
(* CategoryCache.                                                          *)

CategorySafety == CategoryInit /\ [][CategoryNext]_<<scene, categoryVars>>

Versions == DOMAIN CatalogueVersions
GroupNames == UNION {Range(CatalogueVersions[v]) : v \in Versions}

RefreshState ==
    [at : {"idle", "fetch", "read", "replace", "commit", "answered", "raised"}, page : Nat,
     fetched : Seq(GroupNames), mixed : BOOLEAN, labels : SUBSET GroupNames,
     doomed : SUBSET Nat, late : SUBSET GroupNames]

CategoryShape ==
    /\ version \in Versions /\ nextId \in Nat
    /\ categories \subseteq [name : GroupNames, id : Nat, label : BOOLEAN]
    /\ refreshAt \in [Refreshers -> RefreshState]
    /\ patchwork \in BOOLEAN

\* Names and ids are given once; ids only grow.
RowsApart ==
    /\ \A a, b \in categories : a.name = b.name \/ a.id = b.id => a = b
    /\ \A row \in categories : row.id < nextId

\* The rows are one catalogue.
WholeInv == ~patchwork => \E v \in Versions : Names(categories) = Range(CatalogueVersions[v])

\* What a refresh has fetched is the beginning of a catalogue, or all of it.
FetchedRow(refresh) == ~refresh.mixed =>
    /\ refresh.at = "fetch" =>
          /\ refresh.page * CataloguePage <= Len(CatalogueVersions[version])
          /\ Range(refresh.fetched) = {CatalogueVersions[version][i] : i \in 1 .. refresh.page * CataloguePage}
    /\ refresh.at \in {"read", "replace", "commit"} =>
          \E v \in Versions : Range(refresh.fetched) = Range(CatalogueVersions[v])

\* Rows are of one generation, so a refresh deletes all of them or none; and it knows
\* every label, but those that came late.
RefreshRow(refresh) ==
    /\ \A id \in refresh.doomed : id < nextId
    /\ FetchedRow(refresh)
    /\ ~patchwork /\ refresh.at = "commit" => Ids \subseteq refresh.doomed \/ Ids \cap refresh.doomed = {}
    /\ refresh.at \in {"replace", "commit"} =>
          \A row \in categories : row.label => row.name \in refresh.labels \cup refresh.late

CategoryInv ==
    CategoryShape /\ RowsApart /\ WholeInv /\ \A r \in Refreshers : RefreshRow(refreshAt[r])

LEMMA CataloguesAre ==
    ASSUME NEW v \in Versions
    PROVE  /\ CatalogueVersions[v] \in Seq(GroupNames) /\ Len(CatalogueVersions[v]) \in Nat
           /\ DOMAIN CatalogueVersions[v] = 1 .. Len(CatalogueVersions[v])
           /\ CataloguePage \in Nat \ {0}
           /\ \A i, j \in DOMAIN CatalogueVersions[v] :
                 CatalogueVersions[v][i] = CatalogueVersions[v][j] => i = j
<1>1. CatalogueVersions[v] \in Seq(Range(CatalogueVersions[v])) /\ IsInjective(CatalogueVersions[v])
    BY CatalogueAssumption DEF Versions
<1>2. Range(CatalogueVersions[v]) \subseteq GroupNames
    BY DEF GroupNames
<1>3. CatalogueVersions[v] \in Seq(GroupNames)
    BY <1>1, <1>2, SeqMonotonic
<1>4. \A i, j \in DOMAIN CatalogueVersions[v] : CatalogueVersions[v][i] = CatalogueVersions[v][j] => i = j
    BY <1>1 DEF IsInjective
<1> QED
    BY <1>3, <1>4, CatalogueAssumption, LenProperties

LEMMA NoRefreshIs ==
    /\ NoRefresh \in RefreshState /\ NoRefresh.at = "idle" /\ NoRefresh.page = 0
    /\ NoRefresh.fetched = <<>> /\ NoRefresh.mixed = FALSE /\ NoRefresh.doomed = {}
<1>1. <<>> \in Seq(GroupNames)
    BY EmptySeq
<1> QED
    BY <1>1 DEF NoRefresh, RefreshState

LEMMA CategoriesStart == CategoryInit => CategoryInv
<1> SUFFICES ASSUME CategoryInit PROVE CategoryInv
    OBVIOUS
<1> USE DEF CategoryInit
<1> DEFINE names == CatalogueVersions[1]
<1>1. 1 \in Versions
    BY CatalogueAssumption, LenProperties, EmptySeq DEF Versions
<1>2. /\ names \in Seq(GroupNames) /\ Len(names) \in Nat /\ DOMAIN names = 1 .. Len(names)
      /\ \A i, j \in DOMAIN names : names[i] = names[j] => i = j
      /\ \A i \in DOMAIN names : names[i] \in GroupNames
    BY <1>1, CataloguesAre
<1>3. /\ version = 1 /\ nextId = Len(names) + 1 /\ patchwork = FALSE
      /\ categories = {[name |-> names[i], id |-> i, label |-> FALSE] : i \in DOMAIN names}
      /\ refreshAt = [r \in Refreshers |-> NoRefresh]
    OBVIOUS
<1> HIDE DEF names, CategoryInit
<1> DEFINE row(i) == [name |-> names[i], id |-> i, label |-> FALSE]
<1>10. /\ \A i \in DOMAIN names : row(i) \in [name : GroupNames, id : Nat, label : BOOLEAN]
       /\ \A i \in DOMAIN names : row(i).name = names[i] /\ row(i).id = i
    BY <1>2
<1>11. categories = {row(i) : i \in DOMAIN names}
    BY <1>3
<1> HIDE DEF row
<1>4. CategoryShape
    <2>1. categories \subseteq [name : GroupNames, id : Nat, label : BOOLEAN]
        BY <1>10, <1>11
    <2>2. refreshAt \in [Refreshers -> RefreshState]
        BY <1>3, NoRefreshIs
    <2>3. version \in Versions /\ nextId \in Nat
        BY <1>1, <1>2, <1>3
    <2>4. patchwork \in BOOLEAN
        BY <1>3
    <2> QED
        BY <2>1, <2>2, <2>3, <2>4 DEF CategoryShape
<1>5. RowsApart
    <2>1. \A a \in categories : \E i \in DOMAIN names : a = row(i) /\ a.name = names[i] /\ a.id = i
        BY <1>10, <1>11
    <2>2. \A a, b \in categories : a.name = b.name \/ a.id = b.id => a = b
        BY <1>2, <2>1
    <2>3. \A a \in categories : a.id < nextId
        BY <1>2, <1>3, <2>1
    <2> QED
        BY <2>2, <2>3 DEF RowsApart
<1>6. Names(categories) = Range(names)
    BY <1>10, <1>11 DEF Names, Range
<1>7. WholeInv
    BY <1>1, <1>6 DEF WholeInv, names
<1>8. \A r \in Refreshers : RefreshRow(refreshAt[r])
    BY <1>3, NoRefreshIs DEF RefreshRow, FetchedRow
<1> QED
    BY <1>4, <1>5, <1>7, <1>8 DEF CategoryInv

\* One refresh goes on; the rows and the others stay.
LEMMA RefreshGoesOn ==
    ASSUME CategoryInv, NEW r \in Refreshers, refreshAt'[r] \in RefreshState, RefreshRow(refreshAt'[r]),
           \E refresh : refreshAt' = [refreshAt EXCEPT ![r] = refresh],
           UNCHANGED <<version, categories, nextId, patchwork>>
    PROVE  CategoryInv'
<1> USE DEF CategoryInv, CategoryShape
<1>1. refreshAt' \in [Refreshers -> RefreshState] /\ \A q \in Refreshers \ {r} : refreshAt'[q] = refreshAt[q]
    OBVIOUS
<1>2. \A q \in Refreshers : RefreshRow(refreshAt'[q])
    BY <1>1
<1>3. ASSUME NEW q \in Refreshers PROVE RefreshRow(refreshAt[q])'
    <2> DEFINE refresh == refreshAt'[q]
    <2>1. RefreshRow(refresh)
        BY <1>2
    <2>2. FetchedRow(refresh) => FetchedRow(refreshAt[q])'
        BY DEF FetchedRow
    <2> QED
        BY <2>1, <2>2 DEF RefreshRow, Ids
<1> QED
    BY <1>1, <1>3 DEF RowsApart, WholeInv

LEMMA RefreshEnds ==
    ASSUME NEW refresh \in RefreshState, refresh.at \in {"idle", "answered", "raised"},
           \A id \in refresh.doomed : id < nextId
    PROVE  RefreshRow(refresh)
BY DEF RefreshRow, FetchedRow

LEMMA RefreshOfPage ==
    ASSUME NEW refresh \in RefreshState, NEW all \in Seq(GroupNames), NEW at \in {"fetch", "read", "raised"}
    PROVE  [refresh EXCEPT !.fetched = all, !.page = @ + 1, !.at = at] \in RefreshState
<1>1. [refresh EXCEPT !.fetched = all] \in RefreshState
    BY DEF RefreshState
<1>2. ASSUME NEW p \in Nat PROVE [refresh EXCEPT !.fetched = all, !.page = p, !.at = at] \in RefreshState
    BY <1>1 DEF RefreshState
<1>3. refresh.page + 1 \in Nat
    BY DEF RefreshState
<1> QED
    BY <1>2, <1>3

\* A page continues what has been fetched; one that is not full ends it.
LEMMA PageFetched ==
    ASSUME CategoryInv, NEW r \in Refreshers, FetchGroups(r)
    PROVE  CategoryInv'
<1> USE DEF CategoryInv, CategoryShape
<1> DEFINE old == refreshAt[r]
<1> DEFINE groups == PageOf(old.page)
<1> DEFINE all == old.fetched \o groups
<1> DEFINE at == IF ~IsLastPage(groups) THEN "fetch" ELSE IF all = <<>> THEN "raised" ELSE "read"
<1> DEFINE names == CatalogueVersions[version]
<1> DEFINE new == [old EXCEPT !.fetched = all, !.page = @ + 1, !.at = at]
<1>1. /\ old \in RefreshState /\ old.at = "fetch" /\ old.page \in Nat /\ old.fetched \in Seq(GroupNames)
      /\ old.mixed \in BOOLEAN /\ FetchedRow(old) /\ \A id \in old.doomed : id < nextId
    BY DEF FetchGroups, RefreshState, RefreshRow
<1>2. /\ names \in Seq(GroupNames) /\ Len(names) \in Nat /\ DOMAIN names = 1 .. Len(names)
      /\ CataloguePage \in Nat \ {0}
    BY CataloguesAre
<1>3. /\ refreshAt' = [refreshAt EXCEPT ![r] = new]
      /\ UNCHANGED <<version, categories, nextId, patchwork>>
    BY DEF FetchGroups
<1> DEFINE k == old.page * CataloguePage
<1> DEFINE last == LastOf(old.page)
<1>4. /\ k \in Nat /\ (old.page + 1) * CataloguePage = k + CataloguePage
      /\ last = IF k + CataloguePage < Len(names) THEN k + CataloguePage ELSE Len(names)
    <2>1. k \in Nat /\ (old.page + 1) * CataloguePage = k + CataloguePage
        BY <1>1, <1>2
    <2> HIDE DEF k
    <2> QED
        BY <2>1 DEF LastOf
<1>5. groups = SubSeq(names, k + 1, last)
    BY DEF PageOf
<1> HIDE DEF k, last, groups
<1>6. last \in Int /\ last <= Len(names)
    BY <1>2, <1>4
<1>7. /\ groups \in Seq(GroupNames)
      /\ Len(groups) = IF k <= last THEN last - k ELSE 0
      /\ \A i \in 1 .. Len(groups) : groups[i] = names[k + i]
    BY <1>2, <1>4, <1>5, <1>6, CutOut
<1>8. all \in Seq(GroupNames) /\ Range(all) = Range(old.fetched) \cup Range(groups)
    BY <1>1, <1>7, ConcatProperties, RangeConcatenation
<1> HIDE DEF all, at
<1>9. new \in RefreshState /\ at \in {"fetch", "read", "raised"}
    <2>1. at \in {"fetch", "read", "raised"}
        BY DEF at
    <2> QED
        BY <1>1, <1>8, <2>1, RefreshOfPage
<1>10. new.at = at /\ new.fetched = all
    BY <1>1 DEF RefreshState
<1>11. new.page = old.page + 1 /\ new.mixed = old.mixed /\ new.doomed = old.doomed
    BY <1>1 DEF RefreshState
<1> HIDE DEF new
<1>12. ASSUME ~old.mixed
       PROVE  /\ at = "fetch" => k + CataloguePage <= Len(names)
                                 /\ Range(all) = {names[i] : i \in 1 .. k + CataloguePage}
              /\ at = "read" => Range(all) = Range(names)
    <2>1. k <= Len(names) /\ Range(old.fetched) = {names[i] : i \in 1 .. k}
        BY <1>1, <1>12 DEF FetchedRow, k
    <2>2. k <= last /\ Len(groups) = last - k
        BY <1>2, <1>4, <1>7, <2>1
    <2>3. Range(groups) = {names[k + i] : i \in 1 .. last - k}
        <3>1. DOMAIN groups = 1 .. Len(groups)
            BY <1>7, LenProperties
        <3> QED
            BY <1>7, <2>2, <3>1 DEF Range
    <2>4. Range(all) = {names[i] : i \in 1 .. last}
        <3>1. \A i \in 1 .. last : i \in 1 .. k \/ (i - k \in 1 .. last - k /\ k + (i - k) = i)
            BY <1>4, <1>6
        <3>2. \A i \in 1 .. k : i \in 1 .. last
            BY <1>4, <1>6, <2>2
        <3>3. \A i \in 1 .. last - k : k + i \in 1 .. last
            BY <1>4, <1>6, <2>2
        <3> QED
            BY <1>8, <2>1, <2>3, <3>1, <3>2, <3>3
    <2>5. at = "fetch" => last = k + CataloguePage /\ k + CataloguePage <= Len(names)
        <3>1. at = "fetch" => ~(last - k < CataloguePage)
            BY <2>2 DEF at, IsLastPage
        <3> QED
            BY <1>2, <1>4, <1>6, <3>1
    <2>6. at = "read" => last = Len(names)
        <3>1. at = "read" => last - k < CataloguePage
            BY <2>2 DEF at, IsLastPage
        <3> QED
            BY <1>2, <1>4, <1>6, <3>1
    <2>7. Range(names) = {names[i] : i \in 1 .. Len(names)}
        BY <1>2 DEF Range
    <2> QED
        BY <2>4, <2>5, <2>6, <2>7
<1>13. RefreshRow(new)
    <2>1. FetchedRow(new)
        <3> HIDE DEF names
        <3>1. new.page * CataloguePage = k + CataloguePage
            BY <1>4, <1>11
        <3> QED
            BY <1>9, <1>10, <1>11, <1>12, <3>1 DEF FetchedRow, names
    <2> QED
        BY <1>1, <1>9, <1>10, <1>11, <2>1 DEF RefreshRow
<1>14. refreshAt'[r] = new
    BY <1>3
<1> QED
    BY <1>3, <1>9, <1>13, <1>14, RefreshGoesOn

\* The other steps of a refresh, but the last.
LEMMA RefreshStepKept ==
    ASSUME CategoryInv, NEW r \in Refreshers,
           BeginRefresh(r) \/ FetchRaises(r) \/ ReadLabels(r) \/ DeleteCategories(r)
    PROVE  CategoryInv'
<1> USE DEF CategoryInv, CategoryShape
<1> DEFINE old == refreshAt[r]
<1>1. /\ old \in RefreshState /\ RefreshRow(old) /\ \A id \in old.doomed : id < nextId
      /\ UNCHANGED <<version, categories, nextId, patchwork>>
    BY DEF BeginRefresh, FetchRaises, ReadLabels, DeleteCategories, RefreshRow
<1>2. CASE BeginRefresh(r)
    <2> DEFINE new == [NoRefresh EXCEPT !.at = "fetch"]
    <2>1. refreshAt' = [refreshAt EXCEPT ![r] = new] /\ refreshAt'[r] = new
        BY <1>2 DEF BeginRefresh
    <2>2. /\ new \in RefreshState /\ new.at = "fetch" /\ new.page = 0
          /\ new.fetched = <<>> /\ new.doomed = {}
        BY NoRefreshIs DEF RefreshState
    <2> HIDE DEF new
    <2>3. 0 * CataloguePage = 0 /\ 0 <= Len(CatalogueVersions[version])
        BY CataloguesAre
    <2>4. Range(<<>>) = {} /\ \A i \in 1 .. 0 : FALSE
        BY EmptyQueue
    <2>5. Range(new.fetched) = {CatalogueVersions[version][i] : i \in 1 .. new.page * CataloguePage}
        BY <2>2, <2>3, <2>4
    <2>6. RefreshRow(new)
        BY <2>2, <2>3, <2>5 DEF RefreshRow, FetchedRow
    <2> QED
        BY <1>1, <2>1, <2>2, <2>6, RefreshGoesOn
<1>3. CASE FetchRaises(r)
    <2> DEFINE new == [old EXCEPT !.at = "raised"]
    <2>1. refreshAt' = [refreshAt EXCEPT ![r] = new] /\ refreshAt'[r] = new
        BY <1>3 DEF FetchRaises
    <2>2. new \in RefreshState /\ new.at = "raised" /\ new.doomed = old.doomed
        BY <1>1 DEF RefreshState
    <2> HIDE DEF new
    <2>3. RefreshRow(new)
        BY <1>1, <2>2, RefreshEnds
    <2> QED
        BY <1>1, <2>1, <2>2, <2>3, RefreshGoesOn
<1>4. CASE ReadLabels(r)
    <2> DEFINE labelled == {row.name : row \in {x \in categories : x.label}}
    <2> DEFINE new == [old EXCEPT !.at = "replace", !.labels = labelled]
    <2>1. refreshAt' = [refreshAt EXCEPT ![r] = new] /\ refreshAt'[r] = new /\ old.at = "read"
        BY <1>4 DEF ReadLabels
    <2>2. labelled \subseteq GroupNames /\ \A row \in categories : row.label => row.name \in labelled
        OBVIOUS
    <2> HIDE DEF labelled
    <2>3. new \in RefreshState
        BY <1>1, <2>2 DEF RefreshState
    <2>4. new.at = "replace" /\ new.labels = labelled /\ new.doomed = old.doomed
        BY <1>1 DEF RefreshState
    <2>5. new.mixed = old.mixed /\ new.fetched = old.fetched
        BY <1>1 DEF RefreshState
    <2> HIDE DEF new
    <2>6. FetchedRow(new)
        BY <1>1, <2>1, <2>4, <2>5 DEF RefreshRow, FetchedRow
    <2>7. RefreshRow(new)
        BY <1>1, <2>2, <2>4, <2>6 DEF RefreshRow
    <2> QED
        BY <1>1, <2>1, <2>3, <2>7, RefreshGoesOn
<1>5. CASE DeleteCategories(r)
    <2> DEFINE new == [old EXCEPT !.at = "commit", !.doomed = Ids]
    <2>1. refreshAt' = [refreshAt EXCEPT ![r] = new] /\ refreshAt'[r] = new /\ old.at = "replace"
        BY <1>5 DEF DeleteCategories
    <2>2. Ids \subseteq Nat /\ \A id \in Ids : id < nextId
        BY DEF Ids, RowsApart
    <2>3. new \in RefreshState
        BY <1>1, <2>2 DEF RefreshState
    <2>4. new.at = "commit" /\ new.labels = old.labels /\ new.doomed = Ids
        BY <1>1 DEF RefreshState
    <2>5. new.mixed = old.mixed /\ new.fetched = old.fetched /\ new.late = old.late
        BY <1>1 DEF RefreshState
    <2> HIDE DEF new
    <2>6. FetchedRow(new)
        BY <1>1, <2>1, <2>4, <2>5 DEF RefreshRow, FetchedRow
    <2>7. RefreshRow(new)
        BY <1>1, <2>1, <2>2, <2>4, <2>5, <2>6 DEF RefreshRow
    <2> QED
        BY <1>1, <2>1, <2>3, <2>7, RefreshGoesOn
<1> QED
    BY <1>2, <1>3, <1>4, <1>5

LEMMA OttoChangesKept ==
    ASSUME CategoryInv, OttoChanges
    PROVE  CategoryInv'
<1> USE DEF CategoryInv, CategoryShape
<1>1. /\ version' = version + 1 /\ version < Len(CatalogueVersions)
      /\ UNCHANGED <<categories, nextId, patchwork>>
    BY DEF OttoChanges
<1>2. version' \in Versions
    BY <1>1, CatalogueAssumption, LenProperties DEF Versions
<1>3. ASSUME NEW r \in Refreshers PROVE refreshAt'[r] \in RefreshState /\ RefreshRow(refreshAt[r])'
    <2> DEFINE old == refreshAt[r]
    <2> DEFINE new == [old EXCEPT !.mixed = TRUE]
    <2>1. old \in RefreshState /\ RefreshRow(old) /\ old.page \in Nat
        BY DEF RefreshState
    <2>2. CASE old.at = "fetch" /\ old.page > 0
        <3>1. refreshAt'[r] = new
            BY <2>2 DEF OttoChanges
        <3>2. new \in RefreshState /\ new.at = "fetch" /\ new.doomed = old.doomed
            BY <2>1, <2>2 DEF RefreshState
        <3>3. new.mixed
            BY <2>1 DEF RefreshState
        <3> HIDE DEF new
        <3>4. FetchedRow(refreshAt[r])'
            BY <3>1, <3>3 DEF FetchedRow
        <3> QED
            BY <1>1, <2>1, <3>1, <3>2, <3>4 DEF RefreshRow
    <2>3. CASE ~(old.at = "fetch" /\ old.page > 0)
        <3>1. refreshAt'[r] = old
            BY <2>3 DEF OttoChanges
        <3>2. old.at = "fetch" => old.page = 0
            BY <2>1, <2>3
        <3>3. 0 * CataloguePage = 0 /\ 0 <= Len(CatalogueVersions[version'])
            BY <1>2, CataloguesAre
        <3>4. {CatalogueVersions[version'][i] : i \in 1 .. 0} = {CatalogueVersions[version][i] : i \in 1 .. 0}
            OBVIOUS
        <3>5. FetchedRow(old) => FetchedRow(refreshAt[r])'
            BY <3>1, <3>2, <3>3, <3>4 DEF FetchedRow
        <3> QED
            BY <1>1, <2>1, <3>1, <3>5 DEF RefreshRow, Ids
    <2> QED
        BY <2>2, <2>3
<1>4. refreshAt' \in [Refreshers -> RefreshState]
    BY <1>3 DEF OttoChanges
<1> QED
    BY <1>1, <1>2, <1>3, <1>4 DEF RowsApart, WholeInv

\* Labels that are written change neither names nor ids, and no refresh under way
\* misses them.
LEMMA LabelsWritten ==
    ASSUME CategoryInv, NEW ids, ids \subseteq Ids, WriteLabels(ids), UNCHANGED <<version, nextId, patchwork>>
    PROVE  CategoryInv'
<1> USE DEF CategoryInv, CategoryShape
<1> DEFINE written(row) == [row EXCEPT !.label = @ \/ row.id \in ids]
<1> DEFINE names == {CategoryRow(id).name : id \in ids}
<1>1. categories' = {written(row) : row \in categories}
    BY DEF WriteLabels
<1>2. \A row \in categories :
         /\ written(row) \in [name : GroupNames, id : Nat, label : BOOLEAN]
         /\ written(row).name = row.name /\ written(row).id = row.id
    OBVIOUS
<1>3. \A row \in categories : written(row).label => row.label \/ row.id \in ids
    OBVIOUS
<1> HIDE DEF written
<1>4. \A id \in ids : CategoryRow(id) \in categories /\ CategoryRow(id).id = id
    BY DEF CategoryRow, Ids
<1>5. \A row \in categories : row.id \in ids => row.name \in names
    BY <1>4 DEF RowsApart
<1>6. names \subseteq GroupNames
    BY <1>4
<1> HIDE DEF names
<1>7. Names(categories') = Names(categories) /\ Ids' = Ids
    BY <1>1, <1>2 DEF Names, Ids
<1>8. RowsApart'
    BY <1>1, <1>2 DEF RowsApart
<1>9. WholeInv'
    BY <1>7 DEF WholeInv
<1>10. ASSUME NEW r \in Refreshers PROVE refreshAt'[r] \in RefreshState /\ RefreshRow(refreshAt[r])'
    <2> DEFINE old == refreshAt[r]
    <2> DEFINE new == MissesLabels(old, names)
    <2>1. old \in RefreshState /\ RefreshRow(old) /\ refreshAt'[r] = new
        BY DEF WriteLabels, names
    <2>2. new \in RefreshState /\ new.at = old.at /\ new.doomed = old.doomed
        BY <1>6, <2>1 DEF MissesLabels, RefreshState
    <2>3. new.mixed = old.mixed /\ new.fetched = old.fetched /\ new.page = old.page
        BY <2>1 DEF MissesLabels, RefreshState
    <2>4. /\ new.labels = old.labels
          /\ new.at \in {"replace", "commit"} => new.late = old.late \cup names
        BY <2>1 DEF MissesLabels, RefreshState
    <2> HIDE DEF new
    <2>5. FetchedRow(old) => FetchedRow(refreshAt[r])'
        BY <2>1, <2>2, <2>3 DEF FetchedRow
    <2>6. old.at \in {"replace", "commit"} =>
             \A row \in categories' : row.label => row.name \in old.labels \cup old.late \cup names
        BY <1>1, <1>2, <1>3, <1>5, <2>1 DEF RefreshRow
    <2> QED
        BY <1>7, <2>1, <2>2, <2>4, <2>5, <2>6 DEF RefreshRow
<1>11. refreshAt' \in [Refreshers -> RefreshState]
    BY <1>10 DEF WriteLabels
<1> QED
    BY <1>1, <1>2, <1>8, <1>9, <1>10, <1>11

\* The rows that a refresh inserts: each name it has fetched once, with ids of its own.
LEMMA NewRowsAre ==
    ASSUME CategoryInv, NEW r \in Refreshers
    PROVE  /\ Cardinality(NewRows(r)) \in Nat
           /\ NewRows(r) \subseteq [name : GroupNames, id : Nat, label : BOOLEAN]
           /\ \A row \in NewRows(r) : nextId <= row.id /\ row.id < nextId + Cardinality(NewRows(r))
           /\ \A a, b \in NewRows(r) : a.name = b.name \/ a.id = b.id => a = b
           /\ \A row \in NewRows(r) : row.label = (row.name \in refreshAt[r].labels)
           /\ Names(NewRows(r)) = Range(refreshAt[r].fetched)
<1> DEFINE seen == Range(refreshAt[r].fetched)
<1> DEFINE n == Cardinality(seen)
<1> DEFINE Apart(f) == \A a, b \in seen : f[a] = f[b] => a = b
<1> DEFINE numbers == nextId .. nextId + n - 1
<1> DEFINE ids == CHOOSE f \in [seen -> numbers] : Apart(f)
<1> DEFINE row(name) == [name |-> name, id |-> ids[name], label |-> name \in refreshAt[r].labels]
<1>1. refreshAt[r].fetched \in Seq(GroupNames) /\ nextId \in Nat
    BY DEF CategoryInv, CategoryShape, RefreshState
<1>2. IsFiniteSet(seen) /\ seen \subseteq GroupNames
    BY <1>1, RangeIsFinite
<1>3. n \in Nat /\ ExistsBijection(1 .. n, seen)
    BY <1>2, FS_CardinalityType
<1>4. ToSet(refreshAt[r].fetched) = seen
    BY DEF ToSet, Range
<1>5. NewRows(r) = {row(name) : name \in seen}
    BY <1>4 DEF NewRows, Carries
<1> HIDE DEF seen, n
<1>6. \E f \in [seen -> numbers] : Apart(f)
    <2>1. PICK b \in [1 .. n -> seen] :
             /\ \A i, j \in 1 .. n : b[i] = b[j] => i = j
             /\ \A x \in seen : \E i \in 1 .. n : b[i] = x
        BY <1>3 DEF ExistsBijection, Bijection, Injection, Surjection, IsInjective
    <2> DEFINE at(x) == CHOOSE i \in 1 .. n : b[i] = x
    <2>2. \A x \in seen : at(x) \in 1 .. n /\ b[at(x)] = x
        BY <2>1
    <2> HIDE DEF at
    <2> DEFINE f == [x \in seen |-> nextId - 1 + at(x)]
    <2>3. \A x \in seen : nextId - 1 + at(x) \in numbers
        BY <1>1, <1>3, <2>2
    <2>4. \A x, y \in seen : nextId - 1 + at(x) = nextId - 1 + at(y) => at(x) = at(y)
        BY <1>1, <1>3, <2>2
    <2>5. f \in [seen -> numbers] /\ Apart(f)
        BY <2>2, <2>3, <2>4
    <2> QED
        BY <2>5
<1>7. ids \in [seen -> numbers] /\ Apart(ids)
    BY <1>6
<1> HIDE DEF ids
<1>8. \A name \in seen : ids[name] \in Nat /\ nextId <= ids[name] /\ ids[name] < nextId + n
    BY <1>1, <1>3, <1>7
<1>9. \A name \in seen : /\ row(name) \in [name : GroupNames, id : Nat, label : BOOLEAN]
                         /\ row(name).name = name /\ row(name).id = ids[name]
                         /\ row(name).label = (name \in refreshAt[r].labels)
    BY <1>2, <1>8
<1> HIDE DEF row
<1>10. \A new \in NewRows(r) : /\ new.name \in seen /\ new = row(new.name)
                               /\ new.id = ids[new.name]
                               /\ new.label = (new.name \in refreshAt[r].labels)
    BY <1>5, <1>9
<1>11. Cardinality(NewRows(r)) = n
    <2> DEFINE f == [name \in seen |-> row(name)]
    <2>1. f \in [seen -> NewRows(r)] /\ \A a, b \in seen : f[a] = f[b] => a = b
        BY <1>5, <1>9
    <2>2. \A new \in NewRows(r) : \E name \in seen : f[name] = new
        BY <1>5
    <2>3. ExistsBijection(seen, NewRows(r))
        BY <2>1, <2>2 DEF ExistsBijection, Bijection, Injection, Surjection, IsInjective
    <2> QED
        BY <1>2, <2>3, FS_Bijection DEF n
<1>12. NewRows(r) \subseteq [name : GroupNames, id : Nat, label : BOOLEAN]
    BY <1>5, <1>9
<1>13. \A a, b \in NewRows(r) : a.name = b.name \/ a.id = b.id => a = b
    BY <1>7, <1>10
<1>14. Names(NewRows(r)) = seen
    BY <1>5, <1>9 DEF Names
<1> QED
    BY <1>3, <1>8, <1>10, <1>11, <1>12, <1>13, <1>14 DEF seen

\* Rows that were not all there when the refresh deleted have a name that it fetched.
LEMMA OldOnesGo ==
    ASSUME CategoryInv, NEW r \in Refreshers, refreshAt[r].at = "commit", ~refreshAt[r].mixed, ~patchwork,
           NEW left, left = {row \in categories : row.id \notin refreshAt[r].doomed},
           Names(left) \cap Range(refreshAt[r].fetched) = {}
    PROVE  left = {}
<1>1. RefreshRow(refreshAt[r]) /\ WholeInv
    BY DEF CategoryInv
<1>2. PICK v \in Versions : Range(refreshAt[r].fetched) = Range(CatalogueVersions[v])
    BY <1>1 DEF RefreshRow, FetchedRow
<1>3. PICK w \in Versions : Names(categories) = Range(CatalogueVersions[w])
    BY <1>1 DEF WholeInv
<1>4. Names(categories) \cap Range(refreshAt[r].fetched) # {}
    BY <1>2, <1>3, CatalogueAssumption DEF Versions
<1>5. left # categories
    BY <1>4
<1>6. Ids \subseteq refreshAt[r].doomed
    BY <1>1, <1>5 DEF RefreshRow, Ids
<1> QED
    BY <1>6 DEF Ids

LEMMA CommitRefreshKept ==
    ASSUME CategoryInv, NEW r \in Refreshers, CommitRefresh(r)
    PROVE  CategoryInv'
<1> USE DEF CategoryInv, CategoryShape
<1> DEFINE left == {row \in categories : row.id \notin refreshAt[r].doomed}
<1> DEFINE fetched == Range(refreshAt[r].fetched)
<1> DEFINE new == NewRows(r)
<1>1. refreshAt[r] \in RefreshState /\ refreshAt[r].at = "commit" /\ version' = version /\ RefreshRow(refreshAt[r])
    BY DEF CommitRefresh
<1>2. ToSet(refreshAt[r].fetched) = fetched
    BY DEF ToSet, Range
<1>3. CASE Names(left) \cap fetched = {}
    <2> DEFINE labelled == Names({row \in new : row.label})
    <2>1. categories' = left \cup new /\ nextId' = nextId + Cardinality(new)
        BY <1>2, <1>3 DEF CommitRefresh
    <2>2. patchwork' = (refreshAt[r].mixed \/ (patchwork /\ left # {}))
        BY <1>2, <1>3 DEF CommitRefresh
    <2>3. refreshAt' = [q \in Refreshers |-> IF q = r THEN [NoRefresh EXCEPT !.at = "answered"]
                                            ELSE MissesLabels(refreshAt[q], labelled)]
        BY <1>2, <1>3 DEF CommitRefresh
    <2>4. /\ Cardinality(new) \in Nat
          /\ new \subseteq [name : GroupNames, id : Nat, label : BOOLEAN]
          /\ \A row \in new : nextId <= row.id /\ row.id < nextId + Cardinality(new)
          /\ \A a, b \in new : a.name = b.name \/ a.id = b.id => a = b
          /\ Names(new) = fetched
        BY NewRowsAre
    <2> HIDE DEF new
    <2>5. left \subseteq categories /\ \A row \in left : row.id < nextId /\ row.id \in Nat
        BY DEF RowsApart
    <2>6. ~refreshAt[r].mixed /\ ~patchwork => left = {}
        BY <1>1, <1>3, OldOnesGo
    <2>7. \A a \in left, b \in new : a.name # b.name /\ a.id # b.id
        <3>1. \A a \in left, b \in new : a.name # b.name
            BY <1>3, <2>4 DEF Names
        <3>2. \A a \in left, b \in new : a.id # b.id
            <4> SUFFICES ASSUME NEW a \in left, NEW b \in new PROVE a.id # b.id
                OBVIOUS
            <4>1. a.id < nextId /\ a.id \in Nat /\ nextId <= b.id /\ b.id \in Nat
                BY <2>4, <2>5
            <4> QED
                BY <4>1
        <3> QED
            BY <3>1, <3>2
    <2>8. CategoryShape' /\ nextId <= nextId'
        <3>1. categories' \subseteq [name : GroupNames, id : Nat, label : BOOLEAN]
            BY <2>1, <2>4, <2>5
        <3>2. nextId' \in Nat /\ nextId <= nextId'
            BY <2>1, <2>4
        <3>3. patchwork' \in BOOLEAN
            BY <1>1, <2>2 DEF RefreshState
        <3>4. labelled \subseteq GroupNames
            BY <2>4 DEF Names
        <3>5. [NoRefresh EXCEPT !.at = "answered"] \in RefreshState
            BY NoRefreshIs DEF RefreshState
        <3> HIDE DEF labelled
        <3>6. \A q \in Refreshers : MissesLabels(refreshAt[q], labelled) \in RefreshState
            BY <3>4 DEF MissesLabels, RefreshState
        <3>7. refreshAt' \in [Refreshers -> RefreshState]
            BY <2>3, <3>5, <3>6
        <3> QED
            BY <1>1, <3>1, <3>2, <3>3, <3>7
    <2>9. RowsApart'
        <3>1. \A a, b \in left : a.name = b.name \/ a.id = b.id => a = b
            BY <2>5 DEF RowsApart
        <3>2. \A a, b \in categories' : a.name = b.name \/ a.id = b.id => a = b
            <4> SUFFICES ASSUME NEW a \in categories', NEW b \in categories', a.name = b.name \/ a.id = b.id
                         PROVE  a = b
                OBVIOUS
            <4>1. CASE a \in left
                BY <2>1, <2>7, <3>1, <4>1
            <4>2. CASE a \in new
                BY <2>1, <2>4, <2>7, <4>2
            <4> QED
                BY <2>1, <4>1, <4>2
        <3>3. \A row \in left : row.id < nextId'
            <4> SUFFICES ASSUME NEW row \in left PROVE row.id < nextId'
                OBVIOUS
            <4> QED
                BY <2>5, <2>8
        <3>4. \A row \in new : row.id < nextId'
            BY <2>1, <2>4
        <3> QED
            BY <2>1, <3>2, <3>3, <3>4 DEF RowsApart
    <2>10. WholeInv'
        <3> SUFFICES ASSUME ~patchwork' PROVE \E v \in Versions : Names(categories') = Range(CatalogueVersions[v])
            BY DEF WholeInv
        <3>1. left = {} /\ ~refreshAt[r].mixed
            BY <2>2, <2>6
        <3>2. Names(categories') = fetched
            BY <2>1, <2>4, <3>1
        <3> QED
            BY <1>1, <3>1, <3>2 DEF RefreshRow, FetchedRow
    <2>11. ASSUME NEW q \in Refreshers PROVE RefreshRow(refreshAt[q])'
        <3>1. CASE q = r
            <4>1. refreshAt'[q].at = "answered" /\ refreshAt'[q].doomed = {}
                BY <2>3, <3>1, NoRefreshIs DEF RefreshState
            <4> QED
                BY <4>1 DEF RefreshRow, FetchedRow
        <3>2. CASE q # r
            <4> DEFINE old == refreshAt[q]
            <4> DEFINE now == MissesLabels(old, labelled)
            <4>1. refreshAt'[q] = now /\ old \in RefreshState /\ RefreshRow(old)
                BY <2>3, <3>2
            <4>2. \A row \in new : row.label => row.name \in labelled
                BY DEF Names
            <4> HIDE DEF labelled
            <4>3. now.at = old.at /\ now.doomed = old.doomed
                BY <4>1 DEF MissesLabels, RefreshState
            <4>4. now.mixed = old.mixed /\ now.fetched = old.fetched /\ now.page = old.page
                BY <4>1 DEF MissesLabels, RefreshState
            <4>5. /\ now.labels = old.labels
                  /\ now.at \in {"replace", "commit"} => now.late = old.late \cup labelled
                BY <4>1 DEF MissesLabels, RefreshState
            <4> HIDE DEF now
            <4>6. FetchedRow(old) => FetchedRow(refreshAt[q])'
                BY <1>1, <4>1, <4>3, <4>4 DEF FetchedRow
            <4>7. \A id \in old.doomed : id < nextId /\ id < nextId'
                <5>1. \A id \in old.doomed : id < nextId /\ id \in Nat
                    BY <4>1 DEF RefreshRow, RefreshState
                <5> QED
                    BY <5>1, <2>8
            <4>8. old.at \in {"replace", "commit"} =>
                     \A row \in categories' : row.label => row.name \in now.labels \cup now.late
                BY <2>1, <4>1, <4>2, <4>3, <4>5 DEF RefreshRow
            <4>9. ~patchwork' /\ old.at = "commit" => Ids' \cap old.doomed = {}
                <5> SUFFICES ASSUME ~patchwork' PROVE Ids' \cap old.doomed = {}
                    OBVIOUS
                <5>1. left = {} \/ ~patchwork
                    BY <2>2
                <5>2. left = {}
                    BY <2>2, <2>6, <5>1
                <5>3. \A row \in categories' : nextId <= row.id /\ row.id \in Nat
                    BY <2>1, <2>4, <5>2
                <5>4. \A row \in categories' : row.id \notin old.doomed
                    <6> SUFFICES ASSUME NEW row \in categories', row.id \in old.doomed PROVE FALSE
                        OBVIOUS
                    <6> QED
                        BY <4>7, <5>3
                <5> QED
                    BY <5>4 DEF Ids
            <4> QED
                BY <4>1, <4>3, <4>6, <4>7, <4>8, <4>9 DEF RefreshRow
        <3> QED
            BY <3>1, <3>2
    <2> QED
        BY <2>8, <2>9, <2>10, <2>11
<1>4. CASE Names(left) \cap fetched # {}
    <2> DEFINE end == [refreshAt[r] EXCEPT !.at = "raised"]
    <2>1. refreshAt' = [refreshAt EXCEPT ![r] = end] /\ refreshAt'[r] = end
        BY <1>2, <1>4 DEF CommitRefresh
    <2>2. UNCHANGED <<version, categories, nextId, patchwork>>
        BY <1>2, <1>4 DEF CommitRefresh
    <2>3. end \in RefreshState /\ end.at = "raised" /\ end.doomed = refreshAt[r].doomed
        BY <1>1 DEF RefreshState
    <2> HIDE DEF end
    <2>4. RefreshRow(end)
        BY <1>1, <2>3, RefreshEnds DEF RefreshRow
    <2> QED
        BY <2>1, <2>2, <2>3, <2>4, RefreshGoesOn
<1> QED
    BY <1>3, <1>4

LEMMA CategoryStepKept ==
    ASSUME CategoryInv, [CategoryNext]_<<scene, categoryVars>>
    PROVE  CategoryInv'
<1>1. CASE UNCHANGED <<scene, categoryVars>>
    <2>1. UNCHANGED <<version, categories, nextId, refreshAt, patchwork>>
        BY <1>1 DEF categoryVars
    <2> QED
        BY <2>1 DEF CategoryInv, CategoryShape, RowsApart, WholeInv, RefreshRow, FetchedRow, Ids
<1>2. ASSUME NEW l \in LabelRequests, LoadUnlabelled(l) \/ LabelStep(l) PROVE CategoryInv'
    <2>1. UNCHANGED <<version, nextId, patchwork>>
        BY <1>2 DEF LoadUnlabelled, LabelStep, LookUpTranslation, StoreTranslation, DeepLFails, CommitLabels
    <2>2. \/ UNCHANGED <<categories, refreshAt>>
          \/ labelAt[l].pending \subseteq Ids /\ WriteLabels(labelAt[l].pending)
        BY <1>2 DEF LoadUnlabelled, LabelStep, LookUpTranslation, StoreTranslation, DeepLFails, CommitLabels
    <2>3. CASE UNCHANGED <<categories, refreshAt>>
        BY <2>1, <2>3 DEF CategoryInv, CategoryShape, RowsApart, WholeInv, RefreshRow, FetchedRow, Ids
    <2>4. CASE labelAt[l].pending \subseteq Ids /\ WriteLabels(labelAt[l].pending)
        BY <2>1, <2>4, LabelsWritten
    <2> QED
        BY <2>2, <2>3, <2>4
<1>3. ASSUME NEW r \in Refreshers, BeginRefresh(r) \/ RefreshStep(r) PROVE CategoryInv'
    BY <1>3, RefreshStepKept, PageFetched, CommitRefreshKept DEF RefreshStep
<1> QED
    BY <1>1, <1>2, <1>3, OttoChangesKept DEF CategoryNext

LEMMA CategoriesHold == CategorySafety => []CategoryInv
<1>1. CategoryInv /\ [CategoryNext]_<<scene, categoryVars>> => CategoryInv'
    BY CategoryStepKept
<1> QED
    BY <1>1, CategoriesStart, PTL DEF CategorySafety

LEMMA CatalogueIs == CategoryInv => CatalogueIsWhole
<1> SUFFICES ASSUME CategoryInv PROVE CatalogueIsWhole
    OBVIOUS
<1>1. \A v \in Versions : ToSet(CatalogueVersions[v]) = Range(CatalogueVersions[v])
    BY DEF ToSet, Range
<1> QED
    BY <1>1 DEF CategoryInv, RowsApart, WholeInv, CatalogueIsWhole, Versions

\* A row loses its label only where a refresh replaces it, and then it came late.
LEMMA LabelStays ==
    ASSUME CategoryInv, [CategoryNext]_<<scene, categoryVars>>,
           NEW row \in categories, NEW new \in categories', row.label, row.name = new.name, ~new.label
    PROVE  \E r \in Refreshers : row.name \in refreshAt[r].late
<1> USE DEF CategoryInv, CategoryShape
<1>1. categories' # categories
    BY DEF RowsApart
<1>2. ASSUME NEW ids, WriteLabels(ids) PROVE FALSE
    <2> DEFINE written(x) == [x EXCEPT !.label = @ \/ x.id \in ids]
    <2>1. PICK x \in categories : new = written(x)
        BY <1>2 DEF WriteLabels
    <2>2. new.name = x.name /\ (x.label => new.label)
        BY <2>1
    <2>3. x = row
        BY <2>2 DEF RowsApart
    <2> QED
        BY <2>2, <2>3
<1>3. PICK r \in Refreshers : CommitRefresh(r)
    BY <1>1, <1>2 DEF CategoryNext, RefreshStep, LabelStep, BeginRefresh, FetchGroups, FetchRaises, ReadLabels,
        DeleteCategories, OttoChanges, LoadUnlabelled, LookUpTranslation, StoreTranslation, DeepLFails,
        CommitLabels, categoryVars
<1>4. refreshAt[r].at = "commit" /\ RefreshRow(refreshAt[r])
    BY <1>3 DEF CommitRefresh
<1>5. row.name \in refreshAt[r].labels \cup refreshAt[r].late
    BY <1>4 DEF RefreshRow
<1>6. new \in categories \/ new \in NewRows(r)
    BY <1>1, <1>3 DEF CommitRefresh
<1>7. new \notin categories
    BY DEF RowsApart
<1>8. new.label = (new.name \in refreshAt[r].labels)
    BY <1>6, <1>7, NewRowsAre
<1> QED
    BY <1>5, <1>8

LEMMA LabelsAreKept == CategorySafety => LabelKept
<1> DEFINE Kept == \A row \in categories, new \in categories' :
          row.label /\ row.name = new.name /\ ~new.label => \E r \in Refreshers : row.name \in refreshAt[r].late
<1>1. CategoryInv /\ [CategoryNext]_<<scene, categoryVars>> => [Kept]_categoryVars
    BY LabelStays
<1> QED
    BY <1>1, CategoriesHold, PTL DEF CategorySafety, LabelKept

-----------------------------------------------------------------------------
(* Mirrors: media and descriptions.                                        *)

Media == [links : Nat, texts : Nat]
RunState ==
    [at : {"idle", "get", "compare", "commit", "answered", "stopped", "ended"},
     next : DOMAIN MediaSkus, got : Media \cup {<<>>},
     doomed : SUBSET (Nat \X (MediaRuns \cup {"upload"})),
     began : [MediaProducts -> Media] \cup {<<>>}]

Newer(media, than) == media.links >= than.links /\ media.texts >= than.texts
On(run, s) == run.at \in {"compare", "commit"} /\ MediaSkus[run.next] = s
Passed(run, s) ==
    \/ run.at = "ended"
    \/ run.at \in {"get", "compare", "commit"} /\ \E i \in 1 .. run.next - 1 : MediaSkus[i] = s

MediaShape ==
    /\ ottoMedia \in [MediaProducts -> Media]
    /\ links \in [MediaProducts -> Nat]
    /\ texts \in [MediaProducts -> SUBSET (Nat \X (MediaRuns \cup {"upload"}))]
    /\ mixedRuns \subseteq MediaProducts
    /\ runAt \in [MediaRuns -> RunState]

\* Nothing is newer than what OTTO has; an answer is at least as new as the run.
OttoIsNewest == \A s \in MediaProducts :
    links[s] <= ottoMedia[s].links /\ \A row \in texts[s] : row[1] <= ottoMedia[s].texts
RunNews(run) ==
    /\ run.at \in {"compare", "commit"} =>
          /\ run.got \in Media
          /\ Newer(ottoMedia[MediaSkus[run.next]], run.got)
          /\ Newer(run.got, run.began[MediaSkus[run.next]])
    /\ run.at \in {"get", "compare", "commit", "ended"} =>
          /\ run.began \in [MediaProducts -> Media]
          /\ \A s \in MediaProducts : Newer(ottoMedia[s], run.began[s])

\* A run brings nothing older than there is, and deletes what there is.
Ahead(run, s) ==
    /\ run.at = "commit" => run.doomed = texts[s]
    /\ run.got.links >= links[s] /\ \A row \in texts[s] : run.got.texts >= row[1]
\* Who meets a run that is about to commit has an answer that is not older.
Behind(run, other, s) ==
    On(run, s) /\ On(other, s) /\ other.at = "commit" =>
        run.at = "compare" /\ Newer(run.got, other.got)
Brought(run, s) == Passed(run, s) =>
    links[s] >= run.began[s].links /\ \A row \in texts[s] : row[1] >= run.began[s].texts

\* Of a product that no two runs have replaced at the same time.
UnmixedInv(s) ==
    /\ \E row \in texts[s] : texts[s] = {row}
    /\ \A m \in MediaRuns : On(runAt[m], s) => Ahead(runAt[m], s)
    /\ \A m, p \in MediaRuns : m # p => Behind(runAt[m], runAt[p], s)
    /\ \A m \in MediaRuns : Brought(runAt[m], s)

MediaInv ==
    /\ MediaShape /\ OttoIsNewest
    /\ \A m \in MediaRuns : RunNews(runAt[m])
    /\ \A s \in MediaProducts \ mixedRuns : UnmixedInv(s)

LEMMA SkusAre ==
    /\ Len(MediaSkus) \in Nat \ {0} /\ DOMAIN MediaSkus = 1 .. Len(MediaSkus) /\ 1 \in DOMAIN MediaSkus
    /\ \A i \in DOMAIN MediaSkus : MediaSkus[i] \in MediaProducts
    /\ \A s \in MediaProducts : \E i \in DOMAIN MediaSkus : MediaSkus[i] = s
<1>1. MediaSkus \in Seq(Range(MediaSkus)) /\ MediaSkus # <<>>
    BY MediaAssumption
<1>2. Len(MediaSkus) \in Nat \ {0} /\ DOMAIN MediaSkus = 1 .. Len(MediaSkus)
    BY <1>1, LenProperties, EmptySeq
<1> QED
    BY <1>2 DEF MediaProducts, ToSet

LEMMA NoRunIs ==
    /\ NoRun.at = "idle" /\ NoRun.next = 1 /\ NoRun.got = <<>> /\ NoRun.doomed = {} /\ NoRun.began = <<>>
    /\ NoRun \in RunState
<1>1. 1 \in DOMAIN MediaSkus
    BY SkusAre
<1> QED
    BY <1>1 DEF NoRun, RunState

LEMMA MediaStarts == MirrorInit => MediaInv
<1> SUFFICES ASSUME MirrorInit PROVE MediaInv
    OBVIOUS
<1> DEFINE first == [links |-> 1, texts |-> 1]
<1>1. /\ ottoMedia = [s \in MediaProducts |-> first] /\ links = [s \in MediaProducts |-> 0]
      /\ texts = [s \in MediaProducts |-> {<<0, "upload">>}]
      /\ runAt = [m \in MediaRuns |-> NoRun] /\ mixedRuns = {}
    BY DEF MirrorInit
<1>2. first \in Media /\ first.links = 1 /\ first.texts = 1
    BY DEF Media
<1> HIDE DEF first
<1>3. <<0, "upload">> \in Nat \X (MediaRuns \cup {"upload"}) /\ <<0, "upload">>[1] = 0
    OBVIOUS
<1>4. MediaShape
    BY <1>1, <1>2, <1>3, NoRunIs DEF MediaShape
<1>5. OttoIsNewest
    BY <1>1, <1>2, <1>3 DEF OttoIsNewest
<1>6. \A m \in MediaRuns : RunNews(runAt[m])
    BY <1>1, NoRunIs DEF RunNews
<1>7. \A s \in MediaProducts : UnmixedInv(s)
    BY <1>1, NoRunIs DEF UnmixedInv, On, Passed, Behind, Brought
<1> QED
    BY <1>4, <1>5, <1>6, <1>7 DEF MediaInv

LEMMA OnwardIs ==
    ASSUME NEW run \in RunState, run.at \in {"get", "compare", "commit"}
    PROVE  /\ Onward(run) \in RunState /\ Onward(run).at \in {"get", "ended"}
           /\ Onward(run).began = run.began
           /\ \A s \in MediaProducts : Passed(Onward(run), s) => Passed(run, s) \/ s = MediaSkus[run.next]
<1> DEFINE end == [NoRun EXCEPT !.at = "ended", !.began = run.began]
<1> DEFINE more(n) == [run EXCEPT !.next = n, !.at = "get", !.got = <<>>, !.doomed = {}]
<1>1. run.next \in 1 .. Len(MediaSkus) /\ run.began \in [MediaProducts -> Media] \cup {<<>>}
    BY SkusAre DEF RunState
<1>2. /\ end \in RunState /\ end.at = "ended" /\ end.began = run.began
    BY <1>1, NoRunIs DEF RunState
<1>3. ASSUME NEW n \in DOMAIN MediaSkus
      PROVE  more(n) \in RunState /\ more(n).at = "get" /\ more(n).began = run.began /\ more(n).next = n
    BY DEF RunState
<1> HIDE DEF end, more
<1>4. CASE run.next = Len(MediaSkus)
    <2>1. Onward(run) = end
        BY <1>4 DEF Onward, end
    <2>2. ASSUME NEW s \in MediaProducts PROVE Passed(run, s) \/ s = MediaSkus[run.next]
        <3>1. PICK i \in 1 .. Len(MediaSkus) : MediaSkus[i] = s
            BY SkusAre
        <3>2. \A n \in Nat : \A j \in 1 .. n : j = n \/ j \in 1 .. n - 1
            OBVIOUS
        <3>3. i = run.next \/ i \in 1 .. run.next - 1
            BY <1>4, <3>1, <3>2, SkusAre
        <3> QED
            BY <3>1, <3>3 DEF Passed
    <2> QED
        BY <1>2, <2>1, <2>2
<1>5. CASE run.next # Len(MediaSkus)
    <2>1. run.next + 1 \in DOMAIN MediaSkus
        BY <1>1, <1>5, SkusAre
    <2>2. Onward(run) = more(run.next + 1)
        BY <1>5 DEF Onward, more
    <2> DEFINE on == Onward(run)
    <2>3. on.at = "get" /\ on.next = run.next + 1
        BY <1>3, <2>1, <2>2
    <2> HIDE DEF on
    <2>4. ASSUME NEW s \in MediaProducts, Passed(on, s)
          PROVE  Passed(run, s) \/ s = MediaSkus[run.next]
        <3>1. PICK i \in 1 .. on.next - 1 : MediaSkus[i] = s
            BY <2>3, <2>4 DEF Passed
        <3>2. i = run.next \/ i \in 1 .. run.next - 1
            BY <1>1, <2>3, <3>1, SkusAre
        <3> QED
            BY <3>1, <3>2 DEF Passed
    <2> QED
        BY <1>3, <2>1, <2>2, <2>4 DEF on
<1> QED
    BY <1>4, <1>5

\* One run goes on and brings nothing: the others and the rows stay.
LEMMA RunGoesOn ==
    ASSUME MediaInv, NEW m \in MediaRuns, NEW new \in RunState, RunNews(new),
           runAt' = [runAt EXCEPT ![m] = new], UNCHANGED <<ottoMedia, links, texts>>,
           mixedRuns \subseteq mixedRuns', mixedRuns' \subseteq MediaProducts,
           \A s \in MediaProducts \ mixedRuns' :
              /\ On(new, s) => Ahead(new, s)
              /\ \A p \in MediaRuns \ {m} : Behind(new, runAt[p], s) /\ Behind(runAt[p], new, s)
              /\ Brought(new, s)
    PROVE  MediaInv'
<1> USE DEF MediaInv, MediaShape
<1>1. runAt' \in [MediaRuns -> RunState] /\ runAt'[m] = new /\ \A p \in MediaRuns \ {m} : runAt'[p] = runAt[p]
    OBVIOUS
<1>2. ASSUME NEW p \in MediaRuns PROVE RunNews(runAt[p])'
    <2>1. RunNews(runAt'[p])
        BY <1>1
    <2> QED
        BY <2>1 DEF RunNews
<1>3. ASSUME NEW s \in MediaProducts \ mixedRuns' PROVE UnmixedInv(s)'
    <2>1. UnmixedInv(s)
        OBVIOUS
    <2>2. \E row \in texts'[s] : texts'[s] = {row}
        BY <2>1 DEF UnmixedInv
    <2>3. \A p \in MediaRuns : On(runAt'[p], s) => Ahead(runAt'[p], s)
        BY <1>1, <2>1 DEF UnmixedInv
    <2>4. \A p \in MediaRuns : Ahead(runAt'[p], s) => Ahead(runAt[p], s)'
        BY DEF Ahead
    <2>5. \A p, q \in MediaRuns : p # q => Behind(runAt'[p], runAt'[q], s)
        BY <1>1, <2>1 DEF UnmixedInv
    <2>6. \A p \in MediaRuns : Brought(runAt'[p], s)
        BY <1>1, <2>1 DEF UnmixedInv
    <2>7. \A p \in MediaRuns : Brought(runAt[p], s)'
        BY <2>6 DEF Brought
    <2> QED
        BY <2>2, <2>3, <2>4, <2>5, <2>7 DEF UnmixedInv, Behind
<1> QED
    BY <1>1, <1>2, <1>3 DEF OttoIsNewest

LEMMA MediaUnchanged ==
    ASSUME MediaInv, UNCHANGED mediaVars
    PROVE  MediaInv'
<1>1. UNCHANGED <<ottoMedia, links, texts, runAt, mixedRuns>>
    BY DEF mediaVars
<1> QED
    BY <1>1 DEF MediaInv, MediaShape, OttoIsNewest, RunNews, UnmixedInv, On, Ahead, Behind, Brought, Passed

\* OTTO's data only grows.
LEMMA OttoEditsKept ==
    ASSUME MediaInv, NEW s \in MediaProducts, OttoEdits(s)
    PROVE  MediaInv'
<1> USE DEF MediaInv, MediaShape
<1>1. UNCHANGED <<links, texts, runAt, mixedRuns>>
    BY DEF OttoEdits
<1>2. PICK part \in {"links", "texts"} : ottoMedia' = [ottoMedia EXCEPT ![s][part] = @ + 1]
    BY DEF OttoEdits
<1>3. /\ ottoMedia' \in [MediaProducts -> Media]
      /\ \A t \in MediaProducts : Newer(ottoMedia'[t], ottoMedia[t])
    <2> DEFINE old == ottoMedia[s]
    <2> DEFINE new == [old EXCEPT ![part] = @ + 1]
    <2>1. old \in Media /\ old.links \in Nat /\ old.texts \in Nat
        BY DEF Media
    <2>2. new \in Media /\ Newer(new, old)
        <3>1. CASE part = "links"
            <4>1. new = [old EXCEPT !.links = old.links + 1] /\ old.links + 1 \in Nat
                BY <2>1, <3>1
            <4>2. \A n \in Nat : /\ [old EXCEPT !.links = n] \in Media
                                /\ [old EXCEPT !.links = n].links = n
                                /\ [old EXCEPT !.links = n].texts = old.texts
                BY <2>1 DEF Media
            <4>3. new \in Media /\ new.links = old.links + 1 /\ new.texts = old.texts
                BY <4>1, <4>2
            <4> HIDE DEF new
            <4> QED
                BY <2>1, <4>3 DEF Newer
        <3>2. CASE part = "texts"
            <4>1. new = [old EXCEPT !.texts = old.texts + 1] /\ old.texts + 1 \in Nat
                BY <2>1, <3>2
            <4>2. \A n \in Nat : /\ [old EXCEPT !.texts = n] \in Media
                                /\ [old EXCEPT !.texts = n].texts = n
                                /\ [old EXCEPT !.texts = n].links = old.links
                BY <2>1 DEF Media
            <4>3. new \in Media /\ new.texts = old.texts + 1 /\ new.links = old.links
                BY <4>1, <4>2
            <4> HIDE DEF new
            <4> QED
                BY <2>1, <4>3 DEF Newer
        <3> QED
            BY <3>1, <3>2
    <2> HIDE DEF new
    <2>3. ottoMedia' = [ottoMedia EXCEPT ![s] = new]
        BY <1>2 DEF new
    <2>4. \A t \in MediaProducts : Newer(ottoMedia[t], ottoMedia[t])
        BY DEF Newer, Media
    <2> QED
        BY <2>2, <2>3, <2>4
<1>4. ASSUME NEW t \in MediaProducts, NEW than \in Media, Newer(ottoMedia[t], than)
      PROVE  Newer(ottoMedia'[t], than)
    <2>1. ottoMedia[t] \in Media /\ ottoMedia'[t] \in Media
        BY <1>3
    <2> QED
        BY <1>3, <1>4, <2>1 DEF Newer, Media
<1>5. OttoIsNewest'
    <2>1. \A t \in MediaProducts : /\ links[t] \in Nat /\ links[t] <= ottoMedia[t].links
                                   /\ \A row \in texts[t] : row[1] \in Nat /\ row[1] <= ottoMedia[t].texts
        BY DEF OttoIsNewest
    <2>2. \A t \in MediaProducts : /\ ottoMedia[t].links \in Nat /\ ottoMedia[t].texts \in Nat
                                   /\ ottoMedia'[t].links \in Nat /\ ottoMedia'[t].texts \in Nat
                                   /\ ottoMedia[t].links <= ottoMedia'[t].links
                                   /\ ottoMedia[t].texts <= ottoMedia'[t].texts
        BY <1>3 DEF Newer, Media
    <2> QED
        BY <1>1, <2>1, <2>2 DEF OttoIsNewest
<1>6. ASSUME NEW m \in MediaRuns PROVE RunNews(runAt[m])'
    <2>1. runAt[m] \in RunState /\ RunNews(runAt[m]) /\ runAt'[m] = runAt[m]
        BY <1>1
    <2>2. MediaSkus[runAt[m].next] \in MediaProducts
        BY <2>1, SkusAre DEF RunState
    <2> QED
        BY <1>4, <2>1, <2>2 DEF RunNews
<1>7. ASSUME NEW t \in MediaProducts \ mixedRuns' PROVE UnmixedInv(t)'
    BY <1>1 DEF UnmixedInv, On, Ahead, Behind, Brought, Passed
<1> QED
    BY <1>1, <1>3, <1>5, <1>6, <1>7

LEMMA NothingPassed ==
    ASSUME NEW new \in RunState,
           new.at \in {"idle", "answered", "stopped"} \/ (new.at = "get" /\ new.next = 1), NEW s, NEW other
    PROVE  ~On(new, s) /\ ~Passed(new, s) /\ Brought(new, s) /\ Behind(new, other, s) /\ Behind(other, new, s)
BY DEF On, Passed, Brought, Behind

LEMMA BeginMediaRunKept ==
    ASSUME MediaInv, NEW m \in MediaRuns, BeginMediaRun(m)
    PROVE  MediaInv'
<1> USE DEF MediaInv, MediaShape
<1> DEFINE new == [NoRun EXCEPT !.at = "get", !.began = ottoMedia]
<1>1. runAt' = [runAt EXCEPT ![m] = new] /\ UNCHANGED <<ottoMedia, links, texts, mixedRuns>>
    BY DEF BeginMediaRun
<1>2. new \in RunState /\ new.at = "get" /\ new.next = 1 /\ new.began = ottoMedia
    BY NoRunIs DEF RunState
<1> HIDE DEF new
<1>3. RunNews(new)
    BY <1>2 DEF RunNews, Newer, Media
<1>4. \A s \in MediaProducts : /\ ~On(new, s) /\ Brought(new, s)
                               /\ \A p \in MediaRuns : Behind(new, runAt[p], s) /\ Behind(runAt[p], new, s)
    BY <1>2, NothingPassed
<1> QED
    BY <1>1, <1>2, <1>3, <1>4, RunGoesOn

LEMMA MediaRaisesKept ==
    ASSUME MediaInv, NEW m \in MediaRuns, MediaRaises(m)
    PROVE  MediaInv'
<1> USE DEF MediaInv, MediaShape
<1> DEFINE at == IF runAt[m].next = Len(MediaSkus) THEN "answered" ELSE "stopped"
<1> DEFINE new == [NoRun EXCEPT !.at = at]
<1>1. runAt' = [runAt EXCEPT ![m] = new] /\ UNCHANGED <<ottoMedia, links, texts, mixedRuns>>
    BY DEF MediaRaises
<1>2. at \in {"answered", "stopped"}
    OBVIOUS
<1> HIDE DEF at
<1>3. new \in RunState /\ new.at = at
    BY <1>2, NoRunIs DEF RunState
<1> HIDE DEF new
<1>4. RunNews(new)
    BY <1>2, <1>3 DEF RunNews
<1>5. \A s \in MediaProducts : /\ ~On(new, s) /\ Brought(new, s)
                               /\ \A p \in MediaRuns : Behind(new, runAt[p], s) /\ Behind(runAt[p], new, s)
    BY <1>2, <1>3, NothingPassed
<1> QED
    BY <1>1, <1>3, <1>4, <1>5, RunGoesOn

\* The answer is what OTTO has: nobody's is newer.
LEMMA GetProductKept ==
    ASSUME MediaInv, NEW m \in MediaRuns, GetProduct(m)
    PROVE  MediaInv'
<1> USE DEF MediaInv, MediaShape
<1> DEFINE old == runAt[m]
<1> DEFINE new == [old EXCEPT !.at = "compare", !.got = ottoMedia[Now(m)]]
<1>1. /\ old \in RunState /\ old.at = "get" /\ RunNews(old) /\ Now(m) \in MediaProducts
      /\ Now(m) = MediaSkus[old.next]
    BY SkusAre DEF GetProduct, Now, RunState
<1>2. runAt' = [runAt EXCEPT ![m] = new] /\ UNCHANGED <<ottoMedia, links, texts, mixedRuns>>
    BY DEF GetProduct
<1>3. ottoMedia[Now(m)] \in Media
    BY <1>1
<1>4. new \in RunState /\ new.at = "compare" /\ new.got = ottoMedia[Now(m)]
    BY <1>1, <1>3 DEF RunState
<1>5. new.next = old.next /\ new.began = old.began
    BY <1>1 DEF RunState
<1> HIDE DEF new
<1>6. RunNews(new)
    BY <1>1, <1>3, <1>4, <1>5 DEF RunNews, Newer, Media
<1>7. ASSUME NEW s \in MediaProducts \ mixedRuns
      PROVE  /\ On(new, s) => Ahead(new, s)
             /\ \A p \in MediaRuns \ {m} : Behind(new, runAt[p], s) /\ Behind(runAt[p], new, s)
             /\ Brought(new, s)
    <2>1. On(new, s) => s = Now(m)
        BY <1>1, <1>5 DEF On
    <2>2. On(new, s) => Ahead(new, s)
        BY <1>4, <2>1 DEF Ahead, OttoIsNewest
    <2>3. \A p \in MediaRuns \ {m} : Behind(new, runAt[p], s)
        BY <1>4, <2>1 DEF Behind, On, RunNews
    <2>4. \A p \in MediaRuns \ {m} : Behind(runAt[p], new, s)
        BY <1>4 DEF Behind
    <2>5. Brought(old, s)
        BY DEF UnmixedInv
    <2>6. Brought(new, s)
        BY <1>1, <1>4, <1>5, <2>5 DEF Brought, Passed
    <2> QED
        BY <2>2, <2>3, <2>4, <2>6
<1> QED
    BY <1>2, <1>4, <1>6, <1>7, RunGoesOn

\* Of a product that is left out nothing is promised.
LEMMA GetRefusedKept ==
    ASSUME MediaInv, NEW m \in MediaRuns, GetRefused(m)
    PROVE  MediaInv'
<1> USE DEF MediaInv, MediaShape
<1> DEFINE old == runAt[m]
<1> DEFINE on == Onward(old)
<1> DEFINE zero == [links |-> 0, texts |-> 0]
<1> DEFINE new == [on EXCEPT !.began[Now(m)] = zero]
<1>1. /\ old \in RunState /\ old.at = "get" /\ RunNews(old) /\ Now(m) \in MediaProducts
      /\ Now(m) = MediaSkus[old.next]
    BY SkusAre DEF GetRefused, Now, RunState
<1>2. runAt' = [runAt EXCEPT ![m] = new] /\ UNCHANGED <<ottoMedia, links, texts, mixedRuns>>
    BY DEF GetRefused
<1>3. /\ on \in RunState /\ on.at \in {"get", "ended"} /\ on.began = old.began
      /\ \A s \in MediaProducts : Passed(on, s) => Passed(old, s) \/ s = Now(m)
    BY <1>1, OnwardIs
<1>4. old.began \in [MediaProducts -> Media] /\ \A s \in MediaProducts : Newer(ottoMedia[s], old.began[s])
    BY <1>1 DEF RunNews
<1>5. zero \in Media /\ zero.links = 0 /\ zero.texts = 0
    BY DEF Media
<1> HIDE DEF on, zero
<1> DEFINE began == [old.began EXCEPT ![Now(m)] = zero]
<1>6. /\ began \in [MediaProducts -> Media] /\ began[Now(m)] = zero
      /\ \A s \in MediaProducts : s # Now(m) => began[s] = old.began[s]
    BY <1>1, <1>4, <1>5
<1>7. new = [on EXCEPT !.began = began]
    BY <1>3
<1> HIDE DEF new, began
<1>8. new \in RunState /\ new.began = began
    BY <1>3, <1>6, <1>7 DEF RunState
<1>9. new.at = on.at /\ new.next = on.next
    BY <1>3, <1>7 DEF RunState
<1>10. RunNews(new)
    <2>1. \A s \in MediaProducts : Newer(ottoMedia[s], began[s])
        BY <1>4, <1>5, <1>6 DEF Newer, Media
    <2> QED
        BY <1>3, <1>6, <1>8, <1>9, <2>1 DEF RunNews
<1>11. ASSUME NEW s \in MediaProducts \ mixedRuns
       PROVE  /\ On(new, s) => Ahead(new, s)
              /\ \A p \in MediaRuns \ {m} : Behind(new, runAt[p], s) /\ Behind(runAt[p], new, s)
              /\ Brought(new, s)
    <2>1. ~On(new, s)
        BY <1>3, <1>9 DEF On
    <2>2. \A p \in MediaRuns \ {m} : Behind(new, runAt[p], s) /\ Behind(runAt[p], new, s)
        BY <2>1 DEF Behind
    <2>3. Passed(new, s) => Passed(old, s) \/ s = Now(m)
        BY <1>3, <1>9 DEF Passed
    <2>4. Brought(old, s) /\ links[s] \in Nat /\ \A row \in texts[s] : row[1] \in Nat
        BY DEF UnmixedInv
    <2>5. CASE s = Now(m)
        BY <1>5, <1>6, <1>8, <2>1, <2>2, <2>4, <2>5 DEF Brought
    <2>6. CASE s # Now(m)
        BY <1>6, <1>8, <2>1, <2>2, <2>3, <2>4, <2>6 DEF Brought
    <2> QED
        BY <2>1, <2>2, <2>5, <2>6
<1> QED
    BY <1>2, <1>8, <1>10, <1>11, RunGoesOn

LEMMA CompareProductKept ==
    ASSUME MediaInv, NEW m \in MediaRuns, CompareProduct(m)
    PROVE  MediaInv'
<1> USE DEF MediaInv, MediaShape
<1> DEFINE old == runAt[m]
<1>1. /\ old \in RunState /\ old.at = "compare" /\ RunNews(old) /\ Now(m) \in MediaProducts
      /\ Now(m) = MediaSkus[old.next] /\ UNCHANGED <<ottoMedia, links, texts>>
    BY SkusAre DEF CompareProduct, Now, RunState
<1>2. old.got \in Media /\ Newer(old.got, old.began[Now(m)])
    BY <1>1 DEF RunNews
<1>3. CASE Unchanged(m, Now(m))
    <2> DEFINE on == Onward(old)
    <2>1. runAt' = [runAt EXCEPT ![m] = on] /\ UNCHANGED mixedRuns
        BY <1>3 DEF CompareProduct
    <2>2. /\ on \in RunState /\ on.at \in {"get", "ended"} /\ on.began = old.began
          /\ \A s \in MediaProducts : Passed(on, s) => Passed(old, s) \/ s = Now(m)
        BY <1>1, OnwardIs
    <2> HIDE DEF on
    <2>3. RunNews(on)
        BY <1>1, <2>2 DEF RunNews
    <2>4. ASSUME NEW s \in MediaProducts \ mixedRuns
          PROVE  /\ On(on, s) => Ahead(on, s)
                 /\ \A p \in MediaRuns \ {m} : Behind(on, runAt[p], s) /\ Behind(runAt[p], on, s)
                 /\ Brought(on, s)
        <3>1. ~On(on, s)
            BY <2>2 DEF On
        <3>2. \A p \in MediaRuns \ {m} : Behind(on, runAt[p], s) /\ Behind(runAt[p], on, s)
            BY <3>1 DEF Behind
        <3>3. Brought(old, s)
            BY DEF UnmixedInv
        <3>4. CASE s = Now(m)
            <4>1. links[s] = old.got.links /\ \A row \in texts[s] : row[1] = old.got.texts
                BY <1>3, <3>4 DEF Unchanged
            <4> QED
                BY <1>2, <2>2, <3>1, <3>2, <3>4, <4>1 DEF Brought, Newer
        <3>5. CASE s # Now(m)
            BY <2>2, <3>1, <3>2, <3>3, <3>5 DEF Brought
        <3> QED
            BY <3>4, <3>5
    <2> QED
        BY <1>1, <2>1, <2>2, <2>3, <2>4, RunGoesOn
<1>4. CASE ~Unchanged(m, Now(m))
    <2> DEFINE new == [old EXCEPT !.at = "commit", !.doomed = OldRows(Now(m))]
    <2> DEFINE met == {Now(q) : q \in {x \in MediaRuns \ {m} :
                            runAt[x].at \in {"compare", "commit"} /\ Now(x) = Now(m)}}
    <2>1. runAt' = [runAt EXCEPT ![m] = new] /\ mixedRuns' = mixedRuns \cup met
        BY <1>4 DEF CompareProduct
    <2>2. met \subseteq {Now(m)} /\ \A p \in MediaRuns \ {m} : On(runAt[p], Now(m)) => Now(m) \in met
        BY DEF On, Now
    <2> HIDE DEF met
    <2>3. OldRows(Now(m)) = texts[Now(m)] /\ texts[Now(m)] \subseteq Nat \X (MediaRuns \cup {"upload"})
        BY <1>1 DEF OldRows
    <2>4. new \in RunState
        BY <1>1, <2>3 DEF RunState
    <2>5. new.at = "commit" /\ new.doomed = texts[Now(m)] /\ new.got = old.got
        BY <1>1, <2>3 DEF RunState
    <2>6. new.next = old.next /\ new.began = old.began
        BY <1>1 DEF RunState
    <2> HIDE DEF new
    <2>7. RunNews(new)
        BY <1>1, <2>5, <2>6 DEF RunNews
    <2>8. ASSUME NEW s \in MediaProducts \ mixedRuns'
          PROVE  /\ On(new, s) => Ahead(new, s)
                 /\ \A p \in MediaRuns \ {m} : Behind(new, runAt[p], s) /\ Behind(runAt[p], new, s)
                 /\ Brought(new, s)
        <3>1. s \notin mixedRuns /\ s \notin met /\ UnmixedInv(s)
            BY <2>1
        <3>2. On(new, s) => s = Now(m)
            BY <1>1, <2>6 DEF On
        <3>3. On(old, Now(m))
            BY <1>1 DEF On
        <3>4. On(new, s) => Ahead(new, s)
            BY <2>5, <3>1, <3>2, <3>3 DEF UnmixedInv, Ahead
        <3>5. \A p \in MediaRuns \ {m} : Behind(new, runAt[p], s) /\ Behind(runAt[p], new, s)
            BY <2>2, <3>1, <3>2 DEF Behind
        <3>6. Brought(old, s)
            BY <3>1 DEF UnmixedInv
        <3>7. Brought(new, s)
            BY <1>1, <2>5, <2>6, <3>6 DEF Brought, Passed
        <3> QED
            BY <3>4, <3>5, <3>7
    <2> QED
        BY <1>1, <2>1, <2>2, <2>4, <2>7, <2>8, RunGoesOn
<1> QED
    BY <1>3, <1>4

\* What a run replaces is not newer than what it brings, and who meets it brings
\* something that is newer still.
LEMMA CommitProductKept ==
    ASSUME MediaInv, NEW m \in MediaRuns, CommitProduct(m)
    PROVE  MediaInv'
<1> USE DEF MediaInv, MediaShape
<1> DEFINE old == runAt[m]
<1> DEFINE on == Onward(old)
<1> DEFINE s == Now(m)
<1> DEFINE brought == <<old.got.texts, m>>
<1> DEFINE rows == (texts[s] \ old.doomed) \cup {brought}
<1>1. /\ old \in RunState /\ old.at = "commit" /\ RunNews(old) /\ s \in MediaProducts
      /\ s = MediaSkus[old.next] /\ UNCHANGED <<ottoMedia, mixedRuns>>
    BY SkusAre DEF CommitProduct, Now, RunState
<1>2. old.got \in Media /\ Newer(old.got, old.began[s]) /\ Newer(ottoMedia[s], old.got)
    BY <1>1 DEF RunNews
<1>3. /\ runAt' = [runAt EXCEPT ![m] = on]
      /\ texts' = [texts EXCEPT ![s] = rows] /\ links' = [links EXCEPT ![s] = old.got.links]
    BY DEF CommitProduct
<1>4. /\ on \in RunState /\ on.at \in {"get", "ended"} /\ on.began = old.began
      /\ \A t \in MediaProducts : Passed(on, t) => Passed(old, t) \/ t = s
    BY <1>1, OnwardIs
<1> HIDE DEF on
<1>5. old.got.links \in Nat /\ old.got.texts \in Nat
    BY <1>2 DEF Media
<1>6. brought \in Nat \X (MediaRuns \cup {"upload"}) /\ brought[1] = old.got.texts
    BY <1>5
<1> HIDE DEF brought
<1>7. rows \subseteq Nat \X (MediaRuns \cup {"upload"})
    BY <1>1, <1>6
<1>8. /\ links'[s] = old.got.links /\ texts'[s] = rows
      /\ \A t \in MediaProducts \ {s} : links'[t] = links[t] /\ texts'[t] = texts[t]
      /\ runAt'[m] = on /\ \A p \in MediaRuns \ {m} : runAt'[p] = runAt[p]
    BY <1>1, <1>3
<1>9. MediaShape'
    BY <1>1, <1>3, <1>4, <1>5, <1>7
<1>10. OttoIsNewest'
    <2>1. \A row \in rows : row[1] <= ottoMedia[s].texts
        BY <1>1, <1>2, <1>6 DEF OttoIsNewest, Newer
    <2>2. old.got.links <= ottoMedia[s].links
        BY <1>2, <1>5 DEF Newer
    <2> HIDE DEF rows
    <2>3. \A t \in MediaProducts : /\ links'[t] <= ottoMedia[t].links
                                   /\ \A row \in texts'[t] : row[1] <= ottoMedia[t].texts
        BY <1>8, <2>1, <2>2 DEF OttoIsNewest
    <2> QED
        BY <1>1, <2>3 DEF OttoIsNewest
<1>11. ASSUME NEW p \in MediaRuns PROVE RunNews(runAt[p])'
    <2>1. RunNews(on)
        BY <1>1, <1>4 DEF RunNews
    <2>2. RunNews(runAt'[p])
        BY <1>8, <2>1
    <2> QED
        BY <1>1, <2>2 DEF RunNews
<1>12. ASSUME NEW t \in MediaProducts \ mixedRuns, t # s PROVE UnmixedInv(t)'
    <2>1. UnmixedInv(t) /\ links'[t] = links[t] /\ texts'[t] = texts[t]
        BY <1>8, <1>12
    <2>2. ~On(on, t)
        BY <1>4 DEF On
    <2>3. \A p \in MediaRuns : On(runAt'[p], t) => On(runAt[p], t) /\ runAt'[p] = runAt[p]
        BY <1>8, <2>2
    <2>4. \A p \in MediaRuns : On(runAt'[p], t) => Ahead(runAt[p], t)'
        BY <2>1, <2>3 DEF UnmixedInv, Ahead
    <2>5. \A p, q \in MediaRuns : p # q => Behind(runAt'[p], runAt'[q], t)
        BY <2>1, <2>3 DEF UnmixedInv, Behind
    <2>6. Brought(on, t)
        BY <1>4, <1>12, <2>1 DEF UnmixedInv, Brought
    <2>7. \A p \in MediaRuns : Brought(runAt'[p], t)
        BY <1>8, <2>1, <2>6 DEF UnmixedInv
    <2>8. \A p \in MediaRuns : Brought(runAt[p], t)'
        BY <2>1, <2>7 DEF Brought
    <2>9. \E row \in texts'[t] : texts'[t] = {row}
        BY <2>1 DEF UnmixedInv
    <2> QED
        BY <2>4, <2>5, <2>8, <2>9 DEF UnmixedInv, Behind
<1>13. ASSUME NEW t \in MediaProducts \ mixedRuns, t = s PROVE UnmixedInv(t)'
    <2>1. UnmixedInv(t) /\ On(old, t)
        BY <1>1, <1>13 DEF On
    <2>2. rows = {brought} /\ links[t] <= old.got.links /\ \A row \in texts[t] : row[1] <= old.got.texts
        BY <1>1, <1>13, <2>1 DEF UnmixedInv, Ahead
    <2> HIDE DEF rows, s, old
    <2>3. links'[t] = old.got.links /\ texts'[t] = {brought}
        BY <1>8, <1>13, <2>2
    <2>4. ~On(on, t)
        BY <1>4 DEF On
    <2>5. \A p \in MediaRuns \ {m} : On(runAt[p], t) =>
             runAt[p].at = "compare" /\ Newer(runAt[p].got, old.got)
        BY <1>1, <2>1 DEF UnmixedInv, Behind, old
    <2>6. \A p \in MediaRuns : On(runAt'[p], t) => p # m /\ On(runAt[p], t) /\ runAt'[p] = runAt[p]
        BY <1>8, <2>4
    <2>7. \A p \in MediaRuns : On(runAt'[p], t) => Ahead(runAt[p], t)'
        BY <1>6, <2>3, <2>5, <2>6 DEF Ahead, Newer
    <2>8. \A p, q \in MediaRuns : p # q => Behind(runAt'[p], runAt'[q], t)
        BY <2>5, <2>6 DEF Behind
    <2>9. ASSUME NEW p \in MediaRuns PROVE Brought(runAt[p], t)'
        <3>1. CASE p = m
            BY <1>2, <1>4, <1>6, <1>8, <1>13, <2>3, <3>1 DEF Brought, Newer
        <3>2. CASE p # m
            <4>1. runAt'[p] = runAt[p] /\ Brought(runAt[p], t) /\ RunNews(runAt[p])
                BY <1>8, <2>1, <3>2 DEF UnmixedInv
            <4>2. PICK row \in texts[t] : texts[t] = {row}
                BY <2>1 DEF UnmixedInv
            <4>3. Passed(runAt[p], t) => runAt[p].began[t].links \in Nat /\ runAt[p].began[t].texts \in Nat
                BY <1>1, <4>1 DEF RunNews, Passed, Media
            <4>4. links[t] \in Nat /\ row[1] \in Nat
                BY <1>1, <4>2
            <4>5. Passed(runAt[p], t) => /\ old.got.links >= runAt[p].began[t].links
                                         /\ old.got.texts >= runAt[p].began[t].texts
                BY <1>5, <2>2, <4>1, <4>2, <4>3, <4>4 DEF Brought
            <4> QED
                BY <1>6, <2>3, <4>1, <4>5 DEF Brought, Passed
        <3> QED
            BY <3>1, <3>2
    <2> QED
        BY <2>3, <2>7, <2>8, <2>9 DEF UnmixedInv, Behind
<1> QED
    BY <1>1, <1>9, <1>10, <1>11, <1>12, <1>13

LEMMA MediaHolds == MirrorSafety => []MediaInv
<1>1. MediaInv /\ [MirrorNext]_<<scene, mirrorVars>> => MediaInv'
    <2> SUFFICES ASSUME MediaInv, [MirrorNext]_<<scene, mirrorVars>> PROVE MediaInv'
        OBVIOUS
    <2>1. CASE UNCHANGED mediaVars
        BY <2>1, MediaUnchanged
    <2>2. ASSUME NEW m \in MediaRuns, BeginMediaRun(m) \/ MediaStep(m) PROVE MediaInv'
        BY <2>2, BeginMediaRunKept, GetProductKept, GetRefusedKept, CompareProductKept, CommitProductKept,
            MediaRaisesKept DEF MediaStep
    <2>3. ASSUME NEW s \in MediaProducts, OttoEdits(s) PROVE MediaInv'
        BY <2>3, OttoEditsKept
    <2>4. ImageSyncStep \/ ImageRunRaises => UNCHANGED mediaVars
        BY DEF ImageSyncStep, BeginImageRun, FetchChunk, ShowImages, ImageRunRaises
    <2>5. \A f \in FactoryRequests : DeleteFactories(f) \/ InsertFactories(f) => UNCHANGED mediaVars
        BY DEF DeleteFactories, InsertFactories
    <2>6. UNCHANGED <<scene, mirrorVars>> => UNCHANGED mediaVars
        BY DEF mirrorVars
    <2> QED
        BY <2>1, <2>2, <2>3, <2>4, <2>5, <2>6 DEF MirrorNext
<1> QED
    BY <1>1, MediaStarts, PTL DEF MirrorSafety

LEMMA MediaIsTrue == MediaInv => TextsAreOneAnswer /\ RunBringsNews
<1> SUFFICES ASSUME MediaInv PROVE TextsAreOneAnswer /\ RunBringsNews
    OBVIOUS
<1>1. TextsAreOneAnswer
    <2>1. ASSUME NEW s \in MediaProducts \ mixedRuns PROVE Cardinality(texts[s]) = 1
        <3>1. PICK row \in texts[s] : texts[s] = {row}
            BY DEF MediaInv, UnmixedInv
        <3> QED
            BY <3>1, FS_Singleton
    <2> QED
        BY <2>1 DEF TextsAreOneAnswer
<1>2. RunBringsNews
    BY DEF MediaInv, UnmixedInv, Brought, Passed, RunBringsNews
<1> QED
    BY <1>1, <1>2

LEMMA ImagesAreKept == MirrorSafety => OwnImagesKept
<1> DEFINE Kept == \A e \in DOMAIN shown : shown[e] # "none" => shown'[e] = shown[e]
<1>1. [MirrorNext]_<<scene, mirrorVars>> => [Kept]_mirrorVars
    <2> SUFFICES ASSUME MirrorNext PROVE Kept
        BY DEF mirrorVars
    <2>1. ShowImages => Kept
        BY DEF ShowImages, ShowsAlways, Lacks
    <2>2. ShowImages \/ UNCHANGED shown
        BY DEF MirrorNext, BeginMediaRun, MediaStep, OttoEdits, ImageSyncStep, ImageRunRaises,
            DeleteFactories, InsertFactories, GetProduct, GetRefused, CompareProduct,
            CommitProduct, MediaRaises, BeginImageRun, FetchChunk, imageVars
    <2> QED
        BY <2>1, <2>2
<1> QED
    BY <1>1, PTL DEF MirrorSafety, OwnImagesKept

-----------------------------------------------------------------------------
(* VariantImages: what the user has set or deleted.                        *)

LEMMA OverrideIsKept == VariantInv => OverrideKept
BY DEF VariantInv, LeftAlone, OverrideKept

\* No job and no click writes the flag, but the user's own deletion.
LEMMA DeletionStays ==
    ASSUME VariantShape, [VariantNext]_<<scene, variantVars>>,
           NEW id \in DOMAIN variants, variants[id].deleted
    PROVE  variants'[id].deleted
<1>1. variants \in Seq(VariantRow) /\ variants[id] \in VariantRow
    BY DEF VariantShape
<1>2. ASSUME NEW i \in DOMAIN variants, NEW row, row.deleted = variants[i].deleted \/ row.deleted,
             variants' = [variants EXCEPT ![i] = row]
      PROVE  variants'[id].deleted
    BY <1>1, <1>2
<1>3. CASE UNCHANGED variants
    BY <1>3
<1>4. ASSUME NEW c \in VariantClicks, InsertVariants(c) PROVE variants'[id].deleted
    BY <1>4, Inserted
<1>5. ASSUME NEW i \in DOMAIN variants,
             \/ \E st : variants' = [variants EXCEPT ![i].status = st]
             \/ \E st, by : variants' = [variants EXCEPT ![i].status = st, ![i].by = by]
             \/ variants' = [variants EXCEPT ![i].deleted = TRUE]
      PROVE  variants'[id].deleted
    <2>1. variants[i] \in VariantRow
        BY <1>1
    <2> QED
        BY <1>1, <1>5, <2>1 DEF VariantRow
<1>6. CASE StartImage
    <2>1. imageQueue[1] \in DOMAIN variants
        BY <1>6, EmptyQueue DEF StartImage, VariantShape, RowIds
    <2> QED
        BY <1>3, <1>5, <1>6, <2>1 DEF StartImage
<1>7. ASSUME NEW i \in 1 .. MaxVariants, ImageGenerated(i) PROVE variants'[id].deleted
    <2> DEFINE row == [variants[i] EXCEPT !.status = "ready", !.by = "model"]
    <2>1. i \in DOMAIN variants /\ variants' = [variants EXCEPT ![i] = row]
        BY <1>7 DEF ImageGenerated, OnlyDirty, VariantShape, RowIds
    <2>2. variants[i] \in VariantRow
        BY <1>1, <2>1
    <2>3. row.deleted = variants[i].deleted
        BY <2>2 DEF VariantRow
    <2> HIDE DEF row
    <2> QED
        BY <1>2, <2>1, <2>3
<1>8. ASSUME NEW i \in 1 .. MaxVariants, ImageFails(i) PROVE variants'[id].deleted
    <2>1. i \in DOMAIN variants
        BY <1>8 DEF ImageFails, VariantShape, RowIds
    <2> QED
        BY <1>5, <1>8, <2>1 DEF ImageFails
<1>9. ASSUME NEW i \in 1 .. MaxVariants, AskForImage(i) \/ OverrideImage(i) \/ DeleteVariant(i)
      PROVE  variants'[id].deleted
    BY <1>5, <1>9 DEF AskForImage, OverrideImage, DeleteVariant
<1>10. CASE UNCHANGED <<scene, variantVars>>
    BY <1>3, <1>10 DEF variantVars
<1>11. ASSUME NEW c \in VariantClicks,
              LoadVariants(c) \/ InsertRaises(c) \/ EnqueueImage(c) \/ VariantsAnswered(c)
       PROVE  variants'[id].deleted
    BY <1>3, <1>11 DEF LoadVariants, InsertRaises, EnqueueImage, VariantsAnswered
<1>12. ASSUME NEW i \in 1 .. MaxVariants, ImageJobKilled(i) PROVE variants'[id].deleted
    BY <1>3, <1>12 DEF ImageJobKilled
<1> QED
    BY <1>4, <1>6, <1>7, <1>8, <1>9, <1>10, <1>11, <1>12 DEF VariantNext, GenerateStep, ImageStep

LEMMA DeletionsStay == VariantSafety => DeletedVariantStaysDeleted
<1> DEFINE Kept == \A id \in DOMAIN variants : variants[id].deleted => variants'[id].deleted
<1>1. VariantInv /\ [VariantNext]_<<scene, variantVars>> => [Kept]_variantVars
    BY DeletionStays DEF VariantInv
<1> QED
    BY <1>1, VariantsHold, PTL DEF VariantSafety, DeletedVariantStaysDeleted

-----------------------------------------------------------------------------
(* ProductTable: the rows of a file, and what a batch of them makes of the  *)
(* products.                                                               *)

LEMMA GreatestOf ==
    ASSUME NEW n \in Nat, NEW T \in SUBSET (1 .. n), T # {}
    PROVE  \E x \in T : \A y \in T : y <= x
<1> DEFINE below == {k \in Nat : \E x \in T : k = n - x}
<1>1. below \in SUBSET Nat
    OBVIOUS
<1>2. \A x \in T : n - x \in below
    OBVIOUS
<1>3. below # {}
    BY <1>2
<1>4. PICK k \in below : \A j \in below : k <= j
    <2> HIDE DEF below
    <2> QED
        BY <1>1, <1>3, LeastOf
<1>5. PICK x \in T : k = n - x
    BY <1>4
<1>6. ASSUME NEW y \in T PROVE y <= x
    <2>1. k <= n - y
        BY <1>2, <1>4
    <2> QED
        BY <1>5, <2>1
<1> QED
    BY <1>6

LEMMA DeduplicatedIs ==
    ASSUME NEW S, NEW rows \in Seq(S)
    PROVE  Deduplicated(rows) \in Seq(S) /\ Len(Deduplicated(rows)) <= Len(rows)
<1> DEFINE I == 1 .. Len(rows)
           nameless == {i \in DOMAIN rows : Identity(rows[i]) = <<>>}
           firsts   == {i \in DOMAIN rows \ nameless :
                           \A j \in 1 .. i - 1 : Identity(rows[j]) # Identity(rows[i])}
           named    == Picked(rows, firsts)
           kept     == [n \in DOMAIN named |-> rows[LastLike(rows, named[n])]]
           others   == Picked(rows, nameless)
<1>1. Len(rows) \in Nat /\ DOMAIN rows = I /\ \A i \in I : rows[i] \in S
    BY LenProperties
<1>2. firsts \in SUBSET I /\ nameless \in SUBSET I /\ firsts \cap nameless = {}
    BY <1>1
<1>3. IsFiniteSet(I) /\ Cardinality(I) = Len(rows)
    BY <1>1, OneTo
<1>4. Deduplicated(rows) = kept \o others
    BY DEF Deduplicated
<1>5. /\ IsFiniteSet(firsts) /\ Cardinality(firsts) \in Nat
      /\ IsFiniteSet(nameless) /\ Cardinality(nameless) \in Nat
    <2> HIDE DEF firsts, nameless, I
    <2> QED
        BY <1>2, <1>3, FS_Subset, FS_CardinalityType
<1>6. Cardinality(firsts) + Cardinality(nameless) <= Len(rows)
    <2> HIDE DEF firsts, nameless, I
    <2>1. IsFiniteSet(firsts \cup nameless)
        BY <1>5, FS_Union
    <2>2. Cardinality(firsts \cup nameless)
            = Cardinality(firsts) + Cardinality(nameless) - Cardinality(firsts \cap nameless)
        BY <1>5, FS_Union
    <2>3. Cardinality(firsts \cap nameless) = 0
        BY <1>2, FS_EmptySet
    <2>4. firsts \cup nameless \subseteq I
        BY <1>2
    <2>5. Cardinality(firsts \cup nameless) <= Cardinality(I)
        BY <1>3, <2>4, FS_Subset
    <2> QED
        BY <1>3, <1>5, <2>2, <2>3, <2>5
<1>7. /\ DOMAIN named = 1 .. Cardinality(firsts)
      /\ \A n \in 1 .. Cardinality(firsts) : \E f \in I : named[n] = rows[f]
      /\ others \in Seq(S) /\ Len(others) = Cardinality(nameless)
    <2> HIDE DEF firsts, nameless
    <2>1. firsts \in SUBSET DOMAIN rows /\ nameless \in SUBSET DOMAIN rows
        BY <1>1, <1>2
    <2> QED
        BY <1>1, <1>2, <2>1, PickedIs
<1>8. ASSUME NEW f \in I PROVE LastLike(rows, rows[f]) \in I
    <2> DEFINE T == {i \in I : Identity(rows[i]) = Identity(rows[f])}
    <2>1. T \in SUBSET (1 .. Len(rows)) /\ T # {}
        OBVIOUS
    <2>2. PICK x \in T : \A y \in T : y <= x
        <3> HIDE DEF T
        <3> QED
            BY <1>1, <2>1, GreatestOf
    <2>3. \A j \in x + 1 .. Len(rows) : j \in I /\ ~(j <= x)
        BY <1>1, <2>1, <2>2
    <2>4. \A j \in x + 1 .. Len(rows) : Identity(rows[j]) # Identity(rows[f])
        BY <2>2, <2>3
    <2>5. x \in DOMAIN rows /\ Identity(rows[x]) = Identity(rows[f])
        BY <1>1, <2>2
    <2> QED
        BY <1>1, <2>4, <2>5 DEF LastLike
<1>9. kept \in [1 .. Cardinality(firsts) -> S]
    <2> HIDE DEF firsts, named, I
    <2>1. ASSUME NEW n \in 1 .. Cardinality(firsts) PROVE rows[LastLike(rows, named[n])] \in S
        BY <1>1, <1>7, <1>8
    <2> QED
        BY <1>7, <2>1
<1>10. kept \in Seq(S) /\ Len(kept) = Cardinality(firsts)
    <2> HIDE DEF kept, firsts
    <2> QED
        BY <1>5, <1>9, SequenceOf
<1> HIDE DEF kept, others, firsts, nameless
<1>11. kept \o others \in Seq(S) /\ Len(kept \o others) = Len(kept) + Len(others)
    BY <1>7, <1>10, ConcatProperties
<1> QED
    BY <1>4, <1>6, <1>7, <1>10, <1>11

-----------------------------------------------------------------------------
UploadRows == UNION {Range(rows) : rows \in Stored \cup Files}
RowKeys == {<<Keys[k], row[Keys[k]]>> : k \in 1 .. 3, row \in UploadRows}

\* A key is that of a product.
IsKeyOf(key, product) ==
    \E k \in 1 .. 3 : product[Keys[k]] # None /\ key = <<Keys[k], product[Keys[k]]>>

LEMMA IndexedIs ==
    ASSUME NEW products \in Seq(UploadRows), NEW batch \in Seq(UploadRows)
    PROVE  /\ DOMAIN Indexed(products, batch) \in SUBSET RowKeys
           /\ Indexed(products, batch) \in [DOMAIN Indexed(products, batch) -> Nat]
           /\ \A key \in DOMAIN Indexed(products, batch) :
                 /\ Indexed(products, batch)[key] \in DOMAIN products
                 /\ IsKeyOf(key, products[Indexed(products, batch)[key]])
<1> DEFINE known == {p \in DOMAIN products : \E k \in 1 .. 3, row \in Range(batch) :
                        row[Keys[k]] # None /\ products[p][Keys[k]] = row[Keys[k]]}
           D == {<<Keys[k], products[p][Keys[k]]>> : k \in 1 .. 3, p \in known}
                    \ {<<Keys[k], None>> : k \in 1 .. 3}
           T(key) == {q \in known : products[q][key[1]] = key[2]}
           IsLast(key, p) == /\ products[p][key[1]] = key[2]
                             /\ \A q \in known : products[q][key[1]] = key[2] => q <= p
           last(key) == CHOOSE p \in known : IsLast(key, p)
           index == [key \in D |-> last(key)]
<1>1. Len(products) \in Nat /\ DOMAIN products = 1 .. Len(products) /\ \A p \in DOMAIN products : products[p] \in UploadRows
    BY LenProperties
<1>2. Indexed(products, batch) = index
    BY DEF Indexed
<1>3. known \in SUBSET (1 .. Len(products))
    BY <1>1
<1>4. ASSUME NEW key \in D
      PROVE  /\ key \in RowKeys /\ last(key) \in DOMAIN products /\ IsKeyOf(key, products[last(key)])
    <2>1. PICK k \in 1 .. 3, p \in known : key = <<Keys[k], products[p][Keys[k]]>>
        OBVIOUS
    <2>2. key \notin {<<Keys[j], None>> : j \in 1 .. 3}
        OBVIOUS
    <2> DEFINE c == Keys[k]
               value == products[p][c]
    <2>3. key = <<c, value>> /\ value # None /\ key[1] = c /\ key[2] = value
        BY <2>1, <2>2
    <2>4. p \in T(key) /\ T(key) \in SUBSET (1 .. Len(products))
        BY <1>3, <2>3
    <2>5. PICK g \in T(key) : \A q \in T(key) : q <= g
        <3> DEFINE those == T(key)
        <3>1. those \in SUBSET (1 .. Len(products)) /\ those # {}
            BY <2>4
        <3> HIDE DEF those, T, known, D
        <3>2. \E g \in those : \A q \in those : q <= g
            BY <1>1, <3>1, GreatestOf
        <3> QED
            BY <3>2 DEF those
    <2>6. g \in known /\ IsLast(key, g)
        BY <2>5
    <2>7. last(key) \in known /\ IsLast(key, last(key))
        <3> HIDE DEF known, IsLast
        <3> QED
            BY <2>6
    <2>8. products[last(key)][c] = value
        <3> HIDE DEF last
        <3> QED
            BY <2>3, <2>7
    <2>9. p \in DOMAIN products /\ last(key) \in DOMAIN products
        <3> HIDE DEF last
        <3> QED
            BY <2>1, <2>7
    <2>10. key \in RowKeys
        BY <1>1, <2>1, <2>9 DEF RowKeys
    <2>11. IsKeyOf(key, products[last(key)])
        <3> DEFINE product == products[last(key)]
        <3>1. product[Keys[k]] # None /\ key = <<Keys[k], product[Keys[k]]>>
            <4> HIDE DEF last
            <4> QED
                BY <2>3, <2>8
        <3> HIDE DEF product
        <3>2. IsKeyOf(key, product)
            BY <3>1 DEF IsKeyOf
        <3> QED
            BY <3>2 DEF product
    <2> HIDE DEF last
    <2> QED
        BY <2>9, <2>10, <2>11
<1> HIDE DEF D, last, known
<1>5. DOMAIN index = D /\ \A key \in D : index[key] = last(key)
    OBVIOUS
<1>6. index \in [D -> Nat]
    BY <1>1, <1>4
<1> HIDE DEF index
<1> QED
    BY <1>2, <1>4, <1>5, <1>6

UpsertStates == [products : Seq(UploadRows), index : UNION {[keys -> Nat] : keys \in SUBSET RowKeys}]

\* A row of the first n of the batch has a key of the product.
SharesKey(product, batch, n) ==
    \E m \in 1 .. n, k \in 1 .. 3 :
        product[Keys[k]] # None /\ batch[m][Keys[k]] = product[Keys[k]]

\* After n rows: a product is as it was, or a row has a key of its own; the index leads to
\* products, to those that were there by a key or because of such a row; and each row
\* is there, or a later one in its place.
UpsertedTo(products, batch, st, n) ==
    /\ st \in UpsertStates /\ Len(products) <= Len(st.products)
    /\ \A p \in DOMAIN products :
          st.products[p] = products[p] \/ SharesKey(products[p], batch, n)
    /\ \A key \in DOMAIN st.index :
          /\ st.index[key] \in DOMAIN st.products
          /\ st.index[key] \in DOMAIN products =>
                 \/ IsKeyOf(key, products[st.index[key]])
                 \/ SharesKey(products[st.index[key]], batch, n)
    /\ \A m \in 1 .. n : \E p \in DOMAIN st.products, l \in m .. n : st.products[p] = batch[l]

LEMMA UpsertStateIs ==
    ASSUME NEW st \in UpsertStates
    PROVE  /\ st.products \in Seq(UploadRows) /\ Len(st.products) \in Nat
           /\ DOMAIN st.products = 1 .. Len(st.products)
           /\ DOMAIN st.index \in SUBSET RowKeys /\ st.index \in [DOMAIN st.index -> Nat]
<1>1. st.products \in Seq(UploadRows) /\ \E keys \in SUBSET RowKeys : st.index \in [keys -> Nat]
    BY DEF UpsertStates
<1> QED
    BY <1>1, LenProperties

\* The product a row is written over, or the place of the next.
IsMatch(p, products, index, row) ==
    \/ p = Len(products) + 1
    \/ \E k \in 1 .. 3 : /\ <<Keys[k], row[Keys[k]]>> \in DOMAIN index
                         /\ p = index[<<Keys[k], row[Keys[k]]>>]

LEMMA MatchedIs ==
    ASSUME NEW products, NEW index, NEW row
    PROVE  IsMatch(Matched(products, index, row), products, index, row)
<1> DEFINE found == {k \in 1 .. 3 : <<Keys[k], row[Keys[k]]>> \in DOMAIN index}
           first == CHOOSE k \in found : \A l \in found : k <= l
<1>1. CASE found = {}
    <2>1. Matched(products, index, row) = Len(products) + 1
        BY <1>1 DEF Matched
    <2> QED
        BY <2>1 DEF IsMatch
<1>2. CASE found # {}
    <2>1. Matched(products, index, row) = index[<<Keys[first], row[Keys[first]]>>]
        BY <1>2 DEF Matched
    <2>2. found \in SUBSET Nat
        OBVIOUS
    <2>3. \E k \in found : \A l \in found : k <= l
        <3> HIDE DEF found
        <3> QED
            BY <1>2, <2>2, LeastOf
    <2>4. first \in found
        <3> HIDE DEF found
        <3> QED
            BY <2>3
    <2>5. first \in 1 .. 3 /\ <<Keys[first], row[Keys[first]]>> \in DOMAIN index
        <3> HIDE DEF first
        <3> QED
            BY <2>4
    <2> HIDE DEF first
    <2> QED
        BY <2>1, <2>5 DEF IsMatch
<1> QED
    BY <1>1, <1>2

\* What one row makes of a state, whichever it is.
LEMMA UpsertRowIs ==
    ASSUME NEW st \in UpsertStates, NEW row \in UploadRows
    PROVE  LET p    == Matched(st.products, st.index, row)
               next == UpsertRow(st, row)
           IN  /\ next \in UpsertStates
               /\ p \in DOMAIN st.products => next.products = [st.products EXCEPT ![p] = row]
               /\ p \notin DOMAIN st.products => next.products = Append(st.products, row)
               /\ \A key \in DOMAIN next.index :
                     \/ next.index[key] = p /\ IsKeyOf(key, row)
                     \/ key \in DOMAIN st.index /\ next.index[key] = st.index[key]
<1> DEFINE p == Matched(st.products, st.index, row)
           next == UpsertRow(st, row)
           keys == {<<Keys[k], row[Keys[k]]>> : k \in 1 .. 3} \ {<<Keys[k], None>> : k \in 1 .. 3}
           products == IF p \in DOMAIN st.products THEN [st.products EXCEPT ![p] = row]
                       ELSE Append(st.products, row)
           index == [key \in keys \cup DOMAIN st.index |-> IF key \in keys THEN p ELSE st.index[key]]
<1>1. /\ st.products \in Seq(UploadRows) /\ Len(st.products) \in Nat
      /\ DOMAIN st.products = 1 .. Len(st.products)
      /\ DOMAIN st.index \in SUBSET RowKeys /\ st.index \in [DOMAIN st.index -> Nat]
    BY UpsertStateIs
<1>2. next = [products |-> products, index |-> index]
    BY DEF UpsertRow
<1>3. p \in Nat
    <2>1. IsMatch(p, st.products, st.index, row)
        BY MatchedIs
    <2> HIDE DEF p
    <2> QED
        BY <1>1, <2>1 DEF IsMatch
<1>4. products \in Seq(UploadRows)
    <2>1. ASSUME p \in DOMAIN st.products PROVE [st.products EXCEPT ![p] = row] \in Seq(UploadRows)
        <3> HIDE DEF p
        <3> QED
            BY <1>1, <2>1, ExceptSeq
    <2>2. Append(st.products, row) \in Seq(UploadRows)
        BY <1>1, AppendProperties
    <2> HIDE DEF p
    <2> QED
        BY <2>1, <2>2
<1>5. keys \in SUBSET RowKeys
    BY DEF RowKeys
<1>6. \A key \in keys : IsKeyOf(key, row)
    <2> TAKE key \in keys
    <2>1. PICK k \in 1 .. 3 : key = <<Keys[k], row[Keys[k]]>>
        OBVIOUS
    <2>2. key # <<Keys[k], None>>
        OBVIOUS
    <2>3. row[Keys[k]] # None
        BY <2>1, <2>2
    <2> QED
        BY <2>1, <2>3 DEF IsKeyOf
<1> HIDE DEF p, keys
<1>7. index \in [keys \cup DOMAIN st.index -> Nat] /\ keys \cup DOMAIN st.index \in SUBSET RowKeys
    BY <1>1, <1>3, <1>5
<1>8. \A key \in DOMAIN index : \/ index[key] = p /\ IsKeyOf(key, row)
                                \/ key \in DOMAIN st.index /\ index[key] = st.index[key]
    BY <1>6
<1>9. index \in UNION {[some -> Nat] : some \in SUBSET RowKeys}
    <2> HIDE DEF index
    <2> QED
        BY <1>7
<1> HIDE DEF index
<1>10. next \in UpsertStates
    <2> HIDE DEF products
    <2> QED
        BY <1>2, <1>4, <1>9 DEF UpsertStates
<1>11. next.products = products /\ next.index = index
    BY <1>2
<1> HIDE DEF next
<1>12. /\ p \in DOMAIN st.products => next.products = [st.products EXCEPT ![p] = row]
       /\ p \notin DOMAIN st.products => next.products = Append(st.products, row)
    BY <1>11
<1>13. \A key \in DOMAIN next.index : \/ next.index[key] = p /\ IsKeyOf(key, row)
                                      \/ key \in DOMAIN st.index /\ next.index[key] = st.index[key]
    BY <1>8, <1>11
<1> QED
    BY <1>10, <1>12, <1>13 DEF p, next

LEMMA UpsertStarts ==
    ASSUME NEW products \in Seq(UploadRows), NEW batch \in Seq(UploadRows)
    PROVE  UpsertedTo(products, batch, [products |-> products, index |-> Indexed(products, batch)], 0)
<1> DEFINE index == Indexed(products, batch)
           st == [products |-> products, index |-> index]
<1>1. /\ DOMAIN index \in SUBSET RowKeys /\ index \in [DOMAIN index -> Nat]
      /\ \A key \in DOMAIN index : index[key] \in DOMAIN products /\ IsKeyOf(key, products[index[key]])
    BY IndexedIs
<1> HIDE DEF index
<1>2. st \in UpsertStates
    <2>1. index \in UNION {[keys -> Nat] : keys \in SUBSET RowKeys}
        BY <1>1
    <2> QED
        BY <2>1 DEF UpsertStates
<1>3. st.products = products /\ st.index = index
    OBVIOUS
<1>4. Len(products) \in Nat
    BY LenProperties
<1> HIDE DEF st
<1>5. UpsertedTo(products, batch, st, 0)
    BY <1>1, <1>2, <1>3, <1>4 DEF UpsertedTo
<1> QED
    BY <1>5 DEF st, index

LEMMA UpsertKeeps ==
    ASSUME NEW products \in Seq(UploadRows), NEW batch \in Seq(UploadRows),
           NEW n \in 1 .. Len(batch), NEW st, UpsertedTo(products, batch, st, n - 1)
    PROVE  UpsertedTo(products, batch, UpsertRow(st, batch[n]), n)
<1> DEFINE row == batch[n]
           p == Matched(st.products, st.index, row)
           next == UpsertRow(st, row)
           Shares(q, m) == SharesKey(products[q], batch, m)
<1>1. /\ Len(products) \in Nat /\ DOMAIN products = 1 .. Len(products)
      /\ row \in UploadRows /\ n \in Nat /\ n - 1 \in Nat
    BY LenProperties
<1>2. /\ st \in UpsertStates /\ Len(products) <= Len(st.products)
      /\ \A q \in DOMAIN products : st.products[q] = products[q] \/ Shares(q, n - 1)
      /\ \A key \in DOMAIN st.index :
            /\ st.index[key] \in DOMAIN st.products
            /\ st.index[key] \in DOMAIN products =>
                   IsKeyOf(key, products[st.index[key]]) \/ Shares(st.index[key], n - 1)
      /\ \A m \in 1 .. n - 1 : \E q \in DOMAIN st.products, l \in m .. n - 1 : st.products[q] = batch[l]
    BY DEF UpsertedTo
<1>3. /\ st.products \in Seq(UploadRows) /\ Len(st.products) \in Nat
      /\ DOMAIN st.products = 1 .. Len(st.products)
      /\ st.index \in [DOMAIN st.index -> Nat]
    BY <1>2, UpsertStateIs
<1>4. /\ next \in UpsertStates
      /\ p \in DOMAIN st.products => next.products = [st.products EXCEPT ![p] = row]
      /\ p \notin DOMAIN st.products => next.products = Append(st.products, row)
      /\ \A key \in DOMAIN next.index :
            \/ next.index[key] = p /\ IsKeyOf(key, row)
            \/ key \in DOMAIN st.index /\ next.index[key] = st.index[key]
    BY <1>1, <1>2, UpsertRowIs
<1>5. \/ p = Len(st.products) + 1
      \/ \E k \in 1 .. 3 : /\ <<Keys[k], row[Keys[k]]>> \in DOMAIN st.index
                           /\ p = st.index[<<Keys[k], row[Keys[k]]>>]
    <2>1. IsMatch(p, st.products, st.index, row)
        BY MatchedIs
    <2> HIDE DEF p
    <2> QED
        BY <2>1 DEF IsMatch
<1> HIDE DEF next, p
<1>6. \A q : Shares(q, n - 1) => Shares(q, n)
    <2>1. \A m \in 1 .. n - 1 : m \in 1 .. n
        BY <1>1
    <2> QED
        BY <2>1 DEF SharesKey
\* If the row is written over a product that was there, then because of a key.
<1>7. p \in DOMAIN products => Shares(p, n)
    <2> SUFFICES ASSUME p \in DOMAIN products PROVE Shares(p, n)
        OBVIOUS
    <2>1. p # Len(st.products) + 1
        BY <1>1, <1>2, <1>3
    <2>2. PICK k \in 1 .. 3 : /\ <<Keys[k], row[Keys[k]]>> \in DOMAIN st.index
                             /\ p = st.index[<<Keys[k], row[Keys[k]]>>]
        BY <1>5, <2>1
    <2>3. CASE Shares(p, n - 1)
        BY <1>6, <2>3
    <2>4. CASE IsKeyOf(<<Keys[k], row[Keys[k]]>>, products[p])
        <3>1. PICK l \in 1 .. 3 : /\ products[p][Keys[l]] # None
                                 /\ <<Keys[k], row[Keys[k]]>> = <<Keys[l], products[p][Keys[l]]>>
            BY <2>4 DEF IsKeyOf
        <3>2. Keys[k] = Keys[l] /\ row[Keys[k]] = products[p][Keys[l]]
            BY <3>1
        <3>3. batch[n][Keys[l]] = products[p][Keys[l]] /\ n \in 1 .. n
            BY <1>1, <3>2
        <3> QED
            BY <3>1, <3>3 DEF SharesKey
    <2> QED
        BY <1>2, <2>2, <2>3, <2>4
<1>8. /\ p \in DOMAIN next.products /\ next.products[p] = row
      /\ DOMAIN st.products \subseteq DOMAIN next.products
      /\ \A q \in DOMAIN st.products : q # p => next.products[q] = st.products[q]
      /\ Len(st.products) <= Len(next.products)
    <2>1. CASE p \in DOMAIN st.products
        <3>1. /\ next.products = [st.products EXCEPT ![p] = row]
              /\ Len([st.products EXCEPT ![p] = row]) = Len(st.products)
            BY <1>1, <1>3, <1>4, <2>1, ExceptSeq
        <3>2. DOMAIN next.products = DOMAIN st.products
            BY <3>1
        <3> QED
            BY <1>3, <2>1, <3>1, <3>2
    <2>2. CASE p \notin DOMAIN st.products
        <3>1. p = Len(st.products) + 1
            BY <1>2, <1>5, <2>2
        <3>2. /\ next.products = Append(st.products, row)
              /\ Len(next.products) = Len(st.products) + 1
              /\ next.products \in Seq(UploadRows)
              /\ next.products[Len(st.products) + 1] = row
              /\ \A q \in 1 .. Len(st.products) : next.products[q] = st.products[q]
            <4> DEFINE items == st.products
            <4>1. items \in Seq(UploadRows) /\ row \in UploadRows
                BY <1>1, <1>3
            <4> HIDE DEF items, row
            <4>2. /\ Append(items, row) \in Seq(UploadRows)
                  /\ Len(Append(items, row)) = Len(items) + 1
                  /\ Append(items, row)[Len(items) + 1] = row
                  /\ \A q \in 1 .. Len(items) : Append(items, row)[q] = items[q]
                BY <4>1, AppendProperties
            <4> QED
                BY <1>4, <2>2, <4>2 DEF items
        <3>3. DOMAIN next.products = 1 .. Len(st.products) + 1
            BY <3>2, LenProperties
        <3> QED
            BY <1>3, <3>1, <3>2, <3>3
    <2> QED
        BY <2>1, <2>2
<1>9. Len(products) <= Len(next.products)
    <2>1. Len(next.products) \in Nat
        BY <1>4, UpsertStateIs
    <2> QED
        BY <1>1, <1>2, <1>3, <1>8, <2>1
<1>10. ASSUME NEW q \in DOMAIN products PROVE next.products[q] = products[q] \/ Shares(q, n)
    <2>1. q \in DOMAIN st.products
        BY <1>1, <1>2, <1>3
    <2> QED
        BY <1>2, <1>6, <1>7, <1>8, <2>1
<1>11. ASSUME NEW key \in DOMAIN next.index
       PROVE  /\ next.index[key] \in DOMAIN next.products
              /\ next.index[key] \in DOMAIN products =>
                    IsKeyOf(key, products[next.index[key]]) \/ Shares(next.index[key], n)
    <2>1. CASE next.index[key] = p
        BY <1>7, <1>8, <2>1
    <2>2. CASE key \in DOMAIN st.index /\ next.index[key] = st.index[key]
        BY <1>2, <1>6, <1>8, <2>2
    <2> QED
        BY <1>4, <2>1, <2>2
<1>12. ASSUME NEW m \in 1 .. n
       PROVE  \E q \in DOMAIN next.products, l \in m .. n : next.products[q] = batch[l]
    <2>1. n \in m .. n
        BY <1>1
    <2>2. CASE m = n
        BY <1>8, <2>1
    <2>3. CASE m # n
        <3>1. m \in 1 .. n - 1
            BY <1>1, <2>3
        <3>2. PICK q \in DOMAIN st.products, l \in m .. n - 1 : st.products[q] = batch[l]
            BY <1>2, <3>1
        <3>3. l \in m .. n
            BY <1>1, <3>2
        <3>4. CASE q = p
            BY <1>8, <2>1
        <3>5. CASE q # p
            BY <1>8, <3>2, <3>3, <3>5
        <3> QED
            BY <3>4, <3>5
    <2> QED
        BY <2>2, <2>3
<1>13. UpsertedTo(products, batch, next, n)
    BY <1>4, <1>9, <1>10, <1>11, <1>12 DEF UpsertedTo
<1> QED
    BY <1>13 DEF next

\* What is left of a batch once all its rows are in.
LEMMA UpsertBatchIs ==
    ASSUME NEW products \in Seq(UploadRows), NEW batch \in Seq(UploadRows)
    PROVE  \E st : /\ UpsertBatch(products, batch) = st.products
                  /\ UpsertedTo(products, batch, st, Len(batch))
<1> DEFINE size == Len(batch)
           zero == [products |-> products, index |-> Indexed(products, batch)]
           Goes(g) == g = [n \in 0 .. size |-> IF n = 0 THEN zero ELSE UpsertRow(g[n - 1], batch[n])]
           after == CHOOSE g : Goes(g)
           next == [st \in UpsertStates |->
                        [n \in Nat |-> IF n \in 1 .. size THEN UpsertRow(st, batch[n]) ELSE zero]]
           T == {n \in 0 .. size : UpsertedTo(products, batch, after[n], n)}
<1>1. UpsertBatch(products, batch) = after[size].products
    BY DEF UpsertBatch
<1>2. size \in Nat /\ \A n \in 1 .. size : batch[n] \in UploadRows
    BY LenProperties
<1>3. UpsertedTo(products, batch, zero, 0)
    BY UpsertStarts
<1>4. zero \in UpsertStates
    <2> HIDE DEF zero
    <2> QED
        BY <1>3 DEF UpsertedTo
<1>5. ASSUME NEW st \in UpsertStates, NEW n \in 1 .. size PROVE UpsertRow(st, batch[n]) \in UpsertStates
    BY <1>2, UpsertRowIs
<1> HIDE DEF size, zero
<1>6. next \in [UpsertStates -> [Nat -> UpsertStates]]
    BY <1>4, <1>5
<1>7. ASSUME NEW st \in UpsertStates, NEW n \in 1 .. size PROVE next[st][n] = UpsertRow(st, batch[n])
    <2>1. n \in Nat
        BY <1>2
    <2> QED
        BY <2>1
<1> HIDE DEF next
<1>8. PICK f : IsLoop(f, UpsertStates, zero, next, size)
    BY <1>2, <1>4, <1>6, LoopRuns
<1>9. f \in [0 .. size -> UpsertStates] /\ f[0] = zero /\ \A n \in 1 .. size : f[n] = next[f[n - 1]][n]
    BY <1>8 DEF IsLoop
<1>10. \A n \in 1 .. size : n - 1 \in 0 .. size /\ n \in 0 .. size /\ n # 0
    BY <1>2
<1>11. \A n \in 1 .. size : f[n] = UpsertRow(f[n - 1], batch[n])
    BY <1>7, <1>9, <1>10
<1>12. Goes(f)
    <2> DEFINE again == [n \in 0 .. size |-> IF n = 0 THEN zero ELSE UpsertRow(f[n - 1], batch[n])]
    <2>1. \A n \in 0 .. size : n = 0 \/ n \in 1 .. size
        BY <1>2
    <2>2. \A n \in 0 .. size : f[n] = again[n]
        BY <1>9, <1>11, <2>1
    <2> QED
        BY <1>9, <2>2
<1>13. Goes(after)
    <2> HIDE DEF Goes
    <2> QED
        BY <1>12
<1> HIDE DEF after
<1>14. after[0] = zero /\ \A n \in 1 .. size : after[n] = UpsertRow(after[n - 1], batch[n])
    <2>1. \A n \in 0 .. size : after[n] = IF n = 0 THEN zero ELSE UpsertRow(after[n - 1], batch[n])
        BY <1>13
    <2>2. 0 \in 0 .. size
        BY <1>2
    <2> QED
        BY <1>10, <2>1, <2>2
<1>15. 0 \in T
    BY <1>2, <1>3, <1>14
<1>16. ASSUME NEW n \in 1 .. size, n - 1 \in T PROVE n \in T
    <2>1. UpsertedTo(products, batch, after[n - 1], n - 1)
        BY <1>16
    <2>2. UpsertedTo(products, batch, UpsertRow(after[n - 1], batch[n]), n)
        BY <2>1, UpsertKeeps DEF size
    <2> QED
        BY <1>10, <1>14, <2>2
<1>17. size \in T
    <2> HIDE DEF T
    <2>1. \A n \in 0 .. size : n \in T
        BY <1>2, <1>15, <1>16, Reaches
    <2> QED
        BY <1>2, <2>1
<1> QED
    BY <1>1, <1>17 DEF size

-----------------------------------------------------------------------------
(* ImportTasks: the upload.                                                *)

UploadShape ==
    /\ importPc \in {"uploaded", "batch", "ended"}
    /\ remote \in Seq(UploadRows) /\ page \in Seq(UploadRows) /\ table \in Seq(UploadRows)
    /\ offset \in 0 .. Len(page)
    /\ importTask \in [status : {"queued", "running", "completed", "failed"},
                       fetched : Nat, saved : Nat, skipped : Nat]

\* The progress counts what is behind the offset; batches begin at multiples of their size.
UploadCounts ==
    /\ importTask.saved = offset
    /\ importPc = "uploaded" => offset = 0
    /\ offset = Len(page) \/ \E b \in Nat : offset = b * BatchSize

UploadInv == Plays("upload") => UploadShape /\ UploadCounts /\ CountedIsStored

LEMMA UploadStarts == ImportInit => UploadInv
<1> SUFFICES ASSUME ImportInit, Plays("upload") PROVE UploadShape /\ UploadCounts /\ CountedIsStored
    BY DEF UploadInv
<1>1. ~Plays("sync")
    BY DEF Plays
<1>2. /\ importPc = "uploaded" /\ remote \in Files /\ table \in Stored
      /\ offset = 0 /\ page = <<>> /\ importTask = Row("queued", NoProgress)
    BY <1>1 DEF ImportInit
<1>3. \A rows \in Stored \cup Files : rows \in Seq(UploadRows)
    <2> TAKE rows \in Stored \cup Files
    <2>1. rows \in Seq(Range(rows)) /\ Range(rows) \subseteq UploadRows
        BY ImportsAssumption DEF UploadRows
    <2> QED
        BY <2>1
<1>4. <<>> \in Seq(UploadRows) /\ Len(<<>>) = 0
    BY EmptySeq
<1>5. importTask = [status |-> "queued", fetched |-> 0, saved |-> 0, skipped |-> 0]
    BY <1>2 DEF Row, NoProgress
<1>6. UploadShape /\ UploadCounts
    BY <1>2, <1>3, <1>4, <1>5 DEF UploadShape, UploadCounts
<1>7. CountedIsStored
    <2>1. 1 .. importTask.saved = {}
        BY <1>5
    <2> QED
        BY <2>1 DEF CountedIsStored
<1> QED
    BY <1>6, <1>7

\* A batch that is committed.
LEMMA BatchIs ==
    ASSUME UploadShape, importPc = "batch", offset < Len(page)
    PROVE  /\ Batch \in Seq(UploadRows) /\ Len(Batch) \in Nat /\ Len(Batch) <= BatchSize
           /\ offset + Len(Batch) <= Len(page)
           /\ offset + Len(Batch) = Len(page) \/ Len(Batch) = BatchSize
           /\ \A m \in 1 .. Len(Batch) : Batch[m] = page[offset + m]
<1> DEFINE n == Min({offset + BatchSize, Len(page)})
<1>1. Len(page) \in Nat /\ page \in Seq(UploadRows) /\ offset \in Nat /\ BatchSize \in Nat \ {0}
    BY ImportsAssumption, LenProperties DEF UploadShape
<1>2. n = IF offset + BatchSize <= Len(page) THEN offset + BatchSize ELSE Len(page)
    <2>1. offset + BatchSize \in Int /\ Len(page) \in Int
        BY <1>1
    <2> QED
        BY <2>1, MinOfTwo
<1>3. n \in Int /\ n <= Len(page) /\ offset <= n
    BY <1>1, <1>2
<1>4. Batch = SubSeq(page, offset + 1, n)
    BY DEF Batch
<1> HIDE DEF n
<1>5. /\ Batch \in Seq(UploadRows)
      /\ Len(Batch) = n - offset
      /\ \A k \in 1 .. Len(Batch) : Batch[k] = page[offset + k]
    BY <1>1, <1>3, <1>4, CutOut
<1> QED
    BY <1>1, <1>2, <1>3, <1>5

LEMMA Multiples ==
    ASSUME NEW b \in Nat, NEW n \in Nat \ {0}
    PROVE  b * n \in Nat /\ b <= b * n /\ (b + 1) * n = b * n + n
<1>1. b * n \in Nat /\ (b + 1) * n = b * n + n
    OBVIOUS
<1>2. PICK k \in Nat : n = k + 1
    <2>1. n - 1 \in Nat /\ n = (n - 1) + 1
        OBVIOUS
    <2> QED
        BY <2>1
<1>3. b * k \in Nat /\ b * (k + 1) = b * k + b
    OBVIOUS
<1> QED
    BY <1>1, <1>2, <1>3

\* What is counted is stored once a batch is in.
LEMMA BatchCounted ==
    ASSUME Plays("upload"), UploadShape, UploadCounts, CountedIsStored, ImportBatch
    PROVE  UploadShape' /\ UploadCounts' /\ CountedIsStored'
<1> USE DEF UploadShape
<1>1. /\ importPc = "batch" /\ offset < Len(page)
      /\ table' = UpsertBatch(table, Batch) /\ offset' = offset + Len(Batch)
      /\ importTask' = [importTask EXCEPT !.fetched = offset', !.saved = offset']
      /\ UNCHANGED <<scene, importPc, remote, page>>
    BY DEF ImportBatch, BatchCommits
<1>2. Len(page) \in Nat /\ DOMAIN page = 1 .. Len(page) /\ offset \in Nat /\ BatchSize \in Nat \ {0}
    BY ImportsAssumption, LenProperties
<1>3. /\ Batch \in Seq(UploadRows) /\ Len(Batch) \in Nat /\ Len(Batch) <= BatchSize
      /\ offset + Len(Batch) <= Len(page)
      /\ offset + Len(Batch) = Len(page) \/ Len(Batch) = BatchSize
      /\ \A m \in 1 .. Len(Batch) : Batch[m] = page[offset + m]
    BY <1>1, BatchIs
<1>4. PICK st : UpsertBatch(table, Batch) = st.products /\ UpsertedTo(table, Batch, st, Len(Batch))
    BY <1>3, UpsertBatchIs
<1>5. /\ st.products \in Seq(UploadRows) /\ DOMAIN st.products = 1 .. Len(st.products)
      /\ Len(table) <= Len(st.products) /\ Len(st.products) \in Nat
      /\ \A p \in DOMAIN table : st.products[p] = table[p] \/ SharesKey(table[p], Batch, Len(Batch))
      /\ \A m \in 1 .. Len(Batch) : \E p \in DOMAIN st.products, l \in m .. Len(Batch) :
            st.products[p] = Batch[l]
    BY <1>4, UpsertStateIs DEF UpsertedTo
<1>6. PICK b \in Nat : offset = b * BatchSize
    BY <1>1, <1>2 DEF UploadCounts
<1>7. b \in 0 .. Len(page) /\ (b + 1) * BatchSize = offset + BatchSize /\ b + 1 \in Nat
    BY <1>1, <1>2, <1>6, Multiples
<1>8. UploadShape'
    <2>3. \A o, z, l \in Nat : o + z <= l => o + z \in 0 .. l /\ o + z \in Nat
        OBVIOUS
    <2>1. offset + Len(Batch) \in 0 .. Len(page) /\ offset + Len(Batch) \in Nat
        BY <1>2, <1>3, <2>3
    <2>2. importTask' \in [status : {"queued", "running", "completed", "failed"},
                           fetched : Nat, saved : Nat, skipped : Nat]
        BY <1>1, <2>1
    <2> QED
        BY <1>1, <1>4, <1>5, <2>1, <2>2
<1>9. importTask'.saved = offset' /\ importTask.saved = offset
    BY <1>1 DEF UploadCounts
<1>10. UploadCounts'
    <2>1. offset' = Len(page) \/ offset' = (b + 1) * BatchSize
        BY <1>1, <1>2, <1>3, <1>7
    <2> QED
        BY <1>1, <1>7, <1>9, <2>1 DEF UploadCounts
<1> DEFINE size == Len(Batch)
<1>14. /\ offset \in Nat /\ size \in Nat /\ size <= BatchSize /\ BatchSize \in Nat
       /\ \A m \in 1 .. size : Batch[m] = page[offset + m]
    BY <1>2, <1>3
<1>15. \A o, z, i \in Nat : /\ \A j \in i + 1 .. o : j \in i + 1 .. o + z
                            /\ \A m \in 1 .. z : i <= o => o + m \in i + 1 .. o + z
    OBVIOUS
<1>16. \A o, z, i \in Nat : i \in 1 .. o + z /\ ~(i <= o) =>
          /\ i - o \in 1 .. z /\ o + (i - o) = i
          /\ \A l \in i - o .. z : l \in 1 .. z /\ o + l \in Nat /\ (o + l = i \/ o + l \in i + 1 .. o + z)
                                 /\ o + l <= o + z
    OBVIOUS
<1> HIDE DEF size
<1>11. ASSUME NEW i \in 1 .. offset + size
       PROVE  page[i] \in Range(table') \/ \E j \in i + 1 .. offset + size : LostTo(i, j)
    <2>1. \A p \in DOMAIN st.products : st.products[p] \in Range(table')
        BY <1>1, <1>4 DEF Range
    <2>4. i \in Nat
        BY <1>14
    <2>2. CASE i <= offset
        <3>1. i \in 1 .. importTask.saved
            BY <1>2, <1>9, <2>2
        <3>2. CASE \E j \in i + 1 .. importTask.saved : LostTo(i, j)
            <4>1. \A j \in i + 1 .. offset : j \in i + 1 .. offset + size
                BY <1>14, <1>15, <2>4
            <4> QED
                BY <1>9, <3>2, <4>1
        <3>3. CASE page[i] \in Range(table)
            <4>1. PICK p \in DOMAIN table : table[p] = page[i]
                BY <3>3 DEF Range
            <4>2. p \in DOMAIN st.products
                BY <1>5, LenProperties
            <4>3. CASE st.products[p] = table[p]
                BY <2>1, <4>1, <4>2, <4>3
            <4>4. CASE SharesKey(table[p], Batch, size)
                <5>1. PICK m \in 1 .. size, k \in 1 .. 3 :
                          page[i][Keys[k]] # None /\ Batch[m][Keys[k]] = page[i][Keys[k]]
                    BY <4>1, <4>4 DEF SharesKey
                <5>2. offset + m \in i + 1 .. offset + size
                    BY <1>14, <1>15, <2>2, <2>4
                <5>3. page[offset + m][Keys[k]] = page[i][Keys[k]]
                    BY <1>14, <5>1
                <5> QED
                    BY <5>1, <5>2, <5>3 DEF LostTo
            <4> QED
                BY <1>5, <4>3, <4>4 DEF size
        <3> QED
            BY <3>1, <3>2, <3>3 DEF CountedIsStored
    <2>3. CASE ~(i <= offset)
        <3>1. /\ i - offset \in 1 .. size /\ offset + (i - offset) = i
              /\ \A l \in i - offset .. size :
                    /\ l \in 1 .. size /\ offset + l \in Nat /\ offset + l <= offset + size
                    /\ offset + l = i \/ offset + l \in i + 1 .. offset + size
            BY <1>14, <1>16, <2>3, <2>4
        <3>2. PICK p \in DOMAIN st.products, l \in i - offset .. size : st.products[p] = Batch[l]
            BY <1>5, <3>1 DEF size
        <3>3. /\ Batch[l] = page[offset + l] /\ offset + l \in Nat /\ offset + l <= offset + size
              /\ offset + l = i \/ offset + l \in i + 1 .. offset + size
            BY <1>14, <3>1
        <3>4. page[offset + l] \in Range(table')
            BY <2>1, <3>2, <3>3
        <3>5. CASE offset + l = i
            BY <3>4, <3>5
        <3>6. CASE offset + l \in i + 1 .. offset + size
            <4>1. offset + l <= offset + BatchSize
                BY <1>14, <3>3
            <4>2. b * BatchSize < i /\ offset + l <= b * BatchSize + BatchSize
                BY <1>6, <1>14, <2>3, <2>4, <4>1
            <4>3. InOneBatch(i, offset + l)
                BY <1>7, <4>2 DEF InOneBatch
            <4> QED
                BY <3>6, <4>3 DEF LostTo
        <3> QED
            BY <3>3, <3>5, <3>6
    <2> QED
        BY <1>14, <2>2, <2>3, <2>4
<1>12. \A i, j : LostTo(i, j)' <=> LostTo(i, j)
    BY <1>1 DEF LostTo, InOneBatch
<1>13. CountedIsStored'
    BY <1>1, <1>9, <1>11, <1>12 DEF CountedIsStored, size
<1> QED
    BY <1>8, <1>10, <1>13

LEMMA UploadKept == UploadInv /\ [ImportNext]_<<scene, importVars>> => UploadInv'
<1> SUFFICES ASSUME UploadInv, [ImportNext]_<<scene, importVars>>, Plays("upload")'
             PROVE  UploadShape' /\ UploadCounts' /\ CountedIsStored'
    BY DEF UploadInv
<1>1. UNCHANGED scene /\ Plays("upload") /\ UploadShape /\ UploadCounts /\ CountedIsStored
    BY SceneIsKept DEF UploadInv, Plays
<1> USE DEF UploadShape
<1>2. ASSUME UNCHANGED <<importPc, remote, page, offset, table>>,
             importTask' \in [status : {"queued", "running", "completed", "failed"},
                              fetched : Nat, saved : Nat, skipped : Nat],
             importTask'.saved = importTask.saved
      PROVE  UploadShape' /\ UploadCounts' /\ CountedIsStored'
    BY <1>1, <1>2 DEF UploadCounts, CountedIsStored, LostTo, InOneBatch, Plays
<1>3. CASE ReadFile
    <2>1. /\ page' = Deduplicated(remote) /\ importPc = "uploaded" /\ importPc' = "batch"
          /\ importTask' = [importTask EXCEPT !.status = "running", !.skipped = Len(remote) - Len(page')]
          /\ UNCHANGED <<remote, offset, table>>
        BY <1>3 DEF ReadFile
    <2>2. page' \in Seq(UploadRows) /\ Len(page') <= Len(remote) /\ Len(page') \in Nat /\ Len(remote) \in Nat
        BY <1>1, <2>1, DeduplicatedIs, LenProperties
    <2>3. offset = 0 /\ importTask.saved = 0
        BY <1>1, <2>1 DEF UploadCounts
    <2>8. Len(remote) - Len(page') \in Nat
        BY <2>2
    <2>9. /\ importTask' \in [status : {"queued", "running", "completed", "failed"},
                              fetched : Nat, saved : Nat, skipped : Nat]
          /\ importTask'.saved = importTask.saved
        <3> DEFINE skips == Len(remote) - Len(page')
        <3>1. skips \in Nat /\ importTask' = [importTask EXCEPT !.status = "running", !.skipped = skips]
            BY <2>1, <2>8
        <3> HIDE DEF skips
        <3> QED
            BY <1>1, <3>1
    <2>4. UploadShape' /\ importTask'.saved = 0
        BY <1>1, <2>1, <2>2, <2>3, <2>9
    <2>5. offset' = 0 * BatchSize
        BY <2>1, <2>3, ImportsAssumption
    <2>6. UploadCounts'
        BY <2>1, <2>3, <2>4, <2>5 DEF UploadCounts
    <2>7. CountedIsStored'
        BY <2>4 DEF CountedIsStored
    <2> QED
        BY <2>4, <2>6, <2>7
<1>4. CASE ImportBatch
    BY <1>1, <1>4, BatchCounted
<1>5. CASE CompleteImport
    <2>1. importPc' = "ended" /\ importTask' = [importTask EXCEPT !.status = "completed", !.fetched = Len(remote),
                                                                !.saved = offset]
          /\ UNCHANGED <<remote, page, offset, table>>
        BY <1>5 DEF CompleteImport
    <2>2. Len(remote) \in Nat /\ importTask.saved = offset
        BY <1>1, LenProperties DEF UploadCounts
    <2>3. UploadShape' /\ importTask'.saved = importTask.saved
        BY <1>1, <2>1, <2>2
    <2> QED
        BY <1>1, <2>1, <2>2, <2>3 DEF UploadCounts, CountedIsStored, LostTo, InOneBatch, Plays
<1>6. CASE ImportRaises \/ KillImport
    <2>1. importPc' = "ended" /\ (importTask' = FailedRow(importTask) \/ UNCHANGED importTask)
          /\ UNCHANGED <<remote, page, offset, table>>
        BY <1>6 DEF ImportRaises, KillImport
    <2>2. UploadShape' /\ importTask'.saved = importTask.saved
        BY <1>1, <2>1 DEF FailedRow
    <2> QED
        BY <1>1, <2>1, <2>2 DEF UploadCounts, CountedIsStored, LostTo, InOneBatch, Plays
<1>7. CASE UNCHANGED <<scene, importVars>>
    BY <1>1, <1>2, <1>7 DEF importVars
<1>8. CASE SyncStep \/ CatalogueGrows \/ CatalogueShrinks
    BY <1>1, <1>8 DEF SyncStep, StartSync, FetchPage, SavePage, SaveProgress, CompleteSync, CatalogueGrows,
        CatalogueShrinks
<1> QED
    BY <1>3, <1>4, <1>5, <1>6, <1>7, <1>8 DEF ImportNext, UploadStep

LEMMA UploadHolds == ImportSafety => []UploadInv
BY UploadStarts, UploadKept, PTL DEF ImportSafety

LEMMA UploadIsTrue == UploadInv => CountedIsStored
BY DEF UploadInv, CountedIsStored

-----------------------------------------------------------------------------
(* The bounds of the counters: what is left for the types.                 *)

\* What a document counts has been counted, until the verdict counts every item.
DocumentBound(d) ==
    /\ availPc # "ended" => d.done <= Cardinality(counted)
    /\ d.done <= 2 * Cardinality(Skus) /\ d.failed <= 2 * Cardinality(Skus)

Busy == {w \in AvailWorkers : worker[w].at \in AtWork}

BoundInv ==
    /\ DocumentBound(availDoc) /\ \A who \in DOMAIN availCopy : DocumentBound(availCopy[who])
    /\ unfinished \in 0 .. Cardinality(Skus) + Cardinality(AvailWorkers)
    /\ availPc = "join" => unfinished = Len(availQueue) + Cardinality(Busy)

\* Two entries at most for each item.
LEMMA TwoPerItem ==
    ASSUME NEW a, NEW b, a # b, NEW T \in SUBSET (Skus \X {a, b})
    PROVE  IsFiniteSet(T) /\ Cardinality(T) \in Nat /\ Cardinality(T) <= 2 * Cardinality(Skus)
<1>1. IsFiniteSet({a}) /\ Cardinality({a}) = 1
    BY FS_Singleton
<1>2. {a, b} = {a} \cup {b} /\ b \notin {a}
    OBVIOUS
<1>3. IsFiniteSet({a} \cup {b}) /\ Cardinality({a} \cup {b}) = Cardinality({a}) + 1
    BY <1>1, <1>2, FS_AddElement
<1>4. IsFiniteSet(Skus \X {a, b}) /\ Cardinality(Skus \X {a, b}) = Cardinality(Skus) * 2
    BY <1>1, <1>2, <1>3, SizesAre, FS_Product
<1>5. IsFiniteSet(T) /\ Cardinality(T) <= Cardinality(Skus \X {a, b})
    BY <1>4, FS_Subset
<1>6. Cardinality(T) \in Nat
    BY <1>5, FS_CardinalityType
<1>7. \A n \in Nat : n * 2 = 2 * n
    OBVIOUS
<1> QED
    BY <1>4, <1>5, <1>6, <1>7, SizesAre

LEMMA FewAreCounted ==
    ASSUME AvailShape
    PROVE  /\ IsFiniteSet(availErrors) /\ Cardinality(availErrors) \in 0 .. 2 * Cardinality(Skus)
           /\ IsFiniteSet(counted) /\ Cardinality(counted) \in 0 .. 2 * Cardinality(Skus)
<1>1. /\ IsFiniteSet(availErrors) /\ Cardinality(availErrors) \in Nat
      /\ Cardinality(availErrors) <= 2 * Cardinality(Skus)
    BY TwoPerItem DEF AvailShape
<1>2. /\ IsFiniteSet(counted) /\ Cardinality(counted) \in Nat
      /\ Cardinality(counted) <= 2 * Cardinality(Skus)
    BY TwoPerItem DEF AvailShape
<1> QED
    BY <1>1, <1>2, SizesAre

LEMMA BoundsStart == AvailInit => BoundInv
<1> SUFFICES ASSUME AvailInit PROVE BoundInv
    OBVIOUS
<1>1. availDoc = QueuedForStock /\ availPc = "start" /\ unfinished = 0
      /\ availCopy = [who \in AvailWorkers \cup {"task", "user"} |-> NoDoc] /\ counted = {}
    BY DEF AvailInit
<1>2. Cardinality({}) = 0
    BY FS_EmptySet
<1>3. NoDoc.done = 0 /\ NoDoc.failed = 0 /\ QueuedForStock.done = 0 /\ QueuedForStock.failed = 0
    BY DEF NoDoc, QueuedForStock
<1>4. DocumentBound(NoDoc) /\ DocumentBound(QueuedForStock)
    BY <1>1, <1>2, <1>3, SizesAre DEF DocumentBound
<1> QED
    BY <1>1, <1>4, SizesAre DEF BoundInv

\* A count that is saved is new.
LEMMA SavedCountIsNew ==
    ASSUME AvailInv, BoundInv, NEW w \in AvailWorkers, worker[w].at \in Counts,
           availDoc' = [availCopy[w] EXCEPT !.done = @ + 1],
           counted' = counted \cup {Counting(w)}, AvailShape', UNCHANGED <<availPc, availCopy>>
    PROVE  DocumentBound(availDoc)' /\ \A who \in DOMAIN availCopy' : DocumentBound(availCopy[who])'
<1> USE DEF AvailInv
<1>1. availPc = "join" /\ worker[w].at \in AtWork
    BY DEF PlaceInv, AtWork, Counts
<1>2. Counting(w) \notin counted
    BY <1>1 DEF Counting, NotCounted, AtWork, Counts
<1>3. Cardinality(counted') = Cardinality(counted) + 1 /\ Cardinality(counted) \in Nat
    BY <1>2, FewAreCounted, FS_AddElement, FS_CardinalityType
<1>4. Cardinality(counted') <= 2 * Cardinality(Skus)
    <2>1. counted' \in SUBSET (Skus \X {"worker", "handler"})
        BY DEF AvailShape
    <2>2. Cardinality(counted') <= 2 * Cardinality(Skus)
        BY <2>1, TwoPerItem
    <2> QED
        BY <2>2
<1>5. w \in DOMAIN availCopy /\ availCopy[w] \in AvailDocument
    BY DEF AvailShape
<1>6. DocumentBound(availCopy[w]) /\ availCopy[w].done \in Nat
    BY <1>5 DEF BoundInv, AvailDocument
<1>7. availDoc'.done = availCopy[w].done + 1 /\ availDoc'.failed = availCopy[w].failed
    BY <1>5 DEF AvailDocument
<1>8. \A who \in DOMAIN availCopy : availCopy[who].done \in Nat /\ DocumentBound(availCopy[who])
    BY DEF AvailShape, AvailDocument, BoundInv
<1>9. DocumentBound(availDoc)'
    BY <1>1, <1>3, <1>4, <1>6, <1>7, SizesAre DEF DocumentBound
<1>10. ASSUME NEW who \in DOMAIN availCopy' PROVE DocumentBound(availCopy[who])'
    <2>1. availCopy[who].done \in Nat /\ DocumentBound(availCopy[who])
        BY <1>8
    <2> QED
        BY <1>1, <1>3, <2>1, SizesAre DEF DocumentBound
<1> QED
    BY <1>9, <1>10

\* The documents of the other steps.
LEMMA DocumentsKept ==
    ASSUME AvailInv, BoundInv, AvailNext
    PROVE  DocumentBound(availDoc)' /\ \A who \in DOMAIN availCopy' : DocumentBound(availCopy[who])'
<1> USE DEF AvailInv
<1>1. /\ availCopy \in [AvailWorkers \cup {"task", "user"} -> AvailDocument] /\ availDoc \in AvailDocument
      /\ "task" \notin AvailWorkers /\ "user" \notin AvailWorkers
      /\ availCopy' \in [AvailWorkers \cup {"task", "user"} -> AvailDocument] /\ availDoc' \in AvailDocument
    BY AvailabilityAssumption, AvailShapeKept DEF AvailShape
<1>2. DocumentBound(availDoc) /\ \A who \in AvailWorkers \cup {"task", "user"} : DocumentBound(availCopy[who])
    BY <1>1 DEF BoundInv
<1>3. \A d : DocumentBound(d) /\ UNCHANGED counted /\ (availPc = "ended" => availPc' = "ended") => DocumentBound(d)'
    BY DEF DocumentBound
<1>4. NoDoc.done = 0 /\ NoDoc.failed = 0 /\ DocumentBound(NoDoc)
    BY FewAreCounted, SizesAre DEF NoDoc, DocumentBound
<1>5. CASE StartAvailability
    <2> DEFINE d == IF availDoc = NoDoc THEN [NoDoc EXCEPT !.state = "none"] ELSE availDoc
    <2>1. DocumentBound(d)
        BY <1>2, <1>4 DEF DocumentBound, NoDoc
    <2>2. UNCHANGED <<counted, availDoc>> /\ availPc # "ended" /\ availCopy' = [availCopy EXCEPT !["task"] = d]
        BY <1>5 DEF StartAvailability
    <2> HIDE DEF d
    <2> QED
        BY <1>1, <1>2, <1>3, <2>1, <2>2
<1>6. CASE StartProgress
    <2> DEFINE d == [availCopy["task"] EXCEPT !.state = "IN_PROGRESS", !.done = 0]
    <2>1. DocumentBound(d)
        BY <1>1, <1>2, FewAreCounted, SizesAre DEF DocumentBound, AvailDocument
    <2>2. UNCHANGED counted /\ availPc # "ended" /\ availDoc' = d /\ availCopy' = [availCopy EXCEPT !["task"] = d]
        BY <1>6 DEF StartProgress
    <2> HIDE DEF d
    <2> QED
        BY <1>1, <1>2, <1>3, <2>1, <2>2
<1>7. CASE Joined
    <2>1. UNCHANGED <<counted, availDoc>> /\ availPc # "ended"
          /\ availCopy' = [availCopy EXCEPT !["task"] = OrTask(availDoc)] /\ DocumentBound(OrTask(availDoc))
        BY <1>2, <1>7 DEF Joined, OrTask
    <2> QED
        BY <1>1, <1>2, <1>3, <2>1
<1>8. CASE FinishAvailability
    <2>1. availDoc'.done = Cardinality(Skus) /\ availDoc'.failed = Cardinality(availErrors)
          /\ availPc' = "ended" /\ UNCHANGED <<counted, availCopy>> /\ availPc # "ended"
        BY <1>1, <1>8 DEF FinishAvailability, AvailFailed, AvailDocument
    <2>2. DocumentBound(availDoc)'
        BY <2>1, FewAreCounted, SizesAre DEF DocumentBound
    <2> QED
        BY <1>1, <1>2, <1>3, <2>1, <2>2
<1>9. CASE KillAvailability
    BY <1>1, <1>2, <1>3, <1>9 DEF KillAvailability
<1>10. ASSUME NEW w \in AvailWorkers, TakeItem(w) \/ SendQuantity(w) \/ SendDelivery(w)
       PROVE  UNCHANGED <<availDoc, availCopy, availPc, counted>>
    BY <1>10 DEF TakeItem, SendQuantity, SendDelivery
<1>11. ASSUME NEW w \in AvailWorkers, ReadCount(w)
       PROVE  DocumentBound(availDoc)' /\ \A who \in DOMAIN availCopy' : DocumentBound(availCopy[who])'
    <2>1. UNCHANGED <<counted, availDoc, availPc>>
          /\ availCopy' = [availCopy EXCEPT ![w] = OrTask(availDoc)] /\ DocumentBound(OrTask(availDoc))
        BY <1>2, <1>11 DEF ReadCount, OrTask
    <2> QED
        BY <1>1, <1>2, <1>3, <2>1
<1>12. ASSUME NEW w \in AvailWorkers, SaveCount(w) \/ CountRaises(w)
       PROVE  DocumentBound(availDoc)' /\ \A who \in DOMAIN availCopy' : DocumentBound(availCopy[who])'
    <2>1. worker[w].at \in Counts /\ UNCHANGED <<availPc, availCopy>>
          /\ \/ UNCHANGED <<availDoc, counted>>
             \/ availDoc' = [availCopy[w] EXCEPT !.done = @ + 1] /\ counted' = counted \cup {Counting(w)}
        BY <1>12 DEF SaveCount, CountRaises, Counts
    <2> QED
        BY <1>1, <1>2, <1>3, <2>1, SavedCountIsNew, AvailShapeKept
<1>13. CASE OpenDraft
    BY <1>1, <1>2, <1>3, <1>13 DEF OpenDraft
<1>14. CASE SaveEdit
    <2>1. DocumentBound([availCopy["user"] EXCEPT !.edited = TRUE])
        BY <1>1, <1>2 DEF DocumentBound, AvailDocument
    <2>2. UNCHANGED <<counted, availPc>> /\ availDoc' = [availCopy["user"] EXCEPT !.edited = TRUE]
          /\ availCopy' = [availCopy EXCEPT !["user"] = NoDoc]
        BY <1>14 DEF SaveEdit
    <2> QED
        BY <1>1, <1>2, <1>3, <1>4, <2>1, <2>2
<1>15. CASE DeleteTask
    BY <1>1, <1>2, <1>3, <1>4, <1>15 DEF DeleteTask
<1>16. UNCHANGED <<availDoc, availCopy, availPc, counted>>
       => DocumentBound(availDoc)' /\ \A who \in DOMAIN availCopy' : DocumentBound(availCopy[who])'
    BY <1>1, <1>2, <1>3
<1> QED
    BY <1>5, <1>6, <1>7, <1>8, <1>9, <1>10, <1>11, <1>12, <1>13, <1>14, <1>15, <1>16
        DEF AvailNext, AvailJobStep, WorkerStep

LEMMA BusyIsFinite == IsFiniteSet(Busy) /\ Cardinality(Busy) \in Nat
BY AvailabilityAssumption, FS_Subset, FS_CardinalityType DEF Busy

\* The other items that join waits for: each is in the queue or at one worker.
LEMMA UnfinishedKept ==
    ASSUME AvailInv, BoundInv, AvailNext
    PROVE  /\ unfinished' \in 0 .. Cardinality(Skus) + Cardinality(AvailWorkers)
           /\ availPc' = "join" => unfinished' = Len(availQueue') + Cardinality(Busy')
<1> USE DEF AvailInv, BoundInv
<1>1. /\ worker \in [AvailWorkers -> [at : Places, item : Skus \cup {Sentinel}]]
      /\ availQueue \in Seq(Skus \cup {Sentinel}) /\ Len(availQueue) \in Nat
    BY LenProperties DEF AvailShape
<1>2. \A c, m, u, top \in Nat : u = c + m /\ u <= top /\ m # 0 => u - 1 \in 0 .. top /\ u - 1 = c + (m - 1)
    OBVIOUS
<1>3. Cardinality(Skus) + Cardinality(AvailWorkers) \in Nat
    BY SizesAre
<1>4. CASE StartProgress
    <2> DEFINE n == Cardinality(Skus) + Cardinality(AvailWorkers)
    <2>1. availQueue' = [i \in 1 .. n |-> IF i \in Skus THEN i ELSE Sentinel] /\ unfinished' = n
          /\ UNCHANGED worker /\ availPc = "sleeping"
        BY <1>4 DEF StartProgress, Sentinels
    <2>2. n \in Nat
        BY <1>3
    <2> HIDE DEF n
    <2>3. availQueue' \in Seq(Skus \cup {Sentinel}) /\ DOMAIN availQueue' = 1 .. n
        BY <2>1, <2>2
    <2>4. Len(availQueue') = n
        BY <2>2, <2>3, LenProperties
    <2>5. Busy' = {} /\ Cardinality({}) = 0
        BY <2>1, FS_EmptySet DEF Busy, PlaceInv
    <2> QED
        BY <2>1, <2>2, <2>4, <2>5 DEF n
<1>5. ASSUME NEW w \in AvailWorkers, TakeItem(w)
      PROVE  /\ unfinished' \in 0 .. Cardinality(Skus) + Cardinality(AvailWorkers)
             /\ unfinished' = Len(availQueue') + Cardinality(Busy')
    <2>1. availPc = "join" /\ availQueue # <<>> /\ availQueue' = Tail(availQueue) /\ worker[w].at = "idle"
        BY <1>5 DEF TakeItem
    <2>2. Len(availQueue') = Len(availQueue) - 1 /\ Len(availQueue) # 0
        BY <1>1, <2>1, HeadTailProperties, EmptySeq
    <2>3. w \notin Busy
        BY <2>1 DEF Busy, AtWork, Counts
    <2>4. CASE Head(availQueue) = Sentinel
        <3>1. worker' = [worker EXCEPT ![w] = [at |-> "ended", item |-> Sentinel]] /\ unfinished' = unfinished - 1
            BY <1>5, <2>4 DEF TakeItem
        <3>2. Busy' = Busy
            BY <1>1, <2>3, <3>1 DEF Busy, AtWork, Counts
        <3>3. unfinished = Cardinality(Busy) + Len(availQueue)
            BY <1>1, <2>1, BusyIsFinite
        <3> QED
            BY <1>1, <1>2, <1>3, <2>2, <3>1, <3>2, <3>3, BusyIsFinite
    <2>5. CASE Head(availQueue) # Sentinel
        <3>1. PICK at \in {"failed", "quantity"} :
                  worker' = [worker EXCEPT ![w] = [at |-> at, item |-> Head(availQueue)]]
            BY <1>5, <2>5 DEF TakeItem
        <3>2. unfinished' = unfinished
            BY <1>5, <2>5 DEF TakeItem
        <3>3. Busy' = Busy \cup {w}
            BY <1>1, <3>1 DEF Busy, AtWork, Counts
        <3>4. Cardinality(Busy') = Cardinality(Busy) + 1
            BY <2>3, <3>3, BusyIsFinite, FS_AddElement
        <3> QED
            BY <1>1, <2>1, <2>2, <3>2, <3>4, BusyIsFinite
    <2> QED
        BY <2>4, <2>5
<1>6. ASSUME NEW w \in AvailWorkers, worker[w].at \in AtWork, NEW at \in {"idle", "died"},
             worker' = [worker EXCEPT ![w] = [at |-> at, item |-> Sentinel]], unfinished' = unfinished - 1, UNCHANGED <<availPc, availQueue>>
      PROVE  /\ unfinished' \in 0 .. Cardinality(Skus) + Cardinality(AvailWorkers)
             /\ unfinished' = Len(availQueue') + Cardinality(Busy')
    <2>1. availPc = "join" /\ w \in Busy
        BY <1>6 DEF PlaceInv, Busy
    <2>2. Busy' = Busy \ {w}
        BY <1>1, <1>6 DEF Busy, AtWork, Counts
    <2>3. Cardinality(Busy') = Cardinality(Busy) - 1
        BY <2>1, <2>2, BusyIsFinite, FS_RemoveElement
    <2>4. Cardinality(Busy) # 0
        BY <2>1, BusyIsFinite, FS_EmptySet
    <2>5. unfinished = Len(availQueue) + Cardinality(Busy) /\ unfinished \in Nat
        BY <2>1, SizesAre
    <2> QED
        BY <1>1, <1>2, <1>3, <1>6, <2>3, <2>4, <2>5, BusyIsFinite
<1>7. ASSUME NEW w \in AvailWorkers, NEW at \in AtWork, worker[w].at \in AtWork,
             worker' = [worker EXCEPT ![w].at = at]
      PROVE  Busy' = Busy
    BY <1>1, <1>7 DEF Busy
<1>8. Busy' = Busy /\ UNCHANGED <<availQueue, unfinished>> /\ (availPc' = "join" => availPc = "join")
      => /\ unfinished' \in 0 .. Cardinality(Skus) + Cardinality(AvailWorkers)
         /\ availPc' = "join" => unfinished' = Len(availQueue') + Cardinality(Busy')
    OBVIOUS
<1>9. ASSUME NEW w \in AvailWorkers, SendQuantity(w) \/ SendDelivery(w) \/ ReadCount(w)
      PROVE  Busy' = Busy /\ UNCHANGED <<availQueue, unfinished, availPc>>
    <2>1. PICK at \in {"delivery", "sent", "count", "count_failed"} : worker' = [worker EXCEPT ![w].at = at]
        BY <1>1, <1>9 DEF SendQuantity, SendDelivery, ReadCount
    <2>2. worker[w].at \in AtWork /\ UNCHANGED <<availQueue, unfinished, availPc>>
        BY <1>9 DEF SendQuantity, SendDelivery, ReadCount, MayCount, AtWork, Counts
    <2> QED
        BY <1>7, <2>1, <2>2 DEF AtWork, Counts
<1>10. ASSUME NEW w \in AvailWorkers, SaveCount(w)
       PROVE  /\ unfinished' \in 0 .. Cardinality(Skus) + Cardinality(AvailWorkers)
              /\ unfinished' = Len(availQueue') + Cardinality(Busy')
    <2>1. worker[w].at \in AtWork /\ worker' = [worker EXCEPT ![w] = [at |-> "idle", item |-> Sentinel]]
          /\ unfinished' = unfinished - 1 /\ UNCHANGED <<availPc, availQueue>>
        BY <1>10 DEF SaveCount, NoWork, AtWork, Counts
    <2> QED
        BY <1>6, <2>1
<1>11. ASSUME NEW w \in AvailWorkers, CountRaises(w)
       PROVE  /\ unfinished' \in 0 .. Cardinality(Skus) + Cardinality(AvailWorkers)
              /\ availPc' = "join" => unfinished' = Len(availQueue') + Cardinality(Busy')
    <2>1. worker[w].at \in AtWork /\ UNCHANGED <<availPc, availQueue>>
        BY <1>11 DEF CountRaises, AtWork, Counts
    <2>2. CASE worker' = [worker EXCEPT ![w].at = "failed"] /\ UNCHANGED unfinished
        BY <1>7, <1>8, <2>1, <2>2 DEF AtWork
    <2>3. CASE worker' = [worker EXCEPT ![w] = [at |-> "died", item |-> Sentinel]] /\ unfinished' = unfinished - 1
        BY <1>6, <2>1, <2>3
    <2> QED
        BY <1>11, <2>2, <2>3 DEF CountRaises
<1>12. StartAvailability \/ Joined \/ FinishAvailability \/ KillAvailability
       => availPc' # "join" /\ UNCHANGED unfinished
    BY DEF StartAvailability, Joined, FinishAvailability, KillAvailability
<1>13. OpenDraft \/ SaveEdit \/ DeleteTask => Busy' = Busy /\ UNCHANGED <<availQueue, unfinished, availPc>>
    BY DEF OpenDraft, SaveEdit, DeleteTask, Busy
<1> QED
    BY <1>4, <1>5, <1>8, <1>9, <1>10, <1>11, <1>12, <1>13 DEF AvailNext, AvailJobStep, WorkerStep

LEMMA BoundsHold == AvailSafety => []BoundInv
<1>1. AvailInv /\ BoundInv /\ [AvailNext]_<<scene, availVars>> => BoundInv'
    <2> SUFFICES ASSUME AvailInv, BoundInv, [AvailNext]_<<scene, availVars>> PROVE BoundInv'
        OBVIOUS
    <2>1. CASE AvailNext
        BY <2>1, DocumentsKept, UnfinishedKept DEF BoundInv
    <2>2. CASE UNCHANGED <<scene, availVars>>
        BY <2>2 DEF BoundInv, DocumentBound, Busy, availVars
    <2> QED
        BY <2>1, <2>2
<1> QED
    BY <1>1, BoundsStart, AvailHolds, PTL DEF AvailSafety

LEMMA AvailTypes == AvailInv /\ BoundInv => AvailTypeOK
<1> SUFFICES ASSUME AvailInv, BoundInv PROVE AvailTypeOK
    OBVIOUS
<1>1. AvailShape
    BY DEF AvailInv
<1>2. \A d \in AvailDocument : DocumentBound(d) => d \in AvailDocs
    BY SizesAre DEF AvailDocument, AvailDocs, DocumentBound
<1>3. availDoc \in AvailDocs /\ availCopy \in [AvailWorkers \cup {"task", "user"} -> AvailDocs]
    BY <1>1, <1>2 DEF AvailShape, BoundInv
<1> QED
    BY <1>1, <1>3 DEF AvailTypeOK, AvailShape, BoundInv, Places

-----------------------------------------------------------------------------
(* The types of the imports.                                               *)

\* A sync counts no page as more saved than it has; without an import nothing moves.
ImportNumbers ==
    /\ Plays("sync") => {tally.saved, tally.skipped, importTask.saved, importTask.skipped} \subseteq Nat
    /\ ~Plays("sync") /\ ~Plays("upload") =>
          importTask = Row("queued", NoProgress) /\ importPc = "queued" /\ offset = 0

LEMMA IdentifiedAreFew ==
    ASSUME NEW S, NEW items \in Seq(S)
    PROVE  Cardinality(Identified(items)) \in 0 .. Len(items) /\ Len(items) \in Nat
<1>1. Len(items) \in Nat /\ DOMAIN items = 1 .. Len(items)
    BY LenProperties
<1>2. IsFiniteSet(1 .. Len(items)) /\ Cardinality(1 .. Len(items)) = Len(items)
    BY <1>1, FS_Interval
<1>3. items \in Surjection(1 .. Len(items), Range(items))
    <2>1. items \in [1 .. Len(items) -> Range(items)]
        BY <1>1 DEF Range
    <2> QED
        BY <1>1, <2>1 DEF Surjection, Range
<1>4. IsFiniteSet(Range(items)) /\ Cardinality(Range(items)) <= Len(items)
    BY <1>2, <1>3, FS_Surjection
<1>5. IsFiniteSet(Identified(items)) /\ Cardinality(Identified(items)) <= Cardinality(Range(items))
    BY <1>4, FS_Subset DEF Identified
<1> QED
    BY <1>1, <1>4, <1>5, FS_CardinalityType

LEMMA NumbersKept == SyncInv /\ ImportNumbers /\ [ImportNext]_<<scene, importVars>> => ImportNumbers'
<1> SUFFICES ASSUME SyncInv, ImportNumbers, [ImportNext]_<<scene, importVars>> PROVE ImportNumbers'
    OBVIOUS
<1>1. UNCHANGED scene
    BY SceneIsKept DEF importVars
<1>2. CASE UNCHANGED <<scene, importVars>>
    BY <1>2 DEF ImportNumbers, Plays, importVars
<1>3. CASE ImportNext /\ Plays("upload")
    BY <1>1, <1>3 DEF ImportNumbers, Plays
<1>4. CASE ImportNext /\ Plays("sync")
    <2>1. SyncShape
        BY <1>4 DEF SyncInv
    <2>2. /\ tally.saved \in Nat /\ tally.skipped \in Nat
          /\ importTask.saved \in Nat /\ importTask.skipped \in Nat
        BY <1>4 DEF ImportNumbers
    <2>3. CASE SavePage
        <3>1. Cardinality(Identified(page)) \in 0 .. Len(page) /\ Len(page) \in Nat
            BY <2>1, IdentifiedAreFew DEF SyncShape
        <3>2. /\ tally'.saved = tally.saved + Cardinality(Identified(page))
              /\ tally'.skipped = tally.skipped + Len(page) - Cardinality(Identified(page))
              /\ UNCHANGED importTask
            BY <2>3 DEF SavePage
        <3>3. tally'.saved \in Nat /\ tally'.skipped \in Nat
            BY <2>2, <3>1, <3>2
        <3> QED
            BY <1>1, <1>4, <2>2, <3>2, <3>3 DEF ImportNumbers, Plays
    <2>4. CASE SaveProgress \/ CompleteSync
        <3>1. importTask'.saved = tally.saved /\ importTask'.skipped = tally.skipped /\ UNCHANGED tally
            BY <2>4 DEF SaveProgress, CompleteSync, Row
        <3> QED
            BY <1>1, <1>4, <2>2, <3>1 DEF ImportNumbers, Plays
    <2>5. CASE StartSync \/ FetchPage \/ CatalogueGrows \/ CatalogueShrinks \/ ImportRaises \/ KillImport
        <3>1. importTask'.saved = importTask.saved /\ importTask'.skipped = importTask.skipped /\ UNCHANGED tally
            BY <2>1, <2>5 DEF StartSync, FetchPage, CatalogueGrows, CatalogueShrinks, ImportRaises, KillImport,
                FailedRow, SyncShape
        <3> QED
            BY <1>1, <1>4, <2>2, <3>1 DEF ImportNumbers, Plays
    <2>6. ~UploadStep
        BY <2>1 DEF SyncShape, UploadStep, ReadFile, ImportBatch, CompleteImport
    <2> QED
        BY <1>4, <2>3, <2>4, <2>5, <2>6 DEF ImportNext, SyncStep
<1> QED
    BY <1>2, <1>3, <1>4 DEF ImportNext

LEMMA NumbersHold == ImportSafety => []ImportNumbers
<1>1. ImportInit => ImportNumbers
    BY DEF ImportInit, ImportNumbers, Row, NoProgress, Plays
<1> QED
    BY <1>1, NumbersKept, SyncHolds, PTL DEF ImportSafety

LEMMA ImportTypes == SyncInv /\ UploadInv /\ ImportNumbers => ImportTypeOK
<1> SUFFICES ASSUME SyncInv, UploadInv, ImportNumbers PROVE ImportTypeOK
    OBVIOUS
<1>1. CASE Plays("sync")
    BY <1>1 DEF SyncInv, SyncShape, ImportNumbers, ImportTypeOK
<1>2. CASE Plays("upload")
    <2>1. UploadShape /\ Len(page) \in Nat
        BY <1>2, LenProperties DEF UploadInv, UploadShape
    <2> QED
        BY <2>1 DEF UploadShape, ImportTypeOK
<1>3. CASE ~Plays("sync") /\ ~Plays("upload")
    BY <1>3 DEF ImportNumbers, ImportTypeOK, Row, NoProgress
<1> QED
    BY <1>1, <1>2, <1>3

-----------------------------------------------------------------------------
(* The types of the other components.                                      *)

LEMMA JobTypes == DeliveryInv /\ RouteInv /\ VariantInv => DeliveryTypeOK /\ RouteTypeOK /\ VariantTypeOK
<1>1. DeliveryInv => DeliveryTypeOK
    BY DEF DeliveryInv, DeliveryShape, DeliveryTypeOK, Jobs
<1>2. RouteInv => RouteTypeOK
    BY DEF RouteInv, RouteShape, RouteTypeOK
<1>3. VariantInv => VariantTypeOK
    <2> SUFFICES ASSUME VariantInv PROVE VariantTypeOK
        OBVIOUS
    <2>1. \A id \in DOMAIN variants : variants[id] \in VariantRow
        BY DEF VariantInv, VariantShape
    <2> QED
        BY <2>1 DEF VariantInv, VariantShape, VariantTypeOK, VariantRow, RowIds
<1> QED
    BY <1>1, <1>2, <1>3

\* Where a change of prices may be.
PricePlaces == \A r \in PriceChanges : priceAt[r].at \in {"idle", "send", "refused"}

LEMMA PricePlacesHold == MarketSafety => []PricePlaces
<1>1. MarketInit => PricePlaces
    BY DEF MarketInit, PricePlaces, Over
<1>2. PriceInv /\ PricePlaces /\ [MarketNext]_<<scene, marketVars>> => PricePlaces'
    <2> SUFFICES ASSUME PriceInv, PricePlaces, [MarketNext]_<<scene, marketVars>> PROVE PricePlaces'
        OBVIOUS
    <2>1. ASSUME NEW r \in PriceChanges, LoadPriceRows(r) PROVE PricePlaces'
        BY <2>1 DEF LoadPriceRows, PricePlaces, PriceInv, PriceShape, Sending
    <2>2. ASSUME NEW r \in PriceChanges, PriceStep(r) PROVE PricePlaces'
        BY <2>2 DEF PriceStep, SendPrices, CommitPrices, CommitRaises, Over, PricePlaces, PriceInv, PriceShape
    <2>3. CASE UNCHANGED priceAt
        BY <2>3 DEF PricePlaces
    <2> QED
        BY <2>1, <2>2, <2>3 DEF MarketNext, OffStep, CommitOff, BeginOff, SetQuantity, SetStatus, AskAgain,
            priceVars, marketVars
<1> QED
    BY <1>1, <1>2, MarketHolds, PTL DEF MarketSafety

LEMMA MarketTypes == PriceInv /\ OffInv /\ PricePlaces => MarketTypeOK
BY DEF PriceInv, PriceShape, OffInv, PricePlaces, MarketTypeOK

\* Ids are given from 1 on.
IdsInv == nextId # 0 /\ 0 \notin Ids /\ \A r \in Refreshers : 0 \notin refreshAt[r].doomed

LEMMA IdsStart == CategoryInit => IdsInv
<1> SUFFICES ASSUME CategoryInit PROVE IdsInv
    OBVIOUS
<1>1. 1 \in Versions
    BY CatalogueAssumption, LenProperties, EmptySeq DEF Versions
<1>2. Len(CatalogueVersions[1]) \in Nat /\ DOMAIN CatalogueVersions[1] = 1 .. Len(CatalogueVersions[1])
    BY <1>1, CataloguesAre
<1>3. nextId # 0
    BY <1>2 DEF CategoryInit
<1>4. \A row \in categories : \E i \in DOMAIN CatalogueVersions[1] : row.id = i
    BY DEF CategoryInit
<1>5. 0 \notin Ids
    BY <1>2, <1>4 DEF Ids
<1>6. \A r \in Refreshers : refreshAt[r].doomed = {}
    BY NoRefreshIs DEF CategoryInit
<1> QED
    BY <1>3, <1>5, <1>6 DEF IdsInv

LEMMA IdsKept == CategoryInv /\ IdsInv /\ [CategoryNext]_<<scene, categoryVars>> => IdsInv'
<1> SUFFICES ASSUME CategoryInv, IdsInv, [CategoryNext]_<<scene, categoryVars>> PROVE IdsInv'
    OBVIOUS
<1>1. /\ refreshAt \in [Refreshers -> RefreshState] /\ nextId \in Nat
      /\ categories \subseteq [name : GroupNames, id : Nat, label : BOOLEAN]
    BY DEF CategoryInv, CategoryShape
<1>2. NoRefresh.doomed = {}
    BY NoRefreshIs
<1>3. \A refresh \in RefreshState : \A names : MissesLabels(refresh, names).doomed = refresh.doomed
    BY DEF MissesLabels, RefreshState
<1>4. ASSUME NEW ids, WriteLabels(ids), UNCHANGED nextId PROVE IdsInv'
    <2>1. \A r \in Refreshers : refreshAt'[r].doomed = refreshAt[r].doomed
        BY <1>1, <1>3, <1>4 DEF WriteLabels
    <2>2. \A row \in categories' : \E old \in categories : row.id = old.id
        BY <1>1, <1>4 DEF WriteLabels
    <2>3. Ids' \subseteq Ids
        BY <2>2 DEF Ids
    <2> QED
        BY <1>4, <2>1, <2>3 DEF IdsInv
<1>5. UNCHANGED <<categories, nextId, refreshAt>> => IdsInv'
    BY DEF IdsInv, Ids
<1>6. ASSUME NEW r \in Refreshers, BeginRefresh(r) \/ FetchGroups(r) \/ FetchRaises(r) \/ ReadLabels(r) \/ DeleteCategories(r)
      PROVE  IdsInv'
    <2>1. UNCHANGED <<categories, nextId>> /\ Ids' = Ids
        BY <1>6 DEF BeginRefresh, FetchGroups, FetchRaises, ReadLabels, DeleteCategories, Ids
    <2>2. ASSUME NEW q \in Refreshers PROVE 0 \notin refreshAt'[q].doomed
        <3>1. refreshAt[q] \in RefreshState /\ 0 \notin refreshAt[q].doomed
            BY <1>1 DEF IdsInv
        <3>2. CASE BeginRefresh(r)
            BY <1>1, <3>1, <3>2, <1>2 DEF BeginRefresh, NoRefresh
        <3>3. CASE FetchGroups(r)
            BY <1>1, <3>1, <3>3 DEF FetchGroups, RefreshState
        <3>4. CASE FetchRaises(r)
            BY <1>1, <3>1, <3>4 DEF FetchRaises, RefreshState
        <3>5. CASE ReadLabels(r)
            BY <1>1, <3>1, <3>5 DEF ReadLabels, RefreshState
        <3>6. CASE DeleteCategories(r)
            BY <1>1, <3>1, <3>6 DEF DeleteCategories, RefreshState, IdsInv
        <3> QED
            BY <1>6, <3>2, <3>3, <3>4, <3>5, <3>6
    <2> QED
        BY <2>1, <2>2 DEF IdsInv
<1>7. ASSUME NEW r \in Refreshers, CommitRefresh(r) PROVE IdsInv'
    <2> DEFINE left == {row \in categories : row.id \notin refreshAt[r].doomed}
    <2>1. CASE UNCHANGED <<categories, nextId>> /\ refreshAt' = [refreshAt EXCEPT ![r].at = "raised"]
        BY <1>1, <2>1 DEF IdsInv, Ids, RefreshState
    <2>2. CASE /\ categories' = left \cup NewRows(r) /\ nextId' = nextId + Cardinality(NewRows(r))
               /\ refreshAt' = [q \in Refreshers |-> IF q = r THEN [NoRefresh EXCEPT !.at = "answered"]
                        ELSE MissesLabels(refreshAt[q], Names({row \in NewRows(r) : row.label}))]
        <3>1. Cardinality(NewRows(r)) \in Nat /\ \A row \in NewRows(r) : row.id \in Nat /\ nextId <= row.id
            BY NewRowsAre
        <3>2. nextId' # 0
            BY <1>1, <2>2, <3>1 DEF IdsInv
        <3>3. \A row \in NewRows(r) : row.id # 0
            BY <1>1, <3>1 DEF IdsInv
        <3>4. \A row \in categories : row.id # 0
            BY DEF IdsInv, Ids
        <3>5. 0 \notin Ids'
            BY <2>2, <3>3, <3>4 DEF Ids
        <3>6. [NoRefresh EXCEPT !.at = "answered"].doomed = {}
            BY DEF NoRefresh
        <3>7. \A q \in Refreshers : 0 \notin refreshAt'[q].doomed
            BY <1>1, <1>3, <2>2, <3>6 DEF IdsInv
        <3> QED
            BY <3>2, <3>5, <3>7 DEF IdsInv
    <2> QED
        BY <1>7, <2>1, <2>2 DEF CommitRefresh
<1>8. CASE OttoChanges
    <2>1. UNCHANGED <<categories, nextId>> /\ Ids' = Ids
        BY <1>8 DEF OttoChanges, Ids
    <2>2. \A q \in Refreshers : refreshAt'[q].doomed = refreshAt[q].doomed
        BY <1>1, <1>8 DEF OttoChanges, RefreshState
    <2> QED
        BY <2>1, <2>2 DEF IdsInv
<1>9. ASSUME NEW l \in LabelRequests, LoadUnlabelled(l) \/ LabelStep(l) PROVE IdsInv'
    <2>1. UNCHANGED nextId /\ (UNCHANGED <<categories, refreshAt>> \/ WriteLabels(labelAt[l].pending))
        BY <1>9 DEF LoadUnlabelled, LabelStep, LookUpTranslation, StoreTranslation, DeepLFails, CommitLabels
    <2> QED
        BY <1>4, <1>5, <2>1
<1>10. CASE UNCHANGED <<scene, categoryVars>>
    BY <1>5, <1>10 DEF categoryVars
<1> QED
    BY <1>6, <1>7, <1>8, <1>9, <1>10 DEF CategoryNext, RefreshStep

LEMMA IdsHold == CategorySafety => []IdsInv
BY IdsStart, IdsKept, CategoriesHold, PTL DEF CategorySafety

LEMMA CategoryTypes == CategoryInv /\ IdsInv => CategoryTypeOK
<1> SUFFICES ASSUME CategoryInv, IdsInv PROVE CategoryTypeOK
    OBVIOUS
<1>1. version \in DOMAIN CatalogueVersions /\ \A row \in categories : row.label \in BOOLEAN /\ row.id < nextId
    BY DEF CategoryInv, CategoryShape, RowsApart, Versions
<1>2. ASSUME NEW r \in Refreshers PROVE refreshAt[r].doomed \subseteq 1 .. nextId
    <2>1. refreshAt[r].doomed \subseteq Nat /\ nextId \in Nat
        BY DEF CategoryInv, CategoryShape, RefreshState
    <2>2. \A id \in refreshAt[r].doomed : id < nextId /\ id # 0
        BY DEF CategoryInv, RefreshRow, IdsInv
    <2> QED
        BY <2>1, <2>2
<1> QED
    BY <1>1, <1>2 DEF CategoryTypeOK

\* No token lives longer than OTTO has said, no slot is further away than the interval,
\* and no translation is tried more often than allowed.
DeepLCall(call) ==
    /\ call = [at |-> call.at, attempt |-> call.attempt, delay |-> call.delay]
    /\ call.attempt \in 0 .. MaxRetries

ClientBounds ==
    /\ \A k \in {"jv", "xl"} : tokens[k].left <= TokenLife
    /\ \A c \in DOMAIN Callers : callAt[c].left <= TokenLife
    /\ slotHolder \in Translators \cup {"nobody"} /\ slotIn <= Interval
    /\ DOMAIN deeplAt = Translators /\ \A t \in Translators : DeepLCall(deeplAt[t])

LEMMA ClientBoundsStart == ClientsInit => ClientBounds
<1>1. 0 \in 0 .. MaxRetries /\ 0 <= TokenLife /\ 0 <= Interval
    BY CallTimeAssumption
<1>2. NoToken.left = 0 /\ NotCalling.left = 0
    BY DEF NoToken, NotCalling
<1> QED
    BY <1>1, <1>2 DEF ClientsInit, ClientBounds, DeepLCall

LEMMA ClientBoundsKept ==
    TokenInv /\ SlotInv /\ ClientBounds /\ [ClientsNext]_<<scene, clientVars>> => ClientBounds'
<1> SUFFICES ASSUME TokenInv, SlotInv, ClientBounds, [ClientsNext]_<<scene, clientVars>> PROVE ClientBounds'
    OBVIOUS
<1>1. TokenLife \in Nat /\ Interval \in Nat /\ MaxRetries \in Nat
    BY CallTimeAssumption
<1>2. tokens \in [{"jv", "xl"} -> TokenState] /\ callAt \in [DOMAIN Callers -> CallState]
    BY DEF TokenInv
<1> DEFINE TokenPart == /\ \A k \in {"jv", "xl"} : tokens[k].left <= TokenLife
                       /\ \A c \in DOMAIN Callers : callAt[c].left <= TokenLife
           SlotPart == slotHolder \in Translators \cup {"nobody"} /\ slotIn <= Interval
           DeepLPart == DOMAIN deeplAt = Translators /\ \A t \in Translators : DeepLCall(deeplAt[t])
<1>3. /\ ClientBounds = (TokenPart /\ SlotPart /\ DeepLPart)
      /\ ClientBounds' = (TokenPart /\ SlotPart /\ DeepLPart)'
    BY DEF ClientBounds
<1>4. UNCHANGED tokenVars => TokenPart'
    BY DEF ClientBounds, tokenVars
<1>5. UNCHANGED deeplVars => SlotPart' /\ DeepLPart'
    BY DEF ClientBounds, deeplVars
<1>6. \A n \in Nat : Less(n) \in Nat /\ Less(n) <= n
    BY DEF Less
<1>7. ASSUME NEW c \in DOMAIN Callers, CallStep(c) PROVE TokenPart' /\ UNCHANGED deeplVars
    <2>1. UNCHANGED deeplVars
        BY <1>7 DEF CallStep, GetToken, IssueToken, TokenArrives, TokenRefused, RequestArrives
    <2>2. Key(Callers[c]) \in {"jv", "xl"}
        BY CallersAssumption DEF Key
    <2>3. NotCalling.left = 0
        BY DEF NotCalling
    <2>4. \A k \in {"jv", "xl"} : tokens[k].left <= TokenLife
        BY DEF ClientBounds
    <2>5. \A d \in DOMAIN Callers : callAt[d].left <= TokenLife
        BY DEF ClientBounds
    <2>6. CASE GetToken(c)
        <3>1. UNCHANGED tokens
            BY <2>6 DEF GetToken
        <3> DEFINE cached == tokens[Key(Callers[c])]
                   sent == [at |-> "send", waited |-> 0, left |-> cached.left, account |-> cached.account]
                   asks == [NotCalling EXCEPT !.at = "ask"]
        <3>2. sent.left <= TokenLife
            BY <2>2, <2>4
        <3>3. asks.left <= TokenLife
            BY <1>1 DEF NotCalling
        <3>4. callAt' = [callAt EXCEPT ![c] = sent] \/ callAt' = [callAt EXCEPT ![c] = asks]
            BY <2>6 DEF GetToken
        <3> HIDE DEF sent, asks
        <3> QED
            BY <1>2, <2>1, <2>4, <2>5, <3>1, <3>2, <3>3, <3>4
    <2>7. CASE IssueToken(c)
        BY <1>1, <1>2, <2>4, <2>5, <2>7 DEF IssueToken, CallState
    <2>8. CASE TokenArrives(c)
        BY <1>2, <2>2, <2>4, <2>5, <2>8 DEF TokenArrives, CallState
    <2>9. CASE TokenRefused(c) \/ RequestArrives(c)
        BY <1>1, <1>2, <2>3, <2>4, <2>5, <2>9 DEF TokenRefused, RequestArrives
    <2> QED
        BY <1>7, <2>1, <2>6, <2>7, <2>8, <2>9 DEF CallStep
<1>8. CASE TokenTick
    <2>1. UNCHANGED deeplVars
        BY <1>8 DEF TokenTick
    <2>2. ASSUME NEW k \in {"jv", "xl"} PROVE tokens'[k].left <= TokenLife
        <3>1. tokens[k] \in TokenState /\ tokens[k].left <= TokenLife /\ tokens[k].left \in Nat
            BY <1>2 DEF ClientBounds, TokenState
        <3>2. tokens'[k] = [tokens[k] EXCEPT !.believed = Less(@), !.left = Less(@)]
            BY <1>2, <1>8 DEF TokenTick
        <3>3. tokens'[k].left = Less(tokens[k].left)
            BY <3>1, <3>2 DEF TokenState
        <3> QED
            BY <1>1, <1>6, <3>1, <3>3
    <2>3. ASSUME NEW c \in DOMAIN Callers PROVE callAt'[c].left <= TokenLife
        <3>1. callAt[c] \in CallState /\ callAt[c].left <= TokenLife /\ callAt[c].left \in Nat
            BY <1>2 DEF ClientBounds, CallState
        <3>2. callAt'[c].left \in {callAt[c].left, Less(callAt[c].left)}
            BY <1>8, <3>1 DEF TokenTick, CallState
        <3> QED
            BY <1>1, <1>6, <3>1, <3>2
    <2> QED
        BY <1>3, <1>5, <2>1, <2>2, <2>3
<1>9. ASSUME NEW t \in Translators, TranslateStep(t) PROVE ClientBounds'
    <2>1. UNCHANGED tokenVars
        BY <1>9 DEF TranslateStep, WantSlot, TakeSlot, DeepLAnswers
    <2>2. slotHolder \in Translators \cup {"nobody"} /\ slotIn <= Interval /\ DOMAIN deeplAt = Translators
          /\ \A u \in Translators : DeepLCall(deeplAt[u])
        BY DEF ClientBounds
    <2>3. SlotPart'
        BY <1>1, <1>9, <2>2 DEF TranslateStep, WantSlot, TakeSlot, DeepLAnswers
    <2>4. ASSUME NEW call, DeepLCall(call), deeplAt' = [deeplAt EXCEPT ![t] = call] PROVE DeepLPart'
        BY <2>2, <2>4
    <2>5. ASSUME NEW at PROVE DeepLCall([deeplAt[t] EXCEPT !.at = at])
        BY <2>2 DEF DeepLCall
    <2>6. ASSUME WantSlot(t) PROVE DeepLPart'
        BY <2>2, <2>6 DEF WantSlot
    <2>7. ASSUME TakeSlot(t) PROVE DeepLPart'
        BY <2>4, <2>5, <2>7 DEF TakeSlot
    <2>8. ASSUME DeepLAnswers(t) PROVE DeepLPart'
        <3>1. CASE \E at \in {"translated", "failed"} : deeplAt' = [deeplAt EXCEPT ![t].at = at]
            BY <2>4, <2>5, <3>1
        <3>2. CASE \E delay : deeplAt' = [deeplAt EXCEPT ![t] =
                        [at |-> "wants", attempt |-> AtMost(@.attempt + 1, MaxRetries), delay |-> delay]]
            <4>1. AtMost(deeplAt[t].attempt + 1, MaxRetries) \in 0 .. MaxRetries
                BY <1>1, <2>2 DEF DeepLCall, AtMost
            <4> QED
                BY <2>2, <3>2, <4>1 DEF DeepLCall
        <3> QED
            BY <2>8, <3>1, <3>2 DEF DeepLAnswers
    <2> QED
        BY <1>3, <1>4, <1>9, <2>1, <2>3, <2>6, <2>7, <2>8 DEF TranslateStep
<1>10. CASE DeepLTick
    <2>1. UNCHANGED tokenVars /\ slotIn' = Less(slotIn) /\ UNCHANGED slotHolder
          /\ deeplAt' = [t \in Translators |-> [deeplAt[t] EXCEPT !.delay = Less(@)]]
        BY <1>10 DEF DeepLTick
    <2>2. slotIn \in Nat /\ slotIn <= Interval
        BY DEF SlotInv, ClientBounds
    <2>3. slotIn' <= Interval
        BY <1>1, <1>6, <2>1, <2>2
    <2>4. \A t \in Translators : DeepLCall(deeplAt[t])
        BY DEF ClientBounds
    <2>5. ASSUME NEW call, DeepLCall(call), NEW delay PROVE DeepLCall([call EXCEPT !.delay = delay])
        BY <2>5 DEF DeepLCall
    <2>6. \A t \in Translators : DeepLCall([deeplAt[t] EXCEPT !.delay = Less(@)])
        BY <2>4, <2>5
    <2>7. DeepLPart'
        BY <2>1, <2>6
    <2>8. SlotPart'
        BY <2>1, <2>3 DEF ClientBounds
    <2> QED
        BY <1>3, <1>4, <2>1, <2>7, <2>8
<1>11. CASE UNCHANGED <<scene, clientVars>>
    BY <1>3, <1>4, <1>5, <1>11 DEF clientVars, tokenVars, deeplVars
<1> QED
    BY <1>3, <1>5, <1>7, <1>8, <1>9, <1>10, <1>11 DEF ClientsNext

LEMMA ClientBoundsHold == ClientsSafety => []ClientBounds
BY ClientBoundsStart, ClientBoundsKept, TokensHold, SlotsHold, PTL DEF ClientsSafety

LEMMA ClientTypes == TokenInv /\ SlotInv /\ ClientBounds => ClientsTypeOK
<1> SUFFICES ASSUME TokenInv, SlotInv, ClientBounds PROVE ClientsTypeOK
    OBVIOUS
<1>1. TokenLife \in Nat /\ Interval \in Nat
    BY CallTimeAssumption
<1>2. ASSUME NEW k \in DOMAIN tokens PROVE tokens[k].left \in 0 .. TokenLife
    <2>1. k \in {"jv", "xl"} /\ tokens[k] \in TokenState
        BY DEF TokenInv
    <2>2. tokens[k].left \in Nat /\ tokens[k].left <= TokenLife
        BY <2>1 DEF TokenState, ClientBounds
    <2> QED
        BY <1>1, <2>2
<1>3. \A c \in DOMAIN Callers : callAt[c].waited \in 0 .. CallTime
    BY DEF TokenInv, CallState
<1>4. slotIn \in 0 .. Interval
    BY <1>1 DEF SlotInv, ClientBounds
<1> QED
    BY <1>2, <1>3, <1>4 DEF ClientsTypeOK, ClientBounds, DeepLCall

\* What the cache says of an image.
ImageRows == images \in [ToSet(ImageEans) -> {"none", "failed", "no_images", "links"}]

LEMMA ImageRowsHold == MirrorSafety => []ImageRows
<1>1. MirrorInit => ImageRows
    BY DEF MirrorInit, ImageRows
<1>2. ImageRows /\ [MirrorNext]_<<scene, mirrorVars>> => ImageRows'
    <2> SUFFICES ASSUME ImageRows, [MirrorNext]_<<scene, mirrorVars>> PROVE ImageRows'
        OBVIOUS
    <2>1. CASE FetchChunk
        BY <2>1 DEF FetchChunk, ImageRows
    <2>2. CASE UNCHANGED images
        BY <2>2 DEF ImageRows
    <2> QED
        BY <2>1, <2>2 DEF MirrorNext, MediaStep, ImageSyncStep, OttoEdits, BeginMediaRun, GetProduct, GetRefused,
            CompareProduct, CommitProduct, MediaRaises, BeginImageRun, ImageRunRaises, ShowImages, DeleteFactories,
            InsertFactories, imageVars, mirrorVars
<1> QED
    BY <1>1, <1>2, PTL DEF MirrorSafety

LEMMA MirrorTypes == MediaInv /\ ImageRows => MirrorTypeOK
BY DEF MediaInv, MediaShape, RunState, ImageRows, MirrorTypeOK

-----------------------------------------------------------------------------
(* Theorems.                                                               *)

\* Two callers at once never both get what there is once: two clicks the job of a task,
\* two users a task, two requests the row of a combination, of a factory or of a
\* person, two coroutines the next slot at DeepL.
THEOREM SecondCallerTheorem == JobsSpec => []SecondCallersApart
<1>1. RouteInv /\ VariantInv /\ FactoriesOnce /\ AccountsInv /\ SlotInv => SecondCallersApart
    BY RouteIsTrue, AccountIsOne DEF SecondCallersApart, VariantInv, SlotInv, SlotsApart
<1> QED
    BY <1>1, JobsAreTheirParts, RouteHolds, VariantsHold, FactoriesHold, AccountsHold, SlotsHold, PTL
        DEF JobsSafety

\* Whoever is told that a job will come has one: a task that the routes have queued, a
\* product that the external API has accepted, a variant that waits for its image.
THEOREM PromiseTheorem == JobsSpec => []PromisedJobsExist
<1>1. RouteInv /\ DeliveryInv /\ VariantInv => PromisedJobsExist
    BY RouteIsTrue DEF PromisedJobsExist, DeliveryInv, VariantInv
<1> QED
    BY <1>1, JobsAreTheirParts, RouteHolds, DeliveryHolds, VariantsHold, PTL DEF JobsSafety

\* What update_db_product_prices and deactivate_products_by_ean have answered with
\* success holds in the tables and at OTTO, whatever the calls before have left.
THEOREM MarketTheorem == JobsSpec => []MarketAgrees
<1>1. PriceInv /\ OffInv => MarketAgrees
    BY MarketIsTrue DEF MarketAgrees
<1> QED
    BY <1>1, JobsAreTheirParts, MarketHolds, PTL DEF JobsSafety

CopiesSafety == AvailSafety /\ ImportSafety /\ CategorySafety

LEMMA CopiesAreTheirParts == JobsSpec => CopiesSafety
<1>1. JobsInit => AvailInit /\ ImportInit /\ CategoryInit
    BY DEF JobsInit
<1>2. [JobsNext]_jobsVars => [AvailNext]_<<scene, availVars>>
    BY SceneIsKept DEF JobsNext, jobsVars
<1>3. [JobsNext]_jobsVars => [ImportNext]_<<scene, importVars>>
    BY SceneIsKept DEF JobsNext, jobsVars
<1>4. [JobsNext]_jobsVars => [CategoryNext]_<<scene, categoryVars>>
    BY SceneIsKept DEF JobsNext, jobsVars
<1> QED
    BY <1>1, <1>2, <1>3, <1>4, PTL DEF JobsSpec, CopiesSafety, AvailSafety, ImportSafety, CategorySafety

\* The availability job loses no count of its concurrent workers and says DONE only
\* when OTTO has taken both stock and delivery time of every SKU; the sync counts
\* nothing that is not in the table, and says completed only when the table has all
\* that Afterbuy listed, unless the listing shrank under it; the upload of a file counts no row that
\* is not in the table.
THEOREM ProgressTheorem == JobsSpec => []ProgressIsTrue
<1>1. AvailInv /\ SyncInv /\ UploadInv => ProgressIsTrue
    BY AvailIsTrue, SyncIsTrue, UploadIsTrue DEF ProgressIsTrue
<1> QED
    BY <1>1, CopiesAreTheirParts, AvailHolds, SyncHolds, UploadHolds, PTL DEF CopiesSafety

\* However refreshes, runs and requests for tokens interleave: the category table is
\* one whole catalogue of OTTO, the descriptions are those of one answer, a media run
\* leaves nothing older than it found at OTTO, and no request goes out with a token
\* that has run out.
THEOREM CopiesTheorem == JobsSpec => []CopiesAreGood
<1>1. CategoryInv /\ MediaInv /\ TokenInv => CopiesAreGood
    BY CatalogueIs, MediaIsTrue, TokenIsTrue DEF CopiesAreGood
<1> QED
    BY <1>1, CopiesAreTheirParts, JobsAreTheirParts, CategoriesHold, MediaHolds, TokensHold, PTL
        DEF CopiesSafety, JobsSafety

\* What a user has set or deleted while a job worked stays so: the edit of a draft,
\* an image set by hand, a deleted variant, a label of a category, a product's own
\* image links.
THEOREM EditsTheorem == JobsSpec => EditsAreKept
<1>1. AvailInv /\ VariantInv => EditKeptUnlessOverlapped /\ OverrideKept
    BY AvailIsTrue, OverrideIsKept
<1> QED
    BY <1>1, CopiesAreTheirParts, JobsAreTheirParts, AvailHolds, VariantsHold, DeletionsStay, LabelsAreKept,
        ImagesAreKept, PTL DEF CopiesSafety, JobsSafety, EditsAreKept

\* The state of every component has its type: no count exceeds what there is to count,
\* however the saves of one document, the retries and the answers interleave.
THEOREM JobsTypeTheorem == JobsSpec => []JobsTypeOK
<1>1. AvailInv /\ BoundInv /\ SyncInv /\ UploadInv /\ ImportNumbers => AvailTypeOK /\ ImportTypeOK
    BY AvailTypes, ImportTypes
<1>2. CategoryInv /\ IdsInv /\ PriceInv /\ OffInv /\ PricePlaces => CategoryTypeOK /\ MarketTypeOK
    BY CategoryTypes, MarketTypes
<1>3. TokenInv /\ SlotInv /\ ClientBounds /\ MediaInv /\ ImageRows => ClientsTypeOK /\ MirrorTypeOK
    BY ClientTypes, MirrorTypes
<1>4. AvailSafety /\ ImportSafety => [](AvailTypeOK /\ ImportTypeOK)
    BY <1>1, AvailHolds, BoundsHold, SyncHolds, UploadHolds, NumbersHold, PTL
<1>5. CategorySafety /\ MarketSafety => [](CategoryTypeOK /\ MarketTypeOK)
    BY <1>2, CategoriesHold, IdsHold, MarketHolds, PricePlacesHold, PTL
<1>6. ClientsSafety /\ MirrorSafety => [](ClientsTypeOK /\ MirrorTypeOK)
    BY <1>3, TokensHold, SlotsHold, ClientBoundsHold, MediaHolds, ImageRowsHold, PTL
<1>7. DeliverySafety /\ RouteSafety /\ VariantSafety => [](DeliveryTypeOK /\ RouteTypeOK /\ VariantTypeOK)
    BY JobTypes, DeliveryHolds, RouteHolds, VariantsHold, PTL
<1>8. AvailTypeOK /\ ImportTypeOK /\ CategoryTypeOK /\ MarketTypeOK /\ ClientsTypeOK /\ MirrorTypeOK
      /\ DeliveryTypeOK /\ RouteTypeOK /\ VariantTypeOK => JobsTypeOK
    BY DEF JobsTypeOK
<1> QED
    BY <1>4, <1>5, <1>6, <1>7, <1>8, JobsAreTheirParts, CopiesAreTheirParts, PTL DEF JobsSafety, CopiesSafety

=============================================================================

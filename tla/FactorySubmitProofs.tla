------------------------- MODULE FactorySubmitProofs -------------------------
(***************************************************************************)
(* Proofs about the EAN pool and about FactorySubmit, which uses it, for   *)
(* any number of jobs, tasks and EANs and under every fault of FaultKinds: *)
(* what a submission reports, when it shares an EAN with another, that it  *)
(* is an EanAllocation, and that it forgets no reservation.                *)
(***************************************************************************)
EXTENDS FactorySubmit, FiniteSetTheorems, TLAPS

-----------------------------------------------------------------------------
(* EanPool.                                                                *)

\* The row tables the service calls produce are tables of rows.
LEMMA RowsAreRows ==
    ASSUME NEW p \in [Eans -> Row], NEW e \in Eans, NEW owner \in Clients, NEW seen
    PROVE  /\ Reserved(p, e, owner) \in [Eans -> Row]
           /\ MarkedUsed(p, e, seen) \in [Eans -> Row]
           /\ Released(p, e) \in [Eans -> Row]
BY DEF Reserved, MarkedUsed, Released, Row, AvailableRow, EanPoolStatuses

\* The table and the calls in flight stay well formed, whatever the clients do.
THEOREM PoolTypeCorrect == PoolSpec => []PoolTypeOK
<1>1. PoolInit => PoolTypeOK
  BY DEF PoolInit, PoolTypeOK, Row, NoRow, EanPoolStatuses, Call, Idle
<1>2. PoolTypeOK /\ [PoolNext]_poolVars => PoolTypeOK'
  <2> SUFFICES ASSUME PoolTypeOK, [PoolNext]_poolVars PROVE PoolTypeOK'
    OBVIOUS
  <2>1. CASE UNCHANGED poolVars
    BY <2>1 DEF poolVars, PoolTypeOK
  <2>2. ASSUME NEW c \in Clients, Import(c) PROVE PoolTypeOK'
    BY <2>2 DEF Import, PoolTypeOK, Row, AvailableRow, EanPoolStatuses
  <2>3. ASSUME NEW c \in Clients, Reserve(c) PROVE PoolTypeOK'
    BY <2>3, RowsAreRows DEF Reserve, PoolTypeOK, IsNext
  <2>4. ASSUME NEW c \in Clients, LoadForUse(c) PROVE PoolTypeOK'
    BY <2>4 DEF LoadForUse, PoolTypeOK, Call, Pending, Row
  <2>5. ASSUME NEW c \in Clients, CommitUse(c) PROVE PoolTypeOK'
    <3>1. call[c].ean \in Eans
      BY <2>5 DEF CommitUse, PoolTypeOK, Call, Idle
    <3> QED
      BY <2>5, <3>1, RowsAreRows DEF CommitUse, PoolTypeOK, Call
  <2>6. ASSUME NEW c \in Clients, LoadForRelease(c) PROVE PoolTypeOK'
    BY <2>6 DEF LoadForRelease, PoolTypeOK, Call, Pending, Row
  <2>7. ASSUME NEW c \in Clients, CommitRelease(c) PROVE PoolTypeOK'
    <3>1. call[c].ean \in Eans
      BY <2>7 DEF CommitRelease, PoolTypeOK, Call, Idle
    <3> QED
      BY <2>7, <3>1, RowsAreRows DEF CommitRelease, PoolTypeOK, Call
  <2>8. ASSUME NEW c \in Clients, Abort(c) PROVE PoolTypeOK'
    BY <2>8 DEF Abort, PoolTypeOK, Call
  <2> QED
    BY <2>1, <2>2, <2>3, <2>4, <2>5, <2>6, <2>7, <2>8 DEF PoolNext, ClientStep
<1> QED
  BY <1>1, <1>2, PTL DEF PoolSpec

-----------------------------------------------------------------------------
(* FactorySubmit.                                                          *)

\* A job's assignments can be counted.
LEMMA CountType ==
    ASSUME NEW S \in SUBSET Eans
    PROVE  IsFiniteSet(S) /\ Cardinality(S) \in Nat
BY EansAssumption, FS_Subset, FS_CardinalityType

\* The rows that the service calls of a job write.
LEMMA JobRowsAreRows ==
    ASSUME NEW p \in [Eans -> JobPoolRow], NEW e \in Eans,
           NEW owner \in Clients \cup Processes, NEW seen
    PROVE  /\ Reserved(p, e, owner) \in [Eans -> JobPoolRow]
           /\ MarkedUsed(p, e, seen) \in [Eans -> JobPoolRow]
           /\ Released(p, e) \in [Eans -> JobPoolRow]
BY DEF Reserved, MarkedUsed, Released, JobPoolRow, AvailableRow, EanPoolStatuses

\* A save leaves documents and labels well formed.
LEMMA SaveType ==
    ASSUME TypeOK, NEW j \in Jobs, NEW d \in Doc, NEW label \in Labels, Save(j, d, label)
    PROVE  doc' \in [Jobs -> Doc] /\ task' \in [Processes -> Doc] /\ pc' \in [Jobs -> Labels]
BY JobsAssumption DEF Save, Goto, TypeOK

\* Changes of status and step give documents again.
LEMMA DocEdits ==
    ASSUME NEW d \in Doc, NEW status \in {"IN_PROGRESS", "DONE", "FAILED"},
           NEW step \in Steps, NEW S \in SUBSET Eans
    PROVE  /\ Edit(d, status, step) \in Doc
           /\ [d EXCEPT !.eans = S] \in Doc
           /\ [d EXCEPT !.step = step] \in Doc
           /\ [d EXCEPT !.availability = "QUEUED"] \in Doc
BY DEF Edit, Doc

\* The pending pool call of a job names an EAN.
LEMMA LoadedEan ==
    ASSUME TypeOK, NEW j \in Jobs, loaded[j] # Idle
    PROVE  loaded[j].ean \in Eans
BY DEF TypeOK, Call

-----------------------------------------------------------------------------
(* Type correctness.                                                       *)

LEMMA InitType == Init => TypeOK
<1> SUFFICES ASSUME Init PROVE TypeOK
  OBVIOUS
<1>1. Prepared \in Doc
  BY DEF Prepared, Doc, Steps
<1>2. AvailableRow \in JobPoolRow /\ NoRow \in JobPoolRow
  BY DEF AvailableRow, NoRow, JobPoolRow, EanPoolStatuses
<1>3. pool \in [Eans -> JobPoolRow]
  BY <1>2 DEF Init, NothingYet
<1>4. NoReport \in Reports
  BY DEF NoReport, Reports
<1>5. faults \in SUBSET FaultKinds
  BY JobsAssumption DEF Init
<1> QED
  BY <1>1, <1>3, <1>4, <1>5 DEF Init, NothingYet, TypeOK, Labels, Call

\* Steps that only move a job on, read the saved document, or save.
LEMMA MovesType ==
    ASSUME TypeOK, UNCHANGED faults, NEW j \in Jobs,
           \/ Click(j) \/ SaveQueued(j) \/ Enqueue(j) \/ Preview(j) \/ Start(j)
           \/ SaveStart(j) \/ SaveEans(j) \/ SaveCreate(j) \/ SaveResult(j)
           \/ SaveAvailability(j) \/ SaveInvalid(j) \/ SaveFailed(j) \/ SavePreview(j)
           \/ GivesUp(j)
    PROVE  TypeOK'
<1> USE JobsAssumption
<1>0. doc[j] \in Doc /\ list[j] \in SUBSET Eans
  BY DEF TypeOK
<1>1. CASE Click(j) \/ Preview(j) \/ Start(j)
  BY <1>1 DEF Click, Preview, Start, ReadTask, Goto, TypeOK, Labels, history
<1>2. CASE Enqueue(j) \/ GivesUp(j)
  BY <1>2 DEF Enqueue, GivesUp, Goto, TypeOK, Labels, history
<1> DEFINE Frame == UNCHANGED <<faults, pool, call, filled, list, todo, loaded, report,
                                availability, history>>
<1>3. ASSUME NEW d \in Doc, NEW label \in Labels, Save(j, d, label), Frame PROVE TypeOK'
  BY <1>3, SaveType DEF TypeOK, history
<1> DEFINE S == {"IN_PROGRESS", "DONE", "FAILED"}
<1>4. /\ Edit(doc[j], "IN_PROGRESS", "otto_create_queued") \in Doc
      /\ Edit(doc[j], "IN_PROGRESS", "final_validation_in_progress") \in Doc
      /\ Edit(doc[j], "FAILED", "final_validation_failed") \in Doc
      /\ Edit(doc[j], "FAILED", "otto_create_failed") \in Doc
      /\ [doc[j] EXCEPT !.eans = list[j]] \in Doc
      /\ [doc[j] EXCEPT !.step = "otto_create_in_progress"] \in Doc
      /\ [doc[j] EXCEPT !.availability = "QUEUED"] \in Doc
  BY <1>0, DocEdits DEF Steps
<1>5. {"enqueue", "fill", "validate", "create_own", "save_availability", "end",
       "enqueue_availability"} \subseteq Labels
  BY DEF Labels
<1>6. CASE SaveQueued(j)
  BY <1>6, <1>3, <1>4, <1>5 DEF SaveQueued
<1>7. CASE SaveStart(j)
  BY <1>7, <1>3, <1>4, <1>5 DEF SaveStart
<1>8. CASE SaveEans(j)
  BY <1>8, <1>3, <1>4, <1>5 DEF SaveEans
<1>9. CASE SaveCreate(j)
  BY <1>9, <1>3, <1>4, <1>5 DEF SaveCreate
<1>10. CASE SaveResult(j)
  BY <1>10, <1>0, <1>3, <1>5 DEF SaveResult
<1>11. CASE SaveAvailability(j)
  BY <1>11, <1>3, <1>4, <1>5 DEF SaveAvailability
<1>12. CASE SaveInvalid(j) \/ SaveFailed(j) \/ SavePreview(j)
  BY <1>12, <1>0, <1>3, <1>4, <1>5 DEF SaveInvalid, SaveFailed, SavePreview
<1> QED
  BY <1>1, <1>2, <1>6, <1>7, <1>8, <1>9, <1>10, <1>11, <1>12

\* When an exception came is one of four moments.
LEMMA RaisedAtType ==
    ASSUME NEW j \in Jobs
    PROVE  RaisedAt(j) \in {"before", "asking", "marked", "again"}
BY DEF RaisedAt

\* Steps that handle assignments without touching the pool.
LEMMA AssignmentsType ==
    ASSUME TypeOK, UNCHANGED faults, NEW j \in Jobs,
           \/ Filled(j) \/ PoolExhausted(j) \/ ValidationFails(j) \/ Validated(j)
           \/ Settle(j) \/ Marked(j) \/ EnqueueAvailability(j) \/ ReleaseLoopDone(j)
           \/ Raises(j) \/ LoopSkips(j) \/ Kill(j)
    PROVE  TypeOK'
<1> USE DEF TypeOK, history
<1>1. CASE Filled(j) \/ EnqueueAvailability(j) \/ Marked(j)
  BY <1>1 DEF Filled, EnqueueAvailability, Marked, Goto, Labels
<1>2. CASE PoolExhausted(j) \/ Raises(j)
  <2>1. /\ UNCHANGED <<pool, call, doc, task, filled, list, loaded, report, availability,
                      held, listed, byHand>>
        /\ Unwind(j) /\ lost' \in {lost, lost \cup held[j]}
        /\ raised' \in {[raised EXCEPT ![j] = "before"], [raised EXCEPT ![j] = RaisedAt(j)]}
    BY <1>2 DEF PoolExhausted, Raises
  <2>2. raised' \in [Jobs -> {"no", "before", "asking", "marked", "again"}]
    BY <2>1, RaisedAtType
  <2> HIDE DEF TypeOK
  <2>3. pc' \in [Jobs -> Labels] /\ todo' \in [Jobs -> SUBSET Eans]
    BY <2>1 DEF TypeOK, Unwind, Handler, Goto, Labels, ReleaseLoops
  <2>4. lost' \subseteq Eans
    BY <2>1 DEF TypeOK
  <2> QED
    BY <2>1, <2>2, <2>3, <2>4 DEF TypeOK
<1>3. CASE ValidationFails(j) \/ Validated(j)
  BY <1>3 DEF ValidationFails, Validated, Goto, Labels, ReleaseLoops
<1>4. CASE Settle(j)
  <2>1. \A status \in {"DONE", "FAILED"} : Edit(doc[j], status, "otto_create_done") \in Doc
    BY DocEdits DEF Steps
  <2> QED
    BY <1>4, <2>1 DEF Settle, Goto, Labels, ReleaseLoops
<1>5. CASE ReleaseLoopDone(j)
  BY <1>5 DEF ReleaseLoopDone, AfterLoop, Goto, Labels
<1>6. CASE LoopSkips(j)
  BY <1>6 DEF LoopSkips, Call
<1>7. CASE Kill(j)
  BY <1>7 DEF Kill, Goto, Labels, Call
<1> QED
  BY <1>1, <1>2, <1>3, <1>4, <1>5, <1>6, <1>7

\* Steps of the pool calls and of the requests to OTTO.
LEMMA EffectsType ==
    ASSUME TypeOK, UNCHANGED faults, NEW j \in Jobs,
           \/ FillOne(j) \/ LoadToMark(j) \/ CommitMark(j) \/ LoadToRelease(j)
           \/ CommitToRelease(j) \/ CreateOwn(j) \/ CreateXl(j) \/ RequestRaises(j)
    PROVE  TypeOK'
<1>1. CASE FillOne(j)
  <2>1. PICK e \in Eans : /\ pool' = Reserved(pool, e, Process[j])
                          /\ held' = [held EXCEPT ![j] = @ \cup {e}]
    BY <1>1 DEF FillOne
  <2>2. Process[j] \in Clients \cup Processes
    BY JobsAssumption
  <2>3. pool' \in [Eans -> JobPoolRow]
    BY <2>1, <2>2, JobRowsAreRows DEF TypeOK
  <2> QED
    BY <1>1, <2>1, <2>3 DEF FillOne, TypeOK, jobVars
<1>2. CASE LoadToMark(j) \/ LoadToRelease(j)
  <2>1. \A e \in Eans, op \in {"use", "release"} : Pending(op, e, pool[e].status) \in Call
    BY DEF TypeOK, JobPoolRow, Call, Pending
  <2>2. todo[j] \in SUBSET Eans
    BY DEF TypeOK
  <2>3. loaded' \in [Jobs -> Call] /\ todo' \in [Jobs -> SUBSET Eans]
    <3>1. CASE LoadToMark(j)
      BY <2>1, <2>2, <3>1 DEF LoadToMark, TypeOK, history
    <3>2. CASE LoadToRelease(j)
      <4>1. PICK e \in todo[j] :
              \/ /\ loaded' = [loaded EXCEPT ![j] = Pending("release", e, pool[e].status)]
                 /\ UNCHANGED todo
              \/ /\ todo' = [todo EXCEPT ![j] = @ \ {e}]
                 /\ UNCHANGED loaded
        BY <3>2 DEF LoadToRelease
      <4>2. Pending("release", e, pool[e].status) \in Call /\ todo[j] \ {e} \in SUBSET Eans
        BY <2>1, <2>2
      <4>3. loaded \in [Jobs -> Call] /\ todo \in [Jobs -> SUBSET Eans]
        BY DEF TypeOK
      <4> HIDE <2>1
      <4> QED
        BY <4>1, <4>2, <4>3
    <3> QED
      BY <1>2, <3>1, <3>2
  <2> QED
    BY <1>2, <2>3 DEF LoadToMark, LoadToRelease, TypeOK, history
<1>3. CASE CommitMark(j)
  <2>1. loaded[j].ean \in Eans
    BY <1>3, LoadedEan DEF CommitMark
  <2>2. pool' \in [Eans -> JobPoolRow]
    BY <1>3, <2>1 DEF CommitMark, TypeOK, MarkedUsed, JobPoolRow, EanPoolStatuses
  <2> QED
    BY <1>3, <2>2 DEF CommitMark, TypeOK, history, Call
<1>4. CASE CommitToRelease(j)
  <2>1. loaded[j].ean \in Eans
    BY <1>4, LoadedEan DEF CommitToRelease
  <2>2. pool' \in [Eans -> JobPoolRow]
    BY <1>4, <2>1 DEF CommitToRelease, TypeOK, Released, AvailableRow, JobPoolRow, EanPoolStatuses
  <2> QED
    BY <1>4, <2>2 DEF CommitToRelease, TypeOK, Call
<1>5. ASSUME NEW account \in {"own", "xl"}, NEW next \in Labels, Create(j, account, next)
      PROVE  TypeOK'
  <2>1. list[j] \in SUBSET Eans /\ Count(j) \in Nat
    BY CountType DEF TypeOK, Count
  <2>2. \A m, n \in 0..Count(j) : Answer(m, n) \in Reports
    BY <2>1 DEF Answer, Reports
  <2>3. PICK A \in SUBSET list[j], succeeded \in 0..Count(j), failed \in 0..Count(j) :
          /\ listed' = [listed EXCEPT ![j][account] = A]
          /\ report' = [report EXCEPT ![j][account] = Answer(succeeded, failed)]
          /\ Goto(j, next)
          /\ UNCHANGED <<pool, call, doc, task, filled, list, todo, loaded, availability,
                         held, lost, raised, byHand>>
    BY <1>5 DEF Create
  <2> HIDE <2>1
  <2> QED
    BY <2>1, <2>2, <2>3 DEF TypeOK, Goto
<1>6. CASE CreateOwn(j)
  BY <1>5, <1>6 DEF CreateOwn, Labels
<1>7. CASE CreateXl(j)
  BY <1>5, <1>7 DEF CreateXl, Labels
<1>8. CASE RequestRaises(j)
  <2>1. PICK account \in {"own", "xl"}, A \in SUBSET list[j] :
          listed' = [listed EXCEPT ![j][account] = A]
    BY <1>8 DEF RequestRaises, Accounts
  <2>2. /\ UNCHANGED <<pool, call, doc, task, filled, list, loaded, report, availability,
                      held, lost, byHand>>
        /\ Unwind(j) /\ raised' = [raised EXCEPT ![j] = RaisedAt(j)]
    BY <1>8 DEF RequestRaises
  <2>3. raised' \in [Jobs -> {"no", "before", "asking", "marked", "again"}]
    BY <2>2, RaisedAtType DEF TypeOK
  <2>4. pc' \in [Jobs -> Labels] /\ todo' \in [Jobs -> SUBSET Eans]
    BY <2>2 DEF TypeOK, Unwind, Handler, Goto, Labels, ReleaseLoops
  <2>5. listed' \in [Jobs -> [{"own", "xl"} -> SUBSET Eans]]
    BY <2>1 DEF TypeOK
  <2> QED
    BY <2>2, <2>3, <2>4, <2>5 DEF TypeOK
<1> QED
  BY <1>1, <1>2, <1>3, <1>4, <1>6, <1>7, <1>8

\* The users of the ean-pool routes keep the shared table well formed.
LEMMA ConsoleType ==
    ASSUME TypeOK, UNCHANGED faults, NEW c \in Clients, ConsoleStep(c)
    PROVE  TypeOK'
<1>0. UNCHANGED <<jobVars, held, listed, lost, raised>> /\ byHand' \subseteq Eans
  <2>1. CASE byHand' = byHand
    BY <2>1 DEF ConsoleStep, TypeOK
  <2>2. CASE (CommitUse(c) \/ CommitRelease(c)) /\ byHand' = byHand \cup {call[c].ean}
    <3>1. call[c].ean \in Eans
      BY <2>2 DEF CommitUse, CommitRelease, TypeOK, Call, Idle
    <3> QED
      BY <2>2, <3>1 DEF ConsoleStep, TypeOK
  <2> QED
    BY <2>1, <2>2 DEF ConsoleStep
<1>1. pool' \in [Eans -> JobPoolRow] /\ call' \in [Clients -> Call]
  <2>0. AvailableRow \in JobPoolRow
    BY DEF AvailableRow, JobPoolRow, EanPoolStatuses
  <2>1. CASE Import(c)
    BY <2>0, <2>1 DEF Import, TypeOK
  <2>2. CASE Reserve(c)
    <3>1. PICK e \in Eans : pool' = Reserved(pool, e, c)
      BY <2>2 DEF Reserve
    <3>2. c \in Clients \cup Processes
      OBVIOUS
    <3> QED
      BY <2>2, <3>1, <3>2, JobRowsAreRows DEF Reserve, TypeOK
  <2>3. CASE LoadForUse(c) \/ LoadForRelease(c)
    <3>1. \A e \in Eans, op \in {"use", "release"} : Pending(op, e, pool[e].status) \in Call
      BY DEF TypeOK, JobPoolRow, Call, Pending
    <3> QED
      BY <2>3, <3>1 DEF LoadForUse, LoadForRelease, TypeOK
  <2>4. CASE CommitUse(c)
    <3>1. call[c].ean \in Eans
      BY <2>4 DEF CommitUse, TypeOK, Call, Idle
    <3> QED
      BY <2>4, <3>1 DEF CommitUse, TypeOK, MarkedUsed, JobPoolRow, EanPoolStatuses, Call
  <2>5. CASE CommitRelease(c)
    <3>1. call[c].ean \in Eans
      BY <2>5 DEF CommitRelease, TypeOK, Call, Idle
    <3> QED
      BY <2>0, <2>5, <3>1 DEF CommitRelease, TypeOK, Released, Call
  <2>6. CASE Abort(c)
    BY <2>6 DEF Abort, TypeOK, Call
  <2> QED
    BY <2>1, <2>2, <2>3, <2>4, <2>5, <2>6 DEF ConsoleStep
<1> QED
  BY <1>0, <1>1 DEF TypeOK, jobVars

\* Whatever goes wrong around the jobs, every variable keeps its shape.
THEOREM TypeCorrect == Spec => []TypeOK
<1>1. TypeOK /\ [Next]_vars => TypeOK'
  <2> SUFFICES ASSUME TypeOK, [Next]_vars PROVE TypeOK'
    OBVIOUS
  <2>1. CASE UNCHANGED vars
    BY <2>1 DEF vars, jobVars, history, TypeOK
  <2>2. ASSUME NEW j \in Jobs, UserStep(j) \/ JobStep(j) \/ FaultStep(j), UNCHANGED faults
        PROVE  TypeOK'
    BY <2>2, MovesType, AssignmentsType, EffectsType DEF UserStep, JobStep, FaultStep
  <2>3. ASSUME NEW c \in Clients, ConsoleStep(c), UNCHANGED faults PROVE TypeOK'
    BY <2>3, ConsoleType
  <2> QED
    BY <2>1, <2>2, <2>3 DEF Next
<1> QED
  BY <1>1, InitType, PTL DEF Spec

-----------------------------------------------------------------------------
(* What every step of a job leaves alone, and what it only lets grow.       *)

Markets == {"own", "xl"}

\* The documents, assignments, answers and pool calls of the other jobs.
OthersUntouched(j) ==
    \A k \in Jobs : k # j =>
        /\ pc'[k] = pc[k] /\ doc'[k] = doc[k] /\ list'[k] = list[k]
        /\ todo'[k] = todo[k] /\ loaded'[k] = loaded[k] /\ report'[k] = report[k]
        /\ held'[k] = held[k] /\ listed'[k] = listed[k] /\ raised'[k] = raised[k]

LEMMA StepsAreLocal ==
    ASSUME TypeOK, NEW j \in Jobs, UserStep(j) \/ JobStep(j) \/ FaultStep(j)
    PROVE  OthersUntouched(j)
<1> USE DEF TypeOK, OthersUntouched, Goto, Unwind, history, jobVars, ReadTask, Save
<1>1. CASE UserStep(j)
  BY <1>1 DEF UserStep, Click, Preview
<1>2. CASE \/ SaveQueued(j) \/ Enqueue(j) \/ Start(j) \/ SaveStart(j) \/ SaveEans(j)
           \/ SaveCreate(j) \/ SaveResult(j) \/ SaveAvailability(j)
           \/ SaveInvalid(j) \/ SaveFailed(j) \/ SavePreview(j)
  BY <1>2 DEF SaveQueued, Enqueue, Start, SaveStart, SaveEans, SaveCreate, SaveResult,
              SaveAvailability, SaveInvalid, SaveFailed, SavePreview
<1>3. CASE FillOne(j) \/ Filled(j) \/ PoolExhausted(j) \/ ValidationFails(j) \/ Validated(j)
  BY <1>3 DEF FillOne, Filled, PoolExhausted, ValidationFails, Validated
<1>4. CASE CreateOwn(j) \/ CreateXl(j) \/ Settle(j)
  BY <1>4 DEF CreateOwn, CreateXl, Create, Settle
<1>5. CASE LoadToMark(j) \/ CommitMark(j) \/ Marked(j) \/ EnqueueAvailability(j)
  BY <1>5 DEF LoadToMark, CommitMark, Marked, EnqueueAvailability
<1>6. CASE LoadToRelease(j) \/ CommitToRelease(j) \/ ReleaseLoopDone(j)
  BY <1>6 DEF LoadToRelease, CommitToRelease, ReleaseLoopDone
<1>7. CASE FaultStep(j)
  BY <1>7 DEF FaultStep, Raises, RequestRaises, GivesUp, LoopSkips, Kill
<1> QED
  BY <1>1, <1>2, <1>3, <1>4, <1>5, <1>6, <1>7 DEF JobStep

\* The jobs touch nothing of what the history says of the users' hands, and
\* lost EANs stay lost.
LEMMA LostStays ==
    ASSUME NEW j \in Jobs, UserStep(j) \/ JobStep(j) \/ FaultStep(j)
    PROVE  lost \subseteq lost' /\ byHand' = byHand
<1> USE DEF history, jobVars
<1>1. CASE UserStep(j) \/ SaveQueued(j) \/ Enqueue(j) \/ Start(j) \/ SaveStart(j)
           \/ FillOne(j) \/ Filled(j) \/ PoolExhausted(j) \/ SaveEans(j)
           \/ ValidationFails(j) \/ Validated(j) \/ SaveCreate(j) \/ CreateOwn(j)
           \/ CreateXl(j) \/ Settle(j)
  BY <1>1 DEF UserStep, Click, Preview, SaveQueued, Enqueue, Start, SaveStart, FillOne,
       Filled, PoolExhausted, SaveEans, ValidationFails, Validated, SaveCreate, CreateOwn,
       CreateXl, Create, Settle
<1>2. CASE LoadToMark(j) \/ CommitMark(j) \/ Marked(j) \/ SaveResult(j)
           \/ SaveAvailability(j) \/ EnqueueAvailability(j) \/ LoadToRelease(j)
           \/ CommitToRelease(j) \/ ReleaseLoopDone(j) \/ SaveInvalid(j)
           \/ SaveFailed(j) \/ SavePreview(j) \/ FaultStep(j)
  BY <1>2 DEF LoadToMark, CommitMark, Marked, SaveResult, SaveAvailability,
       EnqueueAvailability, LoadToRelease, CommitToRelease, ReleaseLoopDone, SaveInvalid,
       SaveFailed, SavePreview, FaultStep, Raises, RequestRaises, GivesUp, LoopSkips, Kill
<1> QED
  BY <1>1, <1>2 DEF JobStep

-----------------------------------------------------------------------------
(* The answers of OTTO, and what the job makes of them.                    *)

\* Labels before the first request to OTTO.
Unlisted == {"idle", "save_queued", "enqueue", "queued", "save_start", "fill",
             "save_eans", "validate", "save_create", "create_own"}

\* Labels at which every account of the job has answered.
Answered == {"settle", "mark", "undo_create", "save_result", "save_availability",
             "enqueue_availability"}

\* Labels of a job whose course an exception has ended.
Raised == {"undo", "undo_preview_error", "save_failed", "end", "dead"}

\* The requests are made and answered in their order, for the assignments.
AnswerOrder(j) ==
    /\ pc[j] \in Unlisted => ~report[j]["own"].called /\ listed[j]["own"] = {}
    /\ pc[j] \in Unlisted \cup {"create_xl"} => ~report[j]["xl"].called /\ listed[j]["xl"] = {}
    /\ pc[j] = "create_xl" => report[j]["own"].called
    /\ pc[j] \in Answered => \A a \in Accounts(j) : report[j][a].called
    /\ \A a \in Markets : /\ ~report[j][a].called => report[j][a] = NoReport
                          /\ listed[j][a] \subseteq list[j]

\* The availability job follows a creation in which every account counted all.
VerdictFollowed(j) ==
    /\ pc[j] \in Answered \ {"settle"} /\ doc[j].status = "DONE" => NoneFailed(j)
    /\ pc[j] \in {"save_availability", "enqueue_availability"} =>
         \A a \in Accounts(j) : report[j][a].succeeded >= Count(j)
    /\ j \in availability =>
         /\ pc[j] = "end"
         /\ \A a \in Accounts(j) : report[j][a].succeeded >= Count(j)

\* An exception ends the course of the job.
RaisedOrder(j) == raised[j] # "no" => pc[j] \in Raised

AnswerInv(j) == AnswerOrder(j) /\ VerdictFollowed(j) /\ RaisedOrder(j)

AnswersInv == \A j \in Jobs : AnswerInv(j)

\* An account that is said to have taken them all has, or was overcounted.
LEMMA TakenOrOvercounted ==
    ASSUME TypeOK, NEW j \in Jobs, NEW a \in Markets, AnswerOrder(j),
           report[j][a].succeeded >= Count(j)
    PROVE  listed[j][a] = list[j] \/ Overcounted(j, a)
<1>1. list[j] \in SUBSET Eans /\ listed[j][a] \subseteq list[j]
  BY DEF TypeOK, AnswerOrder
<1>2. /\ IsFiniteSet(list[j]) /\ Count(j) \in Nat
      /\ Cardinality(listed[j][a]) \in Nat
      /\ report[j][a].succeeded \in Nat
  BY <1>1, CountType DEF Count, TypeOK, Markets, Reports
<1>3. listed[j][a] = list[j] \/ Cardinality(listed[j][a]) < Cardinality(list[j])
  BY <1>1, <1>2, FS_Subset DEF Count
<1> QED
  BY <1>2, <1>3 DEF Overcounted, Count

\* Nothing that a job's answers and listings depend on is another job's.
LEMMA OtherAnswerInv ==
    ASSUME TypeOK, NEW j \in Jobs, OthersUntouched(j), NEW k \in Jobs, k # j,
           availability' \subseteq availability \cup {j}, AnswerInv(k)
    PROVE  AnswerInv(k)'
<1>1. /\ pc'[k] = pc[k] /\ doc'[k] = doc[k] /\ list'[k] = list[k]
      /\ report'[k] = report[k] /\ listed'[k] = listed[k] /\ raised'[k] = raised[k]
      /\ k \in availability' => k \in availability
  BY DEF OthersUntouched
<1>2. AnswerOrder(k)'
  BY <1>1 DEF AnswerInv, AnswerOrder
<1>3. VerdictFollowed(k)'
  BY <1>1 DEF AnswerInv, VerdictFollowed, NoneFailed, Count
<1>4. RaisedOrder(k)'
  BY <1>1 DEF AnswerInv, RaisedOrder
<1> QED
  BY <1>2, <1>3, <1>4 DEF AnswerInv

\* Before the first request.
LEMMA EarlyAnswer ==
    ASSUME TypeOK, NEW j \in Jobs, AnswerInv(j),
           \/ UserStep(j) \/ SaveQueued(j) \/ Enqueue(j) \/ Start(j) \/ SaveStart(j)
           \/ FillOne(j) \/ Filled(j) \/ SaveEans(j) \/ ValidationFails(j)
           \/ Validated(j) \/ SaveCreate(j)
    PROVE  AnswerInv(j)' /\ availability' = availability
<1>1. /\ UNCHANGED <<report, listed, availability, raised>>
      /\ pc[j] \in Unlisted /\ pc'[j] \in Unlisted \cup {"undo_invalid", "undo_preview"}
  <2> USE DEF TypeOK, Goto, Save, ReadTask, history, jobVars, Unlisted
  <2>1. CASE UserStep(j) \/ SaveQueued(j) \/ Enqueue(j) \/ Start(j)
    BY <2>1 DEF UserStep, Click, Preview, SaveQueued, Enqueue, Start
  <2>2. CASE SaveStart(j) \/ FillOne(j) \/ Filled(j) \/ SaveEans(j) \/ SaveCreate(j)
    BY <2>2 DEF SaveStart, FillOne, Filled, SaveEans, SaveCreate
  <2>3. CASE Validated(j) \/ ValidationFails(j)
    BY <2>3 DEF Validated, ValidationFails
  <2> QED
    BY <2>1, <2>2, <2>3
<1>2. /\ ~report[j]["own"].called /\ ~report[j]["xl"].called
      /\ listed[j]["own"] = {} /\ listed[j]["xl"] = {}
      /\ \A a \in Markets : report[j][a] = NoReport
      /\ j \notin availability /\ raised[j] = "no"
  BY <1>1 DEF AnswerInv, AnswerOrder, VerdictFollowed, RaisedOrder, Unlisted, Raised, Markets
<1>3. AnswerOrder(j)'
  BY <1>1, <1>2 DEF AnswerOrder, Markets, Unlisted, Answered
<1> QED
  BY <1>1, <1>2, <1>3 DEF AnswerInv, VerdictFollowed, RaisedOrder, Unlisted, Answered

\* A job that leaves its course, or ends it without an availability job.
LEMMA LeavingAnswer ==
    ASSUME TypeOK, NEW j \in Jobs, AnswerInv(j),
           pc[j] \notin {"end", "dead"},
           pc'[j] \notin Unlisted \cup {"create_xl"} \cup Answered,
           RaisedOrder(j)',
           UNCHANGED <<report, list, availability>>,
           \/ UNCHANGED listed
           \/ \E a \in Markets, A \in SUBSET list[j] : listed' = [listed EXCEPT ![j][a] = A]
    PROVE  AnswerInv(j)'
<1>1. \A a \in Markets : listed'[j][a] \subseteq list[j]
  BY DEF AnswerInv, AnswerOrder, TypeOK, Markets
<1>2. AnswerOrder(j)'
  BY <1>1 DEF AnswerInv, AnswerOrder
<1>3. j \notin availability
  BY DEF AnswerInv, VerdictFollowed
<1>4. VerdictFollowed(j)'
  BY <1>3 DEF VerdictFollowed, Answered
<1> QED
  BY <1>2, <1>4 DEF AnswerInv

\* A request to OTTO is answered.
LEMMA CreateAnswer ==
    ASSUME TypeOK, NEW j \in Jobs, AnswerInv(j), CreateOwn(j) \/ CreateXl(j)
    PROVE  AnswerInv(j)' /\ availability' = availability
<1>1. PICK account \in Markets : \E A \in SUBSET list[j], m, n \in 0..Count(j) :
        /\ listed' = [listed EXCEPT ![j][account] = A]
        /\ report' = [report EXCEPT ![j][account] = Answer(m, n)]
        /\ \/ /\ account = "own" /\ pc[j] = "create_own"
              /\ pc'[j] = IF j \in DualAccount THEN "create_xl" ELSE "settle"
           \/ account = "xl" /\ pc[j] = "create_xl" /\ pc'[j] = "settle"
        /\ UNCHANGED <<list, doc, availability, raised>>
  BY DEF CreateOwn, CreateXl, Create, Goto, TypeOK, Markets
<1>2. PICK A \in SUBSET list[j], m \in 0..Count(j), n \in 0..Count(j) :
        /\ listed' = [listed EXCEPT ![j][account] = A]
        /\ report' = [report EXCEPT ![j][account] = Answer(m, n)]
  BY <1>1
<1>3. /\ listed'[j][account] = A /\ report'[j][account] = Answer(m, n)
      /\ \A a \in Markets : a # account => /\ listed'[j][a] = listed[j][a]
                                           /\ report'[j][a] = report[j][a]
  BY <1>2 DEF TypeOK, Markets
<1>4. report'[j][account].called
  BY <1>3 DEF Answer
<1>5. /\ pc[j] = "create_own" => ~report[j]["xl"].called /\ listed[j]["xl"] = {}
      /\ pc[j] = "create_xl" => report[j]["own"].called
      /\ j \notin availability /\ raised[j] = "no"
  BY <1>1 DEF AnswerInv, AnswerOrder, VerdictFollowed, RaisedOrder, Raised, Unlisted
<1>6. \A a \in Markets : /\ ~report'[j][a].called => report'[j][a] = NoReport
                         /\ listed'[j][a] \subseteq list'[j]
  BY <1>1, <1>3, <1>4 DEF AnswerInv, AnswerOrder
<1>7. AnswerOrder(j)'
  BY <1>1, <1>3, <1>4, <1>5, <1>6 DEF AnswerOrder, Accounts, Markets, Unlisted, Answered
<1>8. VerdictFollowed(j)' /\ RaisedOrder(j)'
  BY <1>1, <1>5 DEF VerdictFollowed, RaisedOrder, Answered
<1> QED
  BY <1>1, <1>7, <1>8 DEF AnswerInv

\* From the verdict to the end of the job.
LEMMA VerdictAnswer ==
    ASSUME TypeOK, NEW j \in Jobs, AnswerInv(j),
           \/ Settle(j) \/ LoadToMark(j) \/ CommitMark(j) \/ Marked(j)
           \/ SaveResult(j) \/ SaveAvailability(j) \/ EnqueueAvailability(j)
    PROVE  AnswerInv(j)' /\ availability' \subseteq availability \cup {j}
<1> USE DEF TypeOK, Goto, Save, history
<1>1. UNCHANGED <<report, listed, list, raised>> /\ pc[j] \in Answered
  BY DEF Settle, LoadToMark, CommitMark, Marked, SaveResult, SaveAvailability,
         EnqueueAvailability, Answered
<1>2. /\ Count(j)' = Count(j) /\ (NoneFailed(j)' <=> NoneFailed(j))
      /\ \A a \in Accounts(j) : report[j][a].called
      /\ j \notin availability /\ raised[j] = "no"
  BY <1>1 DEF Count, NoneFailed, AnswerInv, AnswerOrder, VerdictFollowed, RaisedOrder,
              Answered, Raised
<1>3. RaisedOrder(j)'
  BY <1>1, <1>2 DEF RaisedOrder
<1>4. pc'[j] \in Answered \cup {"end"} => AnswerOrder(j)'
  BY <1>1, <1>2 DEF AnswerInv, AnswerOrder, Unlisted, Answered
<1>5. CASE Settle(j)
  <2>1. /\ availability' = availability /\ pc'[j] \in {"mark", "undo_create"}
        /\ doc'[j].status = "DONE" => NoneFailed(j)
    BY <1>5 DEF Settle, Edit, Doc
  <2> QED
    BY <1>2, <1>3, <1>4, <2>1 DEF AnswerInv, VerdictFollowed, Answered
<1>6. CASE LoadToMark(j) \/ CommitMark(j) \/ Marked(j)
  <2>1. /\ UNCHANGED <<availability, doc>> /\ pc[j] = "mark"
        /\ pc'[j] \in {"mark", "save_result"}
    BY <1>6 DEF LoadToMark, CommitMark, Marked
  <2> QED
    BY <1>2, <1>3, <1>4, <2>1 DEF AnswerInv, VerdictFollowed, Answered
<1>7. CASE SaveResult(j)
  <2>1. /\ availability' = availability /\ doc'[j] = doc[j] /\ pc[j] = "save_result"
        /\ pc'[j] = IF AllSucceeded(j) THEN "save_availability" ELSE "end"
    BY <1>7 DEF SaveResult
  <2>2. AllSucceeded(j) => \A a \in Accounts(j) : report[j][a].succeeded >= Count(j)
    BY DEF AllSucceeded
  <2> QED
    BY <1>1, <1>2, <1>3, <1>4, <2>1, <2>2 DEF AnswerInv, VerdictFollowed, Answered
<1>8. CASE SaveAvailability(j)
  <2>1. /\ availability' = availability /\ doc'[j].status = doc[j].status
        /\ pc[j] = "save_availability" /\ pc'[j] = "enqueue_availability"
    BY <1>8 DEF SaveAvailability, Doc
  <2> QED
    BY <1>1, <1>2, <1>3, <1>4, <2>1 DEF AnswerInv, VerdictFollowed, Answered
<1>9. CASE EnqueueAvailability(j)
  <2>1. /\ availability' = availability \cup {j}
        /\ pc[j] = "enqueue_availability" /\ pc'[j] = "end"
    BY <1>9 DEF EnqueueAvailability
  <2> QED
    BY <1>1, <1>2, <1>3, <1>4, <2>1 DEF AnswerInv, VerdictFollowed, Answered
<1> QED
  BY <1>5, <1>6, <1>7, <1>8, <1>9

\* Releases, their ends, and everything that goes wrong.
LEMMA UndoAnswer ==
    ASSUME TypeOK, NEW j \in Jobs, AnswerInv(j),
           \/ LoadToRelease(j) \/ CommitToRelease(j) \/ ReleaseLoopDone(j) \/ LoopSkips(j)
           \/ SaveInvalid(j) \/ SaveFailed(j) \/ SavePreview(j)
           \/ PoolExhausted(j) \/ Raises(j) \/ RequestRaises(j) \/ GivesUp(j) \/ Kill(j)
    PROVE  AnswerInv(j)' /\ availability' = availability
<1> USE DEF TypeOK, Goto, Save, history
<1>1. UNCHANGED <<report, list, availability>> /\ pc[j] \notin {"end", "dead"}
  <2>1. CASE LoadToRelease(j) \/ CommitToRelease(j) \/ ReleaseLoopDone(j) \/ LoopSkips(j)
    BY <2>1 DEF LoadToRelease, CommitToRelease, ReleaseLoopDone, LoopSkips, ReleaseLoops
  <2>2. CASE SaveInvalid(j) \/ SaveFailed(j) \/ SavePreview(j) \/ GivesUp(j) \/ Kill(j)
    BY <2>2 DEF SaveInvalid, SaveFailed, SavePreview, GivesUp, Kill, Finished
  <2>3. CASE PoolExhausted(j) \/ Raises(j)
    BY <2>3 DEF PoolExhausted, Raises
  <2>4. CASE RequestRaises(j)
    BY <2>4 DEF RequestRaises
  <2> QED
    BY <2>1, <2>2, <2>3, <2>4
<1>2. CASE LoadToRelease(j) \/ CommitToRelease(j) \/ LoopSkips(j)
  <2>1. UNCHANGED <<pc, doc, listed, raised>> /\ pc[j] \in ReleaseLoops \cup {"mark"}
    BY <1>2 DEF LoadToRelease, CommitToRelease, LoopSkips
  <2>2. Count(j)' = Count(j) /\ (NoneFailed(j)' <=> NoneFailed(j))
    BY <1>1 DEF Count, NoneFailed
  <2> QED
    BY <1>1, <2>1, <2>2 DEF AnswerInv, AnswerOrder, VerdictFollowed, RaisedOrder
<1>3. CASE ReleaseLoopDone(j)
  <2>1. /\ UNCHANGED <<doc, listed, raised>> /\ pc[j] \in ReleaseLoops
        /\ pc'[j] = AfterLoop(pc[j])
    BY <1>3 DEF ReleaseLoopDone
  <2>2. CASE pc[j] = "undo_create"
    <3>1. pc'[j] = "save_result"
      BY <2>1, <2>2 DEF AfterLoop
    <3>2. Count(j)' = Count(j) /\ (NoneFailed(j)' <=> NoneFailed(j))
      BY <1>1 DEF Count, NoneFailed
    <3> QED
      BY <1>1, <2>1, <2>2, <3>1, <3>2
         DEF AnswerInv, AnswerOrder, VerdictFollowed, RaisedOrder, Unlisted, Answered, Raised
  <2>3. CASE pc[j] # "undo_create"
    <3>1. pc'[j] \in {"save_invalid", "save_failed", "save_preview", "end"}
      BY <2>1, <2>3 DEF AfterLoop, ReleaseLoops
    <3>2. RaisedOrder(j)'
      BY <2>1, <2>3 DEF AnswerInv, RaisedOrder, Raised, AfterLoop, ReleaseLoops
    <3> QED
      BY <1>1, <2>1, <3>1, <3>2, LeavingAnswer DEF Unlisted, Answered
  <2> QED
    BY <2>2, <2>3
<1>4. CASE SaveInvalid(j) \/ SaveFailed(j) \/ SavePreview(j) \/ GivesUp(j) \/ Kill(j)
  <2>1. UNCHANGED listed /\ pc'[j] \in {"end", "dead"}
    BY <1>4 DEF SaveInvalid, SaveFailed, SavePreview, GivesUp, Kill
  <2>2. RaisedOrder(j)'
    BY <2>1 DEF RaisedOrder, Raised
  <2> QED
    BY <1>1, <2>1, <2>2, LeavingAnswer DEF Unlisted, Answered
<1>5. CASE PoolExhausted(j) \/ Raises(j) \/ RequestRaises(j)
  <2>1. pc'[j] = Handler(j)
    BY <1>5 DEF PoolExhausted, Raises, RequestRaises, Unwind, Handler
  <2>2. pc'[j] \in {"undo", "undo_preview_error"}
    BY <2>1 DEF Handler
  <2>3. RaisedOrder(j)'
    BY <2>2 DEF RaisedOrder, Raised
  <2>4. \/ UNCHANGED listed
        \/ \E a \in Markets, A \in SUBSET list[j] : listed' = [listed EXCEPT ![j][a] = A]
    BY <1>5 DEF PoolExhausted, Raises, RequestRaises, Accounts, Markets
  <2> QED
    BY <1>1, <2>2, <2>3, <2>4, LeavingAnswer DEF Unlisted, Answered
<1> QED
  BY <1>1, <1>2, <1>3, <1>4, <1>5

LEMMA InitAnswers == Init => AnswersInv
BY DEF Init, NothingYet, AnswersInv, AnswerInv, AnswerOrder, VerdictFollowed, RaisedOrder,
       NoReport, Unlisted, Answered, Markets

LEMMA NextAnswers ==
    ASSUME TypeOK, AnswersInv, [Next]_vars
    PROVE  AnswersInv'
<1>1. CASE UNCHANGED vars \/ \E c \in Clients : ConsoleStep(c)
  <2>1. UNCHANGED <<pc, doc, list, report, listed, availability, raised>>
    BY <1>1 DEF vars, jobVars, history, ConsoleStep
  <2> QED
    BY <2>1 DEF AnswersInv, AnswerInv, AnswerOrder, VerdictFollowed, RaisedOrder,
                Count, NoneFailed
<1>2. ASSUME NEW j \in Jobs, UserStep(j) \/ JobStep(j) \/ FaultStep(j)
      PROVE  AnswersInv'
  <2>1. AnswerInv(j)' /\ availability' \subseteq availability \cup {j}
    <3>1. AnswerInv(j)
      BY DEF AnswersInv
    <3> QED
      BY <1>2, <3>1, EarlyAnswer, CreateAnswer, VerdictAnswer, UndoAnswer
         DEF JobStep, FaultStep
  <2>2. OthersUntouched(j)
    BY <1>2, StepsAreLocal
  <2> QED
    BY <2>1, <2>2, OtherAnswerInv DEF AnswersInv
<1> QED
  BY <1>1, <1>2 DEF Next

\* Whatever goes wrong around the jobs and whoever works on the pool by hand,
\* an availability job is only sent for products that OTTO has created on
\* every account, or that its counters call created: "Send stock and delivery
\* profile after OTTO product creation succeeds." (tasks.py,
\* submit_factory_availability_task).
THEOREM AvailabilityIsEarned == Spec => []AvailabilityAfterCreation
<1>1. TypeOK /\ AnswersInv => AvailabilityAfterCreation
  <2> SUFFICES ASSUME TypeOK, AnswersInv, NEW j \in availability, NEW a \in Accounts(j)
               PROVE  listed[j][a] = list[j] \/ Overcounted(j, a)
    BY DEF AvailabilityAfterCreation
  <2>1. j \in Jobs /\ a \in Markets
    BY DEF TypeOK, Accounts, Markets
  <2> QED
    BY <2>1, TakenOrOvercounted DEF AnswersInv, AnswerInv, VerdictFollowed
<1>2. TypeOK /\ AnswersInv /\ [Next]_vars => AnswersInv'
  BY NextAnswers
<1> QED
  BY <1>1, <1>2, InitAnswers, TypeCorrect, PTL DEF Spec

-----------------------------------------------------------------------------
(* What has been answered stays; the loops work on the job's assignments.  *)

\* An account that has answered is settled: no later step of the job changes
\* its answer, what it has listed, or what it was asked for.
LEMMA CalledIsSettled ==
    ASSUME TypeOK, NEW j \in Jobs, AnswerInv(j), NEW a \in Markets, report[j][a].called,
           UserStep(j) \/ JobStep(j) \/ FaultStep(j)
    PROVE  report'[j][a] = report[j][a] /\ listed'[j][a] = listed[j][a] /\ list'[j] = list[j]
<1> USE DEF TypeOK, history, jobVars
<1>0. /\ a = "own" => pc[j] \notin Unlisted
      /\ a = "xl" => pc[j] \notin Unlisted \cup {"create_xl"}
      /\ pc[j] \notin {"create_own", "fill"}
  BY DEF AnswerInv, AnswerOrder, Unlisted, Markets
<1>1. CASE UserStep(j) \/ SaveQueued(j) \/ Enqueue(j) \/ Start(j) \/ SaveStart(j)
           \/ FillOne(j) \/ Filled(j) \/ PoolExhausted(j) \/ SaveEans(j)
           \/ ValidationFails(j) \/ Validated(j) \/ SaveCreate(j) \/ Settle(j)
  BY <1>0, <1>1 DEF UserStep, Click, Preview, SaveQueued, Enqueue, Start, SaveStart, FillOne,
              Filled, PoolExhausted, SaveEans, ValidationFails, Validated, SaveCreate, Settle
<1>2. CASE LoadToMark(j) \/ CommitMark(j) \/ Marked(j) \/ SaveResult(j)
           \/ SaveAvailability(j) \/ EnqueueAvailability(j) \/ LoadToRelease(j)
           \/ CommitToRelease(j) \/ ReleaseLoopDone(j) \/ SaveInvalid(j)
           \/ SaveFailed(j) \/ SavePreview(j)
  BY <1>2 DEF LoadToMark, CommitMark, Marked, SaveResult, SaveAvailability,
              EnqueueAvailability, LoadToRelease, CommitToRelease, ReleaseLoopDone,
              SaveInvalid, SaveFailed, SavePreview
<1>3. CASE Raises(j) \/ GivesUp(j) \/ LoopSkips(j) \/ Kill(j)
  BY <1>3 DEF Raises, GivesUp, LoopSkips, Kill
<1>4. CASE CreateOwn(j) \/ CreateXl(j)
  BY <1>0, <1>4 DEF CreateOwn, CreateXl, Create, Markets
<1>5. CASE RequestRaises(j)
  <2>1. /\ UNCHANGED <<report, list>>
        /\ \E account \in Markets, A \in SUBSET list[j] :
             account # a /\ listed' = [listed EXCEPT ![j][account] = A]
    BY <1>0, <1>5 DEF RequestRaises, Accounts, Markets
  <2> QED
    BY <2>1
<1> QED
  BY <1>1, <1>2, <1>3, <1>4, <1>5 DEF JobStep, FaultStep

\* What OTTO has accepted, it has: only a request adds to it, and an account
\* is asked once.
LEMMA ListingsStay ==
    ASSUME TypeOK, NEW j \in Jobs, AnswerInv(j), UserStep(j) \/ JobStep(j) \/ FaultStep(j)
    PROVE  /\ listed[j]["own"] \subseteq listed'[j]["own"]
           /\ listed[j]["xl"] \subseteq listed'[j]["xl"]
           /\ Listed(j) \subseteq Listed(j)'
           /\ CreateOwn(j) \/ CreateXl(j) \/ RequestRaises(j) \/ listed' = listed
<1> USE DEF TypeOK, history, jobVars
<1> DEFINE Goal == /\ listed[j]["own"] \subseteq listed'[j]["own"]
                   /\ listed[j]["xl"] \subseteq listed'[j]["xl"]
<1>1. CASE UserStep(j) \/ SaveQueued(j) \/ Enqueue(j) \/ Start(j) \/ SaveStart(j)
           \/ FillOne(j) \/ Filled(j) \/ PoolExhausted(j) \/ SaveEans(j)
           \/ ValidationFails(j) \/ Validated(j) \/ SaveCreate(j) \/ Settle(j)
  BY <1>1 DEF UserStep, Click, Preview, SaveQueued, Enqueue, Start, SaveStart, Listed,
              FillOne, Filled, PoolExhausted, SaveEans, ValidationFails, Validated, SaveCreate, Settle
<1>2. CASE LoadToMark(j) \/ CommitMark(j) \/ Marked(j) \/ SaveResult(j)
           \/ SaveAvailability(j) \/ EnqueueAvailability(j) \/ LoadToRelease(j)
           \/ CommitToRelease(j) \/ ReleaseLoopDone(j) \/ SaveInvalid(j)
           \/ SaveFailed(j) \/ SavePreview(j)
  BY <1>2 DEF LoadToMark, CommitMark, Marked, SaveResult, SaveAvailability, Listed,
              EnqueueAvailability, LoadToRelease, CommitToRelease, ReleaseLoopDone,
              SaveInvalid, SaveFailed, SavePreview
<1>3. CASE Raises(j) \/ GivesUp(j) \/ LoopSkips(j) \/ Kill(j)
  BY <1>3 DEF Raises, GivesUp, LoopSkips, Kill, Listed
<1>4. CASE CreateOwn(j) \/ CreateXl(j) \/ RequestRaises(j)
  <2>1. \E a \in Markets, A \in SUBSET list[j] :
          /\ listed' = [listed EXCEPT ![j][a] = A]
          /\ pc[j] = IF a = "own" THEN "create_own" ELSE "create_xl"
    BY <1>4 DEF CreateOwn, CreateXl, Create, RequestRaises, Accounts, Markets
  <2>2. PICK a \in Markets, A \in SUBSET list[j] :
          /\ listed' = [listed EXCEPT ![j][a] = A]
          /\ pc[j] = IF a = "own" THEN "create_own" ELSE "create_xl"
    BY <2>1
  <2>3. listed[j][a] = {}
    BY <2>2 DEF AnswerInv, AnswerOrder, Unlisted, Markets
  <2>4. Goal
    BY <2>2, <2>3 DEF Markets
  <2> QED
    BY <1>4, <2>4 DEF Listed
<1> QED
  BY <1>1, <1>2, <1>3, <1>4 DEF JobStep, FaultStep

\* Labels up to the end of the fill.
Unfilled == {"idle", "save_queued", "enqueue", "queued", "save_start", "fill"}

\* What the loops of release and mark_used are about.
LoopOrder(j) ==
    /\ pc[j] \in Unfilled => list[j] = {}
    /\ pc[j] = "mark" => CreateDone(j)
    /\ pc[j] = "undo_create" => ~CreateDone(j)
    /\ pc[j] \in ReleaseLoops \cup {"mark"} => todo[j] \subseteq list[j]
    /\ pc[j] \in ReleaseLoops \cup {"mark"} /\ loaded[j] # Idle => loaded[j].ean \in todo[j]
    /\ pc[j] \notin ReleaseLoops \cup {"mark"} => loaded[j] = Idle

LoopsInOrder == \A j \in Jobs : LoopOrder(j)

\* The loops start with the assignments and only shrink.
LEMMA LoopOrderInv ==
    ASSUME TypeOK, NEW j \in Jobs, LoopOrder(j), UserStep(j) \/ JobStep(j) \/ FaultStep(j)
    PROVE  LoopOrder(j)'
<1> USE DEF TypeOK, Goto, history, jobVars, ReleaseLoops, Unfilled
<1>1. CASE \/ UserStep(j) \/ SaveQueued(j) \/ Enqueue(j) \/ Start(j) \/ SaveStart(j)
           \/ FillOne(j) \/ Filled(j) \/ SaveEans(j) \/ ValidationFails(j)
           \/ Validated(j) \/ SaveCreate(j) \/ CreateOwn(j) \/ CreateXl(j)
  <2>1. /\ loaded' = loaded /\ pc[j] \notin ReleaseLoops \cup {"mark"}
        /\ pc'[j] \notin {"mark", "undo_create"}
        /\ pc'[j] \in ReleaseLoops => todo'[j] = list'[j]
        /\ pc'[j] \in Unfilled => pc[j] \in Unfilled /\ list'[j] = list[j]
    <3>1. CASE UserStep(j) \/ SaveQueued(j) \/ Enqueue(j) \/ Start(j) \/ SaveStart(j)
      BY <3>1 DEF UserStep, Click, Preview, SaveQueued, Enqueue, Start, SaveStart, Save
    <3>2. CASE FillOne(j) \/ Filled(j) \/ SaveEans(j) \/ ValidationFails(j)
      BY <3>2 DEF FillOne, Filled, SaveEans, ValidationFails, Save
    <3>3. CASE Validated(j) \/ SaveCreate(j) \/ CreateOwn(j) \/ CreateXl(j)
      BY <3>3 DEF Validated, SaveCreate, CreateOwn, CreateXl, Create, Save
    <3> QED
      BY <1>1, <3>1, <3>2, <3>3
  <2> QED
    BY <2>1 DEF LoopOrder
<1>2. CASE Settle(j)
  <2>1. /\ UNCHANGED <<loaded, list, report>> /\ todo'[j] = list[j] /\ pc[j] = "settle"
        /\ pc'[j] = IF CreateDone(j) THEN "mark" ELSE "undo_create"
    BY <1>2 DEF Settle
  <2> QED
    BY <2>1 DEF LoopOrder, CreateDone, Count
<1>3. CASE LoadToMark(j) \/ CommitMark(j) \/ Marked(j) \/ LoopSkips(j)
           \/ LoadToRelease(j) \/ CommitToRelease(j)
  <2>1. /\ UNCHANGED <<list, report>> /\ pc[j] \in ReleaseLoops \cup {"mark"}
        /\ \/ UNCHANGED <<pc, todo>> /\ (loaded'[j] # Idle => loaded'[j].ean \in todo[j])
           \/ UNCHANGED pc /\ todo'[j] \subseteq todo[j] /\ loaded'[j] = Idle
           \/ pc[j] = "mark" /\ pc'[j] = "save_result" /\ todo[j] = {} /\ UNCHANGED loaded
    <3>1. CASE LoadToMark(j)
      BY <3>1 DEF LoadToMark, Pending
    <3>2. CASE CommitMark(j) \/ Marked(j) \/ LoopSkips(j)
      BY <3>2 DEF CommitMark, Marked, LoopSkips
    <3>3. CASE LoadToRelease(j)
      BY <3>3 DEF LoadToRelease, Pending
    <3>4. CASE CommitToRelease(j)
      BY <3>4 DEF CommitToRelease
    <3> QED
      BY <1>3, <3>1, <3>2, <3>3, <3>4
  <2> QED
    BY <2>1 DEF LoopOrder, CreateDone, Count
<1>4. CASE SaveResult(j) \/ SaveAvailability(j) \/ EnqueueAvailability(j)
           \/ SaveInvalid(j) \/ SaveFailed(j) \/ SavePreview(j) \/ GivesUp(j)
  <2>1. /\ loaded' = loaded /\ pc[j] \notin ReleaseLoops \cup {"mark"}
        /\ pc'[j] \in {"end", "save_availability", "enqueue_availability"}
    <3>1. CASE SaveResult(j) \/ SaveAvailability(j) \/ EnqueueAvailability(j)
      BY <3>1 DEF SaveResult, SaveAvailability, EnqueueAvailability, Save
    <3>2. CASE SaveInvalid(j) \/ SaveFailed(j) \/ SavePreview(j) \/ GivesUp(j)
      BY <3>2 DEF SaveInvalid, SaveFailed, SavePreview, GivesUp, Save
    <3> QED
      BY <1>4, <3>1, <3>2
  <2> QED
    BY <2>1 DEF LoopOrder
<1>5. CASE ReleaseLoopDone(j)
  <2>1. /\ UNCHANGED <<todo, loaded>> /\ todo[j] = {} /\ pc[j] \in ReleaseLoops
        /\ pc'[j] \notin ReleaseLoops \cup {"mark"} \cup Unfilled
    BY <1>5 DEF ReleaseLoopDone, AfterLoop
  <2> QED
    BY <2>1 DEF LoopOrder
<1>6. CASE PoolExhausted(j) \/ Raises(j) \/ RequestRaises(j) \/ Kill(j)
  <2>1. \/ /\ pc'[j] \in {"undo", "undo_preview_error"} /\ UNCHANGED <<loaded, list>>
           /\ todo'[j] = list[j] /\ pc[j] \notin ReleaseLoops \cup {"mark"}
        \/ pc'[j] = "dead" /\ loaded'[j] = Idle
    <3>1. CASE PoolExhausted(j) \/ Raises(j)
      BY <3>1 DEF PoolExhausted, Raises, Unwind, Handler
    <3>2. CASE RequestRaises(j)
      BY <3>2 DEF RequestRaises, Unwind, Handler, Accounts
    <3>3. CASE Kill(j)
      BY <3>3 DEF Kill
    <3> QED
      BY <1>6, <3>1, <3>2, <3>3
  <2> QED
    BY <2>1 DEF LoopOrder
<1> QED
  BY <1>1, <1>2, <1>3, <1>4, <1>5, <1>6 DEF JobStep, FaultStep

LEMMA InitLoops == Init => LoopsInOrder
BY DEF Init, NothingYet, LoopsInOrder, LoopOrder, ReleaseLoops

LEMMA NextLoops ==
    ASSUME TypeOK, LoopsInOrder, [Next]_vars
    PROVE  LoopsInOrder'
<1>1. CASE UNCHANGED vars \/ \E c \in Clients : ConsoleStep(c)
  <2>1. UNCHANGED <<pc, list, todo, loaded, report>>
    BY <1>1 DEF vars, jobVars, ConsoleStep
  <2> QED
    BY <2>1 DEF LoopsInOrder, LoopOrder, CreateDone, Count
<1>2. ASSUME NEW j \in Jobs, UserStep(j) \/ JobStep(j) \/ FaultStep(j)
      PROVE  LoopsInOrder'
  <2>1. LoopOrder(j)' /\ OthersUntouched(j)
    BY <1>2, LoopOrderInv, StepsAreLocal DEF LoopsInOrder
  <2>2. ASSUME NEW k \in Jobs, k # j PROVE LoopOrder(k)'
    BY <2>1, <2>2 DEF LoopsInOrder, LoopOrder, OthersUntouched, CreateDone, Count
  <2> QED
    BY <2>1, <2>2 DEF LoopsInOrder
<1> QED
  BY <1>1, <1>2 DEF Next


-----------------------------------------------------------------------------
(* An EAN that is marked used carries a product.                           *)

\* The only step of a job that turns a row used is the commit of mark_used.
LEMMA OnlyMarkUses ==
    ASSUME TypeOK, NEW j \in Jobs, UserStep(j) \/ JobStep(j) \/ FaultStep(j),
           NEW e \in Eans, pool'[e].status = "used", pool[e].status # "used"
    PROVE  CommitMark(j) /\ e = loaded[j].ean
<1> USE DEF TypeOK, jobVars
<1>1. pool' # pool
  OBVIOUS
<1>2. ~(FillOne(j) \/ CommitToRelease(j))
  <2>1. \A p \in [Eans -> JobPoolRow], f \in Eans, owner \in Processes :
          (p = pool) => /\ Reserved(p, f, owner)[e].status # "used"
                       /\ Released(p, f)[e].status # "used"
    BY DEF Reserved, Released, AvailableRow
  <2>2. FillOne(j) => \E f \in Eans : pool' = Reserved(pool, f, Process[j])
    BY DEF FillOne
  <2>3. CommitToRelease(j) => \E f \in Eans : pool' = Released(pool, f)
    BY LoadedEan DEF CommitToRelease
  <2> QED
    BY <2>1, <2>2, <2>3, JobsAssumption
<1>3. CASE \/ UserStep(j) \/ SaveQueued(j) \/ Enqueue(j) \/ Start(j) \/ SaveStart(j)
           \/ Filled(j) \/ PoolExhausted(j) \/ SaveEans(j)
           \/ ValidationFails(j) \/ Validated(j) \/ SaveCreate(j) \/ Settle(j)
           \/ CreateOwn(j) \/ CreateXl(j)
  BY <1>1, <1>3 DEF UserStep, Click, Preview, SaveQueued, Enqueue, Start, SaveStart,
       Filled, PoolExhausted, SaveEans, ValidationFails, Validated, SaveCreate, Settle,
       CreateOwn, CreateXl, Create
<1>4. CASE LoadToMark(j) \/ Marked(j) \/ SaveResult(j) \/ SaveAvailability(j)
           \/ EnqueueAvailability(j) \/ LoadToRelease(j) \/ ReleaseLoopDone(j)
           \/ SaveInvalid(j) \/ SaveFailed(j) \/ SavePreview(j) \/ FaultStep(j)
  BY <1>1, <1>4 DEF LoadToMark, Marked, SaveResult, SaveAvailability,
       EnqueueAvailability, LoadToRelease, ReleaseLoopDone, SaveInvalid, SaveFailed,
       SavePreview, FaultStep, Raises, RequestRaises, GivesUp, LoopSkips, Kill
<1>5. CASE CommitMark(j)
  <2>1. pool' \in {pool, [pool EXCEPT ![loaded[j].ean].status = "used"]}
    BY <1>5 DEF CommitMark, MarkedUsed
  <2> QED
    BY <1>5, <2>1
<1> QED
  BY <1>2, <1>3, <1>4, <1>5 DEF JobStep

\* A user of the routes changes rows that were free, or takes the EAN into his
\* hands.
LEMMA ConsoleRows ==
    ASSUME TypeOK, NEW c \in Clients, ConsoleStep(c), NEW e \in Eans, e \notin byHand'
    PROVE  \/ pool'[e] = pool[e]
           \/ /\ pool[e].status \in {"absent", "available"}
              /\ pool'[e].status \in {"available", "reserved"}
<1> USE DEF TypeOK
<1>1. CASE Import(c)
  BY <1>1 DEF Import, AvailableRow
<1>2. CASE Reserve(c)
  BY <1>2 DEF Reserve, IsNext, Available, Reserved
<1>3. CASE LoadForUse(c) \/ LoadForRelease(c) \/ Abort(c)
  BY <1>3 DEF LoadForUse, LoadForRelease, Abort
<1>4. CASE (CommitUse(c) \/ CommitRelease(c)) /\ byHand' = byHand \cup {call[c].ean}
  BY <1>4 DEF CommitUse, CommitRelease, MarkedUsed, Released
<1> QED
  BY <1>1, <1>2, <1>3, <1>4 DEF ConsoleStep

LEMMA NextMarked ==
    ASSUME TypeOK, AnswersInv, LoopsInOrder, UsedIsListed, [Next]_vars
    PROVE  UsedIsListed'
<1>1. CASE UNCHANGED vars
  BY <1>1 DEF vars, jobVars, history, UsedIsListed, Overcounted
<1>2. ASSUME NEW j \in Jobs, UserStep(j) \/ JobStep(j) \/ FaultStep(j),
             NEW e \in Eans, pool'[e].status = "used"
      PROVE  \/ e \in byHand'
             \/ \E k \in Jobs : \/ e \in listed'[k]["own"]
                                \/ e \in list'[k] /\ Overcounted(k, "own")'
  <2>0. AnswerInv(j) /\ LoopOrder(j) /\ OthersUntouched(j) /\ byHand' = byHand
    BY <1>2, StepsAreLocal, LostStays DEF AnswersInv, LoopsInOrder
  <2>1. \A k \in Jobs : listed[k]["own"] \subseteq listed'[k]["own"]
    BY <1>2, <2>0, ListingsStay DEF OthersUntouched
  <2>2. ASSUME NEW k \in Jobs, Overcounted(k, "own")
        PROVE  Overcounted(k, "own")' /\ list'[k] = list[k]
    <3>1. CASE k = j
      <4>1. report[j]["own"].called
        <5>1. CASE report[j]["own"] = NoReport
          <6>1. Cardinality(listed[j]["own"]) \in Nat
            BY CountType DEF TypeOK
          <6> QED
            BY <2>2, <3>1, <5>1, <6>1 DEF Overcounted, NoReport
        <5> QED
          BY <2>0, <5>1 DEF AnswerInv, AnswerOrder, Markets
      <4> QED
        BY <1>2, <2>0, <2>2, <3>1, <4>1, CalledIsSettled DEF Overcounted, Markets
    <3>2. CASE k # j
      BY <2>0, <2>2, <3>2 DEF Overcounted, OthersUntouched
    <3> QED
      BY <3>1, <3>2
  <2>3. CASE pool[e].status = "used"
    BY <2>0, <2>1, <2>2, <2>3 DEF UsedIsListed
  <2>4. CASE pool[e].status # "used"
    <3>1. pc[j] = "mark" /\ loaded[j] # Idle /\ e = loaded[j].ean
      BY <1>2, <2>4, OnlyMarkUses DEF CommitMark
    <3>2. e \in list[j] /\ report[j]["own"].succeeded >= Count(j)
      BY <2>0, <3>1 DEF LoopOrder, CreateDone
    <3>3. listed[j]["own"] = list[j] \/ Overcounted(j, "own")
      BY <2>0, <3>2, TakenOrOvercounted DEF AnswerInv, Markets
    <3> QED
      BY <2>1, <2>2, <3>2, <3>3
  <2> QED
    BY <2>3, <2>4
<1>3. ASSUME NEW c \in Clients, ConsoleStep(c)
      PROVE  UsedIsListed'
  <2>1. UNCHANGED <<list, report, listed>> /\ byHand \subseteq byHand'
    BY <1>3 DEF ConsoleStep, jobVars
  <2>2. ASSUME NEW e \in Eans, pool'[e].status = "used", e \notin byHand'
        PROVE  pool[e].status = "used"
    BY <1>3, <2>2, ConsoleRows
  <2> QED
    BY <2>1, <2>2 DEF UsedIsListed, Overcounted
<1> QED
  BY <1>1, <1>2, <1>3 DEF Next, UsedIsListed

\* Under every fault an EAN that the pool calls used carries a product on the
\* own account, unless OTTO's counters only presumed the product or a user
\* marked the EAN (_mark_ean_pool_assignments_used).
THEOREM UsedCarriesProduct == Spec => []UsedIsListed
<1>1. Init => UsedIsListed
  BY DEF Init, NothingYet, UsedIsListed, AvailableRow, NoRow
<1>2. TypeOK /\ AnswersInv /\ LoopsInOrder /\ UsedIsListed /\ [Next]_vars => UsedIsListed'
  BY NextMarked
<1>3. TypeOK /\ AnswersInv /\ [Next]_vars => AnswersInv'
  BY NextAnswers
<1>4. TypeOK /\ LoopsInOrder /\ [Next]_vars => LoopsInOrder'
  BY NextLoops
<1> QED
  BY <1>1, <1>2, <1>3, <1>4, InitAnswers, InitLoops, TypeCorrect, PTL DEF Spec


-----------------------------------------------------------------------------
(* The saved verdict.                                                      *)

\* A document that says DONE names the EANs of a job of its task that OTTO has
\* answered on every account, counting no failure.
TrueVerdict(d, p) ==
    d.status = "DONE" /\ d.step = "otto_create_done" =>
        \E k \in Jobs : /\ Process[k] = p /\ d.eans = list[k]
                        /\ \A a \in Accounts(k) : report[k][a].called /\ report[k][a].failed = 0

PreviewLabels == {"idle", "fill", "validate", "undo_preview", "undo_preview_error",
                  "save_preview", "end", "dead"}

\* Until its verdict a submit job works on a document that does not say DONE;
\* from its save of the EANs on the document names them.
OwnDocument(j) ==
    /\ j \in Previews => pc[j] \in PreviewLabels
    /\ j \notin Previews =>
         /\ pc[j] \in {"fill", "save_eans", "validate", "save_create", "create_own", "create_xl"}
              => doc[j].status # "DONE"
         /\ pc[j] \in {"validate", "save_create", "create_own", "create_xl", "settle"}
              => doc[j].eans = list[j]

VerdictInv ==
    /\ \A p \in Processes : TrueVerdict(task[p], p)
    /\ \A j \in Jobs : TrueVerdict(doc[j], Process[j]) /\ OwnDocument(j)

\* A true verdict stays true: its witness has all its answers.
LEMMA VerdictsStay ==
    ASSUME TypeOK, AnswersInv, NEW j \in Jobs, UserStep(j) \/ JobStep(j) \/ FaultStep(j),
           NEW d \in Doc, NEW p \in Processes, TrueVerdict(d, p)
    PROVE  TrueVerdict(d, p)'
<1>1. \A k \in Jobs, a \in Markets : report[k][a].called =>
        report'[k][a] = report[k][a] /\ list'[k] = list[k]
  BY CalledIsSettled, StepsAreLocal DEF OthersUntouched, AnswersInv
<1>2. \A k \in Jobs : Accounts(k) \subseteq Markets /\ "own" \in Accounts(k)
  BY DEF Accounts, Markets
<1> QED
  BY <1>1, <1>2 DEF TrueVerdict


\* The course of a submit job's document.
LEMMA OwnDocumentInv ==
    ASSUME TypeOK, NEW j \in Jobs, OwnDocument(j), UserStep(j) \/ JobStep(j) \/ FaultStep(j)
    PROVE  OwnDocument(j)'
<1> USE DEF TypeOK, Goto, Save, ReadTask, history, jobVars, PreviewLabels, ReleaseLoops
<1>1. CASE Click(j) \/ Preview(j) \/ SaveQueued(j) \/ Enqueue(j) \/ Start(j)
  BY <1>1 DEF OwnDocument, Click, Preview, SaveQueued, Enqueue, Start
<1>2. CASE SaveStart(j)
  <2>1. /\ pc[j] = "save_start" /\ pc'[j] = "fill"
        /\ doc'[j].status = "IN_PROGRESS"
    BY <1>2 DEF SaveStart, Edit, Doc
  <2> QED
    BY <2>1 DEF OwnDocument
<1>3. CASE FillOne(j) \/ Filled(j)
  <2>1. /\ pc[j] = "fill" /\ UNCHANGED doc
        /\ \/ UNCHANGED pc
           \/ pc'[j] = IF j \in Previews THEN "validate" ELSE "save_eans"
    BY <1>3 DEF FillOne, Filled
  <2> QED
    BY <2>1 DEF OwnDocument
<1>4. CASE SaveEans(j)
  <2>1. /\ pc[j] = "save_eans" /\ pc'[j] = "validate" /\ UNCHANGED list
        /\ doc'[j].status = doc[j].status /\ doc'[j].eans = list[j]
    BY <1>4 DEF SaveEans, Doc
  <2> QED
    BY <2>1 DEF OwnDocument
<1>5. CASE SaveCreate(j)
  <2>1. /\ pc[j] = "save_create" /\ pc'[j] = "create_own" /\ UNCHANGED list
        /\ doc'[j].status = doc[j].status /\ doc'[j].eans = doc[j].eans
    BY <1>5 DEF SaveCreate, Doc
  <2> QED
    BY <2>1 DEF OwnDocument
<1>6. CASE ValidationFails(j) \/ Validated(j)
  <2>1. /\ pc[j] = "validate" /\ UNCHANGED <<doc, list>>
        /\ pc'[j] \in IF j \in Previews THEN {"undo_preview"} ELSE {"undo_invalid", "save_create"}
    BY <1>6 DEF ValidationFails, Validated
  <2> QED
    BY <2>1 DEF OwnDocument
<1>7. CASE CreateOwn(j) \/ CreateXl(j)
  <2>1. /\ UNCHANGED <<doc, list>>
        /\ pc[j] \in {"create_own", "create_xl"} /\ pc'[j] \in {"create_xl", "settle"}
    BY <1>7 DEF CreateOwn, CreateXl, Create
  <2> QED
    BY <2>1 DEF OwnDocument
<1>8. CASE \/ Settle(j) \/ Marked(j) \/ SaveResult(j) \/ SaveAvailability(j)
           \/ EnqueueAvailability(j) \/ SaveInvalid(j) \/ SaveFailed(j) \/ SavePreview(j)
           \/ GivesUp(j) \/ Kill(j)
  <2>1. CASE Settle(j) \/ Marked(j) \/ SaveResult(j) \/ SaveAvailability(j)
             \/ EnqueueAvailability(j)
    <3>1. pc[j] \notin PreviewLabels
      BY <2>1 DEF Settle, Marked, SaveResult, SaveAvailability, EnqueueAvailability
    <3>2. pc'[j] \in {"mark", "undo_create", "save_result", "save_availability",
                     "enqueue_availability", "end"}
      BY <2>1 DEF Settle, Marked, SaveResult, SaveAvailability, EnqueueAvailability
    <3> HIDE DEF TypeOK, Save
    <3> QED
      BY <3>1, <3>2 DEF OwnDocument
  <2>2. CASE SaveInvalid(j) \/ SaveFailed(j) \/ SavePreview(j) \/ GivesUp(j) \/ Kill(j)
    <3>1. pc'[j] \in {"end", "dead"}
      BY <2>2 DEF SaveInvalid, SaveFailed, SavePreview, GivesUp, Kill
    <3> HIDE DEF TypeOK, Save
    <3> QED
      BY <3>1 DEF OwnDocument
  <2> QED
    BY <1>8, <2>1, <2>2
<1>9. CASE LoadToMark(j) \/ CommitMark(j) \/ LoadToRelease(j) \/ CommitToRelease(j) \/ LoopSkips(j)
  <2>1. UNCHANGED <<pc, doc, list>>
    BY <1>9 DEF LoadToMark, CommitMark, LoadToRelease, CommitToRelease, LoopSkips
  <2> QED
    BY <2>1 DEF OwnDocument
<1>10. CASE ReleaseLoopDone(j)
  <2>1. /\ pc[j] \in ReleaseLoops /\ pc'[j] = AfterLoop(pc[j])
    BY <1>10 DEF ReleaseLoopDone
  <2> QED
    BY <2>1 DEF OwnDocument, AfterLoop
<1>11. CASE PoolExhausted(j) \/ Raises(j) \/ RequestRaises(j)
  <2>1. pc'[j] = Handler(j)
    BY <1>11 DEF PoolExhausted, Raises, RequestRaises, Unwind, Handler
  <2>2. pc'[j] = IF j \in Previews THEN "undo_preview_error" ELSE "undo"
    BY <2>1 DEF Handler
  <2> HIDE DEF TypeOK, Save
  <2> QED
    BY <2>2 DEF OwnDocument
<1> QED
  BY <1>1, <1>2, <1>3, <1>4, <1>5, <1>6, <1>7, <1>8, <1>9, <1>10, <1>11
     DEF UserStep, JobStep, FaultStep

LEMMA SaveWrites ==
    ASSUME TypeOK, NEW j \in Jobs, NEW d, NEW label, Save(j, d, label)
    PROVE  doc'[j] = d /\ task' = [task EXCEPT ![Process[j]] = doc'[j]]
BY DEF TypeOK, Save

\* What the saves write: documents without a verdict, or the one at hand.
LEMMA VerdictSaves ==
    ASSUME TypeOK, AnswersInv, VerdictInv, NEW j \in Jobs,
           UserStep(j) \/ JobStep(j) \/ FaultStep(j)
    PROVE  /\ TrueVerdict(doc'[j], Process[j])
           /\ task' = task \/ task' = [task EXCEPT ![Process[j]] = doc'[j]]
<1> USE DEF TypeOK, Save, ReadTask, history, jobVars
<1>0. /\ Process[j] \in Processes
      /\ TrueVerdict(doc[j], Process[j]) /\ TrueVerdict(task[Process[j]], Process[j])
  BY JobsAssumption DEF VerdictInv
<1>1. CASE Click(j) \/ Preview(j) \/ Start(j)
  BY <1>0, <1>1 DEF Click, Preview, Start
<1>2. CASE SaveQueued(j) \/ SaveStart(j) \/ SaveInvalid(j) \/ SaveFailed(j)
  <2>1. \A step : Edit(doc[j], "IN_PROGRESS", step).status # "DONE"
                 /\ Edit(doc[j], "FAILED", step).status # "DONE"
    BY DEF Edit, Doc
  <2>2. doc'[j].status # "DONE" /\ task' = [task EXCEPT ![Process[j]] = doc'[j]]
    <3> HIDE DEF Save
    <3> QED
      BY <1>2, <2>1, SaveWrites DEF SaveQueued, SaveStart, SaveInvalid, SaveFailed
  <2> QED
    BY <2>2 DEF TrueVerdict
<1>3. CASE SaveEans(j) \/ SaveCreate(j)
  <2>1. /\ pc[j] \in {"save_eans", "save_create"} /\ doc'[j].status = doc[j].status
        /\ task' = [task EXCEPT ![Process[j]] = doc'[j]]
    BY <1>3 DEF SaveEans, SaveCreate, Doc
  <2>2. doc[j].status # "DONE"
    BY <2>1 DEF VerdictInv, OwnDocument, PreviewLabels
  <2> QED
    BY <2>1, <2>2 DEF TrueVerdict
<1>4. CASE SaveResult(j) \/ SavePreview(j) \/ SaveAvailability(j)
  <2>1. /\ doc'[j].status = doc[j].status /\ doc'[j].step = doc[j].step
        /\ doc'[j].eans = doc[j].eans /\ task' = [task EXCEPT ![Process[j]] = doc'[j]]
    <3>1. CASE SaveResult(j) \/ SavePreview(j)
      <4> HIDE DEF Save
      <4> QED
        BY <3>1, SaveWrites DEF SaveResult, SavePreview
    <3>2. CASE SaveAvailability(j)
      BY <3>2 DEF SaveAvailability, Doc
    <3> QED
      BY <1>4, <3>1, <3>2
  <2> QED
    BY <1>0, <2>1 DEF TrueVerdict
<1>5. CASE Settle(j)
  <2>1. /\ pc[j] = "settle" /\ task' = task /\ doc'[j].eans = doc[j].eans
        /\ doc'[j].status = "DONE" => NoneFailed(j)
    BY <1>5 DEF Settle, Edit, Doc
  <2>2. /\ doc[j].eans = list[j]
        /\ \A a \in Accounts(j) : a \in Markets /\ report[j][a].called
    BY <2>1 DEF VerdictInv, OwnDocument, PreviewLabels, AnswersInv, AnswerInv, AnswerOrder,
                Answered, Accounts, Markets
  <2> QED
    BY <2>1, <2>2 DEF TrueVerdict, NoneFailed
<1>6. CASE \/ Enqueue(j) \/ FillOne(j) \/ Filled(j) \/ PoolExhausted(j) \/ ValidationFails(j)
           \/ Validated(j) \/ CreateOwn(j) \/ CreateXl(j) \/ LoadToMark(j) \/ CommitMark(j)
           \/ Marked(j) \/ EnqueueAvailability(j) \/ LoadToRelease(j) \/ CommitToRelease(j)
           \/ ReleaseLoopDone(j) \/ FaultStep(j)
  <2>1. UNCHANGED <<doc, task>>
    <3>1. CASE \/ Enqueue(j) \/ FillOne(j) \/ Filled(j) \/ PoolExhausted(j)
               \/ ValidationFails(j) \/ Validated(j) \/ CreateOwn(j) \/ CreateXl(j)
      BY <3>1 DEF Enqueue, FillOne, Filled, PoolExhausted, ValidationFails, Validated,
                  CreateOwn, CreateXl, Create
    <3>2. CASE \/ LoadToMark(j) \/ CommitMark(j) \/ Marked(j) \/ EnqueueAvailability(j)
               \/ LoadToRelease(j) \/ CommitToRelease(j) \/ ReleaseLoopDone(j) \/ FaultStep(j)
      BY <3>2 DEF LoadToMark, CommitMark, Marked, EnqueueAvailability, LoadToRelease,
           CommitToRelease, ReleaseLoopDone, FaultStep, Raises, RequestRaises, GivesUp,
           LoopSkips, Kill
    <3> QED
      BY <1>6, <3>1, <3>2
  <2> QED
    BY <1>0, <2>1
<1> QED
  BY <1>1, <1>2, <1>3, <1>4, <1>5, <1>6 DEF UserStep, JobStep

LEMMA NextVerdict ==
    ASSUME TypeOK, TypeOK', AnswersInv, VerdictInv, [Next]_vars
    PROVE  VerdictInv'
<1>1. CASE UNCHANGED vars \/ \E c \in Clients : ConsoleStep(c)
  <2>1. UNCHANGED <<pc, doc, task, list, report, listed>>
    BY <1>1 DEF vars, jobVars, history, ConsoleStep
  <2> QED
    BY <2>1 DEF VerdictInv, TrueVerdict, OwnDocument
<1>2. ASSUME NEW j \in Jobs, UserStep(j) \/ JobStep(j) \/ FaultStep(j)
      PROVE  VerdictInv'
  <2>0. AnswerInv(j) /\ OwnDocument(j) /\ OthersUntouched(j)
    BY <1>2, StepsAreLocal DEF AnswersInv, VerdictInv
  <2>1. \A d \in Doc, p \in Processes : TrueVerdict(d, p) => TrueVerdict(d, p)'
    BY <1>2, VerdictsStay
  <2>2. /\ \A k \in Jobs : doc'[k] \in Doc /\ Process[k] \in Processes
        /\ \A p \in Processes : task'[p] \in Doc
    BY JobsAssumption DEF TypeOK
  <2>3. \A k \in Jobs : TrueVerdict(doc'[k], Process[k])
    BY <1>2, <2>0, VerdictSaves DEF OthersUntouched, VerdictInv
  <2>4. \A p \in Processes : TrueVerdict(task'[p], p)
    <3>1. task' = task \/ task' = [task EXCEPT ![Process[j]] = doc'[j]]
      BY <1>2, VerdictSaves
    <3> QED
      BY <2>3, <3>1 DEF VerdictInv, TypeOK
  <2>5. ASSUME NEW k \in Jobs PROVE TrueVerdict(doc[k], Process[k])'
    <3>1. PICK d \in Doc : d = doc'[k]
      BY <2>2
    <3>2. TrueVerdict(d, Process[k])'
      BY <2>1, <2>2, <2>3, <3>1
    <3> QED
      BY <3>1, <3>2 DEF TrueVerdict
  <2>6. ASSUME NEW p \in Processes PROVE TrueVerdict(task[p], p)'
    <3>1. PICK d \in Doc : d = task'[p]
      BY <2>2
    <3>2. TrueVerdict(d, p)'
      BY <2>1, <2>4, <3>1
    <3> QED
      BY <3>1, <3>2 DEF TrueVerdict
  <2>7. \A k \in Jobs : OwnDocument(k)'
    <3>1. OwnDocument(j)'
      BY <1>2, <2>0, OwnDocumentInv
    <3>2. ASSUME NEW k \in Jobs, k # j PROVE OwnDocument(k)'
      BY <2>0, <3>2 DEF VerdictInv, OwnDocument, OthersUntouched
    <3> QED
      BY <3>1, <3>2
  <2> QED
    BY <2>5, <2>6, <2>7 DEF VerdictInv
<1> QED
  BY <1>1, <1>2 DEF Next

\* The witness of a verdict has, on every account whose counters are true,
\* taken all: none of its products is missing.
LEMMA NoneMissing ==
    ASSUME TypeOK, NEW j \in Jobs, NEW a \in Markets, AnswerOrder(j),
           report[j][a].failed = 0, CountsAreTrue(j, a)
    PROVE  listed[j][a] = list[j]
<1>1. listed[j][a] \subseteq list[j]
  BY DEF AnswerOrder
<1>2. list[j] \ listed[j][a] \in SUBSET Eans
  BY DEF TypeOK
<1>3. list[j] \ listed[j][a] = {}
  BY <1>2, CountType, FS_EmptySet DEF CountsAreTrue
<1> QED
  BY <1>1, <1>3

\* Under every fault, and however often jobs of the same task save their whole
\* documents over one another, a saved verdict DONE names the EANs of one job
\* of the task, every account of that job has answered, and an account whose
\* counters are what OTTO did has taken every product. Run submit_verdict
\* shows that the verdict is false where the counters are (products.py,
\* 5965-5971).
THEOREM DoneIsCounted == Spec => []DoneMeansListedIfCounted
<1>1. Init => VerdictInv
  BY DEF Init, NothingYet, VerdictInv, TrueVerdict, OwnDocument, Prepared, PreviewLabels
<1>2. TypeOK /\ TypeOK' /\ AnswersInv /\ VerdictInv /\ [Next]_vars => VerdictInv'
  BY NextVerdict
<1>3. TypeOK /\ AnswersInv /\ [Next]_vars => AnswersInv'
  BY NextAnswers
<1>4. TypeOK /\ AnswersInv /\ VerdictInv => DoneMeansListedIfCounted
  <2> SUFFICES ASSUME TypeOK, AnswersInv, VerdictInv, NEW p \in Processes,
                      task[p].status = "DONE" /\ task[p].step = "otto_create_done"
               PROVE  \E j \in Jobs :
                        /\ Process[j] = p /\ task[p].eans = list[j]
                        /\ \A a \in Accounts(j) :
                             /\ report[j][a].called
                             /\ CountsAreTrue(j, a) => listed[j][a] = list[j]
    BY DEF DoneMeansListedIfCounted
  <2>1. PICK j \in Jobs :
          /\ Process[j] = p /\ task[p].eans = list[j]
          /\ \A a \in Accounts(j) : report[j][a].called /\ report[j][a].failed = 0
    BY DEF VerdictInv, TrueVerdict
  <2>2. \A a \in Accounts(j) : CountsAreTrue(j, a) => listed[j][a] = list[j]
    BY <2>1, NoneMissing DEF AnswersInv, AnswerInv, Accounts, Markets
  <2> QED
    BY <2>1, <2>2
<1> QED
  BY <1>1, <1>2, <1>3, <1>4, InitAnswers, TypeCorrect, PTL DEF Spec


-----------------------------------------------------------------------------
(* Exclusive listing, under every fault: what is kept of each EAN that is  *)
(* not loose.                                                              *)

\* Labels at which the job has released nothing yet, so that the assignments
\* it knows of are still its own.
Holding == {"idle", "save_queued", "enqueue", "queued", "save_start", "fill",
            "save_eans", "validate", "save_create", "create_own", "create_xl",
            "settle", "mark", "save_availability", "enqueue_availability"}

StillHolds(j) == pc[j] \in Holding \/ (pc[j] = "save_result" /\ CreateDone(j))

\* Labels after mark_used and before the end of a job whose own account took
\* and counted all.
AllMarked(j) == \/ pc[j] \in {"save_availability", "enqueue_availability"}
                \/ pc[j] = "save_result" /\ CreateDone(j)

Pends(j, e) == loaded[j] # Idle /\ loaded[j].ean = e

\* Job j and an EAN: the row of an EAN in its hands is reserved or used; an EAN
\* it has listed is in its hands unless it let it go; what it knows of and has
\* still to release or to mark is in its hands; a release is decided on a row
\* that is still reserved, a mark_used that sees the row used leaves it used;
\* and a release loop meets a listed EAN only used, or let go.
Kept(j, e) ==
    /\ e \in held[j] => pool[e].status \in {"reserved", "used"}
    /\ e \in Listed(j) => e \in held[j] \/ LetGo(j, e)
    /\ StillHolds(j) /\ e \in list[j] => e \in held[j]
    /\ pc[j] \in ReleaseLoops \cup {"mark"} /\ e \in todo[j] => e \in held[j]
    /\ pc[j] \in ReleaseLoops /\ Pends(j, e) => pool[e].status = "reserved"
    /\ pc[j] = "mark" /\ Pends(j, e) /\ loaded[j].seen = "used" => pool[e].status = "used"
    /\ pc[j] \in ReleaseLoops /\ e \in Listed(j) => pool[e].status = "used" \/ LetGo(j, e)
    /\ pc[j] = "mark" /\ e \in Listed(j) => e \in todo[j] \cup lost \/ pool[e].status = "used"
    /\ AllMarked(j) /\ e \in Listed(j) => e \in lost \/ pool[e].status = "used"

Apart(e) == \A j, k \in Jobs : j # k => ~(e \in held[j] /\ e \in held[k])

EanKept(e) == Apart(e) /\ \A j \in Jobs : Kept(j, e)

EansKept == \A e \in Eans \ Loose : EanKept(e)

\* What is known of the jobs by now.
JobsInv == TypeOK /\ AnswersInv /\ LoopsInOrder

\* An exception leaves its mark for good.
LEMMA RaisedStays ==
    ASSUME TypeOK, NEW j \in Jobs, AnswerInv(j), raised[j] # "no",
           UserStep(j) \/ JobStep(j) \/ FaultStep(j)
    PROVE  raised'[j] = raised[j] /\ list'[j] = list[j]
<1> USE DEF TypeOK, history, jobVars
<1>0. pc[j] \in {"undo", "undo_preview_error", "save_failed", "end", "dead"}
  BY DEF AnswerInv, RaisedOrder, Raised
<1>1. CASE UserStep(j) \/ SaveQueued(j) \/ Enqueue(j) \/ Start(j) \/ SaveStart(j)
           \/ FillOne(j) \/ Filled(j) \/ PoolExhausted(j) \/ SaveEans(j)
           \/ ValidationFails(j) \/ Validated(j) \/ SaveCreate(j) \/ Settle(j)
           \/ CreateOwn(j) \/ CreateXl(j)
  BY <1>0, <1>1 DEF UserStep, Click, Preview, SaveQueued, Enqueue, Start, SaveStart, FillOne,
              Filled, PoolExhausted, SaveEans, ValidationFails, Validated, SaveCreate, Settle,
              CreateOwn, CreateXl
<1>2. CASE LoadToMark(j) \/ CommitMark(j) \/ Marked(j) \/ SaveResult(j)
           \/ SaveAvailability(j) \/ EnqueueAvailability(j) \/ LoadToRelease(j)
           \/ CommitToRelease(j) \/ ReleaseLoopDone(j) \/ SaveInvalid(j)
           \/ SaveFailed(j) \/ SavePreview(j)
  BY <1>2 DEF LoadToMark, CommitMark, Marked, SaveResult, SaveAvailability,
              EnqueueAvailability, LoadToRelease, CommitToRelease, ReleaseLoopDone,
              SaveInvalid, SaveFailed, SavePreview
<1>3. CASE Raises(j) \/ RequestRaises(j)
  BY <1>0, <1>3 DEF Raises, RequestRaises
<1>4. CASE GivesUp(j) \/ LoopSkips(j) \/ Kill(j)
  BY <1>4 DEF GivesUp, LoopSkips, Kill
<1> QED
  BY <1>1, <1>2, <1>3, <1>4 DEF JobStep, FaultStep

\* A job that gave up has given up for good.
LEMMA GaveUpStays ==
    ASSUME TypeOK, AnswersInv, NEW j \in Jobs, UserStep(j) \/ JobStep(j) \/ FaultStep(j),
           NEW k \in Jobs
    PROVE  /\ raised[k] # "no" => raised'[k] = raised[k] /\ list'[k] = list[k]
           /\ report[k]["own"].called /\ ~CreateDone(k)
                => (report[k]["own"].called /\ ~CreateDone(k))'
           /\ GaveUp(k) => GaveUp(k)'
<1>1. OthersUntouched(j)
  BY StepsAreLocal
<1>2. ASSUME raised[k] # "no" PROVE raised'[k] = raised[k] /\ list'[k] = list[k]
  BY <1>1, <1>2, RaisedStays DEF OthersUntouched, AnswersInv
<1>3. ASSUME report[k]["own"].called /\ ~CreateDone(k)
      PROVE  (report[k]["own"].called /\ ~CreateDone(k))'
  <2>1. report'[k]["own"] = report[k]["own"] /\ list'[k] = list[k]
    BY <1>1, <1>3, CalledIsSettled DEF OthersUntouched, AnswersInv, Markets
  <2> QED
    BY <1>3, <2>1 DEF CreateDone, Count
<1> QED
  BY <1>2, <1>3 DEF GaveUp

\* What has been let go stays let go, and what is loose stays loose.
LEMMA LetGoStays ==
    ASSUME TypeOK, AnswersInv, NEW j \in Jobs, UserStep(j) \/ JobStep(j) \/ FaultStep(j),
           NEW k \in Jobs, NEW e \in Eans
    PROVE  /\ LetGo(k, e) => LetGo(k, e)'
           /\ e \in Loose => e \in Loose'
<1>1. lost \subseteq lost' /\ byHand' = byHand
  BY LostStays
<1>2. LetGo(k, e) => LetGo(k, e)'
  BY <1>1, GaveUpStays DEF LetGo
<1>3. ReleasedTwice \subseteq ReleasedTwice'
  BY GaveUpStays DEF ReleasedTwice
<1> QED
  BY <1>1, <1>2, <1>3 DEF Loose

\* Nothing that is kept of a job and an EAN is another's, as long as the row of
\* an EAN in the job's hands is left alone.
LEMMA OtherKept ==
    ASSUME NEW k \in Jobs, NEW e \in Eans, Kept(k, e), AnswerInv(k), LoopOrder(k),
           pc'[k] = pc[k], list'[k] = list[k], todo'[k] = todo[k], loaded'[k] = loaded[k],
           report'[k] = report[k], held'[k] = held[k], listed'[k] = listed[k],
           raised'[k] = raised[k], lost \subseteq lost',
           e \in held[k] => pool'[e] = pool[e]
    PROVE  Kept(k, e)'
<1>1. /\ Listed(k)' = Listed(k) /\ (CreateDone(k)' <=> CreateDone(k))
      /\ LetGo(k, e) => LetGo(k, e)'
      /\ Pends(k, e)' <=> Pends(k, e)
  BY DEF Listed, CreateDone, Count, LetGo, Pends
<1>2. Listed(k) \subseteq list[k]
  BY DEF AnswerInv, AnswerOrder, Listed, Markets
<1>3. CASE e \in held[k]
  BY <1>1, <1>3 DEF Kept, StillHolds, AllMarked
<1>4. CASE e \notin held[k]
  <2>1. /\ pc[k] \in ReleaseLoops \cup {"mark"} => e \notin todo[k] /\ ~Pends(k, e)
        /\ StillHolds(k) \/ pc[k] = "mark" \/ AllMarked(k) => e \notin list[k] /\ e \notin Listed(k)
        /\ e \in Listed(k) => LetGo(k, e)
    BY <1>2, <1>4 DEF Kept, LoopOrder, Pends, StillHolds, AllMarked, Holding
  <2>2. (StillHolds(k)' <=> StillHolds(k)) /\ (AllMarked(k)' <=> AllMarked(k))
    BY <1>1 DEF StillHolds, AllMarked
  <2> QED
    BY <1>1, <1>4, <2>1, <2>2 DEF Kept
<1> QED
  BY <1>3, <1>4

\* A job changes rows that are free and rows in its hands, and takes nothing
\* else into them.
LEMMA OwnRows ==
    ASSUME TypeOK, NEW j \in Jobs, UserStep(j) \/ JobStep(j) \/ FaultStep(j), NEW e \in Eans
    PROVE  /\ \/ pool'[e] = pool[e]
              \/ FillOne(j) /\ pool[e].status = "available"
              \/ (CommitMark(j) \/ CommitToRelease(j)) /\ Pends(j, e)
           /\ e \in held'[j] => e \in held[j] \/ (FillOne(j) /\ pool[e].status = "available")
<1> USE DEF TypeOK, jobVars, history
<1>1. CASE FillOne(j)
  <2>1. PICK f \in Eans : /\ pool[f].status = "available"
                          /\ pool' = [pool EXCEPT ![f] = [status |-> "reserved",
                                                         reservedFor |-> Process[j]]]
                          /\ held' = [held EXCEPT ![j] = @ \cup {f}]
    BY <1>1 DEF FillOne, IsNext, Available, Reserved
  <2>2. e # f => pool'[e] = pool[e] /\ (e \in held'[j] => e \in held[j])
    BY <2>1
  <2> QED
    BY <1>1, <2>1, <2>2
<1>2. CASE CommitMark(j)
  <2>1. /\ pool' \in {pool, [pool EXCEPT ![loaded[j].ean].status = "used"]}
        /\ loaded[j] # Idle /\ held' = held
    BY <1>2 DEF CommitMark, MarkedUsed
  <2>2. pool'[e] = pool[e] \/ Pends(j, e)
    BY <2>1 DEF Pends
  <2> QED
    BY <1>2, <2>1, <2>2
<1>3. CASE CommitToRelease(j)
  BY <1>3, LoadedEan DEF CommitToRelease, Released, Pends
<1>4. CASE \/ UserStep(j) \/ SaveQueued(j) \/ Enqueue(j) \/ Start(j) \/ SaveStart(j)
           \/ Filled(j) \/ PoolExhausted(j) \/ SaveEans(j)
           \/ ValidationFails(j) \/ Validated(j) \/ SaveCreate(j) \/ Settle(j)
           \/ CreateOwn(j) \/ CreateXl(j)
  BY <1>4 DEF UserStep, Click, Preview, SaveQueued, Enqueue, Start, SaveStart,
       Filled, PoolExhausted, SaveEans, ValidationFails, Validated, SaveCreate, Settle,
       CreateOwn, CreateXl, Create
<1>5. CASE \/ LoadToMark(j) \/ Marked(j) \/ SaveResult(j) \/ SaveAvailability(j)
           \/ EnqueueAvailability(j) \/ LoadToRelease(j) \/ ReleaseLoopDone(j)
           \/ SaveInvalid(j) \/ SaveFailed(j) \/ SavePreview(j) \/ FaultStep(j)
  BY <1>5 DEF LoadToMark, Marked, SaveResult, SaveAvailability,
       EnqueueAvailability, LoadToRelease, ReleaseLoopDone, SaveInvalid, SaveFailed,
       SavePreview, FaultStep, Raises, RequestRaises, GivesUp, LoopSkips, Kill
<1> QED
  BY <1>1, <1>2, <1>3, <1>4, <1>5 DEF JobStep


-----------------------------------------------------------------------------
(* One lemma per group of actions: what a step keeps for its own job.      *)

\* Before the first request: reading, saving, queueing, validating.
LEMMA EarlyKept ==
    ASSUME TypeOK, NEW j \in Jobs, AnswerInv(j), LoopOrder(j), AnswerInv(j)',
           NEW e \in Eans, Kept(j, e),
           \/ UserStep(j) \/ SaveQueued(j) \/ Enqueue(j) \/ Start(j)
           \/ SaveStart(j) \/ Filled(j) \/ SaveEans(j) \/ ValidationFails(j)
           \/ Validated(j) \/ SaveCreate(j)
    PROVE  Kept(j, e)'
<1>1. /\ UNCHANGED <<pool, held, listed, loaded>>
      /\ pc[j] \in Unlisted
      /\ \/ pc'[j] \in Unlisted
         \/ pc'[j] \in {"undo_invalid", "undo_preview"} /\ todo'[j] = list[j] /\ list' = list
      /\ list'[j] \in {list[j], held[j]}
  <2> USE DEF TypeOK, Unlisted, Goto, Save, ReadTask, history
  <2>1. CASE UserStep(j) \/ SaveQueued(j) \/ Enqueue(j) \/ Start(j)
    BY <2>1 DEF UserStep, Click, Preview, SaveQueued, Enqueue, Start
  <2>2. CASE SaveStart(j) \/ Filled(j) \/ SaveEans(j) \/ SaveCreate(j)
    BY <2>2 DEF SaveStart, Filled, SaveEans, SaveCreate
  <2>3. CASE Validated(j) \/ ValidationFails(j)
    BY <2>3 DEF Validated, ValidationFails
  <2> QED
    BY <2>1, <2>2, <2>3
<1>2. e \in list[j] => e \in held[j]
  BY <1>1 DEF Kept, StillHolds, Unlisted, Holding
<1>3. loaded'[j] = Idle /\ e \notin Listed(j)'
  BY <1>1 DEF LoopOrder, AnswerInv, AnswerOrder, Listed, Unlisted, ReleaseLoops
<1>4. e \in held'[j] => pool'[e].status \in {"reserved", "used"}
  BY <1>1 DEF Kept
<1> QED
  BY <1>1, <1>2, <1>3, <1>4 DEF Kept, Pends, Unlisted, ReleaseLoops

\* reserve_next hands out an EAN that nobody holds.
LEMMA FillKept ==
    ASSUME TypeOK, NEW j \in Jobs, AnswerInv(j), LoopOrder(j), AnswerInv(j)',
           NEW e \in Eans, Kept(j, e), FillOne(j)
    PROVE  Kept(j, e)'
<1>1. PICK f \in Eans : /\ pool' = Reserved(pool, f, Process[j])
                        /\ held' = [held EXCEPT ![j] = @ \cup {f}]
  BY DEF FillOne
<1>2. pc[j] = "fill" /\ UNCHANGED <<pc, list, loaded>>
  BY DEF FillOne
<1>3. e \in held'[j] => pool'[e].status \in {"reserved", "used"}
  BY <1>1 DEF Kept, Reserved, TypeOK
<1>4. /\ e \in list'[j] => e \in held'[j]
      /\ e \notin Listed(j)'
  BY <1>1, <1>2 DEF Kept, StillHolds, Holding, AnswerInv, AnswerOrder, Listed, Unlisted, TypeOK
<1> QED
  BY <1>2, <1>3, <1>4 DEF Kept, ReleaseLoops, StillHolds

\* A request is made and answered: whatever OTTO accepts is in the job's hands.
LEMMA CreateKept ==
    ASSUME TypeOK, NEW j \in Jobs, AnswerInv(j), LoopOrder(j), AnswerInv(j)',
           NEW e \in Eans, Kept(j, e), CreateOwn(j) \/ CreateXl(j)
    PROVE  Kept(j, e)'
<1>1. /\ pc[j] \in {"create_own", "create_xl"} /\ pc'[j] \in {"create_xl", "settle"}
      /\ UNCHANGED <<pool, list, held>>
  BY DEF CreateOwn, CreateXl, Create, Goto, TypeOK
<1>2. e \in list[j] => e \in held[j]
  BY <1>1 DEF Kept, StillHolds, Holding
<1>3. e \in Listed(j)' => e \in held'[j]
  BY <1>1, <1>2 DEF AnswerInv, AnswerOrder, Listed, Markets
<1> QED
  BY <1>1, <1>2, <1>3 DEF Kept, ReleaseLoops, StillHolds, AllMarked

\* The answers are looked at: an own account that did not count all lets go.
LEMMA SettleKept ==
    ASSUME TypeOK, NEW j \in Jobs, AnswerInv(j), LoopOrder(j), AnswerInv(j)',
           NEW e \in Eans, Kept(j, e), Settle(j)
    PROVE  Kept(j, e)'
<1>1. /\ pc[j] = "settle" /\ UNCHANGED <<pool, list, held, listed, report, loaded, raised, lost>>
      /\ pc'[j] = IF CreateDone(j) THEN "mark" ELSE "undo_create"
      /\ todo'[j] = list[j]
  BY DEF Settle, Goto, history, TypeOK
<1>2. /\ e \in list[j] => e \in held[j]
      /\ e \in Listed(j) => e \in list[j]
      /\ report[j]["own"].called /\ loaded[j] = Idle
  BY <1>1 DEF Kept, StillHolds, Holding, AnswerInv, AnswerOrder, Listed, Markets, Accounts,
              Answered, LoopOrder, ReleaseLoops
<1>3. Listed(j)' = Listed(j) /\ (CreateDone(j)' <=> CreateDone(j))
  BY <1>1 DEF Listed, CreateDone, Count
<1>4. pc'[j] = "undo_create" => LetGo(j, e)'
  BY <1>1, <1>2, <1>3 DEF LetGo
<1>5. e \in held'[j] => pool'[e].status \in {"reserved", "used"}
  BY <1>1 DEF Kept
<1> QED
  BY <1>1, <1>2, <1>3, <1>4, <1>5 DEF Kept, Pends, ReleaseLoops, AllMarked

\* mark_used turns the job's own EANs used, one by one.
LEMMA MarkKept ==
    ASSUME TypeOK, NEW j \in Jobs, AnswerInv(j), LoopOrder(j), AnswerInv(j)',
           NEW e \in Eans, Kept(j, e), LoadToMark(j) \/ CommitMark(j) \/ Marked(j)
    PROVE  Kept(j, e)'
<1> USE DEF TypeOK, Goto
<1>1. /\ pc[j] = "mark" /\ pc'[j] \in {"mark", "save_result"}
      /\ UNCHANGED <<held, listed, list, report, raised, lost>>
  BY DEF LoadToMark, CommitMark, Marked, history
<1>2. /\ e \in held[j] => pool[e].status \in {"reserved", "used"}
      /\ e \in todo[j] \cup list[j] => e \in held[j]
      /\ e \in Listed(j) => e \in held[j] /\ (e \in todo[j] \cup lost \/ pool[e].status = "used")
      /\ Pends(j, e) /\ loaded[j].seen = "used" => pool[e].status = "used"
  BY <1>1 DEF Kept, StillHolds, Holding, AnswerInv, AnswerOrder, Listed, Markets
<1>3. Listed(j)' = Listed(j)
  BY <1>1 DEF Listed
<1>4. CASE LoadToMark(j)
  <2>1. PICK f \in todo[j] : loaded' = [loaded EXCEPT ![j] = Pending("use", f, pool[f].status)]
    BY <1>4 DEF LoadToMark
  <2>2. /\ UNCHANGED <<pool, pc, todo>>
        /\ Pends(j, e)' /\ loaded'[j].seen = "used" => pool[e].status = "used"
    BY <1>4, <2>1 DEF LoadToMark, Pending, Pends
  <2> QED
    BY <1>1, <1>2, <1>3, <2>2 DEF Kept, ReleaseLoops, AllMarked
<1>5. CASE CommitMark(j)
  <2>1. /\ UNCHANGED pc /\ loaded'[j] = Idle /\ todo'[j] = todo[j] \ {loaded[j].ean}
        /\ loaded[j] # Idle
    BY <1>5 DEF CommitMark
  <2>2. /\ Pends(j, e) => pool'[e].status = "used"
        /\ ~Pends(j, e) => pool'[e] = pool[e] /\ (e \in todo'[j] <=> e \in todo[j])
    <3>1. \/ pool' = pool /\ loaded[j].seen = "used"
          \/ pool' = [pool EXCEPT ![loaded[j].ean].status = "used"]
      BY <1>5 DEF CommitMark, MarkedUsed
    <3>2. CASE Pends(j, e)
      <4>1. pool' = pool => pool'[e].status = "used"
        BY <1>2, <3>1, <3>2 DEF Pends, JobPoolRow
      <4>2. pool' = [pool EXCEPT ![e].status = "used"] => pool'[e].status = "used"
        BY DEF JobPoolRow
      <4> QED
        BY <1>2, <3>1, <3>2, <4>1, <4>2 DEF Pends
    <3>3. CASE ~Pends(j, e)
      BY <2>1, <3>1, <3>3 DEF Pends
    <3> QED
      BY <3>2, <3>3
  <2>3. e \in todo'[j] => e \in todo[j]
    BY <2>1
  <2>4. ~Pends(j, e)'
    BY <2>1 DEF Pends
  <2>5. /\ e \in held'[j] => pool'[e].status \in {"reserved", "used"}
        /\ e \in Listed(j) => e \in todo'[j] \cup lost \/ pool'[e].status = "used"
    BY <1>1, <1>2, <2>2
  <2> QED
    BY <1>1, <1>2, <1>3, <2>1, <2>3, <2>4, <2>5 DEF Kept, ReleaseLoops, AllMarked
<1>6. CASE Marked(j)
  <2>1. UNCHANGED <<pool, todo, loaded>> /\ pc'[j] = "save_result" /\ todo[j] = {}
    BY <1>6 DEF Marked
  <2> QED
    BY <1>1, <1>2, <1>3, <2>1 DEF Kept, ReleaseLoops
<1> QED
  BY <1>4, <1>5, <1>6

\* A release frees an EAN of the job that is not listed, or that it let go.
LEMMA ReleaseKept ==
    ASSUME TypeOK, NEW j \in Jobs, AnswerInv(j), LoopOrder(j), AnswerInv(j)',
           NEW e \in Eans, Kept(j, e), LetGo(j, e) => LetGo(j, e)',
           LoadToRelease(j) \/ CommitToRelease(j) \/ ReleaseLoopDone(j)
    PROVE  Kept(j, e)'
<1> USE DEF TypeOK, Goto
<1>1. pc[j] \in ReleaseLoops /\ UNCHANGED <<listed, list, report, lost>>
  BY DEF LoadToRelease, CommitToRelease, ReleaseLoopDone, history
<1>2. /\ e \in held[j] => pool[e].status \in {"reserved", "used"}
      /\ e \in todo[j] => e \in held[j]
      /\ e \in Listed(j) => e \in held[j] \/ LetGo(j, e)
      /\ e \in Listed(j) => pool[e].status = "used" \/ LetGo(j, e)
      /\ Pends(j, e) => pool[e].status = "reserved"
  BY <1>1 DEF Kept
<1>3. Listed(j)' = Listed(j) /\ (CreateDone(j)' <=> CreateDone(j))
  BY <1>1 DEF Listed, CreateDone, Count
<1>4. CASE LoadToRelease(j)
  <2>1. /\ UNCHANGED <<pool, held, pc>> /\ todo'[j] \subseteq todo[j]
        /\ Pends(j, e)' => pool[e].status = "reserved"
    <3>1. PICK f \in todo[j] :
            \/ /\ pool[f].status = "reserved" /\ todo' = todo
               /\ loaded' = [loaded EXCEPT ![j] = Pending("release", f, pool[f].status)]
            \/ loaded' = loaded /\ todo' = [todo EXCEPT ![j] = @ \ {f}]
      BY <1>4 DEF LoadToRelease, MayRelease
    <3>2. loaded[j] = Idle /\ UNCHANGED <<pool, held, pc>>
      BY <1>4 DEF LoadToRelease, history
    <3> QED
      BY <3>1, <3>2 DEF Pending, Pends
  <2> QED
    BY <1>1, <1>2, <1>3, <2>1 DEF Kept, ReleaseLoops, StillHolds, Holding, AllMarked
<1>5. CASE CommitToRelease(j)
  <2>1. /\ UNCHANGED pc /\ loaded'[j] = Idle
        /\ todo'[j] = todo[j] \ {loaded[j].ean} /\ held'[j] = held[j] \ {loaded[j].ean}
    BY <1>5 DEF CommitToRelease
  <2>2. ~Pends(j, e)' /\ (Pends(j, e) => e \notin held'[j] /\ e \notin todo'[j])
    BY <2>1 DEF Pends
  <2>3. ~Pends(j, e) => /\ pool'[e] = pool[e]
                        /\ e \in held'[j] <=> e \in held[j]
                        /\ e \in todo'[j] => e \in todo[j]
    BY <1>5, <2>1 DEF CommitToRelease, Released, Pends
  <2>4. Pends(j, e) /\ e \in Listed(j) => LetGo(j, e)
    BY <1>2
  <2> QED
    BY <1>1, <1>2, <1>3, <2>1, <2>2, <2>3, <2>4
       DEF Kept, ReleaseLoops, StillHolds, Holding, AllMarked
<1>6. CASE ReleaseLoopDone(j)
  <2>1. UNCHANGED <<pool, held>> /\ pc'[j] = AfterLoop(pc[j])
    BY <1>6 DEF ReleaseLoopDone, history
  <2>2. /\ pc'[j] \in {"save_invalid", "save_result", "save_failed", "save_preview", "end"}
        /\ pc'[j] = "save_result" => pc[j] = "undo_create"
    BY <1>1, <2>1 DEF AfterLoop, ReleaseLoops
  <2>3. pc'[j] = "save_result" => ~CreateDone(j)'
    BY <1>3, <2>2 DEF LoopOrder
  <2> QED
    BY <1>2, <1>3, <2>1, <2>2, <2>3 DEF Kept, ReleaseLoops, StillHolds, Holding, AllMarked
<1> QED
  BY <1>4, <1>5, <1>6


\* The saves around the end of a job.
LEMMA LateKept ==
    ASSUME TypeOK, NEW j \in Jobs, AnswerInv(j), LoopOrder(j), AnswerInv(j)',
           NEW e \in Eans, Kept(j, e),
           \/ SaveResult(j) \/ SaveAvailability(j) \/ EnqueueAvailability(j)
           \/ SaveInvalid(j) \/ SaveFailed(j) \/ SavePreview(j) \/ GivesUp(j)
    PROVE  Kept(j, e)'
<1>1. /\ UNCHANGED <<pool, held, listed, list, loaded, report, todo, raised, lost>>
      /\ \/ pc'[j] = "end"
         \/ pc[j] = "save_result" /\ pc'[j] = "save_availability" /\ AllSucceeded(j)
         \/ pc[j] = "save_availability" /\ pc'[j] = "enqueue_availability"
  <2> USE DEF TypeOK, Goto, Save, history
  <2>1. CASE SaveResult(j) \/ SaveAvailability(j) \/ EnqueueAvailability(j)
    BY <2>1 DEF SaveResult, SaveAvailability, EnqueueAvailability
  <2>2. CASE SaveInvalid(j) \/ SaveFailed(j) \/ SavePreview(j) \/ GivesUp(j)
    BY <2>2 DEF SaveInvalid, SaveFailed, SavePreview, GivesUp
  <2> QED
    BY <2>1, <2>2
<1>2. Listed(j)' = Listed(j) /\ (LetGo(j, e) => LetGo(j, e)')
  BY <1>1 DEF Listed, LetGo, CreateDone, Count
<1>3. /\ e \in held'[j] => pool'[e].status \in {"reserved", "used"}
      /\ e \in Listed(j)' => e \in held'[j] \/ LetGo(j, e)'
  BY <1>1, <1>2 DEF Kept
<1>4. CASE pc'[j] = "end"
  BY <1>3, <1>4 DEF Kept, ReleaseLoops, StillHolds, Holding, AllMarked
<1>5. CASE pc'[j] # "end"
  <2>1. pc[j] = "save_result" => CreateDone(j)
    <3>1. ASSUME pc[j] = "save_result" PROVE AllSucceeded(j) /\ NoneFailed(j)
      BY <1>1, <1>5, <3>1 DEF AnswerInv, VerdictFollowed, Answered, AllSucceeded
    <3> QED
      BY <3>1 DEF AllSucceeded, NoneFailed, CreateDone, Accounts
  <2>2. /\ e \in list[j] => e \in held[j]
        /\ e \in Listed(j) => e \in lost \/ pool[e].status = "used"
    BY <1>1, <1>5, <2>1 DEF Kept, StillHolds, AllMarked, Holding
  <2> QED
    BY <1>1, <1>2, <1>3, <1>5, <2>2 DEF Kept, ReleaseLoops
<1> QED
  BY <1>4, <1>5

\* A pool call of a loop that raises leaves its EAN behind.
LEMMA SkipKept ==
    ASSUME TypeOK, NEW j \in Jobs, AnswerInv(j), LoopOrder(j), AnswerInv(j)',
           NEW e \in Eans, Kept(j, e), LetGo(j, e) => LetGo(j, e)', LoopSkips(j)
    PROVE  Kept(j, e)'
<1>1. PICK f \in todo[j] : /\ todo' = [todo EXCEPT ![j] = @ \ {f}]
                           /\ lost' = lost \cup {f}
  BY DEF LoopSkips
<1>2. /\ UNCHANGED <<pool, pc, held, listed, list, report, raised>> /\ loaded'[j] = Idle
      /\ pc[j] \in ReleaseLoops \cup {"mark"}
  BY DEF LoopSkips, TypeOK
<1>3. /\ Listed(j)' = Listed(j) /\ ~Pends(j, e)' /\ todo'[j] \subseteq todo[j]
      /\ e \in todo[j] \cup lost => e \in todo'[j] \cup lost'
  BY <1>1, <1>2 DEF Listed, Pends, TypeOK
<1>4. (StillHolds(j)' <=> StillHolds(j)) /\ ~AllMarked(j)'
  BY <1>2 DEF StillHolds, AllMarked, CreateDone, Count, ReleaseLoops
<1> QED
  BY <1>2, <1>3, <1>4 DEF Kept

\* An exception starts a loop that releases the list once more: of EANs that
\* are not loose it finds only those that are still the job's.
LEMMA UnwindKept ==
    ASSUME TypeOK, NEW j \in Jobs, AnswerInv(j), LoopOrder(j), AnswerInv(j)',
           NEW e \in Eans \ Loose', Kept(j, e),
           PoolExhausted(j) \/ Raises(j) \/ RequestRaises(j)
    PROVE  Kept(j, e)'
<1> USE DEF TypeOK, Goto
<1>1. /\ UNCHANGED <<pool, list, loaded, report, held>> /\ lost \subseteq lost'
      /\ pc'[j] \in {"undo", "undo_preview_error"} /\ todo'[j] = list[j]
      /\ pc[j] \notin ReleaseLoops \cup {"mark"}
  <2>1. CASE PoolExhausted(j) \/ Raises(j)
    BY <2>1 DEF PoolExhausted, Raises, Unwind, Handler, ReleaseLoops
  <2>2. CASE RequestRaises(j)
    BY <2>2 DEF RequestRaises, Unwind, Handler, Accounts, ReleaseLoops
  <2> QED
    BY <2>1, <2>2
<1>2. loaded'[j] = Idle /\ (e \in Listed(j)' => e \in list[j])
  BY <1>1 DEF LoopOrder, AnswerInv, AnswerOrder, Listed, Markets
<1>3. raised'[j] # "again" \/ e \notin list[j]
  BY <1>1 DEF Loose, ReleasedTwice
<1>4. raised'[j] # "again" =>
        /\ StillHolds(j)
        /\ e \in Listed(j)' => pool'[e].status = "used" \/ LetGo(j, e)'
  <2>1. CASE PoolExhausted(j)
    <3>1. pc[j] = "fill" /\ UNCHANGED listed
      BY <2>1 DEF PoolExhausted
    <3> QED
      BY <3>1 DEF StillHolds, Holding, Listed, AnswerInv, AnswerOrder, Unlisted
  <2>2. CASE Raises(j) /\ pc[j] \in {"save_start", "fill", "save_eans", "validate", "save_create"}
    <3>1. UNCHANGED listed
      BY <2>2 DEF Raises
    <3> QED
      BY <2>2, <3>1 DEF StillHolds, Holding, Listed, AnswerInv, AnswerOrder, Unlisted
  <2>3. CASE (Raises(j) /\ pc[j] = "settle") \/ RequestRaises(j)
    <3>1. pc[j] \in {"create_own", "create_xl", "settle"} /\ raised'[j] = "asking"
      BY <2>3 DEF Raises, RequestRaises, RaisedAt
    <3> QED
      BY <3>1 DEF StillHolds, Holding, LetGo
  <2>4. CASE Raises(j) /\ pc[j] = "save_invalid"
    BY <2>4 DEF Raises, RaisedAt
  <2>5. CASE Raises(j) /\ pc[j] \in {"save_result", "save_availability", "enqueue_availability"}
    <3>1. UNCHANGED listed
          /\ raised'[j] = IF pc[j] = "save_result" /\ ~CreateDone(j) THEN "again" ELSE "marked"
      BY <2>5 DEF Raises, RaisedAt
    <3>2. Listed(j)' = Listed(j)
      BY <3>1 DEF Listed
    <3>3. raised'[j] # "again" => AllMarked(j) /\ StillHolds(j) /\ raised'[j] = "marked"
      BY <2>5, <3>1 DEF AllMarked, StillHolds, Holding
    <3> QED
      BY <1>1, <3>2, <3>3 DEF Kept, LetGo
  <2> QED
    BY <2>1, <2>2, <2>3, <2>4, <2>5 DEF Raises
<1>5. /\ e \in held'[j] => pool'[e].status \in {"reserved", "used"}
      /\ e \in list[j] => e \in held'[j]
      /\ e \in Listed(j)' => pool'[e].status = "used" \/ LetGo(j, e)'
  BY <1>1, <1>2, <1>3, <1>4 DEF Kept
<1> QED
  BY <1>1, <1>2, <1>5 DEF Kept, Pends, ReleaseLoops, StillHolds, Holding, AllMarked

LEMMA KillKept ==
    ASSUME TypeOK, NEW j \in Jobs, NEW e \in Eans, Kept(j, e),
           LetGo(j, e) => LetGo(j, e)', Kill(j)
    PROVE  Kept(j, e)'
<1>1. pc'[j] = "dead" /\ UNCHANGED <<pool, held, listed>>
  BY DEF Kill, Goto, TypeOK
<1>2. Listed(j)' = Listed(j)
  BY <1>1 DEF Listed
<1> QED
  BY <1>1, <1>2 DEF Kept, ReleaseLoops, StillHolds, Holding, AllMarked

LEMMA OwnKept ==
    ASSUME TypeOK, AnswersInv, AnswersInv', LoopsInOrder, NEW j \in Jobs,
           UserStep(j) \/ JobStep(j) \/ FaultStep(j),
           NEW e \in Eans \ Loose', Kept(j, e)
    PROVE  Kept(j, e)'
<1>1. AnswerInv(j) /\ AnswerInv(j)' /\ LoopOrder(j) /\ (LetGo(j, e) => LetGo(j, e)')
  BY LetGoStays DEF AnswersInv, LoopsInOrder
<1>2. CASE \/ UserStep(j) \/ SaveQueued(j) \/ Enqueue(j) \/ Start(j) \/ SaveStart(j)
           \/ Filled(j) \/ SaveEans(j) \/ ValidationFails(j) \/ Validated(j)
           \/ SaveCreate(j) \/ FillOne(j) \/ CreateOwn(j) \/ CreateXl(j) \/ Settle(j)
  BY <1>1, <1>2, EarlyKept, FillKept, CreateKept, SettleKept
<1>3. CASE \/ LoadToMark(j) \/ CommitMark(j) \/ Marked(j)
           \/ LoadToRelease(j) \/ CommitToRelease(j) \/ ReleaseLoopDone(j) \/ LoopSkips(j)
  BY <1>1, <1>3, MarkKept, ReleaseKept, SkipKept
<1>4. CASE \/ SaveResult(j) \/ SaveAvailability(j) \/ EnqueueAvailability(j)
           \/ SaveInvalid(j) \/ SaveFailed(j) \/ SavePreview(j) \/ GivesUp(j)
           \/ PoolExhausted(j) \/ Raises(j) \/ RequestRaises(j) \/ Kill(j)
  BY <1>1, <1>4, LateKept, UnwindKept, KillKept
<1> QED
  BY <1>2, <1>3, <1>4 DEF JobStep, FaultStep

LEMMA InitEans == Init => EansKept
<1> SUFFICES ASSUME Init, NEW e \in Eans PROVE EanKept(e)
  BY DEF EansKept
<1>1. \A j \in Jobs : /\ pc[j] = "idle" /\ held[j] = {} /\ list[j] = {}
                     /\ listed[j]["own"] = {} /\ listed[j]["xl"] = {}
  BY DEF Init, NothingYet
<1> QED
  BY <1>1 DEF EanKept, Apart, Kept, Listed, AllMarked, ReleaseLoops

LEMMA NextEans ==
    ASSUME TypeOK, AnswersInv, AnswersInv', LoopsInOrder, EansKept, [Next]_vars
    PROVE  EansKept'
<1>1. CASE UNCHANGED vars
  <2>1. /\ Loose' = Loose
        /\ \A j \in Jobs : /\ Listed(j)' = Listed(j) /\ (CreateDone(j)' <=> CreateDone(j))
    BY <1>1 DEF vars, jobVars, history, Loose, ReleasedTwice, Listed, CreateDone, Count
  <2>2. \A j \in Jobs, e \in Eans : LetGo(j, e)' <=> LetGo(j, e)
    BY <1>1, <2>1 DEF vars, jobVars, history, LetGo
  <2> QED
    BY <1>1, <2>1, <2>2 DEF vars, jobVars, history, EansKept, EanKept, Apart, Kept,
                            StillHolds, AllMarked, Pends
<1>2. ASSUME NEW j \in Jobs, UserStep(j) \/ JobStep(j) \/ FaultStep(j),
             NEW e \in Eans \ Loose'
      PROVE  EanKept(e)'
  <2>1. EanKept(e) /\ OthersUntouched(j) /\ lost \subseteq lost'
    BY <1>2, LetGoStays, StepsAreLocal, LostStays DEF EansKept
  <2>2. Kept(j, e)'
    BY <1>2, <2>1, OwnKept DEF EanKept
  <2>3. /\ \/ pool'[e] = pool[e]
           \/ FillOne(j) /\ pool[e].status = "available"
           \/ (CommitMark(j) \/ CommitToRelease(j)) /\ Pends(j, e)
        /\ e \in held'[j] => e \in held[j] \/ pool[e].status = "available"
    BY <1>2, OwnRows
  <2>4. (CommitMark(j) \/ CommitToRelease(j)) /\ Pends(j, e) => e \in held[j]
    BY <2>1 DEF CommitMark, CommitToRelease, Pends, EanKept, Kept, LoopsInOrder, LoopOrder
  <2>5. ASSUME NEW k \in Jobs, k # j PROVE Kept(k, e)'
    <3>1. Kept(k, e) /\ AnswerInv(k) /\ LoopOrder(k)
      BY <2>1 DEF EanKept, AnswersInv, LoopsInOrder
    <3>2. e \in held[k] => pool'[e] = pool[e]
      BY <2>1, <2>3, <2>4, <2>5, <3>1 DEF EanKept, Apart, Kept
    <3> QED
      BY <2>1, <2>5, <3>1, <3>2, OtherKept DEF OthersUntouched
  <2>6. Apart(e)'
    <3>1. \A k \in Jobs : e \in held[k] => pool[e].status # "available"
      BY <2>1 DEF EanKept, Kept
    <3> QED
      BY <2>1, <2>3, <3>1 DEF EanKept, Apart, OthersUntouched
  <2> QED
    BY <2>2, <2>5, <2>6 DEF EanKept
<1>3. ASSUME NEW c \in Clients, ConsoleStep(c), NEW e \in Eans \ Loose'
      PROVE  EanKept(e)'
  <2>1. UNCHANGED <<jobVars, held, listed, lost, raised>> /\ byHand \subseteq byHand'
    BY <1>3 DEF ConsoleStep
  <2>2. e \notin Loose /\ e \notin byHand'
    BY <1>3, <2>1 DEF Loose, ReleasedTwice, jobVars
  <2>3. EanKept(e)
    BY <2>2 DEF EansKept
  <2>4. ASSUME NEW k \in Jobs PROVE Kept(k, e)'
    <3>1. Kept(k, e) /\ AnswerInv(k) /\ LoopOrder(k)
      BY <2>3 DEF EanKept, AnswersInv, LoopsInOrder
    <3>2. e \in held[k] => pool'[e] = pool[e]
      BY <1>3, <2>2, <3>1, ConsoleRows DEF Kept
    <3> QED
      BY <2>1, <3>1, <3>2, OtherKept DEF jobVars
  <2>5. Apart(e)'
    BY <2>1, <2>3 DEF EanKept, Apart
  <2> QED
    BY <2>4, <2>5 DEF EanKept
<1> QED
  BY <1>1, <1>2, <1>3 DEF Next, EansKept

\* Everything that is known of the jobs and of the EANs.
SubmitInv == TypeOK /\ AnswersInv /\ LoopsInOrder /\ EansKept

LEMMA SubmitInvariant == Spec => []SubmitInv
<1>1. Init => AnswersInv /\ LoopsInOrder /\ EansKept
  BY InitAnswers, InitLoops, InitEans
<1>2. TypeOK /\ AnswersInv /\ [Next]_vars => AnswersInv'
  BY NextAnswers
<1>3. TypeOK /\ LoopsInOrder /\ [Next]_vars => LoopsInOrder'
  BY NextLoops
<1>4. TypeOK /\ AnswersInv /\ AnswersInv' /\ LoopsInOrder /\ EansKept /\ [Next]_vars => EansKept'
  BY NextEans
<1> QED
  BY <1>1, <1>2, <1>3, <1>4, TypeCorrect, PTL DEF Spec, SubmitInv

\* However many jobs, tasks and EANs there are, and under every fault (jobs cut
\* off or ended by an exception at any call, requests that raise after OTTO
\* accepted some products, counters that say less or more than OTTO did, users
\* at work on the same table), two jobs list products under the same EAN only
\* if one of them had let it go, or a second release or a user had made it
\* loose (_run_factory_submit_task, 5964-5981 and 6029-6030).
THEOREM Exclusive == Spec => []NoDoubleListing
<1>1. SubmitInv => NoDoubleListing
  <2> SUFFICES ASSUME SubmitInv, NEW j \in Jobs, NEW k \in Jobs, j # k,
                      NEW e \in Listed(j) \cap Listed(k), e \notin Loose,
                      ~LetGo(j, e), ~LetGo(k, e)
               PROVE  FALSE
    BY DEF NoDoubleListing
  <2>1. e \in Eans
    BY DEF SubmitInv, TypeOK, Listed
  <2>2. EanKept(e)
    BY <2>1 DEF SubmitInv, EansKept
  <2>3. e \in held[j] /\ e \in held[k]
    BY <2>2 DEF EanKept, Kept
  <2> QED
    BY <2>2, <2>3 DEF EanKept, Apart
<1> QED
  BY <1>1, SubmitInvariant, PTL

\* Under the same faults no step takes a used EAN back, although release and
\* mark_used decide on a row they have read in an earlier step, unless the EAN
\* is loose: nobody else acts on an EAN of the job, and the check of a release
\* is still true when the release commits (ean_pool_service.py).
THEOREM UsedStaysUsed == Spec => UsedStays
<1>1. SubmitInv /\ [Next]_vars =>
        [\A e \in Eans : pool[e].status = "used" /\ e \notin Loose'
                           => pool'[e].status = "used"]_vars
  <2> SUFFICES ASSUME SubmitInv, Next, NEW e \in Eans,
                      pool[e].status = "used", e \notin Loose'
               PROVE  pool'[e].status = "used"
    OBVIOUS
  <2>1. ASSUME NEW c \in Clients, ConsoleStep(c)
        PROVE  pool'[e].status = "used"
    BY <2>1, ConsoleRows DEF SubmitInv, Loose
  <2>2. ASSUME NEW j \in Jobs, UserStep(j) \/ JobStep(j) \/ FaultStep(j)
        PROVE  pool'[e].status = "used"
    <3>1. Kept(j, e) /\ LoopOrder(j)
      BY <2>2, LetGoStays DEF SubmitInv, EansKept, EanKept, LoopsInOrder
    <3>2. ~(CommitToRelease(j) /\ Pends(j, e))
      BY <3>1 DEF CommitToRelease, Kept
    <3>3. CommitMark(j) /\ Pends(j, e) => pool'[e].status = "used"
      <4>1. ASSUME CommitMark(j), Pends(j, e)
            PROVE  pool' \in {pool, [pool EXCEPT ![e].status = "used"]}
        BY <4>1 DEF CommitMark, MarkedUsed, Pends
      <4> QED
        BY <4>1 DEF SubmitInv, TypeOK, JobPoolRow
    <3> QED
      BY <2>2, <3>2, <3>3, OwnRows DEF SubmitInv
  <2> QED
    BY <2>1, <2>2 DEF Next
<1> QED
  BY <1>1, SubmitInvariant, PTL DEF Spec, UsedStays


-----------------------------------------------------------------------------
(* The jobs and the pool implement EanAllocation, under every fault.       *)

\* The EANs of which nothing is promised any more.
Voided(e) == e \in Loose \/ \E j \in Jobs : e \in Listed(j) /\ LetGo(j, e)

\* What the refinement mapping says of an EAN, without its choices: of an EAN
\* that is not void there is one holder to choose.
AllocFacts ==
    /\ alloc = [e \in Eans |-> alloc[e]]
    /\ \A e \in Eans :
         /\ Voided(e) => alloc[e] = Allocation!Void
         /\ ~Voided(e) =>
              /\ \A j \in Jobs : e \in Listed(j) => alloc[e] = Allocation!ListedFor(j)
              /\ \A j \in Jobs : e \in held[j] \ Listed(j) => alloc[e] = Allocation!Held(j)
              /\ (\A j \in Jobs : e \notin held[j]) => alloc[e] = Allocation!Free

LEMMA AllocIs == SubmitInv => AllocFacts
<1> SUFFICES ASSUME SubmitInv PROVE AllocFacts
  OBVIOUS
<1>1. alloc = [e \in Eans |-> alloc[e]]
  BY DEF alloc
<1>2. ASSUME NEW e \in Eans, Voided(e) PROVE alloc[e] = Allocation!Void
  BY <1>2 DEF alloc, Voided, Allocation!Void
<1>3. ASSUME NEW e \in Eans, ~Voided(e)
      PROVE  /\ \A j \in Jobs : e \in Listed(j) => alloc[e] = Allocation!ListedFor(j)
             /\ \A j \in Jobs : e \in held[j] \ Listed(j) => alloc[e] = Allocation!Held(j)
             /\ (\A j \in Jobs : e \notin held[j]) => alloc[e] = Allocation!Free
  <2>1. /\ Apart(e)
        /\ \A j \in Jobs : e \in Listed(j) => e \in held[j]
    BY <1>3 DEF Voided, SubmitInv, EansKept, EanKept, Kept
  <2>2. ASSUME NEW j \in Jobs, e \in Listed(j) PROVE alloc[e] = Allocation!ListedFor(j)
    <3>1. (CHOOSE k \in Jobs : e \in Listed(k)) = j
      BY <2>1, <2>2 DEF Apart
    <3> QED
      BY <1>3, <2>2, <3>1 DEF alloc, Voided, Allocation!ListedFor
  <2>3. ASSUME NEW j \in Jobs, e \in held[j] \ Listed(j) PROVE alloc[e] = Allocation!Held(j)
    <3>1. (CHOOSE k \in Jobs : e \in held[k]) = j
      BY <2>1, <2>3 DEF Apart
    <3>2. ~ \E k \in Jobs : e \in Listed(k)
      BY <2>1, <2>3 DEF Apart
    <3> QED
      BY <1>3, <2>3, <3>1, <3>2 DEF alloc, Voided, Allocation!Held
  <2>4. ASSUME \A j \in Jobs : e \notin held[j] PROVE alloc[e] = Allocation!Free
    BY <1>3, <2>1, <2>4 DEF alloc, Voided, Allocation!Free
  <2> QED
    BY <2>2, <2>3, <2>4
<1> QED
  BY <1>1, <1>2, <1>3 DEF AllocFacts

\* A void EAN was taken by a job that gave up, or by hand.
Excused == \A e \in Eans : Voided(e) =>
              e \in byHand \/ \E j \in Jobs : GaveUp(j) /\ e \in taken[j]

LEMMA VoidIsExcused == SubmitInv => Excused
<1> SUFFICES ASSUME SubmitInv, NEW e \in Eans, Voided(e)
             PROVE  e \in byHand \/ \E j \in Jobs : GaveUp(j) /\ e \in taken[j]
  BY DEF Excused
<1>1. CASE e \in Loose
  BY <1>1 DEF Loose, ReleasedTwice, GaveUp, taken
<1>2. CASE \E j \in Jobs : e \in Listed(j) /\ LetGo(j, e)
  <2>1. PICK j \in Jobs : e \in Listed(j) /\ LetGo(j, e)
    BY <1>2
  <2>2. e \in list[j]
    BY <2>1 DEF SubmitInv, AnswersInv, AnswerInv, AnswerOrder, Listed, Markets
  <2>3. GaveUp(j)
    BY <2>1 DEF LetGo, GaveUp
  <2> QED
    BY <2>2, <2>3 DEF taken
<1> QED
  BY <1>1, <1>2 DEF Voided

\* A step that takes nothing, and moves no EAN that is not void after it, is
\* a GiveUp of EanAllocation.
LEMMA DriftRefines ==
    ASSUME SubmitInv, TypeOK', AllocFacts, AllocFacts', Excused', taken' = taken,
           byHand \subseteq byHand', \A j \in Jobs : GaveUp(j) => GaveUp(j)',
           \A e \in Eans : Voided(e) => Voided(e)',
           \A e \in Eans : ~Voided(e)' =>
               \A j \in Jobs : /\ e \in held'[j] <=> e \in held[j]
                               /\ e \in Listed(j)' <=> e \in Listed(j)
    PROVE  Allocation!Next
<1> DEFINE S == {e \in Eans : Voided(e)'}
<1>1. ASSUME NEW e \in Eans PROVE alloc'[e] = IF e \in S THEN Allocation!Void ELSE alloc[e]
  <2>1. CASE e \in S
    BY <2>1 DEF AllocFacts
  <2>2. CASE e \notin S
    <3>1. ~Voided(e) /\ ~Voided(e)'
      BY <2>2
    <3>2. \A j \in Jobs : e \in Listed(j) => e \in held[j]
      BY <3>1 DEF Voided, SubmitInv, EansKept, EanKept, Kept
    <3>3. CASE \E j \in Jobs : e \in Listed(j)
      BY <2>2, <3>1, <3>3 DEF AllocFacts
    <3>4. CASE \E j \in Jobs : e \in held[j] \ Listed(j)
      BY <2>2, <3>1, <3>4 DEF AllocFacts
    <3>5. CASE \A j \in Jobs : e \notin held[j]
      BY <2>2, <3>1, <3>5 DEF AllocFacts
    <3> QED
      BY <3>2, <3>3, <3>4, <3>5
  <2> QED
    BY <2>1, <2>2
<1>2. alloc' = [e \in Eans |-> IF e \in S THEN Allocation!Void ELSE alloc[e]]
  BY <1>1 DEF AllocFacts
<1>3. \A e \in S : e \in byHand' \/ \E j \in Jobs : GaveUp(j)' /\ e \in taken[j]
  BY DEF Excused
<1>4. byHand' \subseteq Eans
  BY DEF TypeOK
<1>5. S \in SUBSET Eans
  OBVIOUS
<1> HIDE DEF S
<1>6. Allocation!GiveUp(S)
  BY <1>2, <1>3, <1>4 DEF Allocation!GiveUp
<1> QED
  BY <1>5, <1>6 DEF Allocation!Next


\* A job's own step that is none of those below holds, lists and knows of the
\* EANs it did before.
LEMMA QuietAllocation ==
    ASSUME TypeOK, NEW j \in Jobs, UserStep(j) \/ JobStep(j) \/ FaultStep(j),
           ~(FillOne(j) \/ Filled(j) \/ CommitToRelease(j) \/ CreateOwn(j) \/ CreateXl(j)
             \/ RequestRaises(j))
    PROVE  UNCHANGED <<held, listed, list>>
<1> USE DEF history, jobVars
<1>1. CASE \/ UserStep(j) \/ SaveQueued(j) \/ Enqueue(j) \/ Start(j) \/ SaveStart(j)
           \/ PoolExhausted(j) \/ SaveEans(j) \/ ValidationFails(j) \/ Validated(j)
           \/ SaveCreate(j) \/ Settle(j)
  BY <1>1 DEF UserStep, Click, Preview, SaveQueued, Enqueue, Start, SaveStart, PoolExhausted,
       SaveEans, ValidationFails, Validated, SaveCreate, Settle
<1>2. CASE \/ LoadToMark(j) \/ CommitMark(j) \/ Marked(j) \/ SaveResult(j)
           \/ SaveAvailability(j) \/ EnqueueAvailability(j) \/ LoadToRelease(j)
           \/ ReleaseLoopDone(j) \/ SaveInvalid(j) \/ SaveFailed(j) \/ SavePreview(j)
  BY <1>2 DEF LoadToMark, CommitMark, Marked, SaveResult, SaveAvailability,
       EnqueueAvailability, LoadToRelease, ReleaseLoopDone, SaveInvalid, SaveFailed,
       SavePreview
<1>3. CASE Raises(j) \/ GivesUp(j) \/ LoopSkips(j) \/ Kill(j)
  BY <1>3 DEF Raises, GivesUp, LoopSkips, Kill
<1> QED
  BY <1>1, <1>2, <1>3 DEF JobStep, FaultStep

\* What is void stays void.
LEMMA VoidStays ==
    ASSUME TypeOK, AnswersInv, NEW j \in Jobs, UserStep(j) \/ JobStep(j) \/ FaultStep(j),
           NEW e \in Eans, Voided(e)
    PROVE  Voided(e)'
<1>1. CASE e \in Loose
  <2>1. e \in Loose'
    BY <1>1, LetGoStays
  <2> QED
    BY <2>1 DEF Voided
<1>2. CASE \E k \in Jobs : e \in Listed(k) /\ LetGo(k, e)
  <2>1. PICK k \in Jobs : e \in Listed(k) /\ LetGo(k, e)
    BY <1>2
  <2>2. LetGo(k, e)'
    BY <2>1, LetGoStays
  <2>3. e \in Listed(k)'
    <3>1. CASE k = j
      BY <2>1, <3>1, ListingsStay DEF AnswersInv
    <3>2. CASE k # j
      BY <2>1, <3>2, StepsAreLocal DEF OthersUntouched, Listed
    <3> QED
      BY <3>1, <3>2
  <2> QED
    BY <2>2, <2>3 DEF Voided
<1> QED
  BY <1>1, <1>2 DEF Voided

\* A step by which its job lets nothing go that it had not let go before
\* leaves what an EAN is void by.
LEMMA SameVoid ==
    ASSUME NEW j \in Jobs, OthersUntouched(j), UNCHANGED <<lost, byHand>>,
           list'[j] = list[j], raised'[j] = raised[j],
           NEW e \in Eans, ~LetGo(j, e), ~LetGo(j, e)'
    PROVE  Voided(e)' <=> Voided(e)
<1>1. ASSUME NEW k \in Jobs, k # j
      PROVE  Listed(k)' = Listed(k) /\ (LetGo(k, e)' <=> LetGo(k, e))
  BY <1>1 DEF OthersUntouched, Listed, LetGo, CreateDone, Count
<1>2. Loose' = Loose
  BY DEF OthersUntouched, Loose, ReleasedTwice
<1>3. ASSUME NEW k \in Jobs
      PROVE  (e \in Listed(k)' /\ LetGo(k, e)') <=> (e \in Listed(k) /\ LetGo(k, e))
  <2>1. CASE k = j
    BY <2>1
  <2>2. CASE k # j
    BY <1>1, <2>2
  <2> QED
    BY <2>1, <2>2
<1> QED
  BY <1>2, <1>3 DEF Voided

\* Every step of a job is a step of EanAllocation, or a stutter.
LEMMA StepRefines ==
    ASSUME SubmitInv, SubmitInv', AllocFacts, AllocFacts', Excused',
           NEW j \in Jobs, UserStep(j) \/ JobStep(j) \/ FaultStep(j)
    PROVE  Allocation!Next
<1>0. /\ OthersUntouched(j) /\ byHand' = byHand /\ lost \subseteq lost'
      /\ \A k \in Jobs : GaveUp(k) => GaveUp(k)'
      /\ \A e \in Eans : Voided(e) => Voided(e)'
  <2>1. OthersUntouched(j) /\ byHand' = byHand /\ lost \subseteq lost'
    BY StepsAreLocal, LostStays DEF SubmitInv
  <2>2. ASSUME NEW k \in Jobs PROVE GaveUp(k) => GaveUp(k)'
    BY GaveUpStays DEF SubmitInv
  <2>3. ASSUME NEW e \in Eans PROVE Voided(e) => Voided(e)'
    BY VoidStays DEF SubmitInv
  <2> QED
    BY <2>1, <2>2, <2>3
<1> DEFINE Still(e) == \A k \in Jobs : /\ e \in held'[k] <=> e \in held[k]
                                       /\ e \in Listed(k)' <=> e \in Listed(k)
<1>1. ASSUME taken' = taken, \A e \in Eans : ~Voided(e)' => Still(e)
      PROVE  Allocation!Next
  BY <1>0, <1>1, DriftRefines DEF SubmitInv
<1>2. CASE ~(FillOne(j) \/ Filled(j) \/ CommitToRelease(j) \/ CreateOwn(j) \/ CreateXl(j)
             \/ RequestRaises(j))
  <2>1. UNCHANGED <<held, listed, list>>
    BY <1>2, QuietAllocation DEF SubmitInv
  <2> QED
    BY <1>1, <2>1 DEF taken, Listed
<1>3. CASE Filled(j)
  <2>1. /\ UNCHANGED <<held, listed>> /\ list' = [list EXCEPT ![j] = held[j]]
        /\ list[j] = {}
    BY <1>3 DEF Filled, history, SubmitInv, LoopsInOrder, LoopOrder, Unfilled
  <2>2. taken' = taken
    BY <2>1 DEF taken, SubmitInv, TypeOK
  <2> QED
    BY <1>1, <2>1, <2>2 DEF Listed
<1>4. CASE RequestRaises(j)
  <2>1. UNCHANGED <<held, list>> /\ raised'[j] = "asking"
    BY <1>4 DEF RequestRaises, RaisedAt, SubmitInv, TypeOK, Accounts
  <2>2. \A e \in Eans : e \in Listed(j)' => Voided(e)'
    BY <2>1 DEF LetGo, Voided
  <2>3. Listed(j) \subseteq Listed(j)'
    BY ListingsStay DEF SubmitInv, AnswersInv
  <2>4. \A k \in Jobs : k # j => Listed(k)' = Listed(k)
    BY <1>0 DEF OthersUntouched, Listed
  <2> QED
    BY <1>1, <2>1, <2>2, <2>3, <2>4 DEF taken
<1>5. CASE FillOne(j)
  <2>1. PICK e \in Eans : /\ pool[e].status = "available"
                          /\ held' = [held EXCEPT ![j] = @ \cup {e}]
    BY <1>5 DEF FillOne, IsNext, Available
  <2>2. UNCHANGED <<list, report, listed, lost, raised, byHand>>
    BY <1>5 DEF FillOne
  <2>3. /\ \A k \in Jobs : Listed(k)' = Listed(k) /\ (GaveUp(k)' <=> GaveUp(k))
        /\ \A f \in Eans : Voided(f)' <=> Voided(f)
    BY <2>2 DEF Listed, GaveUp, Voided, LetGo, Loose, ReleasedTwice, CreateDone, Count
  <2>4. taken' = [taken EXCEPT ![j] = @ \cup {e}]
    BY <2>1, <2>2 DEF taken, SubmitInv, TypeOK
  <2>5. ASSUME NEW f \in Eans, f # e \/ Voided(e) PROVE alloc'[f] = alloc[f]
    <3>1. CASE Voided(f)
      BY <2>3, <3>1 DEF AllocFacts
    <3>2. CASE ~Voided(f)
      <4>1. \A k \in Jobs : f \in held'[k] <=> f \in held[k]
        BY <2>1, <2>5, <3>2 DEF SubmitInv, TypeOK
      <4>2. \A k \in Jobs : f \in Listed(k) => f \in held[k]
        BY <3>2 DEF Voided, SubmitInv, EansKept, EanKept, Kept
      <4>3. CASE \E k \in Jobs : f \in Listed(k)
        BY <2>3, <3>2, <4>3 DEF AllocFacts
      <4>4. CASE \E k \in Jobs : f \in held[k] \ Listed(k)
        BY <2>3, <3>2, <4>1, <4>4 DEF AllocFacts
      <4>5. CASE \A k \in Jobs : f \notin held[k]
        BY <2>3, <3>2, <4>1, <4>5 DEF AllocFacts
      <4> QED
        BY <4>2, <4>3, <4>4, <4>5
    <3> QED
      BY <3>1, <3>2
  <2>6. Allocation!Take(j, e)
    <3>1. CASE Voided(e)
      <4>1. alloc' = alloc
        BY <2>5, <3>1 DEF AllocFacts
      <4> QED
        BY <2>2, <2>3, <2>4, <3>1, <4>1 DEF AllocFacts, Allocation!Take
    <3>2. CASE ~Voided(e)
      <4>1. \A k \in Jobs : e \notin held[k] /\ e \notin Listed(k)
        BY <2>1, <3>2 DEF Voided, SubmitInv, EansKept, EanKept, Kept
      <4>2. alloc[e] = Allocation!Free /\ alloc'[e] = Allocation!Held(j)
        BY <2>1, <2>3, <3>2, <4>1 DEF AllocFacts, SubmitInv, TypeOK
      <4>3. alloc' = [alloc EXCEPT ![e] = Allocation!Held(j)]
        BY <2>5, <4>2 DEF AllocFacts
      <4> QED
        BY <2>2, <2>3, <2>4, <4>2, <4>3 DEF Allocation!Take
    <3> QED
      BY <3>1, <3>2
  <2> QED
    BY <2>6 DEF Allocation!Next
<1>6. CASE CommitToRelease(j)
  <2> DEFINE e == loaded[j].ean
  <2>1. /\ held' = [held EXCEPT ![j] = @ \ {e}]
        /\ UNCHANGED <<list, report, listed, lost, raised, byHand>>
        /\ e \in Eans /\ e \in list[j] /\ e \in todo[j] /\ Pends(j, e)
        /\ pc[j] \in ReleaseLoops
    BY <1>6, LoadedEan DEF CommitToRelease, SubmitInv, LoopsInOrder, LoopOrder, Pends
  <2> HIDE DEF e
  <2>2. taken' = taken
    <3>1. held'[j] \cup list[j] = held[j] \cup list[j]
      BY <2>1 DEF SubmitInv, TypeOK
    <3> QED
      BY <2>1, <3>1 DEF taken, SubmitInv, TypeOK
  <2>3. /\ \A k \in Jobs : Listed(k)' = Listed(k) /\ (GaveUp(k)' <=> GaveUp(k))
        /\ \A f \in Eans : Voided(f)' <=> Voided(f)
    BY <2>1 DEF Listed, GaveUp, Voided, LetGo, Loose, ReleasedTwice, CreateDone, Count
  <2>4. \A f \in Eans : f # e => Still(f)
    BY <2>1, <2>3 DEF SubmitInv, TypeOK
  <2>5. CASE Voided(e)
    <3>1. \A f \in Eans : ~Voided(f)' => Still(f)
      BY <2>3, <2>4, <2>5
    <3> HIDE DEF Still
    <3> QED
      BY <1>1, <2>2, <3>1
  <2>6. CASE ~Voided(e)
    <3>1. Kept(j, e) /\ Apart(e)
      BY <2>1, <2>6 DEF Voided, SubmitInv, EansKept, EanKept
    <3>2. e \in held[j] /\ e \notin Listed(j)
      BY <2>1, <2>6, <3>1 DEF Kept, Voided
    <3>3. \A k \in Jobs : e \notin held'[k]
      BY <2>1, <3>1, <3>2 DEF Apart, SubmitInv, TypeOK
    <3>4. alloc[e] = Allocation!Held(j) /\ alloc'[e] = Allocation!Free
      BY <2>1, <2>3, <2>6, <3>2, <3>3 DEF AllocFacts
    <3>5. ASSUME NEW f \in Eans, f # e PROVE alloc'[f] = alloc[f]
      <4>1. CASE Voided(f)
        BY <2>3, <4>1 DEF AllocFacts
      <4>2. CASE ~Voided(f)
        <5>1. \A k \in Jobs : f \in Listed(k) => f \in held[k]
          BY <4>2 DEF Voided, SubmitInv, EansKept, EanKept, Kept
        <5>2. CASE \E k \in Jobs : f \in Listed(k)
          BY <2>3, <4>2, <5>2 DEF AllocFacts
        <5>3. CASE \E k \in Jobs : f \in held[k] \ Listed(k)
          BY <2>3, <2>4, <3>5, <4>2, <5>3 DEF AllocFacts
        <5>4. CASE \A k \in Jobs : f \notin held[k]
          BY <2>3, <2>4, <3>5, <4>2, <5>4 DEF AllocFacts
        <5> QED
          BY <5>1, <5>2, <5>3, <5>4
      <4> QED
        BY <4>1, <4>2
    <3>6. alloc' = [alloc EXCEPT ![e] = Allocation!Free]
      BY <3>4, <3>5 DEF AllocFacts
    <3>7. Allocation!GiveBack(j, e)
      BY <2>1, <2>2, <2>3, <3>4, <3>6 DEF Allocation!GiveBack
    <3> QED
      BY <2>1, <3>7 DEF Allocation!Next
  <2> QED
    BY <2>5, <2>6
<1>7. CASE CreateOwn(j) \/ CreateXl(j)
  <2>1. /\ UNCHANGED <<held, list, lost, raised, byHand>>
        /\ pc[j] \in {"create_own", "create_xl"} /\ pc'[j] \in {"create_xl", "settle"}
    BY <1>7 DEF CreateOwn, CreateXl, Create, Goto, SubmitInv, TypeOK
  <2>2. /\ Listed(j) \subseteq Listed(j)' /\ Listed(j)' \subseteq list[j]
        /\ \A k \in Jobs : k # j => Listed(k)' = Listed(k)
    <3>1. Listed(j) \subseteq Listed(j)'
      BY ListingsStay DEF SubmitInv, AnswersInv
    <3>2. Listed(j)' \subseteq list[j]
      BY <2>1 DEF SubmitInv, AnswersInv, AnswerInv, AnswerOrder, Listed, Markets
    <3> QED
      BY <1>0, <3>1, <3>2 DEF OthersUntouched, Listed
  <2>3. taken' = taken
    BY <2>1 DEF taken
  <2>4. report'[j]["own"].called
    <3>1. CASE pc'[j] = "create_xl"
      BY <3>1 DEF SubmitInv, AnswersInv, AnswerInv, AnswerOrder
    <3>2. CASE pc'[j] = "settle"
      BY <3>2 DEF SubmitInv, AnswersInv, AnswerInv, AnswerOrder, Answered, Accounts
    <3> QED
      BY <2>1, <3>1, <3>2
  <2>5. CASE ~CreateDone(j)'
    <3>1. \A e \in Eans : e \in Listed(j)' => Voided(e)'
      BY <2>4, <2>5 DEF LetGo, Voided
    <3> QED
      BY <1>1, <2>1, <2>2, <2>3, <3>1
  <2>6. CASE CreateDone(j)'
    <3>1. ~GaveUp(j) /\ ~GaveUp(j)' /\ \A e \in Eans : ~LetGo(j, e) /\ ~LetGo(j, e)'
      <4>1. raised[j] = "no"
        BY <2>1 DEF SubmitInv, AnswersInv, AnswerInv, RaisedOrder, Raised
      <4>2. ~(report[j]["own"].called /\ ~CreateDone(j))
        <5>1. SUFFICES ASSUME report[j]["own"].called PROVE CreateDone(j)
          OBVIOUS
        <5>2. report'[j]["own"] = report[j]["own"]
          BY <5>1, CalledIsSettled DEF SubmitInv, AnswersInv, Markets
        <5> QED
          BY <2>1, <2>6, <5>2 DEF CreateDone, Count
      <4> QED
        BY <2>1, <2>6, <4>1, <4>2 DEF GaveUp, LetGo
    <3>2. \A e \in Eans : Voided(e)' <=> Voided(e)
      BY <1>0, <2>1, <3>1, SameVoid
    <3>3. \A k \in Jobs : GaveUp(k)' <=> GaveUp(k)
      BY <1>0, <3>1 DEF OthersUntouched, GaveUp, CreateDone, Count
    <3> DEFINE S == {e \in Eans : e \in Listed(j)' \ Listed(j) /\ ~Voided(e)}
    <3>4. ASSUME NEW e \in Eans, e \in S
          PROVE  alloc[e] = Allocation!Held(j) /\ alloc'[e] = Allocation!ListedFor(j)
      <4>1. Kept(j, e) /\ ~Voided(e) /\ ~Voided(e)'
        BY <3>2, <3>4 DEF Voided, SubmitInv, EansKept, EanKept
      <4>2. e \in held[j] \ Listed(j)
        BY <2>1, <2>2, <3>4, <4>1 DEF Kept, StillHolds, Holding
      <4> QED
        BY <3>4, <4>1, <4>2 DEF AllocFacts
    <3>5. ASSUME NEW e \in Eans, e \notin S
          PROVE  alloc'[e] = alloc[e]
      <4>1. CASE Voided(e)
        BY <3>2, <4>1 DEF AllocFacts
      <4>2. CASE ~Voided(e)
        <5>1. /\ \A k \in Jobs : e \in Listed(k) => e \in held[k]
              /\ \A k \in Jobs : e \in Listed(k)' <=> e \in Listed(k)
          BY <2>2, <3>5, <4>2 DEF Voided, SubmitInv, EansKept, EanKept, Kept
        <5>2. CASE \E k \in Jobs : e \in Listed(k)
          BY <3>2, <4>2, <5>1, <5>2 DEF AllocFacts
        <5>3. CASE \E k \in Jobs : e \in held[k] \ Listed(k)
          BY <2>1, <3>2, <4>2, <5>1, <5>3 DEF AllocFacts
        <5>4. CASE \A k \in Jobs : e \notin held[k]
          BY <2>1, <3>2, <4>2, <5>4 DEF AllocFacts
        <5> QED
          BY <5>1, <5>2, <5>3, <5>4
      <4> QED
        BY <4>1, <4>2
    <3>6. S \in SUBSET Eans
      OBVIOUS
    <3> HIDE DEF S
    <3>7. alloc' = [e \in Eans |-> IF e \in S THEN Allocation!ListedFor(j) ELSE alloc[e]]
      BY <3>4, <3>5 DEF AllocFacts
    <3>8. Allocation!List(j, S)
      BY <2>1, <2>3, <3>3, <3>4, <3>6, <3>7 DEF Allocation!List
    <3> QED
      BY <3>6, <3>8 DEF Allocation!Next
  <2> QED
    BY <2>5, <2>6
<1> QED
  BY <1>2, <1>3, <1>4, <1>5, <1>6, <1>7

\* A user of the routes only makes EANs void.
LEMMA ConsoleRefines ==
    ASSUME SubmitInv, SubmitInv', AllocFacts, AllocFacts', Excused',
           NEW c \in Clients, ConsoleStep(c)
    PROVE  Allocation!Next
<1>1. UNCHANGED <<jobVars, held, listed, lost, raised>> /\ byHand \subseteq byHand'
  BY DEF ConsoleStep
<1>2. /\ taken' = taken
      /\ \A j \in Jobs : Listed(j)' = Listed(j) /\ (GaveUp(j)' <=> GaveUp(j))
      /\ \A e \in Eans : Voided(e) => Voided(e)'
  BY <1>1 DEF taken, jobVars, Listed, GaveUp, Voided, LetGo, Loose, ReleasedTwice,
              CreateDone, Count
<1> QED
  BY <1>1, <1>2, DriftRefines DEF SubmitInv

\* Under every fault the submit jobs, the previews, the pool and its users
\* together implement EanAllocation: an EAN passes from free to one holder to
\* listed for that holder, and leaves this order, to become void, only with a
\* holder that gave up or by hand.
THEOREM ImplementsAllocation == Spec => AllocationSpec
<1>1. Init => Allocation!Init
  <2> SUFFICES ASSUME Init PROVE Allocation!Init
    OBVIOUS
  <2>1. \A j \in Jobs : /\ held[j] = {} /\ Listed(j) = {} /\ list[j] = {} /\ raised[j] = "no"
                       /\ ~report[j]["own"].called
    BY DEF Init, NothingYet, Listed, NoReport
  <2>2. Loose = {} /\ byHand = {}
    BY <2>1 DEF Loose, ReleasedTwice, Init, NothingYet
  <2>3. alloc = [e \in Eans |-> Allocation!Free]
    BY <2>1, <2>2 DEF alloc, Allocation!Free
  <2>4. taken = [h \in Jobs |-> {}] /\ {j \in Jobs : GaveUp(j)} = {}
    BY <2>1 DEF taken, GaveUp
  <2> QED
    BY <2>2, <2>3, <2>4 DEF Allocation!Init
<1>2. SubmitInv' => AllocFacts' /\ Excused'
  BY AllocIs, VoidIsExcused, PTL
<1>3. SubmitInv /\ SubmitInv' /\ [Next]_vars => [Allocation!Next]_(Allocation!vars)
  <2> SUFFICES ASSUME SubmitInv, SubmitInv', [Next]_vars
               PROVE  [Allocation!Next]_(Allocation!vars)
    OBVIOUS
  <2>1. CASE UNCHANGED vars
    <3>1. /\ taken' = taken
          /\ {j \in Jobs : GaveUp(j)}' = {j \in Jobs : GaveUp(j)}
          /\ alloc' = alloc /\ byHand' = byHand
      BY <2>1 DEF vars, jobVars, history, alloc, taken, Listed, GaveUp, LetGo, Loose,
                  ReleasedTwice, CreateDone, Count
    <3> QED
      BY <3>1 DEF Allocation!vars
  <2>2. ASSUME NEW j \in Jobs, UserStep(j) \/ JobStep(j) \/ FaultStep(j)
        PROVE  Allocation!Next
    BY <1>2, <2>2, AllocIs, StepRefines
  <2>3. ASSUME NEW c \in Clients, ConsoleStep(c)
        PROVE  Allocation!Next
    BY <1>2, <2>3, AllocIs, ConsoleRefines
  <2> QED
    BY <2>1, <2>2, <2>3 DEF Next
<1> QED
  BY <1>1, <1>3, SubmitInvariant, PTL DEF Spec, AllocationSpec, Allocation!Spec

-----------------------------------------------------------------------------
(* No reservation is forgotten, under every fault and any manual work.     *)

\* The next commit of the job does not pass the EAN over: a mark_used that saw
\* the row used writes nothing.
NotPassedOver(j, e) ==
    ~ (pc[j] = "mark" /\ loaded[j] # Idle /\ loaded[j].ean = e /\ loaded[j].seen = "used")

Remembered ==
    \A e \in Eans :
        (pool[e].status = "reserved" /\ pool[e].reservedFor \in Processes)
        => e \in lost \/ \E j \in Jobs : WillSettle(j, e) /\ NotPassedOver(j, e)

\* A job knows of all it holds, from the end of the fill to its verdict.
KnowsAll(j) ==
    /\ pc[j] \in {"idle", "save_queued", "enqueue", "queued", "save_start"} => held[j] = {}
    /\ pc[j] \in {"save_eans", "validate", "save_create", "create_own", "create_xl", "settle"} =>
         held[j] \subseteq list[j]

ReservationInv == Remembered /\ \A j \in Jobs : KnowsAll(j)

\* What a job holds is what its list will say, from the end of the fill on.
LEMMA KnowsAllInv ==
    ASSUME TypeOK, NEW j \in Jobs, KnowsAll(j), UserStep(j) \/ JobStep(j) \/ FaultStep(j)
    PROVE  KnowsAll(j)'
<1> USE DEF TypeOK, Goto, Save, ReadTask, history, jobVars
<1>1. CASE UserStep(j) \/ SaveQueued(j) \/ Enqueue(j) \/ Start(j) \/ SaveStart(j)
           \/ FillOne(j) \/ Filled(j)
  BY <1>1 DEF KnowsAll, UserStep, Click, Preview, SaveQueued, Enqueue, Start, SaveStart,
              FillOne, Filled
<1>2. CASE SaveEans(j) \/ ValidationFails(j) \/ Validated(j) \/ SaveCreate(j)
           \/ CreateOwn(j) \/ CreateXl(j) \/ Settle(j)
  BY <1>2 DEF KnowsAll, SaveEans, ValidationFails, Validated, SaveCreate, CreateOwn,
              CreateXl, Create, Settle
<1>3. CASE LoadToMark(j) \/ CommitMark(j) \/ Marked(j) \/ SaveResult(j)
           \/ SaveAvailability(j) \/ EnqueueAvailability(j)
  BY <1>3 DEF KnowsAll, LoadToMark, CommitMark, Marked, SaveResult, SaveAvailability,
              EnqueueAvailability
<1>4. CASE LoadToRelease(j) \/ CommitToRelease(j) \/ ReleaseLoopDone(j) \/ LoopSkips(j)
  BY <1>4 DEF KnowsAll, LoadToRelease, CommitToRelease, ReleaseLoopDone, AfterLoop,
              LoopSkips, ReleaseLoops
<1>5. CASE SaveInvalid(j) \/ SaveFailed(j) \/ SavePreview(j) \/ GivesUp(j) \/ Kill(j)
  BY <1>5 DEF KnowsAll, SaveInvalid, SaveFailed, SavePreview, GivesUp, Kill
<1>6. CASE PoolExhausted(j) \/ Raises(j) \/ RequestRaises(j)
  <2>1. pc'[j] \in {"undo", "undo_preview_error"}
    BY <1>6 DEF PoolExhausted, Raises, RequestRaises, Unwind, Handler
  <2> QED
    BY <2>1 DEF KnowsAll
<1> QED
  BY <1>1, <1>2, <1>3, <1>4, <1>5, <1>6 DEF JobStep, FaultStep

\* A job that will settle a reservation still will after its step, unless the
\* step has settled it or the reservation is counted among the lost ones.
LEMMA StillSettles ==
    ASSUME TypeOK, NEW j \in Jobs, KnowsAll(j), LoopOrder(j),
           UserStep(j) \/ JobStep(j) \/ FaultStep(j),
           NEW e \in Eans, pool[e].status = "reserved", pool'[e] = pool[e],
           WillSettle(j, e), NotPassedOver(j, e)
    PROVE  e \in lost' \/ (WillSettle(j, e)' /\ NotPassedOver(j, e)')
<1> DEFINE Before == {"fill", "save_eans", "validate", "save_create", "create_own",
                      "create_xl", "settle"}
           Loops  == ReleaseLoops \cup {"mark"}
<1>1. /\ e \in held[j]
      /\ pc[j] \in Before \cup Loops
      /\ pc[j] \in Loops => e \in todo[j]
      /\ pc[j] \in Before \ {"fill"} => e \in list[j]
      /\ pc[j] \in Before => loaded[j] = Idle
  BY DEF WillSettle, KnowsAll, LoopOrder, TypeOK, Labels, Finished, ReleaseLoops
<1>2. ASSUME pc'[j] \in Before, e \in held'[j]
      PROVE  WillSettle(j, e)' /\ NotPassedOver(j, e)'
  BY <1>2 DEF WillSettle, NotPassedOver, Finished, ReleaseLoops
<1>3. ASSUME pc'[j] \in Loops, e \in held'[j], e \in todo'[j],
             pc'[j] = "mark" /\ loaded'[j] # Idle /\ loaded'[j].ean = e => loaded'[j].seen # "used"
      PROVE  WillSettle(j, e)' /\ NotPassedOver(j, e)'
  BY <1>3 DEF WillSettle, NotPassedOver, Finished, ReleaseLoops
<1> USE DEF TypeOK, Goto, Save, ReadTask, history, jobVars, ReleaseLoops
<1>4. CASE FillOne(j) \/ Filled(j) \/ SaveEans(j) \/ SaveCreate(j) \/ CreateOwn(j) \/ CreateXl(j)
  <2>1. pc'[j] \in Before /\ e \in held'[j]
    BY <1>1, <1>4 DEF FillOne, Filled, SaveEans, SaveCreate, CreateOwn, CreateXl, Create
  <2> QED
    BY <1>2, <2>1
<1>5. CASE ValidationFails(j) \/ Validated(j) \/ Settle(j)
  <2>1. /\ held' = held /\ loaded' = loaded
        /\ \/ pc'[j] \in Before
           \/ pc'[j] \in Loops /\ todo'[j] = list[j]
        /\ pc[j] \in Before \ {"fill"}
    BY <1>5 DEF ValidationFails, Validated, Settle
  <2> QED
    BY <1>1, <1>2, <1>3, <2>1
<1>6. CASE LoadToMark(j)
  <2>1. PICK f \in todo[j] : loaded' = [loaded EXCEPT ![j] = Pending("use", f, pool[f].status)]
    BY <1>6 DEF LoadToMark
  <2>2. UNCHANGED <<held, todo, pc>> /\ loaded'[j].ean = f /\ loaded'[j].seen = pool[f].status
        /\ pc[j] = "mark"
    BY <1>6, <2>1 DEF LoadToMark, Pending
  <2> QED
    BY <1>1, <1>3, <2>2
<1>7. CASE CommitMark(j)
  <2>1. /\ UNCHANGED <<held, pc>> /\ pc[j] = "mark" /\ loaded'[j] = Idle
        /\ todo'[j] = todo[j] \ {loaded[j].ean}
        /\ loaded[j] # Idle
        /\ pool' = MarkedUsed(pool, loaded[j].ean, loaded[j].seen)
    BY <1>7 DEF CommitMark
  <2>2. loaded[j].ean # e
    <3>1. ASSUME loaded[j].ean = e PROVE FALSE
      <4>1. loaded[j].seen # "used"
        BY <2>1, <3>1 DEF NotPassedOver
      <4>2. pool'[e].status = "used"
        BY <2>1, <3>1, <4>1 DEF MarkedUsed, JobPoolRow
      <4> QED
        BY <4>2
    <3> QED
      BY <3>1
  <2> QED
    BY <1>1, <1>3, <2>1, <2>2
<1>8. CASE LoadToRelease(j)
  <2>1. PICK f \in todo[j] : IF MayRelease(pool[f].status)
                             THEN todo' = todo
                             ELSE todo' = [todo EXCEPT ![j] = @ \ {f}]
    BY <1>8 DEF LoadToRelease
  <2>2. UNCHANGED <<held, pc>> /\ pc[j] \in ReleaseLoops
    BY <1>8 DEF LoadToRelease
  <2>3. e \in todo'[j]
    BY <1>1, <2>1, <2>2 DEF MayRelease
  <2> QED
    BY <1>1, <1>3, <2>2, <2>3
<1>9. CASE CommitToRelease(j)
  <2>1. /\ UNCHANGED pc /\ pc[j] \in ReleaseLoops
        /\ todo'[j] = todo[j] \ {loaded[j].ean} /\ held'[j] = held[j] \ {loaded[j].ean}
    BY <1>9 DEF CommitToRelease
  <2>2. pool'[loaded[j].ean] = AvailableRow
    BY <1>9, LoadedEan DEF CommitToRelease, Released
  <2>3. loaded[j].ean # e
    BY <2>2 DEF AvailableRow
  <2> QED
    BY <1>1, <1>3, <2>1, <2>3
<1>10. CASE Marked(j) \/ ReleaseLoopDone(j)
  BY <1>1, <1>10 DEF Marked, ReleaseLoopDone
<1>11. CASE LoopSkips(j)
  <2>1. PICK f \in todo[j] : /\ todo' = [todo EXCEPT ![j] = @ \ {f}]
                             /\ lost' = lost \cup {f}
    BY <1>11 DEF LoopSkips
  <2>2. UNCHANGED <<held, pc>> /\ pc[j] \in Loops /\ loaded'[j] = Idle
    BY <1>11 DEF LoopSkips
  <2> QED
    BY <1>1, <1>3, <2>1, <2>2
<1>12. CASE PoolExhausted(j) \/ Raises(j) \/ RequestRaises(j)
  <2>1. /\ Unwind(j) /\ held' = held
        /\ \/ pc[j] = "fill" /\ lost' = lost \cup held[j]
           \/ pc[j] \in Before \ {"fill"}
           \/ pc[j] \notin Before \cup Loops
    BY <1>12 DEF PoolExhausted, Raises, RequestRaises
  <2>2. pc'[j] \in ReleaseLoops /\ todo'[j] = list[j]
    BY <2>1 DEF Unwind, Handler
  <2> QED
    BY <1>1, <1>3, <2>1, <2>2
<1>13. CASE Kill(j)
  BY <1>1, <1>13 DEF Kill
<1>14. CASE \/ UserStep(j) \/ SaveQueued(j) \/ Enqueue(j) \/ Start(j) \/ SaveStart(j)
            \/ SaveResult(j) \/ SaveAvailability(j) \/ EnqueueAvailability(j)
            \/ SaveInvalid(j) \/ SaveFailed(j) \/ SavePreview(j) \/ GivesUp(j)
  BY <1>1, <1>14 DEF UserStep, Click, Preview, SaveQueued, Enqueue, Start, SaveStart,
       SaveResult, SaveAvailability, EnqueueAvailability, SaveInvalid, SaveFailed,
       SavePreview, GivesUp
<1> QED
  BY <1>4, <1>5, <1>6, <1>7, <1>8, <1>9, <1>10, <1>11, <1>12, <1>13, <1>14
     DEF JobStep, FaultStep

\* A row that is reserved after a step of a job was reserved before it in the
\* same way, or the job has just reserved it.
LEMMA ReservedByFill ==
    ASSUME TypeOK, NEW j \in Jobs, UserStep(j) \/ JobStep(j) \/ FaultStep(j),
           NEW e \in Eans, pool'[e].status = "reserved", pool'[e] # pool[e]
    PROVE  FillOne(j) /\ e \in held'[j]
<1> USE DEF TypeOK, jobVars
<1>1. pool' # pool
  OBVIOUS
<1>2. CASE FillOne(j)
  BY <1>2 DEF FillOne, Reserved
<1>3. CASE CommitMark(j)
  <2>1. pool' \in {pool, [pool EXCEPT ![loaded[j].ean].status = "used"]}
    BY <1>3 DEF CommitMark, MarkedUsed
  <2>2. pool[e] \in JobPoolRow
    OBVIOUS
  <2> QED
    BY <2>1, <2>2 DEF JobPoolRow
<1>4. CASE CommitToRelease(j)
  BY <1>4 DEF CommitToRelease, Released, AvailableRow
<1>5. CASE \/ UserStep(j) \/ SaveQueued(j) \/ Enqueue(j) \/ Start(j) \/ SaveStart(j)
           \/ Filled(j) \/ PoolExhausted(j) \/ SaveEans(j)
           \/ ValidationFails(j) \/ Validated(j) \/ SaveCreate(j) \/ Settle(j)
           \/ CreateOwn(j) \/ CreateXl(j)
  BY <1>1, <1>5 DEF UserStep, Click, Preview, SaveQueued, Enqueue, Start, SaveStart,
       Filled, PoolExhausted, SaveEans, ValidationFails, Validated, SaveCreate, Settle,
       CreateOwn, CreateXl, Create
<1>6. CASE LoadToMark(j) \/ Marked(j) \/ SaveResult(j) \/ SaveAvailability(j)
           \/ EnqueueAvailability(j) \/ LoadToRelease(j) \/ ReleaseLoopDone(j)
           \/ SaveInvalid(j) \/ SaveFailed(j) \/ SavePreview(j) \/ FaultStep(j)
  BY <1>1, <1>6 DEF LoadToMark, Marked, SaveResult, SaveAvailability,
       EnqueueAvailability, LoadToRelease, ReleaseLoopDone, SaveInvalid, SaveFailed,
       SavePreview, FaultStep, Raises, RequestRaises, GivesUp, LoopSkips, Kill
<1> QED
  BY <1>2, <1>3, <1>4, <1>5, <1>6 DEF JobStep

LEMMA NextReservation ==
    ASSUME Clients \cap Processes = {}, TypeOK, LoopsInOrder, ReservationInv, [Next]_vars
    PROVE  ReservationInv'
<1>1. CASE UNCHANGED vars
  BY <1>1 DEF vars, jobVars, history, ReservationInv, Remembered, KnowsAll, WillSettle,
              NotPassedOver
<1>2. ASSUME NEW j \in Jobs, UserStep(j) \/ JobStep(j) \/ FaultStep(j)
      PROVE  ReservationInv'
  <2>0. KnowsAll(j) /\ LoopOrder(j) /\ OthersUntouched(j)
    BY <1>2, StepsAreLocal DEF ReservationInv, LoopsInOrder
  <2>1. \A k \in Jobs : KnowsAll(k)'
    <3>1. KnowsAll(j)'
      BY <1>2, <2>0, KnowsAllInv
    <3>2. ASSUME NEW k \in Jobs, k # j PROVE KnowsAll(k)'
      BY <2>0, <3>2 DEF ReservationInv, KnowsAll, OthersUntouched
    <3> QED
      BY <3>1, <3>2
  <2>2. ASSUME NEW e \in Eans, pool'[e].status = "reserved", pool'[e].reservedFor \in Processes
        PROVE  e \in lost' \/ \E k \in Jobs : WillSettle(k, e)' /\ NotPassedOver(k, e)'
    <3>1. CASE pool'[e] # pool[e]
      <4>1. FillOne(j) /\ e \in held'[j]
        BY <1>2, <2>2, <3>1, ReservedByFill
      <4>2. pc'[j] = "fill"
        BY <4>1 DEF FillOne, jobVars
      <4>3. WillSettle(j, e)' /\ NotPassedOver(j, e)'
        BY <4>1, <4>2 DEF WillSettle, NotPassedOver, Finished, ReleaseLoops
      <4> QED
        BY <4>3
    <3>2. CASE pool'[e] = pool[e] /\ e \in lost
      BY <1>2, <3>2, LostStays
    <3>3. CASE pool'[e] = pool[e] /\ e \notin lost
      <4>1. PICK k \in Jobs : WillSettle(k, e) /\ NotPassedOver(k, e)
        BY <2>2, <3>3 DEF ReservationInv, Remembered
      <4>2. CASE k = j
        BY <1>2, <2>0, <2>2, <3>3, <4>1, <4>2, StillSettles
      <4>3. CASE k # j
        BY <2>0, <4>1, <4>3 DEF OthersUntouched, WillSettle, NotPassedOver
      <4> QED
        BY <4>2, <4>3
    <3> QED
      BY <3>1, <3>2, <3>3
  <2> QED
    BY <2>1, <2>2 DEF ReservationInv, Remembered
<1>3. ASSUME NEW c \in Clients, ConsoleStep(c)
      PROVE  ReservationInv'
  <2>1. UNCHANGED <<pc, list, todo, loaded, report, held, lost>>
    BY <1>3 DEF ConsoleStep, jobVars, history
  <2>2. ASSUME NEW e \in Eans, pool'[e].status = "reserved", pool'[e].reservedFor \in Processes
        PROVE  pool'[e] = pool[e]
    <3> USE DEF TypeOK
    <3>1. CASE Import(c)
      BY <2>2, <3>1 DEF Import, AvailableRow
    <3>2. CASE Reserve(c)
      BY <2>2, <3>2 DEF Reserve, Reserved
    <3>3. CASE LoadForUse(c) \/ LoadForRelease(c) \/ Abort(c)
      BY <3>3 DEF LoadForUse, LoadForRelease, Abort
    <3>4. CASE CommitUse(c)
      <4>1. pool' \in {pool, [pool EXCEPT ![call[c].ean].status = "used"]}
        BY <3>4 DEF CommitUse, MarkedUsed
      <4>2. pool[e] \in JobPoolRow
        OBVIOUS
      <4> QED
        BY <2>2, <4>1, <4>2 DEF JobPoolRow
    <3>5. CASE CommitRelease(c)
      BY <2>2, <3>5 DEF CommitRelease, Released, AvailableRow
    <3> QED
      BY <1>3, <3>1, <3>2, <3>3, <3>4, <3>5 DEF ConsoleStep, ClientStep
  <2>3. \A k \in Jobs : KnowsAll(k)'
    BY <2>1 DEF ReservationInv, KnowsAll
  <2>4. Remembered'
    BY <2>1, <2>2 DEF ReservationInv, Remembered, WillSettle, NotPassedOver
  <2> QED
    BY <2>3, <2>4 DEF ReservationInv
<1> QED
  BY <1>1, <1>2, <1>3 DEF Next

\* Under every fault and whatever users of the routes do by hand, an EAN that
\* is reserved for a task has a job ahead that will mark it used or release
\* it, or is one of the reservations known to be lost. The users of the routes
\* name themselves and not a task when they reserve.
THEOREM NothingForgotten ==
    ASSUME Clients \cap Processes = {}
    PROVE  Spec => []NoForgottenReservation
<1>1. Init => ReservationInv
  BY DEF Init, NothingYet, ReservationInv, Remembered, KnowsAll, AvailableRow, NoRow
<1>2. SubmitInv /\ ReservationInv /\ [Next]_vars => ReservationInv'
  BY NextReservation DEF SubmitInv
<1>3. ReservationInv => NoForgottenReservation
  BY DEF ReservationInv, Remembered, NoForgottenReservation
<1> QED
  BY <1>1, <1>2, <1>3, SubmitInvariant, PTL DEF Spec


=============================================================================

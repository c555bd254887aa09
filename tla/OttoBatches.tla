----------------------------- MODULE OttoBatches -----------------------------
(***************************************************************************)
(* How one account's products are sent to OTTO and followed                *)
(* (_submit_products_to_otto_in_batches, _poll_otto_update_task in          *)
(* app/api/routes/products.py): batch by batch, each with an update task at *)
(* OTTO that is polled, its counters added up.  FactorySubmit takes all of  *)
(* it as one step (Create, with what Told allows to be told).               *)
(***************************************************************************)
EXTENDS Scenes, Integers, Sequences, SequencesExt, FiniteSets, FiniteSetsExt

CONSTANTS
    BatchSkus,      \* the products: a sequence
    CreateBatch,    \* FACTORY_OTTO_CREATE_BATCH_SIZE
    MaxPolls        \* FACTORY_OTTO_UPDATE_TASK_MAX_POLLS

\* Every product comes once.
ASSUME BatchAssumption ==
    /\ BatchSkus \in Seq(ToSet(BatchSkus))
    /\ \A i, j \in DOMAIN BatchSkus : BatchSkus[i] = BatchSkus[j] => i = j
    /\ CreateBatch \in Nat \ {0} /\ MaxPolls \in Nat \ {0}

VARIABLES
    batchAt,        \* [at, next, polls, answer]
    sums,           \* the counters of all batches, final_state, and the failed results
    verdictOf,      \* per product, OTTO's: "absent", "taken", "accepted", "rejected" or
                    \* "dropped" with its task
    unsaid,         \* history: products of batches whose failures OTTO did not count
    guessed         \* history: those of them that the code takes for successes

batchVars == <<batchAt, sums, verdictOf, unsaid, guessed>>

BatchAt(n) == {BatchSkus[i] : i \in n .. Min({n + CreateBatch - 1, Len(BatchSkus)})}
ThisBatch == BatchAt(batchAt.next)
With(verdict, batch) == Cardinality({p \in batch : verdictOf[p] = verdict})

\* The states OTTO gives an update task.
TaskState(batch) ==
    IF With("dropped", batch) > 0 THEN "failed"
    ELSE IF With("taken", batch) > 0 THEN "processing" ELSE "done"

LeftOut == 0 - 1
CounterNames == {"total", "succeeded", "failed", "progress"}
SaidCounters == IF May("leaves_out") THEN SUBSET CounterNames ELSE {CounterNames}

\* What one poll reads, if it tells the counters in said.
Counters(batch, said) ==
    LET count == [total     |-> Cardinality(batch),
                  succeeded |-> With("accepted", batch),
                  failed    |-> With("rejected", batch),
                  progress  |-> With("accepted", batch) + With("rejected", batch)]
    IN  [state |-> TaskState(batch),
         count |-> [c \in CounterNames |-> IF c \in said THEN count[c] ELSE LeftOut]]

NoCounters(state) == [state |-> state, count |-> [c \in CounterNames |-> LeftOut]]

\* _read_int
ReadInt(value, fallback) == IF value = LeftOut THEN fallback ELSE value

Failed(answer) == ReadInt(answer.count["failed"], 0)
Total(answer, size) == ReadInt(answer.count["total"], size)

-----------------------------------------------------------------------------

SendBatch ==
    /\ batchAt.at = "create"
    /\ verdictOf' = [p \in DOMAIN verdictOf |-> IF p \in ThisBatch THEN "taken" ELSE verdictOf[p]]
    /\ batchAt' = IF May("no_id")
                  THEN [batchAt EXCEPT !.at = "sum", !.answer = NoCounters("failed")]
                  ELSE [batchAt EXCEPT !.at = "poll"]
    /\ UNCHANGED <<scene, sums, unsaid, guessed>>

\* A seeded fault: only a task that ended well ends the polls.
FollowedUntilDone(answer, polls) == answer.state = "done"

Followed(answer, polls) == answer.state \in {"done", "failed", "error"} \/ polls = MaxPolls

\* A seeded fault: the results are asked for if the whole task has failed.
HasFailedIfState(answer) == answer.state = "failed"

HasFailed(answer) == Failed(answer) > 0

\* The next poll's answer replaces one that does not end the polls.
PollTask ==
    /\ batchAt.at = "poll"
    /\ \E said \in SaidCounters :
       LET answer == Counters(ThisBatch, said)
           polls  == IF batchAt.polls = MaxPolls THEN MaxPolls ELSE batchAt.polls + 1
       IN  batchAt' = [batchAt EXCEPT !.polls = polls,
                           !.answer = IF Followed(answer, polls) THEN answer ELSE @,
                           !.at = IF ~Followed(answer, polls) THEN "poll"
                                  ELSE IF HasFailed(answer) THEN "results" ELSE "sum"]
    /\ UNCHANGED <<scene, sums, verdictOf, unsaid, guessed>>

FetchResults ==
    /\ batchAt.at = "results"
    /\ batchAt' = [batchAt EXCEPT !.at = "sum"]
    /\ sums' = [sums EXCEPT !.results = @ \cup {p \in ThisBatch : verdictOf[p] = "rejected"}]
    /\ UNCHANGED <<scene, verdictOf, unsaid, guessed>>

\* A call that raises ends the submission; a batch whose answer is lost may be at OTTO.
BatchRaises ==
    /\ May("raises") /\ batchAt.at \in {"create", "poll", "results"}
    /\ batchAt' = [batchAt EXCEPT !.at = "raised"]
    /\ verdictOf' \in {verdictOf,
           [p \in DOMAIN verdictOf |->
               IF batchAt.at = "create" /\ p \in ThisBatch THEN "taken" ELSE verdictOf[p]]}
    /\ UNCHANGED <<scene, sums, unsaid, guessed>>

\* A seeded fault: without a counter, what has not failed has succeeded.
SucceededUnlessFailed(answer, size) == ReadInt(answer.count["succeeded"], size - Failed(answer))

Succeeded(answer, size) ==
    ReadInt(answer.count["succeeded"], IF answer.state = "done" THEN size - Failed(answer) ELSE 0)

Progress(answer, size) ==
    ReadInt(answer.count["progress"],
            IF answer.state = "done" THEN Total(answer, size)
            ELSE Succeeded(answer, size) + Failed(answer))

SumUp ==
    /\ batchAt.at = "sum"
    /\ LET answer == batchAt.answer
           size   == Cardinality(ThisBatch)
       IN  /\ sums' = [sums EXCEPT
                  !.total = @ + Total(answer, size), !.succeeded = @ + Succeeded(answer, size),
                  !.failed = @ + Failed(answer), !.progress = @ + Progress(answer, size),
                  !.state = IF answer.state \in {"failed", "error"} \/ Failed(answer) > 0
                            THEN "failed" ELSE @]
           /\ unsaid' = IF answer.count["failed"] = LeftOut THEN unsaid \cup ThisBatch ELSE unsaid
           /\ guessed' = IF answer.state = "done" /\ answer.count["failed"] = LeftOut
                                                 /\ answer.count["succeeded"] = LeftOut
                         THEN guessed \cup ThisBatch ELSE guessed
    /\ batchAt' = [at |-> IF batchAt.next + CreateBatch > Len(BatchSkus) THEN "ended" ELSE "create",
                   next |-> batchAt.next + CreateBatch, polls |-> 0, answer |-> NoCounters("")]
    /\ UNCHANGED <<scene, verdictOf>>

\* OTTO works on what it has been sent, after the last poll as well.
OttoDecides(p) ==
    /\ verdictOf[p] = "taken"
    /\ verdictOf' \in {[verdictOf EXCEPT ![p] = v] :
                          v \in {"accepted"} \cup IF May("rejects") THEN {"rejected"} ELSE {}}
    /\ UNCHANGED <<scene, batchAt, sums, unsaid, guessed>>

\* A task that OTTO ends early, with what it has not got to.
OttoDropsTask(n) ==
    /\ May("drops") /\ With("taken", BatchAt(n)) > 0
    /\ verdictOf' = [p \in DOMAIN verdictOf |->
           IF p \in BatchAt(n) /\ verdictOf[p] = "taken" THEN "dropped" ELSE verdictOf[p]]
    /\ UNCHANGED <<scene, batchAt, sums, unsaid, guessed>>

BatchStep == SendBatch \/ PollTask \/ FetchResults \/ SumUp

BatchNext ==
    /\ Plays("batches")
    /\ \/ BatchStep \/ BatchRaises
       \/ \E p \in DOMAIN verdictOf : OttoDecides(p)
       \/ \E n \in DOMAIN BatchSkus : n % CreateBatch = 1 % CreateBatch /\ OttoDropsTask(n)

BatchInit ==
    /\ batchAt = [at |-> "create", next |-> 1, polls |-> 0, answer |-> NoCounters("")]
    /\ sums = [total |-> 0, succeeded |-> 0, failed |-> 0, progress |-> 0, state |-> "done", results |-> {}]
    /\ verdictOf = [p \in ToSet(BatchSkus) |-> "absent"]
    /\ unsaid = {} /\ guessed = {}

BatchFairness == WF_<<scene, batchVars>>(Plays("batches") /\ BatchStep)

-----------------------------------------------------------------------------
(* Properties.                                                             *)

BatchTypeOK ==
    /\ batchAt.at \in {"create", "poll", "results", "sum", "ended", "raised"}
    /\ batchAt.polls \in 0 .. MaxPolls
    /\ sums.total \in 0 .. Len(BatchSkus) /\ sums.results \subseteq ToSet(BatchSkus)
    /\ guessed \subseteq unsaid /\ unsaid \subseteq ToSet(BatchSkus)

\* What tells the submission job that all went well, a counter of successes as high as
\* the products, or "done" with full progress, is true of every product at OTTO, however
\* the polls fell; but not of batches of which OTTO left 'failed' out, and 'succeeded' too
\* where that is what is counted: their failures are taken for none.
FullSuccessIsListed ==
    batchAt.at = "ended" =>
        /\ sums.succeeded >= Len(BatchSkus) =>
              \A p \in ToSet(BatchSkus) : verdictOf[p] = "accepted" \/ p \in guessed
        /\ sums.state = "done" /\ sums.progress >= sums.total =>
              \A p \in ToSet(BatchSkus) : verdictOf[p] = "accepted" \/ p \in unsaid

\* The sums never tell of more successes than OTTO has, those guessed apart, or of more
\* failures; every failure that is counted is named in the failed results.
CountsAreOttos ==
    /\ sums.succeeded <= Cardinality({p \in ToSet(BatchSkus) : verdictOf[p] = "accepted" \/ p \in guessed})
    /\ sums.failed <= Cardinality(sums.results)
    /\ \A p \in sums.results : verdictOf[p] = "rejected"

\* A submission ends, also if OTTO does not.
BatchesEnd == Plays("batches") ~> batchAt.at \in {"ended", "raised"}
=============================================================================

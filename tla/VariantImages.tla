---------------------------- MODULE VariantImages ----------------------------
(***************************************************************************)
(* The variants of one product and the images generated for them           *)
(* (app/services/product_variant_service.py, variant_image_service.py, the  *)
(* variant routes of app/api/routes/products.py).  A click on "generate"     *)
(* inserts a row for each combination of attribute values that has none,    *)
(* and queues an image job for each row that waits for one.  A job marks    *)
(* its row, asks the model for an image, and writes image and status over   *)
(* the row, whatever has been written there meanwhile.                      *)
(***************************************************************************)
EXTENDS Scenes, Integers, Sequences, SequencesExt, FiniteSets

CONSTANTS
    Combinations,   \* build_variant_combinations: sequence of keys, the source's first
    VariantClicks,  \* clicks on "generate"
    MaxVariants     \* bound: rows of the product

ASSUME VariantsAssumption ==
    Combinations \in Seq(Range(Combinations)) /\ Combinations # <<>> /\ MaxVariants \in Nat

VARIABLES
    variants,       \* product_variants: the rows, by id
    generateAt,     \* per click: [at, seen, todo]
    imageQueue,     \* jobs in the ARQ queue, by row
    painting,       \* rows a job of the worker is at: functions from row to [image]
    overridden,     \* history: rows the user has overridden while no job was queued,
                    \* at work or about to be queued, and not asked for since
    cutOff          \* history: rows whose job was killed

variantVars == <<variants, generateAt, imageQueue, painting, overridden, cutOff>>

Waiting(id) ==
    \/ id \in Range(imageQueue) \/ id \in DOMAIN painting
    \/ \E c \in VariantClicks : id \in generateAt[c].todo
Active(key) == \E id \in DOMAIN variants : variants[id].key = key /\ ~variants[id].deleted
Resting == [at |-> "idle", seen |-> {}, todo |-> {}]

-----------------------------------------------------------------------------
(* generate_product_variants                                               *)

LoadVariants(c) ==
    /\ generateAt[c].at = "idle"
    /\ generateAt' = [generateAt EXCEPT ![c] =
                        [at |-> "insert", todo |-> {},
                         seen |-> {k \in Range(Combinations) : Active(k)}]]
    /\ UNCHANGED <<scene, variants, imageQueue, painting, overridden, cutOff>>

\* The source variant has the product's own image and needs none.
NewRow(key) == [key |-> key, deleted |-> FALSE, by |-> "nobody",
                status |-> IF key = Combinations[1] THEN "ready" ELSE "pending_generation"]

Missing(c) == Range(Combinations) \ generateAt[c].seen

\* A seeded fault: there is no unique index on the active combinations.
InsertTakesAll(c) == TRUE

\* uq_product_variants_product_combination_active
InsertTakes(c) == \A k \in Missing(c) : ~Active(k)

\* A seeded fault: the jobs of all rows are queued again.
NeedsImageAny(row) == ~row.deleted

NeedsImage(row) == ~row.deleted /\ row.status = "pending_generation"

\* All rows in one transaction; which of them has which id is left open.  The jobs to
\* queue are those of all rows that wait for an image, older ones too.
InsertVariants(c) ==
    /\ generateAt[c].at = "insert"
    /\ InsertTakes(c)
    /\ Len(variants) + Cardinality(Missing(c)) <= MaxVariants
    /\ \E keys \in [1 .. Cardinality(Missing(c)) -> Missing(c)] :
          /\ IsInjective(keys)
          /\ variants' = variants \o [i \in 1 .. Cardinality(Missing(c)) |-> NewRow(keys[i])]
    /\ generateAt' = [generateAt EXCEPT ![c] =
                        [at |-> "enqueue", seen |-> {},
                         todo |-> {id \in DOMAIN variants' : NeedsImage(variants'[id])}]]
    /\ UNCHANGED <<scene, imageQueue, painting, overridden, cutOff>>

\* Another click has inserted one of them: nothing is inserted, and nothing queued.
InsertRaises(c) ==
    /\ generateAt[c].at = "insert" /\ ~InsertTakes(c)
    /\ generateAt' = [generateAt EXCEPT ![c] = [Resting EXCEPT !.at = "answered"]]
    /\ UNCHANGED <<scene, variants, imageQueue, painting, overridden, cutOff>>

\* An error of the queue is noted, and the next job tried.
EnqueueImage(c) ==
    /\ generateAt[c].at = "enqueue"
    /\ \E id \in generateAt[c].todo :
          /\ \/ imageQueue' = Append(imageQueue, id)
             \/ May("queue_fails") /\ UNCHANGED imageQueue
          /\ generateAt' = [generateAt EXCEPT ![c].todo = @ \ {id}]
    /\ UNCHANGED <<scene, variants, painting, overridden, cutOff>>

VariantsAnswered(c) ==
    /\ generateAt[c].at = "enqueue" /\ generateAt[c].todo = {}
    /\ generateAt' = [generateAt EXCEPT ![c] = [Resting EXCEPT !.at = "answered"]]
    /\ UNCHANGED <<scene, variants, imageQueue, painting, overridden, cutOff>>

-----------------------------------------------------------------------------
(* regenerate_product_variant_image_task, regenerate_variant_image         *)

\* A row that was deleted is not found: the job raises.
StartImage ==
    /\ imageQueue # <<>> /\ imageQueue[1] \notin DOMAIN painting
    /\ imageQueue' = Tail(imageQueue)
    /\ LET id == imageQueue[1]
       IN  IF variants[id].deleted THEN UNCHANGED <<variants, painting>>
           ELSE /\ variants' = [variants EXCEPT ![id].status = "generating_image"]
                /\ painting' = [i \in DOMAIN painting \cup {id} |->
                                    IF i = id THEN "nothing" ELSE painting[i]]
    /\ UNCHANGED <<scene, generateAt, overridden, cutOff>>

Without(id) == [i \in DOMAIN painting \ {id} |-> painting[i]]

\* A seeded fault: the columns of the whole row are written.
OnlyDirtyAll(row) == [row EXCEPT !.deleted = FALSE]

\* The commit writes the columns that the job has changed.
OnlyDirty(row) == row

ImageGenerated(id) ==
    /\ id \in DOMAIN painting
    /\ variants' = [variants EXCEPT ![id] =
                        [OnlyDirty(@) EXCEPT !.status = "ready", !.by = "model"]]
    /\ painting' = Without(id)
    /\ UNCHANGED <<scene, generateAt, imageQueue, overridden, cutOff>>

\* A seeded fault: the handler does not write the status.
StatusOnErrorKept == "generating_image"

\* A seeded fault: it writes a status that the image jobs do not know.
StatusOnErrorOther == "error"

StatusOnError == "failed"

ImageFails(id) ==
    /\ May("model_fails") /\ id \in DOMAIN painting
    /\ variants' = [variants EXCEPT ![id].status = StatusOnError]
    /\ painting' = Without(id)
    /\ UNCHANGED <<scene, generateAt, imageQueue, overridden, cutOff>>

\* CancelledError passes the handler.
ImageJobKilled(id) ==
    /\ May("kill") /\ id \in DOMAIN painting
    /\ painting' = Without(id)
    /\ cutOff' = cutOff \cup {id}
    /\ UNCHANGED <<scene, variants, generateAt, imageQueue, overridden>>

-----------------------------------------------------------------------------
(* The user.                                                               *)

\* regenerate_product_variant_image: the row is marked, then the job is queued.
AskForImage(id) ==
    /\ May("regenerates") /\ id \in DOMAIN variants /\ ~variants[id].deleted
    /\ ~Waiting(id) /\ variants[id].status # "pending_generation"
    /\ variants' = [variants EXCEPT ![id].status = "pending_generation"]
    /\ \/ imageQueue' = Append(imageQueue, id)
       \/ May("queue_fails") /\ UNCHANGED imageQueue
    /\ overridden' = overridden \ {id}
    /\ UNCHANGED <<scene, generateAt, painting, cutOff>>

\* update_variant with manualOverride
OverrideImage(id) ==
    /\ May("overrides") /\ id \in DOMAIN variants /\ ~variants[id].deleted
    /\ variants[id].status # "manual_override"
    /\ variants' = [variants EXCEPT ![id].status = "manual_override", ![id].by = "user"]
    /\ overridden' = IF Waiting(id) THEN overridden ELSE overridden \cup {id}
    /\ UNCHANGED <<scene, generateAt, imageQueue, painting, cutOff>>

DeleteVariant(id) ==
    /\ May("deletes") /\ id \in DOMAIN variants /\ ~variants[id].deleted
    /\ variants' = [variants EXCEPT ![id].deleted = TRUE]
    /\ UNCHANGED <<scene, generateAt, imageQueue, painting, overridden, cutOff>>

-----------------------------------------------------------------------------
VariantInit ==
    /\ variants = <<>>
    /\ generateAt = [c \in VariantClicks |-> Resting]
    /\ imageQueue = <<>> /\ painting = <<>>
    /\ overridden = {} /\ cutOff = {}

GenerateStep(c) == InsertVariants(c) \/ InsertRaises(c) \/ EnqueueImage(c) \/ VariantsAnswered(c)

ImageStep(id) == ImageGenerated(id) \/ ImageFails(id)

VariantNext ==
    /\ Plays("variants")
    /\ \/ \E c \in VariantClicks : LoadVariants(c) \/ GenerateStep(c)
       \/ StartImage
       \/ \E id \in 1 .. MaxVariants :
             ImageStep(id) \/ ImageJobKilled(id)
             \/ AskForImage(id) \/ OverrideImage(id) \/ DeleteVariant(id)

\* Requests go on, the worker starts queued jobs, and the model answers or fails.
VariantFairness ==
    /\ \A c \in VariantClicks : WF_variantVars(Plays("variants") /\ GenerateStep(c))
    /\ WF_variantVars(Plays("variants") /\ StartImage)
    /\ \A id \in 1 .. MaxVariants : WF_variantVars(Plays("variants") /\ ImageStep(id))

-----------------------------------------------------------------------------
(* Properties.                                                             *)

VariantTypeOK ==
    /\ \A id \in DOMAIN variants :
          variants[id].status \in {"pending_generation", "generating_image", "ready", "failed",
                                   "manual_override"}
    /\ Len(variants) <= MaxVariants
    /\ DOMAIN painting \subseteq DOMAIN variants

\* However clicks on "generate" and deletions interleave, no two active rows are of
\* one combination.
OneVariantPerCombination ==
    \A i, j \in DOMAIN variants :
        variants[i].key = variants[j].key /\ ~variants[i].deleted /\ ~variants[j].deleted => i = j

\* What the user has set by hand is written over only by a job that was queued, at
\* work or about to be queued at that moment, or one the user has asked for since:
\* a later click on "generate" leaves it alone.
OverrideKept ==
    \A id \in overridden : ~variants[id].deleted => variants[id].by = "user"

\* A deletion is not undone by a job that was at work on the row.
DeletedVariantStaysDeleted ==
    [][\A id \in DOMAIN variants : variants[id].deleted => variants'[id].deleted]_variantVars

\* Every row that is being painted is so by a job, unless that job was cut off: no
\* later click on "generate" comes back to it.
PaintedByAJob ==
    \A id \in DOMAIN variants :
        variants[id].status = "generating_image" => id \in DOMAIN painting \/ id \in cutOff

\* Unless the queue fails or a job is cut off, no variant waits for its image for ever.
VariantsSettle ==
    Plays("variants") /\ scene.events \cap {"queue_fails", "kill", "regenerates"} = {}
        => <>[](\A id \in DOMAIN variants : ~variants[id].deleted =>
                    variants[id].status \in {"ready", "failed", "manual_override"})

=============================================================================

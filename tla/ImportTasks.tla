----------------------------- MODULE ImportTasks -----------------------------
(***************************************************************************)
(* The two imports that keep their progress in a row of                    *)
(* product_import_tasks: the worker's copy of the Afterbuy catalogue into   *)
(* jv_lister, page by page (app/services/afterbuy_sync_service.py), and the *)
(* XLSX upload into products, batch by batch, in a background task of the   *)
(* API process (app/api/routes/products.py).                               *)
(*                                                                         *)
(* Both write rows and progress through one session and commit as they go.  *)
(* The sync commits a page before its progress; the upload commits a batch  *)
(* with its progress.  An exception rolls back what is not committed and     *)
(* enters "failed" over the progress that is.                               *)
(***************************************************************************)
EXTENDS Scenes, ProductTable, Integers

CONSTANTS
    Catalogues,     \* catalogues of Afterbuy to start with: sequences of ids, or
                    \* None for an item without an id
    PageLimit,      \* items of a page
    Stored,         \* the products there are before an upload
    Files,          \* files to upload: sequences of rows
    BatchSize       \* rows of a batch

ASSUME ImportsAssumption ==
    /\ PageLimit \in Nat \ {0} /\ BatchSize \in Nat \ {0}
    /\ \A c \in Catalogues : c \in Seq(Range(c))
    /\ \A rows \in Stored \cup Files : rows \in Seq(Range(rows))

VARIABLES
    importTask,     \* the committed row of the task
    importPc,       \* where the import is
    remote,         \* the catalogue of Afterbuy, or the file
    initially,      \* history: the catalogue when the import began
    offset,         \* items or rows that are behind it
    page,           \* the page that has been fetched, or the deduplicated rows
    hasMore,        \* has_more of that page
    tally,          \* the counters of the import: fetched, saved, skipped
    table           \* committed: ids in jv_lister, or the products

importVars == <<importTask, importPc, remote, initially, offset, page, hasMore, tally, table>>

NoProgress == [fetched |-> 0, saved |-> 0, skipped |-> 0]
Row(status, counts) == [status |-> status, fetched |-> counts.fetched,
                        saved |-> counts.saved, skipped |-> counts.skipped]

-----------------------------------------------------------------------------
(* run_afterbuy_import_task, sync_afterbuy_to_jv_lister                    *)

StartSync ==
    /\ importPc = "queued"
    /\ importTask' = [importTask EXCEPT !.status = "running"]
    /\ importPc' = "fetch"
    /\ UNCHANGED <<scene, remote, initially, offset, page, hasMore, tally, table>>

\* A seeded fault: the next page begins one item late.
NextOffsetLate == offset + Len(page) + 1

NextOffset == offset + Len(page)

\* An empty page ends the import, has_more or not.
FetchPage ==
    /\ importPc = "fetch"
    /\ page' = SubSeq(remote, offset + 1, Min({offset + PageLimit, Len(remote)}))
    /\ hasMore' = (offset + PageLimit < Len(remote))
    /\ importPc' = IF page' = <<>> THEN "complete" ELSE "save"
    /\ UNCHANGED <<scene, importTask, remote, initially, offset, tally, table>>

\* Two rows of one id make the statement fail ("cannot affect row a second time").
Upsertable(items) ==
    \A i, j \in DOMAIN items : items[i] = items[j] /\ items[i] # None => i = j

\* The ids of a page; each is one row, if the page is Upsertable.
Identified(items) == Range(items) \ {None}

SavePage ==
    /\ importPc = "save" /\ Upsertable(page)
    /\ table' = table \cup Identified(page)
    /\ tally' = [fetched |-> tally.fetched + Len(page),
                 saved |-> tally.saved + Cardinality(Identified(page)),
                 skipped |-> tally.skipped + Len(page) - Cardinality(Identified(page))]
    /\ offset' = NextOffset
    /\ importPc' = "progress"
    /\ UNCHANGED <<scene, importTask, remote, initially, page, hasMore>>

SaveProgress ==
    /\ importPc = "progress"
    /\ importTask' = Row("running", tally)
    /\ importPc' = IF hasMore THEN "fetch" ELSE "complete"
    /\ UNCHANGED <<scene, remote, initially, offset, page, hasMore, tally, table>>

CompleteSync ==
    /\ importPc = "complete"
    /\ importTask' = Row("completed", tally)
    /\ importPc' = "ended"
    /\ UNCHANGED <<scene, remote, initially, offset, page, hasMore, tally, table>>

\* The catalogue changes between two pages: an item comes in front, or one goes.
CatalogueGrows ==
    /\ May("grows") /\ importPc \in {"fetch", "progress"}
    /\ Len(remote) = Len(initially)
    /\ remote' = <<"new">> \o remote
    /\ UNCHANGED <<scene, importTask, importPc, initially, offset, page, hasMore, tally, table>>

CatalogueShrinks ==
    /\ May("shrinks") /\ importPc \in {"fetch", "progress"}
    /\ Len(remote) = Len(initially)
    /\ \E i \in DOMAIN remote : remote' = RemoveAt(remote, i)
    /\ UNCHANGED <<scene, importTask, importPc, initially, offset, page, hasMore, tally, table>>

SyncStep == StartSync \/ FetchPage \/ SavePage \/ SaveProgress \/ CompleteSync

-----------------------------------------------------------------------------
(* _run_product_import_task                                                *)

\* The file is read and deduplicated; the task is told its size.
ReadFile ==
    /\ importPc = "uploaded"
    /\ page' = Deduplicated(remote)
    /\ importTask' = [importTask EXCEPT !.status = "running",
                                        !.skipped = Len(remote) - Len(page')]
    /\ importPc' = "batch"
    /\ UNCHANGED <<scene, remote, initially, offset, hasMore, tally, table>>

Batch == SubSeq(page, offset + 1, Min({offset + BatchSize, Len(page)}))

\* A seeded fault: the last row of a batch is not flushed before the commit.
BatchCommitsLater(products) == SubSeq(products, 1, Len(products) - 1)

BatchCommits(products) == products

\* Rows and progress in one commit.
ImportBatch ==
    /\ importPc = "batch" /\ offset < Len(page)
    /\ SkusDistinct(UpsertBatch(table, Batch))
    /\ table' = BatchCommits(UpsertBatch(table, Batch))
    /\ offset' = offset + Len(Batch)
    /\ importTask' = [importTask EXCEPT !.fetched = offset', !.saved = offset']
    /\ UNCHANGED <<scene, importPc, remote, initially, page, hasMore, tally>>

\* "processed_rows" counts the rows left out as well.
CompleteImport ==
    /\ importPc = "batch" /\ offset = Len(page)
    /\ importTask' = [importTask EXCEPT !.status = "completed", !.fetched = Len(remote),
                                        !.saved = offset]
    /\ importPc' = "ended"
    /\ UNCHANGED <<scene, remote, initially, offset, page, hasMore, tally, table>>

UploadStep == ReadFile \/ ImportBatch \/ CompleteImport

-----------------------------------------------------------------------------
(* What both share.                                                        *)

FailedRow(row) == [row EXCEPT !.status = "failed"]

\* A seeded fault: the page is saved outside the try block.
InTryButSave == importPc \in {"fetch", "progress", "complete", "batch"}

InTry == importPc \in {"fetch", "save", "progress", "complete", "batch"}

\* Afterbuy, the database, a page with one id twice, a SKU taken by another product.
ImportRaises ==
    /\ InTry
    /\ \/ May("raises")
       \/ importPc = "save" /\ ~Upsertable(page)
       \/ importPc = "batch" /\ offset < Len(page) /\ ~SkusDistinct(UpsertBatch(table, Batch))
    /\ importTask' = FailedRow(importTask)
    /\ importPc' = "ended"
    /\ UNCHANGED <<scene, remote, initially, offset, page, hasMore, tally, table>>

\* The job's timeout, or the end of the process, the API's for an upload.
KillImport ==
    /\ May("kill") /\ (InTry \/ importPc = "uploaded")
    /\ importPc' = "ended"
    /\ UNCHANGED <<scene, importTask, remote, initially, offset, page, hasMore, tally, table>>

-----------------------------------------------------------------------------
\* A queued sync, create_xlsx_import_task, or neither.
ImportInit ==
    /\ importTask = Row("queued", NoProgress)
    /\ offset = 0 /\ page = <<>> /\ hasMore = TRUE
    /\ tally = NoProgress
    /\ importPc = IF Plays("upload") THEN "uploaded" ELSE "queued"
    /\ remote \in IF Plays("sync") THEN Catalogues ELSE IF Plays("upload") THEN Files ELSE {<<>>}
    /\ initially = remote
    /\ table \in IF Plays("upload") THEN Stored ELSE {{}}

ImportNext ==
    /\ Plays("sync") \/ Plays("upload")
    /\ SyncStep \/ CatalogueGrows \/ CatalogueShrinks \/ UploadStep \/ ImportRaises \/ KillImport

\* The worker and the API process run what is ready; a job in the queue is started.
ImportFairness ==
    WF_importVars((Plays("sync") \/ Plays("upload")) /\ (SyncStep \/ UploadStep \/ ImportRaises))

-----------------------------------------------------------------------------
(* Properties.                                                             *)

ImportTypeOK ==
    /\ importTask.status \in {"queued", "running", "completed", "failed"}
    /\ {importTask.fetched, importTask.saved, importTask.skipped} \subseteq Nat
    /\ importPc \in {"queued", "fetch", "save", "progress", "complete", "uploaded", "batch", "ended"}
    /\ offset \in Nat

\* The progress of a sync never tells of an item that is not stored, in whatever way
\* the import ended: of the items it says were fetched, all that have an id are there.
ProgressIsStored ==
    Plays("sync") /\ scene.events \cap {"grows", "shrinks"} = {}
        => /\ Identified(SubSeq(remote, 1, importTask.fetched)) \subseteq table
           /\ importTask.fetched = importTask.saved + importTask.skipped

\* A completed sync has every item that was there when it began and still is, also
\* when items came in front meanwhile.
CompletedHasAll ==
    Plays("sync") /\ importTask.status = "completed" /\ ~May("shrinks")
        => Identified(initially) \subseteq table

\* A row is lost only to a later one with a key of its own, or to a later one of the
\* same batch, whose index may still have the keys of the product it replaced.
InOneBatch(i, j) ==
    \E b \in 0 .. Len(page) : b * BatchSize < i /\ j <= b * BatchSize + BatchSize

LostTo(i, j) ==
    \/ InOneBatch(i, j)
    \/ \E k \in 1 .. 3 : page[i][Keys[k]] # None /\ page[j][Keys[k]] = page[i][Keys[k]]

\* However an upload ended, the rows its progress counts are among the products,
\* but for those that were lost to another one.
CountedIsStored ==
    Plays("upload") =>
        \A i \in 1 .. importTask.saved :
            \/ page[i] \in Range(table)
            \/ \E j \in i + 1 .. importTask.saved : LostTo(i, j)

\* An import that is not cut off ends.
ImportEnds ==
    (Plays("sync") \/ Plays("upload")) /\ ~May("kill")
        => <>[](importTask.status \in {"completed", "failed"})

=============================================================================

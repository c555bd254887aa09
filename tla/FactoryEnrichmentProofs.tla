---------------------- MODULE FactoryEnrichmentProofs ----------------------
(***************************************************************************)
(* Proofs about FactoryEnrichment, for every number of clicks, readers,    *)
(* products and keys, every chunk size and, unless a theorem names one,    *)
(* every environment.                                                      *)
(***************************************************************************)
EXTENDS FactoryEnrichment, FiniteSetTheorems, TLAPS

-----------------------------------------------------------------------------
(* Chunks are slices of the products.                                      *)

LEMMA Quotient ==
    ASSUME NEW n \in Nat, NEW m \in Nat, m > 0
    PROVE  /\ n \div m \in Nat
           /\ m * (n \div m) <= n
           /\ n < m * (n \div m) + m
OBVIOUS

LEMMA QuotientAtMost ==
    ASSUME NEW n \in Nat, NEW m \in Nat, m > 0, NEW q \in Nat, n <= m * q
    PROVE  n \div m <= q
BY Quotient, SMTT(30)

LEMMA ChunkCountIs == ChunkCount \in Nat \ {0}
<1> DEFINE bySize == (Total + ChunkSize - 1) \div ChunkSize
<1>1. /\ Total \in Nat /\ Total > 0 /\ ChunkSize \in Nat /\ ChunkSize > 0
      /\ KeyCount \in Nat /\ KeyCount > 0
    BY EnrichmentAssumption
<1>2. bySize \in Nat
    BY <1>1, Quotient
<1> HIDE DEF bySize
<1>3. ChunkCount = Larger(bySize, Smaller(Total, KeyCount))
    BY DEF ChunkCount, bySize
<1> QED
    BY <1>1, <1>2, <1>3 DEF Larger, Smaller

LEMMA SliceOf ==
    ASSUME NEW c \in ChunkIds
    PROVE  StartIndex(c) \in 0 .. Total /\ EndIndex(c) \in 0 .. Total
<1>1. /\ Total \in Nat /\ ChunkCount \in Nat /\ ChunkCount > 0
      /\ c \in Nat /\ c + 1 <= ChunkCount
    BY EnrichmentAssumption, ChunkCountIs DEF ChunkIds
<1>2. c * Total \in Nat /\ (c + 1) * Total \in Nat
    BY <1>1
<1>3. (c + 1) * Total <= ChunkCount * Total /\ c * Total <= (c + 1) * Total
    BY <1>1
<1>4. c * Total <= ChunkCount * Total
    BY <1>1, <1>2, <1>3
<1>5. StartIndex(c) \in Nat /\ StartIndex(c) <= Total
    BY <1>1, <1>2, <1>4, Quotient, QuotientAtMost DEF StartIndex
<1>6. EndIndex(c) \in Nat /\ EndIndex(c) <= Total
    BY <1>1, <1>2, <1>3, Quotient, QuotientAtMost DEF EndIndex
<1> QED
    BY <1>1, <1>5, <1>6

LEMMA IndexIs == IsFiniteSet(Index) /\ Cardinality(Index) = Total
<1>1. Total \in Nat /\ 0 \in Int /\ Total - 1 \in Int
    BY EnrichmentAssumption
<1> QED
    BY <1>1, FS_Interval DEF Index

-----------------------------------------------------------------------------
(* The invariant.                                                          *)

Actors == Clicks \cup Jobs \cup Readers

Shape ==
    /\ task \in Doc
    /\ copy \in [Actors -> Doc]
    /\ run \in [Clicks -> {"idle", "save_queued", "queued", "save_chunks",
                           "enqueue_chunks", "end"}]
    /\ pc \in [Jobs -> {"none", "queued", "loop", "end"} \cup Waiting
                       \cup {"start", "item", "done", "failed"}]
    /\ next \in [Jobs -> 0 .. Total]
    /\ lock \in Jobs \cup {Free}
    /\ events \in Environments
    /\ \A j \in Jobs : pc[j] \in {"want_item", "item"} => next[j] < EndIndex(j[2])

\* What the counters of a document say of its items, in whatever order it
\* was written: a document is true by itself.
Enriched(d) == \A i \in Index : d.items[i] # Raw

DocIsTrue(d) ==
    /\ \A i \in d.partial : d.items[i] # Raw
    /\ d.completed >= Total => Enriched(d)
    /\ d.status = "DONE" /\ d.step = "ai_enrichment_done" => Enriched(d)

TrueInv == DocIsTrue(task) /\ \A w \in Actors : DocIsTrue(copy[w])

EnrichmentInv == Shape /\ TrueInv

-----------------------------------------------------------------------------
(* What the steps make of a document.                                      *)

LEMMA PreparedFits ==
    Prepared \in Doc /\ DocIsTrue(Prepared) /\ Prepared.items = RawItems
<1>1. RawItems \in [Index -> Clicks \cup {Raw}]
    BY DEF RawItems
<1>2. [c \in ChunkIds |-> "none"] \in [ChunkIds -> ChunkStatuses]
    BY DEF ChunkStatuses
<1>3. Total \in Nat /\ Total > 0
    BY EnrichmentAssumption
<1> HIDE DEF RawItems
<1> QED
    BY <1>1, <1>2, <1>3 DEF Prepared, Doc, Steps, DocIsTrue, Enriched

LEMMA ResetFits ==
    ASSUME NEW d \in Doc, NEW step \in Steps
    PROVE  /\ Reset(d, step) \in Doc
           /\ DocIsTrue(Reset(d, step))
           /\ Reset(d, step).items = RawItems
<1>1. RawItems \in [Index -> Clicks \cup {Raw}]
    BY DEF RawItems
<1>2. Total \in Nat /\ Total > 0
    BY EnrichmentAssumption
<1>3. PICK items \in [Index -> Clicks \cup {Raw}] : items = RawItems
    BY <1>1
<1>4. PICK p \in SUBSET Index : p = {}
    OBVIOUS
<1>5. PICK n \in 0 .. Total : n = 0
    BY <1>2
<1>6. Reset(d, step) =
        [d EXCEPT !.status = "IN_PROGRESS", !.step = step, !.stuck = FALSE,
                  !.fresh = TRUE, !.items = items, !.partial = p, !.completed = n]
    BY <1>3, <1>4, <1>5 DEF Reset
<1>7. /\ Reset(d, step) \in Doc
      /\ Reset(d, step).items = items /\ Reset(d, step).partial = p
      /\ Reset(d, step).completed = n /\ Reset(d, step).status = "IN_PROGRESS"
    BY <1>6 DEF Doc
<1> QED
    BY <1>2, <1>3, <1>4, <1>5, <1>7 DEF DocIsTrue

LEMMA RowsFit ==
    ASSUME NEW d \in Doc, NEW rows \in [ChunkIds -> ChunkStatuses]
    PROVE  /\ [d EXCEPT !.chunks = rows] \in Doc
           /\ [d EXCEPT !.chunks = rows].items = d.items
           /\ DocIsTrue(d) => DocIsTrue([d EXCEPT !.chunks = rows])
BY DEF Doc, DocIsTrue, Enriched

LEMMA WithChunkFits ==
    ASSUME NEW d \in Doc, NEW c, NEW status \in ChunkStatuses
    PROVE  /\ WithChunk(d, c, status) \in Doc
           /\ WithChunk(d, c, status).items = d.items
           /\ WithChunk(d, c, status).completed = d.completed
           /\ DocIsTrue(d) => DocIsTrue(WithChunk(d, c, status))
<1> DEFINE rows == [k \in ChunkIds |-> IF Matches(k, c) THEN status ELSE d.chunks[k]]
<1>1. d.chunks \in [ChunkIds -> ChunkStatuses]
    BY DEF Doc
<1>2. rows \in [ChunkIds -> ChunkStatuses]
    BY <1>1
<1>3. WithChunk(d, c, status) = [d EXCEPT !.chunks = rows]
    BY DEF WithChunk
<1> HIDE DEF rows
<1>4. [d EXCEPT !.chunks = rows].completed = d.completed
    BY DEF Doc
<1> QED
    BY <1>2, <1>3, <1>4, RowsFit

LEMMA RunningFits ==
    ASSUME NEW d \in Doc
    PROVE  /\ Running(d) \in Doc
           /\ Running(d).items = d.items
           /\ DocIsTrue(d) => DocIsTrue(Running(d))
BY DEF Running, Doc, Steps, DocIsTrue, Enriched

LEMMA WithItemFits ==
    ASSUME NEW d \in Doc, NEW r \in Clicks, NEW c, NEW i \in Index
    PROVE  /\ WithItem(d, r, c, i) \in Doc
           /\ WithItem(d, r, c, i).items = [d.items EXCEPT ![i] = r]
           /\ DocIsTrue(d) => DocIsTrue(WithItem(d, r, c, i))
<1> DEFINE n == Smaller(Total, Cardinality(d.partial \cup {i}))
           e == [d EXCEPT !.items[i] = r, !.partial = d.partial \cup {i}, !.completed = n]
<1>1. PICK p \in SUBSET Index : p = d.partial \cup {i}
    BY DEF Doc
<1>2. IsFiniteSet(p) /\ Cardinality(p) \in Nat /\ Cardinality(p) <= Total
    BY IndexIs, FS_Subset, FS_CardinalityType
<1>3. Total \in Nat
    BY EnrichmentAssumption
<1>4. n \in 0 .. Total /\ n = Cardinality(p)
    BY <1>1, <1>2, <1>3 DEF Smaller
<1>5. n >= Total => p = Index
    BY <1>2, <1>3, <1>4, IndexIs, FS_Subset
<1>6. PICK m \in 0 .. Total : m = n
    BY <1>4
<1>7. e = [d EXCEPT !.items[i] = r, !.partial = p, !.completed = m]
    BY <1>1, <1>6
<1>8. PICK items \in [Index -> Clicks \cup {Raw}] : items = [d.items EXCEPT ![i] = r]
    BY DEF Doc
<1>9. e = [d EXCEPT !.items = items, !.partial = p, !.completed = m]
    BY <1>7, <1>8 DEF Doc
<1> HIDE DEF e, n
<1>10. /\ e \in Doc
       /\ e.items = items /\ e.partial = p /\ e.completed = m
       /\ e.status = d.status /\ e.step = d.step
    BY <1>9 DEF Doc
<1>11. Raw \notin Clicks
    BY EnrichmentAssumption
<1>12. \A k \in Index : items[k] = IF k = i THEN r ELSE d.items[k]
    BY <1>8 DEF Doc
<1>13. ASSUME DocIsTrue(d)  PROVE DocIsTrue(e)
    <2>1. \A k \in p : items[k] # Raw
        BY <1>1, <1>11, <1>12, <1>13 DEF DocIsTrue
    <2>2. m >= Total => \A k \in Index : items[k] # Raw
        BY <1>5, <1>6, <2>1
    <2>3. (\A k \in Index : d.items[k] # Raw) => \A k \in Index : items[k] # Raw
        BY <1>11, <1>12
    <2> QED  BY <1>10, <1>13, <2>1, <2>2, <2>3 DEF DocIsTrue, Enriched
<1>14. WithItem(d, r, c, i) = WithChunk(Running(e), c, "running")
    BY DEF WithItem, e, n
<1>15. "running" \in ChunkStatuses
    BY DEF ChunkStatuses
<1> QED
    BY <1>8, <1>10, <1>13, <1>14, <1>15, RunningFits, WithChunkFits

LEMMA ConcludedFits ==
    ASSUME NEW d \in Doc
    PROVE  /\ Concluded(d) \in Doc
           /\ Concluded(d).items = d.items
           /\ DocIsTrue(d) => DocIsTrue(Concluded(d))
<1>1. Total \in Nat /\ d.completed \in 0 .. Total
    BY EnrichmentAssumption DEF Doc
<1>2. CASE \/ \E k \in ChunkIds : d.chunks[k] = "failed"
           \/ d.completed < Total
    BY <1>2 DEF Concluded, Doc, Steps, DocIsTrue, Enriched
<1>3. CASE /\ ~ \E k \in ChunkIds : d.chunks[k] = "failed"
           /\ ~ (d.completed < Total)
    <2>1. PICK p \in SUBSET Index : p = {}
        OBVIOUS
    <2>2. PICK n \in 0 .. Total : n = Total
        BY <1>1
    <2>3. Concluded(d) = [d EXCEPT !.status = "DONE", !.step = "ai_enrichment_done",
                                   !.partial = p, !.completed = n]
        BY <1>3, <2>1, <2>2 DEF Concluded
    <2>4. d.completed >= Total
        BY <1>1, <1>3
    <2>5. /\ Concluded(d) \in Doc
          /\ Concluded(d).items = d.items /\ Concluded(d).partial = {}
        BY <2>1, <2>3 DEF Doc, Steps
    <2> QED  BY <2>4, <2>5 DEF DocIsTrue, Enriched
<1> QED
    BY <1>2, <1>3

LEMMA MarkedFits ==
    ASSUME NEW d \in Doc, NEW c, NEW status \in ChunkStatuses
    PROVE  /\ Marked(d, c, status) \in Doc
           /\ Marked(d, c, status).items = d.items
           /\ DocIsTrue(d) => DocIsTrue(Marked(d, c, status))
<1> DEFINE w == WithChunk(d, c, status)
           e == [w EXCEPT !.fresh = TRUE]
<1>1. w \in Doc /\ w.items = d.items /\ (DocIsTrue(d) => DocIsTrue(w))
    BY WithChunkFits
<1>2. Marked(d, c, status) = IF AllTerminal(e) THEN Concluded(e) ELSE e
    BY DEF Marked
<1> HIDE DEF w
<1>3. e \in Doc /\ e.items = w.items /\ (DocIsTrue(w) => DocIsTrue(e))
    BY <1>1 DEF Doc, DocIsTrue, Enriched
<1> HIDE DEF e
<1> QED
    BY <1>1, <1>2, <1>3, ConcludedFits

\* A reader that finds all products counted may say "done".
LEMMA VerdictFits ==
    ASSUME NEW d \in Doc
    PROVE  /\ Verdict(d) \in Doc
           /\ DocIsTrue(d) => DocIsTrue(Verdict(d))
BY DEF Verdict, Recovered, HasCompleted, Doc, Steps, DocIsTrue, Enriched

LEMMA AgedFits ==
    ASSUME NEW d \in Doc
    PROVE  /\ [d EXCEPT !.fresh = FALSE] \in Doc
           /\ [d EXCEPT !.fresh = FALSE].items = d.items
           /\ DocIsTrue(d) => DocIsTrue([d EXCEPT !.fresh = FALSE])
BY DEF Doc, DocIsTrue, Enriched

-----------------------------------------------------------------------------
(* Every document stays true, and everything in its place.                 *)

\* What a click and its coordinator do.
LEMMA RunKeeps ==
    ASSUME EnrichmentInv, NEW r \in Clicks,
           Click(r) \/ RunStep(r) \/ RunStops(r)
    PROVE  EnrichmentInv'
<1> USE DEF EnrichmentInv, TrueInv, Read, Save, RunAt
<1>1. r \in Actors /\ task \in Doc /\ copy[r] \in Doc
    BY DEF Shape, Actors
<1>2. CASE Click(r)
    <2>1. UNCHANGED <<task, pc, next, lock, events>>
        BY <1>2 DEF Click
    <2>2. copy' = copy \/ copy' = [copy EXCEPT ![r] = task]
        BY <1>2 DEF Click
    <2>3. Shape'
        BY <1>1, <1>2, <2>1, <2>2 DEF Click, Shape
    <2> QED  BY <1>1, <2>1, <2>2, <2>3 DEF Shape
<1>3. CASE SaveQueued(r)
    <2>1. "ai_enrichment_queued" \in Steps
        BY DEF Steps
    <2>2. PICK d \in Doc : d = Reset(copy[r], "ai_enrichment_queued") /\ DocIsTrue(d)
        BY <1>1, <2>1, ResetFits
    <2>3. task' = d /\ copy' = [copy EXCEPT ![r] = Prepared]
        BY <1>3, <2>2 DEF SaveQueued
    <2>4. Shape'
        BY <1>1, <1>3, <2>2, <2>3, PreparedFits DEF SaveQueued, Shape
    <2> QED  BY <1>1, <2>2, <2>3, <2>4, PreparedFits DEF Shape
<1>4. CASE Begin(r)
    <2>1. copy' = [copy EXCEPT ![r] = task] /\ task' = task
        BY <1>4 DEF Begin
    <2>2. Shape'
        BY <1>1, <1>4, <2>1 DEF Begin, Shape
    <2> QED  BY <1>1, <2>1, <2>2 DEF Shape
<1>5. CASE SaveChunks(r)
    <2> DEFINE e == Reset(copy[r], "ai_enrichment_chunks_queued")
    <2>1. "ai_enrichment_chunks_queued" \in Steps
        BY DEF Steps
    <2>2. e \in Doc /\ DocIsTrue(e)
        BY <1>1, <2>1, ResetFits
    <2>3. PICK rows \in [ChunkIds -> ChunkStatuses] : rows = [c \in ChunkIds |-> "queued"]
        BY DEF ChunkStatuses
    <2>4. task' = [e EXCEPT !.chunks = rows] /\ copy' = [copy EXCEPT ![r] = Prepared]
        BY <1>5, <2>3 DEF SaveChunks
    <2> HIDE DEF e
    <2>5. task' \in Doc /\ DocIsTrue(task')
        BY <2>2, <2>4, RowsFit
    <2>6. Shape'
        BY <1>1, <1>5, <2>4, <2>5, PreparedFits DEF SaveChunks, Shape
    <2> QED  BY <1>1, <2>4, <2>5, <2>6, PreparedFits DEF Shape
<1>6. CASE EnqueueChunk(r)
    <2>1. UNCHANGED <<task, copy, next, lock, events>>
        BY <1>6 DEF EnqueueChunk
    <2>2. PICK c \in ChunkIds :
            /\ pc' = [pc EXCEPT ![<<r, c>>] = "queued"]
            /\ run' = [run EXCEPT ![r] = IF \E k \in ChunkIds : k > c
                                         THEN "enqueue_chunks" ELSE "end"]
        BY <1>6 DEF EnqueueChunk, At
    <2>3. PICK there \in {"enqueue_chunks", "end"} : run' = [run EXCEPT ![r] = there]
        BY <2>2
    <2>4. Shape'
        BY <1>1, <2>1, <2>2, <2>3 DEF Shape
    <2> QED  BY <1>1, <2>1, <2>4 DEF Shape
<1>7. CASE RunStops(r)
    <2>1. task' = task /\ copy' = [copy EXCEPT ![r] = Prepared]
        BY <1>7 DEF RunStops
    <2>2. Shape'
        BY <1>1, <1>7, <2>1, PreparedFits DEF RunStops, Shape
    <2> QED  BY <1>1, <2>1, <2>2, PreparedFits DEF Shape
<1> QED
    BY <1>2, <1>3, <1>4, <1>5, <1>6, <1>7 DEF RunStep

\* What a chunk job does.
LEMMA JobKeeps ==
    ASSUME EnrichmentInv, NEW j \in Jobs,
           JobStep(j) \/ Raises(j) \/ Kill(j)
    PROVE  EnrichmentInv'
<1> USE DEF EnrichmentInv, TrueInv, Read, Save, At
<1>1. j \in Actors /\ task \in Doc /\ copy[j] \in Doc
    BY DEF Shape, Actors
<1>2. j[1] \in Clicks /\ j[2] \in ChunkIds
    BY DEF Jobs
<1>3. /\ StartIndex(j[2]) \in 0 .. Total /\ EndIndex(j[2]) \in 0 .. Total
      /\ next[j] \in 0 .. Total /\ Total \in Nat
    BY <1>2, SliceOf, EnrichmentAssumption DEF Shape
<1>4. CASE StartJob(j)
    <2>1. UNCHANGED <<task, copy>>
        BY <1>4 DEF StartJob
    <2>2. Shape'
        BY <1>4 DEF StartJob, Shape, Waiting
    <2> QED  BY <2>1, <2>2 DEF Shape
<1>5. CASE Enter(j)
    <2>1. task' = task /\ copy' = [copy EXCEPT ![j] = task]
        BY <1>5 DEF Enter
    <2>2. Inside(pc[j]) \in {"start", "item", "done", "failed"}
        BY <1>5 DEF Enter, Inside, Waiting
    <2>3. Inside(pc[j]) = "item" => pc[j] = "want_item"
        BY <1>5 DEF Enter, Inside, Waiting
    <2>4. Shape'
        BY <1>1, <1>5, <2>1, <2>2, <2>3 DEF Enter, Shape
    <2> QED  BY <1>1, <2>1, <2>4 DEF Shape
<1>6. CASE SaveStart(j)
    <2> DEFINE e == WithChunk(copy[j], j[2], "running")
    <2>1. e \in Doc /\ DocIsTrue(e)
        BY <1>1, WithChunkFits DEF ChunkStatuses
    <2>2. task' = Running(e) /\ copy' = [copy EXCEPT ![j] = Prepared]
        BY <1>6 DEF SaveStart
    <2> HIDE DEF e
    <2>3. task' \in Doc /\ DocIsTrue(task')
        BY <2>1, <2>2, RunningFits
    <2>4. Shape'
        BY <1>1, <1>3, <1>6, <2>2, <2>3, PreparedFits DEF SaveStart, Shape
    <2> QED  BY <1>1, <2>2, <2>3, <2>4, PreparedFits DEF Shape
<1>7. CASE NextItem(j)
    <2>1. UNCHANGED <<task, copy, run, lock, events>>
        BY <1>7 DEF NextItem
    <2>2. Shape'
        <3>1. CASE next[j] >= EndIndex(j[2])
            BY <1>7, <2>1, <3>1 DEF NextItem, Shape, Waiting
        <3>2. CASE ~ (next[j] >= EndIndex(j[2])) /\ next[j] \in task.partial
            <4>1. next[j] + 1 \in 0 .. Total
                BY <1>3, <3>2
            <4> QED  BY <1>7, <2>1, <3>2, <4>1 DEF NextItem, Shape
        <3>3. CASE ~ (next[j] >= EndIndex(j[2])) /\ next[j] \notin task.partial
            <4>1. next[j] < EndIndex(j[2])
                BY <1>3, <3>3
            <4> QED  BY <1>7, <2>1, <3>3, <4>1 DEF NextItem, Shape, Waiting
        <3> QED  BY <3>1, <3>2, <3>3
    <2> QED  BY <2>1, <2>2 DEF Shape
<1>8. CASE SaveItem(j)
    <2>1. next[j] < EndIndex(j[2])
        BY <1>8 DEF SaveItem, Shape
    <2>2. next[j] \in Index /\ next[j] + 1 \in 0 .. Total
        BY <1>3, <2>1 DEF Index
    <2>3. task' = WithItem(copy[j], j[1], j[2], next[j]) /\ copy' = [copy EXCEPT ![j] = Prepared]
        BY <1>8 DEF SaveItem
    <2>4. task' \in Doc /\ DocIsTrue(task')
        BY <1>1, <1>2, <2>2, <2>3, WithItemFits
    <2>5. Shape'
        BY <1>1, <1>8, <2>2, <2>3, <2>4, PreparedFits DEF SaveItem, Shape
    <2> QED  BY <1>1, <2>3, <2>4, <2>5, PreparedFits DEF Shape
<1>9. CASE SaveEnd(j)
    <2>1. pc[j] \in ChunkStatuses
        BY <1>9 DEF SaveEnd, ChunkStatuses
    <2>2. task' = Marked(copy[j], j[2], pc[j]) /\ copy' = [copy EXCEPT ![j] = Prepared]
        BY <1>9 DEF SaveEnd
    <2>3. task' \in Doc /\ DocIsTrue(task')
        BY <1>1, <2>1, <2>2, MarkedFits
    <2>4. Shape'
        BY <1>1, <1>9, <2>2, <2>3, PreparedFits DEF SaveEnd, Shape
    <2> QED  BY <1>1, <2>2, <2>3, <2>4, PreparedFits DEF Shape
<1>10. CASE Raises(j) \/ Kill(j)
    <2>1. /\ UNCHANGED <<task, run, next, events>>
          /\ copy' = [copy EXCEPT ![j] = Prepared]
          /\ lock' = Free \/ lock' = lock
        BY <1>10 DEF Raises, Kill, Leave
    <2>2. PICK l \in {"want_failed", "end"} : pc' = [pc EXCEPT ![j] = l]
        BY <1>10 DEF Raises, Kill
    <2>3. Shape'
        BY <1>1, <2>1, <2>2, PreparedFits DEF Shape, Waiting
    <2> QED  BY <1>1, <2>1, <2>3, PreparedFits DEF Shape
<1> QED
    BY <1>4, <1>5, <1>6, <1>7, <1>8, <1>9, <1>10 DEF JobStep

LEMMA ReaderKeeps ==
    ASSUME EnrichmentInv, NEW o \in Readers, ReaderStep(o)
    PROVE  EnrichmentInv'
<1> USE DEF EnrichmentInv, TrueInv, Save
<1>1. o \in Actors /\ task \in Doc /\ copy[o] \in Doc
    BY DEF Shape, Actors
<1>2. CASE Poll(o)
    <2>1. PICK d \in Doc : d = Verdict(task) /\ DocIsTrue(d)
        BY <1>1, VerdictFits
    <2>2. copy' = [copy EXCEPT ![o] = d] /\ UNCHANGED <<task, run, pc, next, lock, events>>
        BY <1>2, <2>1 DEF Poll
    <2>3. Shape'
        BY <1>1, <2>1, <2>2 DEF Shape
    <2> QED  BY <1>1, <2>1, <2>2, <2>3 DEF Shape
<1>3. CASE SaveVerdict(o)
    <2>1. /\ task' = copy[o] /\ copy' = [copy EXCEPT ![o] = Prepared]
          /\ UNCHANGED <<run, pc, next, lock, events>>
        BY <1>3 DEF SaveVerdict
    <2>2. Shape'
        BY <1>1, <2>1, PreparedFits DEF Shape
    <2> QED  BY <1>1, <2>1, <2>2, PreparedFits DEF Shape
<1> QED
    BY <1>2, <1>3 DEF ReaderStep

LEMMA AgingKeeps ==
    ASSUME EnrichmentInv, Ages
    PROVE  EnrichmentInv'
<1>1. task \in Doc /\ DocIsTrue(task)
    BY DEF EnrichmentInv, TrueInv, Shape
<1>2. task' \in Doc /\ DocIsTrue(task')
    BY <1>1, AgedFits DEF Ages
<1>3. UNCHANGED <<copy, run, pc, next, lock, events>>
    BY DEF Ages
<1> QED
    BY <1>2, <1>3 DEF EnrichmentInv, TrueInv, Shape

LEMMA EnrichmentHolds == Init => EnrichmentInv
<1> SUFFICES ASSUME Init  PROVE EnrichmentInv
    OBVIOUS
<1>1. Total \in Nat
    BY EnrichmentAssumption
<1>2. \A w \in Actors : copy[w] = Prepared
    BY DEF Init, Actors
<1>3. task = Prepared
    BY DEF Init
<1>4. Shape
    BY <1>1, PreparedFits DEF Init, Shape, Actors
<1> QED
    BY <1>2, <1>3, <1>4, PreparedFits DEF EnrichmentInv, TrueInv

LEMMA EnrichmentKept ==
    ASSUME EnrichmentInv, [Next]_vars
    PROVE  EnrichmentInv'
<1>1. CASE UNCHANGED vars
    BY <1>1 DEF EnrichmentInv, TrueInv, Shape, vars
<1>2. CASE Next
    BY <1>2, RunKeeps, JobKeeps, ReaderKeeps, AgingKeeps DEF Next
<1> QED
    BY <1>1, <1>2

\* Whatever clicks, jobs, polls and faults do, every document that is saved,
\* or held by somebody who will save it, counts no product that no chunk job
\* has been through.
THEOREM EnrichmentInvariant == Spec => []EnrichmentInv
<1> QED
    BY EnrichmentHolds, EnrichmentKept, PTL DEF Spec

\* The type invariant: the bounds of the indices and of the completed count
\* are those of _run_factory_enrichment_chunk_task.
THEOREM TypeCorrect == Spec => []TypeOK
<1>1. EnrichmentInv => TypeOK
    BY DEF EnrichmentInv, Shape, TypeOK, Actors
<1> QED
    BY <1>1, EnrichmentInvariant, PTL

\* No task is "ai_enrichment_done" with a product that no chunk job has been
\* through: not when a poll recovers it, nor when a killed job, a failed one
\* or a second run has written over it.
THEOREM DoneStaysEnriched == Spec => []DoneIsEnriched
<1>1. EnrichmentInv => DoneIsEnriched
    BY DEF EnrichmentInv, TrueInv, DocIsTrue, Enriched, DoneIsEnriched
<1> QED
    BY <1>1, EnrichmentInvariant, PTL

-----------------------------------------------------------------------------
(* One run that no poll disturbs.                                          *)

Uninterrupted == events \cap {"polls", "second_click"} = {}

InLock(j) == pc[j] \in {"start", "item", "done", "failed"}

OneRun ==
    /\ \A q, r \in Clicks : run[q] # "idle" /\ run[r] # "idle" => q = r
    /\ \A j \in Jobs : pc[j] # "none" => run[j[1]] \in {"enqueue_chunks", "end"}
    /\ \A j \in Jobs : pc[j] = "none" => next[j] = 0

\* The job inside the lock has read the items as they are.
AloneInLock ==
    /\ \A j \in Jobs : InLock(j) => lock = j /\ copy[j].items = task.items
    /\ \A o \in Readers : copy[o] = Prepared

ItemsKept ==
    \A j \in Jobs : \A i \in Index :
        StartIndex(j[2]) <= i /\ i < next[j] => task.items[i] # Raw

KeptInv == Uninterrupted => OneRun /\ AloneInLock /\ ItemsKept

\* Only the run that was clicked has jobs, and none of them has an item while
\* the click or its coordinator starts the document over.
LEMMA RunKeepsItems ==
    ASSUME EnrichmentInv, Uninterrupted, OneRun, AloneInLock, ItemsKept,
           NEW r \in Clicks, Click(r) \/ RunStep(r) \/ RunStops(r)
    PROVE  OneRun' /\ AloneInLock' /\ ItemsKept'
<1> USE DEF Read, Save, RunAt
<1>1. Shape
    BY DEF EnrichmentInv
<1>2. run \in [Clicks -> {"idle", "save_queued", "queued", "save_chunks", "enqueue_chunks", "end"}]
    BY <1>1 DEF Shape
<1>3. \A j \in Jobs : j[1] \in Clicks /\ j[2] \in ChunkIds /\ j = <<j[1], j[2]>>
    BY DEF Jobs
<1>4. UNCHANGED <<next, lock>>
    BY DEF Click, RunStep, SaveQueued, Begin, SaveChunks, EnqueueChunk, RunStops
<1>5. \E d \in {task, Prepared} : copy' = [copy EXCEPT ![r] = d] \/ copy' = copy
    BY DEF Click, RunStep, SaveQueued, Begin, SaveChunks, EnqueueChunk, RunStops
<1>6. \A w \in Jobs \cup Readers : copy'[w] = copy[w]
    BY <1>1, <1>5, ActorsAssumption DEF Shape, Actors
<1>7. \E l \in {"save_queued", "queued", "save_chunks", "enqueue_chunks", "end"} :
        run' = [run EXCEPT ![r] = l]
    BY DEF Click, RunStep, SaveQueued, Begin, SaveChunks, EnqueueChunk, RunStops
<1>8. \A q \in Clicks : q # r => run'[q] = run[q]
    BY <1>2, <1>7
<1>9. run'[r] # "idle"
    BY <1>2, <1>7
<1>10. \A q \in Clicks : q # r => run[q] = "idle"
    <2>1. CASE Click(r)
        BY <2>1 DEF Click, Uninterrupted
    <2>2. CASE RunStep(r) \/ RunStops(r)
        <3>1. run[r] # "idle"
            BY <2>2 DEF RunStep, SaveQueued, Begin, SaveChunks, EnqueueChunk, RunStops
        <3> QED  BY <3>1 DEF OneRun
    <2> QED  BY <2>1, <2>2
<1>11. \A q, p \in Clicks : run'[q] # "idle" /\ run'[p] # "idle" => q = p
    BY <1>8, <1>10
<1>12. CASE EnqueueChunk(r)
    <2>1. task' = task /\ run[r] = "enqueue_chunks" /\ run'[r] \in {"enqueue_chunks", "end"}
        BY <1>2, <1>12 DEF EnqueueChunk
    <2>2. PICK c \in ChunkIds : pc[<<r, c>>] = "none" /\ pc' = [pc EXCEPT ![<<r, c>>] = "queued"]
        BY <1>12 DEF EnqueueChunk, At
    <2>3. \A j \in Jobs : pc'[j] = IF j = <<r, c>> THEN "queued" ELSE pc[j]
        BY <1>1, <2>2 DEF Shape
    <2>4. OneRun'
        <3>1. \A j \in Jobs : pc'[j] # "none" => run'[j[1]] \in {"enqueue_chunks", "end"}
            BY <1>3, <1>8, <2>1, <2>3 DEF OneRun
        <3>2. \A j \in Jobs : pc'[j] = "none" => next'[j] = 0
            BY <1>4, <2>2, <2>3 DEF OneRun
        <3> QED  BY <1>11, <3>1, <3>2 DEF OneRun
    <2>5. \A j \in Jobs : InLock(j)' => InLock(j)
        BY <2>3 DEF InLock
    <2>6. AloneInLock'
        BY <1>4, <1>6, <2>1, <2>5 DEF AloneInLock
    <2>7. ItemsKept'
        BY <1>4, <2>1 DEF ItemsKept
    <2> QED  BY <2>4, <2>6, <2>7
<1>13. CASE RunStops(r)
    <2>1. task' = task /\ pc' = pc /\ run'[r] = "end"
        BY <1>2, <1>13 DEF RunStops
    <2>2. OneRun'
        BY <1>3, <1>4, <1>8, <1>11, <2>1 DEF OneRun
    <2>3. AloneInLock'
        BY <1>4, <1>6, <2>1 DEF AloneInLock, InLock
    <2>4. ItemsKept'
        BY <1>4, <2>1 DEF ItemsKept
    <2> QED  BY <2>2, <2>3, <2>4
<1>14. CASE Click(r) \/ SaveQueued(r) \/ Begin(r) \/ SaveChunks(r)
    <2>1. pc' = pc /\ run[r] \in {"idle", "save_queued", "queued", "save_chunks"}
        BY <1>14 DEF Click, SaveQueued, Begin, SaveChunks
    <2>2. \A j \in Jobs : pc[j] = "none" /\ next[j] = 0
        BY <1>3, <1>10, <2>1 DEF OneRun
    <2>3. OneRun'
        BY <1>4, <1>11, <2>1, <2>2 DEF OneRun
    <2>4. AloneInLock'
        BY <1>6, <2>1, <2>2 DEF AloneInLock, InLock
    <2>5. ItemsKept'
        BY <1>4, <2>2 DEF ItemsKept, Index
    <2> QED  BY <2>3, <2>4, <2>5
<1> QED
    BY <1>12, <1>13, <1>14 DEF RunStep

\* A chunk job writes under the lock what it has read under it, with one item
\* more.
LEMMA JobKeepsItems ==
    ASSUME EnrichmentInv, Uninterrupted, OneRun, AloneInLock, ItemsKept,
           NEW j \in Jobs, JobStep(j) \/ Raises(j) \/ Kill(j)
    PROVE  OneRun' /\ AloneInLock' /\ ItemsKept'
<1> USE DEF Read, Save, At
<1>1. Shape /\ DocIsTrue(task)
    BY DEF EnrichmentInv, TrueInv
<1>2. task \in Doc /\ copy[j] \in Doc
    BY <1>1 DEF Shape, Actors
<1>3. j[1] \in Clicks /\ j[2] \in ChunkIds
    BY DEF Jobs
<1>4. \E l \in {"queued", "loop", "end"} \cup Waiting \cup {"start", "item", "done", "failed"} :
        \/ pc' = [pc EXCEPT ![j] = l]
        \/ pc' = pc /\ pc[j] = "loop"
    BY DEF JobStep, StartJob, Enter, SaveStart, NextItem, SaveItem, SaveEnd,
           Raises, Kill, Inside, Waiting
<1>5. \A k \in Jobs : k # j => pc'[k] = pc[k]
    BY <1>1, <1>4 DEF Shape
<1>6. pc[j] # "none" /\ pc'[j] # "none"
    <2>1. pc[j] # "none"
        BY DEF JobStep, StartJob, Enter, SaveStart, NextItem, SaveItem, SaveEnd,
               Raises, Kill, Waiting
    <2> QED  BY <1>1, <1>4, <2>1 DEF Shape, Waiting
<1>7. /\ run' = run
      /\ next' = [next EXCEPT ![j] = next'[j]]
    BY <1>1 DEF Shape, JobStep, StartJob, Enter, SaveStart, NextItem, SaveItem, SaveEnd, Raises, Kill
<1>8. \A k \in Jobs : k # j => next'[k] = next[k]
    BY <1>1, <1>7 DEF Shape
<1>9. OneRun'
    BY <1>5, <1>6, <1>7, <1>8 DEF OneRun
<1>10. \E d : copy' = [copy EXCEPT ![j] = d] \/ copy' = copy
    BY DEF JobStep, StartJob, Enter, SaveStart, NextItem, SaveItem, SaveEnd, Raises, Kill, Leave
<1>11. \A w \in Jobs \cup Readers : w # j => copy'[w] = copy[w]
    BY <1>1, <1>10 DEF Shape, Actors
<1>12. \A o \in Readers : copy'[o] = Prepared
    BY <1>11, ActorsAssumption DEF AloneInLock
<1>13. \A k \in Jobs : k # j => (InLock(k)' <=> InLock(k))
    BY <1>5 DEF InLock
<1>14. \A k \in Jobs : k # j /\ InLock(k) => lock = k /\ lock # j /\ lock # Free
    BY FreeAssumption DEF AloneInLock
<1>15. CASE StartJob(j) \/ NextItem(j)
    <2>1. task' = task /\ lock' = lock
        BY <1>15 DEF StartJob, NextItem
    <2>2. ~ InLock(j)'
        BY <1>1, <1>15 DEF StartJob, NextItem, InLock, Shape
    <2>3. AloneInLock'
        BY <1>11, <1>12, <1>13, <2>1, <2>2 DEF AloneInLock
    <2>4. \A i \in Index : StartIndex(j[2]) <= i /\ i < next'[j] => task.items[i] # Raw
        <3>1. CASE next'[j] = next[j]
            BY <3>1 DEF ItemsKept
        <3>2. CASE next'[j] # next[j]
            <4>1. next'[j] = next[j] + 1 /\ next[j] \in task.partial
                BY <1>1, <1>15, <3>2 DEF StartJob, NextItem, Shape
            <4>2. task.items[next[j]] # Raw
                BY <1>1, <4>1 DEF DocIsTrue
            <4>3. next[j] \in Int
                BY <1>1 DEF Shape
            <4>4. \A i \in Index : i < next[j] + 1 => i < next[j] \/ i = next[j]
                BY <4>3 DEF Index
            <4> QED  BY <4>1, <4>2, <4>4 DEF ItemsKept
        <3> QED  BY <3>1, <3>2
    <2>5. ItemsKept'
        BY <1>8, <2>1, <2>4 DEF ItemsKept
    <2> QED  BY <1>9, <2>3, <2>5
<1>16. CASE Enter(j)
    <2>1. task' = task /\ lock = Free /\ lock' = j /\ copy'[j] = task /\ next' = next
        BY <1>1, <1>16 DEF Enter, Shape, Actors
    <2>2. AloneInLock'
        BY <1>12, <1>13, <1>14, <2>1 DEF AloneInLock
    <2>3. ItemsKept'
        BY <2>1 DEF ItemsKept
    <2> QED  BY <1>9, <2>2, <2>3
<1>17. CASE SaveStart(j) \/ SaveItem(j) \/ SaveEnd(j)
    <2>1. lock' = Free /\ InLock(j)
        BY <1>17 DEF SaveStart, SaveItem, SaveEnd, InLock
    <2>2. lock = j /\ copy[j].items = task.items
        BY <2>1 DEF AloneInLock
    <2>3. ~ InLock(j)'
        BY <1>1, <1>17 DEF SaveStart, SaveItem, SaveEnd, InLock, Shape
    <2>4. AloneInLock'
        BY <1>12, <1>13, <1>14, <2>2, <2>3 DEF AloneInLock
    <2>5. CASE SaveStart(j)
        <3> DEFINE e == WithChunk(copy[j], j[2], "running")
        <3>1. e \in Doc /\ e.items = copy[j].items
            BY <1>2, WithChunkFits DEF ChunkStatuses
        <3>2. task' = Running(e)
            BY <2>5 DEF SaveStart
        <3> HIDE DEF e
        <3>3. task'.items = task.items
            BY <2>2, <3>1, <3>2, RunningFits
        <3>4. next'[j] = StartIndex(j[2]) /\ StartIndex(j[2]) \in Int
            BY <1>1, <1>3, <2>5, SliceOf DEF SaveStart, Shape
        <3>5. \A i \in Index : ~ (StartIndex(j[2]) <= i /\ i < next'[j])
            BY <3>4 DEF Index
        <3> QED  BY <1>8, <1>9, <2>4, <3>3, <3>5 DEF ItemsKept
    <2>6. CASE SaveItem(j)
        <3>1. /\ next[j] < EndIndex(j[2]) /\ next[j] \in 0 .. Total
              /\ next'[j] = next[j] + 1
            BY <1>1, <2>6 DEF SaveItem, Shape
        <3>2. EndIndex(j[2]) \in 0 .. Total /\ Total \in Nat
            BY <1>3, SliceOf, EnrichmentAssumption
        <3>3. next[j] \in Index
            BY <3>1, <3>2 DEF Index
        <3>4. task'.items = [task.items EXCEPT ![next[j]] = j[1]]
            <4>1. task' = WithItem(copy[j], j[1], j[2], next[j])
                BY <2>6 DEF SaveItem
            <4>2. WithItem(copy[j], j[1], j[2], next[j]).items = [copy[j].items EXCEPT ![next[j]] = j[1]]
                BY <1>2, <1>3, <3>3, WithItemFits
            <4> QED  BY <2>2, <4>1, <4>2
        <3>5. task.items \in [Index -> Clicks \cup {Raw}] /\ j[1] # Raw
            BY <1>2, <1>3, EnrichmentAssumption DEF Doc
        <3>6. \A i \in Index : \/ i = next[j] /\ task'.items[i] # Raw
                               \/ i # next[j] /\ task'.items[i] = task.items[i]
            BY <3>4, <3>5
        <3>7. \A i \in Index : i < next[j] + 1 => i < next[j] \/ i = next[j]
            BY <3>1 DEF Index
        <3>8. \A i \in Index : StartIndex(j[2]) <= i /\ i < next'[j] => task'.items[i] # Raw
            BY <3>1, <3>6, <3>7 DEF ItemsKept
        <3> QED  BY <1>8, <1>9, <2>4, <3>6, <3>8 DEF ItemsKept
    <2>7. CASE SaveEnd(j)
        <3>1. pc[j] \in ChunkStatuses
            BY <2>7 DEF SaveEnd, ChunkStatuses
        <3>2. task'.items = task.items /\ next' = next
            BY <1>2, <2>2, <2>7, <3>1, MarkedFits DEF SaveEnd
        <3> QED  BY <1>9, <2>4, <3>2 DEF ItemsKept
    <2> QED  BY <1>9, <1>17, <2>4, <2>5, <2>6, <2>7
<1>18. CASE Raises(j) \/ Kill(j)
    <2>1. /\ task' = task /\ next' = next
          /\ lock' = IF lock = j THEN Free ELSE lock
        BY <1>18 DEF Raises, Kill, Leave
    <2>2. ~ InLock(j)'
        BY <1>1, <1>18 DEF Raises, Kill, InLock, Shape
    <2>3. AloneInLock'
        BY <1>11, <1>12, <1>13, <1>14, <2>1, <2>2 DEF AloneInLock
    <2>4. ItemsKept'
        BY <2>1 DEF ItemsKept
    <2> QED  BY <1>9, <2>3, <2>4
<1> QED
    BY <1>15, <1>16, <1>17, <1>18 DEF JobStep

LEMMA KeptHolds == Init => KeptInv
<1> SUFFICES ASSUME Init  PROVE OneRun /\ AloneInLock /\ ItemsKept
    BY DEF KeptInv
<1>1. OneRun
    BY DEF Init, OneRun
<1>2. AloneInLock
    BY DEF Init, AloneInLock, InLock
<1>3. ItemsKept
    BY DEF Init, ItemsKept, Index
<1> QED
    BY <1>1, <1>2, <1>3

LEMMA KeptKept ==
    ASSUME EnrichmentInv, KeptInv, [Next]_vars
    PROVE  KeptInv'
<1>1. CASE UNCHANGED vars
    BY <1>1 DEF KeptInv, Uninterrupted, OneRun, AloneInLock, InLock, ItemsKept, vars
<1>2. CASE Next
    <2>1. events' = events
        BY <1>2 DEF Next, Click, RunStep, SaveQueued, Begin, SaveChunks, EnqueueChunk, RunStops,
               JobStep, StartJob, Enter, SaveStart, NextItem, SaveItem, SaveEnd, Raises, Kill,
               ReaderStep, Poll, SaveVerdict, Ages
    <2> SUFFICES ASSUME Uninterrupted  PROVE OneRun' /\ AloneInLock' /\ ItemsKept'
        BY <2>1 DEF KeptInv, Uninterrupted
    <2>2. OneRun /\ AloneInLock /\ ItemsKept
        BY DEF KeptInv
    <2>3. ASSUME NEW o \in Readers  PROVE ~ ReaderStep(o)
        BY <2>2 DEF ReaderStep, Poll, SaveVerdict, Uninterrupted, AloneInLock
    <2>4. CASE Ages
        <3>1. UNCHANGED <<copy, run, pc, next, lock>>
            BY <2>4 DEF Ages
        <3>2. task'.items = task.items
            BY <2>4, AgedFits DEF Ages, EnrichmentInv, Shape
        <3> QED  BY <2>2, <3>1, <3>2 DEF OneRun, AloneInLock, InLock, ItemsKept
    <2> QED
        BY <1>2, <2>2, <2>3, <2>4, RunKeepsItems, JobKeepsItems DEF Next
<1> QED
    BY <1>1, <1>2

\* With one click and no poll to disturb them, the chunk jobs lose no item:
\* what one has saved under the enrichment lock, the others leave.  Jobs may
\* fail, be killed or never be enqueued.
THEOREM NothingLost == Spec => []NoLostItem
<1>1. Init => EnrichmentInv /\ KeptInv
    BY EnrichmentHolds, KeptHolds
<1>2. EnrichmentInv /\ KeptInv /\ [Next]_vars => (EnrichmentInv /\ KeptInv)'
    BY EnrichmentKept, KeptKept
<1>3. KeptInv => NoLostItem
    BY DEF KeptInv, Uninterrupted, ItemsKept, NoLostItem
<1> QED
    BY <1>1, <1>2, <1>3, PTL DEF Spec

=============================================================================

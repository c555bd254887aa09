------------------------ MODULE AttributeFillProofs ------------------------
(***************************************************************************)
(* Proofs about AttributeFill, for every number of products, chunk and     *)
(* batch size, and in every environment unless a theorem names one.        *)
(*                                                                         *)
(* A document is a copy of what was saved some time ago, so nothing can be *)
(* said of it that a step of another job could take back.  The invariant   *)
(* therefore bounds what a document has counted by sets that only grow:    *)
(* the products passed, those whose fate is told, and the chunks settled.  *)
(***************************************************************************)
EXTENDS AttributeFill, FiniteSetTheorems, TLAPS

-----------------------------------------------------------------------------
(* Chunks cut the products into consecutive ranges.                        *)

LEMMA Quotient ==
    ASSUME NEW n \in Nat, NEW m \in Nat, m > 0
    PROVE  /\ n \div m \in Nat
           /\ m * (n \div m) <= n
           /\ n < m * (n \div m) + m
OBVIOUS

LEMMA QuotientIs ==
    ASSUME NEW n \in Nat, NEW m \in Nat, m > 0, NEW q \in Nat, m * q <= n, n < m * q + m
    PROVE  n \div m = q
BY Quotient, SMTT(30)

LEMMA QuotientGrows ==
    ASSUME NEW n \in Nat, NEW k \in Nat, NEW m \in Nat, m > 0, n <= k
    PROVE  n \div m <= k \div m
BY Quotient, SMTT(30)

ChunkCount == (MaxActive + ChunkSize - 1) \div ChunkSize

LEMMA ChunksAre ==
    /\ ChunkCount \in Nat
    /\ Chunks = 1 .. ChunkCount
    /\ ChunkSize * ChunkCount <= MaxActive + ChunkSize - 1
    /\ IsFiniteSet(Chunks) /\ Cardinality(Chunks) = ChunkCount
<1>1. MaxActive + ChunkSize - 1 \in Nat /\ ChunkSize \in Nat /\ ChunkSize > 0
    BY AttributeFillAssumption
<1>2. ChunkCount \in Nat /\ ChunkSize * ChunkCount <= MaxActive + ChunkSize - 1
    BY <1>1, Quotient DEF ChunkCount
<1>3. Chunks = 1 .. ChunkCount
    BY DEF Chunks, ChunkCount
<1> QED
    BY <1>2, <1>3, FS_Interval

LEMMA ChunkOfItem ==
    ASSUME NEW i \in Items
    PROVE  /\ ChunkOf(i) \in Chunks
           /\ FirstOf(ChunkOf(i)) <= i
           /\ i < FirstOf(ChunkOf(i)) + ChunkSize
<1> DEFINE q == (i - 1) \div ChunkSize
<1>1. /\ i - 1 \in Nat /\ i - 1 <= MaxActive - 1
      /\ ChunkSize \in Nat /\ ChunkSize > 0 /\ MaxActive \in Nat
    BY AttributeFillAssumption DEF Items
<1>2. q \in Nat /\ ChunkSize * q <= i - 1 /\ i - 1 < ChunkSize * q + ChunkSize
    BY <1>1, Quotient
<1>3. ChunkOf(i) = q + 1
    BY DEF ChunkOf
<1> HIDE DEF q
<1>4. FirstOf(ChunkOf(i)) = ChunkSize * q + 1
    BY <1>1, <1>2, <1>3 DEF FirstOf
<1>5. q + 1 <= ChunkCount
    <2>1. i - 1 + ChunkSize \in Nat /\ i - 1 + ChunkSize <= MaxActive + ChunkSize - 1
        BY <1>1
    <2>2. (i - 1 + ChunkSize) \div ChunkSize <= ChunkCount
        BY <1>1, <2>1, QuotientGrows DEF ChunkCount
    <2>3. ChunkSize * (q + 1) = ChunkSize * q + ChunkSize
        BY <1>1, <1>2
    <2>4. (i - 1 + ChunkSize) \div ChunkSize = q + 1
        BY <1>1, <1>2, <2>1, <2>3, QuotientIs
    <2> QED  BY <2>2, <2>4
<1>6. ChunkOf(i) \in Chunks
    BY <1>2, <1>3, <1>5, ChunksAre
<1>7. i \in Int
    BY DEF Items
<1>8. FirstOf(ChunkOf(i)) <= i /\ i < FirstOf(ChunkOf(i)) + ChunkSize
    <2> DEFINE m == ChunkSize * q
    <2>1. m \in Int
        BY <1>1, <1>2
    <2>2. m <= i - 1 /\ i - 1 < m + ChunkSize /\ FirstOf(ChunkOf(i)) = m + 1
        BY <1>2, <1>4
    <2> HIDE DEF m
    <2> QED  BY <1>1, <1>7, <2>1, <2>2
<1> QED
    BY <1>6, <1>8

LEMMA ChunkOfIs ==
    ASSUME NEW c \in Chunks, NEW i \in Nat,
           FirstOf(c) <= i, i < FirstOf(c) + ChunkSize
    PROVE  ChunkOf(i) = c
<1>1. c \in Nat /\ c >= 1 /\ c - 1 \in Nat /\ ChunkSize \in Nat /\ ChunkSize > 0
    BY ChunksAre, AttributeFillAssumption
<1>2. ChunkSize * (c - 1) = (c - 1) * ChunkSize /\ (c - 1) * ChunkSize \in Nat
    BY <1>1
<1>3. i - 1 \in Nat /\ ChunkSize * (c - 1) <= i - 1 /\ i - 1 < ChunkSize * (c - 1) + ChunkSize
    BY <1>1, <1>2 DEF FirstOf
<1>4. (i - 1) \div ChunkSize = c - 1
    BY <1>1, <1>3, QuotientIs
<1> QED
    BY <1>1, <1>4 DEF ChunkOf

LEMMA FirstOfChunk ==
    ASSUME NEW c \in Chunks
    PROVE  FirstOf(c) \in Items
<1>1. c \in Nat /\ c >= 1 /\ c <= ChunkCount /\ ChunkCount \in Nat
    BY ChunksAre
<1>2. ChunkSize \in Nat /\ ChunkSize > 0 /\ MaxActive \in Nat
    BY AttributeFillAssumption
<1>3. ChunkSize * c <= ChunkSize * ChunkCount
    BY <1>1, <1>2
<1>4. ChunkSize * c <= MaxActive + ChunkSize - 1
    BY <1>1, <1>2, <1>3, ChunksAre
<1>5. (c - 1) * ChunkSize = ChunkSize * c - ChunkSize /\ (c - 1) * ChunkSize >= 0
    BY <1>1, <1>2
<1> QED
    BY <1>1, <1>2, <1>4, <1>5 DEF FirstOf, Items

-----------------------------------------------------------------------------
(* Where the jobs can be.                                                  *)

Shape ==
    /\ lock \in Jobs \cup {Free}
    /\ at \in [Jobs -> Places \cup Changes]
    /\ phase \in [Jobs -> {"idle", "acquire", "read", "save", "check", "delete", "leave"}]
    /\ \A a \in Jobs : phase[a] = "idle" <=> at[a] \in Places
    /\ total \in 0 .. MaxActive
    /\ rows \in [Items -> {"none", "queued", "running"} \cup Results]
    /\ next \in [Chunks -> 1 .. MaxActive + 1]
    /\ result \in [Chunks -> Results]
    /\ pending \in [Chunks -> SUBSET Items]
    /\ accepted \subseteq Items
    /\ faults \in Environments

Saved(a) == phase[a] \in {"check", "delete", "leave"}

CoordinatorPlaces == {"queued", "fetch", "fetch_failed", "queued_all", "empty_done", "enqueue", "end"}
ChunkPlaces == (Places \ {"fetch", "enqueue"}) \cup
               (Changes \ {"fetch_failed", "queued_all", "empty_done"})

\* Nothing is known of the products before this.
Unfetched == at[Coordinator] \in {"queued", "fetch", "fetch_failed"}

\* The document that the chunks count in is not yet there.
Uncounted == \/ Unfetched
             \/ at[Coordinator] = "queued_all" /\ ~Saved(Coordinator)

PlacesInv ==
    /\ at[Coordinator] \in CoordinatorPlaces
    /\ \A c \in Chunks : at[c] \in ChunkPlaces
    /\ \A c \in Chunks : at[c] # "none" => c \in ChunksUsed /\ at[Coordinator] \in {"enqueue", "end"}
    /\ Unfetched => total = 0
    /\ at[Coordinator] = "empty_done" => total = 0

-----------------------------------------------------------------------------
(* What a chunk job has done.                                              *)

\* The product a chunk job is at work on.
AtWork == {"ai_start", "generate", "ai_done", "item_row", "item_done"}
Working(c) == at[c] \in AtWork /\ ~ (at[c] = "item_done" /\ Saved(c))

\* The product's row is written and the product not yet counted.
RowWritten(c) == at[c] = "item_done" /\ ~Saved(c)

PassedOf(c) == {i \in ItemsOf(c) : i < next[c]}

RowIsHeld(c, i) == rows[i] \in Results /\ (rows[i] = "done" => i \in accepted \cup pending[c])

ProgressOf(c) ==
    /\ next[c] >= FirstOf(c)
    /\ at[c] \in {"none", "queued"} => next[c] = FirstOf(c) /\ pending[c] = {}
    /\ \A i \in FirstOf(c) .. next[c] - 1 : i \in ItemsOf(c)
    /\ pending[c] \subseteq ItemsOf(c)
    /\ \A i \in pending[c] :
         i < next[c] \/ (i = next[c] /\ (at[c] \in {"item_row", "end"} \/ RowWritten(c)))
    /\ Working(c) => next[c] \in ItemsOf(c)
    /\ at[c] = "item_row" \/ RowWritten(c)
          => (next[c] \in pending[c] <=> result[c] = "done")
    /\ at[c] \in {"ai_start", "generate", "ai_done"} => next[c] \notin pending[c]
    /\ at[c] \in {"submit_start", "submit", "submit_failed"} => pending[c] # {}
    /\ RowWritten(c) => rows[next[c]] = result[c]
    /\ \A i \in PassedOf(c) : RowIsHeld(c, i)
    /\ at[c] = "chunk_done" => pending[c] = {} /\ next[c] \notin ItemsOf(c)

ProgressInv == \A c \in Chunks : ProgressOf(c)

-----------------------------------------------------------------------------
(* What a document may have counted.                                       *)

Passed == {i \in 1 .. total : i < next[ChunkOf(i)]}

\* In a batch of which neither the job nor OTTO has told the outcome.
Open(c) == IF at[c] \in {"failed_rows", "end"} \/ (at[c] = "submit_failed" /\ Saved(c))
           THEN {} ELSE pending[c]
Told == {i \in Passed : i \notin Open(ChunkOf(i))}

Settled == {c \in ChunksUsed :
              /\ at[c] = "end" \/ (at[c] = "chunk_done" /\ Saved(c))
              /\ \A i \in ItemsOf(c) : RowIsTrue(i)}

AllSettled == ChunksUsed \subseteq Settled

\* A job that will not save again.
AtRest(a) == \/ at[a] \in {"none", "end", "enqueue"}
             \/ at[a] \in {"chunk_done", "empty_done", "fetch_failed"} /\ Saved(a)

Over == AllSettled /\ \A a \in Jobs : AtRest(a)

DocShape == [status : {"IN_PROGRESS"} \cup Ended, chunks : Nat, completed : Nat,
             processed : Nat, failed : Nat]

DocInv(d) ==
    /\ d \in DocShape
    /\ d.chunks \in {0, Cardinality(ChunksUsed)}
    /\ d.completed <= Cardinality(Settled)
    /\ d.processed <= Cardinality(Passed)
    /\ d.failed <= Cardinality(Told)
    /\ d.status = "DONE" => AllSettled
    /\ d.status \in Ended => Over \/ "declared_stale" \in faults
    /\ Uncounted => d.chunks = 0 /\ d.status # "DONE"

DocsInv == /\ DocInv(task) /\ DocInv(verdict)
           /\ \A a \in Jobs : DocInv(copy[a]) /\ (phase[a] # "save" => copy[a] = NewTask)
           /\ copy \in [Jobs -> DocShape]
           /\ "declared_stale" \notin faults => verdict = NewTask

-----------------------------------------------------------------------------
(* Where no lock expires under its holder and no poll writes.              *)

FailuresTold(c) ==
    \A i \in ItemsOf(c) :
        rows[i] = "failed" => task.failed > 0 \/ (RowWritten(c) /\ i = next[c])

\* A chunk cut off between a row and its count is never among them.
Honest == {c \in Settled : task.failed = 0 => \A i \in ItemsOf(c) : rows[i] # "failed"}

Exact == faults \cap {"lock_expires", "declared_stale"} = {}

\* Whoever changes the document is alone with it.
Alone == \A a \in Jobs : /\ Holds(a) => lock = a
                         /\ phase[a] = "save" => copy[a] = task

Reported(c) == at[c] = "failed_rows" \/ (at[c] = "submit_failed" /\ Saved(c))

ExactCounts ==
    /\ task.processed = Cardinality(Passed)
    /\ task.completed <= Cardinality(Honest)
    /\ \A c \in Chunks : at[c] # "end" => FailuresTold(c)
    /\ \A c \in Chunks : Reported(c) => task.failed > 0
    /\ task.status = "DONE" => \A i \in 1 .. total : rows[i] # "failed"

ExactInv == Exact => Alone /\ ExactCounts

Core == Shape /\ PlacesInv /\ ProgressInv

-----------------------------------------------------------------------------
(* The items of a chunk.                                                   *)

LEMMA ItemsOfChunk ==
    ASSUME Shape, NEW c \in Chunks
    PROVE  /\ ItemsOf(c) \subseteq Items
           /\ \A i \in ItemsOf(c) :
                /\ i \in 1 .. total /\ ChunkOf(i) = c /\ FirstOf(c) <= i
                /\ \A k \in FirstOf(c) .. i : k \in ItemsOf(c)
           /\ c \in ChunksUsed => FirstOf(c) \in ItemsOf(c)
<1>1. total \in Nat /\ total <= MaxActive /\ MaxActive \in Nat
    BY AttributeFillAssumption DEF Shape
<1>2. ItemsOf(c) \subseteq Items
    BY <1>1 DEF ItemsOf, Items
<1>3. ASSUME NEW i \in ItemsOf(c)
      PROVE  /\ i \in 1 .. total /\ ChunkOf(i) = c /\ FirstOf(c) <= i
             /\ \A k \in FirstOf(c) .. i : k \in ItemsOf(c)
    <2>1. i \in Items /\ i \in 1 .. total /\ ChunkOf(i) = c
        BY <1>2 DEF ItemsOf
    <2>2. FirstOf(c) <= i /\ i < FirstOf(c) + ChunkSize
        BY <2>1, ChunkOfItem
    <2>3. FirstOf(c) \in Nat /\ FirstOf(c) >= 1 /\ ChunkSize \in Nat
        BY FirstOfChunk, AttributeFillAssumption DEF Items
    <2>4. ASSUME NEW k \in FirstOf(c) .. i
          PROVE  k \in ItemsOf(c)
        <3>1. k \in Nat /\ k \in 1 .. total /\ FirstOf(c) <= k /\ k < FirstOf(c) + ChunkSize
            BY <1>1, <2>1, <2>2, <2>3
        <3> QED  BY <3>1, ChunkOfIs DEF ItemsOf
    <2> QED  BY <2>1, <2>2, <2>4
<1>4. ASSUME c \in ChunksUsed
      PROVE  FirstOf(c) \in ItemsOf(c)
    <2>1. PICK i \in 1 .. total : ChunkOf(i) = c
        BY <1>4 DEF ChunksUsed
    <2>2. i \in ItemsOf(c)
        BY <2>1 DEF ItemsOf
    <2>3. FirstOf(c) \in FirstOf(c) .. i
        BY <2>2, <1>3, <1>1, FirstOfChunk DEF Items
    <2> QED  BY <2>2, <2>3, <1>3
<1> QED
    BY <1>2, <1>3, <1>4

LEMMA ItemInChunk ==
    ASSUME Shape, NEW i \in 1 .. total
    PROVE  /\ i \in Items /\ ChunkOf(i) \in Chunks
           /\ ChunkOf(i) \in ChunksUsed /\ i \in ItemsOf(ChunkOf(i))
<1>1. i \in Items
    BY AttributeFillAssumption DEF Shape, Items
<1> QED
    BY <1>1, ChunkOfItem DEF ChunksUsed, ItemsOf

LEMMA UsedChunks ==
    ASSUME Shape
    PROVE  /\ ChunksUsed \subseteq Chunks /\ IsFiniteSet(ChunksUsed)
           /\ Cardinality(ChunksUsed) \in 0 .. ChunkCount
<1>1. ChunksUsed \subseteq Chunks
    BY ItemInChunk DEF ChunksUsed
<1>2. /\ IsFiniteSet(ChunksUsed) /\ Cardinality(ChunksUsed) <= Cardinality(Chunks)
    BY <1>1, ChunksAre, FS_Subset
<1>3. Cardinality(ChunksUsed) \in Nat
    BY <1>2, FS_CardinalityType
<1> QED
    BY <1>1, <1>2, <1>3, ChunksAre

\* A job that has reached a product outside its chunk has passed them all.
LEMMA NoneLeft ==
    ASSUME Shape, NEW c \in Chunks, next[c] >= FirstOf(c), next[c] \notin ItemsOf(c)
    PROVE  \A i \in ItemsOf(c) : i < next[c]
<1> SUFFICES ASSUME NEW i \in ItemsOf(c), ~ (i < next[c])
             PROVE  FALSE
    OBVIOUS
<1>1. next[c] \in Int /\ i \in Int /\ FirstOf(c) \in Int
    BY ItemsOfChunk, FirstOfChunk, AttributeFillAssumption DEF Shape, Items
<1>2. next[c] \in FirstOf(c) .. i
    BY <1>1
<1> QED
    BY <1>2, ItemsOfChunk

-----------------------------------------------------------------------------
(* The core: where the jobs are and what they have done.                   *)

\* What a job has done does not depend on the others: their rows are theirs.
LEMMA ProgressFrame ==
    ASSUME Shape, NEW c \in Chunks, ProgressOf(c),
           total' = total, at'[c] = at[c], Saved(c)' <=> Saved(c), next'[c] = next[c],
           result'[c] = result[c], pending'[c] = pending[c],
           \A i \in ItemsOf(c) : rows'[i] = rows[i],
           accepted \subseteq accepted'
    PROVE  ProgressOf(c)'
<1>1. ItemsOf(c)' = ItemsOf(c) /\ FirstOf(c)' = FirstOf(c) /\ PassedOf(c)' = PassedOf(c)
    BY DEF ItemsOf, PassedOf
<1>2. (Working(c)' <=> Working(c)) /\ (RowWritten(c)' <=> RowWritten(c))
    BY DEF Working, RowWritten
<1>3. Working(c) => next[c] \in ItemsOf(c)
    BY DEF ProgressOf
<1>4. RowWritten(c) => Working(c)
    BY DEF RowWritten, Working, AtWork
<1>5. \A i \in PassedOf(c) : RowIsHeld(c, i)'
    BY DEF ProgressOf, RowIsHeld, PassedOf
<1> QED
    BY <1>1, <1>2, <1>3, <1>4, <1>5 DEF ProgressOf

\* The actions a lock and the document are needed for, and the rest.
LEMMA ShapeKept ==
    ASSUME Core, Next
    PROVE  Shape'
<1> USE DEF Core, Shape, Goto, Change
<1>0. Coordinator \in Jobs /\ Chunks \subseteq Jobs
    BY DEF Jobs
<1>a. ASSUME NEW a \in Jobs, Acquire(a) \/ ReadTask(a) \/ CheckToken(a) \/ DeleteToken(a)
      PROVE  Shape'
    BY <1>a DEF Acquire, ReadTask, CheckToken, DeleteToken
<1>b. ASSUME NEW a \in Jobs, SaveTask(a), at[a] = "item_done" => a \in Chunks
      PROVE  Shape'
    <2>1. at[a] = "item_done" => next[a] \in 1 .. MaxActive
        BY <1>b, ItemsOfChunk DEF ProgressInv, ProgressOf, Working, AtWork, Saved, SaveTask, Items
    <2>2. next' \in [Chunks -> 1 .. MaxActive + 1]
        BY <1>b, <2>1, AttributeFillAssumption DEF SaveTask
    <2> QED  BY <1>b, <2>2 DEF SaveTask
<1>c. CASE CoordinatorStep
    <2>1. SaveTask(Coordinator) => Shape'
        BY <1>b, <1>0 DEF PlacesInv, CoordinatorPlaces
    <2>2. CASE Begin \/ FetchFails \/ Coordinated
        BY <2>2, <1>0 DEF Begin, FetchFails, Coordinated, Places, Changes
    <2>3. CASE Fetched
        BY <2>3, <1>0 DEF Fetched, Places, Changes
    <2>4. ASSUME NEW c \in Chunks, EnqueueChunk(c)
          PROVE  Shape'
        BY <2>4, <1>0 DEF EnqueueChunk, Places, Changes
    <2> QED  BY <1>a, <1>c, <2>1, <2>2, <2>3, <2>4, <1>0 DEF CoordinatorStep, ChangeStep
<1>d. ASSUME NEW c \in Chunks, ChunkStep(c)
      PROVE  Shape'
    <2>1. CASE StartChunk(c)
        <3>1. FirstOf(c) \in 1 .. MaxActive + 1
            BY FirstOfChunk, AttributeFillAssumption DEF Items
        <3> QED  BY <2>1, <3>1, <1>0 DEF StartChunk, Places, Changes
    <2>2. CASE NextItem(c) \/ Generated(c) \/ SaveItemRow(c)
        BY <2>2, <1>0 DEF NextItem, Generated, SaveItemRow, Places, Changes, Results
    <2>3. CASE Shaped(c)
        <3>1. next[c] \in Items
            BY <2>3, ItemsOfChunk DEF ProgressInv, ProgressOf, Working, AtWork, Shaped
        <3> QED  BY <2>3, <3>1, <1>0 DEF Shaped, Places, Changes, Results
    <2>4. CASE Submit(c) \/ SaveFailedRows(c)
        BY <2>4, <1>0 DEF Submit, SaveFailedRows, Places, Changes, Results
    <2>5. CASE Continue(c)
        <3>1. \A x \in DOMAIN Following : Following[x] \in Places
            BY DEF Following, Places
        <3>2. at[c] \in DOMAIN Following
            BY <2>5 DEF Continue
        <3>3. at' = [at EXCEPT ![c] = Following[at[c]]] /\ phase' = [phase EXCEPT ![c] = "idle"]
            BY <2>5 DEF Continue
        <3> QED  BY <2>5, <3>1, <3>2, <3>3, <1>0 DEF Continue
    <2> QED  BY <1>0, <1>a, <1>b, <1>d, <2>1, <2>2, <2>3, <2>4, <2>5 DEF ChunkStep, ChangeStep
<1>e. ASSUME NEW a \in Jobs, StoreFails(a) \/ Kill(a)
      PROVE  Shape'
    <2>1. at[a] \in {"ai_start", "ai_done"} => a \in Chunks
        BY DEF PlacesInv, CoordinatorPlaces, Jobs
    <2> QED  BY <1>e, <2>1 DEF StoreFails, Kill, LeaveLock, Places, Results
<1>f. CASE Expires \/ DeclareStale \/ SaveVerdict
    BY <1>f DEF Expires, DeclareStale, SaveVerdict
<1> QED
    BY <1>c, <1>d, <1>e, <1>f DEF Next

LEMMA PlacesKept ==
    ASSUME Core, Next
    PROVE  PlacesInv'
<1> USE DEF Core, Shape, Goto, Change, PlacesInv, CoordinatorPlaces, ChunkPlaces, Unfetched,
            Places, Changes
<1>0. Coordinator \in Jobs /\ Chunks \subseteq Jobs /\ Coordinator \notin Chunks
    BY ChunksAre DEF Jobs, Coordinator
<1>1. total' = total => ChunksUsed' = ChunksUsed
    BY DEF ChunksUsed
<1>a. ASSUME NEW a \in Jobs, ChangeStep(a)
      PROVE  at' = at /\ total' = total
    BY <1>a DEF ChangeStep, Acquire, ReadTask, SaveTask, CheckToken, DeleteToken
<1>b. ASSUME at' = at, total' = total
      PROVE  PlacesInv'
    BY <1>b, <1>1
<1>c. CASE CoordinatorStep
    <2>2. CASE Begin \/ FetchFails \/ Coordinated
        BY <2>2, <1>0, <1>1 DEF Begin, FetchFails, Coordinated
    <2>3. CASE Fetched
        BY <2>3, <1>0 DEF Fetched
    <2>4. ASSUME NEW c \in Chunks, EnqueueChunk(c)
          PROVE  PlacesInv'
        BY <2>4, <1>0, <1>1 DEF EnqueueChunk
    <2> QED  BY <1>0, <1>a, <1>b, <1>c, <2>2, <2>3, <2>4 DEF CoordinatorStep
<1>d. ASSUME NEW c \in Chunks, ChunkStep(c)
      PROVE  PlacesInv'
    <2>1. CASE StartChunk(c) \/ NextItem(c) \/ Generated(c) \/ Shaped(c) \/ SaveItemRow(c)
        BY <2>1, <1>0, <1>1 DEF StartChunk, NextItem, Generated, Shaped, SaveItemRow
    <2>2. CASE Submit(c) \/ SaveFailedRows(c)
        BY <2>2, <1>0, <1>1 DEF Submit, SaveFailedRows
    <2>3. CASE Continue(c)
        <3>1. Following[at[c]] \in {"next_item", "generate", "submit", "failed_rows", "end"}
            BY <2>3 DEF Continue, Following
        <3>2. at' = [at EXCEPT ![c] = Following[at[c]]] /\ total' = total /\ at[c] # "none"
            BY <2>3 DEF Continue, Following
        <3> QED  BY <3>1, <3>2, <1>0, <1>1
    <2> QED  BY <1>0, <1>a, <1>b, <1>d, <2>1, <2>2, <2>3 DEF ChunkStep
<1>e. ASSUME NEW a \in Jobs, StoreFails(a) \/ Kill(a)
      PROVE  PlacesInv'
    <2>1. at[a] \in {"ai_start", "ai_done"} => a \in Chunks
        BY DEF Jobs
    <2> QED  BY <1>e, <2>1, <1>0, <1>1 DEF StoreFails, Kill
<1>f. CASE Expires \/ DeclareStale \/ SaveVerdict
    BY <1>f, <1>b DEF Expires, DeclareStale, SaveVerdict
<1> QED
    BY <1>c, <1>d, <1>e, <1>f DEF Next

LEMMA BatchNotEmpty ==
    ASSUME NEW c, FlushDue(c)
    PROVE  pending[c] # {}
<1>1. Cardinality({}) = 0 /\ BatchSize \in Nat /\ BatchSize > 0
    BY FS_EmptySet, AttributeFillAssumption
<1> QED
    BY <1>1 DEF FlushDue

\* A step of the job itself.
LEMMA OwnProgress ==
    ASSUME Core, NEW c \in Chunks, ChunkStep(c), Shape'
    PROVE  ProgressOf(c)'
<1> USE DEF Core, Goto, Change
<1>0. c \in Jobs /\ ProgressOf(c) /\ c \in Int
    BY ChunksAre DEF Jobs, ProgressInv
<1>1. total' = total
    BY DEF ChunkStep, ChangeStep, Acquire, ReadTask, SaveTask, CheckToken, DeleteToken, StartChunk,
           NextItem, Generated, Shaped, SaveItemRow, Submit, SaveFailedRows, Continue
<1>2. ItemsOf(c)' = ItemsOf(c) /\ FirstOf(c)' = FirstOf(c)
    BY <1>1 DEF ItemsOf
<1>3. /\ ItemsOf(c) \subseteq Items /\ Items \subseteq Int
      /\ next[c] \in Int /\ FirstOf(c) \in Int /\ FirstOf(c) \in Items
      /\ \A i \in ItemsOf(c) : i \in Int /\ FirstOf(c) <= i
    BY ItemsOfChunk, FirstOfChunk DEF Shape, Items
<1>4. /\ at \in [Jobs -> Places \cup Changes]
      /\ phase[c] = "idle" <=> at[c] \in Places
      /\ phase \in [Jobs -> {"idle", "acquire", "read", "save", "check", "delete", "leave"}]
      /\ next \in [Chunks -> 1 .. MaxActive + 1] /\ result \in [Chunks -> Results]
      /\ pending \in [Chunks -> SUBSET Items]
      /\ rows \in [Items -> {"none", "queued", "running"} \cup Results]
    BY <1>0 DEF Shape
<1> USE DEF Places, Changes, ProgressOf, Working, RowWritten, AtWork, Saved, PassedOf, RowIsHeld
<1>a. CASE Acquire(c) \/ ReadTask(c) \/ CheckToken(c) \/ DeleteToken(c)
    <2>1. /\ Saved(c)' <=> Saved(c)
          /\ UNCHANGED <<at, next, result, pending, total, rows, accepted>>
        BY <1>a, <1>0, <1>4 DEF Acquire, ReadTask, CheckToken, DeleteToken
    <2> QED  BY <2>1, <1>0, ProgressFrame
<1>b. CASE SaveTask(c)
    <2>1. /\ at'[c] = at[c] /\ at[c] \in Changes /\ phase[c] = "save" /\ phase'[c] = "check"
          /\ next'[c] = IF at[c] = "item_done" THEN next[c] + 1 ELSE next[c]
          /\ UNCHANGED <<result, pending, rows, accepted>>
        BY <1>b, <1>0, <1>4 DEF SaveTask
    <2>2. CASE at[c] # "item_done"
        BY <1>0, <1>2, <1>3, <2>1, <2>2
    <2>3. CASE at[c] = "item_done"
        <3>1. /\ next[c] \in ItemsOf(c) /\ next'[c] = next[c] + 1 /\ ~Saved(c) /\ Saved(c)'
              /\ next[c] \in pending[c] <=> result[c] = "done"
              /\ rows[next[c]] = result[c] /\ result[c] \in Results
            BY <1>0, <1>4, <2>1, <2>3
        <3>2. PassedOf(c)' = PassedOf(c) \cup {next[c]}
            <4>1. \A i \in ItemsOf(c) : i < next[c] + 1 <=> (i < next[c] \/ i = next[c])
                BY <1>3
            <4> QED  BY <1>2, <3>1, <4>1
        <3>3. \A i \in PassedOf(c)' : RowIsHeld(c, i)'
            BY <1>0, <2>1, <3>1, <3>2
        <3>4. \A i \in FirstOf(c) .. next'[c] - 1 : i \in ItemsOf(c)
            BY <1>0, <1>3, <3>1
        <3>5. \A i \in pending[c] : i < next'[c]
            BY <1>0, <1>3, <1>4, <3>1
        <3>6. at'[c] = "item_done" /\ next'[c] >= FirstOf(c) /\ pending[c] \subseteq ItemsOf(c)
            BY <1>0, <1>3, <2>1, <2>3, <3>1
        <3> HIDE DEF PassedOf, RowIsHeld
        <3> QED  BY <1>2, <2>1, <3>1, <3>3, <3>4, <3>5, <3>6
    <2> QED  BY <2>2, <2>3
<1>c. CASE StartChunk(c)
    <2>1. /\ at[c] = "queued" /\ at'[c] = "chunk_started" /\ phase'[c] = "acquire"
          /\ next'[c] = FirstOf(c) /\ UNCHANGED <<result, pending, accepted>>
        BY <1>c, <1>0, <1>4 DEF StartChunk
    <2>2. pending[c] = {} /\ pending'[c] = {}
        BY <1>0, <2>1
    <2>3. \A i \in ItemsOf(c) : ~ (i < FirstOf(c))
        BY <1>3
    <2>4. PassedOf(c)' = {}
        BY <1>2, <2>1, <2>3
    <2>5. \A i \in FirstOf(c) .. FirstOf(c) - 1 : FALSE
        BY <1>3
    <2> HIDE DEF PassedOf, RowIsHeld
    <2> QED  BY <1>2, <1>3, <2>1, <2>2, <2>4, <2>5
<1>d. CASE NextItem(c)
    <2> USE <1>0, <1>2, <1>3, <1>4
    <2>1. at[c] = "next_item" /\ UNCHANGED <<next, pending, rows, accepted>>
        BY <1>d DEF NextItem
    <2>2. CASE FlushDue(c)
        <3>1. at'[c] = "submit_start" /\ phase'[c] = "acquire"
            BY <1>d, <2>2 DEF NextItem
        <3>2. pending[c] # {}
            BY <2>2, BatchNotEmpty
        <3> QED  BY <2>1, <3>1, <3>2
    <2>3. CASE ~FlushDue(c) /\ next[c] \notin ItemsOf(c)
        <3>1. at'[c] = "chunk_done" /\ phase'[c] = "acquire" /\ pending[c] = {}
            BY <1>d, <2>3 DEF NextItem, FlushDue
        <3> QED  BY <2>1, <2>3, <3>1
    <2>4. CASE ~FlushDue(c) /\ next[c] \in ItemsOf(c)
        <3>1. \/ at'[c] = "ai_start" /\ phase'[c] = "acquire"
              \/ at'[c] = "item_row" /\ phase'[c] = "idle" /\ result'[c] # "done"
            BY <1>d, <2>4 DEF NextItem
        <3>2. next[c] \notin pending[c]
            BY <2>1
        <3> QED  BY <2>1, <2>4, <3>1, <3>2
    <2> QED  BY <2>2, <2>3, <2>4
<1>e. CASE Generated(c)
    BY <1>e, <1>0, <1>2, <1>3, <1>4 DEF Generated
<1>f. CASE Shaped(c)
    <2>1. /\ at[c] = "ai_done" /\ at'[c] = "item_row" /\ phase'[c] = "idle"
          /\ UNCHANGED <<next, rows, accepted>>
          /\ \/ result'[c] = "done" /\ pending'[c] = pending[c] \cup {next[c]}
             \/ result'[c] = "skipped" /\ pending'[c] = pending[c]
        BY <1>f, <1>0, <1>4 DEF Shaped
    <2>2. next[c] \in ItemsOf(c) /\ next[c] \notin pending[c]
        BY <1>0, <2>1
    <2>3. \A i \in PassedOf(c)' : RowIsHeld(c, i)'
        BY <1>0, <1>2, <2>1
    <2> QED  BY <1>0, <1>2, <1>3, <2>1, <2>2, <2>3
<1>g. CASE SaveItemRow(c)
    <2>1. /\ at[c] = "item_row" /\ at'[c] = "item_done" /\ phase'[c] = "acquire"
          /\ UNCHANGED <<next, result, pending, accepted>>
          /\ rows' = [rows EXCEPT ![next[c]] = result[c]]
        BY <1>g, <1>0, <1>4 DEF SaveItemRow
    <2>2. next[c] \in ItemsOf(c) /\ next[c] \in Items
        BY <1>0, <1>3, <2>1
    <2>3. rows'[next[c]] = result[c] /\ \A i \in PassedOf(c) : rows'[i] = rows[i]
        BY <1>3, <1>4, <2>1, <2>2
    <2>4. PassedOf(c)' = PassedOf(c) /\ \A i \in PassedOf(c) : RowIsHeld(c, i)'
        BY <1>0, <1>2, <2>1, <2>3
    <2> HIDE DEF PassedOf, RowIsHeld
    <2> QED  BY <1>0, <1>2, <1>3, <2>1, <2>2, <2>3, <2>4
<1>h. CASE Submit(c)
    <2>1. /\ at[c] = "submit" /\ UNCHANGED <<next, rows, result>> /\ accepted \subseteq accepted'
          /\ \/ at'[c] = "next_item" /\ phase'[c] = "idle" /\ pending'[c] = {}
                /\ pending[c] \subseteq accepted'
             \/ at'[c] = "submit_failed" /\ phase'[c] = "acquire" /\ pending'[c] = pending[c]
        BY <1>h, <1>0, <1>4 DEF Submit
    <2>2. PassedOf(c)' = PassedOf(c) /\ \A i \in PassedOf(c) : RowIsHeld(c, i)'
        BY <1>0, <1>2, <2>1
    <2> HIDE DEF PassedOf, RowIsHeld
    <2> QED  BY <1>0, <1>2, <1>3, <2>1, <2>2
<1>i. CASE SaveFailedRows(c)
    <2>1. /\ at[c] = "failed_rows" /\ at'[c] = "next_item" /\ phase'[c] = "idle" /\ pending'[c] = {}
          /\ UNCHANGED <<next, result, accepted>>
          /\ rows' = [i \in Items |-> IF i \in pending[c] THEN "failed" ELSE rows[i]]
        BY <1>i, <1>0, <1>4 DEF SaveFailedRows
    <2>2. PassedOf(c)' = PassedOf(c) /\ \A i \in PassedOf(c) : RowIsHeld(c, i)'
        BY <1>0, <1>2, <1>3, <2>1 DEF Results
    <2> HIDE DEF PassedOf, RowIsHeld
    <2> QED  BY <1>0, <1>2, <1>3, <2>1, <2>2
<1>j. CASE Continue(c)
    <2>1. /\ Saved(c) /\ phase'[c] = "idle" /\ UNCHANGED <<next, result, pending, rows, accepted>>
          /\ \/ at[c] = "chunk_started" /\ at'[c] = "next_item"
             \/ at[c] = "ai_start" /\ at'[c] = "generate"
             \/ at[c] = "item_done" /\ at'[c] = "next_item"
             \/ at[c] = "submit_start" /\ at'[c] = "submit"
             \/ at[c] = "submit_failed" /\ at'[c] = "failed_rows"
             \/ at[c] = "chunk_done" /\ at'[c] = "end"
        BY <1>j, <1>0, <1>4 DEF Continue, Following
    <2>2. PassedOf(c)' = PassedOf(c) /\ \A i \in PassedOf(c) : RowIsHeld(c, i)'
        BY <1>0, <1>2, <2>1
    <2> HIDE DEF PassedOf, RowIsHeld
    <2> QED  BY <1>0, <1>2, <1>3, <2>1, <2>2
<1> QED
    BY <1>a, <1>b, <1>c, <1>d, <1>e, <1>f, <1>g, <1>h, <1>i, <1>j DEF ChunkStep, ChangeStep

\* No part of what a chunk job works with changes.
Unmoved(d) ==
    /\ at'[d] = at[d] /\ phase'[d] = phase[d] /\ next'[d] = next[d]
    /\ result'[d] = result[d] /\ pending'[d] = pending[d]
    /\ \A i \in ItemsOf(d) : rows'[i] = rows[i]

\* Another chunk job writes the rows of its own products.
LEMMA OthersStep ==
    ASSUME Core, NEW c \in Chunks, ChunkStep(c), NEW d \in Chunks, d # c
    PROVE  Unmoved(d) /\ accepted \subseteq accepted'
<1> USE DEF Core, Goto, Change
<1>0. c \in Jobs /\ d \in Jobs /\ ProgressOf(c)
    BY DEF Jobs, ProgressInv
<1>1. \A i \in ItemsOf(d) : i \in Items /\ i \notin ItemsOf(c)
    BY ItemsOfChunk DEF ItemsOf
<1>2. /\ rows \in [Items -> {"none", "queued", "running"} \cup Results]
      /\ at \in [Jobs -> Places \cup Changes] /\ DOMAIN phase = Jobs
      /\ DOMAIN next = Chunks /\ DOMAIN result = Chunks /\ DOMAIN pending = Chunks
    BY DEF Shape
<1>3. /\ at'[d] = at[d] /\ phase'[d] = phase[d]
      /\ next'[d] = next[d] /\ result'[d] = result[d] /\ pending'[d] = pending[d]
    <2>1. CASE ChangeStep(c)
        BY <2>1, <1>0, <1>2 DEF ChangeStep, Acquire, ReadTask, SaveTask, CheckToken, DeleteToken
    <2>2. CASE StartChunk(c) \/ NextItem(c) \/ Generated(c) \/ Shaped(c)
        BY <2>2, <1>0, <1>2 DEF StartChunk, NextItem, Generated, Shaped
    <2>3. CASE SaveItemRow(c) \/ Submit(c) \/ SaveFailedRows(c) \/ Continue(c)
        BY <2>3, <1>0, <1>2 DEF SaveItemRow, Submit, SaveFailedRows, Continue
    <2> QED  BY <2>1, <2>2, <2>3 DEF ChunkStep
<1>4. accepted \subseteq accepted'
    BY DEF ChunkStep, ChangeStep, Acquire, ReadTask, SaveTask, CheckToken, DeleteToken, StartChunk,
           NextItem, Generated, Shaped, SaveItemRow, Submit, SaveFailedRows, Continue
<1>5. \A i \in ItemsOf(d) : rows'[i] = rows[i]
    <2>1. CASE StartChunk(c)
        BY <2>1, <1>1, <1>2 DEF StartChunk
    <2>2. CASE SaveItemRow(c)
        <3>1. next[c] \in ItemsOf(c)
            BY <2>2, <1>0 DEF ProgressOf, Working, AtWork, SaveItemRow
        <3> QED  BY <2>2, <3>1, <1>1, <1>2 DEF SaveItemRow
    <2>3. CASE SaveFailedRows(c)
        <3>1. pending[c] \subseteq ItemsOf(c)
            BY <1>0 DEF ProgressOf
        <3> QED  BY <2>3, <3>1, <1>1, <1>2 DEF SaveFailedRows
    <2>4. CASE ~ (StartChunk(c) \/ SaveItemRow(c) \/ SaveFailedRows(c))
        BY <2>4 DEF ChunkStep, ChangeStep, Acquire, ReadTask, SaveTask, CheckToken, DeleteToken,
           NextItem, Generated, Shaped, Submit, Continue
    <2> QED  BY <2>1, <2>2, <2>3, <2>4
<1> QED
    BY <1>3, <1>4, <1>5 DEF Unmoved

\* Only the pages fetched change the total, before any chunk job is there.
LEMMA TotalKept ==
    ASSUME Next, ~Fetched
    PROVE  total' = total
<1>1. ASSUME NEW a, ChangeStep(a) \/ StoreFails(a) \/ Kill(a)
      PROVE  total' = total
    BY <1>1 DEF ChangeStep, Acquire, ReadTask, SaveTask, CheckToken, DeleteToken, StoreFails, Kill
<1>2. CoordinatorStep => total' = total
    BY <1>1 DEF CoordinatorStep, Begin, FetchFails, Coordinated, EnqueueChunk
<1>3. ASSUME NEW c, ChunkStep(c)
      PROVE  total' = total
    BY <1>1, <1>3 DEF ChunkStep, StartChunk, NextItem, Generated, Shaped, SaveItemRow, Submit,
                      SaveFailedRows, Continue
<1> QED
    BY <1>1, <1>2, <1>3 DEF Next, Expires, DeclareStale, SaveVerdict

\* What a step other than the fetching can do to a chunk job.
LEMMA MovesOf ==
    ASSUME Core, Next, ~Fetched, NEW d \in Chunks
    PROVE  /\ accepted \subseteq accepted'
           /\ Unmoved(d) \/ ChunkStep(d) \/ EnqueueChunk(d) \/ StoreFails(d) \/ Kill(d)
<1> USE DEF Core, Goto, Change, Unmoved
<1>0. d \in Jobs /\ d # Coordinator /\ Coordinator \in Jobs
    BY ChunksAre DEF Jobs, Coordinator
<1>1. at \in [Jobs -> Places \cup Changes] /\ DOMAIN phase = Jobs /\ DOMAIN result = Chunks
    BY DEF Shape
<1>2. at[Coordinator] # "item_done"
    BY DEF PlacesInv, CoordinatorPlaces
<1>a. CASE ChangeStep(Coordinator) \/ Begin \/ FetchFails \/ Coordinated
    BY <1>a, <1>0, <1>1, <1>2 DEF ChangeStep, Acquire, ReadTask, SaveTask, CheckToken, DeleteToken,
                                  Begin, FetchFails, Coordinated
<1>b. ASSUME NEW c \in Chunks, EnqueueChunk(c)
      PROVE  (Unmoved(d) \/ EnqueueChunk(d)) /\ accepted \subseteq accepted'
    BY <1>b, <1>0, <1>1 DEF EnqueueChunk
<1>c. ASSUME NEW a \in Jobs, StoreFails(a) \/ Kill(a)
      PROVE  (Unmoved(d) \/ StoreFails(d) \/ Kill(d)) /\ accepted \subseteq accepted'
    BY <1>c, <1>0, <1>1 DEF StoreFails, Kill
<1>d. CASE Expires \/ DeclareStale \/ SaveVerdict
    BY <1>d DEF Expires, DeclareStale, SaveVerdict
<1>e. ASSUME NEW c \in Chunks, ChunkStep(c)
      PROVE  (Unmoved(d) \/ ChunkStep(d)) /\ accepted \subseteq accepted'
    <2>1. CASE c # d
        BY <1>e, <2>1, OthersStep
    <2>2. CASE c = d
        BY <1>e, <2>2 DEF ChunkStep, ChangeStep, Acquire, ReadTask, SaveTask, CheckToken, DeleteToken,
            StartChunk, NextItem, Generated, Shaped, SaveItemRow, Submit, SaveFailedRows, Continue
    <2> QED  BY <2>1, <2>2
<1> QED
    BY <1>a, <1>b, <1>c, <1>d, <1>e DEF Next, CoordinatorStep

LEMMA ProgressKept ==
    ASSUME Core, Next, Shape'
    PROVE  ProgressInv'
<1> SUFFICES ASSUME NEW d \in Chunks
             PROVE  ProgressOf(d)'
    BY DEF ProgressInv
<1> USE DEF Core, Goto, Change
<1>0. d \in Jobs /\ d # Coordinator /\ Coordinator \in Jobs /\ ProgressOf(d)
    BY ChunksAre DEF Jobs, Coordinator, ProgressInv
<1>1. at \in [Jobs -> Places \cup Changes] /\ DOMAIN phase = Jobs /\ DOMAIN result = Chunks
    BY DEF Shape
<1>b. CASE Fetched
    <2>1. at[d] = "none" /\ at'[d] = at[d] /\ UNCHANGED <<next, result, pending, accepted>>
        BY <1>b, <1>0, <1>1 DEF Fetched, PlacesInv
    <2>2. next[d] = FirstOf(d) /\ pending[d] = {} /\ FirstOf(d) \in Int
        BY <1>0, <2>1, FirstOfChunk DEF ProgressOf, Items
    <2>3. \A i \in ItemsOf(d)' : i \in Int /\ FirstOf(d) <= i
        <3>1. \A i \in 1 .. total' : i \in Items /\ i \in Int
            BY AttributeFillAssumption DEF Shape, Items
        <3> QED  BY <3>1, ChunkOfItem DEF ItemsOf
    <2>4. PassedOf(d)' = {} /\ \A i \in FirstOf(d) .. next'[d] - 1 : FALSE
        BY <2>1, <2>2, <2>3 DEF PassedOf
    <2>5. ~Working(d)' /\ ~RowWritten(d)'
        BY <2>1 DEF Working, RowWritten, AtWork
    <2> QED  BY <2>1, <2>2, <2>4, <2>5 DEF ProgressOf
<1>c. CASE Unmoved(d) /\ ~Fetched
    BY <1>c, <1>0, MovesOf, TotalKept, ProgressFrame DEF Unmoved, Saved
<1>d. CASE EnqueueChunk(d) \/ StoreFails(d) \/ Kill(d)
    <2>1. UNCHANGED <<next, pending, total, rows, accepted>>
        BY <1>d DEF EnqueueChunk, StoreFails, Kill
    <2>2. \/ at[d] = "none" /\ at'[d] = "queued" /\ result'[d] = result[d]
          \/ at'[d] = "end" /\ at[d] # "none" /\ result'[d] = result[d]
          \/ /\ at[d] \in {"ai_start", "ai_done"} /\ phase[d] # "leave"
             /\ at'[d] = "item_row" /\ phase'[d] = "idle" /\ result'[d] = "failed"
        BY <1>d, <1>0, <1>1 DEF EnqueueChunk, StoreFails, Kill, Shape
    <2>3. ItemsOf(d)' = ItemsOf(d) /\ PassedOf(d)' = PassedOf(d)
        BY <2>1 DEF ItemsOf, PassedOf
    <2>4. \A i \in PassedOf(d) : RowIsHeld(d, i)'
        BY <2>1, <1>0 DEF ProgressOf, RowIsHeld
    <2> QED  BY <2>1, <2>2, <2>3, <2>4, <1>0 DEF ProgressOf, Working, RowWritten, AtWork
<1> QED
    BY <1>b, <1>c, <1>d, MovesOf, OwnProgress

LEMMA CoreKept ==
    ASSUME Core, [Next]_vars
    PROVE  Core'
<1>1. CASE Next
    BY <1>1, ShapeKept, PlacesKept, ProgressKept DEF Core
<1>2. CASE UNCHANGED vars
    BY <1>2 DEF vars, Core, Shape, PlacesInv, Unfetched, ProgressInv, ProgressOf, Working, RowWritten, Saved,
                PassedOf, RowIsHeld, ItemsOf, ChunksUsed
<1> QED
    BY <1>1, <1>2

LEMMA CoreHolds ==
    Init => Core
<1> SUFFICES ASSUME Init
             PROVE  Core
    OBVIOUS
<1> USE DEF Init
<1>0. Coordinator \in Jobs /\ Chunks \subseteq Jobs /\ Coordinator \notin Chunks
    BY ChunksAre DEF Jobs, Coordinator
<1>1. Shape
    <2>1. next \in [Chunks -> 1 .. MaxActive + 1]
        BY FirstOfChunk, AttributeFillAssumption DEF Items
    <2> QED  BY <2>1, AttributeFillAssumption DEF Shape, Places, Changes, Results
<1>2. PlacesInv
    BY <1>0 DEF PlacesInv, CoordinatorPlaces, ChunkPlaces, Unfetched, Places, Changes
<1>3. ASSUME NEW c \in Chunks
      PROVE  ProgressOf(c)
    <2>1. at[c] = "none" /\ next[c] = FirstOf(c) /\ pending[c] = {} /\ FirstOf(c) \in Int
        BY <1>0, FirstOfChunk DEF Items
    <2>2. PassedOf(c) = {} /\ \A i \in FirstOf(c) .. next[c] - 1 : FALSE
        BY <2>1 DEF PassedOf, ItemsOf
    <2> QED  BY <2>1, <2>2 DEF ProgressOf, Working, RowWritten, AtWork
<1> QED
    BY <1>1, <1>2, <1>3 DEF Core, ProgressInv

-----------------------------------------------------------------------------
(* What a document may have counted only grows.                            *)

\* What becomes of a batch is told or the batch grows by the current product.
LEMMA OpenShrinks ==
    ASSUME Core, Next, ~Fetched, Core', NEW c \in Chunks
    PROVE  Open(c)' \subseteq Open(c) \cup {next[c]}
<1> USE DEF Goto, Change
<1>0. c \in Jobs /\ ProgressOf(c)
    BY DEF Core, Jobs, ProgressInv
<1>1. /\ at \in [Jobs -> Places \cup Changes] /\ DOMAIN phase = Jobs /\ DOMAIN pending = Chunks
      /\ phase[c] = "idle" <=> at[c] \in Places
    BY <1>0 DEF Core, Shape
<1>a. CASE Unmoved(c)
    BY <1>a DEF Unmoved, Open, Saved
<1>b. CASE ChunkStep(c)
    <2> USE <1>0, <1>1 DEF Open, Saved
    <2>1. CASE ChangeStep(c) \/ StartChunk(c)
        BY <2>1 DEF ChangeStep, Acquire, ReadTask, SaveTask, CheckToken, DeleteToken, StartChunk
    <2>2. CASE NextItem(c) \/ Generated(c) \/ SaveItemRow(c)
        BY <2>2 DEF NextItem, Generated, SaveItemRow
    <2>3. CASE Shaped(c)
        BY <2>3 DEF Shaped
    <2>4. CASE Submit(c) \/ SaveFailedRows(c)
        BY <2>4 DEF Submit, SaveFailedRows
    <2>5. CASE Continue(c)
        BY <2>5 DEF Continue, Following
    <2> QED  BY <1>b, <2>1, <2>2, <2>3, <2>4, <2>5 DEF ChunkStep
<1>c. CASE EnqueueChunk(c) \/ StoreFails(c) \/ Kill(c)
    <2>1. /\ pending' = pending
          /\ \/ at[c] = "none" \/ at'[c] = "end"
             \/ at[c] \in {"ai_start", "ai_done"}
        BY <1>c, <1>0, <1>1 DEF EnqueueChunk, StoreFails, Kill
    <2> QED  BY <2>1, <1>0 DEF Open, ProgressOf
<1> QED
    BY <1>a, <1>b, <1>c, MovesOf

LEMMA NextGrows ==
    ASSUME Core, Next, ~Fetched, NEW c \in Chunks
    PROVE  next'[c] >= next[c] /\ next[c] \in Int
<1>0. c \in Jobs /\ ProgressOf(c)
    BY DEF Core, Jobs, ProgressInv
<1>1. next \in [Chunks -> 1 .. MaxActive + 1] /\ next[c] \in Int
    BY AttributeFillAssumption DEF Core, Shape
<1>2. CASE Unmoved(c) \/ EnqueueChunk(c) \/ StoreFails(c) \/ Kill(c)
    BY <1>1, <1>2 DEF Unmoved, EnqueueChunk, StoreFails, Kill
<1>3. CASE ChunkStep(c)
    <2>1. CASE SaveTask(c)
        BY <1>1, <2>1 DEF SaveTask
    <2>2. CASE StartChunk(c)
        BY <1>0, <1>1, <2>2 DEF StartChunk, ProgressOf
    <2>3. CASE ~ (SaveTask(c) \/ StartChunk(c))
        BY <1>1, <1>3, <2>3 DEF ChunkStep, ChangeStep, Acquire, ReadTask, CheckToken, DeleteToken,
            NextItem, Generated, Shaped, SaveItemRow, Submit, SaveFailedRows, Continue
    <2> QED  BY <2>1, <2>2, <2>3
<1> QED
    BY <1>1, <1>2, <1>3, MovesOf

LEMMA SettledStays ==
    ASSUME Core, Next, ~Fetched, NEW c \in Settled
    PROVE  c \in Settled'  /\ \A i \in ItemsOf(c) : rows'[i] = rows[i]
<1>0. c \in Chunks /\ c \in ChunksUsed /\ c \in Jobs
    BY UsedChunks DEF Core, Settled, Jobs
<1>1. ItemsOf(c)' = ItemsOf(c) /\ ChunksUsed' = ChunksUsed
    BY TotalKept DEF ItemsOf, ChunksUsed
<1>2. /\ at \in [Jobs -> Places \cup Changes] /\ DOMAIN phase = Jobs
      /\ at[c] = "end" \/ (at[c] = "chunk_done" /\ Saved(c))
      /\ phase[c] = "idle" <=> at[c] \in Places
    BY <1>0 DEF Core, Shape, Settled
<1>3. /\ at'[c] = "end" \/ (at'[c] = "chunk_done" /\ Saved(c)')
      /\ \A i \in ItemsOf(c) : rows'[i] = rows[i]
    <2>1. CASE Unmoved(c)
        BY <2>1, <1>2 DEF Unmoved, Saved
    <2>2. CASE ChunkStep(c)
        BY <2>2, <1>0, <1>2 DEF ChunkStep, ChangeStep, Acquire, ReadTask, SaveTask, CheckToken,
            DeleteToken, StartChunk, NextItem, Generated, Shaped, SaveItemRow, Submit, SaveFailedRows,
            Continue, Following, Saved, Goto, Places
    <2>3. CASE EnqueueChunk(c) \/ StoreFails(c) \/ Kill(c)
        BY <2>3, <1>0, <1>2 DEF EnqueueChunk, StoreFails, Kill, Goto
    <2> QED  BY <1>0, <2>1, <2>2, <2>3, MovesOf
<1>4. accepted \subseteq accepted'
    BY <1>0, MovesOf
<1> QED
    BY <1>0, <1>1, <1>3, <1>4 DEF Settled, RowIsTrue

LEMMA Grows ==
    ASSUME Core, Next, ~Fetched, Core'
    PROVE  /\ total' = total /\ ChunksUsed' = ChunksUsed
           /\ Passed \subseteq Passed' /\ Told \subseteq Told' /\ Settled \subseteq Settled'
           /\ AllSettled => AllSettled'
<1>1. total' = total /\ ChunksUsed' = ChunksUsed
    BY TotalKept DEF ChunksUsed
<1>2. ASSUME NEW i \in Passed
      PROVE  i \in Passed' /\ (i \in Told => i \in Told')
    <2>1. i \in 1 .. total /\ i \in Int /\ i < next[ChunkOf(i)] /\ ChunkOf(i) \in Chunks
        BY ItemInChunk DEF Core, Passed, Items
    <2>2. i \in Passed'
        <3>1. next'[ChunkOf(i)] >= next[ChunkOf(i)] /\ next[ChunkOf(i)] \in Int /\ next'[ChunkOf(i)] \in Int
            BY <2>1, NextGrows, AttributeFillAssumption DEF Core, Shape
        <3> QED  BY <1>1, <2>1, <3>1 DEF Passed
    <2>3. i # next[ChunkOf(i)]
        BY <2>1
    <2> QED  BY <2>1, <2>2, <2>3, OpenShrinks DEF Told
<1>3. Told \subseteq Told'
    BY <1>2 DEF Told
<1>4. Settled \subseteq Settled'
    BY SettledStays
<1> QED
    BY <1>1, <1>2, <1>3, <1>4 DEF AllSettled

-----------------------------------------------------------------------------
(* What the documents have counted.                                        *)

LEMMA Counted ==
    ASSUME Core
    PROVE  /\ IsFiniteSet(Passed) /\ Cardinality(Passed) \in 0 .. MaxActive
           /\ IsFiniteSet(Told) /\ Cardinality(Told) \in 0 .. MaxActive
           /\ IsFiniteSet(Settled) /\ Cardinality(Settled) \in 0 .. ChunkCount
<1>1. total \in Nat /\ total <= MaxActive /\ MaxActive \in Nat
    BY AttributeFillAssumption DEF Core, Shape
<1>2. IsFiniteSet(1 .. total) /\ Cardinality(1 .. total) <= MaxActive
    <2>1. 1 \in Int /\ total \in Int
        BY <1>1
    <2>2. /\ IsFiniteSet(1 .. total)
          /\ Cardinality(1 .. total) = IF 1 > total THEN 0 ELSE total - 1 + 1
        BY <2>1, FS_Interval
    <2> QED  BY <1>1, <2>2
<1>3. ASSUME NEW S \in SUBSET (1 .. total)
      PROVE  IsFiniteSet(S) /\ Cardinality(S) \in 0 .. MaxActive
    <2>1. IsFiniteSet(S) /\ Cardinality(S) <= Cardinality(1 .. total)
        BY <1>2, FS_Subset
    <2>2. Cardinality(S) \in Nat /\ Cardinality(1 .. total) \in Nat
        BY <1>2, <2>1, FS_CardinalityType
    <2> QED  BY <1>1, <1>2, <2>1, <2>2
<1>4. Passed \in SUBSET (1 .. total) /\ Told \in SUBSET (1 .. total)
    BY DEF Passed, Told
<1>5. Settled \in SUBSET Chunks
    BY UsedChunks DEF Core, Settled
<1>6. IsFiniteSet(Settled) /\ Cardinality(Settled) <= Cardinality(Chunks)
    BY <1>5, ChunksAre, FS_Subset
<1>7. Cardinality(Settled) \in Nat
    BY <1>6, FS_CardinalityType
<1> QED
    BY <1>3, <1>4, <1>6, <1>7, ChunksAre

CountsAreFinite ==
    /\ IsFiniteSet(Settled) /\ IsFiniteSet(Passed) /\ IsFiniteSet(Told)
    /\ Cardinality(Settled) \in Nat /\ Cardinality(Passed) \in Nat /\ Cardinality(Told) \in Nat

LEMMA CountsFinite ==
    Core => CountsAreFinite
BY Counted, ChunksAre, AttributeFillAssumption DEF CountsAreFinite

LEMMA CountsFiniteNext ==
    Core' => CountsAreFinite'
BY CountsFinite, PTL

LEMMA SmallerSet ==
    ASSUME NEW S, NEW T, S \subseteq T, IsFiniteSet(T)
    PROVE  /\ Cardinality(S) <= Cardinality(T)
           /\ Cardinality(S) \in Nat /\ Cardinality(T) \in Nat
           /\ Cardinality(S) >= Cardinality(T) => S = T
<1>1. IsFiniteSet(S) /\ Cardinality(S) <= Cardinality(T) /\ (Cardinality(T) = Cardinality(S) => T = S)
    BY FS_Subset
<1>2. Cardinality(S) \in Nat /\ Cardinality(T) \in Nat
    BY <1>1, FS_CardinalityType
<1> QED
    BY <1>1, <1>2

LEMMA OneMore ==
    ASSUME NEW S, NEW T, NEW x, S \subseteq T, x \in T, x \notin S, IsFiniteSet(T)
    PROVE  Cardinality(S) + 1 <= Cardinality(T) /\ Cardinality(S) \in Nat
<1>1. IsFiniteSet(S)
    BY FS_Subset
<1>2. Cardinality(S \cup {x}) = Cardinality(S) + 1
    BY <1>1, FS_AddElement
<1>3. S \cup {x} \subseteq T
    OBVIOUS
<1> QED
    BY <1>1, <1>2, <1>3, SmallerSet, FS_CardinalityType

LEMMA SoManyMore ==
    ASSUME NEW S, NEW T, NEW X, S \subseteq T, X \subseteq T, X \cap S = {}, IsFiniteSet(T)
    PROVE  Cardinality(S) + Cardinality(X) <= Cardinality(T) /\ Cardinality(X) \in Nat
<1>1. IsFiniteSet(S) /\ IsFiniteSet(X)
    BY FS_Subset
<1>2. Cardinality(S \cup X) = Cardinality(S) + Cardinality(X) - Cardinality(S \cap X)
    BY <1>1, FS_Union
<1>3. Cardinality(S \cap X) = 0
    <2>1. S \cap X = {}
        OBVIOUS
    <2> QED  BY <2>1, FS_EmptySet
<1>4. Cardinality(S) \in Nat /\ Cardinality(X) \in Nat
    BY <1>1, FS_CardinalityType
<1>5. Cardinality(S \cup X) <= Cardinality(T)
    BY SmallerSet
<1> QED
    BY <1>2, <1>3, <1>4, <1>5

\* The coordinator gets past the count only once.
LEMMA StaysCounted ==
    ASSUME Core, Next
    PROVE  Uncounted' => Uncounted
<1> USE DEF Uncounted, Unfetched, Saved, Goto, Change
<1>0. /\ Coordinator \in Jobs /\ Coordinator \notin Chunks
      /\ at \in [Jobs -> Places \cup Changes] /\ DOMAIN phase = Jobs
    BY ChunksAre DEF Jobs, Coordinator, Core, Shape
<1>1. CASE CoordinatorStep
    BY <1>0, <1>1 DEF CoordinatorStep, ChangeStep, Acquire, ReadTask, SaveTask, CheckToken, DeleteToken,
                      Begin, Fetched, FetchFails, Coordinated, EnqueueChunk
<1>2. ASSUME NEW c \in Chunks, ChunkStep(c)
      PROVE  at'[Coordinator] = at[Coordinator] /\ phase'[Coordinator] = phase[Coordinator]
    <2>1. c # Coordinator /\ c \in Jobs
        BY <1>0 DEF Jobs
    <2> QED  BY <1>0, <1>2, <2>1 DEF ChunkStep, ChangeStep, Acquire, ReadTask, SaveTask, CheckToken,
            DeleteToken, StartChunk, NextItem, Generated, Shaped, SaveItemRow, Submit, SaveFailedRows,
            Continue
<1>3. ASSUME NEW a \in Jobs, StoreFails(a) \/ Kill(a)
      PROVE  \/ at'[Coordinator] = at[Coordinator] /\ phase'[Coordinator] = phase[Coordinator]
             \/ at'[Coordinator] \in {"end", "item_row"}
    BY <1>0, <1>3 DEF StoreFails, Kill
<1> QED
    BY <1>1, <1>2, <1>3 DEF Next, Expires, DeclareStale, SaveVerdict

LEMMA RestStays ==
    ASSUME Core, Next, Over, Core'
    PROVE  ~Fetched /\ Over'
<1> USE DEF AtRest, Saved, Goto, Change
<1>0. /\ Coordinator \in Jobs /\ Coordinator \notin Chunks /\ Chunks \subseteq Jobs
      /\ at \in [Jobs -> Places \cup Changes]
      /\ phase \in [Jobs -> {"idle", "acquire", "read", "save", "check", "delete", "leave"}]
      /\ \A a \in Jobs : (phase[a] = "idle" <=> at[a] \in Places) /\ AtRest(a)
      /\ at[Coordinator] \in CoordinatorPlaces /\ \A c \in Chunks : at[c] \in ChunkPlaces
    BY ChunksAre DEF Jobs, Coordinator, Core, Shape, Over, PlacesInv
<1>1. ~Fetched
    BY <1>0 DEF Fetched
<1>2. \A a \in Jobs : AtRest(a)'
    <2> USE DEF Places
    <2>1. CASE CoordinatorStep
        <3>1. ~Begin /\ ~FetchFails
            BY <1>0 DEF Begin, FetchFails
        <3>2. ASSUME NEW c \in Chunks, EnqueueChunk(c)
              PROVE  FALSE
            BY <3>2 DEF EnqueueChunk, Over, AllSettled, Settled
        <3> QED  BY <1>0, <1>1, <2>1, <3>1, <3>2 DEF CoordinatorStep, ChangeStep, Acquire, ReadTask,
                 SaveTask, CheckToken, DeleteToken, Coordinated
    <2>2. ASSUME NEW c \in Chunks, ChunkStep(c)
          PROVE  \A a \in Jobs : AtRest(a)'
        BY <1>0, <2>2 DEF ChunkStep, ChangeStep, Acquire, ReadTask, SaveTask, CheckToken,
            DeleteToken, StartChunk, NextItem, Generated, Shaped, SaveItemRow, Submit, SaveFailedRows,
            Continue, Following
    <2>3. ASSUME NEW a \in Jobs, StoreFails(a) \/ Kill(a)
          PROVE  \A b \in Jobs : AtRest(b)'
        BY <1>0, <2>3 DEF StoreFails, Kill
    <2> QED  BY <1>0, <2>1, <2>2, <2>3 DEF Next, Expires, DeclareStale, SaveVerdict
<1> QED
    BY <1>1, <1>2, Grows DEF Over

\* No step takes back what a document says.
LEMMA DocStays ==
    ASSUME Core, Next, ~Fetched, Core', NEW d, DocInv(d)
    PROVE  DocInv(d)'
<1>1. /\ ChunksUsed' = ChunksUsed /\ faults' = faults
      /\ Cardinality(Settled) <= Cardinality(Settled')
      /\ Cardinality(Passed) <= Cardinality(Passed')
      /\ Cardinality(Told) <= Cardinality(Told')
      /\ AllSettled => AllSettled'
    <2>2. faults' = faults
        <3>1. ASSUME NEW a, ChangeStep(a) \/ StoreFails(a) \/ Kill(a)
              PROVE  faults' = faults
            BY <3>1 DEF ChangeStep, Acquire, ReadTask, SaveTask, CheckToken, DeleteToken, StoreFails, Kill
        <3> QED  BY <3>1 DEF Next, CoordinatorStep, Begin, Fetched, FetchFails, Coordinated, EnqueueChunk,
                 ChunkStep, StartChunk, NextItem, Generated, Shaped, SaveItemRow, Submit, SaveFailedRows,
                 Continue, Expires, DeclareStale, SaveVerdict
    <2> QED  BY <2>2, Grows, SmallerSet, CountsFiniteNext DEF CountsAreFinite
<1>2. /\ Cardinality(Settled) \in Nat /\ Cardinality(Passed) \in Nat /\ Cardinality(Told) \in Nat
      /\ Cardinality(Settled') \in Nat /\ Cardinality(Passed') \in Nat /\ Cardinality(Told') \in Nat
    BY CountsFinite, CountsFiniteNext DEF CountsAreFinite
<1>3. (Uncounted' => Uncounted) /\ (Over => Over')
    BY StaysCounted, RestStays
<1> QED
    BY <1>1, <1>2, <1>3 DEF DocInv, DocShape

LEMMA ItemCounted ==
    ASSUME NEW a, NEW e \in DocShape
    PROVE  /\ MarkItemDone(a, e) \in DocShape
           /\ MarkItemDone(a, e).processed = e.processed + 1
           /\ MarkItemDone(a, e).failed = IF result[a] = "failed" THEN e.failed + 1 ELSE e.failed
           /\ MarkItemDone(a, e).chunks = e.chunks
           /\ MarkItemDone(a, e).completed = e.completed
           /\ MarkItemDone(a, e).status = e.status
<1>1. e.processed \in Nat /\ e.failed \in Nat
    BY DEF DocShape
<1>2. PICK n \in Nat : n = e.processed + 1
    BY <1>1
<1>3. PICK m \in Nat : m = IF result[a] = "failed" THEN e.failed + 1 ELSE e.failed
    BY <1>1
<1>4. MarkItemDone(a, e) = [e EXCEPT !.processed = n, !.failed = m]
    BY <1>2, <1>3 DEF MarkItemDone
<1>5. PICK d : d = [e EXCEPT !.processed = n, !.failed = m]
    OBVIOUS
<1>6. /\ d \in DocShape /\ d.processed = n /\ d.failed = m
      /\ d.chunks = e.chunks /\ d.completed = e.completed /\ d.status = e.status
    BY <1>5 DEF DocShape
<1> QED
    BY <1>2, <1>3, <1>4, <1>5, <1>6

\* A save counts what the job has done, once.
LEMMA SaveCounts ==
    ASSUME Core, Next, Core', NEW a \in Jobs, SaveTask(a), NEW e, e = copy[a], DocInv(e),
           NEW d, d = Changed(a, e)
    PROVE  DocInv(d)'
<1>0. /\ at' = at /\ phase[a] = "save" /\ phase' = [phase EXCEPT ![a] = "check"]
      /\ UNCHANGED <<total, rows, result, pending, accepted, faults>>
      /\ next' = IF at[a] = "item_done" THEN [next EXCEPT ![a] = @ + 1] ELSE next
    BY DEF SaveTask
<1>1. ~Fetched
    BY <1>0, ChunksAre DEF Fetched, Core, Shape, Jobs, Coordinator, Change
<1>2. DocInv(e)' /\ e \in DocShape
    BY <1>1, DocStays DEF DocInv
<1>3. /\ ChunksUsed' = ChunksUsed /\ ItemsOf(a)' = ItemsOf(a) /\ Saved(a)' /\ ~Saved(a)
      /\ phase \in [Jobs -> {"idle", "acquire", "read", "save", "check", "delete", "leave"}]
    BY <1>0 DEF ChunksUsed, ItemsOf, Core, Shape, Saved
<1>4. /\ Cardinality(ChunksUsed) \in Nat /\ CountsAreFinite /\ CountsAreFinite'
    BY UsedChunks, ChunksAre, CountsFinite, CountsFiniteNext DEF Core
<1>5. /\ Coordinator \in Jobs /\ Coordinator \notin Chunks /\ (a = Coordinator \/ a \in Chunks)
      /\ \A b \in Jobs : b = Coordinator \/ b \in Chunks
      /\ at[Coordinator] \in CoordinatorPlaces /\ \A c \in Chunks : at[c] \in ChunkPlaces
      /\ \A c \in Chunks : at[c] # "none" => at[Coordinator] \in {"enqueue", "end"}
      /\ Unfetched \/ at[Coordinator] = "empty_done" => total = 0
    BY ChunksAre DEF Jobs, Coordinator, Core, PlacesInv
<1> USE DEF CoordinatorPlaces, ChunkPlaces, Places, Changes
<1>6. total = 0 => ChunksUsed = {}
    BY DEF ChunksUsed
<1>7. total = 0 => AllSettled'
    BY <1>3, <1>6 DEF AllSettled
<1>a. CASE at[a] \in {"fetch_failed", "empty_done"}
    <2>1. a = Coordinator /\ total = 0
        BY <1>5, <1>a DEF Unfetched
    <2>2. \A b \in Jobs : AtRest(b)'
        BY <1>0, <1>3, <1>5, <1>a, <2>1 DEF AtRest
    <2>3. Over'
        BY <1>7, <2>1, <2>2 DEF Over
    <2>4. \/ at[a] = "fetch_failed" /\ d = [e EXCEPT !.status = "FAILED"]
          \/ at[a] = "empty_done" /\ d = [e EXCEPT !.status = "DONE"] /\ ~Uncounted'
        BY <1>0, <1>a, <2>1 DEF Changed, Uncounted, Unfetched
    <2>5. /\ d \in DocShape /\ d.chunks = e.chunks /\ d.completed = e.completed
          /\ d.processed = e.processed /\ d.failed = e.failed
          /\ d.status = "DONE" => ~Uncounted'
        BY <1>2, <2>4 DEF DocShape, Ended
    <2> QED  BY <1>2, <1>7, <2>1, <2>3, <2>5 DEF DocInv
<1>b. CASE at[a] = "queued_all"
    <2>1. ~Uncounted'
        BY <1>0, <1>3, <1>5, <1>b DEF Uncounted, Unfetched
    <2>2. d = [e EXCEPT !.chunks = Cardinality(ChunksUsed), !.completed = 0, !.processed = 0, !.failed = 0]
        BY <1>b DEF Changed
    <2>3. /\ d \in DocShape /\ d.status = e.status /\ d.chunks = Cardinality(ChunksUsed)
          /\ d.completed = 0 /\ d.processed = 0 /\ d.failed = 0
        <3>1. PICK n \in Nat : n = Cardinality(ChunksUsed)
            BY <1>4
        <3>2. PICK z \in Nat : z = 0
            OBVIOUS
        <3>3. d = [e EXCEPT !.chunks = n, !.completed = z, !.processed = z, !.failed = z]
            BY <2>2, <3>1, <3>2
        <3>4. /\ d \in DocShape /\ d.status = e.status /\ d.chunks = n
              /\ d.completed = z /\ d.processed = z /\ d.failed = z
            BY <1>2, <3>3 DEF DocShape
        <3> QED  BY <3>1, <3>2, <3>4
    <2> QED  BY <1>2, <1>3, <1>4, <2>1, <2>3 DEF DocInv, CountsAreFinite
<1>c. CASE at[a] \notin {"fetch_failed", "empty_done", "queued_all", "item_done", "submit_failed",
                         "chunk_done"}
    <2>1. d = e
        BY <1>c DEF Changed
    <2> QED  BY <1>2, <2>1
<1>d. ASSUME at[a] \in {"item_done", "submit_failed", "chunk_done"}
      PROVE  a \in Chunks /\ ~Uncounted' /\ ProgressOf(a) /\ a \in ChunksUsed
    <2>1. a \in Chunks
        BY <1>5, <1>d
    <2> QED  BY <1>0, <1>5, <1>d, <2>1 DEF Uncounted, Unfetched, Core, ProgressInv, PlacesInv
<1>e. CASE at[a] = "item_done"
    <2>0. a \in Chunks /\ ~Uncounted' /\ ProgressOf(a)
        BY <1>d, <1>e
    <2> DEFINE i == next[a]
    <2>1. i \in ItemsOf(a) /\ (i \in pending[a] <=> result[a] = "done")
        BY <1>3, <1>e, <2>0 DEF ProgressOf, Working, RowWritten, AtWork
    <2>2. i \in 1 .. total /\ ChunkOf(i) = a /\ i \in Int
        BY <2>0, <2>1, ItemsOfChunk DEF Core, Items
    <2>3. next'[a] = i + 1
        BY <1>0, <1>e, <2>0 DEF Core, Shape
    <2>4. Passed \subseteq Passed' /\ i \in Passed' /\ i \notin Passed
        BY <1>0, <1>1, <2>2, <2>3, Grows DEF Passed
    <2>5. Cardinality(Passed) + 1 <= Cardinality(Passed')
        BY <1>4, <2>4, OneMore DEF CountsAreFinite
    <2>6. result[a] = "failed" => Cardinality(Told) + 1 <= Cardinality(Told')
        <3> SUFFICES ASSUME result[a] = "failed"
                     PROVE  Cardinality(Told) + 1 <= Cardinality(Told')
            OBVIOUS
        <3>1. i \notin Open(a)'
            BY <1>0, <2>1 DEF Open
        <3>2. Told \subseteq Told' /\ i \in Told' /\ i \notin Told
            BY <1>1, <2>2, <2>4, <3>1, Grows DEF Told
        <3> QED  BY <1>4, <3>2, OneMore DEF CountsAreFinite
    <2>7. d = MarkItemDone(a, e)
        BY <1>e DEF Changed
    <2>8. /\ e.processed <= Cardinality(Passed) /\ e.failed <= Cardinality(Told)
          /\ e.failed \in Nat /\ e.processed \in Nat
        BY <1>2 DEF DocInv, DocShape
    <2>9. /\ d.processed = e.processed + 1
          /\ d.failed = IF result[a] = "failed" THEN e.failed + 1 ELSE e.failed
          /\ d.chunks = e.chunks /\ d.completed = e.completed /\ d.status = e.status
          /\ d \in DocShape
        BY <1>2, <2>7, ItemCounted
    <2>10. d.processed <= Cardinality(Passed')
        BY <1>4, <2>5, <2>8, <2>9 DEF CountsAreFinite
    <2>11. d.failed <= Cardinality(Told')
        <3>1. e.failed <= Cardinality(Told')
            BY <1>2 DEF DocInv
        <3> QED  BY <1>4, <2>6, <2>8, <2>9, <3>1 DEF CountsAreFinite
    <2> QED  BY <1>2, <2>0, <2>9, <2>10, <2>11 DEF DocInv
<1>f. CASE at[a] = "submit_failed"
    <2>0. a \in Chunks /\ ~Uncounted' /\ ProgressOf(a)
        BY <1>d, <1>f
    <2>1. \A i \in pending[a] : i \in 1 .. total /\ ChunkOf(i) = a /\ i < next[a]
        BY <2>0, <1>f, ItemsOfChunk DEF ProgressOf, RowWritten, Core
    <2>2. next' = next /\ Open(a) = pending[a] /\ Open(a)' = {}
        BY <1>0, <1>3, <1>f DEF Open
    <2>3. pending[a] \subseteq Told' /\ pending[a] \cap Told = {}
        BY <1>0, <2>1, <2>2 DEF Told, Passed
    <2>4. /\ Cardinality(Told) + Cardinality(pending[a]) <= Cardinality(Told')
          /\ Cardinality(pending[a]) \in Nat
        BY <1>1, <1>4, <2>3, Grows, SoManyMore DEF CountsAreFinite
    <2>5. d = [e EXCEPT !.failed = @ + Cardinality(pending[a])]
        BY <1>f DEF Changed, MarkSubmitFailed
    <2>6. e.failed <= Cardinality(Told) /\ e.failed \in Nat
        BY <1>2 DEF DocInv, DocShape
    <2>7. /\ d \in DocShape /\ d.failed = e.failed + Cardinality(pending[a])
          /\ d.chunks = e.chunks /\ d.completed = e.completed /\ d.status = e.status
          /\ d.processed = e.processed
        BY <1>2, <2>4, <2>5 DEF DocShape
    <2>8. d.failed <= Cardinality(Told')
        BY <1>4, <2>4, <2>6, <2>7 DEF CountsAreFinite
    <2> QED  BY <1>2, <2>0, <2>7, <2>8 DEF DocInv
<1>g. CASE at[a] = "chunk_done"
    <2>0. a \in Chunks /\ ~Uncounted' /\ ProgressOf(a) /\ a \in ChunksUsed
        BY <1>d, <1>g
    <2>1. \A i \in ItemsOf(a) : RowIsTrue(i)
        <3>1. pending[a] = {} /\ \A i \in PassedOf(a) : RowIsHeld(a, i)
            BY <1>g, <2>0 DEF ProgressOf
        <3>2. \A i \in ItemsOf(a) : i \in PassedOf(a)
            BY <1>g, <2>0, NoneLeft DEF ProgressOf, PassedOf, Core
        <3> QED  BY <3>1, <3>2 DEF RowIsHeld, RowIsTrue
    <2>2. a \in Settled' /\ a \notin Settled
        BY <1>0, <1>3, <1>g, <2>0, <2>1 DEF Settled, RowIsTrue
    <2>3. Cardinality(Settled) + 1 <= Cardinality(Settled')
        BY <1>1, <1>4, <2>2, Grows, OneMore DEF CountsAreFinite
    <2> DEFINE f == [e EXCEPT !.completed = @ + 1]
    <2>4. d = IF f.chunks > 0 /\ f.completed >= f.chunks
              THEN [f EXCEPT !.status = IF f.failed = 0 THEN "DONE" ELSE "FAILED"] ELSE f
        BY <1>g DEF Changed, MarkChunkDone
    <2>5. e.completed <= Cardinality(Settled) /\ e.completed \in Nat
        BY <1>2 DEF DocInv, DocShape
    <2>6. /\ f \in DocShape /\ f.completed = e.completed + 1 /\ f.chunks = e.chunks
          /\ f.failed = e.failed /\ f.processed = e.processed /\ f.status = e.status
        BY <1>2 DEF DocShape
    <2> HIDE DEF f
    <2>7. f.completed <= Cardinality(Settled')
        BY <1>4, <2>3, <2>5, <2>6 DEF CountsAreFinite
    <2>8. CASE f.chunks > 0 /\ f.completed >= f.chunks
        <3>1. f.chunks = Cardinality(ChunksUsed)
            BY <1>2, <1>3, <2>6, <2>8 DEF DocInv
        <3>2. Settled' \subseteq ChunksUsed
            BY <1>3 DEF Settled
        <3>3. Cardinality(Settled') >= Cardinality(ChunksUsed)
            BY <1>4, <2>6, <2>7, <2>8, <3>1 DEF CountsAreFinite, DocShape
        <3>4. Settled' = ChunksUsed
            BY <3>2, <3>3, SmallerSet, UsedChunks DEF Core
        <3>5. AllSettled'
            BY <1>3, <3>4 DEF AllSettled
        <3>6. \A c \in Chunks : AtRest(c)'
            <4> SUFFICES ASSUME NEW c \in Chunks, at'[c] # "none"
                         PROVE  AtRest(c)'
                BY DEF AtRest
            <4>1. c \in ChunksUsed
                BY <1>0 DEF Core, PlacesInv
            <4> QED  BY <3>4, <4>1 DEF Settled, AtRest
        <3>7. AtRest(Coordinator)'
            BY <1>0, <1>5, <1>g, <2>0 DEF AtRest
        <3>8. Over'
            BY <1>5, <3>5, <3>6, <3>7 DEF Over
        <3>9. /\ d \in DocShape /\ d.completed = f.completed /\ d.chunks = f.chunks
              /\ d.failed = f.failed /\ d.processed = f.processed
            BY <2>4, <2>6 DEF DocShape, Ended
        <3> QED  BY <1>2, <2>0, <2>6, <2>7, <3>5, <3>8, <3>9 DEF DocInv
    <2>9. CASE ~ (f.chunks > 0 /\ f.completed >= f.chunks)
        BY <1>2, <2>0, <2>4, <2>6, <2>7, <2>9 DEF DocInv
    <2> QED  BY <2>8, <2>9
<1> QED
    BY <1>a, <1>b, <1>c, <1>e, <1>f, <1>g

LEMMA NewTaskFits ==
    Core => DocInv(NewTask)
<1> SUFFICES ASSUME Core
             PROVE  DocInv(NewTask)
    OBVIOUS
<1>1. NewTask \in DocShape
    BY DEF NewTask, DocShape
<1> QED
    BY <1>1, CountsFinite DEF DocInv, CountsAreFinite, NewTask, Ended

LEMMA NewTaskFitsNext ==
    Core' => DocInv(NewTask)'
BY NewTaskFits, PTL

\* Before the pages are fetched nothing has been counted, and all documents
\* but a poll's are new or in progress.
LEMMA FetchKeeps ==
    ASSUME Core, Core', Fetched, NEW d, DocInv(d)
    PROVE  DocInv(d)'
<1>0. /\ at[Coordinator] = "fetch" /\ at'[Coordinator] = "queued_all" /\ faults' = faults
      /\ phase'[Coordinator] = "acquire" /\ Coordinator \in Jobs
    BY DEF Fetched, Change, Core, Shape, Jobs
<1>1. total = 0 /\ Uncounted /\ Uncounted'
    BY <1>0 DEF Core, PlacesInv, Unfetched, Uncounted, Saved
<1>2. Passed = {} /\ Told = {} /\ Settled = {} /\ Cardinality({}) = 0
    BY <1>1, FS_EmptySet DEF Passed, Told, Settled, ChunksUsed
<1>3. ~Over
    BY <1>0 DEF Over, AtRest
<1>4. CountsAreFinite'
    BY CountsFiniteNext
<1> QED
    BY <1>0, <1>1, <1>2, <1>3, <1>4 DEF DocInv, DocShape, CountsAreFinite, Ended

LEMMA DocsKept ==
    ASSUME Core, Next, Core', DocsInv
    PROVE  DocsInv'
<1>1. PICK t : t = task
    OBVIOUS
<1>2. PICK v : v = verdict
    OBVIOUS
<1>3. PICK k : k = copy
    OBVIOUS
<1>4. DocInv(t) /\ DocInv(v) /\ k \in [Jobs -> DocShape] /\ \A b \in Jobs : DocInv(k[b])
    BY <1>1, <1>2, <1>3 DEF DocsInv
<1>5. ASSUME NEW d, DocInv(d)
      PROVE  DocInv(d)'
    BY <1>5, DocStays, FetchKeeps
<1>6. DocInv(t)' /\ DocInv(v)' /\ \A b \in Jobs : DocInv(k[b])'
    BY <1>4, <1>5
<1>7. DocInv(NewTask)' /\ NewTask \in DocShape /\ t \in DocShape
    BY <1>4, NewTaskFitsNext DEF NewTask, DocShape, DocInv
<1>8. ASSUME NEW d, DocInv(d)'
      PROVE  (task' = d => DocInv(task)') /\ (verdict' = d => DocInv(verdict)')
    BY <1>8 DEF DocInv
<1>9. ASSUME NEW f \in [Jobs -> DocShape], copy' = f, \A b \in Jobs : DocInv(f[b])'
      PROVE  copy' \in [Jobs -> DocShape] /\ \A b \in Jobs : DocInv(copy[b])'
    BY <1>9 DEF DocInv
<1>10. /\ DOMAIN phase = Jobs /\ DOMAIN at = Jobs /\ Coordinator \in Jobs /\ Chunks \subseteq Jobs
       /\ \A b \in Jobs : (phase[b] = "idle" <=> at[b] \in Places)
       /\ \A b \in Jobs : phase[b] # "save" => copy[b] = NewTask
       /\ "declared_stale" \notin faults => verdict = NewTask
    BY DEF Core, Shape, Jobs, DocsInv
<1> USE DEF Goto, Change
<1>a. ASSUME UNCHANGED <<task, verdict, copy, faults>>,
             \A b \in Jobs : phase[b] = "save" => phase'[b] = "save"
      PROVE  DocsInv'
    BY <1>a, <1>1, <1>2, <1>3, <1>4, <1>6, <1>8, <1>9, <1>10 DEF DocsInv
<1>b. ASSUME NEW a \in Jobs, Acquire(a) \/ CheckToken(a) \/ DeleteToken(a)
      PROVE  DocsInv'
    BY <1>b, <1>a, <1>10 DEF Acquire, CheckToken, DeleteToken
<1>c. ASSUME NEW a \in Jobs, ReadTask(a)
      PROVE  DocsInv'
    <2> DEFINE f == [k EXCEPT ![a] = t]
    <2>1. f \in [Jobs -> DocShape] /\ copy' = f /\ \A b \in Jobs : DocInv(f[b])'
        <3>1. f \in [Jobs -> DocShape] /\ copy' = f
            BY <1>1, <1>3, <1>4, <1>7, <1>c DEF ReadTask
        <3>2. \A b \in Jobs : f[b] = t \/ f[b] = k[b]
            BY <1>4
        <3> HIDE DEF f
        <3>3. ASSUME NEW b \in Jobs
              PROVE  DocInv(f[b])'
            BY <1>6, <3>2 DEF DocInv
        <3> QED  BY <3>1, <3>3
    <2>2. /\ task' = t /\ verdict' = v /\ faults' = faults
          /\ phase' = [phase EXCEPT ![a] = "save"]
          /\ \A b \in Jobs \ {a} : copy'[b] = copy[b]
        BY <1>1, <1>2, <1>3, <1>c, <1>4 DEF ReadTask
    <2> HIDE DEF f
    <2>3. copy' \in [Jobs -> DocShape] /\ \A b \in Jobs : DocInv(copy[b])'
        BY <1>9, <2>1
    <2> QED  BY <1>2, <1>6, <1>8, <1>10, <2>2, <2>3 DEF DocsInv
<1>d. ASSUME NEW a \in Jobs, copy' = [copy EXCEPT ![a] = NewTask], phase'[a] # "save",
             \A b \in Jobs \ {a} : phase'[b] = phase[b]
      PROVE  /\ copy' \in [Jobs -> DocShape] /\ \A b \in Jobs : DocInv(copy[b])'
             /\ \A b \in Jobs : phase'[b] # "save" => copy'[b] = NewTask
    <2> DEFINE f == [k EXCEPT ![a] = NewTask]
    <2>1. f \in [Jobs -> DocShape] /\ copy' = f
        BY <1>3, <1>4, <1>7, <1>d
    <2>2. \A b \in Jobs : f[b] = NewTask \/ f[b] = k[b]
        BY <1>4
    <2>3. \A b \in Jobs : phase'[b] # "save" => copy'[b] = NewTask
        BY <1>3, <1>4, <1>10, <1>d
    <2> HIDE DEF f
    <2>4. ASSUME NEW b \in Jobs
          PROVE  DocInv(f[b])'
        BY <1>6, <1>7, <2>2 DEF DocInv
    <2> QED  BY <1>9, <2>1, <2>3, <2>4
<1>e. ASSUME NEW a \in Jobs, SaveTask(a)
      PROVE  DocsInv'
    <2>1. PICK e : e = copy[a] /\ DocInv(e)
        BY DEF DocsInv
    <2>2. PICK d : d = Changed(a, e)
        OBVIOUS
    <2>3. DocInv(d)'
        BY <1>e, <2>1, <2>2, SaveCounts
    <2>4. /\ task' = d /\ verdict' = v /\ faults' = faults /\ copy' = [copy EXCEPT ![a] = NewTask]
          /\ phase' = [phase EXCEPT ![a] = "check"]
        BY <1>2, <1>e, <2>1, <2>2 DEF SaveTask
    <2>5. phase'[a] # "save" /\ \A b \in Jobs \ {a} : phase'[b] = phase[b]
        BY <2>4, <1>10
    <2> QED  BY <1>2, <1>6, <1>8, <1>10, <1>d, <2>3, <2>4, <2>5 DEF DocsInv
<1>f. CASE CoordinatorStep
    <2>1. CASE Begin
        <3>1. /\ task' = NewTask /\ UNCHANGED <<verdict, copy, faults>>
              /\ phase' = [phase EXCEPT ![Coordinator] = "idle"]
              /\ phase[Coordinator] = "idle"
            BY <2>1, <1>10 DEF Begin, Places
        <3>2. DocInv(task)' /\ DocInv(verdict)'
            BY <1>2, <1>6, <1>8, <1>7, <3>1
        <3>3. copy' \in [Jobs -> DocShape] /\ \A b \in Jobs : DocInv(copy[b])'
            BY <1>3, <1>4, <1>6, <1>9, <3>1
        <3> QED  BY <1>10, <3>1, <3>2, <3>3 DEF DocsInv
    <2>2. CASE Fetched \/ FetchFails \/ Coordinated
        BY <2>2, <1>a, <1>10 DEF Fetched, FetchFails, Coordinated, Places
    <2>3. ASSUME NEW c \in Chunks, EnqueueChunk(c)
          PROVE  DocsInv'
        BY <2>3, <1>a, <1>10 DEF EnqueueChunk
    <2> QED  BY <1>10, <1>b, <1>c, <1>e, <1>f, <2>1, <2>2, <2>3 DEF CoordinatorStep, ChangeStep
<1>g. ASSUME NEW c \in Chunks, ChunkStep(c)
      PROVE  DocsInv'
    <2>1. CASE StartChunk(c) \/ NextItem(c) \/ Generated(c) \/ Shaped(c) \/ SaveItemRow(c)
        BY <2>1, <1>a, <1>10 DEF StartChunk, NextItem, Generated, Shaped, SaveItemRow, Places
    <2>2. CASE Submit(c) \/ SaveFailedRows(c) \/ Continue(c)
        BY <2>2, <1>a, <1>10 DEF Submit, SaveFailedRows, Continue, Places
    <2> QED  BY <1>10, <1>b, <1>c, <1>e, <1>g, <2>1, <2>2 DEF ChunkStep, ChangeStep
<1>h. ASSUME NEW a \in Jobs, StoreFails(a) \/ Kill(a)
      PROVE  DocsInv'
    <2>1. /\ UNCHANGED <<task, verdict, faults>> /\ copy' = [copy EXCEPT ![a] = NewTask]
          /\ phase' = [phase EXCEPT ![a] = "idle"]
        BY <1>h DEF StoreFails, Kill, LeaveLock
    <2>2. phase'[a] # "save" /\ \A b \in Jobs \ {a} : phase'[b] = phase[b]
        BY <2>1, <1>10
    <2> QED  BY <1>1, <1>2, <1>6, <1>8, <1>10, <1>d, <2>1, <2>2 DEF DocsInv
<1>i. CASE Expires
    BY <1>i, <1>a DEF Expires
<1>j. CASE DeclareStale
    <2>1. PICK d : d = [t EXCEPT !.status = "FAILED"]
        OBVIOUS
    <2>2. /\ verdict' = d /\ UNCHANGED <<task, copy, phase, faults>> /\ "declared_stale" \in faults
        BY <1>j, <1>1, <2>1 DEF DeclareStale
    <2>3. DocInv(d)'
        <3>1. /\ d \in DocShape /\ d.status = "FAILED" /\ d.chunks = t.chunks
              /\ d.completed = t.completed /\ d.processed = t.processed /\ d.failed = t.failed
            BY <1>7, <2>1 DEF DocShape, Ended
        <3> QED  BY <1>6, <2>2, <3>1 DEF DocInv
    <2> QED  BY <1>1, <1>3, <1>4, <1>6, <1>8, <1>9, <1>10, <2>2, <2>3 DEF DocsInv
<1>k. CASE SaveVerdict
    <2>1. /\ task' = v /\ verdict' = NewTask /\ UNCHANGED <<copy, phase, faults>>
        BY <1>k, <1>2 DEF SaveVerdict
    <2> QED  BY <1>3, <1>4, <1>6, <1>7, <1>8, <1>9, <1>10, <2>1 DEF DocsInv
<1> QED
    BY <1>f, <1>g, <1>h, <1>i, <1>j, <1>k DEF Next

-----------------------------------------------------------------------------
(* The theorems that hold in every environment.                            *)

FillInv == Core /\ DocsInv

LEMMA FillHolds ==
    Init => FillInv
<1> SUFFICES ASSUME Init
             PROVE  FillInv
    OBVIOUS
<1>1. Core /\ DocInv(NewTask) /\ NewTask \in DocShape
    BY CoreHolds, NewTaskFits DEF DocInv
<1>2. /\ task = NewTask /\ verdict = NewTask /\ copy = [a \in Jobs |-> NewTask]
    BY DEF Init
<1>3. DocInv(task) /\ DocInv(verdict) /\ \A a \in Jobs : DocInv(copy[a])
    BY <1>1, <1>2 DEF DocInv
<1> QED
    BY <1>1, <1>2, <1>3 DEF FillInv, DocsInv

LEMMA FillKept ==
    FillInv /\ [Next]_vars => FillInv'
<1> SUFFICES ASSUME FillInv, [Next]_vars
             PROVE  FillInv'
    OBVIOUS
<1>1. Core'
    BY CoreKept DEF FillInv
<1>2. CASE Next
    BY <1>1, <1>2, DocsKept DEF FillInv
<1>3. CASE UNCHANGED vars
    BY <1>1, <1>3 DEF FillInv, DocsInv, DocInv, vars, Uncounted, Unfetched, Saved, Over, AtRest, AllSettled,
        Settled, Told, Open, Passed, ChunksUsed, ItemsOf, RowIsTrue
<1> QED
    BY <1>2, <1>3

THEOREM FillInvariant == Spec => []FillInv
BY FillHolds, FillKept, PTL DEF Spec

\* A document that counts no more than there is, is a document as declared.
LEMMA DocFits ==
    ASSUME Core, NEW d, DocInv(d)
    PROVE  d \in Doc
<1>1. /\ Cardinality(ChunksUsed) \in 0 .. ChunkCount /\ Cardinality(Settled) \in 0 .. ChunkCount
      /\ Cardinality(Passed) \in 0 .. MaxActive /\ Cardinality(Told) \in 0 .. MaxActive
      /\ ChunkCount \in Nat /\ Chunks = 1 .. ChunkCount /\ MaxActive \in Nat
    BY UsedChunks, Counted, ChunksAre, AttributeFillAssumption DEF Core
<1>2. /\ d \in DocShape /\ d.chunks \in {0, Cardinality(ChunksUsed)}
      /\ d.completed <= Cardinality(Settled) /\ d.processed <= Cardinality(Passed)
      /\ d.failed <= Cardinality(Told)
    BY DEF DocInv
<1>3. /\ d.status \in {"IN_PROGRESS"} \cup Ended
      /\ d.chunks \in Nat /\ d.completed \in Nat /\ d.processed \in Nat /\ d.failed \in Nat
      /\ d = [status |-> d.status, chunks |-> d.chunks, completed |-> d.completed,
              processed |-> d.processed, failed |-> d.failed]
    BY <1>2 DEF DocShape
<1>4. /\ d.chunks \in Chunks \cup {0} /\ d.completed \in Chunks \cup {0}
      /\ d.processed \in Items \cup {0} /\ d.failed \in 0 .. 2 * MaxActive
    BY <1>1, <1>2, <1>3 DEF Items
<1> QED
    BY <1>3, <1>4 DEF Doc

\* Type correctness, in every environment: no count exceeds what there is to
\* count, however many saves are lost and however the polls interfere.
THEOREM TypeCorrect == Spec => []TypeOK
<1>1. FillInv => TypeOK
    <2> SUFFICES ASSUME FillInv
                 PROVE  TypeOK
        OBVIOUS
    <2>1. Core /\ Shape
        BY DEF FillInv, Core
    <2>2. task \in Doc /\ verdict \in Doc /\ \A a \in Jobs : copy[a] \in Doc
        BY <2>1, DocFits DEF FillInv, DocsInv
    <2>3. copy \in [Jobs -> Doc]
        BY <2>2 DEF FillInv, DocsInv
    <2> QED  BY <2>1, <2>2, <2>3 DEF TypeOK, Shape
<1> QED
    BY <1>1, FillInvariant, PTL

LEMMA SettledIsTrue ==
    ASSUME Core, AllSettled
    PROVE  \A i \in 1 .. total : RowIsTrue(i)
BY ItemInChunk DEF Core, AllSettled, Settled

\* A task that its own jobs have ended (_mutate_task_state in
\* attribute_fill_service.py) has been through all its products and its rows
\* are true: also where locks expire, calls fail and jobs are cut off.
THEOREM EndsTruly == Spec => []JobsEndTruly
<1>1. FillInv => JobsEndTruly
    BY SettledIsTrue DEF FillInv, DocsInv, DocInv, JobsEndTruly, EndedMeansProcessed, Over
<1> QED
    BY <1>1, FillInvariant, PTL

\* The same of every task shown as DONE, although a poll may have declared
\* the task stale meanwhile.
THEOREM DoneIsProcessed == Spec => []DoneMeansProcessed
<1>1. FillInv => DoneMeansProcessed
    BY SettledIsTrue DEF FillInv, DocsInv, DocInv, DoneMeansProcessed
<1> QED
    BY <1>1, FillInvariant, PTL

\* Without a poll, no late save of a job takes a verdict back.
THEOREM VerdictStays == Spec => VerdictIsFinal
<1>1. ASSUME FillInv, [Next]_vars, task.status \in Ended, "declared_stale" \notin faults
      PROVE  task' = task
    <2>1. Over /\ verdict = NewTask
        BY <1>1 DEF FillInv, DocsInv, DocInv
    <2>2. /\ Coordinator \in Jobs /\ Chunks \subseteq Jobs
          /\ \A a \in Jobs : AtRest(a)
          /\ \A a \in Jobs : (phase[a] = "idle" <=> at[a] \in Places)
        BY <1>1, <2>1 DEF Over, Jobs, FillInv, Core, Shape
    <2>3. ASSUME NEW a \in Jobs
          PROVE  ~SaveTask(a)
        BY <2>2 DEF SaveTask, AtRest, Saved, Places
    <2>4. ~Begin /\ ~SaveVerdict
        BY <2>1, <2>2 DEF Begin, AtRest, SaveVerdict
    <2>5. ASSUME NEW a \in Jobs, ChangeStep(a)
          PROVE  task' = task
        BY <2>3, <2>5 DEF ChangeStep, Acquire, ReadTask, CheckToken, DeleteToken
    <2>6. CASE CoordinatorStep
        BY <2>2, <2>4, <2>5, <2>6 DEF CoordinatorStep, Fetched, FetchFails, Coordinated, EnqueueChunk
    <2>7. ASSUME NEW c \in Chunks, ChunkStep(c)
          PROVE  task' = task
        <3>1. CASE ChangeStep(c)
            BY <2>2, <2>5, <3>1
        <3>2. CASE ~ChangeStep(c)
            BY <2>7, <3>2 DEF ChunkStep, StartChunk, NextItem, Generated, Shaped, SaveItemRow, Submit,
                SaveFailedRows, Continue
        <3> QED  BY <3>1, <3>2
    <2>8. CASE Next
        BY <2>4, <2>6, <2>7, <2>8 DEF Next, StoreFails, Kill, Expires, DeclareStale
    <2> QED  BY <1>1, <2>8 DEF vars
<1>2. FillInv /\ [Next]_vars => [task.status \in Ended /\ "declared_stale" \notin faults => task' = task]_vars
    BY <1>1
<1> QED
    BY <1>2, FillInvariant, PTL DEF Spec, VerdictIsFinal

-----------------------------------------------------------------------------
(* Where no lock expires under its holder and no poll writes.              *)

LEMMA AloneKept ==
    ASSUME FillInv, Next, Core', Exact, Alone
    PROVE  Alone'
<1>0. /\ lock \in Jobs \cup {Free} /\ Free \notin Jobs
      /\ DOMAIN phase = Jobs /\ DOMAIN at = Jobs /\ DOMAIN copy = Jobs
      /\ \A a \in Jobs : (phase[a] = "idle" <=> at[a] \in Places)
      /\ Coordinator \in Jobs /\ Chunks \subseteq Jobs
    BY FreeAssumption DEF FillInv, Core, Shape, Jobs, DocsInv
<1>1. verdict = NewTask /\ "lock_expires" \notin faults
    BY DEF Exact, FillInv, DocsInv
<1> USE DEF Alone, Holds, Goto, Change
<1>a. ASSUME UNCHANGED <<task, lock, copy>>,
             \A a \in Jobs : phase'[a] = phase[a] \/ phase'[a] \in {"idle", "acquire"}
      PROVE  Alone'
    BY <1>a
<1>b. ASSUME NEW a \in Jobs, ChangeStep(a)
      PROVE  Alone'
    <2>1. CASE Acquire(a)
        <3>1. \A b \in Jobs : ~Holds(b)
            BY <1>0, <2>1 DEF Acquire
        <3> QED  BY <1>0, <2>1, <3>1 DEF Acquire
    <2>2. CASE ReadTask(a)
        BY <1>0, <2>2 DEF ReadTask
    <2>3. CASE SaveTask(a)
        <3>1. \A b \in Jobs : b # a => ~Holds(b)
            BY <2>3 DEF SaveTask
        <3> QED  BY <1>0, <2>3, <3>1 DEF SaveTask
    <2>4. CASE CheckToken(a)
        BY <1>0, <2>4 DEF CheckToken
    <2>5. CASE DeleteToken(a)
        BY <1>0, <2>5 DEF DeleteToken
    <2> QED  BY <1>b, <2>1, <2>2, <2>3, <2>4, <2>5 DEF ChangeStep
<1>c. CASE CoordinatorStep
    <2>1. CASE Begin
        <3>1. at[Coordinator] = "queued" /\ \A c \in Chunks : at[c] = "none"
            BY <2>1 DEF Begin, FillInv, Core, PlacesInv
        <3>2. \A b \in Jobs : phase[b] = "idle"
            BY <1>0, <3>1 DEF Places, Jobs
        <3> QED  BY <1>0, <2>1, <3>2 DEF Begin
    <2>2. CASE Fetched \/ FetchFails \/ Coordinated \/ \E c \in Chunks : EnqueueChunk(c)
        BY <1>0, <1>a, <2>2 DEF Fetched, FetchFails, Coordinated, EnqueueChunk
    <2> QED  BY <1>0, <1>b, <1>c, <2>1, <2>2 DEF CoordinatorStep
<1>d. ASSUME NEW c \in Chunks, ChunkStep(c)
      PROVE  Alone'
    <2>1. CASE StartChunk(c) \/ NextItem(c) \/ Generated(c) \/ Shaped(c) \/ SaveItemRow(c)
        BY <1>0, <1>a, <2>1 DEF StartChunk, NextItem, Generated, Shaped, SaveItemRow
    <2>2. CASE Submit(c) \/ SaveFailedRows(c) \/ Continue(c)
        BY <1>0, <1>a, <2>2 DEF Submit, SaveFailedRows, Continue
    <2> QED  BY <1>0, <1>b, <1>d, <2>1, <2>2 DEF ChunkStep
<1>e. ASSUME NEW a \in Jobs, StoreFails(a) \/ Kill(a)
      PROVE  Alone'
    <2>1. /\ task' = task /\ phase' = [phase EXCEPT ![a] = "idle"] /\ copy' = [copy EXCEPT ![a] = NewTask]
          /\ lock' = lock \/ lock = a
        BY <1>e DEF StoreFails, Kill, LeaveLock
    <2> QED  BY <1>0, <2>1
<1>f. CASE Expires
    BY <1>0, <1>1, <1>f DEF Expires
<1>g. CASE DeclareStale \/ SaveVerdict
    BY <1>1, <1>g DEF DeclareStale, SaveVerdict, Exact
<1> QED
    BY <1>c, <1>d, <1>e, <1>f, <1>g DEF Next

LEMMA ChunksApart ==
    /\ Coordinator \in Jobs /\ Coordinator \notin Chunks /\ Chunks \subseteq Jobs
    /\ \A a \in Jobs : a = Coordinator \/ a \in Chunks
BY ChunksAre DEF Jobs, Coordinator

\* Nothing is passed before the chunk jobs are there.
LEMMA NothingPassed ==
    ASSUME Core, \A c \in Chunks : at[c] = "none"
    PROVE  Passed = {} /\ Told = {} /\ Cardinality({}) = 0
<1> SUFFICES Passed = {}
    BY FS_EmptySet DEF Told
<1> SUFFICES ASSUME NEW i \in 1 .. total, i < next[ChunkOf(i)]
             PROVE  FALSE
    BY DEF Passed
<1>1. i \in Items /\ ChunkOf(i) \in Chunks
    BY ItemInChunk DEF Core
<1>2. next[ChunkOf(i)] = FirstOf(ChunkOf(i))
    BY <1>1 DEF Core, ProgressInv, ProgressOf
<1>3. FirstOf(ChunkOf(i)) <= i /\ FirstOf(ChunkOf(i)) \in Int /\ i \in Int
    BY <1>1, ChunkOfItem, FirstOfChunk DEF Items
<1> QED
    BY <1>2, <1>3

\* What a step can do to the document, and that a failure stays counted.
LEMMA DocumentSteps ==
    ASSUME FillInv, Next, Core', DocsInv', Exact, Alone
    PROVE  /\ \/ task' = task /\ \A a \in Jobs : ~SaveTask(a)
              \/ Begin
              \/ \E a \in Jobs : SaveTask(a) /\ task' = Changed(a, task)
           /\ task'.failed >= task.failed /\ task.failed \in Nat /\ task'.failed \in Nat
<1>0. verdict = NewTask /\ task.failed \in Nat /\ task'.failed \in Nat /\ task \in DocShape
    BY DEF Exact, FillInv, DocsInv, DocInv, DocShape
<1>1. ASSUME NEW a \in Jobs, SaveTask(a)
      PROVE  task' = Changed(a, task)
    BY <1>1 DEF SaveTask, Alone
<1>2. ASSUME \A a \in Jobs : ~SaveTask(a), ~Begin
      PROVE  task' = task
    <2>1. ASSUME NEW a \in Jobs, ChangeStep(a)
          PROVE  task' = task
        BY <1>2, <2>1 DEF ChangeStep, Acquire, ReadTask, CheckToken, DeleteToken
    <2>2. CASE CoordinatorStep
        BY <1>2, <2>1, <2>2, ChunksApart DEF CoordinatorStep, Fetched, FetchFails, Coordinated, EnqueueChunk
    <2>3. ASSUME NEW c \in Chunks, ChunkStep(c)
          PROVE  task' = task
        <3>1. CASE ChangeStep(c)
            BY <2>1, <3>1, ChunksApart
        <3>2. CASE ~ChangeStep(c)
            BY <2>3, <3>2 DEF ChunkStep, StartChunk, NextItem, Generated, Shaped, SaveItemRow, Submit,
                SaveFailedRows, Continue
        <3> QED  BY <3>1, <3>2
    <2> QED  BY <1>0, <2>2, <2>3 DEF Next, StoreFails, Kill, Expires, DeclareStale, SaveVerdict
<1>3. ASSUME at[Coordinator] \in {"queued", "queued_all"}
      PROVE  task.failed = 0
    <2>1. \A c \in Chunks : at[c] = "none"
        BY <1>3 DEF FillInv, Core, PlacesInv
    <2>2. task.failed <= Cardinality(Told) /\ Told = {} /\ Cardinality({}) = 0
        BY <2>1, NothingPassed DEF FillInv, DocsInv, DocInv
    <2> QED  BY <1>0, <2>2
<1>4. task'.failed >= task.failed
    <2>1. CASE Begin
        BY <1>0, <1>3, <2>1 DEF Begin
    <2>2. ASSUME NEW a \in Jobs, SaveTask(a)
          PROVE  task'.failed >= task.failed
        <3>1. task' = Changed(a, task)
            BY <1>1, <2>2
        <3>2. CASE at[a] = "queued_all"
            <4>1. a = Coordinator
                BY <3>2, ChunksApart DEF FillInv, Core, PlacesInv, ChunkPlaces, Changes, Places
            <4> QED  BY <1>0, <1>3, <3>2, <4>1
        <3>3. CASE at[a] = "item_done"
            BY <1>0, <3>1, <3>3, ItemCounted DEF Changed
        <3>4. CASE at[a] = "submit_failed"
            <4>1. pending[a] \subseteq Items /\ Items = 1 .. MaxActive /\ MaxActive \in Nat
                <5>1. a \in Chunks
                    BY <3>4, ChunksApart DEF FillInv, Core, PlacesInv, CoordinatorPlaces
                <5> QED  BY <5>1, AttributeFillAssumption DEF FillInv, Core, Shape, Items
            <4>2. Cardinality(pending[a]) \in Nat
                <5>1. IsFiniteSet(Items)
                    BY <4>1, FS_Interval
                <5> QED  BY <4>1, <5>1, FS_Subset, FS_CardinalityType
            <4> QED  BY <1>0, <3>1, <3>4, <4>2 DEF Changed, MarkSubmitFailed, DocShape
        <3>5. CASE at[a] = "chunk_done"
            BY <1>0, <3>1, <3>5 DEF Changed, MarkChunkDone, DocShape
        <3>6. CASE at[a] \in {"fetch_failed", "empty_done"}
            BY <1>0, <3>1, <3>6 DEF Changed, DocShape
        <3>7. CASE at[a] \notin {"fetch_failed", "empty_done", "queued_all", "item_done", "submit_failed",
                                 "chunk_done"}
            BY <1>0, <3>1, <3>7 DEF Changed
        <3> QED  BY <3>2, <3>3, <3>4, <3>5, <3>6, <3>7
    <2>3. CASE ~Begin /\ \A a \in Jobs : ~SaveTask(a)
        BY <1>0, <1>2, <2>3
    <2> QED  BY <2>1, <2>2, <2>3
<1> QED
    BY <1>0, <1>1, <1>2, <1>4

NoneBegun == \A c \in Chunks : at[c] = "none"

LEMMA NothingPassedIf ==
    Core /\ NoneBegun => Passed = {}
BY NothingPassed DEF NoneBegun

LEMMA NothingPassedNext ==
    Core' /\ NoneBegun' => (Passed = {})'
BY NothingPassedIf, PTL

\* While the coordinator works, there are no chunk jobs.
LEMMA NoChunkJobs ==
    ASSUME FillInv, Next, Core', at[Coordinator] \notin {"enqueue", "end"}
    PROVE  /\ \A c \in Chunks : at[c] = "none"
           /\ at'[Coordinator] # "enqueue" => \A c \in Chunks : at'[c] = "none"
           /\ Passed = {} /\ Settled = {} /\ Honest = {} /\ Cardinality({}) = 0
           /\ Passed' = {}
<1>1. \A c \in Chunks : at[c] = "none"
    BY DEF FillInv, Core, PlacesInv
<1>2. Passed = {} /\ Cardinality({}) = 0
    BY <1>1, NothingPassed DEF FillInv
<1>3. Settled = {} /\ Honest = {}
    BY <1>1, UsedChunks DEF Settled, Honest, FillInv, Core
<1>4. \A c \in Chunks : at'[c] = "none"
    <2> SUFFICES ASSUME NEW c \in Chunks
                 PROVE  at'[c] = "none"
        OBVIOUS
    <2>0. at[c] = "none" /\ c \in Jobs /\ c # Coordinator /\ phase[c] = "idle"
          /\ at \in [Jobs -> Places \cup Changes]
        BY <1>1, ChunksApart DEF FillInv, Core, Shape, Places
    <2>1. CASE Fetched
        BY <2>0, <2>1 DEF Fetched, Change
    <2>2. CASE Unmoved(c)
        BY <2>0, <2>2 DEF Unmoved
    <2>3. ~ChunkStep(c)
        BY <2>0 DEF ChunkStep, ChangeStep, Acquire, ReadTask, SaveTask, CheckToken, DeleteToken,
            StartChunk, NextItem, Generated, Shaped, SaveItemRow, Submit, SaveFailedRows, Continue
    <2>4. ~EnqueueChunk(c) /\ ~StoreFails(c) /\ ~Kill(c)
        BY <2>0 DEF EnqueueChunk, StoreFails, Kill
    <2> QED  BY <2>1, <2>2, <2>3, <2>4, MovesOf DEF FillInv
<1>5. Passed' = {}
    BY <1>4, NothingPassedNext DEF NoneBegun
<1> QED
    BY <1>1, <1>2, <1>3, <1>4, <1>5

LEMMA PassedSame ==
    ASSUME Core, Next, ~Fetched, \A a \in Chunks : SaveTask(a) => at[a] # "item_done"
    PROVE  Passed' = Passed
<1>1. ASSUME NEW c \in Chunks
      PROVE  next'[c] = next[c]
    <2>1. CASE SaveTask(c)
        BY <2>1 DEF SaveTask
    <2>2. CASE StartChunk(c)
        BY <2>2, ChunksApart DEF StartChunk, Core, Shape, ProgressInv, ProgressOf
    <2>3. CASE ~SaveTask(c) /\ ~StartChunk(c) /\ ChunkStep(c)
        BY <2>3 DEF ChunkStep, ChangeStep, Acquire, ReadTask, CheckToken, DeleteToken,
            NextItem, Generated, Shaped, SaveItemRow, Submit, SaveFailedRows, Continue
    <2>4. CASE Unmoved(c) \/ EnqueueChunk(c) \/ StoreFails(c) \/ Kill(c)
        BY <2>4 DEF Unmoved, EnqueueChunk, StoreFails, Kill
    <2> QED  BY <2>1, <2>2, <2>3, <2>4, MovesOf
<1>2. \A i \in 1 .. total : ChunkOf(i) \in Chunks
    BY ItemInChunk DEF Core
<1> QED
    BY <1>1, <1>2, TotalKept DEF Passed

\* The count of products is exact.
LEMMA ProcessedKept ==
    ASSUME FillInv, Next, Core', DocsInv', Exact, Alone, ExactCounts
    PROVE  task'.processed = Cardinality(Passed')
<1>0. /\ task.processed = Cardinality(Passed) /\ task \in DocShape
      /\ CountsAreFinite /\ CountsAreFinite'
    BY CountsFinite, CountsFiniteNext DEF ExactCounts, FillInv, DocsInv, DocInv
<1>1. CASE at[Coordinator] \notin {"enqueue", "end"}
    <2>1. Passed = {} /\ Passed' = {} /\ Cardinality({}) = 0 /\ \A c \in Chunks : at[c] = "none"
        BY <1>1, NoChunkJobs
    <2>2. CASE task' = task \/ Begin
        BY <1>0, <2>1, <2>2 DEF Begin, NewTask
    <2>3. ASSUME NEW a \in Jobs, SaveTask(a), task' = Changed(a, task)
          PROVE  task'.processed = 0
        <3>1. a = Coordinator
            BY <2>1, <2>3, ChunksApart DEF SaveTask, FillInv, Core, Shape, Places
        <3>2. at[a] \in CoordinatorPlaces
            BY <3>1 DEF FillInv, Core, PlacesInv
        <3> QED  BY <1>0, <2>1, <2>3, <3>2 DEF Changed, CoordinatorPlaces, DocShape
    <2> QED  BY <2>1, <2>2, <2>3, DocumentSteps
<1>2. CASE at[Coordinator] \in {"enqueue", "end"}
    <2>1. ~Fetched /\ ~Begin
        BY <1>2 DEF Fetched, Begin
    <2>2. CASE task' = task /\ \A a \in Jobs : ~SaveTask(a)
        BY <1>0, <2>1, <2>2, PassedSame, ChunksApart DEF FillInv
    <2>3. ASSUME NEW a \in Jobs, SaveTask(a), task' = Changed(a, task)
          PROVE  task'.processed = Cardinality(Passed')
        <3>1. a \in Chunks /\ ProgressOf(a) /\ at[a] \in ChunkPlaces
            BY <1>2, <2>3, ChunksApart DEF SaveTask, FillInv, Core, Shape, Places, ProgressInv, PlacesInv
        <3>2. CASE at[a] = "item_done"
            <4>1. next[a] \in ItemsOf(a)
                BY <2>3, <3>1, <3>2 DEF ProgressOf, Working, AtWork, Saved, SaveTask
            <4>2. next[a] \in 1 .. total /\ ChunkOf(next[a]) = a /\ next[a] \in Int
                BY <3>1, <4>1, ItemsOfChunk DEF FillInv, Core, Items
            <4>3. next' = [next EXCEPT ![a] = @ + 1] /\ total' = total
                BY <2>3, <3>2 DEF SaveTask
            <4>4. Passed' = Passed \cup {next[a]} /\ next[a] \notin Passed
                <5>1. ASSUME NEW i \in 1 .. total
                      PROVE  i < next'[ChunkOf(i)] <=> (i < next[ChunkOf(i)] \/ i = next[a])
                    <6>1. ChunkOf(i) \in Chunks /\ i \in Int
                        BY ItemInChunk DEF FillInv, Core, Items
                    <6>2. CASE ChunkOf(i) = a
                        BY <3>1, <4>2, <4>3, <6>1, <6>2 DEF FillInv, Core, Shape
                    <6>3. CASE ChunkOf(i) # a
                        BY <3>1, <4>2, <4>3, <6>1, <6>3 DEF FillInv, Core, Shape
                    <6> QED  BY <6>2, <6>3
                <5> QED  BY <4>2, <4>3, <5>1 DEF Passed
            <4>5. Cardinality(Passed') = Cardinality(Passed) + 1
                BY <1>0, <4>4, FS_AddElement DEF CountsAreFinite
            <4> QED  BY <1>0, <2>3, <3>2, <4>5, ItemCounted DEF Changed
        <3>3. CASE at[a] # "item_done"
            <4>1. Passed' = Passed
                <5>1. \A b \in Chunks : SaveTask(b) => b = a
                    BY <2>3, ChunksApart DEF SaveTask, Alone, Holds
                <5> QED  BY <2>1, <3>3, <5>1, PassedSame DEF FillInv
            <4>2. task'.processed = task.processed
                <5>1. CASE at[a] = "submit_failed"
                    BY <1>0, <2>3, <5>1 DEF Changed, MarkSubmitFailed, DocShape
                <5>2. CASE at[a] = "chunk_done"
                    BY <1>0, <2>3, <5>2 DEF Changed, MarkChunkDone, DocShape
                <5>3. CASE at[a] \notin {"submit_failed", "chunk_done"}
                    BY <1>0, <2>3, <3>1, <3>3, <5>3 DEF Changed, ChunkPlaces, Places, Changes
                <5> QED  BY <5>1, <5>2, <5>3
            <4> QED  BY <1>0, <4>1, <4>2
        <3> QED  BY <3>2, <3>3
    <2> QED  BY <2>1, <2>2, <2>3, DocumentSteps
<1> QED
    BY <1>1, <1>2

LEMMA HonestGrows ==
    ASSUME FillInv, Next, Core', DocsInv', Exact, Alone, ~Fetched
    PROVE  Honest \subseteq Honest'
<1> SUFFICES ASSUME NEW c \in Honest
             PROVE  c \in Honest'
    OBVIOUS
<1>1. c \in Settled /\ c \in Settled' /\ \A i \in ItemsOf(c) : rows'[i] = rows[i]
    BY SettledStays DEF Honest, FillInv
<1>2. ItemsOf(c)' = ItemsOf(c)
    BY TotalKept DEF ItemsOf
<1>3. task'.failed = 0 => task.failed = 0
    BY DocumentSteps
<1> QED
    BY <1>1, <1>2, <1>3 DEF Honest

\* A chunk is counted among the completed once it is honestly settled.
LEMMA ChunkCompletes ==
    ASSUME FillInv, Next, Core', DocsInv', Exact, Alone, ExactCounts,
           NEW a \in Jobs, SaveTask(a), at[a] = "chunk_done"
    PROVE  /\ a \in Honest' /\ a \notin Honest
           /\ ~Fetched /\ ~Begin /\ ChunksUsed' = ChunksUsed
           /\ task'.completed = task.completed + 1 /\ task'.failed = task.failed
           /\ task'.status = "DONE" =>
                \/ task.status = "DONE"
                \/ task'.failed = 0 /\ task'.completed >= Cardinality(ChunksUsed)
<1>0. /\ a \in Chunks /\ ProgressOf(a) /\ a \in ChunksUsed
      /\ at[Coordinator] \in {"enqueue", "end"}
    BY ChunksApart DEF FillInv, Core, PlacesInv, CoordinatorPlaces, ProgressInv
<1>1. /\ UNCHANGED <<at, rows, total, accepted, pending>> /\ phase[a] = "save"
      /\ phase'[a] = "check"
    BY DEF SaveTask, FillInv, Core, Shape
<1>2. ItemsOf(a)' = ItemsOf(a) /\ ChunksUsed' = ChunksUsed
    BY <1>1 DEF ItemsOf, ChunksUsed
<1>3. task' = MarkChunkDone(task) /\ task \in DocShape /\ task.chunks \in {0, Cardinality(ChunksUsed)}
    BY DEF SaveTask, Alone, Changed, FillInv, DocsInv, DocInv
<1>4. /\ task'.completed = task.completed + 1 /\ task'.failed = task.failed
      /\ task'.status = "DONE" =>
           \/ task.status = "DONE"
           \/ task'.failed = 0 /\ task'.completed >= task.chunks /\ task.chunks > 0
    BY <1>3 DEF MarkChunkDone, DocShape
<1>5. \A i \in ItemsOf(a) : RowIsTrue(i)
    <2>1. pending[a] = {} /\ \A i \in PassedOf(a) : RowIsHeld(a, i)
        BY <1>0 DEF ProgressOf
    <2>2. \A i \in ItemsOf(a) : i \in PassedOf(a)
        BY <1>0, NoneLeft DEF ProgressOf, PassedOf, FillInv, Core
    <2> QED  BY <2>1, <2>2 DEF RowIsHeld, RowIsTrue
<1>6. task.failed = 0 => \A i \in ItemsOf(a) : rows[i] # "failed"
    BY <1>0 DEF ExactCounts, FailuresTold, RowWritten, FillInv, DocsInv, DocInv, DocShape
<1>7. a \in Honest' /\ a \notin Honest
    BY <1>0, <1>1, <1>2, <1>4, <1>5, <1>6 DEF Honest, Settled, Saved, RowIsTrue
<1> QED
    BY <1>0, <1>2, <1>3, <1>4, <1>7 DEF Fetched, Begin

LEMMA HonestFinite ==
    Core => /\ IsFiniteSet(Honest) /\ Cardinality(Honest) \in Nat /\ Honest \subseteq ChunksUsed
<1> SUFFICES ASSUME Core
             PROVE  /\ IsFiniteSet(Honest) /\ Cardinality(Honest) \in Nat /\ Honest \subseteq ChunksUsed
    OBVIOUS
<1>1. Honest \subseteq Settled /\ IsFiniteSet(Settled)
    BY Counted DEF Honest
<1> QED
    BY <1>1, FS_Subset, FS_CardinalityType DEF Settled

LEMMA HonestFiniteNext ==
    Core' => (/\ IsFiniteSet(Honest) /\ Cardinality(Honest) \in Nat /\ Honest \subseteq ChunksUsed)'
BY HonestFinite, PTL

\* A save of another change leaves the number of completed chunks alone.
LEMMA OtherSaves ==
    ASSUME FillInv, NEW a \in Jobs, task' = Changed(a, task), at[a] # "chunk_done", at[a] # "queued_all"
    PROVE  /\ task'.completed = task.completed
           /\ task'.status = "DONE" => task.status = "DONE" \/ at[a] = "empty_done"
<1>0. task \in DocShape
    BY DEF FillInv, DocsInv, DocInv
<1>1. CASE at[a] = "item_done"
    BY <1>0, <1>1, ItemCounted DEF Changed
<1>2. CASE at[a] = "submit_failed"
    BY <1>0, <1>2 DEF Changed, MarkSubmitFailed, DocShape
<1>3. CASE at[a] \in {"fetch_failed", "empty_done"}
    BY <1>0, <1>3 DEF Changed, DocShape
<1>4. CASE at[a] \notin {"fetch_failed", "empty_done", "queued_all", "item_done", "submit_failed",
                         "chunk_done"}
    BY <1>4 DEF Changed
<1> QED
    BY <1>1, <1>2, <1>3, <1>4

LEMMA CompletedKept ==
    ASSUME FillInv, Next, Core', DocsInv', Exact, Alone, ExactCounts
    PROVE  task'.completed <= Cardinality(Honest')
<1>0. /\ task.completed <= Cardinality(Honest) /\ task \in DocShape /\ task.completed \in Nat
      /\ IsFiniteSet(Honest) /\ Cardinality(Honest) \in Nat
      /\ IsFiniteSet(Honest') /\ Cardinality(Honest') \in Nat
    BY HonestFinite, HonestFiniteNext DEF ExactCounts, FillInv, DocsInv, DocInv, DocShape
<1>1. ASSUME ~Fetched
      PROVE  Cardinality(Honest) <= Cardinality(Honest')
    BY <1>0, <1>1, HonestGrows, SmallerSet
<1>2. Fetched => Honest = {} /\ Cardinality({}) = 0
    BY NoChunkJobs DEF Fetched
<1>3. ASSUME task'.completed = task.completed
      PROVE  task'.completed <= Cardinality(Honest')
    BY <1>0, <1>1, <1>2, <1>3
<1>4. CASE Begin
    BY <1>0, <1>4 DEF Begin, NewTask
<1>5. ASSUME NEW a \in Jobs, SaveTask(a), task' = Changed(a, task)
      PROVE  task'.completed <= Cardinality(Honest')
    <2>1. CASE at[a] = "queued_all"
        <3>1. task'.completed = 0
            BY <1>0, <1>5, <2>1 DEF Changed, DocShape
        <3> QED  BY <1>0, <3>1
    <2>2. CASE at[a] = "chunk_done"
        <3>1. a \in Honest' /\ a \notin Honest /\ ~Fetched /\ task'.completed = task.completed + 1
            BY <1>5, <2>2, ChunkCompletes
        <3>2. Cardinality(Honest) + 1 <= Cardinality(Honest')
            BY <1>0, <3>1, HonestGrows, OneMore
        <3> QED  BY <1>0, <3>1, <3>2
    <2>3. CASE at[a] \notin {"queued_all", "chunk_done"}
        BY <1>3, <1>5, <2>3, OtherSaves
    <2> QED  BY <2>1, <2>2, <2>3
<1> QED
    BY <1>3, <1>4, <1>5, DocumentSteps

\* A failure is counted with the row that tells it, or is about to be.
LEMMA FailuresKept ==
    ASSUME FillInv, Next, Core', DocsInv', Exact, Alone, ExactCounts, NEW c \in Chunks
    PROVE  /\ at'[c] # "end" => FailuresTold(c)'
           /\ Reported(c)' => task'.failed > 0
<1>0. /\ c \in Jobs /\ c # Coordinator /\ ProgressOf(c) /\ task \in DocShape
      /\ task'.failed >= task.failed /\ task.failed \in Nat /\ task'.failed \in Nat
      /\ at[c] # "end" => FailuresTold(c)
      /\ Reported(c) => task.failed > 0
    BY ChunksApart, DocumentSteps DEF ExactCounts, FillInv, Core, ProgressInv, DocsInv, DocInv
<1>1. /\ at \in [Jobs -> Places \cup Changes] /\ DOMAIN phase = Jobs
      /\ phase[c] = "idle" <=> at[c] \in Places
      /\ rows \in [Items -> {"none", "queued", "running"} \cup Results]
      /\ ItemsOf(c) \subseteq Items
    BY <1>0, ItemsOfChunk DEF FillInv, Core, Shape
<1> USE DEF Goto, Change
<1>a. CASE Fetched
    <2>1. at[c] = "none" /\ at'[c] = at[c]
        BY <1>0, <1>1, <1>a DEF Fetched, FillInv, Core, PlacesInv
    <2>2. \A i \in Items : rows'[i] # "failed"
        BY <1>a DEF Fetched
    <2>3. \A i \in ItemsOf(c)' : i \in Items
        <3>1. \A i \in 1 .. total' : i \in Items
            BY AttributeFillAssumption DEF Core, Shape, Items
        <3> QED  BY <3>1 DEF ItemsOf
    <2> QED  BY <2>1, <2>2, <2>3 DEF FailuresTold, Reported
<1>b. ASSUME ~Fetched
      PROVE  ItemsOf(c)' = ItemsOf(c)
    BY <1>b, TotalKept DEF ItemsOf
<1>c. CASE Unmoved(c) /\ ~Fetched
    BY <1>0, <1>b, <1>c DEF Unmoved, FailuresTold, Reported, RowWritten, Saved
\* Where the rows stay and this job has none to count.
<1>d. ASSUME ~Fetched, rows' = rows, at[c] # "end", ~RowWritten(c)
      PROVE  FailuresTold(c)'
    BY <1>0, <1>b, <1>d DEF FailuresTold
<1>e. CASE EnqueueChunk(c) \/ StoreFails(c) \/ Kill(c)
    <2>1. /\ ~Fetched /\ rows' = rows /\ at[c] # "end"
          /\ \/ at'[c] = "end"
             \/ at'[c] = "queued" /\ at[c] = "none"
             \/ at'[c] = "item_row" /\ at[c] \in {"ai_start", "ai_done"}
        <3>1. at'[c] # at[c]
            BY <1>0, <1>1, <1>e DEF EnqueueChunk, StoreFails, Kill
        <3>2. ~Fetched
            BY <1>0, <1>1, <3>1 DEF Fetched
        <3> QED  BY <1>0, <1>1, <1>e, <3>2 DEF EnqueueChunk, StoreFails, Kill
    <2> QED  BY <1>d, <2>1 DEF RowWritten, Reported
<1>f. CASE ChunkStep(c) /\ ~Fetched
    <2>1. CASE Acquire(c) \/ ReadTask(c) \/ CheckToken(c) \/ DeleteToken(c)
        <3>1. UNCHANGED <<at, rows, next>> /\ (Saved(c)' <=> Saved(c)) /\ at[c] # "end"
            BY <1>0, <1>1, <2>1 DEF Acquire, ReadTask, CheckToken, DeleteToken, Saved, Places
        <3> QED  BY <1>0, <1>b, <1>f, <3>1 DEF FailuresTold, Reported, RowWritten
    <2>2. CASE SaveTask(c)
        <3>1. /\ task' = Changed(c, task) /\ UNCHANGED <<at, rows, result>>
              /\ at[c] # "end" /\ ~Saved(c)
            BY <1>0, <1>1, <2>2 DEF SaveTask, Alone, Saved, Places
        <3>2. CASE at[c] = "item_done"
            <4>1. RowWritten(c) /\ rows[next[c]] = result[c]
                BY <1>0, <3>1, <3>2 DEF RowWritten, ProgressOf
            <4>2. result[c] = "failed" => task'.failed = task.failed + 1
                BY <1>0, <3>1, <3>2, ItemCounted DEF Changed
            <4>3. \A i \in ItemsOf(c) : rows[i] = "failed" => task'.failed > 0
                BY <1>0, <3>1, <4>1, <4>2 DEF FailuresTold
            <4> QED  BY <1>b, <1>f, <3>1, <3>2, <4>3 DEF FailuresTold, Reported
        <3>3. CASE at[c] = "submit_failed"
            <4>1. pending[c] # {} /\ pending[c] \subseteq Items
                BY <1>0, <1>1, <3>3 DEF ProgressOf
            <4>0. IsFiniteSet(Items)
                <5>1. 1 \in Int /\ MaxActive \in Int
                    BY AttributeFillAssumption
                <5> QED  BY <5>1, FS_Interval DEF Items
            <4>2. Cardinality(pending[c]) \in Nat /\ Cardinality(pending[c]) # 0
                BY <4>0, <4>1, FS_Subset, FS_CardinalityType, FS_EmptySet
            <4>3. task'.failed > 0
                BY <1>0, <3>1, <3>3, <4>2 DEF Changed, MarkSubmitFailed, DocShape
            <4> QED  BY <4>3 DEF FailuresTold, Reported
        <3>4. CASE at[c] \notin {"item_done", "submit_failed"}
            <4>1. ~Reported(c)' \/ Reported(c)
                BY <3>1, <3>4 DEF Reported
            <4> QED  BY <1>0, <1>d, <1>f, <3>1, <3>4, <4>1 DEF RowWritten
        <3> QED  BY <3>2, <3>3, <3>4
    <2>3. CASE StartChunk(c)
        <3>1. at'[c] = "chunk_started" /\ \A i \in ItemsOf(c) : rows'[i] = "running"
            BY <1>0, <1>1, <2>3 DEF StartChunk
        <3> QED  BY <1>b, <1>f, <3>1 DEF FailuresTold, Reported
    <2>4. CASE NextItem(c) \/ Generated(c) \/ Shaped(c) \/ Submit(c)
        <3>1. /\ rows' = rows /\ at[c] \in {"next_item", "generate", "ai_done", "submit"}
              /\ at'[c] \in {"submit_start", "chunk_done", "ai_start", "item_row", "ai_done",
                             "next_item", "submit_failed"}
              /\ ~Saved(c)'
            BY <1>0, <1>1, <2>4 DEF NextItem, Generated, Shaped, Submit, Saved
        <3> QED  BY <1>d, <1>f, <3>1 DEF RowWritten, Reported
    <2>5. CASE SaveItemRow(c)
        <3>1. /\ at[c] = "item_row" /\ at'[c] = "item_done" /\ phase'[c] = "acquire" /\ next' = next
              /\ \A i \in ItemsOf(c) : i # next[c] => rows'[i] = rows[i]
            BY <1>0, <1>1, <2>5 DEF SaveItemRow
        <3> QED  BY <1>0, <1>b, <1>f, <3>1 DEF FailuresTold, Reported, RowWritten, Saved
    <2>6. CASE SaveFailedRows(c)
        <3>1. at[c] = "failed_rows" /\ at'[c] = "next_item"
            BY <1>0, <1>1, <2>6 DEF SaveFailedRows
        <3> QED  BY <1>0, <3>1 DEF FailuresTold, Reported
    <2>7. CASE Continue(c)
        <3>1. /\ Saved(c) /\ rows' = rows /\ at[c] # "end"
              /\ at[c] = "submit_failed" \/ at'[c] \notin {"failed_rows", "submit_failed"}
            BY <1>0, <1>1, <2>7 DEF Continue, Following, Saved, Places
        <3> QED  BY <1>0, <1>d, <1>f, <3>1 DEF RowWritten, Reported
    <2> QED  BY <1>f, <2>1, <2>2, <2>3, <2>4, <2>5, <2>6, <2>7 DEF ChunkStep, ChangeStep
<1> QED
    BY <1>a, <1>c, <1>e, <1>f, MovesOf DEF FillInv

\* A task becomes DONE when every chunk is honestly settled.
LEMMA DoneKept ==
    ASSUME FillInv, Next, Core', DocsInv', Exact, Alone, ExactCounts, task'.status = "DONE"
    PROVE  \A i \in 1 .. total' : rows'[i] # "failed"
<1>1. CASE task.status = "DONE"
    <2>1. Over /\ \A i \in 1 .. total : rows[i] # "failed"
        BY <1>1 DEF ExactCounts, FillInv, DocsInv, DocInv, Ended, Exact
    <2>2. ~Fetched
        BY <2>1, RestStays DEF FillInv
    <2>3. ASSUME NEW i \in 1 .. total
          PROVE  rows'[i] = rows[i]
        BY <2>1, <2>2, ItemInChunk, SettledStays DEF FillInv, Core, Over, AllSettled
    <2> QED  BY <2>1, <2>2, <2>3, TotalKept
<1>2. CASE task.status # "DONE"
    <2>1. ~Begin /\ task' # task
        BY <1>2 DEF Begin, NewTask
    <2>2. PICK a \in Jobs : SaveTask(a) /\ task' = Changed(a, task)
        BY <2>1, DocumentSteps
    <2>3. CASE at[a] = "queued_all"
        BY <1>2, <2>2, <2>3 DEF Changed, FillInv, DocsInv, DocInv, DocShape
    <2>4. CASE at[a] = "empty_done"
        <3>1. total = 0 /\ total' = total
            BY <2>2, <2>4, ChunksApart DEF FillInv, Core, PlacesInv, ChunkPlaces, Places, Changes, SaveTask
        <3> QED  BY <3>1
    <2>5. CASE at[a] = "chunk_done"
        <3>1. /\ a \in Honest' /\ a \notin Honest /\ ~Fetched /\ ChunksUsed' = ChunksUsed
              /\ task'.completed = task.completed + 1
              /\ task'.failed = 0 /\ task'.completed >= Cardinality(ChunksUsed)
            BY <1>2, <2>2, <2>5, ChunkCompletes
        <3>2. task'.completed <= Cardinality(Honest') /\ task'.completed \in Nat
            BY CompletedKept DEF DocsInv, DocInv, DocShape
        <3>3. Honest' \subseteq ChunksUsed /\ IsFiniteSet(ChunksUsed) /\ Cardinality(Honest') \in Nat
              /\ Cardinality(ChunksUsed) \in Nat
            BY <3>1, HonestFiniteNext, UsedChunks, ChunksAre DEF FillInv, Core
        <3>4. Honest' = ChunksUsed
            BY <3>1, <3>2, <3>3, SmallerSet
        <3>5. total' = total /\ rows' = rows
            BY <2>2 DEF SaveTask
        <3>6. ASSUME NEW i \in 1 .. total
              PROVE  rows[i] # "failed"
            <4>1. ChunkOf(i) \in Honest' /\ i \in ItemsOf(ChunkOf(i))
                BY <3>4, ItemInChunk DEF FillInv, Core
            <4> QED  BY <3>1, <3>5, <4>1 DEF Honest, ItemsOf
        <3> QED  BY <3>5, <3>6
    <2>6. CASE at[a] \notin {"queued_all", "empty_done", "chunk_done"}
        BY <1>2, <2>2, <2>6, OtherSaves
    <2> QED  BY <2>3, <2>4, <2>5, <2>6
<1> QED
    BY <1>1, <1>2

LEMMA ExactHolds ==
    Init => ExactInv
<1> SUFFICES ASSUME Init
             PROVE  Alone /\ ExactCounts
    BY DEF ExactInv
<1>1. Core /\ \A c \in Chunks : at[c] = "none"
    BY CoreHolds, ChunksApart DEF Init
<1>2. Passed = {} /\ Cardinality({}) = 0 /\ Cardinality(Honest) \in Nat
    BY <1>1, NothingPassed, HonestFinite
<1>3. Alone
    BY DEF Init, Alone, Holds
<1>4. task = NewTask /\ total = 0 /\ \A i \in Items : rows[i] # "failed"
    BY DEF Init
<1>5. \A c \in Chunks : FailuresTold(c) /\ ~Reported(c)
    BY <1>1, <1>4, ItemsOfChunk DEF FailuresTold, Reported, Core
<1> QED
    BY <1>2, <1>3, <1>4, <1>5 DEF ExactCounts, NewTask

LEMMA ExactKept ==
    FillInv /\ FillInv' /\ ExactInv /\ [Next]_vars => ExactInv'
<1> SUFFICES ASSUME FillInv, FillInv', ExactInv, [Next]_vars, Exact'
             PROVE  Alone' /\ ExactCounts'
    BY DEF ExactInv
<1>1. CASE Next
    <2>1. Exact
        <3>1. ASSUME NEW a, ChangeStep(a) \/ StoreFails(a) \/ Kill(a)
              PROVE  faults' = faults
            BY <3>1 DEF ChangeStep, Acquire, ReadTask, SaveTask, CheckToken, DeleteToken, StoreFails, Kill
        <3>2. faults' = faults
            BY <1>1, <3>1 DEF Next, CoordinatorStep, Begin, Fetched, FetchFails, Coordinated, EnqueueChunk,
                 ChunkStep, StartChunk, NextItem, Generated, Shaped, SaveItemRow, Submit, SaveFailedRows,
                 Continue, Expires, DeclareStale, SaveVerdict
        <3> QED  BY <3>2 DEF Exact
    <2>2. Alone /\ ExactCounts /\ Core' /\ DocsInv'
        BY <2>1 DEF ExactInv, FillInv
    <2>3. Alone'
        BY <1>1, <2>1, <2>2, AloneKept
    <2>4. ExactCounts'
        BY <1>1, <2>1, <2>2, ProcessedKept, CompletedKept, FailuresKept, DoneKept DEF ExactCounts
    <2> QED  BY <2>3, <2>4
<1>2. CASE UNCHANGED vars
    BY <1>2 DEF ExactInv, Exact, Alone, Holds, ExactCounts, Honest, Settled, Passed, ChunksUsed, ItemsOf,
        RowIsTrue, FailuresTold, RowWritten, Reported, Saved, vars
<1> QED
    BY <1>1, <1>2

THEOREM ExactInvariant == Spec => []ExactInv
BY FillHolds, FillKept, ExactHolds, ExactKept, PTL DEF Spec

\* As long as no lock expires under its holder and no poll writes the
\* document, the progress it shows (mark_item_done in
\* attribute_fill_service.py) counts every product the chunk jobs have passed:
\* whatever calls fail and whichever jobs are cut off.
THEOREM NoCountLost == Spec => []NoLostCount
<1>1. ExactInv => NoLostCount
    BY DEF ExactInv, Exact, ExactCounts, NoLostCount, Passed
<1> QED
    BY <1>1, ExactInvariant, PTL

\* In the same environments a task that is DONE has no product that failed.
THEOREM DoneIsFlawless == Spec => []DoneMeansNoneFailed
<1>1. ExactInv => DoneMeansNoneFailed
    BY DEF ExactInv, Exact, ExactCounts, DoneMeansNoneFailed
<1> QED
    BY <1>1, ExactInvariant, PTL

=============================================================================

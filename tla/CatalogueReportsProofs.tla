---------------------- MODULE CatalogueReportsProofs ----------------------
(***************************************************************************)
(* Proofs about the components of MCCatalogueData that report on products: *)
(* what is said of the products sent to OTTO, in batches or by the run     *)
(* over the instruction language, is so at OTTO; a preparation is whole.   *)
(***************************************************************************)
EXTENDS MCCatalogueData, LoopLemmas

-----------------------------------------------------------------------------
(* OttoBatches: the batches passed, the batch in hand and those to come.   *)

BatchSafety == BatchInit /\ [][BatchNext]_<<scene, batchVars>>

SentSkus == ToSet(BatchSkus)
BatchIndices == 1 .. Len(BatchSkus)

\* The products at positions from .. to - 1.
Between(from, to) == {BatchSkus[i] : i \in {j \in BatchIndices : from <= j /\ j < to}}
Passed == Between(1, batchAt.next)
InHand == Between(batchAt.next, batchAt.next + CreateBatch)
Having(verdict, batch) == {p \in batch : verdictOf[p] = verdict}

\* What may be counted as a success: what OTTO has, and what is exempt.
Credited(exempt, batch) == {p \in batch : verdictOf[p] = "accepted" \/ p \in exempt}

Verdicts == {"absent", "taken", "accepted", "rejected", "dropped"}
Final == {"accepted", "rejected"}
Answers == [state : {"", "failed", "processing", "done"}, count : [CounterNames -> Nat \cup {LeftOut}]]
Says(answer, c) == answer.count[c] # LeftOut

\* An answer from which SumUp guesses the successes.
Guesses(answer) == answer.state = "done" /\ ~Says(answer, "failed") /\ ~Says(answer, "succeeded")

BatchPlaces == {"create", "poll", "results", "sum", "ended", "raised"}
BatchRecords == [at : BatchPlaces, next : Nat \ {0}, polls : 0 .. MaxPolls, answer : Answers]
SumRecords == [total : Nat, succeeded : Nat, failed : Nat, progress : Nat,
               state : {"done", "failed"}, results : SUBSET SentSkus]

BatchShape ==
    /\ batchAt \in BatchRecords
    /\ sums \in SumRecords
    /\ verdictOf \in [SentSkus -> Verdicts]
    /\ batchAt.at = "ended" => batchAt.next > Len(BatchSkus)
    /\ guessed \subseteq unsaid /\ unsaid \subseteq SentSkus

\* What has been sent has a verdict, and nothing else has.
SentInv ==
    batchAt.at # "raised" =>
        /\ \A p \in SentSkus : p \in Passed \cup InHand \/ verdictOf[p] = "absent"
        /\ \A p \in Passed : verdictOf[p] # "absent"
        /\ \A p \in InHand : verdictOf[p] = "absent" <=> batchAt.at \in {"create", "ended"}

\* What a poll has told, whichever counters it told, stays true of its batch until it is
\* added up.
TrueOf(answer, batch) ==
    /\ Failed(answer) <= Cardinality(Having("rejected", batch))
    /\ Says(answer, "succeeded") => answer.count["succeeded"] <= Cardinality(Having("accepted", batch))
    /\ Says(answer, "total") => answer.count["total"] = Cardinality(batch)
    /\ Says(answer, "progress") =>
          /\ answer.count["progress"] <= Cardinality(batch)
          /\ Says(answer, "failed") =>
                answer.count["progress"] <= Cardinality(Having("accepted", batch)) + Failed(answer)
    /\ answer.state = "done" =>
          /\ \A p \in batch : verdictOf[p] \in Final
          /\ Says(answer, "failed") => Failed(answer) = Cardinality(Having("rejected", batch))

AnswerInv == batchAt.at \in {"results", "sum"} => TrueOf(batchAt.answer, InHand)

\* Every failure in it is by then among the failed results.
NamedInv ==
    /\ batchAt.at = "sum" => Failed(batchAt.answer) <= Cardinality(sums.results \cap InHand)
    /\ \A p \in sums.results : verdictOf[p] = "rejected"

\* The sums are true of the batches passed, but for what OTTO left them to guess.
SumsInv ==
    /\ sums.total = Cardinality(Passed)
    /\ sums.succeeded <= Cardinality(Credited(guessed, Passed))
    /\ sums.failed <= Cardinality(sums.results \cap Passed)
    /\ sums.state = "done" => sums.progress <= Cardinality(Credited(unsaid, Passed))

BatchInv == BatchShape /\ SentInv /\ AnswerInv /\ NamedInv /\ SumsInv

LEMMA AtMost == \A a, b, c \in Nat : a <= b /\ b <= c => a <= c
    OBVIOUS

LEMMA SmallerOfTwo ==
    ASSUME NEW a \in Int, NEW b \in Int
    PROVE  Min({a, b}) = IF a <= b THEN a ELSE b
<1> DEFINE m == IF a <= b THEN a ELSE b
<1>1. m \in {a, b} /\ \A y \in {a, b} : m <= y
    OBVIOUS
<1>2. \A x \in {a, b} : (\A y \in {a, b} : x <= y) => x = m
    OBVIOUS
<1> QED
    BY <1>1, <1>2 DEF Min

LEMMA BatchConstants ==
    /\ Len(BatchSkus) \in Nat /\ DOMAIN BatchSkus = BatchIndices
    /\ CreateBatch \in Nat \ {0} /\ MaxPolls \in Nat \ {0}
    /\ SentSkus = {BatchSkus[i] : i \in BatchIndices}
    /\ \A i, j \in BatchIndices : BatchSkus[i] = BatchSkus[j] => i = j
<1>1. Len(BatchSkus) \in Nat /\ DOMAIN BatchSkus = BatchIndices
    BY BatchAssumption, LenProperties DEF BatchIndices
<1> QED
    BY <1>1, BatchAssumption DEF SentSkus, ToSet

\* A batch as the code slices it.
LEMMA BatchIs ==
    ASSUME NEW n \in Nat \ {0}
    PROVE  BatchAt(n) = Between(n, n + CreateBatch)
<1>1. Min({n + CreateBatch - 1, Len(BatchSkus)})
         = IF n + CreateBatch - 1 <= Len(BatchSkus) THEN n + CreateBatch - 1 ELSE Len(BatchSkus)
    BY BatchConstants, SmallerOfTwo
<1>2. n .. Min({n + CreateBatch - 1, Len(BatchSkus)})
         = {j \in BatchIndices : n <= j /\ j < n + CreateBatch}
    BY <1>1, BatchConstants DEF BatchIndices
<1> QED
    BY <1>2 DEF BatchAt, Between

LEMMA SkusAreFinite ==
    /\ IsFiniteSet(SentSkus) /\ Cardinality(SentSkus) = Len(BatchSkus)
    /\ \A S \in SUBSET SentSkus :
          IsFiniteSet(S) /\ Cardinality(S) \in Nat /\ Cardinality(S) <= Len(BatchSkus)
<1>1. IsFiniteSet(BatchIndices) /\ Cardinality(BatchIndices) = Len(BatchSkus)
    <2>1. 1 \in Int /\ Len(BatchSkus) \in Int
        BY BatchConstants
    <2> QED
        BY <2>1, BatchConstants, FS_Interval DEF BatchIndices
<1> DEFINE f == [i \in BatchIndices |-> BatchSkus[i]]
<1>2. f \in Bijection(BatchIndices, SentSkus)
    BY BatchConstants DEF Bijection, Injection, Surjection, IsInjective
<1>3. ExistsBijection(BatchIndices, SentSkus)
    BY <1>2 DEF ExistsBijection
<1>4. IsFiniteSet(SentSkus) /\ Cardinality(SentSkus) = Len(BatchSkus)
    BY <1>1, <1>3, FS_Bijection
<1>5. \A S \in SUBSET SentSkus :
          IsFiniteSet(S) /\ Cardinality(S) \in Nat /\ Cardinality(S) <= Len(BatchSkus)
    BY <1>4, FS_Subset, FS_CardinalityType
<1> QED
    BY <1>4, <1>5

\* Batches that follow each other share no product.
LEMMA BatchesFollow ==
    ASSUME NEW n \in Nat \ {0}, NEW m \in Nat, n <= m
    PROVE  /\ Between(1, n) \subseteq SentSkus /\ Between(n, m) \subseteq SentSkus
           /\ Between(1, n) \cup Between(n, m) = Between(1, m)
           /\ Between(1, n) \cap Between(n, m) = {}
           /\ m > Len(BatchSkus) => Between(1, m) = SentSkus
<1>1. \A j \in BatchIndices : j \in Nat \ {0} /\ j <= Len(BatchSkus)
    BY BatchConstants DEF BatchIndices
<1>2. {j \in BatchIndices : 1 <= j /\ j < n} \cup {j \in BatchIndices : n <= j /\ j < m}
         = {j \in BatchIndices : 1 <= j /\ j < m}
    BY <1>1
<1>3. \A i \in {j \in BatchIndices : 1 <= j /\ j < n} : \A k \in {j \in BatchIndices : n <= j /\ j < m} :
          BatchSkus[i] # BatchSkus[k]
    BY <1>1, BatchConstants
<1>4. m > Len(BatchSkus) => {j \in BatchIndices : 1 <= j /\ j < m} = BatchIndices
    BY <1>1, BatchConstants
<1> QED
    BY <1>2, <1>3, <1>4, BatchConstants DEF Between

LEMMA InHandIs ==
    ASSUME BatchShape
    PROVE  /\ Passed \subseteq SentSkus /\ InHand \subseteq SentSkus
           /\ Passed \cap InHand = {} /\ ThisBatch = InHand
           /\ batchAt.next + CreateBatch > Len(BatchSkus) => Passed \cup InHand = SentSkus
           /\ Between(1, batchAt.next + CreateBatch) = Passed \cup InHand
           /\ batchAt.next > Len(BatchSkus) => Passed = SentSkus
<1>1. batchAt.next \in Nat \ {0}
    BY DEF BatchShape, BatchRecords
<1>2. batchAt.next + CreateBatch \in Nat /\ batchAt.next <= batchAt.next + CreateBatch
    BY <1>1, BatchConstants
<1>3. 1 \in Nat \ {0} /\ 1 <= batchAt.next /\ batchAt.next \in Nat
    BY <1>1
<1> QED
    BY <1>1, <1>2, <1>3, BatchesFollow, BatchIs DEF Passed, InHand, ThisBatch

LEMMA PartsCount ==
    ASSUME NEW S \in SUBSET SentSkus, NEW R \in SUBSET S
    PROVE  Cardinality(R) \in Nat /\ Cardinality(S) \in Nat /\ Cardinality(R) <= Cardinality(S)
<1>1. R \in SUBSET SentSkus
    OBVIOUS
<1> QED
    BY <1>1, SkusAreFinite, FS_Subset

LEMMA ApartCount ==
    ASSUME NEW S \in SUBSET SentSkus, NEW R \in SUBSET SentSkus, S \cap R = {}
    PROVE  /\ Cardinality(S \cup R) = Cardinality(S) + Cardinality(R)
           /\ Cardinality(S) \in Nat /\ Cardinality(R) \in Nat
<1>1. IsFiniteSet(S) /\ IsFiniteSet(R) /\ Cardinality(S) \in Nat /\ Cardinality(R) \in Nat
    BY SkusAreFinite
<1>2. Cardinality(S \cup R) = Cardinality(S) + Cardinality(R) - Cardinality(S \cap R)
    BY <1>1, FS_Union
<1>3. Cardinality(S \cap R) = 0
    BY FS_EmptySet
<1> QED
    BY <1>1, <1>2, <1>3

\* What is read of an answer.
LEMMA ReadAs ==
    ASSUME NEW answer \in Answers
    PROVE  /\ Failed(answer) \in Nat
           /\ ~Says(answer, "failed") => Failed(answer) = 0
           /\ \A c \in CounterNames : Says(answer, c) => answer.count[c] \in Nat
           /\ \A c \in CounterNames : \A f : ReadInt(answer.count[c], f)
                                             = IF Says(answer, c) THEN answer.count[c] ELSE f
<1>1. \A c \in CounterNames : answer.count[c] \in Nat \cup {LeftOut}
    BY DEF Answers
<1>2. "failed" \in CounterNames
    BY DEF CounterNames
<1> QED
    BY <1>1, <1>2 DEF Failed, ReadInt, Says

LEMMA NothingSaid ==
    ASSUME NEW s \in {"", "failed"}
    PROVE  /\ NoCounters(s) \in Answers /\ Failed(NoCounters(s)) = 0 /\ NoCounters(s).state = s
           /\ \A c \in CounterNames : ~Says(NoCounters(s), c)
<1>1. NoCounters(s).state = s /\ \A c \in CounterNames : NoCounters(s).count[c] = LeftOut
    BY DEF NoCounters
<1>2. NoCounters(s) \in Answers
    BY DEF NoCounters, Answers
<1> QED
    BY <1>1, <1>2 DEF Failed, ReadInt, Says, CounterNames

LEMMA BatchStarts == BatchInit => BatchInv
<1> SUFFICES ASSUME BatchInit PROVE BatchInv
    OBVIOUS
<1>1. NoCounters("") \in Answers
    BY NothingSaid
<1>2. batchAt.at = "create" /\ batchAt.next = 1 /\ batchAt \in BatchRecords
    <2>1. 0 \in 0 .. MaxPolls /\ 1 \in Nat \ {0}
        BY BatchConstants
    <2> QED
        BY <1>1, <2>1 DEF BatchInit, BatchRecords, BatchPlaces
<1>3. sums \in SumRecords /\ sums.total = 0 /\ sums.succeeded = 0 /\ sums.failed = 0 /\ sums.progress = 0
      /\ sums.results = {}
    BY DEF BatchInit, SumRecords
<1>4. verdictOf \in [SentSkus -> Verdicts] /\ \A p \in SentSkus : verdictOf[p] = "absent"
    BY DEF BatchInit, SentSkus, Verdicts
<1>5. BatchShape
    BY <1>2, <1>3, <1>4 DEF BatchShape, BatchInit
<1>6. Passed = {}
    <2>1. \A j \in BatchIndices : ~(j < 1)
        BY BatchConstants DEF BatchIndices
    <2> QED
        BY <1>2, <2>1 DEF Passed, Between
<1>7. SentInv
    BY <1>2, <1>4, <1>5, <1>6, InHandIs DEF SentInv
<1>8. AnswerInv /\ NamedInv
    BY <1>2, <1>3 DEF AnswerInv, NamedInv
<1>9. SumsInv
    <2>1. /\ Credited(guessed, Passed) = {} /\ Credited(unsaid, Passed) = {}
          /\ sums.results \cap Passed = {}
        BY <1>6 DEF Credited
    <2> QED
        BY <1>3, <1>6, <2>1, FS_EmptySet DEF SumsInv
<1> QED
    BY <1>5, <1>7, <1>8, <1>9 DEF BatchInv

\* The sums stay true as long as no batch is added up.
LEMMA SumsStay ==
    ASSUME BatchShape, SumsInv, batchAt'.next = batchAt.next, UNCHANGED <<unsaid, guessed>>,
           sums'.total = sums.total, sums'.succeeded = sums.succeeded, sums'.failed = sums.failed,
           sums'.progress = sums.progress, sums'.state = sums.state,
           sums.results \subseteq sums'.results, sums'.results \subseteq SentSkus,
           \A p \in Passed : verdictOf[p] = "accepted" => verdictOf'[p] = "accepted"
    PROVE  SumsInv'
<1>1. Passed' = Passed /\ Passed \in SUBSET SentSkus
    BY InHandIs DEF Passed
<1> DEFINE old == Credited(guessed, Passed)
           new == Credited(guessed, Passed)'
           oldDone == Credited(unsaid, Passed)
           newDone == Credited(unsaid, Passed)'
<1>2. /\ Cardinality(old) \in Nat /\ Cardinality(new) \in Nat /\ Cardinality(old) <= Cardinality(new)
      /\ Cardinality(oldDone) \in Nat /\ Cardinality(newDone) \in Nat
      /\ Cardinality(oldDone) <= Cardinality(newDone)
    <2>1. /\ old \in SUBSET new /\ new \in SUBSET SentSkus
          /\ oldDone \in SUBSET newDone /\ newDone \in SUBSET SentSkus
        BY <1>1 DEF Credited
    <2> HIDE DEF old, new, oldDone, newDone
    <2> QED
        BY <2>1, PartsCount
<1>3. /\ Cardinality(sums.results \cap Passed) \in Nat /\ Cardinality(sums'.results \cap Passed) \in Nat
      /\ Cardinality(sums.results \cap Passed) <= Cardinality(sums'.results \cap Passed)
    <2>1. sums.results \cap Passed \in SUBSET (sums'.results \cap Passed)
          /\ sums'.results \cap Passed \in SUBSET SentSkus
        BY <1>1
    <2> QED
        BY <2>1, PartsCount
<1>4. sums.succeeded \in Nat /\ sums.failed \in Nat /\ sums.progress \in Nat
    BY DEF BatchShape, SumRecords
<1>5. /\ sums.succeeded <= Cardinality(old) /\ sums.failed <= Cardinality(sums.results \cap Passed)
      /\ sums.state = "done" => sums.progress <= Cardinality(oldDone)
      /\ sums.total = Cardinality(Passed)
    BY DEF SumsInv
<1> HIDE DEF old, new, oldDone, newDone
<1>6. /\ sums'.succeeded <= Cardinality(new) /\ sums'.failed <= Cardinality(sums'.results \cap Passed)
      /\ sums'.state = "done" => sums'.progress <= Cardinality(newDone)
      /\ sums'.total = Cardinality(Passed)
    BY <1>2, <1>3, <1>4, <1>5
<1> QED
    BY <1>1, <1>6 DEF SumsInv, new, newDone

\* A verdict of OTTO's is its last on that product.
LEMMA VerdictsMove ==
    ASSUME BatchInv, UNCHANGED <<batchAt, sums, unsaid, guessed>>, verdictOf' \in [SentSkus -> Verdicts],
           \A p \in SentSkus : verdictOf[p] \in Final => verdictOf'[p] = verdictOf[p],
           \A p \in SentSkus : verdictOf[p] = "absent" <=> verdictOf'[p] = "absent"
    PROVE  BatchInv'
<1> USE DEF BatchInv
<1>1. BatchShape' /\ InHand' = InHand /\ Passed' = Passed
    BY DEF BatchShape, InHand, Passed
<1>2. InHand \in SUBSET SentSkus /\ Passed \in SUBSET SentSkus
    BY InHandIs
<1>3. SentInv'
    BY <1>1, <1>2 DEF SentInv
<1>4. NamedInv'
    <2>1. sums.results \subseteq SentSkus
        BY DEF BatchShape, SumRecords
    <2> QED
        BY <1>1, <2>1 DEF NamedInv, Final
<1>5. SumsInv'
    <2>1. sums.results \subseteq SentSkus
        BY DEF BatchShape, SumRecords
    <2> QED
        BY <1>2, <2>1, SumsStay DEF Final
<1>6. AnswerInv'
    <2> SUFFICES ASSUME batchAt.at \in {"results", "sum"} PROVE AnswerInv'
        BY DEF AnswerInv
    <2> DEFINE taken == {p \in InHand : verdictOf'[p] = "accepted"}
               refused == {p \in InHand : verdictOf'[p] = "rejected"}
    <2>1. Having("accepted", InHand)' = taken /\ Having("rejected", InHand)' = refused
        BY <1>1 DEF Having
    <2>2. /\ Cardinality(Having("accepted", InHand)) <= Cardinality(taken)
          /\ Cardinality(Having("rejected", InHand)) <= Cardinality(refused)
          /\ Cardinality(Having("accepted", InHand)) \in Nat /\ Cardinality(taken) \in Nat
          /\ Cardinality(Having("rejected", InHand)) \in Nat /\ Cardinality(refused) \in Nat
        <3>1. Having("accepted", InHand) \in SUBSET taken /\ taken \in SUBSET SentSkus
            BY <1>2 DEF Having, Final
        <3>2. Having("rejected", InHand) \in SUBSET refused /\ refused \in SUBSET SentSkus
            BY <1>2 DEF Having, Final
        <3> HIDE DEF taken, refused
        <3> QED
            BY <3>1, <3>2, PartsCount
    <2> DEFINE answer == batchAt.answer
    <2>3. answer \in Answers /\ answer' = answer
        BY DEF BatchShape, BatchRecords
    <2>4. TrueOf(answer, InHand)
        BY DEF AnswerInv
    <2>5. answer.state = "done" =>
              (\A p \in InHand : verdictOf'[p] \in Final) /\ refused = Having("rejected", InHand)
        BY <1>2, <2>4 DEF TrueOf, Having, Final
    <2> HIDE DEF taken, refused, answer
    <2>6. /\ Failed(answer) \in Nat
          /\ Says(answer, "succeeded") => answer.count["succeeded"] \in Nat
          /\ Says(answer, "progress") => answer.count["progress"] \in Nat
        BY <2>3, ReadAs DEF CounterNames
    <2>7. Failed(answer) <= Cardinality(refused)
        BY <2>2, <2>4, <2>6 DEF TrueOf
    <2>8. Says(answer, "succeeded") => answer.count["succeeded"] <= Cardinality(taken)
        BY <2>2, <2>4, <2>6 DEF TrueOf
    <2>9. Says(answer, "progress") /\ Says(answer, "failed") =>
              answer.count["progress"] <= Cardinality(taken) + Failed(answer)
        BY <2>2, <2>4, <2>6 DEF TrueOf
    <2>10. answer.state = "done" /\ Says(answer, "failed") => Failed(answer) = Cardinality(refused)
        BY <2>4, <2>5 DEF TrueOf
    <2>11. TrueOf(answer, InHand)'
        <3>1. Failed(answer)' = Failed(answer) /\ \A c : Says(answer, c)' = Says(answer, c)
            BY <2>3 DEF Failed, Says
        <3> QED
            BY <1>1, <2>1, <2>3, <2>4, <2>5, <2>7, <2>8, <2>9, <2>10, <3>1 DEF TrueOf
    <2> QED
        BY <2>11 DEF AnswerInv, answer
<1> QED
    BY <1>1, <1>3, <1>4, <1>5, <1>6

LEMMA SendBatchKept == ASSUME BatchInv, SendBatch PROVE BatchInv'
<1> USE DEF BatchInv
<1>1. batchAt.at = "create" /\ ThisBatch = InHand /\ Passed \in SUBSET SentSkus
      /\ InHand \in SUBSET SentSkus /\ Passed \cap InHand = {}
    BY InHandIs DEF SendBatch
<1>2. verdictOf' = [p \in SentSkus |-> IF p \in InHand THEN "taken" ELSE verdictOf[p]]
      /\ UNCHANGED <<scene, sums, unsaid, guessed>>
    BY <1>1 DEF SendBatch, BatchShape
<1>3. /\ batchAt' \in BatchRecords /\ batchAt'.next = batchAt.next
      /\ batchAt'.at = "poll" \/ (batchAt'.at = "sum" /\ batchAt'.answer = NoCounters("failed"))
    <2>1. NoCounters("failed") \in Answers
        BY NothingSaid
    <2> QED
        BY <2>1 DEF SendBatch, BatchShape, BatchRecords, BatchPlaces
<1>4. /\ Failed(NoCounters("failed")) = 0 /\ NoCounters("failed").state = "failed"
      /\ \A c \in CounterNames : ~Says(NoCounters("failed"), c)
    BY NothingSaid
<1>5. InHand' = InHand /\ Passed' = Passed
    BY <1>3 DEF InHand, Passed
<1>6. BatchShape'
    BY <1>2, <1>3 DEF BatchShape, Verdicts
<1>7. SentInv'
    BY <1>1, <1>2, <1>3, <1>5 DEF SentInv
<1>8. \A p \in SentSkus : verdictOf[p] \in Final => verdictOf'[p] = verdictOf[p]
    BY <1>1, <1>2 DEF SentInv, Final
<1>9. sums.results \subseteq SentSkus
    BY DEF BatchShape, SumRecords
<1>10. SumsInv'
    <2>1. \A p \in Passed : verdictOf[p] = "accepted" => verdictOf'[p] = "accepted"
        BY <1>1, <1>8 DEF Final
    <2> QED
        BY <2>1, <1>2, <1>3, <1>9, SumsStay
<1>11. AnswerInv'
    <2>1. /\ Cardinality(Having("accepted", InHand)') \in Nat
          /\ Cardinality(Having("rejected", InHand)') \in Nat
        <3>1. Having("accepted", InHand)' \in SUBSET SentSkus /\ Having("rejected", InHand)' \in SUBSET SentSkus
            BY <1>1, <1>5 DEF Having
        <3> QED
            BY <3>1, SkusAreFinite
    <2>2. ASSUME batchAt'.at = "sum" PROVE TrueOf(batchAt.answer, InHand)'
        <3>1. batchAt'.answer = NoCounters("failed")
            BY <1>3, <2>2
        <3>2. /\ Failed(batchAt.answer)' = 0 /\ batchAt'.answer.state = "failed"
              /\ \A c \in CounterNames : ~Says(batchAt.answer, c)'
            BY <3>1, <1>4 DEF Failed, Says
        <3> QED
            BY <2>1, <3>2 DEF TrueOf, CounterNames
    <2> QED
        BY <2>2, <1>3 DEF AnswerInv
<1>12. NamedInv'
    <2>1. Cardinality(sums.results \cap InHand) \in Nat
        BY <1>9, SkusAreFinite
    <2>2. batchAt'.at = "sum" => Failed(batchAt.answer)' <= Cardinality(sums'.results \cap InHand')
        <3>1. batchAt'.at = "sum" => Failed(batchAt.answer)' = 0
            BY <1>3, <1>4 DEF Failed
        <3> QED
            BY <2>1, <1>2, <1>5, <3>1
    <2>3. \A p \in sums'.results : verdictOf'[p] = "rejected"
        BY <1>2, <1>8, <1>9 DEF NamedInv, Final
    <2> QED
        BY <2>2, <2>3 DEF NamedInv
<1> QED
    BY <1>6, <1>7, <1>10, <1>11, <1>12

\* What a poll reads of a batch, if OTTO has got it.
LEMMA CountersAre ==
    ASSUME BatchShape, NEW S \in SUBSET SentSkus, \A p \in S : verdictOf[p] # "absent",
           NEW said \in SUBSET CounterNames
    PROVE  Counters(S, said) \in Answers /\ TrueOf(Counters(S, said), S)
<1> DEFINE answer == Counters(S, said)
           taken == Having("accepted", S)
           refused == Having("rejected", S)
<1>1. \A v : With(v, S) = Cardinality(Having(v, S)) /\ With(v, S) \in Nat
    <2> TAKE v
    <2>1. Having(v, S) \in SUBSET SentSkus
        BY DEF Having
    <2> QED
        BY <2>1, SkusAreFinite DEF With, Having
<1>2. ASSUME answer.state = "done" PROVE \A p \in S : verdictOf[p] \in Final
    <2>1. ~(With("dropped", S) > 0) /\ ~(With("taken", S) > 0)
        BY <1>2 DEF Counters, TaskState
    <2>2. With("dropped", S) = 0 /\ With("taken", S) = 0
        BY <2>1, <1>1
    <2>3. Having("dropped", S) = {} /\ Having("taken", S) = {}
        <3>1. Having("dropped", S) \in SUBSET SentSkus /\ Having("taken", S) \in SUBSET SentSkus
            BY DEF Having
        <3>2. IsFiniteSet(Having("dropped", S)) /\ IsFiniteSet(Having("taken", S))
            BY <3>1, SkusAreFinite
        <3> QED
            BY <2>2, <1>1, <3>2, FS_EmptySet
    <2>4. \A p \in S : verdictOf[p] # "dropped" /\ verdictOf[p] # "taken"
        BY <2>3 DEF Having
    <2> QED
        BY <2>4 DEF BatchShape, Verdicts, Final
<1>3. TaskState(S) \in {"failed", "processing", "done"}
    BY DEF TaskState
<1>4. /\ Cardinality(S) \in Nat /\ Cardinality(taken) \in Nat /\ Cardinality(refused) \in Nat
      /\ Cardinality(taken) + Cardinality(refused) <= Cardinality(S)
    <2>1. taken \cup refused \in SUBSET S /\ taken \in SUBSET SentSkus /\ refused \in SUBSET SentSkus
          /\ taken \cap refused = {}
        BY DEF Having
    <2> HIDE DEF taken, refused
    <2>2. Cardinality(taken \cup refused) = Cardinality(taken) + Cardinality(refused)
          /\ Cardinality(taken) \in Nat /\ Cardinality(refused) \in Nat
        BY <2>1, ApartCount
    <2>3. Cardinality(taken \cup refused) <= Cardinality(S) /\ Cardinality(S) \in Nat
        BY <2>1, PartsCount
    <2>4. Cardinality(taken) + Cardinality(refused) <= Cardinality(S)
        BY <2>2, <2>3, Zenon
    <2> QED
        BY <2>2, <2>3, <2>4
<1>5. With("accepted", S) = Cardinality(taken) /\ With("rejected", S) = Cardinality(refused)
    BY <1>1
<1> HIDE DEF taken, refused
<1>6. /\ answer.state = TaskState(S) /\ DOMAIN answer = {"state", "count"}
      /\ answer = [state |-> answer.state, count |-> answer.count]
      /\ answer.count = [c \in CounterNames |-> answer.count[c]]
      /\ answer.count["total"] = IF "total" \in said THEN Cardinality(S) ELSE LeftOut
      /\ answer.count["succeeded"] = IF "succeeded" \in said THEN Cardinality(taken) ELSE LeftOut
      /\ answer.count["failed"] = IF "failed" \in said THEN Cardinality(refused) ELSE LeftOut
      /\ answer.count["progress"] = IF "progress" \in said
                                    THEN Cardinality(taken) + Cardinality(refused) ELSE LeftOut
    BY <1>5 DEF Counters, CounterNames
<1> HIDE DEF answer
<1>7. \A c \in CounterNames : answer.count[c] \in Nat \cup {LeftOut}
    BY <1>4, <1>6 DEF CounterNames
<1>8. answer \in Answers
    <2>1. answer.count \in [CounterNames -> Nat \cup {LeftOut}]
        BY <1>6, <1>7
    <2> QED
        BY <1>3, <1>6, <2>1 DEF Answers
<1>9. Failed(answer) = IF "failed" \in said THEN Cardinality(refused) ELSE 0
    BY <1>4, <1>6 DEF Failed, ReadInt, LeftOut
<1>10. TrueOf(answer, S)
    <2>1. Failed(answer) <= Cardinality(refused)
        BY <1>4, <1>9
    <2>2. Says(answer, "failed") => Failed(answer) = Cardinality(refused)
        BY <1>6, <1>9 DEF Says
    <2>3. Says(answer, "succeeded") => answer.count["succeeded"] <= Cardinality(taken)
        BY <1>4, <1>6 DEF Says
    <2>4. Says(answer, "total") => answer.count["total"] = Cardinality(S)
        BY <1>6 DEF Says
    <2>5. Says(answer, "progress") => /\ answer.count["progress"] <= Cardinality(S)
                                      /\ answer.count["progress"] = Cardinality(taken) + Cardinality(refused)
        BY <1>4, <1>6 DEF Says
    <2>6. Says(answer, "progress") /\ Says(answer, "failed") =>
              answer.count["progress"] <= Cardinality(taken) + Failed(answer)
        BY <1>4, <2>2, <2>5
    <2> QED
        BY <1>2, <2>1, <2>2, <2>3, <2>4, <2>5, <2>6 DEF TrueOf, taken, refused
<1> QED
    BY <1>8, <1>10 DEF answer

LEMMA PollTaskKept == ASSUME BatchInv, PollTask PROVE BatchInv'
<1> USE DEF BatchInv
<1>1. batchAt.at = "poll" /\ ThisBatch = InHand /\ InHand \in SUBSET SentSkus
      /\ UNCHANGED <<sums, verdictOf, unsaid, guessed>>
    BY InHandIs DEF PollTask
<1>2. \A p \in InHand : verdictOf[p] # "absent"
    BY <1>1 DEF SentInv
<1> DEFINE polls == IF batchAt.polls = MaxPolls THEN MaxPolls ELSE batchAt.polls + 1
<1>3. PICK said \in SUBSET CounterNames :
          batchAt' = [batchAt EXCEPT
              !.polls = polls,
              !.answer = IF Followed(Counters(InHand, said), polls)
                         THEN Counters(InHand, said) ELSE batchAt.answer,
              !.at = IF ~Followed(Counters(InHand, said), polls) THEN "poll"
                     ELSE IF HasFailed(Counters(InHand, said)) THEN "results" ELSE "sum"]
    BY <1>1 DEF PollTask, SaidCounters
<1> DEFINE answer == Counters(InHand, said)
<1>4. answer \in Answers /\ TrueOf(answer, InHand)
    BY <1>1, <1>2, CountersAre
<1>5. polls \in 0 .. MaxPolls
    BY BatchConstants DEF BatchShape, BatchRecords
<1> HIDE DEF answer, polls
<1>6. /\ batchAt' \in BatchRecords /\ batchAt'.next = batchAt.next
      /\ \/ batchAt'.at = "poll"
         \/ batchAt'.answer = answer /\ batchAt'.at = IF HasFailed(answer) THEN "results" ELSE "sum"
    <2>1. batchAt \in BatchRecords
        BY DEF BatchShape
    <2>2. CASE Followed(answer, polls)
        <3>1. batchAt' = [batchAt EXCEPT !.polls = polls, !.answer = answer,
                              !.at = IF HasFailed(answer) THEN "results" ELSE "sum"]
            BY <1>3, <2>2 DEF answer
        <3> QED
            BY <2>1, <3>1, <1>4, <1>5 DEF BatchRecords, BatchPlaces
    <2>3. CASE ~Followed(answer, polls)
        <3>1. batchAt' = [batchAt EXCEPT !.polls = polls, !.answer = batchAt.answer, !.at = "poll"]
            BY <1>3, <2>3 DEF answer
        <3> QED
            BY <2>1, <3>1, <1>5 DEF BatchRecords, BatchPlaces
    <2> QED
        BY <2>2, <2>3
<1>7. InHand' = InHand /\ Passed' = Passed
    BY <1>6 DEF InHand, Passed
<1>8. BatchShape'
    BY <1>1, <1>6 DEF BatchShape
<1>9. SentInv'
    BY <1>1, <1>6, <1>7 DEF SentInv
<1>10. SumsInv'
    <2>1. sums.results \subseteq SentSkus
        BY DEF BatchShape, SumRecords
    <2> QED
        BY <2>1, <1>1, <1>6, SumsStay
<1>11. AnswerInv'
    <2>1. Having("accepted", InHand)' = Having("accepted", InHand)
          /\ Having("rejected", InHand)' = Having("rejected", InHand)
        BY <1>1, <1>7 DEF Having
    <2>2. ASSUME batchAt'.answer = answer PROVE TrueOf(batchAt.answer, InHand)'
        BY <1>1, <1>4, <1>7, <2>1, <2>2 DEF TrueOf, Failed, Says
    <2> QED
        BY <2>2, <1>6 DEF AnswerInv
<1>12. NamedInv'
    <2>1. sums.results \cap InHand \in SUBSET SentSkus
        BY <1>1
    <2>2. Cardinality(sums.results \cap InHand) \in Nat
        BY <2>1, SkusAreFinite
    <2>3. ASSUME batchAt'.at = "sum" PROVE Failed(batchAt.answer)' = 0
        <3>1. batchAt'.answer = answer /\ ~(Failed(answer) > 0)
            BY <1>6, <2>3 DEF HasFailed
        <3>2. Failed(answer) \in Nat
            BY <1>4, ReadAs
        <3>3. Failed(answer) = 0
            BY <3>1, <3>2
        <3> QED
            BY <3>1, <3>3 DEF Failed
    <2> QED
        BY <2>2, <2>3, <1>1, <1>7 DEF NamedInv
<1> QED
    BY <1>8, <1>9, <1>10, <1>11, <1>12

LEMMA FetchResultsKept == ASSUME BatchInv, FetchResults PROVE BatchInv'
<1> USE DEF BatchInv
<1> DEFINE named == Having("rejected", InHand)
<1>1. batchAt.at = "results" /\ ThisBatch = InHand /\ InHand \in SUBSET SentSkus
      /\ UNCHANGED <<scene, verdictOf, unsaid, guessed>>
    BY InHandIs DEF FetchResults
<1>2. batchAt' = [batchAt EXCEPT !.at = "sum"]
      /\ sums' = [sums EXCEPT !.results = sums.results \cup named]
    BY <1>1 DEF FetchResults, Having
<1>3. named \in SUBSET SentSkus /\ named \in SUBSET InHand
    BY <1>1 DEF Having
<1>4. batchAt' \in BatchRecords /\ batchAt'.next = batchAt.next /\ batchAt'.at = "sum"
      /\ batchAt'.answer = batchAt.answer
    BY <1>2 DEF BatchShape, BatchRecords, BatchPlaces
<1>5. /\ sums' \in SumRecords /\ sums'.results = sums.results \cup named
      /\ sums'.total = sums.total /\ sums'.succeeded = sums.succeeded /\ sums'.failed = sums.failed
      /\ sums'.progress = sums.progress /\ sums'.state = sums.state
    <2> HIDE DEF named
    <2> QED
        BY <1>2, <1>3 DEF BatchShape, SumRecords
<1>6. InHand' = InHand /\ Passed' = Passed
    BY <1>4 DEF InHand, Passed
<1>7. BatchShape'
    BY <1>1, <1>4, <1>5 DEF BatchShape
<1>8. SentInv'
    BY <1>1, <1>4, <1>6 DEF SentInv
<1>9. SumsInv'
    <2>1. sums'.results \subseteq SentSkus
        BY <1>5 DEF SumRecords
    <2> QED
        BY <2>1, <1>1, <1>4, <1>5, SumsStay
<1>10. AnswerInv'
    <2>1. Having("accepted", InHand)' = Having("accepted", InHand) /\ Having("rejected", InHand)' = Having("rejected", InHand)
        BY <1>1, <1>6 DEF Having
    <2> QED
        BY <2>1, <1>1, <1>4, <1>6 DEF AnswerInv, TrueOf, Failed, Says
<1>11. NamedInv'
    <2>1. Cardinality(named) \in Nat /\ Cardinality(sums'.results \cap InHand) \in Nat
          /\ Cardinality(named) <= Cardinality(sums'.results \cap InHand)
        <3>1. named \in SUBSET (sums'.results \cap InHand) /\ sums'.results \cap InHand \in SUBSET SentSkus
            BY <1>1, <1>3, <1>5
        <3> HIDE DEF named
        <3> QED
            BY <3>1, PartsCount
    <2>2. Failed(batchAt.answer) <= Cardinality(named) /\ Failed(batchAt.answer) \in Nat
        BY <1>1, ReadAs DEF AnswerInv, TrueOf, BatchShape, BatchRecords
    <2>3. Failed(batchAt.answer)' <= Cardinality(sums'.results \cap InHand)
        <3>1. Failed(batchAt.answer)' = Failed(batchAt.answer)
            BY <1>4 DEF Failed
        <3> QED
            BY <2>1, <2>2, <3>1, AtMost, Zenon
    <2>4. \A p \in sums'.results : verdictOf'[p] = "rejected"
        BY <1>1, <1>5 DEF NamedInv, Having
    <2> QED
        BY <2>3, <2>4, <1>4, <1>6 DEF NamedInv
<1> QED
    BY <1>7, <1>8, <1>9, <1>10, <1>11

LEMMA BatchRaisesKept == ASSUME BatchInv, BatchRaises PROVE BatchInv'
<1> USE DEF BatchInv
<1>1. batchAt.at \in {"create", "poll", "results"} /\ ThisBatch = InHand /\ InHand \in SUBSET SentSkus
      /\ Passed \in SUBSET SentSkus /\ Passed \cap InHand = {}
      /\ UNCHANGED <<scene, sums, unsaid, guessed>>
    BY InHandIs DEF BatchRaises
<1>2. batchAt' \in BatchRecords /\ batchAt'.next = batchAt.next /\ batchAt'.at = "raised"
    BY DEF BatchRaises, BatchShape, BatchRecords, BatchPlaces
<1>3. /\ verdictOf' \in [SentSkus -> Verdicts]
      /\ \A p \in SentSkus : verdictOf[p] \in Final => verdictOf'[p] = verdictOf[p]
    <2>1. CASE verdictOf' = verdictOf
        BY <2>1 DEF BatchShape
    <2>2. CASE verdictOf' = [p \in DOMAIN verdictOf |->
                  IF batchAt.at = "create" /\ p \in ThisBatch THEN "taken" ELSE verdictOf[p]]
        <3>1. batchAt.at = "create" => \A p \in ThisBatch : verdictOf[p] = "absent"
            BY <1>1 DEF SentInv
        <3>2. DOMAIN verdictOf = SentSkus
            BY DEF BatchShape
        <3> QED
            BY <2>2, <3>1, <3>2 DEF BatchShape, Verdicts, Final
    <2> QED
        BY <2>1, <2>2 DEF BatchRaises
<1>4. BatchShape'
    BY <1>1, <1>2, <1>3 DEF BatchShape
<1>5. SentInv' /\ AnswerInv'
    BY <1>2 DEF SentInv, AnswerInv
<1>6. sums.results \subseteq SentSkus
    BY DEF BatchShape, SumRecords
<1>7. NamedInv'
    BY <1>1, <1>2, <1>3, <1>6 DEF NamedInv, Final
<1>8. SumsInv'
    BY <1>1, <1>2, <1>3, <1>6, SumsStay DEF Final
<1> QED
    BY <1>4, <1>5, <1>7, <1>8

\* A batch is no larger than what OTTO has accepted and rejected of it, if it is done.
LEMMA DoneIsWhole ==
    ASSUME NEW S \in SUBSET SentSkus, \A p \in S : verdictOf[p] \in Final
    PROVE  /\ Cardinality(S) = Cardinality(Having("accepted", S)) + Cardinality(Having("rejected", S))
           /\ Cardinality(S) \in Nat
           /\ Cardinality(Having("accepted", S)) \in Nat /\ Cardinality(Having("rejected", S)) \in Nat
<1> DEFINE taken == Having("accepted", S)
           refused == Having("rejected", S)
<1>1. taken \cup refused = S /\ taken \cap refused = {} /\ taken \in SUBSET SentSkus /\ refused \in SUBSET SentSkus
    BY DEF Having, Final
<1> HIDE DEF taken, refused
<1>2. /\ Cardinality(taken \cup refused) = Cardinality(taken) + Cardinality(refused)
      /\ Cardinality(taken) \in Nat /\ Cardinality(refused) \in Nat
    BY <1>1, ApartCount
<1>3. Cardinality(S) = Cardinality(taken) + Cardinality(refused)
    BY <1>1, <1>2, Zenon
<1>4. Cardinality(S) \in Nat
    BY SkusAreFinite
<1> QED
    BY <1>2, <1>3, <1>4 DEF taken, refused

LEMMA LessTheOthers == \A a, b \in Nat : (a + b) - b = a
    OBVIOUS

\* What SumUp adds for a batch, against what OTTO has of it: no more than is so, or
\* else the batch is one whose successes are guessed, or whose failures were not said.
LEMMA AddedIsTrue ==
    ASSUME BatchInv, batchAt.at = "sum"
    PROVE  LET answer == batchAt.answer
               size   == Cardinality(InHand)
               taken  == Cardinality(Having("accepted", InHand))
           IN  /\ size \in Nat /\ Failed(answer) \in Nat /\ Total(answer, size) = size
               /\ Succeeded(answer, size) \in Nat /\ Progress(answer, size) \in Nat
               /\ Succeeded(answer, size) <= taken \/ (Guesses(answer) /\ Succeeded(answer, size) <= size)
               /\ Failed(answer) = 0 =>
                     \/ Progress(answer, size) <= taken
                     \/ ~Says(answer, "failed") /\ Progress(answer, size) <= size
<1> DEFINE answer == batchAt.answer
           size == Cardinality(InHand)
           taken == Cardinality(Having("accepted", InHand))
           refused == Cardinality(Having("rejected", InHand))
<1>1. InHand \in SUBSET SentSkus
    BY InHandIs DEF BatchInv
<1>2. answer \in Answers
    BY DEF BatchInv, BatchShape, BatchRecords
<1>3. TrueOf(answer, InHand)
    BY DEF BatchInv, AnswerInv
<1>4. answer.state = "done" => size = taken + refused
    <2>1. answer.state = "done" => \A p \in InHand : verdictOf[p] \in Final
        BY <1>3 DEF TrueOf
    <2> QED
        BY <1>1, <2>1, DoneIsWhole
<1>5. size \in Nat /\ taken \in Nat /\ refused \in Nat /\ taken <= size
    <2>1. Having("accepted", InHand) \in SUBSET InHand /\ Having("rejected", InHand) \in SUBSET InHand
        BY DEF Having
    <2> QED
        BY <1>1, <2>1, PartsCount
<1>6. /\ Failed(answer) <= refused
      /\ Says(answer, "succeeded") => answer.count["succeeded"] <= taken
      /\ Says(answer, "total") => answer.count["total"] = size
      /\ Says(answer, "progress") =>
            /\ answer.count["progress"] <= size
            /\ Says(answer, "failed") => answer.count["progress"] <= taken + Failed(answer)
      /\ answer.state = "done" /\ Says(answer, "failed") => Failed(answer) = refused
    BY <1>3 DEF TrueOf
<1> HIDE DEF answer, size, taken, refused
<1>7. /\ Failed(answer) \in Nat
      /\ ~Says(answer, "failed") => Failed(answer) = 0
      /\ \A c \in CounterNames : Says(answer, c) => answer.count[c] \in Nat
      /\ \A c \in CounterNames : \A f : ReadInt(answer.count[c], f)
                                        = IF Says(answer, c) THEN answer.count[c] ELSE f
    BY <1>2, ReadAs
<1>8. Total(answer, size) = size
    BY <1>6, <1>7 DEF Total, CounterNames
<1>9. Succeeded(answer, size) = IF Says(answer, "succeeded") THEN answer.count["succeeded"]
                                ELSE IF answer.state = "done" THEN size - Failed(answer) ELSE 0
    BY <1>7 DEF Succeeded, CounterNames
<1>10. /\ Succeeded(answer, size) \in Nat
       /\ Succeeded(answer, size) <= taken \/ (Guesses(answer) /\ Succeeded(answer, size) <= size)
    <2>1. CASE Says(answer, "succeeded")
        BY <2>1, <1>6, <1>7, <1>9 DEF CounterNames
    <2>2. CASE ~Says(answer, "succeeded") /\ answer.state # "done"
        BY <2>2, <1>5, <1>9
    <2>3. CASE ~Says(answer, "succeeded") /\ answer.state = "done" /\ Says(answer, "failed")
        <3>1. size - Failed(answer) = taken
            BY <2>3, <1>4, <1>5, <1>6
        <3> QED
            BY <2>3, <3>1, <1>5, <1>9
    <2>4. CASE ~Says(answer, "succeeded") /\ answer.state = "done" /\ ~Says(answer, "failed")
        BY <2>4, <1>5, <1>7, <1>9 DEF Guesses
    <2> QED
        BY <2>1, <2>2, <2>3, <2>4
<1>11. Progress(answer, size) = IF Says(answer, "progress") THEN answer.count["progress"]
                                ELSE IF answer.state = "done" THEN size
                                ELSE Succeeded(answer, size) + Failed(answer)
    BY <1>7, <1>8 DEF Progress, CounterNames
<1>12. /\ Progress(answer, size) \in Nat
       /\ Failed(answer) = 0 => \/ Progress(answer, size) <= taken
                                \/ ~Says(answer, "failed") /\ Progress(answer, size) <= size
    <2>1. CASE Says(answer, "progress")
        <3>1. answer.count["progress"] \in Nat
            BY <2>1, <1>7 DEF CounterNames
        <3> QED
            BY <2>1, <3>1, <1>5, <1>6, <1>11
    <2>2. CASE ~Says(answer, "progress") /\ answer.state = "done"
        BY <2>2, <1>4, <1>5, <1>6, <1>11
    <2>3. CASE ~Says(answer, "progress") /\ answer.state # "done"
        <3>1. Progress(answer, size) = Succeeded(answer, size) + Failed(answer)
            BY <2>3, <1>11
        <3>2. Succeeded(answer, size) <= taken
            BY <2>3, <1>10 DEF Guesses
        <3> QED
            BY <3>1, <3>2, <1>5, <1>7, <1>10
    <2> QED
        BY <2>1, <2>2, <2>3
<1> QED
    BY <1>5, <1>7, <1>8, <1>10, <1>12 DEF answer, size, taken

\* What is credited of a batch counts for all that has been passed.
LEMMA CreditGrows ==
    ASSUME NEW S \in SUBSET SentSkus, NEW R \in SUBSET SentSkus, S \cap R = {},
           NEW before, NEW after, before \subseteq after, NEW n \in Nat, NEW m \in Nat,
           n <= Cardinality(Credited(before, S)),
           m <= Cardinality(Having("accepted", R)) \/ (R \subseteq after /\ m <= Cardinality(R))
    PROVE  n + m <= Cardinality(Credited(after, S \cup R))
<1> DEFINE old == Credited(before, S)
           added == Credited(after, R)
           all == Credited(after, S \cup R)
<1>1. /\ old \in SUBSET SentSkus /\ added \in SUBSET SentSkus /\ old \cap added = {}
      /\ old \cup added \in SUBSET all /\ all \in SUBSET SentSkus
      /\ Having("accepted", R) \in SUBSET added
    BY DEF Credited, Having
<1>2. m <= Cardinality(added)
    <2>1. Cardinality(added) \in Nat /\ Cardinality(Having("accepted", R)) \in Nat
          /\ Cardinality(Having("accepted", R)) <= Cardinality(added)
        <3> HIDE DEF added
        <3> QED
            BY <1>1, PartsCount
    <2>2. R \subseteq after => added = R
        BY DEF Credited
    <2> HIDE DEF added
    <2> QED
        BY <2>1, <2>2
<1> HIDE DEF old, added, all
<1>3. /\ Cardinality(old \cup added) = Cardinality(old) + Cardinality(added)
      /\ Cardinality(old) \in Nat /\ Cardinality(added) \in Nat
    BY <1>1, ApartCount
<1>4. Cardinality(old \cup added) <= Cardinality(all) /\ Cardinality(all) \in Nat
    BY <1>1, PartsCount
<1>5. n <= Cardinality(old)
    BY DEF old
<1>6. n + m <= Cardinality(all)
    BY <1>2, <1>3, <1>4, <1>5
<1> QED
    BY <1>6 DEF all

LEMMA SumUpKept == ASSUME BatchInv, SumUp PROVE BatchInv'
<1> USE DEF BatchInv
<1> DEFINE answer == batchAt.answer
           size == Cardinality(InHand)
           onward == [at |-> IF batchAt.next + CreateBatch > Len(BatchSkus) THEN "ended" ELSE "create",
                      next |-> batchAt.next + CreateBatch, polls |-> 0, answer |-> NoCounters("")]
<1>1. batchAt.at = "sum" /\ ThisBatch = InHand /\ InHand \in SUBSET SentSkus
      /\ Passed \in SUBSET SentSkus /\ Passed \cap InHand = {} /\ UNCHANGED <<scene, verdictOf>>
    BY InHandIs DEF SumUp
<1>2. /\ batchAt' = onward
      /\ sums' = [sums EXCEPT
               !.total = sums.total + Total(answer, size),
               !.succeeded = sums.succeeded + Succeeded(answer, size),
               !.failed = sums.failed + Failed(answer), !.progress = sums.progress + Progress(answer, size),
               !.state = IF answer.state \in {"failed", "error"} \/ Failed(answer) > 0
                         THEN "failed" ELSE sums.state]
      /\ unsaid' = IF ~Says(answer, "failed") THEN unsaid \cup InHand ELSE unsaid
      /\ guessed' = IF Guesses(answer) THEN guessed \cup InHand ELSE guessed
    BY <1>1 DEF SumUp, Says, Guesses
<1>3. /\ size \in Nat /\ Failed(answer) \in Nat /\ Total(answer, size) = size
      /\ Succeeded(answer, size) \in Nat /\ Progress(answer, size) \in Nat
      /\ \/ Succeeded(answer, size) <= Cardinality(Having("accepted", InHand))
         \/ Guesses(answer) /\ Succeeded(answer, size) <= size
      /\ Failed(answer) = 0 =>
            \/ Progress(answer, size) <= Cardinality(Having("accepted", InHand))
            \/ ~Says(answer, "failed") /\ Progress(answer, size) <= size
    BY <1>1, AddedIsTrue
<1>4. Failed(answer) <= Cardinality(sums.results \cap InHand)
    BY <1>1 DEF NamedInv
<1>5. batchAt' \in BatchRecords /\ batchAt'.next = batchAt.next + CreateBatch
      /\ batchAt'.at \in {"create", "ended"}
    <2>1. NoCounters("") \in Answers
        BY NothingSaid
    <2>2. 0 \in 0 .. MaxPolls
        BY BatchConstants
    <2>3. batchAt.next + CreateBatch \in Nat \ {0}
        BY BatchConstants DEF BatchShape, BatchRecords
    <2> QED
        BY <1>2, <2>1, <2>2, <2>3 DEF BatchRecords, BatchPlaces
<1>6. batchAt'.at = "ended" => batchAt'.next > Len(BatchSkus)
    BY <1>2, BatchConstants
<1> HIDE DEF answer, size, onward
<1>7. /\ sums.total \in Nat /\ sums.succeeded \in Nat /\ sums.failed \in Nat /\ sums.progress \in Nat
      /\ sums.results \subseteq SentSkus /\ sums.state \in {"done", "failed"}
    BY DEF BatchShape, SumRecords
<1>8. /\ sums.total + size \in Nat /\ sums.succeeded + Succeeded(answer, size) \in Nat
      /\ sums.failed + Failed(answer) \in Nat /\ sums.progress + Progress(answer, size) \in Nat
    BY <1>3, <1>7
<1>9. /\ sums' \in SumRecords /\ sums'.total = sums.total + size /\ sums'.results = sums.results
      /\ sums'.succeeded = sums.succeeded + Succeeded(answer, size)
    BY <1>2, <1>3, <1>7, <1>8 DEF BatchShape, SumRecords
<1>10. /\ sums'.failed = sums.failed + Failed(answer)
       /\ sums'.progress = sums.progress + Progress(answer, size)
       /\ sums'.state = "done" => sums.state = "done" /\ ~(Failed(answer) > 0)
    BY <1>2, <1>7, <1>8 DEF BatchShape, SumRecords
<1>11. Passed' = Passed \cup InHand
    <2>1. Passed' = Between(1, batchAt.next + CreateBatch)
        BY <1>5 DEF Passed
    <2> QED
        BY <2>1, InHandIs
<1>12. /\ guessed \subseteq guessed' /\ unsaid \subseteq unsaid'
       /\ guessed' \subseteq unsaid' /\ unsaid' \subseteq SentSkus
       /\ Guesses(answer) => InHand \subseteq guessed'
       /\ ~Says(answer, "failed") => InHand \subseteq unsaid'
    BY <1>1, <1>2 DEF BatchShape, Guesses
<1>13. BatchShape'
    BY <1>1, <1>5, <1>6, <1>9, <1>12 DEF BatchShape
<1>14. SentInv'
    <2>1. Passed' \cap InHand' = {} /\ InHand' \subseteq SentSkus
        <3>1. batchAt'.next \in Nat \ {0} /\ batchAt'.next + CreateBatch \in Nat
              /\ batchAt'.next <= batchAt'.next + CreateBatch
            BY <1>5, BatchConstants DEF BatchRecords
        <3> QED
            BY <3>1, BatchesFollow DEF Passed, InHand
    <2> QED
        BY <1>1, <1>5, <1>11, <2>1 DEF SentInv
<1>15. AnswerInv' /\ NamedInv'
    BY <1>1, <1>5, <1>9 DEF AnswerInv, NamedInv
<1>16. sums'.succeeded <= Cardinality(Credited(guessed, Passed))'
    <2>1. sums.succeeded <= Cardinality(Credited(guessed, Passed))
        BY DEF SumsInv
    <2>2. \/ Succeeded(answer, size) <= Cardinality(Having("accepted", InHand))
          \/ InHand \subseteq guessed' /\ Succeeded(answer, size) <= Cardinality(InHand)
        BY <1>3, <1>12 DEF size
    <2>3. sums.succeeded + Succeeded(answer, size) <= Cardinality(Credited(guessed', Passed \cup InHand))
        BY <1>1, <1>3, <1>7, <1>12, <2>1, <2>2, CreditGrows
    <2>4. Credited(guessed, Passed)' = Credited(guessed', Passed \cup InHand)
        BY <1>1, <1>11 DEF Credited
    <2> QED
        BY <1>9, <2>3, <2>4
<1>17. ASSUME sums'.state = "done" PROVE sums'.progress <= Cardinality(Credited(unsaid, Passed))'
    <2>1. sums.progress <= Cardinality(Credited(unsaid, Passed)) /\ Failed(answer) = 0
        BY <1>3, <1>10, <1>17 DEF SumsInv
    <2>2. \/ Progress(answer, size) <= Cardinality(Having("accepted", InHand))
          \/ InHand \subseteq unsaid' /\ Progress(answer, size) <= Cardinality(InHand)
        BY <1>3, <1>12, <2>1 DEF size
    <2>3. sums.progress + Progress(answer, size) <= Cardinality(Credited(unsaid', Passed \cup InHand))
        BY <1>1, <1>3, <1>7, <1>12, <2>1, <2>2, CreditGrows
    <2>4. Credited(unsaid, Passed)' = Credited(unsaid', Passed \cup InHand)
        BY <1>1, <1>11 DEF Credited
    <2> QED
        BY <1>10, <2>3, <2>4
<1> DEFINE named == sums.results \cap Passed
           new == sums.results \cap InHand
<1>18. /\ Cardinality(named \cup new) = Cardinality(named) + Cardinality(new)
       /\ Cardinality(named) \in Nat /\ Cardinality(new) \in Nat
       /\ sums'.results \cap Passed' = named \cup new
    <2>1. named \in SUBSET SentSkus /\ new \in SUBSET SentSkus /\ named \cap new = {}
        BY <1>1
    <2>2. sums'.results \cap Passed' = named \cup new
        BY <1>9, <1>11
    <2> HIDE DEF named, new
    <2> QED
        BY <2>1, <2>2, ApartCount
<1>19. Cardinality(Passed') = Cardinality(Passed) + size
    BY <1>1, <1>11, ApartCount DEF size
<1>20. sums.total = Cardinality(Passed) /\ sums.failed <= Cardinality(named)
    BY DEF SumsInv
<1> HIDE DEF named, new
<1>21. sums'.failed <= Cardinality(named \cup new)
    <2>1. Failed(answer) <= Cardinality(new)
        BY <1>4 DEF new
    <2> QED
        BY <2>1, <1>3, <1>7, <1>10, <1>18, <1>20
<1>22. SumsInv'
    BY <1>9, <1>16, <1>17, <1>18, <1>19, <1>20, <1>21 DEF SumsInv
<1> QED
    BY <1>13, <1>14, <1>15, <1>22

LEMMA OttoDecidesKept ==
    ASSUME BatchInv, NEW p \in SentSkus, OttoDecides(p) PROVE BatchInv'
<1>1. verdictOf \in [SentSkus -> Verdicts] /\ verdictOf[p] = "taken"
    BY DEF BatchInv, BatchShape, OttoDecides
<1>2. PICK v \in {"accepted", "rejected"} : verdictOf' = [verdictOf EXCEPT ![p] = v]
    BY DEF OttoDecides
<1> QED
    BY <1>1, <1>2, VerdictsMove DEF OttoDecides, Verdicts, Final

LEMMA OttoDropsTaskKept ==
    ASSUME BatchInv, NEW n, OttoDropsTask(n) PROVE BatchInv'
<1>1. verdictOf \in [SentSkus -> Verdicts]
    BY DEF BatchInv, BatchShape
<1>2. verdictOf' = [p \in SentSkus |->
          IF p \in BatchAt(n) /\ verdictOf[p] = "taken" THEN "dropped" ELSE verdictOf[p]]
    BY <1>1 DEF OttoDropsTask
<1> QED
    BY <1>1, <1>2, VerdictsMove DEF OttoDropsTask, Verdicts, Final

LEMMA BatchHolds == BatchSafety => []BatchInv
<1>1. BatchInv /\ [BatchNext]_<<scene, batchVars>> => BatchInv'
    <2> SUFFICES ASSUME BatchInv, [BatchNext]_<<scene, batchVars>> PROVE BatchInv'
        OBVIOUS
    <2>1. CASE BatchStep
        BY <2>1, SendBatchKept, PollTaskKept, FetchResultsKept, SumUpKept DEF BatchStep
    <2>2. CASE BatchRaises
        BY <2>2, BatchRaisesKept
    <2>3. ASSUME NEW p \in DOMAIN verdictOf, OttoDecides(p) PROVE BatchInv'
        <3>1. DOMAIN verdictOf = SentSkus
            BY DEF BatchInv, BatchShape
        <3> QED
            BY <2>3, <3>1, OttoDecidesKept
    <2>4. ASSUME NEW n \in DOMAIN BatchSkus, OttoDropsTask(n) PROVE BatchInv'
        BY <2>4, OttoDropsTaskKept
    <2>5. CASE UNCHANGED <<scene, batchVars>>
        <3>1. verdictOf' \in [SentSkus -> Verdicts]
              /\ UNCHANGED <<batchAt, sums, verdictOf, unsaid, guessed>>
            BY <2>5 DEF batchVars, BatchInv, BatchShape
        <3> QED
            BY <3>1, VerdictsMove
    <2> QED
        BY <2>1, <2>2, <2>3, <2>4, <2>5 DEF BatchNext
<1> QED
    BY BatchStarts, <1>1, PTL DEF BatchSafety

\* A count as high as the products leaves none out.
LEMMA FullCredit ==
    ASSUME NEW exempt, NEW n \in Nat, n <= Cardinality(Credited(exempt, SentSkus)), n >= Len(BatchSkus)
    PROVE  \A p \in SentSkus : verdictOf[p] = "accepted" \/ p \in exempt
<1> DEFINE credited == Credited(exempt, SentSkus)
<1>1. credited \in SUBSET SentSkus
    BY DEF Credited
<1>2. n <= Cardinality(credited)
    OBVIOUS
<1> HIDE DEF credited
<1>3. /\ Cardinality(credited) \in Nat /\ Cardinality(credited) <= Len(BatchSkus)
      /\ Cardinality(SentSkus) = Len(BatchSkus) /\ Len(BatchSkus) \in Nat /\ IsFiniteSet(SentSkus)
    BY <1>1, SkusAreFinite, BatchConstants
<1>4. Cardinality(credited) = Cardinality(SentSkus)
    BY <1>2, <1>3
<1>5. credited = SentSkus
    BY <1>1, <1>3, <1>4, FS_Subset
<1> QED
    BY <1>5 DEF credited, Credited

LEMMA BatchIsTrue == BatchInv => BatchTypeOK /\ FullSuccessIsListed /\ CountsAreOttos
<1> SUFFICES ASSUME BatchInv PROVE BatchTypeOK /\ FullSuccessIsListed /\ CountsAreOttos
    OBVIOUS
<1> USE DEF BatchInv
<1> DEFINE listed == Credited(guessed, SentSkus)
           past == Credited(guessed, Passed)
<1>1. Passed \in SUBSET SentSkus /\ (batchAt.next > Len(BatchSkus) => Passed = SentSkus)
    BY InHandIs
<1>2. /\ past \in SUBSET listed /\ listed \in SUBSET SentSkus
      /\ listed = {p \in ToSet(BatchSkus) : verdictOf[p] = "accepted" \/ p \in guessed}
    BY <1>1 DEF Credited, SentSkus
<1>3. Cardinality(listed) \in Nat /\ Cardinality(past) \in Nat /\ Cardinality(past) <= Cardinality(listed)
    <2> HIDE DEF listed, past
    <2> QED
        BY <1>2, PartsCount
<1>4. /\ sums.total \in Nat /\ sums.succeeded \in Nat /\ sums.failed \in Nat /\ sums.progress \in Nat
      /\ sums.results \in SUBSET SentSkus
    BY DEF BatchShape, SumRecords
<1>5. Cardinality(SentSkus) = Len(BatchSkus) /\ Len(BatchSkus) \in Nat
    BY SkusAreFinite, BatchConstants
<1>6. BatchTypeOK
    <2>1. sums.total \in 0 .. Len(BatchSkus)
        <3>1. sums.total = Cardinality(Passed) /\ Cardinality(Passed) <= Len(BatchSkus)
            BY <1>1, SkusAreFinite DEF SumsInv
        <3> QED
            BY <3>1, <1>4, <1>5
    <2> QED
        BY <2>1, <1>4 DEF BatchTypeOK, BatchShape, BatchRecords, BatchPlaces, SentSkus
<1>7. CountsAreOttos
    <2>1. sums.succeeded <= Cardinality(listed)
        <3>1. sums.succeeded <= Cardinality(past)
            BY DEF SumsInv
        <3> HIDE DEF listed, past
        <3> QED
            BY <3>1, <1>3, <1>4, AtMost, Zenon
    <2>2. sums.failed <= Cardinality(sums.results)
        <3>1. sums.results \cap Passed \in SUBSET sums.results
            OBVIOUS
        <3>2. Cardinality(sums.results \cap Passed) \in Nat /\ Cardinality(sums.results) \in Nat
              /\ Cardinality(sums.results \cap Passed) <= Cardinality(sums.results)
            BY <1>4, <3>1, PartsCount
        <3>3. sums.failed <= Cardinality(sums.results \cap Passed)
            BY DEF SumsInv
        <3> QED
            BY <1>4, <3>2, <3>3, AtMost, Zenon
    <2>3. \A p \in sums.results : verdictOf[p] = "rejected"
        BY DEF NamedInv
    <2> HIDE DEF listed
    <2> QED
        BY <2>1, <2>2, <2>3, <1>2 DEF CountsAreOttos
<1>8. FullSuccessIsListed
    <2> SUFFICES ASSUME batchAt.at = "ended" PROVE FullSuccessIsListed
        BY DEF FullSuccessIsListed
    <2>1. Passed = SentSkus
        BY <1>1 DEF BatchShape
    <2>2. /\ sums.succeeded <= Cardinality(Credited(guessed, SentSkus)) /\ sums.total = Len(BatchSkus)
          /\ sums.state = "done" => sums.progress <= Cardinality(Credited(unsaid, SentSkus))
        BY <2>1, <1>5 DEF SumsInv
    <2>3. ASSUME sums.succeeded >= Len(BatchSkus)
          PROVE  \A p \in SentSkus : verdictOf[p] = "accepted" \/ p \in guessed
        BY <2>2, <2>3, <1>4, FullCredit
    <2>4. ASSUME sums.state = "done", sums.progress >= sums.total
          PROVE  \A p \in SentSkus : verdictOf[p] = "accepted" \/ p \in unsaid
        BY <2>2, <2>4, <1>4, FullCredit
    <2> QED
        BY <2>3, <2>4 DEF FullSuccessIsListed, SentSkus
<1> QED
    BY <1>6, <1>7, <1>8

-----------------------------------------------------------------------------
(* InstructionUpdate: the pages fetched, the batch in hand and the products *)
(* the run has heard of.                                                    *)

InstrSafety == InstrInit /\ [][InstrNext]_<<scene, instrVars>>

InstrSkus == DOMAIN Languages
AtOtto == {"submit", "poll", "results"}
InstrPlaces == AtOtto \cup {"fetch", "turn", "ended"}
InstrAnswers == [failed : Nat, state : {"", "processing", "failed", "done"}, told : BOOLEAN]
InstrRecords == [at : InstrPlaces, page : Nat \ {0}, shown : Nat, changed : Seq(InstrSkus \X Nat),
                 next : Nat \ {0}, attempt : 0 .. InstrRetries, polls : 0 .. InstrPolls,
                 answer : InstrAnswers]
ResultRecords == [status : {"done", "failed"}, scanned : Nat, changed : Nat, sent : Nat, failed : Nat]

\* OTTO says in one of its ways where its list ends.
OneWay == \E way \in DOMAIN Listings : May(way)

InstrShape ==
    /\ instrAt \in InstrRecords /\ instr \in ResultRecords
    /\ language \in [InstrSkus -> Seq({"de", "en"})]
    /\ edition \in [InstrSkus -> Nat] /\ edits \in [InstrSkus -> Nat]
    /\ ottoQueue \in [InstrSkus -> {Nothing} \cup Nat]
    /\ overtaken \subseteq InstrSkus /\ rejected \subseteq InstrSkus /\ dropped \subseteq InstrSkus
    /\ unheard \subseteq InstrSkus

German(p) == \A n \in DOMAIN language[p] : language[p][n] = "de"
NeededChange(p) == \E n \in DOMAIN Languages[p] : Languages[p][n] # "de"

\* The pages that have been read, and the products on them.
Fetched == {n \in DOMAIN Pages : n < instrAt.page \/ (n = instrAt.page /\ instrAt.at # "fetch")}
FetchedSkus == UNION {ToSet(Pages[n]) : n \in Fetched}

\* A batch in hand is of the page in hand, and of products that needed a change.
WhereInv ==
    instrAt.at \in AtOtto =>
        /\ instrAt.page \in DOMAIN Pages /\ instrAt.next \in DOMAIN instrAt.changed
        /\ \A n \in DOMAIN instrAt.changed : /\ instrAt.changed[n][1] \in ToSet(Pages[instrAt.page])
                                             /\ NeededChange(instrAt.changed[n][1])

DryInv ==
    May("dry_run") => /\ instrAt.at \notin AtOtto /\ instr.sent = 0 /\ language = Languages
                      /\ \A p \in InstrSkus : ottoQueue[p] = Nothing

\* An attribute changes once, to German.
LanguageInv == \A p \in InstrSkus : language[p] = Languages[p] \/ German(p)

LimitInv == HasLimit => instr.scanned <= ScanLimit

\* No version is newer than the seller's last.
VersionInv ==
    /\ \A p \in InstrSkus : edition[p] <= edits[p] /\ (ottoQueue[p] # Nothing => ottoQueue[p] <= edits[p])
    /\ instrAt.at \in AtOtto =>
          \A n \in DOMAIN instrAt.changed : instrAt.changed[n][2] <= edits[instrAt.changed[n][1]]

\* Of a product that has not been overtaken, every copy is the seller's.
EditInv ==
    /\ \A p \in InstrSkus \ overtaken : edition[p] = edits[p] /\ ottoQueue[p] \in {Nothing, edits[p]}
    /\ instrAt.at \in AtOtto =>
          \A n \in DOMAIN instrAt.changed : instrAt.changed[n][1] \notin overtaken =>
              instrAt.changed[n][2] = edits[instrAt.changed[n][1]]

\* Outside the batch in hand, OTTO has nothing to do and has rejected nothing, but for what
\* the run has counted as failed or was not told of; if it has dropped something, the run
\* has failed.
InBatch == IF instrAt.at \in AtOtto THEN SkusOf(Rows) ELSE {}
Settled(lost) ==
    \A p \in InstrSkus \ (unheard \cup lost \cup InBatch) : p \notin rejected /\ ottoQueue[p] = Nothing
FailedInv ==
    /\ instr.failed > 0 => instr.status = "failed"
    /\ \E lost \in SUBSET InstrSkus : Cardinality(lost) <= instr.failed /\ Settled(lost)
    /\ instr.status = "failed" \/ dropped \subseteq unheard \cup InBatch

\* The answer in hand stays true, if it told of the end of the batch.
ResultsInv ==
    instrAt.at = "results" =>
        /\ instrAt.answer.failed > 0
        /\ instrAt.answer.told => /\ \A p \in SkusOf(Rows) : ottoQueue[p] = Nothing
                                  /\ instrAt.answer.failed = Cardinality(rejected \cap SkusOf(Rows))

GivenInv ==
    instrAt.at \in {"poll", "results"} =>
        \A p \in SkusOf(Rows) : ottoQueue[p] # Nothing \/ German(p) \/ p \in rejected \cup dropped

\* A run that has gone well so far leaves German behind it.
WentWell == instr.status = "done" /\ unheard = {} /\ ~HasLimit /\ ~May("dry_run")
ToCome(p) ==
    /\ instrAt.at \in AtOtto
    /\ \E k \in DOMAIN instrAt.changed : k >= instrAt.next /\ instrAt.changed[k][1] = p
GermanInv ==
    WentWell => \A n \in Fetched : \A p \in ToSet(Pages[n]) : German(p) \/ (n = instrAt.page /\ ToCome(p))

ScannedInv == instr.scanned <= Cardinality(FetchedSkus)
ShownInv ==
    instrAt.at \in AtOtto \cup {"turn"} /\ ~HasLimit =>
        instrAt.shown = IF instrAt.page \in DOMAIN Pages THEN Len(Pages[instrAt.page]) ELSE 0
EndInv == Doing("ended") /\ WentWell => ListedSkus \subseteq FetchedSkus

RunInv ==
    /\ OneWay /\ InstrShape
    /\ WhereInv /\ DryInv /\ LanguageInv /\ LimitInv /\ VersionInv /\ EditInv
    /\ FailedInv /\ ResultsInv /\ GivenInv /\ GermanInv /\ ScannedInv /\ ShownInv /\ EndInv

InstrInv == IF Plays("instructions") THEN RunInv ELSE InstrInit

\* The products of a page that need a change, all of them and only those.
LEMMA ThoseAre ==
    ASSUME NEW products \in Seq(InstrSkus)
    PROVE  /\ ThoseToChange(products) \in Seq(InstrSkus)
           /\ \A n \in DOMAIN ThoseToChange(products) :
                 /\ NeedsChange(ThoseToChange(products)[n])
                 /\ ThoseToChange(products)[n] \in ToSet(products)
           /\ \A p \in ToSet(products) : NeedsChange(p) =>
                 \E n \in DOMAIN ThoseToChange(products) : ThoseToChange(products)[n] = p
<1> DEFINE places == {n \in DOMAIN products : NeedsChange(products[n])}
           those == Picked(products, places)
           size == Cardinality(places)
<1>1. ThoseToChange(products) = those
    BY DEF ThoseToChange
<1>2. /\ places \in SUBSET DOMAIN products
      /\ \A n \in DOMAIN products : n \in places <=> NeedsChange(products[n])
    OBVIOUS
<1> HIDE DEF places
<1>3. /\ those \in Seq(InstrSkus) /\ DOMAIN those = 1 .. size
      /\ \A i \in 1 .. size : Nth(places, i) \in places /\ those[i] = products[Nth(places, i)]
      /\ \A p \in places : \E i \in 1 .. size : those[i] = products[p]
    BY <1>2, PickedIs
<1> HIDE DEF those, size
<1>4. \A n \in DOMAIN those : NeedsChange(those[n]) /\ those[n] \in ToSet(products)
    BY <1>2, <1>3 DEF ToSet
<1>5. ASSUME NEW p \in ToSet(products), NeedsChange(p) PROVE \E n \in DOMAIN those : those[n] = p
    <2>1. PICK m \in DOMAIN products : products[m] = p
        BY DEF ToSet
    <2> QED
        BY <1>2, <1>3, <1>5, <2>1
<1> QED
    BY <1>1, <1>3, <1>4, <1>5

LEMMA PagesAre ==
    ASSUME OneWay
    PROVE  /\ Pages \in Seq(Seq(InstrSkus)) /\ Len(Pages) \in Nat /\ DOMAIN Pages = 1 .. Len(Pages)
           /\ \A n \in DOMAIN Pages : Pages[n] \in Seq(InstrSkus) /\ Len(Pages[n]) \in Nat \ {0}
           /\ \A m, n \in DOMAIN Pages : \A i \in DOMAIN Pages[m], j \in DOMAIN Pages[n] :
                 Pages[m][i] = Pages[n][j] => m = n /\ i = j
           /\ ~May("links") => \A n \in DOMAIN Pages : n < Len(Pages) => Len(Pages[n]) >= InstrPage
<1> DEFINE way == CHOOSE way \in DOMAIN Listings : May(way)
<1>1. way \in DOMAIN Listings /\ May(way) /\ Pages = Listings[way]
    BY DEF OneWay, Pages
<1> HIDE DEF way
<1>2. Pages \in Seq(Seq(InstrSkus) \ {<<>>})
    BY <1>1, InstructionAssumption DEF InstrSkus
<1>3. Len(Pages) \in Nat /\ DOMAIN Pages = 1 .. Len(Pages)
      /\ \A n \in DOMAIN Pages : Pages[n] \in Seq(InstrSkus) \ {<<>>}
    BY <1>2, LenProperties
<1>4. \A n \in DOMAIN Pages : Pages[n] \in Seq(InstrSkus) /\ Len(Pages[n]) \in Nat \ {0}
    BY <1>3, EmptySeq, LenProperties
<1>5. Pages \in Seq(Seq(InstrSkus))
    <2>1. Pages \in [1 .. Len(Pages) -> Seq(InstrSkus)]
        BY <1>2, <1>3, <1>4, LenProperties
    <2> QED
        BY <2>1, <1>3, SequenceOf
<1>6. \A m, n \in DOMAIN Pages : \A i \in DOMAIN Pages[m], j \in DOMAIN Pages[n] :
          Pages[m][i] = Pages[n][j] => m = n /\ i = j
    BY <1>1, InstructionAssumption
<1>7. ~May("links") => way # "links"
    BY <1>1
<1>8. ~May("links") => \A n \in DOMAIN Pages : n < Len(Pages) => Len(Pages[n]) >= InstrPage
    BY <1>1, <1>7, InstructionAssumption
<1> QED
    BY <1>3, <1>4, <1>5, <1>6, <1>8

LEMMA PageSkusAre ==
    ASSUME OneWay, NEW n \in DOMAIN Pages
    PROVE  /\ ToSet(Pages[n]) \in SUBSET InstrSkus /\ IsFiniteSet(ToSet(Pages[n]))
           /\ Cardinality(ToSet(Pages[n])) = Len(Pages[n])
           /\ \A m \in DOMAIN Pages : m # n => ToSet(Pages[m]) \cap ToSet(Pages[n]) = {}
<1> DEFINE page == Pages[n]
<1>1. Len(page) \in Nat /\ DOMAIN page = 1 .. Len(page) /\ \A i \in 1 .. Len(page) : page[i] \in InstrSkus
    BY PagesAre, LenProperties
<1>2. \A i, j \in 1 .. Len(page) : page[i] = page[j] => i = j
    BY <1>1, PagesAre
<1>3. \A m \in DOMAIN Pages : m # n => ToSet(Pages[m]) \cap ToSet(Pages[n]) = {}
    BY PagesAre DEF ToSet
<1>4. page \in [1 .. Len(page) -> ToSet(page)]
    <2>1. page \in Seq(InstrSkus)
        BY PagesAre
    <2>2. page \in [1 .. Len(page) -> InstrSkus]
        BY <2>1, LenProperties
    <2> QED
        BY <2>2, <1>1 DEF ToSet
<1> HIDE DEF page
<1>5. page \in Bijection(1 .. Len(page), ToSet(page))
    BY <1>1, <1>2, <1>4 DEF Bijection, Injection, Surjection, IsInjective, ToSet
<1>6. IsFiniteSet(1 .. Len(page)) /\ Cardinality(1 .. Len(page)) = Len(page)
    BY <1>1, OneTo
<1>7. ExistsBijection(1 .. Len(page), ToSet(page))
    BY <1>5 DEF ExistsBijection
<1>8. IsFiniteSet(ToSet(page)) /\ Cardinality(ToSet(page)) = Len(page)
    BY <1>6, <1>7, FS_Bijection
<1>9. ToSet(page) \in SUBSET InstrSkus
    BY <1>1 DEF ToSet
<1> QED
    BY <1>3, <1>8, <1>9 DEF page

LEMMA InstrSkusAre ==
    /\ IsFiniteSet(InstrSkus)
    /\ \A S \in SUBSET InstrSkus : IsFiniteSet(S) /\ Cardinality(S) \in Nat
    /\ \A S, R \in SUBSET InstrSkus : S \subseteq R => Cardinality(S) <= Cardinality(R)
    /\ \A S, R \in SUBSET InstrSkus : Cardinality(S \cup R) <= Cardinality(S) + Cardinality(R)
<1>1. IsFiniteSet(InstrSkus)
    BY InstructionAssumption DEF InstrSkus
<1>2. \A S \in SUBSET InstrSkus : IsFiniteSet(S) /\ Cardinality(S) \in Nat
    BY <1>1, FS_Subset, FS_CardinalityType
<1>3. ASSUME NEW S \in SUBSET InstrSkus, NEW R \in SUBSET InstrSkus, S \subseteq R
      PROVE  Cardinality(S) <= Cardinality(R)
    BY <1>2, <1>3, FS_Subset
<1>4. ASSUME NEW S \in SUBSET InstrSkus, NEW R \in SUBSET InstrSkus
      PROVE  Cardinality(S \cup R) <= Cardinality(S) + Cardinality(R)
    <2>1. Cardinality(S \cup R) = Cardinality(S) + Cardinality(R) - Cardinality(S \cap R)
        BY <1>2, FS_Union
    <2>2. S \cap R \in SUBSET InstrSkus /\ S \cup R \in SUBSET InstrSkus
        OBVIOUS
    <2>3. Cardinality(S) \in Nat /\ Cardinality(R) \in Nat /\ Cardinality(S \cap R) \in Nat /\ Cardinality(S \cup R) \in Nat
        BY <1>2, <2>2
    <2> QED
        BY <2>1, <2>3
<1> QED
    BY <1>1, <1>2, <1>3, <1>4

\* The rows of a batch, cut out of what has to be changed.
LEMMA RowsAre ==
    ASSUME InstrShape, instrAt.next \in DOMAIN instrAt.changed
    PROVE  /\ Len(Rows) \in Nat /\ DOMAIN Rows = 1 .. Len(Rows)
           /\ \A n \in DOMAIN Rows : \E k \in DOMAIN instrAt.changed : Rows[n] = instrAt.changed[k]
           /\ \A k \in DOMAIN instrAt.changed :
                 instrAt.next <= k /\ k < instrAt.next + InstrBatch => instrAt.changed[k][1] \in SkusOf(Rows)
           /\ SkusOf(Rows) \in SUBSET InstrSkus /\ Cardinality(SkusOf(Rows)) <= Len(Rows)
<1> DEFINE s == instrAt.changed
           a == instrAt.next
           b == IF a + InstrBatch - 1 <= Len(s) THEN a + InstrBatch - 1 ELSE Len(s)
<1>1. s \in Seq(InstrSkus \X Nat) /\ a \in Nat \ {0}
    BY DEF InstrShape, InstrRecords
<1>2. InstrBatch \in Nat \ {0}
    BY InstructionAssumption
<1>3. Len(s) \in Nat /\ DOMAIN s = 1 .. Len(s) /\ \A n \in 1 .. Len(s) : s[n] \in InstrSkus \X Nat
    BY <1>1, LenProperties
<1>4. b \in Nat /\ a <= b /\ b <= Len(s) /\ a \in 1 .. Len(s) /\ Rows = SubSeq(s, a, b)
    <2>1. a \in DOMAIN s /\ Rows = SubSeq(s, a, Min({a + InstrBatch - 1, Len(s)}))
        BY DEF Rows
    <2> HIDE DEF s, a, b
    <2>2. a + InstrBatch - 1 \in Nat /\ Len(s) \in Nat /\ a <= Len(s) /\ a <= a + InstrBatch - 1
        BY <2>1, <1>1, <1>2, <1>3
    <2>3. Min({a + InstrBatch - 1, Len(s)}) = b
        BY <2>2, SmallerOfTwo DEF b
    <2>4. b \in Nat /\ a <= b /\ b <= Len(s)
        BY <2>2, <1>1, <1>2 DEF b
    <2>5. a \in 1 .. Len(s)
        BY <2>1, <1>3
    <2>6. Rows = SubSeq(s, a, b)
        BY <2>1, <2>3
    <2> QED
        BY <2>4, <2>5, <2>6
<1> HIDE DEF s, a, b
<1>5. \A i \in a .. b : s[i] \in InstrSkus \X Nat
    BY <1>1, <1>3, <1>4
<1>6. /\ Rows \in Seq(InstrSkus \X Nat)
      /\ Len(Rows) = b - a + 1
      /\ \A i \in 1 .. b - a + 1 : Rows[i] = s[a + i - 1]
    <2>1. a \in Int /\ b \in Int
        BY <1>1, <1>4
    <2> QED
        BY <2>1, <1>3, <1>4, <1>5, SubSeqProperties
<1>7. Len(Rows) \in Nat /\ DOMAIN Rows = 1 .. Len(Rows)
    BY <1>6, LenProperties
<1>8. ASSUME NEW n \in DOMAIN Rows PROVE \E k \in DOMAIN s : Rows[n] = s[k]
    <2>1. a + n - 1 \in DOMAIN s
        BY <1>1, <1>3, <1>4, <1>6, <1>7
    <2> QED
        BY <2>1, <1>6, <1>7
<1>9. ASSUME NEW k \in DOMAIN s, a <= k, k < a + InstrBatch PROVE s[k][1] \in SkusOf(Rows)
    <2>1. k \in Nat /\ k <= b
        BY <1>1, <1>2, <1>3, <1>9 DEF b
    <2>2. k - a + 1 \in 1 .. b - a + 1 /\ a + (k - a + 1) - 1 = k
        BY <2>1, <1>1, <1>4, <1>9
    <2>3. Rows[k - a + 1] = s[k] /\ k - a + 1 \in DOMAIN Rows
        BY <2>2, <1>6, <1>7
    <2> QED
        BY <2>3 DEF SkusOf
<1>10. SkusOf(Rows) \in SUBSET InstrSkus
    <2>1. \A n \in DOMAIN Rows : Rows[n] \in InstrSkus \X Nat
        BY <1>6, <1>7, LenProperties
    <2> QED
        BY <2>1 DEF SkusOf
<1>11. Cardinality(SkusOf(Rows)) <= Len(Rows)
    <2> DEFINE f == [n \in 1 .. Len(Rows) |-> Rows[n][1]]
    <2>1. f \in Surjection(1 .. Len(Rows), SkusOf(Rows))
        BY <1>7 DEF Surjection, SkusOf
    <2>2. ExistsSurjection(1 .. Len(Rows), SkusOf(Rows))
        BY <2>1 DEF ExistsSurjection
    <2> QED
        BY <2>2, <1>7, FS_SurjCardinalityBound
<1> QED
    BY <1>7, <1>8, <1>9, <1>10, <1>11 DEF s, a

\* What OTTO is given with a batch.
LEMMA GiveIs ==
    ASSUME InstrShape, instrAt.next \in DOMAIN instrAt.changed, Give(Rows)
    PROVE  /\ ottoQueue' \in [InstrSkus -> {Nothing} \cup Nat]
           /\ \A p \in InstrSkus : p \notin SkusOf(Rows) => ottoQueue'[p] = ottoQueue[p]
           /\ \A p \in SkusOf(Rows) : \E k \in DOMAIN instrAt.changed :
                 /\ instrAt.changed[k][1] = p /\ ottoQueue'[p] = instrAt.changed[k][2]
                 /\ ottoQueue'[p] \in Nat
           /\ rejected' \subseteq rejected /\ dropped' \subseteq dropped
<1> DEFINE Of(p) == CHOOSE row \in ToSet(Rows) : row[1] = p
<1>1. ottoQueue \in [InstrSkus -> {Nothing} \cup Nat]
    BY DEF InstrShape
<1>2. DOMAIN ottoQueue = InstrSkus
    BY <1>1
<1>3. ottoQueue' = [p \in InstrSkus |-> IF p \in SkusOf(Rows) THEN Of(p)[2] ELSE ottoQueue[p]]
    BY <1>2 DEF Give
<1>4. \A k \in DOMAIN instrAt.changed : instrAt.changed[k] \in InstrSkus \X Nat
    <2>1. instrAt.changed \in Seq(InstrSkus \X Nat)
        BY DEF InstrShape, InstrRecords
    <2> QED
        BY <2>1, LenProperties
<1>5. ASSUME NEW p \in SkusOf(Rows)
      PROVE  \E k \in DOMAIN instrAt.changed :
                 instrAt.changed[k][1] = p /\ Of(p) = instrAt.changed[k] /\ Of(p)[2] \in Nat
    <2>1. \E row \in ToSet(Rows) : row[1] = p
        BY DEF SkusOf, ToSet
    <2>2. Of(p) \in ToSet(Rows) /\ Of(p)[1] = p
        BY <2>1
    <2> HIDE DEF Of
    <2>3. PICK n \in DOMAIN Rows : Of(p) = Rows[n]
        BY <2>2 DEF ToSet
    <2>4. PICK k \in DOMAIN instrAt.changed : Rows[n] = instrAt.changed[k]
        BY RowsAre
    <2> QED
        BY <2>2, <2>3, <2>4, <1>4
<1>6. SkusOf(Rows) \in SUBSET InstrSkus
    BY RowsAre
<1> HIDE DEF Of
<1>7. ottoQueue' \in [InstrSkus -> {Nothing} \cup Nat]
    BY <1>1, <1>3, <1>5
<1>8. \A p \in InstrSkus : p \notin SkusOf(Rows) => ottoQueue'[p] = ottoQueue[p]
    BY <1>3
<1>9. \A p \in SkusOf(Rows) : ottoQueue'[p] = Of(p)[2]
    BY <1>3, <1>6
<1>10. rejected' \subseteq rejected /\ dropped' \subseteq dropped
    BY DEF Give
<1> QED
    BY <1>5, <1>7, <1>8, <1>9, <1>10

LEMMA AfterBatchIs ==
    ASSUME InstrShape, instrAt' = AfterBatch
    PROVE  /\ instrAt' \in InstrRecords
           /\ instrAt'.page = instrAt.page /\ instrAt'.shown = instrAt.shown
           /\ instrAt'.changed = instrAt.changed
           /\ instrAt'.next = instrAt.next + InstrBatch
           /\ instrAt'.at \in {"turn", "submit"}
           /\ \A k \in DOMAIN instrAt.changed : k >= instrAt'.next => instrAt'.at = "submit"
           /\ instrAt'.at = "submit" => instrAt'.next \in DOMAIN instrAt.changed
<1>1. instrAt \in InstrRecords /\ InstrBatch \in Nat \ {0} /\ InstrRetries \in Nat /\ InstrPolls \in Nat
    BY InstructionAssumption DEF InstrShape
<1>2. instrAt.changed \in Seq(InstrSkus \X Nat) /\ instrAt.next \in Nat \ {0}
    BY <1>1 DEF InstrRecords
<1>3. Len(instrAt.changed) \in Nat /\ DOMAIN instrAt.changed = 1 .. Len(instrAt.changed)
    BY <1>2, LenProperties
<1> DEFINE n == instrAt.next + InstrBatch
           state == IF n > Len(instrAt.changed) THEN "turn" ELSE "submit"
<1>4. n \in Nat \ {0} /\ state \in {"turn", "submit"} /\ 0 \in 0 .. InstrRetries /\ 0 \in 0 .. InstrPolls
    BY <1>1, <1>2
<1>5. instrAt' = [instrAt EXCEPT !.next = n, !.attempt = 0, !.polls = 0, !.at = state]
    BY DEF AfterBatch
<1>6. /\ \A k \in DOMAIN instrAt.changed : k >= n => state = "submit"
      /\ state = "submit" => n \in DOMAIN instrAt.changed
    BY <1>2, <1>3, <1>4
<1> HIDE DEF n, state
<1>7. instrAt' \in InstrRecords
    BY <1>1, <1>4, <1>5 DEF InstrRecords, InstrPlaces, AtOtto
<1>8. /\ instrAt'.page = instrAt.page /\ instrAt'.shown = instrAt.shown
      /\ instrAt'.changed = instrAt.changed
    BY <1>1, <1>5 DEF InstrRecords
<1>9. instrAt'.next = n /\ instrAt'.at = state
    BY <1>1, <1>5 DEF InstrRecords
<1> QED
    BY <1>4, <1>6, <1>7, <1>8, <1>9 DEF n

LEMMA SameScene ==
    ASSUME UNCHANGED scene
    PROVE  /\ \A e : May(e)' <=> May(e)
           /\ OneWay' <=> OneWay
           /\ OneWay => Pages' = Pages
           /\ HasLimit' <=> HasLimit
<1>1. \A e : May(e)' <=> May(e)
    BY DEF May
<1> QED
    BY <1>1 DEF OneWay, Pages, HasLimit, May

\* A step that is done with the batch in hand: what OTTO has rejected of it and what it
\* has still to do are among the products D, which count as failed, or not heard of.
LEMMA BatchEnds ==
    ASSUME RunInv, instrAt.at \in AtOtto, instrAt' = AfterBatch, UNCHANGED scene,
           UNCHANGED <<language, edition, edits, overtaken>>,
           UNCHANGED <<ottoQueue, rejected, dropped>> \/ Give(Rows),
           instr' \in ResultRecords, instr'.scanned = instr.scanned,
           instr'.status = "done" => instr.status = "done",
           instr'.failed > 0 => instr'.status = "failed",
           unheard \subseteq unheard', unheard' \subseteq InstrSkus,
           NEW D \in SUBSET InstrSkus, instr'.failed >= instr.failed + Cardinality(D),
           \A p \in SkusOf(Rows) : p \notin unheard' \cup D => p \notin rejected' /\ ottoQueue'[p] = Nothing,
           instr'.status = "done" => SkusOf(Rows) \cap dropped' \subseteq unheard',
           instr'.status = "done" /\ unheard' = {} => \A p \in SkusOf(Rows) : German(p)
    PROVE  RunInv'
<1>1. InstrShape /\ OneWay /\ WhereInv
    BY DEF RunInv
<1>2. /\ instrAt.next \in DOMAIN instrAt.changed
      /\ instrAt.page \in DOMAIN Pages
    BY <1>1 DEF WhereInv
<1>3. /\ instrAt' \in InstrRecords
      /\ instrAt'.page = instrAt.page /\ instrAt'.shown = instrAt.shown
      /\ instrAt'.changed = instrAt.changed
      /\ instrAt'.next = instrAt.next + InstrBatch
      /\ instrAt'.at \in {"turn", "submit"}
      /\ \A k \in DOMAIN instrAt.changed : k >= instrAt'.next => instrAt'.at = "submit"
      /\ instrAt'.at = "submit" => instrAt'.next \in DOMAIN instrAt.changed
    BY <1>1, AfterBatchIs
<1>4. /\ ottoQueue' \in [InstrSkus -> {Nothing} \cup Nat]
      /\ \A p \in InstrSkus : p \notin SkusOf(Rows) => ottoQueue'[p] = ottoQueue[p]
      /\ \A p \in SkusOf(Rows) : \/ ottoQueue'[p] = ottoQueue[p]
                                 \/ \E k \in DOMAIN instrAt.changed :
                                       /\ instrAt.changed[k][1] = p /\ ottoQueue'[p] = instrAt.changed[k][2]
                                       /\ ottoQueue'[p] \in Nat
      /\ rejected' \subseteq rejected /\ dropped' \subseteq dropped
    BY <1>1, <1>2, GiveIs DEF InstrShape
<1>5. /\ SkusOf(Rows) \in SUBSET InstrSkus
      /\ \A k \in DOMAIN instrAt.changed :
            instrAt.next <= k /\ k < instrAt.next + InstrBatch => instrAt.changed[k][1] \in SkusOf(Rows)
    BY <1>1, <1>2, RowsAre
<1>6. /\ \A e : May(e)' <=> May(e)
      /\ OneWay' /\ Pages' = Pages
      /\ HasLimit' <=> HasLimit
    BY <1>1, SameScene
<1>7. /\ instrAt.at # "fetch" /\ instrAt'.at # "fetch" /\ instrAt'.at # "ended"
      /\ instrAt'.at \notin {"poll", "results"}
      /\ instrAt'.at \in AtOtto => instrAt'.at = "submit"
    BY <1>3 DEF AtOtto
<1>8. ~May("dry_run")
    BY DEF RunInv, DryInv
<1>9. InstrShape'
    BY <1>1, <1>3, <1>4 DEF InstrShape
<1>10. WhereInv'
    BY <1>1, <1>2, <1>3, <1>6, <1>7 DEF WhereInv, NeededChange
<1>11. DryInv'
    BY <1>6, <1>8 DEF DryInv
<1>12. LanguageInv' /\ LimitInv'
    BY <1>6 DEF RunInv, LanguageInv, LimitInv, German
<1>13. VersionInv'
    <2>1. VersionInv
        BY DEF RunInv
    <2>2. ASSUME NEW p \in InstrSkus, ottoQueue'[p] # Nothing PROVE ottoQueue'[p] <= edits[p]
        <3>1. CASE ottoQueue'[p] = ottoQueue[p]
            BY <2>1, <2>2, <3>1 DEF VersionInv
        <3>2. CASE ottoQueue'[p] # ottoQueue[p]
            BY <2>1, <1>4, <3>2 DEF VersionInv
        <3> QED
            BY <3>1, <3>2
    <2> QED
        BY <2>1, <2>2, <1>3 DEF VersionInv
<1>14. EditInv'
    <2>1. EditInv
        BY DEF RunInv
    <2>2. ASSUME NEW p \in InstrSkus \ overtaken PROVE ottoQueue'[p] \in {Nothing, edits[p]}
        <3>1. CASE ottoQueue'[p] = ottoQueue[p]
            BY <2>1, <3>1 DEF EditInv
        <3>2. CASE ottoQueue'[p] # ottoQueue[p]
            BY <2>1, <1>4, <3>2 DEF EditInv
        <3> QED
            BY <3>1, <3>2
    <2> QED
        BY <2>1, <2>2, <1>3 DEF EditInv
<1>15. FailedInv'
    <2>1. PICK lost \in SUBSET InstrSkus : Cardinality(lost) <= instr.failed /\ Settled(lost)
        BY DEF RunInv, FailedInv
    <2>2. Cardinality(lost \cup D) <= instr'.failed
        <3>1. /\ Cardinality(lost \cup D) <= Cardinality(lost) + Cardinality(D)
              /\ Cardinality(lost) \in Nat /\ Cardinality(D) \in Nat /\ Cardinality(lost \cup D) \in Nat
            BY InstrSkusAre
        <3>2. instr.failed \in Nat /\ instr'.failed \in Nat
            BY <1>1 DEF InstrShape, ResultRecords
        <3> QED
            BY <2>1, <3>1, <3>2
    <2>3. ASSUME NEW p \in InstrSkus, p \notin unheard', p \notin lost, p \notin D
          PROVE  p \notin rejected' /\ ottoQueue'[p] = Nothing
        <3>1. CASE p \in SkusOf(Rows)
            BY <2>3, <3>1
        <3>2. CASE p \notin SkusOf(Rows)
            BY <2>1, <2>3, <3>2, <1>4 DEF Settled, InBatch
        <3> QED
            BY <3>1, <3>2
    <2>4. Settled(lost \cup D)'
        BY <2>3 DEF Settled
    <2>5. \E more \in SUBSET InstrSkus : Cardinality(more) <= instr'.failed /\ Settled(more)'
        <3>1. lost \cup D \in SUBSET InstrSkus
            OBVIOUS
        <3> QED
            BY <2>2, <2>4, <3>1
    <2>6. instr'.status = "failed" \/ dropped' \subseteq unheard'
        <3>1. instr.status = "failed" \/ dropped \subseteq unheard \cup SkusOf(Rows)
            BY DEF RunInv, FailedInv, InBatch
        <3>2. instr'.status \in {"done", "failed"} /\ instr.status \in {"done", "failed"}
            BY <1>1 DEF InstrShape, ResultRecords
        <3> QED
            BY <1>4, <3>1, <3>2
    <2> QED
        BY <2>5, <2>6 DEF FailedInv
<1>16. ResultsInv' /\ GivenInv'
    BY <1>7 DEF ResultsInv, GivenInv
<1>17. Fetched' = Fetched
    BY <1>3, <1>6, <1>7 DEF Fetched
<1>18. GermanInv'
    <2> SUFFICES ASSUME WentWell', NEW n \in Fetched, NEW p \in ToSet(Pages[n])
                 PROVE  German(p)' \/ (n = instrAt.page /\ ToCome(p)')
        BY <1>3, <1>6, <1>17 DEF GermanInv
    <2>1. WentWell
        BY <1>6 DEF WentWell
    <2>2. German(p) \/ (n = instrAt.page /\ ToCome(p))
        BY <2>1 DEF RunInv, GermanInv
    <2>3. CASE German(p)
        BY <2>3 DEF German
    <2>4. CASE n = instrAt.page /\ ToCome(p)
        <3>1. PICK k \in DOMAIN instrAt.changed : k >= instrAt.next /\ instrAt.changed[k][1] = p
            BY <2>4 DEF ToCome
        <3>2. CASE k >= instrAt'.next
            BY <2>4, <3>1, <3>2, <1>3 DEF ToCome, AtOtto
        <3>3. CASE ~(k >= instrAt'.next)
            <4>1. instrAt.next \in Nat /\ InstrBatch \in Nat /\ k \in Nat
                <5>1. instrAt.changed \in Seq(InstrSkus \X Nat)
                    BY <1>1 DEF InstrShape, InstrRecords
                <5>2. k \in Nat
                    BY <5>1, LenProperties
                <5> QED
                    BY <5>2, <1>1, InstructionAssumption DEF InstrShape, InstrRecords
            <4>2. instrAt.next <= k /\ k < instrAt.next + InstrBatch
                BY <4>1, <3>1, <3>3, <1>3
            <4>3. p \in SkusOf(Rows)
                BY <4>2, <3>1, <1>5
            <4>4. German(p)
                BY <4>3 DEF WentWell
            <4> QED
                BY <4>4 DEF German
        <3> QED
            BY <3>2, <3>3
    <2> QED
        BY <2>2, <2>3, <2>4
<1>19. ScannedInv'
    <2>1. ScannedInv
        BY DEF RunInv
    <2>2. FetchedSkus' = FetchedSkus
        BY <1>6, <1>17 DEF FetchedSkus
    <2> QED
        BY <2>1, <2>2 DEF ScannedInv
<1>20. ShownInv'
    BY <1>3, <1>6 DEF RunInv, ShownInv
<1>21. EndInv'
    BY <1>7 DEF EndInv, Doing
<1> QED
    BY <1>6, <1>9, <1>10, <1>11, <1>12, <1>13, <1>14, <1>15, <1>16, <1>18, <1>19, <1>20, <1>21 DEF RunInv

\* A step that keeps the batch in hand.
LEMMA BatchStays ==
    ASSUME RunInv, instrAt.at \in AtOtto, UNCHANGED scene,
           instrAt' \in InstrRecords, instrAt'.at \in AtOtto,
           instrAt'.page = instrAt.page, instrAt'.shown = instrAt.shown,
           instrAt'.changed = instrAt.changed, instrAt'.next = instrAt.next,
           UNCHANGED <<language, edition, edits, overtaken, unheard>>,
           UNCHANGED <<ottoQueue, rejected, dropped>> \/ Give(Rows),
           instr' \in ResultRecords, instr'.scanned = instr.scanned,
           instr'.failed = instr.failed, instr'.status = instr.status,
           GivenInv', ResultsInv'
    PROVE  RunInv'
<1>1. InstrShape /\ OneWay /\ WhereInv
    BY DEF RunInv
<1>2. instrAt.next \in DOMAIN instrAt.changed
    BY <1>1 DEF WhereInv
<1>4. /\ ottoQueue' \in [InstrSkus -> {Nothing} \cup Nat]
      /\ \A p \in InstrSkus : p \notin SkusOf(Rows) => ottoQueue'[p] = ottoQueue[p]
      /\ \A p \in SkusOf(Rows) : \/ ottoQueue'[p] = ottoQueue[p]
                                 \/ \E k \in DOMAIN instrAt.changed :
                                       /\ instrAt.changed[k][1] = p /\ ottoQueue'[p] = instrAt.changed[k][2]
                                       /\ ottoQueue'[p] \in Nat
      /\ rejected' \subseteq rejected /\ dropped' \subseteq dropped
    BY <1>1, <1>2, GiveIs DEF InstrShape
<1>6. /\ \A e : May(e)' <=> May(e)
      /\ OneWay' /\ Pages' = Pages
      /\ HasLimit' <=> HasLimit
    BY <1>1, SameScene
<1>7. /\ instrAt.at # "fetch" /\ instrAt'.at # "fetch" /\ instrAt'.at # "ended"
    BY DEF AtOtto
<1>8. ~May("dry_run")
    BY DEF RunInv, DryInv
<1>9. InstrShape'
    BY <1>1, <1>4 DEF InstrShape
<1>10. WhereInv'
    BY <1>1, <1>6 DEF WhereInv, NeededChange
<1>11. DryInv'
    BY <1>6, <1>8 DEF DryInv
<1>12. LanguageInv' /\ LimitInv'
    BY <1>6 DEF RunInv, LanguageInv, LimitInv, German
<1>13. VersionInv'
    <2>1. VersionInv
        BY DEF RunInv
    <2>2. ASSUME NEW p \in InstrSkus, ottoQueue'[p] # Nothing PROVE ottoQueue'[p] <= edits[p]
        <3>1. CASE ottoQueue'[p] = ottoQueue[p]
            BY <2>1, <2>2, <3>1 DEF VersionInv
        <3>2. CASE ottoQueue'[p] # ottoQueue[p]
            BY <2>1, <1>4, <3>2 DEF VersionInv
        <3> QED
            BY <3>1, <3>2
    <2> QED
        BY <2>1, <2>2 DEF VersionInv
<1>14. EditInv'
    <2>1. EditInv
        BY DEF RunInv
    <2>2. ASSUME NEW p \in InstrSkus \ overtaken PROVE ottoQueue'[p] \in {Nothing, edits[p]}
        <3>1. CASE ottoQueue'[p] = ottoQueue[p]
            BY <2>1, <3>1 DEF EditInv
        <3>2. CASE ottoQueue'[p] # ottoQueue[p]
            BY <2>1, <1>4, <3>2 DEF EditInv
        <3> QED
            BY <3>1, <3>2
    <2> QED
        BY <2>1, <2>2 DEF EditInv
<1>15. Rows' = Rows /\ SkusOf(Rows)' = SkusOf(Rows) /\ InBatch' = InBatch
    <2>1. Rows' = Rows
        BY DEF Rows
    <2> QED
        BY <2>1 DEF SkusOf, InBatch
<1>16. FailedInv'
    <2>1. PICK lost \in SUBSET InstrSkus : Cardinality(lost) <= instr.failed /\ Settled(lost)
        BY DEF RunInv, FailedInv
    <2>2. Settled(lost)'
        BY <2>1, <1>4, <1>15 DEF Settled, InBatch
    <2>3. \E more \in SUBSET InstrSkus : Cardinality(more) <= instr'.failed /\ Settled(more)'
        BY <2>1, <2>2
    <2>4. instr.failed > 0 => instr.status = "failed"
        BY DEF RunInv, FailedInv
    <2>5. instr'.status = "failed" \/ dropped' \subseteq unheard \cup InBatch'
        BY <1>4, <1>15 DEF RunInv, FailedInv
    <2> QED
        BY <2>3, <2>4, <2>5 DEF FailedInv
<1>17. Fetched' = Fetched
    BY <1>6, <1>7 DEF Fetched
<1>18. GermanInv'
    BY <1>6, <1>17 DEF RunInv, GermanInv, WentWell, ToCome, German
<1>19. ScannedInv'
    <2>1. ScannedInv
        BY DEF RunInv
    <2>2. FetchedSkus' = FetchedSkus
        BY <1>6, <1>17 DEF FetchedSkus
    <2> QED
        BY <2>1, <2>2 DEF ScannedInv
<1>20. ShownInv'
    BY <1>6 DEF RunInv, ShownInv
<1>21. EndInv'
    BY <1>7 DEF EndInv, Doing
<1> QED
    BY <1>6, <1>9, <1>10, <1>11, <1>12, <1>13, <1>14, <1>16, <1>18, <1>19, <1>20, <1>21 DEF RunInv

LEMMA RowsInHand ==
    ASSUME RunInv, instrAt.at \in AtOtto
    PROVE  /\ InstrShape /\ OneWay /\ instrAt.next \in DOMAIN instrAt.changed
           /\ SkusOf(Rows) \in SUBSET InstrSkus
           /\ Len(Rows) \in Nat /\ Cardinality(SkusOf(Rows)) <= Len(Rows)
           /\ instr \in ResultRecords /\ instr.failed \in Nat
           /\ instr.failed > 0 => instr.status = "failed"
           /\ InstrRetries \in Nat /\ InstrPolls \in Nat
<1>1. InstrShape /\ OneWay /\ instrAt.next \in DOMAIN instrAt.changed
    BY DEF RunInv, WhereInv
<1>2. /\ SkusOf(Rows) \in SUBSET InstrSkus
      /\ Len(Rows) \in Nat /\ Cardinality(SkusOf(Rows)) <= Len(Rows)
    BY <1>1, RowsAre
<1>3. instr \in ResultRecords /\ instr.failed \in Nat
    BY <1>1 DEF InstrShape, ResultRecords
<1> QED
    BY <1>1, <1>2, <1>3, InstructionAssumption DEF RunInv, FailedInv

LEMMA SubmitStep ==
    ASSUME RunInv, SubmitRows, UNCHANGED scene
    PROVE  RunInv'
<1>1. instrAt.at = "submit" /\ instrAt.at \in AtOtto
    BY DEF SubmitRows, Doing, AtOtto
<1>2. /\ InstrShape /\ OneWay /\ instrAt.next \in DOMAIN instrAt.changed
      /\ SkusOf(Rows) \in SUBSET InstrSkus
      /\ Len(Rows) \in Nat
      /\ instr \in ResultRecords /\ instr.failed \in Nat
      /\ instr.failed > 0 => instr.status = "failed"
      /\ InstrRetries \in Nat /\ InstrPolls \in Nat
    BY <1>1, RowsInHand
<1>3. /\ Give(Rows) /\ UNCHANGED <<language, edition, edits, overtaken>>
      /\ instr' = [instr EXCEPT !.sent = @ + Len(Rows)]
    BY DEF SubmitRows
<1>4. /\ instr' \in ResultRecords /\ instr'.scanned = instr.scanned
      /\ instr'.failed = instr.failed /\ instr'.status = instr.status
    <2>1. instr.sent + Len(Rows) \in Nat
        BY <1>2 DEF ResultRecords
    <2> QED
        BY <1>2, <1>3, <2>1 DEF ResultRecords
<1>5. CASE May("no_poll") \/ May("no_id")
    <2>1. instrAt' = AfterBatch /\ unheard' = unheard \cup SkusOf(Rows)
        BY <1>5 DEF SubmitRows
    <2>2. unheard \subseteq unheard' /\ unheard' \subseteq InstrSkus /\ SkusOf(Rows) \subseteq unheard'
        BY <2>1, <1>2 DEF InstrShape
    <2>3. {} \in SUBSET InstrSkus /\ instr'.failed >= instr.failed + Cardinality({})
        BY <1>2, <1>4, FS_EmptySet
    <2>4. instr'.status = "done" /\ unheard' = {} => \A p \in SkusOf(Rows) : German(p)
        BY <2>2
    <2> QED
        BY <1>1, <1>2, <1>3, <1>4, <2>1, <2>2, <2>3, <2>4, BatchEnds
<1>6. CASE ~(May("no_poll") \/ May("no_id"))
    <2> DEFINE new == [instrAt EXCEPT !.at = "poll", !.attempt = 0]
    <2>1. instrAt' = new /\ unheard' = unheard
        BY <1>6 DEF SubmitRows
    <2>2. instrAt \in InstrRecords /\ 0 \in 0 .. InstrRetries
        BY <1>2 DEF InstrShape
    <2>3. new \in InstrRecords
        BY <2>2 DEF InstrRecords, InstrPlaces, AtOtto
    <2>4. /\ new.at = "poll" /\ new.page = instrAt.page /\ new.shown = instrAt.shown
          /\ new.changed = instrAt.changed /\ new.next = instrAt.next
        BY <2>2 DEF InstrRecords
    <2> HIDE DEF new
    <2>5. Rows' = Rows
        BY <2>1, <2>4 DEF Rows
    <2>6. ResultsInv'
        BY <2>1, <2>4 DEF ResultsInv
    <2>7. GivenInv'
        <3>1. \A p \in SkusOf(Rows) : ottoQueue'[p] \in Nat
            BY <1>2, <1>3, GiveIs
        <3>2. SkusOf(Rows)' = SkusOf(Rows)
            BY <2>5 DEF SkusOf
        <3>3. \A n \in Nat : n # Nothing
            BY DEF Nothing
        <3> QED
            BY <3>1, <3>2, <3>3 DEF GivenInv
    <2>8. instrAt'.at \in AtOtto
        BY <2>1, <2>4 DEF AtOtto
    <2> QED
        BY <1>1, <1>3, <1>4, <2>1, <2>3, <2>4, <2>6, <2>7, <2>8, BatchStays
<1> QED
    BY <1>5, <1>6

\* The end of a followed batch, with the last answer of the polls.
LEMMA FinishStep ==
    ASSUME RunInv, instrAt.at \in {"poll", "results"}, UNCHANGED scene,
           NEW answer \in InstrAnswers, FinishBatch(answer),
           answer.told => /\ \A p \in SkusOf(Rows) : ottoQueue[p] = Nothing
                          /\ answer.failed = Cardinality(rejected \cap SkusOf(Rows))
                          /\ SkusOf(Rows) \cap dropped # {} => TaskFailed(answer)
    PROVE  RunInv'
<1>1. instrAt.at \in AtOtto
    BY DEF AtOtto
<1>2. /\ InstrShape /\ OneWay /\ instrAt.next \in DOMAIN instrAt.changed
      /\ SkusOf(Rows) \in SUBSET InstrSkus
      /\ instr \in ResultRecords /\ instr.failed \in Nat
      /\ instr.failed > 0 => instr.status = "failed"
    BY <1>1, RowsInHand
<1>3. answer.failed \in Nat /\ answer.told \in BOOLEAN
    BY DEF InstrAnswers
<1>4. /\ instrAt' = AfterBatch
      /\ unheard' = unheard \cup (IF answer.told THEN {} ELSE SkusOf(Rows))
      /\ UNCHANGED <<ottoSide, edits, overtaken>>
    BY DEF FinishBatch
<1>5. UNCHANGED <<language, edition, ottoQueue, rejected, dropped, edits, overtaken>>
    BY <1>4 DEF ottoSide
<1>6. /\ instr' \in ResultRecords /\ instr'.scanned = instr.scanned
      /\ instr'.failed = instr.failed + answer.failed
      /\ instr'.status = IF TaskFailed(answer) THEN "failed" ELSE instr.status
    <2>1. instr.failed + answer.failed \in Nat
        BY <1>2, <1>3
    <2> DEFINE f == instr.failed + answer.failed
               st == IF TaskFailed(answer) THEN "failed" ELSE instr.status
    <2>2. instr' = [instr EXCEPT !.failed = f, !.status = st]
        BY DEF FinishBatch
    <2>3. st \in {"done", "failed"} /\ f \in Nat
        BY <1>2, <2>1 DEF ResultRecords
    <2> HIDE DEF f, st
    <2>4. /\ instr' \in ResultRecords /\ instr'.scanned = instr.scanned
          /\ instr'.failed = f /\ instr'.status = st
        BY <1>2, <2>2, <2>3 DEF ResultRecords
    <2> QED
        BY <2>4 DEF f, st
<1>7. /\ instr'.status = "done" => instr.status = "done" /\ answer.failed = 0 /\ ~TaskFailed(answer)
      /\ instr'.failed > 0 => instr'.status = "failed"
    BY <1>2, <1>3, <1>6 DEF TaskFailed
<1>8. unheard \subseteq unheard' /\ unheard' \subseteq InstrSkus
    BY <1>2, <1>4 DEF InstrShape
<1>9. CASE ~answer.told
    <2>1. SkusOf(Rows) \subseteq unheard'
        BY <1>4, <1>9
    <2>2. {} \in SUBSET InstrSkus /\ instr'.failed >= instr.failed + Cardinality({})
        BY <1>2, <1>3, <1>6, FS_EmptySet
    <2>3. instr'.status = "done" /\ unheard' = {} => \A p \in SkusOf(Rows) : German(p)
        BY <2>1
    <2> QED
        BY <1>1, <1>4, <1>5, <1>6, <1>7, <1>8, <2>1, <2>2, <2>3, BatchEnds
<1>10. CASE answer.told
    <2> DEFINE D == rejected \cap SkusOf(Rows)
    <2>1. D \in SUBSET InstrSkus /\ answer.failed = Cardinality(D)
          /\ \A p \in SkusOf(Rows) : ottoQueue[p] = Nothing
        BY <1>2, <1>10
    <2>2. \A p \in SkusOf(Rows) : p \notin unheard' \cup D => p \notin rejected' /\ ottoQueue'[p] = Nothing
        BY <2>1, <1>5
    <2>3. instr'.failed >= instr.failed + Cardinality(D)
        BY <1>2, <1>3, <1>6, <2>1
    <2>4. ASSUME instr'.status = "done", unheard' = {}, NEW p \in SkusOf(Rows) PROVE German(p)
        <3>1. Cardinality(D) = 0
            BY <1>7, <2>1, <2>4
        <3>2. D = {}
            BY <2>1, <3>1, InstrSkusAre, FS_EmptySet
        <3>3. ottoQueue[p] # Nothing \/ German(p) \/ p \in rejected \cup dropped
            BY DEF RunInv, GivenInv
        <3>4. p \notin dropped
            BY <1>7, <1>10, <2>4
        <3> QED
            BY <2>1, <3>2, <3>3, <3>4
    <2>5. instr'.status = "done" => SkusOf(Rows) \cap dropped' \subseteq unheard'
        BY <1>5, <1>7, <1>10
    <2> HIDE DEF D
    <2> QED
        BY <1>1, <1>4, <1>5, <1>6, <1>7, <1>8, <2>1, <2>2, <2>3, <2>4, <2>5, BatchEnds
<1> QED
    BY <1>3, <1>9, <1>10

LEMMA PollStep ==
    ASSUME RunInv, PollBatch, UNCHANGED scene
    PROVE  RunInv'
<1>1. instrAt.at = "poll" /\ instrAt.at \in AtOtto
    BY DEF PollBatch, Doing, AtOtto
<1>2. /\ InstrShape /\ SkusOf(Rows) \in SUBSET InstrSkus
      /\ instr \in ResultRecords /\ InstrRetries \in Nat /\ InstrPolls \in Nat
    BY <1>1, RowsInHand
<1>3. instrAt \in InstrRecords /\ 0 \in 0 .. InstrRetries /\ rejected \in SUBSET InstrSkus
    BY <1>2 DEF InstrShape
<1> DEFINE polls == Min({instrAt.polls + 1, InstrPolls})
<1>0. PICK said \in BOOLEAN :
          \/ /\ instrAt' = [instrAt EXCEPT !.polls = polls, !.attempt = 0]
             /\ UNCHANGED <<ottoSide, instr, instrHistory>>
          \/ /\ PolledNow(said).failed > 0
             /\ instrAt' = [instrAt EXCEPT !.at = "results", !.attempt = 0, !.answer = PolledNow(said)]
             /\ UNCHANGED <<ottoSide, instr, instrHistory>>
          \/ FinishBatch(PolledNow(said))
    BY DEF PollBatch, SaidFailed
<1> DEFINE answer == PolledNow(said)
<1>4. /\ answer \in InstrAnswers
      /\ answer.told => /\ \A p \in SkusOf(Rows) : ottoQueue[p] = Nothing
                        /\ answer.failed = Cardinality(rejected \cap SkusOf(Rows))
                        /\ SkusOf(Rows) \cap dropped # {} => TaskFailed(answer)
    <2>1. Cardinality(rejected \cap SkusOf(Rows)) \in Nat
        BY <1>3, InstrSkusAre
    <2> DEFINE state == IF StillWorking THEN "processing"
                        ELSE IF dropped \cap SkusOf(Rows) # {} THEN "failed" ELSE "done"
    <2>2. answer = [failed |-> IF said THEN Cardinality(rejected \cap SkusOf(Rows)) ELSE 0,
                    state |-> state, told |-> said /\ state # "processing"]
        BY DEF PolledNow
    <2>3. state \in {"processing", "failed", "done"}
        OBVIOUS
    <2>4. state # "processing" => ~StillWorking
        OBVIOUS
    <2>5. ~StillWorking /\ SkusOf(Rows) \cap dropped # {} => state = "failed"
        OBVIOUS
    <2> HIDE DEF answer, state
    <2>6. (said /\ state # "processing") \in BOOLEAN
        OBVIOUS
    <2>7. answer \in InstrAnswers
        BY <2>1, <2>2, <2>3, <2>6 DEF InstrAnswers
    <2>8. answer.told => said /\ ~StillWorking
        BY <2>2, <2>4
    <2>9. answer.told => \A p \in SkusOf(Rows) : ottoQueue[p] = Nothing
        BY <2>8 DEF StillWorking
    <2>10. answer.told => answer.failed = Cardinality(rejected \cap SkusOf(Rows))
        BY <2>2, <2>8
    <2>11. answer.told => (SkusOf(Rows) \cap dropped # {} => TaskFailed(answer))
        BY <2>2, <2>5, <2>8 DEF TaskFailed
    <2> QED
        BY <2>7, <2>9, <2>10, <2>11
<1> DEFINE again == [instrAt EXCEPT !.polls = polls, !.attempt = 0]
           asked == [instrAt EXCEPT !.at = "results", !.attempt = 0, !.answer = answer]
<1>5. \/ instrAt' = again /\ UNCHANGED <<ottoSide, instr, instrHistory>>
      \/ answer.failed > 0 /\ instrAt' = asked /\ UNCHANGED <<ottoSide, instr, instrHistory>>
      \/ FinishBatch(answer)
    BY <1>0
<1> HIDE DEF answer
<1>6. instrAt \in InstrRecords /\ polls \in 0 .. InstrPolls
    <2>1. instrAt.polls \in 0 .. InstrPolls
        BY <1>3 DEF InstrRecords
    <2>2. polls = IF instrAt.polls + 1 <= InstrPolls THEN instrAt.polls + 1 ELSE InstrPolls
        <3>1. instrAt.polls + 1 \in Int /\ InstrPolls \in Int
            BY <2>1, <1>2
        <3> QED
            BY <3>1, SmallerOfTwo
    <2> HIDE DEF polls
    <2> QED
        BY <1>2, <1>3, <2>1, <2>2
<1> HIDE DEF polls
<1>7. /\ again \in InstrRecords /\ again.at = "poll" /\ again.page = instrAt.page /\ again.shown = instrAt.shown
      /\ again.changed = instrAt.changed /\ again.next = instrAt.next
    BY <1>1, <1>3, <1>6 DEF InstrRecords
<1>8. /\ asked \in InstrRecords /\ asked.at = "results" /\ asked.page = instrAt.page
      /\ asked.shown = instrAt.shown
      /\ asked.changed = instrAt.changed /\ asked.next = instrAt.next /\ asked.answer = answer
    <2>1. "results" \in InstrPlaces
        BY DEF InstrPlaces, AtOtto
    <2> QED
        BY <1>3, <1>4, <2>1 DEF InstrRecords
<1> HIDE DEF again, asked
<1>9. CASE FinishBatch(answer)
    BY <1>1, <1>4, <1>9, FinishStep
<1>10. ASSUME UNCHANGED <<ottoSide, instr, instrHistory>>, instrAt'.changed = instrAt.changed,
              instrAt'.next = instrAt.next
       PROVE  /\ UNCHANGED <<language, edition, ottoQueue, rejected, dropped, edits, overtaken, unheard, instr>>
              /\ SkusOf(Rows)' = SkusOf(Rows) /\ GivenInv'
    <2>1. UNCHANGED <<language, edition, ottoQueue, rejected, dropped, edits, overtaken, unheard, instr>>
        BY <1>10 DEF ottoSide, instrHistory
    <2>2. Rows' = Rows
        BY <1>10 DEF Rows
    <2>3. SkusOf(Rows)' = SkusOf(Rows)
        BY <2>2 DEF SkusOf
    <2> QED
        BY <1>1, <2>1, <2>3 DEF RunInv, GivenInv, German
<1>11. CASE instrAt' = again /\ UNCHANGED <<ottoSide, instr, instrHistory>>
    <2>1. ResultsInv' /\ instrAt'.at \in AtOtto
        BY <1>7, <1>11 DEF ResultsInv, AtOtto
    <2> QED
        BY <1>1, <1>2, <1>7, <1>10, <1>11, <2>1, BatchStays
<1>12. CASE answer.failed > 0 /\ instrAt' = asked /\ UNCHANGED <<ottoSide, instr, instrHistory>>
    <2>1. ResultsInv'
        BY <1>4, <1>8, <1>10, <1>12 DEF ResultsInv
    <2>2. instrAt'.at \in AtOtto
        BY <1>8, <1>12 DEF AtOtto
    <2> QED
        BY <1>1, <1>2, <1>8, <1>10, <1>12, <2>1, <2>2, BatchStays
<1> QED
    BY <1>5, <1>9, <1>11, <1>12

LEMMA ResultsStep ==
    ASSUME RunInv, FetchRejected, UNCHANGED scene
    PROVE  RunInv'
<1>1. instrAt.at = "results" /\ FinishBatch(instrAt.answer)
    BY DEF FetchRejected, Doing
<1>2. instrAt.answer \in InstrAnswers
    BY DEF RunInv, InstrShape, InstrRecords
<1>3. /\ TaskFailed(instrAt.answer)
      /\ instrAt.answer.told => /\ \A p \in SkusOf(Rows) : ottoQueue[p] = Nothing
                                /\ instrAt.answer.failed = Cardinality(rejected \cap SkusOf(Rows))
    BY <1>1 DEF RunInv, ResultsInv, TaskFailed
<1> QED
    BY <1>1, <1>2, <1>3, FinishStep

\* A batch whose call is given up: it has not been sent, as far as the run knows, or counts
\* as failed as a whole.
LEMMA BatchFailsStep ==
    ASSUME RunInv, CallFails, instrAt.at # "fetch", UNCHANGED scene
    PROVE  RunInv'
<1>1. instrAt.at \in AtOtto
    BY DEF CallFails, Doing, AtOtto
<1>2. /\ InstrShape /\ SkusOf(Rows) \in SUBSET InstrSkus
      /\ Len(Rows) \in Nat /\ Cardinality(SkusOf(Rows)) <= Len(Rows)
      /\ instr \in ResultRecords /\ instr.failed \in Nat
    BY <1>1, RowsInHand
<1>3. /\ instrAt' = AfterBatch
      /\ instr' = [instr EXCEPT !.status = "failed", !.failed = @ + LostWith(Len(Rows))]
      /\ unheard' = unheard \cup (IF Doing("submit") THEN SkusOf(Rows) ELSE {})
      /\ UNCHANGED <<language, edition, ottoQueue, rejected, dropped, edits, overtaken>>
    BY DEF CallFails, ottoSide, Doing
<1>4. /\ instr' \in ResultRecords /\ instr'.scanned = instr.scanned
      /\ instr'.failed = instr.failed + Len(Rows) /\ instr'.status = "failed"
    <2>1. LostWith(Len(Rows)) = Len(Rows) /\ instr.failed + Len(Rows) \in Nat
        BY <1>2 DEF LostWith
    <2> QED
        BY <1>2, <1>3, <2>1 DEF ResultRecords
<1>5. unheard \subseteq unheard' /\ unheard' \subseteq InstrSkus
    BY <1>2, <1>3 DEF InstrShape
<1> DEFINE D == SkusOf(Rows)
<1>6. D \in SUBSET InstrSkus /\ instr'.failed >= instr.failed + Cardinality(D)
    <2>1. Cardinality(D) \in Nat /\ Cardinality(D) <= Len(Rows)
        BY <1>2, InstrSkusAre
    <2> QED
        BY <1>2, <1>4, <2>1
<1>7. \A p \in SkusOf(Rows) : p \notin unheard' \cup D => p \notin rejected' /\ ottoQueue'[p] = Nothing
    OBVIOUS
<1> HIDE DEF D
<1> QED
    BY <1>1, <1>3, <1>4, <1>5, <1>6, <1>7, BatchEnds

LEMMA BatchAgainStep ==
    ASSUME RunInv, CallAgain, instrAt.at # "fetch", UNCHANGED scene
    PROVE  RunInv'
<1>1. instrAt.at \in AtOtto
    BY DEF CallAgain, AtOtto
<1>2. InstrShape /\ instrAt \in InstrRecords /\ instr \in ResultRecords /\ InstrRetries \in Nat
      /\ instrAt.next \in DOMAIN instrAt.changed
    BY <1>1, RowsInHand DEF InstrShape
<1> DEFINE new == [instrAt EXCEPT !.attempt = @ + 1]
<1>3. /\ instrAt' = new /\ instrAt.attempt < InstrRetries
      /\ (Give(Rows) /\ instrAt.at = "submit") \/ UNCHANGED <<ottoQueue, rejected, dropped>>
      /\ UNCHANGED <<language, edition, instr, edits, overtaken, unheard>>
    BY DEF CallAgain, MayRetryCall, instrHistory, Doing
<1>4. instrAt.attempt + 1 \in 0 .. InstrRetries
    <2>1. instrAt.attempt \in Nat
        BY <1>2 DEF InstrRecords
    <2> QED
        BY <1>2, <1>3, <2>1
<1>5. /\ new \in InstrRecords
      /\ new.at = instrAt.at /\ new.page = instrAt.page /\ new.shown = instrAt.shown
      /\ new.changed = instrAt.changed /\ new.next = instrAt.next /\ new.answer = instrAt.answer
    BY <1>2, <1>4 DEF InstrRecords
<1> HIDE DEF new
<1>6. Rows' = Rows
    BY <1>3, <1>5 DEF Rows
<1>7. SkusOf(Rows)' = SkusOf(Rows)
    BY <1>6 DEF SkusOf
<1>8. instrAt.at \in {"poll", "results"} => UNCHANGED <<ottoQueue, rejected, dropped>>
    BY <1>3
<1>9. GivenInv'
    BY <1>3, <1>5, <1>7, <1>8 DEF RunInv, GivenInv, German
<1>10. ResultsInv'
    BY <1>3, <1>5, <1>7, <1>8 DEF RunInv, ResultsInv
<1> QED
    BY <1>1, <1>2, <1>3, <1>5, <1>9, <1>10, BatchStays

\* A step between the batches.
LEMMA OutsideStep ==
    ASSUME RunInv, instrAt.at \notin AtOtto, instrAt'.at \notin AtOtto, UNCHANGED scene,
           UNCHANGED <<ottoSide, instrHistory>>,
           instrAt' \in InstrRecords, instr' \in ResultRecords,
           instr'.scanned = instr.scanned, instr'.failed = instr.failed, instr'.sent = instr.sent,
           instr'.status = "done" => instr.status = "done",
           Fetched \subseteq Fetched', Fetched' \subseteq DOMAIN Pages,
           WentWell' => Fetched' = Fetched,
           ShownInv', EndInv'
    PROVE  RunInv'
<1>1. InstrShape /\ OneWay
    BY DEF RunInv
<1>2. /\ \A e : May(e)' <=> May(e)
      /\ OneWay' /\ Pages' = Pages
      /\ HasLimit' <=> HasLimit
    BY <1>1, SameScene
<1>3. UNCHANGED <<language, edition, ottoQueue, rejected, dropped, edits, overtaken, unheard>>
    BY DEF ottoSide, instrHistory
<1>4. InstrShape'
    BY <1>1, <1>3 DEF InstrShape
<1>5. WhereInv' /\ ResultsInv' /\ GivenInv'
    BY DEF WhereInv, ResultsInv, GivenInv, AtOtto
<1>6. DryInv' /\ LanguageInv' /\ LimitInv'
    BY <1>2, <1>3 DEF RunInv, DryInv, LanguageInv, LimitInv, German
<1>7. VersionInv' /\ EditInv'
    BY <1>3 DEF RunInv, VersionInv, EditInv
<1>8. FailedInv'
    <2>1. PICK lost \in SUBSET InstrSkus : Cardinality(lost) <= instr.failed /\ Settled(lost)
        BY DEF RunInv, FailedInv
    <2>2. InBatch' = InBatch
        BY DEF InBatch
    <2>3. Settled(lost)'
        BY <2>1, <2>2, <1>3 DEF Settled
    <2>4. \E more \in SUBSET InstrSkus : Cardinality(more) <= instr'.failed /\ Settled(more)'
        BY <2>1, <2>3
    <2>5. instr'.failed > 0 => instr'.status = "failed"
        BY DEF RunInv, FailedInv, ResultRecords
    <2>6. instr'.status = "failed" \/ dropped \subseteq unheard \cup InBatch
        BY DEF RunInv, FailedInv, ResultRecords
    <2> QED
        BY <1>3, <2>2, <2>4, <2>5, <2>6 DEF FailedInv
<1>9. GermanInv'
    BY <1>2, <1>3 DEF RunInv, GermanInv, WentWell, ToCome, German
<1>10. ScannedInv'
    <2>1. FetchedSkus \subseteq FetchedSkus' /\ FetchedSkus' \subseteq InstrSkus
        <3>1. FetchedSkus' = UNION {ToSet(Pages[n]) : n \in Fetched'}
            BY <1>2 DEF FetchedSkus
        <3>2. \A n \in Fetched' : ToSet(Pages[n]) \subseteq InstrSkus
            BY <1>1, PageSkusAre
        <3> QED
            BY <3>1, <3>2 DEF FetchedSkus
    <2>2. /\ Cardinality(FetchedSkus) <= Cardinality(FetchedSkus')
          /\ Cardinality(FetchedSkus) \in Nat /\ Cardinality(FetchedSkus') \in Nat
        <3>1. FetchedSkus \in SUBSET InstrSkus /\ FetchedSkus' \in SUBSET InstrSkus
            BY <2>1
        <3> HIDE DEF FetchedSkus
        <3> QED
            BY <2>1, <3>1, InstrSkusAre
    <2>3. Cardinality(FetchedSkus)' = Cardinality(FetchedSkus')
        OBVIOUS
    <2>4. instr.scanned \in Nat /\ instr.scanned <= Cardinality(FetchedSkus)
        BY <1>1 DEF InstrShape, ResultRecords, RunInv, ScannedInv
    <2>5. instr'.scanned <= Cardinality(FetchedSkus')
        BY <2>2, <2>4, AtMost
    <2> QED
        BY <2>5 DEF ScannedInv
<1> QED
    BY <1>2, <1>4, <1>5, <1>6, <1>7, <1>8, <1>9, <1>10 DEF RunInv

\* The run ends before its next page.
LEMMA FetchEnds ==
    ASSUME RunInv, instrAt.at = "fetch", instrAt' = [instrAt EXCEPT !.at = "ended"],
           UNCHANGED scene, UNCHANGED <<ottoSide, instrHistory>>,
           instr' \in ResultRecords, instr'.scanned = instr.scanned, instr'.failed = instr.failed,
           instr'.sent = instr.sent, instr'.status = "done" => instr.status = "done",
           HasLimit \/ instr'.status = "failed"
    PROVE  RunInv'
<1>1. InstrShape /\ OneWay /\ instrAt \in InstrRecords
    BY DEF RunInv, InstrShape
<1>2. /\ \A e : May(e)' <=> May(e)
      /\ Pages' = Pages /\ (HasLimit' <=> HasLimit)
    BY <1>1, SameScene
<1>3. instrAt' \in InstrRecords /\ instrAt'.at = "ended" /\ instrAt'.page = instrAt.page
    BY <1>1 DEF InstrRecords, InstrPlaces
<1>4. ~WentWell'
    BY <1>2 DEF WentWell
<1>5. Fetched \subseteq Fetched' /\ Fetched' \subseteq DOMAIN Pages
    BY <1>2, <1>3 DEF Fetched
<1>6. ShownInv' /\ EndInv'
    BY <1>3, <1>4 DEF ShownInv, EndInv, AtOtto
<1>7. instrAt.at \notin AtOtto /\ instrAt'.at \notin AtOtto
    BY <1>3 DEF AtOtto
<1> QED
    BY <1>3, <1>4, <1>5, <1>6, <1>7, OutsideStep

LEMMA LimitStep ==
    ASSUME RunInv, ReachLimit, UNCHANGED scene
    PROVE  RunInv'
<1>1. /\ instrAt.at = "fetch" /\ HasLimit /\ instrAt' = [instrAt EXCEPT !.at = "ended"]
      /\ UNCHANGED <<ottoSide, instrHistory>> /\ instr' = instr
    BY DEF ReachLimit, Doing, LimitReached
<1>2. instr \in ResultRecords
    BY DEF RunInv, InstrShape
<1> QED
    BY <1>1, <1>2, FetchEnds

LEMMA FetchFailsStep ==
    ASSUME RunInv, CallFails, instrAt.at = "fetch", UNCHANGED scene
    PROVE  RunInv'
<1>1. instr \in ResultRecords
    BY DEF RunInv, InstrShape
<1>2. /\ instrAt' = [instrAt EXCEPT !.at = "ended"] /\ instr' = [instr EXCEPT !.status = "failed"]
      /\ UNCHANGED <<ottoSide, edits, overtaken>> /\ UNCHANGED unheard
    BY DEF CallFails
<1>3. /\ instr' \in ResultRecords /\ instr'.scanned = instr.scanned /\ instr'.failed = instr.failed
      /\ instr'.sent = instr.sent /\ instr'.status = "failed"
    BY <1>1, <1>2 DEF ResultRecords
<1>4. UNCHANGED <<ottoSide, instrHistory>>
    BY <1>2 DEF instrHistory
<1> QED
    BY <1>2, <1>3, <1>4, FetchEnds

LEMMA FetchAgainStep ==
    ASSUME RunInv, CallAgain, instrAt.at = "fetch", UNCHANGED scene
    PROVE  RunInv'
<1>1. InstrShape /\ OneWay /\ instrAt \in InstrRecords /\ instr \in ResultRecords /\ InstrRetries \in Nat
    BY InstructionAssumption DEF RunInv, InstrShape
<1>2. /\ instrAt' = [instrAt EXCEPT !.attempt = @ + 1] /\ instrAt.attempt < InstrRetries
      /\ UNCHANGED <<ottoQueue, rejected, dropped, language, edition, instr, instrHistory>>
    BY DEF CallAgain, MayRetryCall, Doing
<1>3. instrAt.attempt + 1 \in 0 .. InstrRetries
    <2>1. instrAt.attempt \in Nat
        BY <1>1 DEF InstrRecords
    <2> QED
        BY <1>1, <1>2, <2>1
<1>4. instrAt' \in InstrRecords /\ instrAt'.at = "fetch" /\ instrAt'.page = instrAt.page
    BY <1>1, <1>2, <1>3 DEF InstrRecords
<1>5. Pages' = Pages
    BY <1>1, SameScene
<1>6. Fetched' = Fetched /\ Fetched' \subseteq DOMAIN Pages
    BY <1>4, <1>5 DEF Fetched
<1>7. ShownInv' /\ EndInv'
    BY <1>4 DEF ShownInv, EndInv, AtOtto, Doing
<1>8. instrAt.at \notin AtOtto /\ instrAt'.at \notin AtOtto
    BY <1>4 DEF AtOtto
<1>9. UNCHANGED <<ottoSide, instrHistory>> /\ instr' = instr
    BY <1>2 DEF ottoSide, instrHistory
<1> QED
    BY <1>1, <1>4, <1>6, <1>7, <1>8, <1>9, OutsideStep

\* The last page, by whichever sign, is the last of OTTO's list.
LEMMA TurnStep ==
    ASSUME RunInv, TurnPage, UNCHANGED scene
    PROVE  RunInv'
<1>1. InstrShape /\ OneWay /\ instrAt \in InstrRecords /\ instr \in ResultRecords
    BY DEF RunInv, InstrShape
<1>2. /\ \A e : May(e)' <=> May(e)
      /\ Pages' = Pages /\ (HasLimit' <=> HasLimit)
    BY <1>1, SameScene
<1>3. /\ instrAt.at = "turn" /\ UNCHANGED <<ottoSide, instrHistory>> /\ instr' = instr
      /\ \/ IsLastPage /\ instrAt' = [instrAt EXCEPT !.at = "ended"]
         \/ instrAt' = [instrAt EXCEPT !.at = "fetch", !.page = @ + 1]
    BY DEF TurnPage, Doing
<1>4. instrAt.page \in Nat \ {0} /\ instrAt.page + 1 \in Nat \ {0}
    BY <1>1 DEF InstrRecords
<1>5. /\ Len(Pages) \in Nat /\ DOMAIN Pages = 1 .. Len(Pages)
      /\ \A n \in DOMAIN Pages : Len(Pages[n]) \in Nat \ {0}
      /\ ~May("links") => \A n \in DOMAIN Pages : n < Len(Pages) => Len(Pages[n]) >= InstrPage
    BY <1>1, PagesAre
<1>6. Fetched = {n \in DOMAIN Pages : n <= instrAt.page}
    BY <1>3, <1>4, <1>5 DEF Fetched
<1>7. /\ instrAt' \in InstrRecords /\ instrAt'.at \in {"ended", "fetch"}
      /\ instrAt'.at = "ended" => IsLastPage /\ instrAt'.page = instrAt.page
      /\ instrAt'.at = "fetch" => instrAt'.page = instrAt.page + 1
    <2>1. CASE IsLastPage /\ instrAt' = [instrAt EXCEPT !.at = "ended"]
        BY <1>1, <2>1 DEF InstrRecords, InstrPlaces
    <2>2. CASE instrAt' = [instrAt EXCEPT !.at = "fetch", !.page = @ + 1]
        BY <1>1, <1>4, <2>2 DEF InstrRecords, InstrPlaces
    <2> QED
        BY <1>3, <2>1, <2>2
<1>8. Fetched' = Fetched
    <2>1. Fetched' = {n \in DOMAIN Pages : n < instrAt'.page \/ (n = instrAt'.page /\ instrAt'.at # "fetch")}
        BY <1>2 DEF Fetched
    <2>2. \A n \in DOMAIN Pages : n \in Nat
        BY <1>5
    <2> QED
        BY <1>4, <1>6, <1>7, <2>1, <2>2
<1>9. ShownInv'
    BY <1>7 DEF ShownInv, AtOtto
<1>10. ASSUME IsLastPage, WentWell PROVE ListedSkus \subseteq FetchedSkus
    <2>1. instrAt.shown = IF instrAt.page \in DOMAIN Pages THEN Len(Pages[instrAt.page]) ELSE 0
        BY <1>3, <1>10 DEF RunInv, ShownInv, WentWell
    <2>2. ASSUME instrAt.page >= Len(Pages) PROVE ListedSkus \subseteq FetchedSkus
        <3>1. Fetched = DOMAIN Pages
            BY <2>2, <1>4, <1>5, <1>6
        <3> QED
            BY <3>1 DEF ListedSkus, FetchedSkus
    <2>3. CASE instrAt.shown = 0
        <3>1. instrAt.page \notin DOMAIN Pages
            BY <2>1, <2>3, <1>5
        <3>2. instrAt.page >= Len(Pages)
            BY <3>1, <1>4, <1>5
        <3> QED
            BY <2>2, <3>2
    <2>4. CASE May("total") /\ instr.scanned >= Cardinality(ListedSkus)
        <3>1. FetchedSkus \in SUBSET ListedSkus /\ ListedSkus \in SUBSET InstrSkus
            <4>1. \A n \in DOMAIN Pages : ToSet(Pages[n]) \subseteq InstrSkus
                BY <1>1, PageSkusAre
            <4> QED
                BY <4>1, <1>6 DEF FetchedSkus, ListedSkus
        <3>2. instr.scanned <= Cardinality(FetchedSkus) /\ instr.scanned \in Nat
            BY <1>1 DEF RunInv, ScannedInv, ResultRecords
        <3> HIDE DEF FetchedSkus, ListedSkus
        <3>3. FetchedSkus \in SUBSET InstrSkus
            BY <3>1
        <3>4. IsFiniteSet(ListedSkus) /\ Cardinality(ListedSkus) \in Nat /\ Cardinality(FetchedSkus) \in Nat
            BY <3>1, <3>3, InstrSkusAre
        <3>5. Cardinality(FetchedSkus) <= Cardinality(ListedSkus)
              /\ (Cardinality(FetchedSkus) = Cardinality(ListedSkus) => FetchedSkus = ListedSkus)
            BY <3>1, <3>4, FS_Subset
        <3>6. Cardinality(FetchedSkus) = Cardinality(ListedSkus)
            BY <2>4, <3>2, <3>4, <3>5
        <3> QED
            BY <3>5, <3>6
    <2>5. CASE ~May("links") /\ instrAt.shown < InstrPage
        <3>1. InstrPage \in Nat
            BY InstructionAssumption
        <3>2. instrAt.page >= Len(Pages)
            <4>1. CASE instrAt.page \in DOMAIN Pages
                <5>1. instrAt.shown = Len(Pages[instrAt.page]) /\ Len(Pages[instrAt.page]) \in Nat
                    BY <2>1, <4>1, <1>5
                <5>2. ~(Len(Pages[instrAt.page]) >= InstrPage)
                    BY <5>1, <2>5, <3>1
                <5>3. ~(instrAt.page < Len(Pages))
                    BY <5>2, <2>5, <4>1, <1>5
                <5> QED
                    BY <5>3, <1>4, <1>5
            <4>2. CASE instrAt.page \notin DOMAIN Pages
                BY <4>2, <1>4, <1>5
            <4> QED
                BY <4>1, <4>2
        <3> QED
            BY <2>2, <3>2
    <2> QED
        BY <1>10, <2>2, <2>3, <2>4, <2>5 DEF IsLastPage
<1>11. EndInv'
    <2>1. (ListedSkus \subseteq FetchedSkus)' <=> ListedSkus \subseteq FetchedSkus
        BY <1>2, <1>8 DEF ListedSkus, FetchedSkus
    <2>2. WentWell' => WentWell
        BY <1>2, <1>3 DEF WentWell, instrHistory
    <2> QED
        BY <1>7, <1>10, <2>1, <2>2 DEF EndInv, Doing
<1>12. instrAt.at \notin AtOtto /\ instrAt'.at \notin AtOtto /\ Fetched' \subseteq DOMAIN Pages
    BY <1>3, <1>6, <1>7, <1>8 DEF AtOtto
<1> QED
    BY <1>1, <1>3, <1>7, <1>8, <1>9, <1>11, <1>12, OutsideStep

\* OTTO has worked on a product, or has dropped it with its task.
LEMMA ApplyStep ==
    ASSUME RunInv, NEW p \in InstrSkus, OttoApplies(p) \/ OttoDrops(p), UNCHANGED scene
    PROVE  RunInv'
<1>1. InstrShape /\ OneWay
    BY DEF RunInv
<1>2. /\ \A e : May(e)' <=> May(e)
      /\ OneWay' /\ Pages' = Pages
      /\ HasLimit' <=> HasLimit
    BY <1>1, SameScene
<1>3. /\ ottoQueue[p] # Nothing /\ ottoQueue' = [ottoQueue EXCEPT ![p] = Nothing]
      /\ UNCHANGED <<instrAt, instr, edits, overtaken, unheard>>
      /\ \/ /\ language' = [language EXCEPT ![p] = [n \in DOMAIN @ |-> "de"]]
            /\ edition' = [edition EXCEPT ![p] = ottoQueue[p]] /\ UNCHANGED <<rejected, dropped>>
         \/ rejected' = rejected \cup {p} /\ UNCHANGED <<language, edition, dropped>>
         \/ dropped' = dropped \cup {p} /\ UNCHANGED <<language, edition, rejected>>
    BY DEF OttoApplies, OttoDrops, instrHistory
<1>4. /\ ottoQueue \in [InstrSkus -> {Nothing} \cup Nat] /\ edition \in [InstrSkus -> Nat]
      /\ language \in [InstrSkus -> Seq({"de", "en"})]
      /\ edits \in [InstrSkus -> Nat]
    BY <1>1 DEF InstrShape
<1>5. ottoQueue[p] \in Nat
    BY <1>3, <1>4
<1>6. /\ ottoQueue' \in [InstrSkus -> {Nothing} \cup Nat] /\ ottoQueue'[p] = Nothing
      /\ \A q \in InstrSkus : q # p => ottoQueue'[q] = ottoQueue[q]
    BY <1>3, <1>4
<1>7. /\ edition' \in [InstrSkus -> Nat] /\ edition'[p] \in {edition[p], ottoQueue[p]}
      /\ \A q \in InstrSkus : q # p => edition'[q] = edition[q]
    BY <1>3, <1>4, <1>5
<1>8. /\ rejected \subseteq rejected' /\ rejected' \subseteq rejected \cup {p}
      /\ dropped \subseteq dropped' /\ dropped' \subseteq dropped \cup {p}
    BY <1>3
<1>9. /\ language' \in [InstrSkus -> Seq({"de", "en"})]
      /\ \A q \in InstrSkus : q # p => language'[q] = language[q]
      /\ language' = language \/ German(p)'
    <2> DEFINE new == [n \in DOMAIN language[p] |-> "de"]
    <2>1. Len(language[p]) \in Nat /\ DOMAIN language[p] = 1 .. Len(language[p])
        BY <1>4, LenProperties
    <2>2. new \in Seq({"de", "en"})
        BY <2>1, SequenceOf
    <2>3. \A n \in DOMAIN new : new[n] = "de"
        OBVIOUS
    <2>4. language' = language \/ language' = [language EXCEPT ![p] = new]
        BY <1>3
    <2> HIDE DEF new
    <2> QED
        BY <2>2, <2>3, <2>4, <1>4 DEF German
<1>10. \A q \in InstrSkus : German(q) => German(q)'
    BY <1>9 DEF German
<1>11. German(p)' \/ p \in rejected' \cup dropped'
    BY <1>3, <1>4, <1>9 DEF German
<1>12. InstrShape'
    BY <1>1, <1>3, <1>6, <1>7, <1>8, <1>9 DEF InstrShape
<1>13. WhereInv' /\ LimitInv' /\ ShownInv'
    BY <1>2, <1>3 DEF RunInv, WhereInv, LimitInv, ShownInv, NeededChange
<1>14. DryInv'
    BY <1>2, <1>3 DEF RunInv, DryInv
<1>15. LanguageInv'
    <2>1. LanguageInv
        BY DEF RunInv
    <2> QED
        BY <2>1, <1>9, <1>10 DEF LanguageInv
<1>16. VersionInv'
    <2>1. VersionInv
        BY DEF RunInv
    <2>2. ASSUME NEW q \in InstrSkus
          PROVE  edition'[q] <= edits[q] /\ (ottoQueue'[q] # Nothing => ottoQueue'[q] <= edits[q])
        <3>1. CASE q = p
            BY <2>1, <3>1, <1>3, <1>6, <1>7 DEF VersionInv
        <3>2. CASE q # p
            BY <2>1, <3>2, <1>6, <1>7 DEF VersionInv
        <3> QED
            BY <3>1, <3>2
    <2> QED
        BY <2>1, <2>2, <1>3 DEF VersionInv
<1>17. EditInv'
    <2>1. EditInv
        BY DEF RunInv
    <2>2. ASSUME NEW q \in InstrSkus \ overtaken
          PROVE  edition'[q] = edits[q] /\ ottoQueue'[q] \in {Nothing, edits[q]}
        <3>1. CASE q = p
            BY <2>1, <3>1, <1>3, <1>6, <1>7 DEF EditInv
        <3>2. CASE q # p
            BY <2>1, <3>2, <1>6, <1>7 DEF EditInv
        <3> QED
            BY <3>1, <3>2
    <2> QED
        BY <2>1, <2>2, <1>3 DEF EditInv
<1>18. Rows' = Rows /\ SkusOf(Rows)' = SkusOf(Rows) /\ InBatch' = InBatch
    <2>1. Rows' = Rows
        BY <1>3 DEF Rows
    <2> QED
        BY <2>1, <1>3 DEF SkusOf, InBatch
<1>19. FailedInv'
    <2>1. PICK lost \in SUBSET InstrSkus : Cardinality(lost) <= instr.failed /\ Settled(lost)
        BY DEF RunInv, FailedInv
    <2>2. p \in unheard \cup lost \cup InBatch
        BY <2>1, <1>3 DEF Settled
    <2>3. ASSUME NEW q \in InstrSkus \ (unheard \cup lost \cup InBatch)
          PROVE  q \notin rejected' /\ ottoQueue'[q] = Nothing
        <3>1. q # p
            BY <2>2
        <3> QED
            BY <2>1, <3>1, <1>6, <1>8 DEF Settled
    <2>4. Settled(lost)'
        BY <2>3, <1>3, <1>18 DEF Settled
    <2>5. \E more \in SUBSET InstrSkus : Cardinality(more) <= instr'.failed /\ Settled(more)'
        BY <2>1, <2>4, <1>3
    <2>6. instr.status = "failed" \/ dropped' \subseteq unheard \cup InBatch
        <3>1. CASE p \in unheard \cup InBatch
            BY <3>1, <1>8 DEF RunInv, FailedInv
        <3>2. CASE p \in lost
            <4>1. Cardinality(lost) \in Nat /\ Cardinality(lost) # 0
                BY <3>2, InstrSkusAre, FS_EmptySet
            <4>2. instr.failed \in Nat /\ instr.failed >= Cardinality(lost)
                BY <2>1, <1>1 DEF InstrShape, ResultRecords
            <4>3. instr.failed > 0
                BY <4>1, <4>2
            <4> QED
                BY <4>3 DEF RunInv, FailedInv
        <3> QED
            BY <2>2, <3>1, <3>2
    <2>7. instr.failed > 0 => instr.status = "failed"
        BY DEF RunInv, FailedInv
    <2> QED
        BY <2>5, <2>6, <2>7, <1>3, <1>18 DEF FailedInv
<1>20. ResultsInv'
    <2> SUFFICES ASSUME instrAt.at = "results", instrAt.answer.told
                 PROVE  /\ \A q \in SkusOf(Rows) : ottoQueue'[q] = Nothing
                        /\ rejected' \cap SkusOf(Rows) = rejected \cap SkusOf(Rows)
        BY <1>3, <1>18 DEF RunInv, ResultsInv
    <2>1. \A q \in SkusOf(Rows) : ottoQueue[q] = Nothing
        BY DEF RunInv, ResultsInv
    <2>2. p \notin SkusOf(Rows) /\ SkusOf(Rows) \in SUBSET InstrSkus
        <3>1. instrAt.at \in AtOtto
            BY DEF AtOtto
        <3> QED
            BY <2>1, <3>1, <1>3, RowsInHand
    <2> QED
        BY <2>1, <2>2, <1>6, <1>8
<1>21. GivenInv'
    <2> SUFFICES ASSUME instrAt.at \in {"poll", "results"}, NEW q \in SkusOf(Rows)
                 PROVE  ottoQueue'[q] # Nothing \/ German(q)' \/ q \in rejected' \cup dropped'
        BY <1>3, <1>18 DEF GivenInv
    <2>1. q \in InstrSkus
        <3>1. instrAt.at \in AtOtto
            BY DEF AtOtto
        <3> QED
            BY <3>1, RowsInHand
    <2>2. ottoQueue[q] # Nothing \/ German(q) \/ q \in rejected \cup dropped
        BY DEF RunInv, GivenInv
    <2>3. CASE q = p
        BY <2>3, <1>11
    <2>4. CASE q # p
        BY <2>1, <2>2, <2>4, <1>6, <1>8, <1>10
    <2> QED
        BY <2>3, <2>4
<1>22. Fetched' = Fetched /\ FetchedSkus' = FetchedSkus
    BY <1>2, <1>3 DEF Fetched, FetchedSkus
<1>23. GermanInv'
    <2> SUFFICES ASSUME WentWell', NEW n \in Fetched, NEW q \in ToSet(Pages[n])
                 PROVE  German(q)' \/ (n = instrAt.page /\ ToCome(q)')
        BY <1>2, <1>3, <1>22 DEF GermanInv
    <2>1. German(q) \/ (n = instrAt.page /\ ToCome(q))
        BY <1>2, <1>3 DEF RunInv, GermanInv, WentWell
    <2>2. q \in InstrSkus
        BY <1>1, PageSkusAre DEF Fetched
    <2>3. ToCome(q)' <=> ToCome(q)
        BY <1>3 DEF ToCome
    <2> QED
        BY <2>1, <2>2, <2>3, <1>10
<1>24. ScannedInv' /\ EndInv'
    BY <1>2, <1>3, <1>22 DEF RunInv, ScannedInv, EndInv, Doing, WentWell, ListedSkus
<1> QED
    BY <1>2, <1>12, <1>13, <1>14, <1>15, <1>16, <1>17, <1>19, <1>20, <1>21, <1>23, <1>24 DEF RunInv

LEMMA EditStep ==
    ASSUME RunInv, NEW p \in InstrSkus, SellerEdits(p), UNCHANGED scene
    PROVE  RunInv'
<1>1. InstrShape /\ OneWay
    BY DEF RunInv
<1>2. /\ \A e : May(e)' <=> May(e)
      /\ OneWay' /\ Pages' = Pages
      /\ HasLimit' <=> HasLimit
    BY <1>1, SameScene
<1>3. /\ edits[p] = 0
      /\ edits' = [edits EXCEPT ![p] = edits[p] + 1] /\ edition' = [edition EXCEPT ![p] = edits[p] + 1]
      /\ overtaken' = IF (instrAt.at \in AtOtto /\ p \in ToSet(Pages[instrAt.page]) /\ NeededChange(p))
                         \/ ottoQueue[p] # Nothing
                      THEN overtaken \cup {p} ELSE overtaken
      /\ UNCHANGED <<language, ottoQueue, rejected, dropped, instrAt, instr, unheard>>
    BY DEF SellerEdits, AtOtto, NeededChange
<1>4. /\ edition \in [InstrSkus -> Nat] /\ edits \in [InstrSkus -> Nat]
    BY <1>1 DEF InstrShape
<1>5. /\ edition' \in [InstrSkus -> Nat] /\ edits' \in [InstrSkus -> Nat]
      /\ edition'[p] = 1 /\ edits'[p] = 1
      /\ \A q \in InstrSkus : q # p => edition'[q] = edition[q] /\ edits'[q] = edits[q]
    BY <1>3, <1>4
<1>6. overtaken \subseteq overtaken' /\ overtaken' \subseteq InstrSkus
    BY <1>1, <1>3 DEF InstrShape
<1>7. InstrShape'
    BY <1>1, <1>3, <1>5, <1>6 DEF InstrShape
<1>8. WhereInv' /\ LimitInv' /\ ShownInv' /\ DryInv' /\ LanguageInv'
    BY <1>2, <1>3 DEF RunInv, WhereInv, LimitInv, ShownInv, NeededChange, DryInv, LanguageInv, German
<1>9. \A q \in InstrSkus : edits[q] <= edits'[q] /\ edits[q] \in Nat /\ edits'[q] \in Nat
    <2> TAKE q \in InstrSkus
    <2>1. CASE q = p
        BY <2>1, <1>3, <1>5
    <2>2. CASE q # p
        BY <2>2, <1>4, <1>5
    <2> QED
        BY <2>1, <2>2
<1>10. instrAt.changed \in Seq(InstrSkus \X Nat)
       /\ \A n \in DOMAIN instrAt.changed : instrAt.changed[n][1] \in InstrSkus /\ instrAt.changed[n][2] \in Nat
    <2>1. instrAt.changed \in Seq(InstrSkus \X Nat)
        BY <1>1 DEF InstrShape, InstrRecords
    <2>2. \A n \in DOMAIN instrAt.changed : instrAt.changed[n] \in InstrSkus \X Nat
        BY <2>1, LenProperties
    <2> QED
        BY <2>1, <2>2
<1>11. VersionInv'
    <2>1. VersionInv
        BY DEF RunInv
    <2>2. ASSUME NEW q \in InstrSkus
          PROVE  edition'[q] <= edits'[q] /\ (ottoQueue[q] # Nothing => ottoQueue[q] <= edits'[q])
        <3>1. edition'[q] <= edits'[q]
            BY <2>1, <1>5 DEF VersionInv
        <3>2. ASSUME ottoQueue[q] # Nothing PROVE ottoQueue[q] <= edits'[q]
            <4>1. ottoQueue[q] <= edits[q] /\ ottoQueue[q] \in Nat
                BY <2>1, <3>2, <1>1 DEF VersionInv, InstrShape
            <4> QED
                BY <4>1, <1>9, AtMost
        <3> QED
            BY <3>1, <3>2
    <2>3. ASSUME instrAt.at \in AtOtto, NEW n \in DOMAIN instrAt.changed
          PROVE  instrAt.changed[n][2] <= edits'[instrAt.changed[n][1]]
        <3>1. instrAt.changed[n][2] <= edits[instrAt.changed[n][1]]
            BY <2>1, <2>3 DEF VersionInv
        <3> QED
            BY <3>1, <1>9, <1>10, AtMost
    <2> QED
        BY <2>2, <2>3, <1>3 DEF VersionInv
<1>12. EditInv'
    <2>1. EditInv
        BY DEF RunInv
    <2>2. ASSUME NEW q \in InstrSkus \ overtaken'
          PROVE  edition'[q] = edits'[q] /\ ottoQueue[q] \in {Nothing, edits'[q]}
        <3>1. CASE q = p
            BY <2>2, <3>1, <1>3, <1>5
        <3>2. CASE q # p
            BY <2>1, <3>2, <1>5, <1>6 DEF EditInv
        <3> QED
            BY <3>1, <3>2
    <2>3. ASSUME instrAt.at \in AtOtto, NEW n \in DOMAIN instrAt.changed,
                 instrAt.changed[n][1] \notin overtaken'
          PROVE  instrAt.changed[n][2] = edits'[instrAt.changed[n][1]]
        <3>1. instrAt.changed[n][1] # p
            BY <2>3, <1>3 DEF RunInv, WhereInv
        <3> QED
            BY <2>1, <2>3, <3>1, <1>5, <1>6, <1>10 DEF EditInv
    <2> QED
        BY <2>2, <2>3, <1>3 DEF EditInv
<1>13. Rows' = Rows /\ SkusOf(Rows)' = SkusOf(Rows) /\ InBatch' = InBatch
    <2>1. Rows' = Rows
        BY <1>3 DEF Rows
    <2> QED
        BY <2>1, <1>3 DEF SkusOf, InBatch
<1>14. FailedInv' /\ ResultsInv' /\ GivenInv'
    BY <1>3, <1>13 DEF RunInv, FailedInv, Settled, ResultsInv, GivenInv, German
<1>15. Fetched' = Fetched /\ FetchedSkus' = FetchedSkus
    BY <1>2, <1>3 DEF Fetched, FetchedSkus
<1>16. GermanInv' /\ ScannedInv' /\ EndInv'
    BY <1>2, <1>3, <1>15
    DEF RunInv, GermanInv, ScannedInv, EndInv, Doing, WentWell, ListedSkus, ToCome, German
<1> QED
    BY <1>2, <1>7, <1>8, <1>11, <1>12, <1>14, <1>16 DEF RunInv

\* The products a page brings, under the limit.
LEMMA ProductsAre ==
    ASSUME OneWay, instr.scanned \in Nat, instrAt.page \in Nat \ {0}, ~LimitReached
    PROVE  LET page == IF instrAt.page \in DOMAIN Pages THEN Pages[instrAt.page] ELSE <<>>
               products == Remaining(page)
           IN  /\ products \in Seq(InstrSkus) /\ Len(products) \in Nat
               /\ Len(products) <= Len(page) /\ Len(page) \in Nat
               /\ ToSet(products) \subseteq ToSet(page)
               /\ ~HasLimit => products = page
               /\ HasLimit => instr.scanned + Len(products) <= ScanLimit
               /\ instrAt.page \notin DOMAIN Pages => Len(products) = 0 /\ ToSet(products) = {}
<1> DEFINE page == IF instrAt.page \in DOMAIN Pages THEN Pages[instrAt.page] ELSE <<>>
           size == Min({Len(page), ScanLimit - instr.scanned})
           products == Remaining(page)
<1>1. page \in Seq(InstrSkus)
    BY PagesAre, EmptySeq
<1>2. instrAt.page \notin DOMAIN Pages => Len(page) = 0
    BY EmptySeq
<1>3. products = IF HasLimit THEN SubSeq(page, 1, size) ELSE page
    BY DEF Remaining
<1>4. Len(page) \in Nat /\ DOMAIN page = 1 .. Len(page) /\ \A i \in 1 .. Len(page) : page[i] \in InstrSkus
    BY <1>1, LenProperties
<1>5. ScanLimit \in Nat /\ (HasLimit => instr.scanned < ScanLimit)
    BY InstructionAssumption DEF LimitReached
<1>6. size = IF Len(page) <= ScanLimit - instr.scanned THEN Len(page) ELSE ScanLimit - instr.scanned
    <2>1. Len(page) \in Int /\ ScanLimit - instr.scanned \in Int
        BY <1>4, <1>5
    <2> HIDE DEF page
    <2> QED
        BY <2>1, SmallerOfTwo
<1> HIDE DEF page, size, products
<1> DEFINE Brought ==
            /\ products \in Seq(InstrSkus) /\ Len(products) \in Nat
            /\ Len(products) <= Len(page) /\ Len(page) \in Nat
            /\ ToSet(products) \subseteq ToSet(page)
            /\ ~HasLimit => products = page
            /\ HasLimit => instr.scanned + Len(products) <= ScanLimit
            /\ instrAt.page \notin DOMAIN Pages => Len(products) = 0 /\ ToSet(products) = {}
<1>7. ASSUME HasLimit PROVE Brought
    <2>1. size \in Nat /\ size <= Len(page) /\ instr.scanned + size <= ScanLimit
        BY <1>4, <1>5, <1>6, <1>7
    <2>2. \A i \in 1 .. size : page[i] \in InstrSkus
        BY <2>1, <1>4
    <2>3. /\ products \in Seq(InstrSkus)
          /\ Len(products) = size
          /\ \A i \in 1 .. size : products[i] = page[i]
        <3>1. products = SubSeq(page, 1, size)
            BY <1>3, <1>7
        <3>2. 1 \in Int /\ size \in Int
            BY <2>1
        <3>3. /\ SubSeq(page, 1, size) \in Seq(InstrSkus)
              /\ Len(SubSeq(page, 1, size)) = IF 1 <= size THEN size - 1 + 1 ELSE 0
              /\ \A i \in 1 .. size - 1 + 1 : SubSeq(page, 1, size)[i] = page[1 + i - 1]
            BY <1>1, <1>4, <2>1, <2>2, <3>2, SubSeqProperties
        <3> QED
            BY <2>1, <3>1, <3>3
    <2>4. DOMAIN products = 1 .. size
        BY <2>3, LenProperties
    <2>5. ToSet(products) \subseteq ToSet(page)
        BY <2>1, <2>3, <2>4, <1>4 DEF ToSet
    <2>6. instrAt.page \notin DOMAIN Pages => Len(products) = 0 /\ ToSet(products) = {}
        <3>1. Len(page) = 0 => ToSet(page) = {}
            BY <1>4 DEF ToSet
        <3> QED
            BY <2>1, <2>3, <2>5, <3>1, <1>2, <1>4
    <2> QED
        BY <1>4, <1>7, <2>1, <2>3, <2>5, <2>6
<1>8. ASSUME ~HasLimit PROVE Brought
    <2>1. products = page
        BY <1>3, <1>8
    <2>2. Len(page) = 0 => ToSet(page) = {}
        BY <1>4 DEF ToSet
    <2> QED
        BY <1>1, <1>2, <1>4, <1>8, <2>1, <2>2
<1>9. Brought
    BY <1>7, <1>8
<1> QED
    BY <1>9 DEF page, products

LEMMA FetchStep ==
    ASSUME RunInv, FetchPage, UNCHANGED scene
    PROVE  RunInv'
<1>1. InstrShape /\ OneWay /\ instrAt \in InstrRecords /\ instr \in ResultRecords
    BY DEF RunInv, InstrShape
<1>2. /\ \A e : May(e)' <=> May(e)
      /\ OneWay' /\ Pages' = Pages
      /\ HasLimit' <=> HasLimit
    BY <1>1, SameScene
<1> DEFINE page == IF instrAt.page \in DOMAIN Pages THEN Pages[instrAt.page] ELSE <<>>
           products == Remaining(page)
           those == ThoseToChange(products)
           rows == [n \in DOMAIN those |-> <<those[n], edition[those[n]]>>]
           state == IF those = <<>> \/ May("dry_run") THEN "turn" ELSE "submit"
           new == [instrAt EXCEPT !.shown = Len(products), !.next = 1, !.attempt = 0,
                                  !.changed = rows, !.at = state]
           result == [instr EXCEPT !.scanned = @ + Len(products), !.changed = @ + Len(those)]
<1>3. /\ instrAt.at = "fetch" /\ ~LimitReached /\ instrAt' = new /\ instr' = result
      /\ UNCHANGED <<language, edition, ottoQueue, rejected, dropped, edits, overtaken, unheard>>
    BY DEF FetchPage, Doing, ottoSide, instrHistory
<1>4. instr.scanned \in Nat /\ instrAt.page \in Nat \ {0}
    BY <1>1 DEF InstrRecords, ResultRecords
<1>5. /\ products \in Seq(InstrSkus) /\ Len(products) \in Nat
      /\ Len(products) <= Len(page) /\ Len(page) \in Nat
      /\ ToSet(products) \subseteq ToSet(page)
      /\ ~HasLimit => products = page
      /\ HasLimit => instr.scanned + Len(products) <= ScanLimit
      /\ instrAt.page \notin DOMAIN Pages => Len(products) = 0 /\ ToSet(products) = {}
    BY <1>1, <1>3, <1>4, ProductsAre
<1>6. instrAt.page \in DOMAIN Pages => page = Pages[instrAt.page]
    OBVIOUS
<1> HIDE DEF page, products
<1>7. /\ those \in Seq(InstrSkus)
      /\ \A n \in DOMAIN those : NeedsChange(those[n]) /\ those[n] \in ToSet(products)
      /\ \A p \in ToSet(products) : NeedsChange(p) => \E n \in DOMAIN those : those[n] = p
    BY <1>5, ThoseAre
<1> HIDE DEF those
<1>8. Len(those) \in Nat /\ DOMAIN those = 1 .. Len(those) /\ \A n \in DOMAIN those : those[n] \in InstrSkus
    BY <1>7, LenProperties
<1>9. edition \in [InstrSkus -> Nat]
    BY <1>1 DEF InstrShape
<1>10. /\ rows \in Seq(InstrSkus \X Nat) /\ DOMAIN rows = DOMAIN those
       /\ \A n \in DOMAIN those : rows[n][1] = those[n] /\ rows[n][2] = edition[those[n]]
    <2>1. rows \in [1 .. Len(those) -> InstrSkus \X Nat]
        BY <1>8, <1>9
    <2>2. rows \in Seq(InstrSkus \X Nat)
        <3> HIDE DEF rows
        <3> QED
            BY <2>1, <1>8, SequenceOf
    <2>3. DOMAIN rows = DOMAIN those
          /\ \A n \in DOMAIN those : rows[n][1] = those[n] /\ rows[n][2] = edition[those[n]]
        OBVIOUS
    <2> QED
        BY <2>2, <2>3
<1>11. /\ state \in {"turn", "submit"} /\ state \in InstrPlaces
       /\ state = "submit" => those # <<>> /\ ~May("dry_run")
       /\ state = "turn" => those = <<>> \/ May("dry_run")
    BY DEF InstrPlaces, AtOtto
<1>12. 1 \in Nat \ {0} /\ 0 \in 0 .. InstrRetries
    BY InstructionAssumption
<1> HIDE DEF rows, state
<1>13. new \in InstrRecords
    BY <1>1, <1>5, <1>10, <1>11, <1>12 DEF InstrRecords
<1>14. /\ new.at = state /\ new.page = instrAt.page /\ new.shown = Len(products)
       /\ new.changed = rows /\ new.next = 1
    BY <1>1 DEF InstrRecords
<1>15. /\ result \in ResultRecords /\ result.scanned = instr.scanned + Len(products)
       /\ result.failed = instr.failed /\ result.sent = instr.sent /\ result.status = instr.status
    <2>1. instr.scanned + Len(products) \in Nat /\ instr.changed + Len(those) \in Nat
        BY <1>1, <1>5, <1>8 DEF ResultRecords
    <2> QED
        BY <1>1, <2>1 DEF ResultRecords
<1> HIDE DEF new, result
<1>16. those # <<>> => 1 \in DOMAIN those
    BY <1>7, <1>8, EmptySeq
<1>17. those = <<>> => DOMAIN those = {}
    BY EmptySeq
<1>18. instrAt'.at \notin {"fetch", "ended", "poll", "results"}
       /\ (instrAt'.at \in AtOtto <=> state = "submit")
    BY <1>3, <1>11, <1>14 DEF AtOtto
<1>19. InstrShape'
    BY <1>1, <1>3, <1>13, <1>15 DEF InstrShape
<1>20. WhereInv'
    <2> SUFFICES ASSUME state = "submit"
                 PROVE  /\ instrAt.page \in DOMAIN Pages /\ 1 \in DOMAIN rows
                        /\ \A n \in DOMAIN rows : /\ rows[n][1] \in ToSet(Pages[instrAt.page])
                                                  /\ NeededChange(rows[n][1])
        BY <1>2, <1>3, <1>14, <1>18 DEF WhereInv, NeededChange
    <2>1. 1 \in DOMAIN those
        BY <1>11, <1>16
    <2>2. instrAt.page \in DOMAIN Pages
        BY <2>1, <1>5, <1>7
    <2>3. ASSUME NEW n \in DOMAIN those PROVE NeededChange(those[n])
        <3>1. language[those[n]] = Languages[those[n]] \/ German(those[n])
            BY <1>8 DEF RunInv, LanguageInv
        <3>2. NeedsChange(those[n])
            BY <1>7
        <3> QED
            BY <3>1, <3>2 DEF NeedsChange, German, NeededChange
    <2> QED
        BY <2>1, <2>2, <2>3, <1>5, <1>6, <1>7, <1>10
<1>21. DryInv' /\ LanguageInv'
    BY <1>2, <1>3, <1>11, <1>15, <1>18 DEF RunInv, DryInv, LanguageInv, German
<1>22. LimitInv'
    BY <1>2, <1>3, <1>5, <1>15 DEF LimitInv
<1>23. VersionInv' /\ EditInv'
    <2>1. VersionInv /\ EditInv
        BY DEF RunInv
    <2> QED
        BY <2>1, <1>3, <1>8, <1>10, <1>14 DEF VersionInv, EditInv
<1>24. FailedInv'
    <2>1. PICK lost \in SUBSET InstrSkus : Cardinality(lost) <= instr.failed /\ Settled(lost)
        BY DEF RunInv, FailedInv
    <2>2. InBatch = {}
        BY <1>3 DEF InBatch, AtOtto
    <2>3. Settled(lost)'
        BY <2>1, <2>2, <1>3 DEF Settled
    <2>4. \E more \in SUBSET InstrSkus : Cardinality(more) <= instr'.failed /\ Settled(more)'
        BY <2>1, <2>3, <1>3, <1>15
    <2>5. instr'.status = "failed" \/ dropped \subseteq unheard
        BY <2>2, <1>3, <1>15 DEF RunInv, FailedInv
    <2>6. instr'.status = "failed" \/ dropped' \subseteq unheard' \cup InBatch'
        <3>1. dropped' = dropped /\ unheard' = unheard
            BY <1>3
        <3> QED
            BY <2>5, <3>1
    <2>7. instr'.failed > 0 => instr'.status = "failed"
        BY <1>3, <1>15 DEF RunInv, FailedInv
    <2> QED
        BY <2>4, <2>6, <2>7 DEF FailedInv
<1>25. ResultsInv' /\ GivenInv' /\ EndInv'
    BY <1>18 DEF ResultsInv, GivenInv, EndInv, Doing
<1>26. /\ \A n \in Fetched' : n \in Fetched \/ n = instrAt.page
       /\ \A n \in Fetched : n < instrAt.page
       /\ instrAt.page \in DOMAIN Pages => instrAt.page \in Fetched'
       /\ Fetched \subseteq Fetched' /\ Fetched' \subseteq DOMAIN Pages
    BY <1>2, <1>3, <1>14, <1>18 DEF Fetched
<1>27. GermanInv'
    <2> SUFFICES ASSUME WentWell', NEW n \in Fetched', NEW p \in ToSet(Pages[n])
                 PROVE  German(p)' \/ (n = instrAt.page /\ ToCome(p)')
        BY <1>2, <1>3, <1>14 DEF GermanInv
    <2>1. WentWell /\ ~HasLimit /\ ~May("dry_run")
        BY <1>2, <1>3, <1>15 DEF WentWell
    <2>2. CASE n \in Fetched
        <3>1. German(p)
            BY <2>1, <2>2, <1>3 DEF RunInv, GermanInv, ToCome, AtOtto
        <3> QED
            BY <3>1, <1>3 DEF German
    <2>3. CASE n \notin Fetched
        <3>1. n = instrAt.page /\ p \in ToSet(products)
            BY <2>1, <2>3, <1>5, <1>6, <1>26
        <3>2. CASE NeedsChange(p)
            <4>1. PICK k \in DOMAIN those : those[k] = p
                BY <3>1, <3>2, <1>7
            <4>2. state = "submit" /\ k \in Nat /\ k >= 1
                BY <4>1, <2>1, <1>8, <1>11, <1>17
            <4>3. ToCome(p)'
                BY <4>1, <4>2, <1>3, <1>10, <1>14 DEF ToCome, AtOtto
            <4> QED
                BY <3>1, <4>3
        <3>3. CASE ~NeedsChange(p)
            BY <3>3, <1>3 DEF NeedsChange, German
        <3> QED
            BY <3>2, <3>3
    <2> QED
        BY <2>2, <2>3
<1>28. ScannedInv'
    <2>1. instr.scanned <= Cardinality(FetchedSkus)
        BY DEF RunInv, ScannedInv
    <2>2. FetchedSkus' = UNION {ToSet(Pages[n]) : n \in Fetched'}
        BY <1>2 DEF FetchedSkus
    <2>3. \A n \in DOMAIN Pages : ToSet(Pages[n]) \subseteq InstrSkus
        BY <1>1, PageSkusAre
    <2>4. FetchedSkus \in SUBSET InstrSkus /\ FetchedSkus' \in SUBSET InstrSkus
        BY <2>2, <2>3, <1>26 DEF FetchedSkus
    <2>5. FetchedSkus \subseteq FetchedSkus'
        BY <2>2, <1>26 DEF FetchedSkus
    <2>6. /\ IsFiniteSet(FetchedSkus) /\ Cardinality(FetchedSkus) \in Nat
          /\ Cardinality(FetchedSkus') \in Nat /\ Cardinality(FetchedSkus) <= Cardinality(FetchedSkus')
        <3> HIDE DEF FetchedSkus
        <3> QED
            BY <2>4, <2>5, InstrSkusAre
    <2>7. Cardinality(FetchedSkus)' = Cardinality(FetchedSkus')
        OBVIOUS
    <2>8. CASE instrAt.page \in DOMAIN Pages
        <3> DEFINE more == ToSet(Pages[instrAt.page])
        <3>1. IsFiniteSet(more) /\ Cardinality(more) = Len(page)
            BY <2>8, <1>1, <1>6, PageSkusAre
        <3>2. FetchedSkus \cap more = {}
            <4>1. \A n \in Fetched : n \in DOMAIN Pages /\ n # instrAt.page
                BY <1>4, <1>26
            <4>2. \A n \in DOMAIN Pages : n # instrAt.page => ToSet(Pages[n]) \cap more = {}
                BY <2>8, <1>1, PageSkusAre
            <4> QED
                BY <4>1, <4>2 DEF FetchedSkus
        <3>3. FetchedSkus \cup more \subseteq FetchedSkus' /\ FetchedSkus \cup more \in SUBSET InstrSkus
            BY <2>2, <2>3, <2>4, <2>5, <2>8, <1>26
        <3> HIDE DEF more, FetchedSkus
        <3>4. Cardinality(FetchedSkus \cup more) = Cardinality(FetchedSkus) + Len(page)
            <4>1. Cardinality(FetchedSkus \cup more)
                     = Cardinality(FetchedSkus) + Cardinality(more) - Cardinality(FetchedSkus \cap more)
                BY <2>6, <3>1, FS_Union
            <4>2. Cardinality(FetchedSkus \cap more) = 0
                BY <3>2, FS_EmptySet
            <4> QED
                BY <4>1, <4>2, <3>1, <2>6, <1>5
        <3>5. Cardinality(FetchedSkus \cup more) <= Cardinality(FetchedSkus')
            BY <3>3, <2>4, InstrSkusAre
        <3>6. instr.scanned + Len(products) <= Cardinality(FetchedSkus')
            BY <3>4, <3>5, <2>1, <2>6, <1>4, <1>5
        <3> QED
            BY <3>6, <2>7, <1>3, <1>15 DEF ScannedInv
    <2>9. CASE instrAt.page \notin DOMAIN Pages
        <3>1. instr'.scanned = instr.scanned
            BY <2>9, <1>3, <1>4, <1>5, <1>15
        <3>2. instr'.scanned <= Cardinality(FetchedSkus')
            BY <3>1, <2>1, <2>6, <1>4, AtMost
        <3> QED
            BY <3>2, <2>7 DEF ScannedInv
    <2> QED
        BY <2>8, <2>9
<1>29. ShownInv'
    BY <1>2, <1>3, <1>5, <1>6, <1>14 DEF ShownInv
<1> QED
    BY <1>2, <1>19, <1>20, <1>21, <1>22, <1>23, <1>24, <1>25, <1>27, <1>28, <1>29 DEF RunInv

LEMMA RunStart ==
    ASSUME InstrInit, Plays("instructions") => OneWay
    PROVE  InstrInv
<1>1. CASE ~Plays("instructions")
    BY <1>1 DEF InstrInv
<1>2. CASE Plays("instructions")
    <2>1. OneWay
        BY <1>2
    <2>2. /\ language = Languages /\ edition = [p \in InstrSkus |-> 0] /\ edits = edition
          /\ ottoQueue = [p \in InstrSkus |-> Nothing]
          /\ instrAt = [at |-> "fetch", page |-> 1, shown |-> 0, changed |-> <<>>, next |-> 1,
                        attempt |-> 0, polls |-> 0, answer |-> [failed |-> 0, state |-> "", told |-> TRUE]]
          /\ instr = [status |-> "done", scanned |-> 0, changed |-> 0, sent |-> 0, failed |-> 0]
          /\ rejected = {} /\ dropped = {} /\ overtaken = {} /\ unheard = {}
        BY DEF InstrInit, InstrSkus
    <2>3. /\ InstrRetries \in Nat /\ InstrPolls \in Nat /\ ScanLimit \in Nat
        BY InstructionAssumption
    <2>4. 0 \in 0 .. InstrRetries /\ 0 \in 0 .. InstrPolls /\ 0 \in Nat /\ 1 \in Nat \ {0}
        BY <2>3
    <2>5. instrAt \in InstrRecords
        <3>1. [failed |-> 0, state |-> "", told |-> TRUE] \in InstrAnswers
            BY DEF InstrAnswers
        <3>2. <<>> \in Seq(InstrSkus \X Nat)
            BY EmptySeq
        <3> QED
            BY <2>2, <2>4, <3>1, <3>2 DEF InstrRecords, InstrPlaces
    <2>6. instr \in ResultRecords
        BY <2>2 DEF ResultRecords
    <2>7. Languages \in [InstrSkus -> Seq({"de", "en"})]
        BY InstructionAssumption DEF InstrSkus
    <2>8. InstrShape
        BY <2>2, <2>5, <2>6, <2>7 DEF InstrShape
    <2>9. /\ instrAt.at = "fetch" /\ instrAt.at \notin AtOtto /\ instrAt.page = 1
          /\ instr.scanned = 0 /\ instr.sent = 0 /\ instr.failed = 0
        BY <2>2 DEF AtOtto
    <2>10. /\ \A p \in InstrSkus : edition[p] = 0 /\ edits[p] = 0 /\ ottoQueue[p] = Nothing
        BY <2>2
    <2>11. WhereInv /\ ResultsInv /\ GivenInv /\ ShownInv
        BY <2>9 DEF WhereInv, ResultsInv, GivenInv, ShownInv, AtOtto
    <2>12. DryInv /\ LanguageInv /\ LimitInv
        <3>1. language = Languages
            BY <2>2
        <3> QED
            BY <3>1, <2>3, <2>9, <2>10 DEF DryInv, LanguageInv, LimitInv
    <2>13. VersionInv /\ EditInv
        BY <2>9, <2>10 DEF VersionInv, EditInv
    <2>14. FailedInv
        <3>1. Settled({})
            BY <2>2, <2>10 DEF Settled
        <3>2. Cardinality({}) = 0 /\ {} \in SUBSET InstrSkus
            BY FS_EmptySet
        <3>3. dropped \subseteq unheard \cup InBatch
            BY <2>2
        <3>4. Cardinality({}) <= instr.failed /\ ~(instr.failed > 0)
            BY <2>9, <3>2
        <3> QED
            BY <3>1, <3>2, <3>3, <3>4 DEF FailedInv
    <2>15. Fetched = {}
        <3>1. DOMAIN Pages = 1 .. Len(Pages) /\ Len(Pages) \in Nat
            BY <2>1, PagesAre
        <3> QED
            BY <2>9, <3>1 DEF Fetched
    <2>16. GermanInv /\ EndInv
        BY <2>9, <2>15 DEF GermanInv, EndInv, Doing
    <2>17. ScannedInv
        <3>1. FetchedSkus = {}
            BY <2>15 DEF FetchedSkus
        <3>2. Cardinality(FetchedSkus) = 0
            BY <3>1, FS_EmptySet
        <3> QED
            BY <2>9, <3>2 DEF ScannedInv
    <2> QED
        BY <1>2, <2>1, <2>8, <2>11, <2>12, <2>13, <2>14, <2>16, <2>17 DEF InstrInv, RunInv
<1> QED
    BY <1>1, <1>2

LEMMA RunNext ==
    ASSUME InstrInv, [InstrNext]_<<scene, instrVars>>
    PROVE  InstrInv'
<1>1. CASE InstrNext
    <2>1. Plays("instructions") /\ RunInv /\ UNCHANGED scene
        BY <1>1 DEF InstrNext, InstrInv
    <2>2. \A p \in ListedSkus : p \in InstrSkus
        <3>1. OneWay
            BY <2>1 DEF RunInv
        <3> QED
            BY <3>1, PageSkusAre DEF ListedSkus
    <2>3. ASSUME ReachLimit PROVE RunInv'
        BY <2>1, <2>3, LimitStep
    <2>4. ASSUME FetchPage PROVE RunInv'
        BY <2>1, <2>4, FetchStep
    <2>5. ASSUME TurnPage PROVE RunInv'
        BY <2>1, <2>5, TurnStep
    <2>6. ASSUME SubmitRows PROVE RunInv'
        BY <2>1, <2>6, SubmitStep
    <2>7. ASSUME PollBatch PROVE RunInv'
        BY <2>1, <2>7, PollStep
    <2>8. ASSUME FetchRejected PROVE RunInv'
        BY <2>1, <2>8, ResultsStep
    <2>9. ASSUME CallAgain PROVE RunInv'
        <3>1. CASE instrAt.at = "fetch"
            BY <2>1, <2>9, <3>1, FetchAgainStep
        <3>2. CASE instrAt.at # "fetch"
            BY <2>1, <2>9, <3>2, BatchAgainStep
        <3> QED
            BY <3>1, <3>2
    <2>10. ASSUME CallFails PROVE RunInv'
        <3>1. CASE instrAt.at = "fetch"
            BY <2>1, <2>10, <3>1, FetchFailsStep
        <3>2. CASE instrAt.at # "fetch"
            BY <2>1, <2>10, <3>2, BatchFailsStep
        <3> QED
            BY <3>1, <3>2
    <2>11. ASSUME NEW p \in ListedSkus, OttoApplies(p) \/ OttoDrops(p) PROVE RunInv'
        BY <2>1, <2>2, <2>11, ApplyStep
    <2>12. ASSUME NEW p \in ListedSkus, SellerEdits(p) PROVE RunInv'
        BY <2>1, <2>2, <2>12, EditStep
    <2>13. RunInv'
        BY <1>1, <2>3, <2>4, <2>5, <2>6, <2>7, <2>8, <2>9, <2>10, <2>11, <2>12 DEF InstrNext, InstrStep
    <2>14. Plays("instructions")'
        BY <2>1 DEF Plays
    <2> QED
        BY <2>13, <2>14 DEF InstrInv
<1>2. CASE UNCHANGED <<scene, instrVars>>
    <2>1. UNCHANGED <<scene, language, edition, ottoQueue, rejected, dropped, instrAt, instr, edits, overtaken,
                      unheard>>
        BY <1>2 DEF instrVars
    <2>2. Plays("instructions")' <=> Plays("instructions")
        BY <2>1 DEF Plays
    <2>3. InstrInit => InstrInit'
        BY <2>1 DEF InstrInit
    <2>4. ASSUME RunInv PROVE RunInv'
        <3>1. OneWay /\ InstrShape
            BY <2>4 DEF RunInv
        <3>2. /\ \A e : May(e)' <=> May(e)
              /\ OneWay' /\ Pages' = Pages
              /\ HasLimit' <=> HasLimit
            BY <2>1, <3>1, SameScene
        <3>3. Rows' = Rows /\ InBatch' = InBatch /\ Fetched' = Fetched /\ SkusOf(Rows)' = SkusOf(Rows)
            BY <2>1, <3>2 DEF Rows, InBatch, SkusOf, Fetched
        <3>4. FetchedSkus' = FetchedSkus /\ ListedSkus' = ListedSkus /\ (WentWell' <=> WentWell)
            BY <2>1, <3>2, <3>3 DEF FetchedSkus, ListedSkus, WentWell
        <3>5. InstrShape' /\ WhereInv' /\ DryInv' /\ LanguageInv' /\ LimitInv' /\ VersionInv' /\ EditInv'
            BY <2>1, <2>4, <3>2
            DEF RunInv, InstrShape, WhereInv, DryInv, LanguageInv, LimitInv, VersionInv, EditInv,
                German, NeededChange
        <3>6. FailedInv' /\ ResultsInv' /\ GivenInv'
            BY <2>1, <2>4, <3>3 DEF RunInv, FailedInv, Settled, ResultsInv, GivenInv, German
        <3>7. GermanInv' /\ ScannedInv' /\ ShownInv' /\ EndInv'
            BY <2>1, <2>4, <3>2, <3>3, <3>4
            DEF RunInv, GermanInv, ToCome, German, ScannedInv, ShownInv, EndInv, Doing
        <3> QED
            BY <3>2, <3>5, <3>6, <3>7 DEF RunInv
    <2> QED
        BY <2>2, <2>3, <2>4 DEF InstrInv
<1> QED
    BY <1>1, <1>2

LEMMA InstrHolds == (Plays("instructions") => OneWay) /\ InstrSafety => []InstrInv
<1>1. (Plays("instructions") => OneWay) /\ InstrInit => InstrInv
    BY RunStart
<1>2. InstrInv /\ [InstrNext]_<<scene, instrVars>> => InstrInv'
    BY RunNext
<1> QED
    BY <1>1, <1>2, PTL DEF InstrSafety

LEMMA InstrIsTrue ==
    ASSUME InstrInv
    PROVE  /\ InstrTypeOK /\ DoneMeansGerman /\ RejectedAreCounted
           /\ EditLostOnlyIfOvertaken /\ RunKeepsToItsBounds
<1>1. /\ InstrRetries \in Nat /\ InstrPolls \in Nat /\ ScanLimit \in Nat
      /\ IsFiniteSet(DOMAIN Languages) /\ Cardinality(DOMAIN Languages) \in Nat
    BY InstructionAssumption, FS_CardinalityType
<1>2. CASE ~Plays("instructions")
    <2>1. InstrInit
        BY <1>2 DEF InstrInv
    <2>2. /\ instrAt.at = "fetch" /\ instrAt.attempt = 0 /\ instrAt.polls = 0
          /\ instr.scanned = 0 /\ instr.sent = 0 /\ language = Languages
          /\ \A p \in DOMAIN Languages : edition[p] = 0 /\ edits[p] = 0 /\ ottoQueue[p] = Nothing
          /\ DOMAIN edits = DOMAIN Languages
        BY <2>1 DEF InstrInit
    <2>3. 0 \in 0 .. InstrRetries /\ 0 \in 0 .. InstrPolls /\ 0 \in 0 .. Cardinality(DOMAIN Languages)
        BY <1>1
    <2> QED
        BY <1>1, <2>2, <2>3
        DEF InstrTypeOK, DoneMeansGerman, RejectedAreCounted, EditLostOnlyIfOvertaken, RunKeepsToItsBounds, Doing
<1>3. CASE Plays("instructions")
    <2>1. RunInv /\ InstrShape /\ OneWay /\ instrAt \in InstrRecords /\ instr \in ResultRecords
        BY <1>3 DEF InstrInv, RunInv, InstrShape
    <2>2. FetchedSkus \in SUBSET InstrSkus
        BY <2>1, PageSkusAre DEF FetchedSkus, Fetched
    <2>3. InstrTypeOK
        <3>1. instr.scanned \in 0 .. Cardinality(DOMAIN Languages)
            <4>1. /\ Cardinality(FetchedSkus) <= Cardinality(InstrSkus)
                  /\ Cardinality(FetchedSkus) \in Nat /\ Cardinality(InstrSkus) \in Nat
                BY <2>2, InstrSkusAre
            <4>2. instr.scanned \in Nat /\ instr.scanned <= Cardinality(FetchedSkus)
                BY <2>1 DEF ResultRecords, RunInv, ScannedInv
            <4>3. instr.scanned <= Cardinality(InstrSkus)
                BY <4>1, <4>2, AtMost
            <4> QED
                BY <4>1, <4>2, <4>3 DEF InstrSkus
        <3>2. ASSUME NEW p \in InstrSkus PROVE ottoQueue[p] \in {Nothing} \cup 0 .. edits[p]
            <4>1. ottoQueue[p] \in {Nothing} \cup Nat /\ edits[p] \in Nat
                BY <2>1 DEF InstrShape
            <4>2. ottoQueue[p] # Nothing => ottoQueue[p] <= edits[p]
                BY <2>1 DEF RunInv, VersionInv
            <4> QED
                BY <4>1, <4>2
        <3>3. DOMAIN language = InstrSkus
            BY <2>1 DEF InstrShape
        <3>4. /\ instrAt.at \in {"fetch", "submit", "poll", "results", "turn", "ended"}
              /\ instrAt.attempt \in 0 .. InstrRetries /\ instrAt.polls \in 0 .. InstrPolls
            BY <2>1 DEF InstrRecords, InstrPlaces, AtOtto
        <3> QED
            BY <3>1, <3>2, <3>3, <3>4 DEF InstrTypeOK
    <2>4. DoneMeansGerman
        <3> SUFFICES ASSUME Doing("ended"), WentWell, NEW p \in ListedSkus
                     PROVE  ToSet(language[p]) \subseteq {"de"}
            BY DEF DoneMeansGerman, WentWell
        <3>1. p \in FetchedSkus
            BY <2>1 DEF RunInv, EndInv
        <3>2. German(p)
            BY <2>1, <3>1 DEF RunInv, GermanInv, FetchedSkus, ToCome, Doing, AtOtto
        <3> QED
            BY <3>2 DEF German, ToSet
    <2>5. RejectedAreCounted
        <3> SUFFICES ASSUME Doing("ended") PROVE instr.failed >= Cardinality(rejected \ unheard)
            BY <2>1 DEF RejectedAreCounted, RunInv, FailedInv, ResultRecords, InBatch, Doing, AtOtto
        <3>1. PICK lost \in SUBSET InstrSkus : Cardinality(lost) <= instr.failed /\ Settled(lost)
            BY <2>1 DEF RunInv, FailedInv
        <3>2. rejected \ unheard \subseteq lost /\ rejected \ unheard \in SUBSET InstrSkus
            BY <2>1, <3>1 DEF Settled, InBatch, Doing, AtOtto, InstrShape
        <3>3. /\ Cardinality(rejected \ unheard) <= Cardinality(lost)
              /\ Cardinality(rejected \ unheard) \in Nat /\ Cardinality(lost) \in Nat
            BY <3>2, InstrSkusAre
        <3>4. instr.failed \in Nat
            BY <2>1 DEF ResultRecords
        <3> QED
            BY <3>1, <3>3, <3>4
    <2>6. EditLostOnlyIfOvertaken
        <3>1. DOMAIN edits = InstrSkus
            BY <2>1 DEF InstrShape
        <3> QED
            BY <2>1, <3>1 DEF RunInv, EditInv, EditLostOnlyIfOvertaken
    <2>7. RunKeepsToItsBounds
        BY <2>1 DEF RunInv, LimitInv, DryInv, RunKeepsToItsBounds
    <2> QED
        BY <2>3, <2>4, <2>5, <2>6, <2>7
<1> QED
    BY <1>2, <1>3

-----------------------------------------------------------------------------
(* ProductMapping: from the products of a factory to prepared ones.         *)

ItemStates == {"waiting", "mapping", "mapped", "normalizing", "publishing", "over", "cancelled"}
MapPlaces == {"fetch", "describe", "contexts", "mapping", "retry", "ended", "raised"}
PreparedEans == ToSet(SourceEans) \cup {Unknown, "AUTO-EAN"}

MapShape ==
    /\ mapAt \in MapPlaces /\ items \in [Positions -> ItemStates]
    /\ mapped \in SUBSET Positions /\ results \in [Positions -> PreparedEans]
    /\ published \in Seq(Positions) /\ notes \in SUBSET Positions /\ progressed \in Nat

\* Nothing is begun before the contexts are loaded, and nothing is open in the end.
EarlyInv ==
    mapAt \in {"fetch", "describe", "contexts"} =>
        progressed = 0 /\ \A n \in Positions : items[n] = "waiting"

ResultInv == \A n \in Positions :
    /\ items[n] \in {"mapped", "normalizing", "publishing"} => n \in mapped
    /\ results[n] # Unknown => n \in mapped
    /\ items[n] = "publishing" => results[n] # Unknown

\* A product that is done with is noted, or has a result that was published.
OverInv ==
    mapAt # "raised" => \A n \in Positions : items[n] = "over" =>
        n \in notes \/ (results[n] # Unknown /\ n \in ToSet(published))

ProgressInv ==
    /\ mapAt = "mapping" => progressed = Cardinality(At("over"))
    /\ mapAt \in {"retry", "ended"} => progressed = Len(SourceEans)

SlotInv == Cardinality(At("mapping")) <= MapSlots

StoppedInv ==
    mapAt = "raised" /\ ~May("malformed") =>
        \A n \in Positions : items[n] \in {"waiting", "over", "cancelled"}

EndedInv ==
    IF mapAt = "ended" THEN (\A n \in Positions : items[n] = "over") /\ payload = InOrder
    ELSE payload = <<>>

\* (The provers do not know that a literal is a string.)
Attributes == [name : STRING \cup {"farbe"}, values : Seq(STRING)]
HaveValues(s) == s \in Seq(Attributes) /\ \A n \in DOMAIN s : s[n].values # <<>>

\* What the loop has made of the attributes, up to the k-th of the options.
Coloured(done, attributes, options, k) ==
    /\ HaveValues(done) /\ Len(attributes) <= Len(done)
    /\ \A n \in DOMAIN done : n > Len(attributes) /\ done[n].name # "farbe" =>
          /\ \A m \in DOMAIN done : m # n => done[m].name # done[n].name
          /\ \E i \in 1 .. k :
                /\ options[i].name = done[n].name
                /\ options[i].allowed = {} \/ ToSet(done[n].values) \subseteq options[i].allowed

ContentInv ==
    /\ content = [of |-> content.of, at |-> content.at, bullets |-> content.bullets,
                  attributes |-> content.attributes, product |-> content.product]
    /\ content.at \in {"begin", "attributes", "description", "ended", "raised"}
    /\ content.of \in DOMAIN Contents /\ HaveValues(content.attributes)
    /\ content.at \in {"attributes", "description"} => content.bullets = "new"
    /\ content.at # "ended" => content.product = Untouched
    /\ content.at = "ended" /\ content.product # Untouched =>
          /\ content.product.bullets = "new" /\ content.product.description = "new"
          /\ Coloured(content.product.attributes, content.attributes, Subject.options, Len(Subject.options))

MapInv ==
    /\ MapShape /\ EarlyInv /\ ResultInv /\ OverInv /\ ProgressInv /\ SlotInv /\ StoppedInv /\ EndedInv

ProductInv == MapInv /\ ContentInv

ProductSafety == ProductInit /\ [][ProductNext]_<<scene, productVars>>

LEMMA PositionsAre ==
    /\ Len(SourceEans) \in Nat /\ Positions = 1 .. Len(SourceEans) /\ Positions \in SUBSET Nat
    /\ \A n \in Positions : SourceEans[n] \in ToSet(SourceEans)
    /\ IsFiniteSet(Positions) /\ Cardinality(Positions) = Len(SourceEans)
    /\ \A S \in SUBSET Positions : IsFiniteSet(S) /\ Cardinality(S) \in Nat
    /\ \A S, T \in SUBSET Positions : S \subseteq T => Cardinality(S) <= Cardinality(T)
<1>1. Len(SourceEans) \in Nat /\ Positions = 1 .. Len(SourceEans)
    BY MappingAssumption, LenProperties DEF Positions
<1>2. Positions \in SUBSET Nat
    BY <1>1
<1>3. IsFiniteSet(Positions) /\ Cardinality(Positions) = Len(SourceEans)
    BY <1>1, OneTo
<1>4. \A S \in SUBSET Positions : IsFiniteSet(S) /\ Cardinality(S) \in Nat
    BY <1>3, FS_Subset, FS_CardinalityType
<1>5. \A S, T \in SUBSET Positions : S \subseteq T => Cardinality(S) <= Cardinality(T)
    BY <1>4, FS_Subset
<1>6. \A n \in Positions : SourceEans[n] \in ToSet(SourceEans)
    BY DEF Positions, ToSet
<1> QED
    BY <1>1, <1>2, <1>3, <1>4, <1>5, <1>6

\* One more, one less.
LEMMA OneMore ==
    ASSUME NEW S \in SUBSET Positions, NEW n \in Positions \ S
    PROVE  Cardinality(S \cup {n}) = Cardinality(S) + 1
<1>1. IsFiniteSet(S)
    BY PositionsAre
<1> QED
    BY <1>1, FS_AddElement

LEMMA ProductStarts == ProductInit => ProductInv
<1> SUFFICES ASSUME ProductInit PROVE ProductInv
    OBVIOUS
<1>1. MapShape
    <2>1. items = [n \in Positions |-> "waiting"] /\ results = [n \in Positions |-> Unknown]
        BY DEF ProductInit
    <2>2. items \in [Positions -> ItemStates] /\ results \in [Positions -> PreparedEans]
        BY <2>1 DEF ItemStates, PreparedEans
    <2>3. published \in Seq(Positions)
        BY EmptySeq DEF ProductInit
    <2> QED
        BY <2>2, <2>3 DEF ProductInit, MapShape, MapPlaces
<1>2. At("mapping") = {} /\ Cardinality({}) = 0
    BY FS_EmptySet DEF ProductInit, At
<1>3. SlotInv
    <2>1. MapSlots \in Nat
        BY MappingAssumption
    <2> QED
        BY <1>2, <2>1 DEF SlotInv
<1>4. EarlyInv /\ ResultInv /\ OverInv /\ ProgressInv /\ StoppedInv /\ EndedInv
    BY DEF ProductInit, EarlyInv, ResultInv, OverInv, ProgressInv, StoppedInv, EndedInv
<1>5. ContentInv
    <2>1. PICK of \in DOMAIN Contents :
            content = [of |-> of, at |-> "begin", bullets |-> "none", attributes |-> <<>>, product |-> Untouched]
        BY DEF ProductInit
    <2>2. HaveValues(<<>>)
        BY EmptySeq DEF HaveValues
    <2> QED
        BY <2>1, <2>2 DEF ContentInv
<1> QED
    BY <1>1, <1>3, <1>4, <1>5 DEF ProductInv, MapInv

\* The steps of the preparation as a whole.
LEMMA MapGoesKept ==
    ASSUME ProductInv, UNCHANGED scene, NEW from, NEW to, MapGoes(from, to),
           from \in {"fetch", "describe", "contexts"}, to \in {"describe", "contexts", "mapping", "raised"}
    PROVE  MapInv'
<1>1. mapAt = from /\ mapAt' = to /\ UNCHANGED <<items, mapped, results, published, notes, progressed, payload>>
    BY DEF MapGoes
<1>2. progressed = 0 /\ \A n \in Positions : items[n] = "waiting"
    BY <1>1 DEF ProductInv, MapInv, EarlyInv
<1>3. MapShape' /\ EarlyInv' /\ ResultInv' /\ OverInv' /\ StoppedInv' /\ EndedInv'
    BY <1>1, <1>2
    DEF ProductInv, MapInv, MapShape, MapPlaces, EarlyInv, ResultInv, OverInv, StoppedInv, EndedInv
<1>4. SlotInv'
    BY <1>1 DEF ProductInv, MapInv, SlotInv, At
<1>5. ProgressInv'
    <2>1. At("over") = {} /\ At("over")' = {}
        BY <1>1, <1>2 DEF At
    <2> QED
        BY <1>1, <1>2, <2>1, FS_EmptySet DEF ProgressInv
<1> QED
    BY <1>3, <1>4, <1>5 DEF MapInv

LEMMA MapTimesOutKept ==
    ASSUME ProductInv, UNCHANGED scene, MapTimesOut
    PROVE  MapInv'
<1>1. /\ mapAt = "mapping" /\ mapAt' = "raised" /\ items' = [n \in Positions |-> Cancelled(n)]
      /\ UNCHANGED <<mapped, results, published, notes, progressed, payload>>
    BY DEF MapTimesOut
<1>2. \A n \in Positions : items'[n] \in {"over", "cancelled"}
    BY <1>1 DEF Cancelled
<1>3. items' \in [Positions -> ItemStates]
    BY <1>1 DEF Cancelled, ItemStates
<1>4. MapShape' /\ EarlyInv' /\ ResultInv' /\ OverInv' /\ ProgressInv' /\ StoppedInv' /\ EndedInv'
    BY <1>1, <1>2, <1>3
    DEF ProductInv, MapInv, MapShape, MapPlaces, EarlyInv, ResultInv, OverInv, ProgressInv, StoppedInv, EndedInv
<1>5. SlotInv'
    <2>1. At("mapping")' = {}
        BY <1>2 DEF At
    <2>2. Cardinality(At("mapping")') = 0
        BY <2>1, FS_EmptySet
    <2>3. MapSlots \in Nat
        BY MappingAssumption
    <2> QED
        BY <2>2, <2>3 DEF SlotInv
<1> QED
    BY <1>4, <1>5 DEF MapInv

LEMMA RetryItemsKept ==
    ASSUME ProductInv, UNCHANGED scene, RetryItems
    PROVE  MapInv'
<1>1. /\ mapAt = "mapping" /\ At("over") = Positions /\ mapAt' = "retry"
      /\ items' = [n \in Positions |-> IF n \in mapped /\ results[n] = Unknown THEN "mapped" ELSE "over"]
      /\ UNCHANGED <<mapped, results, published, notes, progressed, payload>>
    BY DEF RetryItems
<1>2. \A n \in Positions : items[n] = "over" /\ items'[n] \in {"mapped", "over"} /\ (items'[n] = "mapped" => n \in mapped)
    BY <1>1 DEF At
<1>3. items' \in [Positions -> ItemStates]
    BY <1>1 DEF ItemStates
<1>4. MapShape' /\ EarlyInv' /\ ResultInv' /\ OverInv' /\ StoppedInv' /\ EndedInv'
    BY <1>1, <1>2, <1>3
    DEF ProductInv, MapInv, MapShape, MapPlaces, EarlyInv, ResultInv, OverInv, StoppedInv, EndedInv
<1>5. SlotInv'
    <2>1. At("mapping")' = {}
        BY <1>2 DEF At
    <2>2. Cardinality(At("mapping")') = 0
        BY <2>1, FS_EmptySet
    <2>3. MapSlots \in Nat
        BY MappingAssumption
    <2> QED
        BY <2>2, <2>3 DEF SlotInv
<1>6. ProgressInv'
    BY <1>1, PositionsAre DEF ProductInv, MapInv, ProgressInv
<1> QED
    BY <1>4, <1>5, <1>6 DEF MapInv

LEMMA BuildPayloadKept ==
    ASSUME ProductInv, UNCHANGED scene, BuildPayload
    PROVE  MapInv'
<1>1. /\ mapAt = "retry" /\ At("over") = Positions /\ mapAt' = "ended" /\ payload' = InOrder
      /\ UNCHANGED <<items, mapped, results, published, notes, progressed>>
    BY DEF BuildPayload
<1>2. \A n \in Positions : items[n] = "over"
    BY <1>1 DEF At
<1>3. InOrder' = InOrder
    BY <1>1 DEF InOrder
<1>4. MapShape' /\ EarlyInv' /\ ResultInv' /\ OverInv' /\ ProgressInv' /\ StoppedInv' /\ EndedInv'
    BY <1>1, <1>2, <1>3
    DEF ProductInv, MapInv, MapShape, MapPlaces, EarlyInv, ResultInv, OverInv, ProgressInv, StoppedInv, EndedInv
<1>5. SlotInv'
    BY <1>1 DEF ProductInv, MapInv, SlotInv, At
<1> QED
    BY <1>4, <1>5 DEF MapInv

\* The steps of one product, while the preparation is at its mapping or has gone on.
LEMMA ItemMoves ==
    ASSUME ProductInv, NEW n \in Positions, NEW state \in ItemStates, Becomes(n, state)
    PROVE  /\ items' \in [Positions -> ItemStates] /\ items'[n] = state
           /\ \A m \in Positions : m # n => items'[m] = items[m]
<1>1. items \in [Positions -> ItemStates] /\ items' = [items EXCEPT ![n] = state]
    BY DEF ProductInv, MapInv, MapShape, Becomes
<1> QED
    BY <1>1

\* A product that is not over, and the preparation not at its end.
LEMMA ItemIsOpen ==
    ASSUME ProductInv, NEW n \in Positions, items[n] \notin {"waiting", "over", "cancelled"}
    PROVE  /\ mapAt \in {"mapping", "retry", "raised"} /\ (mapAt = "raised" => May("malformed"))
           /\ payload = <<>>
    BY DEF ProductInv, MapInv, MapShape, MapPlaces, EarlyInv, StoppedInv, EndedInv

LEMMA SlotsKept ==
    ASSUME ProductInv, NEW n \in Positions, NEW state \in ItemStates \ {"mapping"}, Becomes(n, state)
    PROVE  SlotInv'
<1>1. At("mapping")' \subseteq At("mapping")
    BY ItemMoves DEF At
<1>2. At("mapping") \in SUBSET Positions
    BY DEF At
<1>3. /\ Cardinality(At("mapping")') \in Nat /\ Cardinality(At("mapping")) \in Nat
      /\ Cardinality(At("mapping")') <= Cardinality(At("mapping"))
    BY <1>1, <1>2, PositionsAre
<1>4. Cardinality(At("mapping")) <= MapSlots /\ MapSlots \in Nat
    BY MappingAssumption DEF ProductInv, MapInv, SlotInv
<1>5. Cardinality(At("mapping")') <= MapSlots
    BY <1>3, <1>4, AtMost
<1> QED
    BY <1>5 DEF SlotInv

\* A step that leaves the product open, and touches nothing else.
LEMMA OpenItemKept ==
    ASSUME ProductInv, UNCHANGED scene, NEW n \in Positions, NEW state \in ItemStates \ {"waiting", "over", "cancelled"},
           Becomes(n, state), UNCHANGED <<mapAt, notes, published, progressed, payload>>,
           items[n] \notin {"over", "cancelled"},
           mapAt \in {"mapping", "retry", "raised"}, mapAt = "raised" => May("malformed"), payload = <<>>,
           mapped' \in SUBSET Positions, mapped \subseteq mapped', results' \in [Positions -> PreparedEans],
           state \in {"mapped", "normalizing", "publishing"} => n \in mapped',
           state = "publishing" => results'[n] # Unknown, results'[n] # Unknown => n \in mapped',
           \A m \in Positions : m # n => results'[m] = results[m]
    PROVE  MapShape' /\ EarlyInv' /\ ResultInv' /\ OverInv' /\ ProgressInv' /\ StoppedInv' /\ EndedInv'
<1>1. /\ items' \in [Positions -> ItemStates] /\ items'[n] = state
      /\ \A m \in Positions : m # n => items'[m] = items[m]
    BY ItemMoves
<1>2. MapShape' /\ EarlyInv'
    BY <1>1 DEF ProductInv, MapInv, MapShape, EarlyInv
<1>3. ResultInv'
    BY <1>1 DEF ProductInv, MapInv, ResultInv
<1>4. OverInv'
    BY <1>1 DEF ProductInv, MapInv, OverInv
<1>5. ProgressInv'
    <2>1. At("over")' = At("over")
        BY <1>1 DEF At
    <2> QED
        BY <2>1 DEF ProductInv, MapInv, ProgressInv
<1>6. StoppedInv' /\ EndedInv'
    BY DEF StoppedInv, EndedInv, May
<1> QED
    BY <1>2, <1>3, <1>4, <1>5, <1>6

\* A step that is the last of a product: it is noted, or published.
LEMMA LastStepKept ==
    ASSUME ProductInv, UNCHANGED scene, NEW n \in Positions, FinishedItem(n),
           items[n] \notin {"waiting", "over", "cancelled"},
           UNCHANGED <<mapAt, mapped, results, payload>>,
           notes' \in SUBSET Positions, notes \subseteq notes', published' \in Seq(Positions),
           ToSet(published) \subseteq ToSet(published'),
           n \in notes' \/ (results[n] # Unknown /\ n \in ToSet(published'))
    PROVE  MapInv'
<1>1. /\ Becomes(n, "over") /\ "over" \in ItemStates \ {"mapping"}
      /\ progressed' = progressed + IF mapAt = "retry" THEN 0 ELSE 1
    BY DEF FinishedItem, Counted, ItemStates
<1>2. /\ items' \in [Positions -> ItemStates] /\ items'[n] = "over"
      /\ \A m \in Positions : m # n => items'[m] = items[m]
    BY <1>1, ItemMoves
<1>3. mapAt \in {"mapping", "retry", "raised"} /\ (mapAt = "raised" => May("malformed")) /\ payload = <<>>
    BY ItemIsOpen
<1>4. progressed \in Nat /\ progressed' \in Nat
    BY <1>1 DEF ProductInv, MapInv, MapShape
<1>5. MapShape' /\ EarlyInv'
    BY <1>2, <1>3, <1>4 DEF ProductInv, MapInv, MapShape, EarlyInv
<1>6. ResultInv'
    BY <1>2 DEF ProductInv, MapInv, ResultInv
<1>7. OverInv'
    BY <1>2 DEF ProductInv, MapInv, OverInv
<1>8. ProgressInv'
    <2>1. At("over")' = At("over") \cup {n} /\ n \notin At("over") /\ At("over") \in SUBSET Positions
        BY <1>2 DEF At
    <2>2. Cardinality(At("over")') = Cardinality(At("over")) + 1
        BY <2>1, OneMore
    <2> QED
        BY <1>1, <1>3, <1>4, <2>2, PositionsAre DEF ProductInv, MapInv, ProgressInv
<1>9. StoppedInv' /\ EndedInv'
    BY <1>3 DEF StoppedInv, EndedInv, May
<1> QED
    BY <1>1, <1>5, <1>6, <1>7, <1>8, <1>9, SlotsKept DEF MapInv

LEMMA MalformedRaisesKept ==
    ASSUME ProductInv, UNCHANGED scene, NEW n \in Positions, MalformedRaises(n)
    PROVE  MapInv'
<1>1. /\ mapAt = "mapping" /\ mapAt' = "raised" /\ May("malformed") /\ Becomes(n, "over")
      /\ UNCHANGED <<mapped, results, published, notes, progressed, payload>>
      /\ "over" \in ItemStates \ {"mapping"}
    BY DEF MalformedRaises, ItemStates
<1>2. /\ items' \in [Positions -> ItemStates] /\ items'[n] = "over"
      /\ \A m \in Positions : m # n => items'[m] = items[m]
    BY <1>1, ItemMoves
<1>3. MapShape' /\ EarlyInv' /\ OverInv' /\ ProgressInv'
    BY <1>1, <1>2 DEF ProductInv, MapInv, MapShape, MapPlaces, EarlyInv, OverInv, ProgressInv
<1>4. ResultInv'
    BY <1>1, <1>2 DEF ProductInv, MapInv, ResultInv
<1>5. StoppedInv' /\ EndedInv'
    BY <1>1 DEF ProductInv, MapInv, StoppedInv, EndedInv, May
<1> QED
    BY <1>1, <1>3, <1>4, <1>5, SlotsKept DEF MapInv

LEMMA AskModelKept ==
    ASSUME ProductInv, UNCHANGED scene, NEW n \in Positions, AskModel(n)
    PROVE  MapInv'
<1>1. /\ mapAt = "mapping" \/ (mapAt = "raised" /\ May("malformed"))
      /\ items[n] = "waiting" /\ Becomes(n, "mapping")
      /\ Cardinality({m \in Positions : HoldsSlot(m)}) < MapSlots
      /\ UNCHANGED <<mapAt, mapped, results, published, notes, progressed, payload>>
      /\ "mapping" \in ItemStates \ {"waiting", "over", "cancelled"}
    BY DEF AskModel, ItemStates
<1>2. payload = <<>> /\ mapAt \in {"mapping", "retry", "raised"}
    BY <1>1 DEF ProductInv, MapInv, EndedInv
<1>3. MapShape' /\ EarlyInv' /\ ResultInv' /\ OverInv' /\ ProgressInv' /\ StoppedInv' /\ EndedInv'
    <2>1. mapped' \in SUBSET Positions /\ results' \in [Positions -> PreparedEans]
        BY <1>1 DEF ProductInv, MapInv, MapShape
    <2>2. results'[n] # Unknown => n \in mapped'
        BY <1>1 DEF ProductInv, MapInv, ResultInv
    <2> QED
        BY <1>1, <1>2, <2>1, <2>2, OpenItemKept
<1>4. SlotInv'
    <2>1. /\ items' \in [Positions -> ItemStates] /\ items'[n] = "mapping"
          /\ \A m \in Positions : m # n => items'[m] = items[m]
        BY <1>1, ItemMoves
    <2>2. At("mapping")' = At("mapping") \cup {n} /\ n \notin At("mapping") /\ At("mapping") \in SUBSET Positions
        BY <1>1, <2>1 DEF At
    <2>3. Cardinality(At("mapping")') = Cardinality(At("mapping")) + 1 /\ Cardinality(At("mapping")) \in Nat
        BY <2>2, OneMore, PositionsAre
    <2>4. Cardinality(At("mapping")) < MapSlots
        BY <1>1 DEF At, HoldsSlot
    <2>5. MapSlots \in Nat
        BY MappingAssumption
    <2>6. Cardinality(At("mapping")') <= MapSlots
        BY <2>3, <2>4, <2>5
    <2> QED
        BY <2>6 DEF SlotInv
<1> QED
    BY <1>3, <1>4 DEF MapInv

LEMMA ModelAnswersKept ==
    ASSUME ProductInv, UNCHANGED scene, NEW n \in Positions, ModelAnswers(n)
    PROVE  MapInv'
<1>1. /\ items[n] = "mapping" /\ Becomes(n, "mapped") /\ mapped' = mapped \cup {n}
      /\ UNCHANGED <<mapAt, results, published, notes, progressed, payload>>
      /\ "mapped" \in ItemStates \ {"waiting", "over", "cancelled"} /\ "mapped" \in ItemStates \ {"mapping"}
    BY DEF ModelAnswers, ItemStates
<1>2. mapAt \in {"mapping", "retry", "raised"} /\ (mapAt = "raised" => May("malformed")) /\ payload = <<>>
    BY <1>1, ItemIsOpen
<1>3. MapShape' /\ EarlyInv' /\ ResultInv' /\ OverInv' /\ ProgressInv' /\ StoppedInv' /\ EndedInv'
    <2>1. mapped' \in SUBSET Positions /\ results' \in [Positions -> PreparedEans] /\ n \in mapped' /\ mapped \subseteq mapped'
        BY <1>1 DEF ProductInv, MapInv, MapShape
    <2> QED
        BY <1>1, <1>2, <2>1, OpenItemKept
<1> QED
    BY <1>1, <1>3, SlotsKept DEF MapInv

LEMMA NormalizeItemKept ==
    ASSUME ProductInv, UNCHANGED scene, NEW n \in Positions, NormalizeItem(n)
    PROVE  MapInv'
<1>1. /\ items[n] = "mapped" /\ Becomes(n, "normalizing")
      /\ UNCHANGED <<mapAt, mapped, results, published, notes, progressed, payload>>
      /\ "normalizing" \in ItemStates \ {"waiting", "over", "cancelled"} /\ "normalizing" \in ItemStates \ {"mapping"}
    BY DEF NormalizeItem, ItemStates
<1>2. mapAt \in {"mapping", "retry", "raised"} /\ (mapAt = "raised" => May("malformed")) /\ payload = <<>>
    BY <1>1, ItemIsOpen
<1>3. MapShape' /\ EarlyInv' /\ ResultInv' /\ OverInv' /\ ProgressInv' /\ StoppedInv' /\ EndedInv'
    <2>1. mapped' \in SUBSET Positions /\ results' \in [Positions -> PreparedEans] /\ n \in mapped'
        BY <1>1 DEF ProductInv, MapInv, MapShape, ResultInv
    <2> QED
        BY <1>1, <1>2, <2>1, OpenItemKept
<1> QED
    BY <1>1, <1>3, SlotsKept DEF MapInv

LEMMA NormalizedItemKept ==
    ASSUME ProductInv, UNCHANGED scene, NEW n \in Positions, NormalizedItem(n)
    PROVE  MapInv'
<1>1. /\ items[n] = "normalizing" /\ Becomes(n, "publishing")
      /\ results' = [results EXCEPT ![n] = IdentityOf(n)]
      /\ UNCHANGED <<mapAt, mapped, published, notes, progressed, payload>>
      /\ "publishing" \in ItemStates \ {"waiting", "over", "cancelled"} /\ "publishing" \in ItemStates \ {"mapping"}
    BY DEF NormalizedItem, ItemStates
<1>2. mapAt \in {"mapping", "retry", "raised"} /\ (mapAt = "raised" => May("malformed")) /\ payload = <<>>
    BY <1>1, ItemIsOpen
<1>3. IdentityOf(n) \in PreparedEans /\ IdentityOf(n) # Unknown
    <2>1. SourceEans[n] \in ToSet(SourceEans)
        BY PositionsAre
    <2>2. "AUTO-EAN" # Unknown
        BY MappingAssumption
    <2> QED
        BY <2>1, <2>2 DEF IdentityOf, PreparedEans
<1>4. MapShape' /\ EarlyInv' /\ ResultInv' /\ OverInv' /\ ProgressInv' /\ StoppedInv' /\ EndedInv'
    <2>1. results \in [Positions -> PreparedEans] /\ mapped \in SUBSET Positions /\ n \in mapped
        BY <1>1 DEF ProductInv, MapInv, MapShape, ResultInv
    <2>2. /\ results' \in [Positions -> PreparedEans] /\ results'[n] # Unknown
          /\ \A m \in Positions : m # n => results'[m] = results[m]
        BY <1>1, <1>3, <2>1
    <2> QED
        BY <1>1, <1>2, <2>1, <2>2, OpenItemKept
<1> QED
    BY <1>1, <1>4, SlotsKept DEF MapInv

\* The product is among the noted ones, whether the mapping or the normalization failed.
LEMMA FailingKept ==
    ASSUME ProductInv, UNCHANGED scene, NEW n \in Positions, ModelFails(n) \/ NormalizeFails(n) \/ PublishFails(n)
    PROVE  MapInv'
<1>1. /\ items[n] \in {"mapping", "normalizing", "publishing"} /\ FinishedItem(n) /\ notes' = notes \cup {n}
      /\ UNCHANGED <<mapAt, mapped, results, published, payload>>
    BY DEF ModelFails, NormalizeFails, PublishFails, NotedAt
<1>2. notes' \in SUBSET Positions /\ n \in notes' /\ notes \subseteq notes' /\ published' \in Seq(Positions)
    BY <1>1 DEF ProductInv, MapInv, MapShape
<1> QED
    BY <1>1, <1>2, LastStepKept DEF MapInv

LEMMA PublishItemKept ==
    ASSUME ProductInv, UNCHANGED scene, NEW n \in Positions, PublishItem(n)
    PROVE  MapInv'
<1>1. /\ items[n] = "publishing" /\ FinishedItem(n) /\ published' = Append(published, n)
      /\ UNCHANGED <<mapAt, mapped, results, notes, payload>>
    BY DEF PublishItem
<1>2. published \in Seq(Positions) /\ notes' \in SUBSET Positions /\ results[n] # Unknown
    BY <1>1 DEF ProductInv, MapInv, MapShape, ResultInv
<1>3. published' \in Seq(Positions) /\ ToSet(published) \subseteq ToSet(published') /\ n \in ToSet(published')
    <2>1. /\ published' \in Seq(Positions) /\ Len(published') = Len(published) + 1 /\ published'[Len(published) + 1] = n
          /\ \A i \in 1 .. Len(published) : published'[i] = published[i]
        BY <1>1, <1>2, AppendProperties
    <2>2. /\ DOMAIN published = 1 .. Len(published) /\ Len(published) \in Nat
          /\ DOMAIN published' = 1 .. (Len(published) + 1)
        BY <1>2, <2>1, LenProperties
    <2>3. ToSet(published) \subseteq ToSet(published')
        BY <2>1, <2>2 DEF ToSet
    <2>4. Len(published) + 1 \in DOMAIN published'
        BY <2>2
    <2> QED
        BY <2>1, <2>3, <2>4 DEF ToSet
<1> QED
    BY <1>1, <1>2, <1>3, LastStepKept DEF MapInv

LEMMA MappingKept ==
    ASSUME ProductInv, UNCHANGED scene, MappingStep
    PROVE  MapInv'
<1>1. CASE FetchSource \/ FetchFails \/ Describe \/ LoadContexts \/ ContextsFail
    BY <1>1, MapGoesKept DEF FetchSource, FetchFails, Describe, LoadContexts, ContextsFail
<1>2. CASE MapTimesOut \/ RetryItems \/ BuildPayload
    BY <1>2, MapTimesOutKept, RetryItemsKept, BuildPayloadKept
<1>3. ASSUME NEW n \in Positions, MalformedRaises(n) \/ ItemStep(n)
      PROVE  MapInv'
    BY <1>3, MalformedRaisesKept, AskModelKept, ModelAnswersKept, NormalizeItemKept, NormalizedItemKept,
       FailingKept, PublishItemKept DEF ItemStep
<1> QED
    BY <1>1, <1>2, <1>3 DEF MappingStep, MapInv

-----------------------------------------------------------------------------
(* The content of one product.                                             *)

LEMMA WiderSeq ==
    ASSUME NEW S, NEW T, S \subseteq T, NEW s \in Seq(S)
    PROVE  s \in Seq(T)
<1>1. Len(s) \in Nat /\ s \in [1 .. Len(s) -> S]
    BY LenProperties
<1>2. s \in [1 .. Len(s) -> T]
    BY <1>1
<1> QED
    BY <1>1, <1>2, SequenceOf

LEMMA NamedSeq ==
    ASSUME NEW s \in Seq([name : STRING, values : Seq(STRING)])
    PROVE  s \in Seq(Attributes)
<1>1. [name : STRING, values : Seq(STRING)] \subseteq Attributes
    BY DEF Attributes
<1> QED
    BY <1>1, WiderSeq

LEMMA SubjectIs ==
    ASSUME content.of \in DOMAIN Contents
    PROVE  /\ Subject.farbe \in Seq(STRING) /\ HaveValues(Subject.direct)
           /\ Subject.options \in Seq([name : STRING, colour : BOOLEAN, allowed : SUBSET STRING])
           /\ \A m, n \in DOMAIN Subject.options : Subject.options[m].name = Subject.options[n].name => m = n
<1>1. /\ Subject.direct \in Seq([name : STRING, values : Seq(STRING)])
      /\ \A n \in DOMAIN Subject.direct : Subject.direct[n].values # <<>>
    BY MappingAssumption DEF Subject
<1>2. HaveValues(Subject.direct)
    BY <1>1, NamedSeq DEF HaveValues
<1> QED
    BY <1>2, MappingAssumption DEF Subject

LEMMA ColoursAre ==
    ASSUME NEW option \in [name : STRING, colour : BOOLEAN, allowed : SUBSET STRING], NEW colours \in Seq(STRING)
    PROVE  /\ AllowedColours(option, colours) \in Seq(STRING)
           /\ option.allowed = {} \/ ToSet(AllowedColours(option, colours)) \subseteq option.allowed
<1>1. CASE option.allowed = {}
    BY <1>1 DEF AllowedColours
<1>2. CASE option.allowed # {}
    <2> DEFINE places == {n \in DOMAIN colours : colours[n] \in option.allowed}
    <2>1. AllowedColours(option, colours) = Picked(colours, places)
        BY <1>2 DEF AllowedColours
    <2>2. places \in SUBSET DOMAIN colours /\ \A n \in places : colours[n] \in option.allowed
        OBVIOUS
    <2> HIDE DEF places
    <2>3. /\ Picked(colours, places) \in Seq(STRING)
          /\ DOMAIN Picked(colours, places) = 1 .. Cardinality(places)
          /\ \A i \in 1 .. Cardinality(places) :
                Nth(places, i) \in places /\ Picked(colours, places)[i] = colours[Nth(places, i)]
        BY <2>2, PickedIs
    <2>4. \A i \in DOMAIN Picked(colours, places) : Picked(colours, places)[i] \in option.allowed
        BY <2>2, <2>3
    <2>5. ToSet(Picked(colours, places)) \subseteq option.allowed
        BY <2>4 DEF ToSet
    <2> QED
        BY <2>1, <2>3, <2>5
<1> QED
    BY <1>1, <1>2

LEMMA PrimaryIs ==
    ASSUME content.of \in DOMAIN Contents, NEW attributes, HaveValues(attributes)
    PROVE  ColoursOf(attributes) \in Seq(STRING)
<1> DEFINE at == {n \in DOMAIN attributes : attributes[n].name = "farbe"}
           last == CHOOSE n \in at : \A m \in at : m <= n
<1>1. CASE at = {}
    BY <1>1, SubjectIs DEF ColoursOf
<1>2. CASE at # {}
    <2>1. Len(attributes) \in Nat /\ DOMAIN attributes = 1 .. Len(attributes)
        BY LenProperties DEF HaveValues
    <2>2. at \in SUBSET Nat /\ \A n \in at : n <= Len(attributes)
        BY <2>1
    <2> DEFINE back == {j \in Nat : \E n \in at : j = Len(attributes) - n}
    <2>3. back \in SUBSET Nat /\ back # {}
        BY <1>2, <2>1, <2>2
    <2>4. PICK j \in back : \A i \in back : j <= i
        <3> HIDE DEF back
        <3> QED
            BY <2>3, LeastOf
    <2>5. PICK n \in at : j = Len(attributes) - n
        BY <2>4
    <2>6. ASSUME NEW m \in at PROVE m <= n
        <3>1. m \in Nat /\ m <= Len(attributes) /\ n \in Nat
            BY <2>2
        <3>2. Len(attributes) - m \in back
            BY <2>1, <3>1
        <3>3. Len(attributes) - n <= Len(attributes) - m
            BY <2>4, <2>5, <3>2
        <3> QED
            BY <2>1, <3>1, <3>3
    <2>7. last \in at
        <3> HIDE DEF at
        <3> QED
            BY <2>6
    <2>8. last \in DOMAIN attributes /\ ColoursOf(attributes) = attributes[last].values
        BY <1>2, <2>7 DEF ColoursOf
    <2>9. attributes[last] \in Attributes
        <3> HIDE DEF last
        <3> QED
            BY <2>8, <2>1, LenProperties DEF HaveValues
    <2> HIDE DEF last
    <2> QED
        BY <2>8, <2>9 DEF Attributes
<1> QED
    BY <1>1, <1>2

LEMMA AppendedAre ==
    ASSUME NEW done, HaveValues(done), NEW added \in Attributes, added.values # <<>>
    PROVE  /\ HaveValues(Append(done, added)) /\ Len(done) \in Nat /\ DOMAIN done = 1 .. Len(done)
           /\ Len(Append(done, added)) = Len(done) + 1
           /\ DOMAIN Append(done, added) = 1 .. (Len(done) + 1)
           /\ Append(done, added)[Len(done) + 1] = added
           /\ \A n \in DOMAIN done : Append(done, added)[n] = done[n]
<1>1. done \in Seq(Attributes) /\ Len(done) \in Nat /\ DOMAIN done = 1 .. Len(done)
    BY LenProperties DEF HaveValues
<1>2. /\ Append(done, added) \in Seq(Attributes) /\ Len(Append(done, added)) = Len(done) + 1
      /\ Append(done, added)[Len(done) + 1] = added
      /\ \A n \in 1 .. Len(done) : Append(done, added)[n] = done[n]
    BY <1>1, AppendProperties
<1>3. DOMAIN Append(done, added) = 1 .. (Len(done) + 1)
    BY <1>2, LenProperties
<1>4. \A n \in 1 .. (Len(done) + 1) : n = Len(done) + 1 \/ n \in 1 .. Len(done)
    BY <1>1
<1>5. \A n \in DOMAIN Append(done, added) : Append(done, added)[n].values # <<>>
    BY <1>1, <1>2, <1>3, <1>4 DEF HaveValues
<1> QED
    BY <1>1, <1>2, <1>3, <1>5 DEF HaveValues

LEMMA PrimaryIsColoured ==
    ASSUME content.of \in DOMAIN Contents, NEW attributes, HaveValues(attributes)
    PROVE  Coloured(WithPrimary(attributes), attributes, Subject.options, 0)
<1>1. Len(attributes) \in Nat /\ DOMAIN attributes = 1 .. Len(attributes)
    BY LenProperties DEF HaveValues
<1>2. CASE "farbe" \in NamesIn(attributes) \/ Subject.farbe = <<>>
    <2>1. WithPrimary(attributes) = attributes
        BY <1>2 DEF WithPrimary
    <2>2. \A n \in DOMAIN attributes : ~(n > Len(attributes))
        BY <1>1
    <2> QED
        BY <1>1, <2>1, <2>2 DEF Coloured
<1>3. CASE ~("farbe" \in NamesIn(attributes) \/ Subject.farbe = <<>>)
    <2> DEFINE added == [name |-> "farbe", values |-> Subject.farbe]
    <2>1. added \in Attributes /\ added.values # <<>> /\ added.name = "farbe"
        <3>1. Subject.farbe \in Seq(STRING) /\ Subject.farbe # <<>>
            BY <1>3, SubjectIs
        <3> QED
            BY <3>1 DEF Attributes
    <2>2. WithPrimary(attributes) = Append(attributes, added)
        BY <1>3 DEF WithPrimary
    <2> HIDE DEF added
    <2> DEFINE done == Append(attributes, added)
    <2>3. /\ HaveValues(done) /\ Len(done) = Len(attributes) + 1
          /\ DOMAIN done = 1 .. (Len(attributes) + 1) /\ done[Len(attributes) + 1] = added
        BY <2>1, AppendedAre
    <2>4. \A n \in DOMAIN done : n > Len(attributes) => n = Len(attributes) + 1
        BY <1>1, <2>3
    <2> HIDE DEF done
    <2>5. Len(attributes) <= Len(done)
        BY <1>1, <2>3
    <2>6. Coloured(done, attributes, Subject.options, 0)
        BY <2>1, <2>3, <2>4, <2>5 DEF Coloured
    <2> QED
        BY <2>2, <2>6 DEF done
<1> QED
    BY <1>2, <1>3

LEMMA OptionIsColoured ==
    ASSUME content.of \in DOMAIN Contents, NEW attributes, HaveValues(attributes), NEW primary \in Seq(STRING),
           NEW k \in 1 .. Len(Subject.options), NEW done, Coloured(done, attributes, Subject.options, k - 1)
    PROVE  Coloured(WithColour(done, Subject.options[k], primary), attributes, Subject.options, k)
<1> DEFINE option == Subject.options[k]
           colours == AllowedColours(option, primary)
           added == [name |-> option.name, values |-> colours]
           new == Append(done, added)
<1>1. Len(Subject.options) \in Nat /\ option \in [name : STRING, colour : BOOLEAN, allowed : SUBSET STRING]
    BY SubjectIs, LenProperties
<1>2. k \in Nat /\ k - 1 \in Nat /\ k \in 1 .. k /\ \A i \in 1 .. (k - 1) : i \in 1 .. k
    BY <1>1
<1> HIDE DEF option
<1>3. colours \in Seq(STRING) /\ (option.allowed = {} \/ ToSet(colours) \subseteq option.allowed)
    BY <1>1, ColoursAre
<1> HIDE DEF colours
<1>4. /\ HaveValues(done) /\ Len(attributes) <= Len(done)
      /\ \A n \in DOMAIN done : n > Len(attributes) /\ done[n].name # "farbe" =>
            /\ \A m \in DOMAIN done : m # n => done[m].name # done[n].name
            /\ \E i \in 1 .. k : /\ Subject.options[i].name = done[n].name
                                 /\ Subject.options[i].allowed = {}
                                    \/ ToSet(done[n].values) \subseteq Subject.options[i].allowed
    BY <1>2 DEF Coloured
<1>5. CASE ~option.colour \/ HasValue(done, option.name) \/ colours = <<>>
    <2>1. WithColour(done, option, primary) = done
        BY <1>5 DEF WithColour, colours
    <2>2. Coloured(done, attributes, Subject.options, k)
        BY <1>4 DEF Coloured
    <2> QED
        BY <2>1, <2>2 DEF option
<1>6. CASE ~(~option.colour \/ HasValue(done, option.name) \/ colours = <<>>)
    <2>1. WithColour(done, option, primary) = new
        BY <1>6 DEF WithColour, colours
    <2>2. added \in Attributes /\ added.values # <<>> /\ added.name = option.name /\ added.values = colours
        BY <1>1, <1>3, <1>6 DEF Attributes
    <2> HIDE DEF added
    <2>3. /\ HaveValues(new) /\ Len(new) = Len(done) + 1 /\ Len(done) \in Nat /\ DOMAIN done = 1 .. Len(done)
          /\ DOMAIN new = 1 .. (Len(done) + 1) /\ new[Len(done) + 1] = added
          /\ \A n \in DOMAIN done : new[n] = done[n]
        BY <1>4, <2>2, AppendedAre
    <2> HIDE DEF new
    <2>4. Len(attributes) \in Nat
        BY LenProperties DEF HaveValues
    <2>5. Len(attributes) <= Len(new)
        BY <1>4, <2>3, <2>4
    <2>6. \A n \in DOMAIN new : n = Len(done) + 1 \/ (n \in DOMAIN done /\ n # Len(done) + 1)
        BY <2>3
    <2>7. \A m \in DOMAIN done : done[m].name # option.name
        <3>1. \A m \in DOMAIN done : done[m].values # <<>>
            BY <1>4 DEF HaveValues
        <3> QED
            BY <1>6, <3>1 DEF HasValue, ToSet
    <2>8. ASSUME NEW n \in DOMAIN new, n > Len(attributes), new[n].name # "farbe"
          PROVE  /\ \A m \in DOMAIN new : m # n => new[m].name # new[n].name
                 /\ \E i \in 1 .. k : /\ Subject.options[i].name = new[n].name
                                      /\ Subject.options[i].allowed = {}
                                         \/ ToSet(new[n].values) \subseteq Subject.options[i].allowed
        <3>1. CASE n = Len(done) + 1
            <4>1. new[n].name = option.name /\ new[n].values = colours
                BY <2>2, <2>3, <3>1
            <4>2. \A m \in DOMAIN new : m # n => new[m].name # new[n].name
                BY <2>3, <2>6, <2>7, <3>1, <4>1
            <4> QED
                BY <1>2, <1>3, <4>1, <4>2 DEF option
        <3>2. CASE n \in DOMAIN done /\ n # Len(done) + 1
            <4>1. new[n] = done[n]
                BY <2>3, <3>2
            <4>2. \A m \in DOMAIN new : m # n => new[m].name # new[n].name
                BY <1>4, <2>2, <2>3, <2>6, <2>7, <2>8, <3>2, <4>1
            <4> QED
                BY <1>4, <2>8, <3>2, <4>1, <4>2
        <3> QED
            BY <2>6, <3>1, <3>2
    <2>9. Coloured(new, attributes, Subject.options, k)
        BY <2>3, <2>5, <2>8 DEF Coloured
    <2> QED
        BY <2>1, <2>9 DEF option
<1> QED
    BY <1>5, <1>6

\* The loop over the options has a value at every step, which the definition names.
LEMMA LoopIs ==
    ASSUME NEW attributes, Len(Subject.options) \in Nat
    PROVE  \E after :
              /\ after[0] = WithPrimary(attributes)
              /\ \A n \in 1 .. Len(Subject.options) :
                    after[n] = WithColour(after[n - 1], Subject.options[n], ColoursOf(attributes))
              /\ Autofilled(attributes) =
                    IF ColoursOf(attributes) = <<>> THEN attributes ELSE after[Len(Subject.options)]
<1> DEFINE size == Len(Subject.options)
           base == WithPrimary(attributes)
           primary == ColoursOf(attributes)
           Next1(x, n) == WithColour(x, Subject.options[n], primary)
           Goes(f, k) == f = [n \in 0 .. k |-> IF n = 0 THEN base ELSE Next1(f[n - 1], n)]
           T == {k \in Nat : ~ \E f : Goes(f, k)}
           after == CHOOSE f : Goes(f, size)
<1>6. Autofilled(attributes) = IF primary = <<>> THEN attributes ELSE after[size]
    BY DEF Autofilled
<1>7. size \in Nat
    OBVIOUS
<1> HIDE DEF after, size, base
<1> HIDE DEF Next1
<1>1. ASSUME T # {} PROVE FALSE
    <2>1. PICK k \in T : \A i \in T : k <= i
        <3>1. T \in SUBSET Nat
            OBVIOUS
        <3> HIDE DEF T
        <3> QED
            BY <1>1, <3>1, LeastOf
    <2>2. k \in Nat /\ ~ \E f : Goes(f, k)
        BY <2>1
    <2>3. CASE k = 0
        <3> DEFINE f == [n \in 0 .. 0 |-> base]
        <3>1. f = [n \in 0 .. 0 |-> IF n = 0 THEN base ELSE Next1(f[n - 1], n)]
            OBVIOUS
        <3> HIDE DEF f
        <3>2. Goes(f, k)
            BY <2>3, <3>1
        <3> HIDE DEF Goes
        <3> QED
            BY <2>2, <3>2
    <2>4. CASE k # 0
        <3>1. k - 1 \in Nat /\ ~(k <= k - 1)
            BY <2>2, <2>4
        <3>2. PICK g : Goes(g, k - 1)
            BY <2>1, <3>1
        <3> DEFINE f == [n \in 0 .. k |-> IF n = k THEN Next1(g[k - 1], k) ELSE g[n]]
                   b == [n \in 0 .. k |-> IF n = 0 THEN base ELSE Next1(f[n - 1], n)]
        <3>3. \A n \in 0 .. k : n # k => n \in 0 .. (k - 1)
            BY <2>2
        <3>4. \A n \in 0 .. (k - 1) : g[n] = IF n = 0 THEN base ELSE Next1(g[n - 1], n)
            BY <3>2
        <3>5. ASSUME NEW n \in 0 .. k PROVE f[n] = b[n]
            <4>1. n # 0 => n - 1 \in 0 .. k /\ n - 1 # k
                BY <2>2
            <4>2. n # 0 => f[n - 1] = g[n - 1]
                BY <4>1
            <4>3. CASE n = k
                <5>1. f[n] = Next1(g[k - 1], k)
                    BY <4>3
                <5>2. b[n] = Next1(f[k - 1], k)
                    BY <2>4, <4>3
                <5> HIDE DEF f, b
                <5> QED
                    BY <2>4, <4>2, <4>3, <5>1, <5>2
            <4>4. CASE n # k
                <5>1. f[n] = g[n] /\ g[n] = IF n = 0 THEN base ELSE Next1(g[n - 1], n)
                    BY <3>3, <3>4, <4>4
                <5>2. b[n] = IF n = 0 THEN base ELSE Next1(f[n - 1], n)
                    OBVIOUS
                <5> HIDE DEF f, b
                <5> QED
                    BY <4>2, <5>1, <5>2
            <4> QED
                BY <4>3, <4>4
        <3>6. f = b
            BY <3>5
        <3>7. Goes(f, k)
            <4> HIDE DEF f
            <4> QED
                BY <3>6
        <3> HIDE DEF Goes, f
        <3> QED
            BY <2>2, <3>7
    <2> QED
        BY <2>3, <2>4
<1>2. Goes(after, size)
    <2>1. \E f : Goes(f, size)
        BY <1>1, <1>7
    <2> HIDE DEF Goes
    <2> QED
        BY <2>1 DEF after
<1>3. \A n \in 0 .. size : after[n] = IF n = 0 THEN base ELSE Next1(after[n - 1], n)
    BY <1>2
<1>4. 0 \in 0 .. size /\ \A n \in 1 .. size : n \in 0 .. size /\ n # 0
    BY <1>7
<1>5. after[0] = base /\ \A n \in 1 .. size : after[n] = Next1(after[n - 1], n)
    BY <1>3, <1>4
<1> QED
    BY <1>5, <1>6 DEF Next1, base, size

LEMMA AutofilledIs ==
    ASSUME content.of \in DOMAIN Contents, NEW attributes, HaveValues(attributes)
    PROVE  Coloured(Autofilled(attributes), attributes, Subject.options, Len(Subject.options))
<1> DEFINE size == Len(Subject.options)
           primary == ColoursOf(attributes)
           base == WithPrimary(attributes)
<1>1. size \in Nat /\ primary \in Seq(STRING)
    BY PrimaryIs, SubjectIs, LenProperties
<1>2. PICK after :
          /\ after[0] = base
          /\ \A n \in 1 .. size : after[n] = WithColour(after[n - 1], Subject.options[n], primary)
          /\ Autofilled(attributes) = IF primary = <<>> THEN attributes ELSE after[size]
    BY <1>1, LoopIs
<1>4. Coloured(base, attributes, Subject.options, 0)
    BY PrimaryIsColoured
<1> HIDE DEF base, primary
<1> DEFINE T == {n \in Nat : n <= size /\ ~Coloured(after[n], attributes, Subject.options, n)}
<1>5. ASSUME T # {} PROVE FALSE
    <2>1. PICK n \in T : \A i \in T : n <= i
        <3>1. T \in SUBSET Nat
            OBVIOUS
        <3> HIDE DEF T
        <3> QED
            BY <1>5, <3>1, LeastOf
    <2>2. n \in Nat /\ n <= size /\ ~Coloured(after[n], attributes, Subject.options, n)
        BY <2>1
    <2>3. n # 0
        BY <1>2, <1>4, <2>2
    <2>4. n \in 1 .. size /\ n - 1 \in Nat /\ n - 1 <= size /\ ~(n <= n - 1)
        BY <1>1, <2>2, <2>3
    <2>5. Coloured(after[n - 1], attributes, Subject.options, n - 1)
        BY <2>1, <2>4
    <2>6. Coloured(WithColour(after[n - 1], Subject.options[n], primary), attributes, Subject.options, n)
        BY <1>1, <2>4, <2>5, OptionIsColoured
    <2> QED
        BY <1>2, <2>2, <2>4, <2>6
<1>6. Coloured(after[size], attributes, Subject.options, size)
    <2>1. size <= size
        BY <1>1
    <2> HIDE DEF size
    <2> QED
        BY <1>1, <1>5, <2>1
<1>7. Coloured(attributes, attributes, Subject.options, size)
    <2>1. Len(attributes) \in Nat /\ DOMAIN attributes = 1 .. Len(attributes)
        BY LenProperties DEF HaveValues
    <2>2. Len(attributes) <= Len(attributes) /\ \A n \in DOMAIN attributes : ~(n > Len(attributes))
        BY <2>1
    <2> QED
        BY <2>2 DEF Coloured
<1> QED
    BY <1>2, <1>6, <1>7

LEMMA JoinedHaveValues ==
    ASSUME NEW s, NEW t, HaveValues(s), HaveValues(t)
    PROVE  HaveValues(s \o t)
<1>1. s \in Seq(Attributes) /\ t \in Seq(Attributes)
    BY DEF HaveValues
<1>2. /\ s \o t \in Seq(Attributes) /\ Len(s) \in Nat /\ Len(t) \in Nat /\ Len(s \o t) = Len(s) + Len(t)
      /\ DOMAIN s = 1 .. Len(s) /\ DOMAIN t = 1 .. Len(t) /\ DOMAIN (s \o t) = 1 .. (Len(s) + Len(t))
      /\ \A n \in 1 .. (Len(s) + Len(t)) : (s \o t)[n] = IF n <= Len(s) THEN s[n] ELSE t[n - Len(s)]
    BY <1>1, ConcatProperties, LenProperties
<1>3. ASSUME NEW n \in DOMAIN (s \o t) PROVE (s \o t)[n].values # <<>>
    <2>1. n \in 1 .. (Len(s) + Len(t))
        BY <1>2
    <2>2. n <= Len(s) => n \in DOMAIN s
        BY <1>2, <2>1
    <2>3. ~(n <= Len(s)) => n - Len(s) \in DOMAIN t
        BY <1>2, <2>1
    <2> QED
        BY <1>2, <2>1, <2>2, <2>3 DEF HaveValues
<1> QED
    BY <1>2, <1>3 DEF HaveValues

\* A step leaves the record a record, and the product the one that it was.
LEMMA ContentMoves ==
    ASSUME ContentInv, NEW at \in {"begin", "attributes", "description", "ended", "raised"}, NEW bullets, NEW attributes,
           NEW product,
           content' = [content EXCEPT !.at = at, !.bullets = bullets, !.attributes = attributes, !.product = product],
           HaveValues(attributes), at \in {"attributes", "description"} => bullets = "new",
           at # "ended" => product = Untouched,
           at = "ended" /\ product # Untouched =>
              /\ product.bullets = "new" /\ product.description = "new"
              /\ Coloured(product.attributes, attributes, Subject.options, Len(Subject.options))
    PROVE  ContentInv'
<1>1. content = [of |-> content.of, at |-> content.at, bullets |-> content.bullets,
                 attributes |-> content.attributes, product |-> content.product]
    BY DEF ContentInv
<1>2. content' = [of |-> content.of, at |-> at, bullets |-> bullets, attributes |-> attributes, product |-> product]
    BY <1>1
<1>3. /\ content'.of = content.of /\ content'.at = at /\ content'.bullets = bullets
      /\ content'.attributes = attributes /\ content'.product = product
    BY <1>2
<1>4. content' = [of |-> content'.of, at |-> content'.at, bullets |-> content'.bullets,
                  attributes |-> content'.attributes, product |-> content'.product]
    BY <1>2, <1>3
<1>5. Subject' = Subject
    BY <1>3 DEF Subject
<1>6. HaveValues(content.attributes)'
    BY <1>3 DEF HaveValues
<1>7. content.of \in DOMAIN Contents
    BY DEF ContentInv
<1>8. ASSUME at = "ended", product # Untouched
      PROVE  Coloured(content.product.attributes, content.attributes, Subject.options, Len(Subject.options))'
    <2>1. Coloured(product.attributes, attributes, Subject.options, Len(Subject.options))
        BY <1>8
    <2>2. content'.product.attributes = product.attributes /\ content'.attributes = attributes
        BY <1>3
    <2> QED
        BY <2>1, <2>2, <1>5
<1>9. (content.at = "ended" /\ content.product # Untouched =>
          /\ content.product.bullets = "new" /\ content.product.description = "new"
          /\ Coloured(content.product.attributes, content.attributes, Subject.options, Len(Subject.options)))'
    BY <1>3, <1>8
<1>10. (Untouched)' = Untouched
    BY DEF Untouched
<1> QED
    BY <1>3, <1>4, <1>6, <1>7, <1>9, <1>10 DEF ContentInv

LEMMA ContentIs ==
    ASSUME ContentInv
    PROVE  /\ content = [content EXCEPT !.bullets = content.bullets, !.attributes = content.attributes,
                                        !.product = content.product]
           /\ \A at : [content EXCEPT !.at = at] =
                 [content EXCEPT !.at = at, !.bullets = content.bullets, !.attributes = content.attributes,
                                 !.product = content.product]
           /\ \A at, bullets : [content EXCEPT !.at = at, !.bullets = bullets] =
                 [content EXCEPT !.at = at, !.bullets = bullets, !.attributes = content.attributes,
                                 !.product = content.product]
           /\ \A at, attributes : [content EXCEPT !.at = at, !.attributes = attributes] =
                 [content EXCEPT !.at = at, !.bullets = content.bullets, !.attributes = attributes,
                                 !.product = content.product]
           /\ \A at, product : [content EXCEPT !.at = at, !.product = product] =
                 [content EXCEPT !.at = at, !.bullets = content.bullets, !.attributes = content.attributes,
                                 !.product = product]
<1>1. content = [of |-> content.of, at |-> content.at, bullets |-> content.bullets,
                 attributes |-> content.attributes, product |-> content.product]
    BY DEF ContentInv
<1> QED
    BY <1>1

LEMMA ContentKept ==
    ASSUME ProductInv, ContentStep
    PROVE  ContentInv'
<1>1. ContentInv
    BY DEF ProductInv
<1>2. /\ content.of \in DOMAIN Contents /\ HaveValues(content.attributes)
      /\ content.at \in {"attributes", "description"} => content.bullets = "new"
      /\ content.at # "ended" => content.product = Untouched
    BY <1>1 DEF ContentInv
<1>3. CASE WithoutCategory
    <2>1. content.at = "begin" /\ content' = [content EXCEPT !.at = "ended"]
        BY <1>3 DEF WithoutCategory, ContentGoes
    <2>9. content' = [content EXCEPT !.at = "ended", !.bullets = content.bullets, !.attributes = content.attributes,
                                    !.product = content.product]
        BY <1>1, <1>2, <2>1, ContentIs
    <2>10. "ended" \in {"begin", "attributes", "description", "ended", "raised"}
        OBVIOUS
    <2>11. /\ HaveValues(content.attributes)
           /\ content.product # Untouched =>
                 /\ content.product.bullets = "new" /\ content.product.description = "new"
                 /\ Coloured(content.product.attributes, content.attributes, Subject.options, Len(Subject.options))
        BY <1>1, <1>2, <2>1
    <2> QED
        BY <1>1, <2>9, <2>10, <2>11, ContentMoves
<1>4. CASE MakeBullets
    <2>1. content.at = "begin" /\ content' = [content EXCEPT !.at = "attributes", !.bullets = "new"]
        BY <1>4 DEF MakeBullets
    <2>9. content' = [content EXCEPT !.at = "attributes", !.bullets = "new", !.attributes = content.attributes,
                                    !.product = content.product]
        BY <1>1, <1>2, <2>1, ContentIs
    <2>10. "attributes" \in {"begin", "attributes", "description", "ended", "raised"}
        OBVIOUS
    <2> QED
        BY <1>1, <1>2, <2>1, <2>9, <2>10, ContentMoves
<1>5. CASE BulletsFail
    <2>1. content.at = "begin" /\ content' = [content EXCEPT !.at = "raised"]
        BY <1>5 DEF BulletsFail, ContentGoes
    <2>9. content' = [content EXCEPT !.at = "raised", !.bullets = content.bullets, !.attributes = content.attributes,
                                    !.product = content.product]
        BY <1>1, <1>2, <2>1, ContentIs
    <2>10. "raised" \in {"begin", "attributes", "description", "ended", "raised"}
        OBVIOUS
    <2>11. /\ HaveValues(content.attributes)
           /\ content.product = Untouched
        BY <1>1, <1>2, <2>1
    <2> QED
        BY <1>1, <2>9, <2>10, <2>11, ContentMoves
<1>6. CASE MakeAttributes
    <2>1. PICK generated \in {<<>>} \cup GeneratedAttrs :
            content' = [content EXCEPT !.at = "description", !.attributes =
                          Subject.direct \o
                          Picked(generated, {n \in DOMAIN generated : generated[n].values # <<>>})]
        BY <1>6 DEF MakeAttributes
    <2> DEFINE places == {n \in DOMAIN generated : generated[n].values # <<>>}
               attributes == Subject.direct \o Picked(generated, places)
    <2>2. generated \in Seq([name : STRING, values : Seq(STRING)])
        <3>1. <<>> \in Seq([name : STRING, values : Seq(STRING)])
            BY EmptySeq
        <3>2. \A g \in GeneratedAttrs : g \in Seq([name : STRING, values : Seq(STRING)])
            BY MappingAssumption
        <3> QED
            BY <3>1, <3>2
    <2>3. generated \in Seq(Attributes)
        BY <2>2, NamedSeq
    <2>4. HaveValues(Picked(generated, places))
        <3>1. places \in SUBSET DOMAIN generated /\ \A n \in places : generated[n].values # <<>>
            OBVIOUS
        <3> HIDE DEF places
        <3>2. /\ Picked(generated, places) \in Seq(Attributes)
              /\ DOMAIN Picked(generated, places) = 1 .. Cardinality(places)
              /\ \A i \in 1 .. Cardinality(places) :
                    Nth(places, i) \in places /\ Picked(generated, places)[i] = generated[Nth(places, i)]
            BY <2>3, <3>1, PickedIs
        <3> QED
            BY <3>1, <3>2 DEF HaveValues
    <2>5. HaveValues(attributes)
        <3> HIDE DEF places
        <3> QED
            BY <1>2, <2>4, SubjectIs, JoinedHaveValues
    <2>6. content' = [content EXCEPT !.at = "description", !.attributes = attributes] /\ content.at = "attributes"
        BY <1>6, <2>1 DEF MakeAttributes
    <2> HIDE DEF attributes
    <2>9. content' = [content EXCEPT !.at = "description", !.bullets = content.bullets, !.attributes = attributes,
                                    !.product = content.product]
        BY <1>1, <1>2, <2>5, <2>6, ContentIs
    <2>10. "description" \in {"begin", "attributes", "description", "ended", "raised"}
        OBVIOUS
    <2> QED
        BY <1>1, <1>2, <2>5, <2>6, <2>9, <2>10, ContentMoves
<1>7. CASE MakeDescription
    <2> DEFINE product == [bullets |-> content.bullets, description |-> "new",
                           attributes |-> Autofilled(content.attributes)]
    <2>1. content.at = "description" /\ content' = [content EXCEPT !.at = "ended", !.product = product]
        BY <1>7 DEF MakeDescription
    <2>2. Coloured(Autofilled(content.attributes), content.attributes, Subject.options, Len(Subject.options))
        BY <1>2, AutofilledIs
    <2>3. /\ product.bullets = "new" /\ product.description = "new"
          /\ Coloured(product.attributes, content.attributes, Subject.options, Len(Subject.options))
        <3>1. product.attributes = Autofilled(content.attributes) /\ product.bullets = "new"
              /\ product.description = "new"
            BY <1>2, <2>1
        <3> QED
            BY <2>2, <3>1
    <2> HIDE DEF product
    <2>9. content' = [content EXCEPT !.at = "ended", !.bullets = content.bullets, !.attributes = content.attributes,
                                    !.product = product]
        BY <1>1, <1>2, <2>1, <2>3, ContentIs
    <2>10. "ended" \in {"begin", "attributes", "description", "ended", "raised"}
        OBVIOUS
    <2>11. /\ HaveValues(content.attributes)
           /\ product # Untouched =>
                 /\ product.bullets = "new" /\ product.description = "new"
                 /\ Coloured(product.attributes, content.attributes, Subject.options, Len(Subject.options))
        BY <1>1, <1>2, <2>1, <2>3
    <2> QED
        BY <1>1, <2>9, <2>10, <2>11, ContentMoves
<1>8. CASE DescriptionFails
    <2>1. content.at = "description"
          /\ content' = [content EXCEPT !.at = "raised", !.product = content.product]
        BY <1>8 DEF DescriptionFails, OnError
    <2>9. content' = [content EXCEPT !.at = "raised", !.bullets = content.bullets, !.attributes = content.attributes,
                                    !.product = content.product]
        BY <1>1, <1>2, <2>1, ContentIs
    <2>10. "raised" \in {"begin", "attributes", "description", "ended", "raised"}
        OBVIOUS
    <2>11. /\ HaveValues(content.attributes)
           /\ content.product = Untouched
        BY <1>1, <1>2, <2>1
    <2> QED
        BY <1>1, <2>9, <2>10, <2>11, ContentMoves
<1> QED
    BY <1>3, <1>4, <1>5, <1>6, <1>7, <1>8 DEF ContentStep

LEMMA ProductKept ==
    ASSUME ProductInv, [ProductNext]_<<scene, productVars>>
    PROVE  ProductInv'
<1>1. ASSUME UNCHANGED content PROVE ContentInv'
    <2>1. Subject' = Subject
        BY <1>1 DEF Subject
    <2> QED
        BY <1>1, <2>1 DEF ProductInv, ContentInv, HaveValues, Untouched
<1>2. ASSUME UNCHANGED <<scene, mappingVars>> PROVE MapInv'
    <2>1. UNCHANGED <<scene, mapAt, items, mapped, results, published, notes, progressed, payload>>
        BY <1>2 DEF mappingVars
    <2>2. At("over")' = At("over") /\ At("mapping")' = At("mapping") /\ InOrder' = InOrder
        BY <2>1 DEF At, InOrder
    <2> QED
        BY <2>1, <2>2
        DEF ProductInv, MapInv, MapShape, EarlyInv, ResultInv, OverInv, ProgressInv, SlotInv, StoppedInv, EndedInv, May
<1>3. CASE ProductNext
    <2>1. UNCHANGED scene
        BY <1>3 DEF ProductNext
    <2>2. CASE MappingStep /\ UNCHANGED content
        BY <1>1, <2>1, <2>2, MappingKept DEF ProductInv
    <2>3. CASE ContentStep /\ UNCHANGED mappingVars
        BY <1>2, <2>1, <2>3, ContentKept DEF ProductInv
    <2> QED
        BY <1>3, <2>2, <2>3 DEF ProductNext
<1>4. CASE UNCHANGED <<scene, productVars>>
    BY <1>1, <1>2, <1>4 DEF ProductInv, productVars
<1> QED
    BY <1>3, <1>4

LEMMA ProductHolds == ProductSafety => []ProductInv
<1> QED
    BY ProductStarts, ProductKept, PTL DEF ProductSafety

\* The payload: the products with a result, in their order.
LEMMA InOrderHas ==
    ASSUME MapShape
    PROVE  /\ \A p \in Positions : results[p] # Unknown <=> p \in ToSet(InOrder)
           /\ \A i, j \in DOMAIN InOrder : i < j => InOrder[i] < InOrder[j]
<1> DEFINE those == {n \in Positions : results[n] # Unknown}
           all == [n \in Positions |-> n]
<1>1. all \in Seq(Positions) /\ DOMAIN all = Positions /\ \A n \in Positions : all[n] = n
    BY PositionsAre, SequenceOf
<1>2. those \in SUBSET Positions /\ \A n \in Positions : n \in those <=> results[n] # Unknown
    OBVIOUS
<1>3. InOrder = Picked(all, those)
    BY DEF InOrder
<1> HIDE DEF those, all
<1>4. /\ DOMAIN Picked(all, those) = 1 .. Cardinality(those)
      /\ \A i \in 1 .. Cardinality(those) : Nth(those, i) \in those /\ Picked(all, those)[i] = all[Nth(those, i)]
      /\ \A p \in those : \E i \in 1 .. Cardinality(those) : Picked(all, those)[i] = all[p]
    BY <1>1, <1>2, PickedIs
<1>5. \A i, j \in 1 .. Cardinality(those) : i < j => Nth(those, i) < Nth(those, j)
    <2>1. those \in SUBSET Nat /\ Len(SourceEans) \in Nat /\ \A n \in those : n <= Len(SourceEans)
        BY <1>2, PositionsAre
    <2> QED
        BY <2>1, NthIs
<1>6. \A i \in 1 .. Cardinality(those) : InOrder[i] = Nth(those, i) /\ InOrder[i] \in those
    BY <1>1, <1>2, <1>3, <1>4
<1>7. \A i, j \in DOMAIN InOrder : i < j => InOrder[i] < InOrder[j]
    BY <1>3, <1>4, <1>5, <1>6
<1>8. \A p \in those : \E i \in DOMAIN InOrder : InOrder[i] = p
    BY <1>1, <1>2, <1>3, <1>4
<1>9. \A i \in DOMAIN InOrder : InOrder[i] \in those
    BY <1>3, <1>4, <1>6
<1>10. ToSet(InOrder) = those
    BY <1>8, <1>9 DEF ToSet
<1> QED
    BY <1>2, <1>7, <1>10

LEMMA ProductIsTrue ==
    ASSUME ProductInv
    PROVE  /\ ProductTypeOK /\ EachIsPreparedOrNoted /\ PayloadInSourceOrder /\ ProgressReachesTotal
           /\ ContentIsWhole /\ ColoursAreAllowed
<1>1. ProductTypeOK
    BY DEF ProductInv, MapInv, MapShape, MapPlaces, ResultInv, SlotInv, ProductTypeOK
<1>2. EachIsPreparedOrNoted
    <2> SUFFICES ASSUME mapAt = "ended", NEW n \in Positions
                 PROVE  /\ n \in ToSet(payload) \/ n \in notes
                        /\ n \in ToSet(payload) => n \in ToSet(published) \/ n \in notes
        BY DEF EachIsPreparedOrNoted
    <2>1. n \in ToSet(payload) <=> results[n] # Unknown
        BY InOrderHas DEF ProductInv, MapInv, EndedInv
    <2>2. n \in notes \/ (results[n] # Unknown /\ n \in ToSet(published))
        BY DEF ProductInv, MapInv, EndedInv, OverInv
    <2> QED
        BY <2>1, <2>2
<1>3. PayloadInSourceOrder
    <2>1. CASE mapAt = "ended"
        BY <2>1, InOrderHas DEF ProductInv, MapInv, EndedInv, PayloadInSourceOrder
    <2>2. CASE mapAt # "ended"
        <3>1. payload = <<>> /\ DOMAIN payload = {}
            BY <2>2, EmptySeq DEF ProductInv, MapInv, EndedInv
        <3> QED
            BY <3>1 DEF PayloadInSourceOrder
    <2> QED
        BY <2>1, <2>2
<1>4. ProgressReachesTotal
    BY DEF ProductInv, MapInv, ProgressInv, ProgressReachesTotal
<1>5. ContentIsWhole
    BY DEF ProductInv, ContentInv, ContentIsWhole
<1>6. ColoursAreAllowed
    <2> DEFINE final == content.product.attributes
    <2>1. content.of \in DOMAIN Contents
        BY DEF ProductInv, ContentInv
    <2> SUFFICES ASSUME content.at = "ended", NEW n \in DOMAIN final, n > Len(content.attributes),
                        final[n].name # "farbe"
                 PROVE  /\ \A m \in DOMAIN final : m # n => final[m].name # final[n].name
                        /\ final[n].values # <<>>
                        /\ \A option \in ToSet(Subject.options) : option.name = final[n].name =>
                              option.allowed = {} \/ ToSet(final[n].values) \subseteq option.allowed
        BY DEF ColoursAreAllowed
    <2>2. content.product # Untouched
        <3>1. DOMAIN Untouched.attributes = {}
            BY EmptySeq DEF Untouched
        <3> QED
            BY <3>1
    <2>3. Coloured(final, content.attributes, Subject.options, Len(Subject.options))
        BY <2>2 DEF ProductInv, ContentInv
    <2> HIDE DEF final
    <2>4. /\ \A m \in DOMAIN final : m # n => final[m].name # final[n].name
          /\ \E i \in 1 .. Len(Subject.options) :
                /\ Subject.options[i].name = final[n].name
                /\ Subject.options[i].allowed = {} \/ ToSet(final[n].values) \subseteq Subject.options[i].allowed
          /\ HaveValues(final)
        BY <2>3 DEF Coloured
    <2>5. final[n].values # <<>>
        BY <2>4 DEF HaveValues
    <2>6. \A option \in ToSet(Subject.options) : option.name = final[n].name =>
              option.allowed = {} \/ ToSet(final[n].values) \subseteq option.allowed
        <3> TAKE option \in ToSet(Subject.options)
        <3> HAVE option.name = final[n].name
        <3>1. PICK m \in DOMAIN Subject.options : option = Subject.options[m]
            BY DEF ToSet
        <3>2. PICK i \in 1 .. Len(Subject.options) :
                /\ Subject.options[i].name = final[n].name
                /\ Subject.options[i].allowed = {} \/ ToSet(final[n].values) \subseteq Subject.options[i].allowed
            BY <2>4
        <3>3. i \in DOMAIN Subject.options
            BY <2>1, <3>2, SubjectIs, LenProperties
        <3>4. m = i
            BY <2>1, <3>1, <3>2, <3>3, SubjectIs
        <3> QED
            BY <3>1, <3>2, <3>4
    <2> QED
        BY <2>4, <2>5, <2>6
<1> QED
    BY <1>1, <1>2, <1>3, <1>4, <1>5, <1>6

\* Only a product that is open is published, and none is once the preparation has failed.
LEMMA NoneAfterFailure ==
    ASSUME ProductInv, [ProductNext]_<<scene, productVars>>
    PROVE  [mapAt = "raised" /\ ~May("malformed") => published' = published]_productVars
<1> SUFFICES ASSUME ProductNext, mapAt = "raised", ~May("malformed") PROVE published' = published
    BY DEF productVars
<1>1. \A n \in Positions : items[n] # "publishing"
    BY DEF ProductInv, MapInv, StoppedInv
<1>2. CASE UNCHANGED mappingVars
    BY <1>2 DEF mappingVars
<1>3. CASE MappingStep
    <2>1. CASE FetchSource \/ FetchFails \/ Describe \/ LoadContexts \/ ContextsFail
        BY <2>1 DEF FetchSource, FetchFails, Describe, LoadContexts, ContextsFail, MapGoes
    <2>2. CASE MapTimesOut \/ RetryItems \/ BuildPayload
        BY <2>2 DEF MapTimesOut, RetryItems, BuildPayload
    <2>3. ASSUME NEW n \in Positions, MalformedRaises(n) \/ ItemStep(n) PROVE published' = published
        BY <1>1, <2>3
        DEF MalformedRaises, ItemStep, AskModel, ModelAnswers, ModelFails, NormalizeItem, NormalizedItem,
            NormalizeFails, PublishItem, PublishFails
    <2> QED
        BY <1>3, <2>1, <2>2, <2>3 DEF MappingStep
<1> QED
    BY <1>2, <1>3 DEF ProductNext

=============================================================================

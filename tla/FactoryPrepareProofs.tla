------------------------ MODULE FactoryPrepareProofs ------------------------
(***************************************************************************)
(* Proofs about FactoryPrepare and the store it keeps its document in, for *)
(* every number of products and, unless a theorem names one, every         *)
(* environment.                                                            *)
(***************************************************************************)
EXTENDS FactoryPrepare, SequenceTheorems, TLAPS

-----------------------------------------------------------------------------
(* The invariant.                                                          *)

KeptDoc == Doc \cup {Absent}
Labels  == {"idle"} \cup SaveLabels \cup GetLabels \cup DeleteLabels

\* Where the calls of each caller can be.
LabelsOf(w) == CASE w = "job"       -> {"idle"} \cup SaveLabels \cup GetLabels
                 [] w = "heartbeat" -> {"idle"} \cup SaveLabels
                 [] w = "page"      -> {"idle"} \cup SaveLabels \cup GetLabels
                 [] w = "user"      -> Labels

Shape ==
    /\ db \in KeptDoc /\ mongo \in KeptDoc /\ redis \in KeptDoc
    /\ memory \in [Processes -> KeptDoc]
    /\ call \in [Callers -> [at : Labels, doc : KeptDoc]]
    /\ events \in Environments
    /\ heart \in BOOLEAN /\ old \in BOOLEAN /\ place \in 1 .. Stopped
    /\ finished \in BOOLEAN /\ alone \in BOOLEAN
    /\ deletion \in {"none", "alone", "disturbed"}
    /\ \A w \in Callers : call[w].at \in LabelsOf(w)
    /\ finished => place \in {Last, Stopped}
    /\ call["job"].at \in GetLabels => place < Last

\* MongoDB is used only where it is configured, a save has a document, and a
\* call that has not read anything yet has none.
StoreInv ==
    /\ ~HasMongo => mongo = Absent
    /\ \A w \in Callers :
        /\ call[w].at \in {"save_mongo", "find", "delete_mongo"} => HasMongo
        /\ call[w].at \in SaveLabels => call[w].doc # Absent
        /\ call[w].at \in {"idle", "find", "cached", "select"} \cup DeleteLabels
             => call[w].doc = Absent

\* Where the stores answer and nobody deletes, the first one has a document.
Answered == "store_error" \notin events /\ "deletes" \notin events

AnsweredInv == Answered =>
    /\ redis # Absent /\ (HasMongo => mongo # Absent)
    /\ \A w \in Callers :
        /\ call[w].at \notin {"select", "fill"} \cup DeleteLabels
        /\ call[w].at = "return" => call[w].doc # Absent

BaseInv == Shape /\ StoreInv /\ AnsweredInv

-----------------------------------------------------------------------------
(* After the last save of the job.                                         *)

Ended == finished /\ alone

Saves(w, d) == \/ call[w].at = "idle"
               \/ call[w].at \in SaveLabels /\ call[w].doc = d

\* The worker writes and remembers nothing but the prepared document.
WorkerInv == Ended =>
    /\ Saves("job", PreparedDoc) /\ Saves("heartbeat", PreparedDoc)
    /\ memory["worker"] \in {PreparedDoc, Absent}

\* The stores have it as soon as the job has passed them; a poll that may have
\* read something else was begun while the heartbeat was recent, and the user
\* waits until the save is over.
AnswersInv == Answered /\ Ended =>
    /\ call["job"].at # "commit" => db = PreparedDoc
    /\ call["job"].at \in {"save_cache", "idle"} /\ HasMongo => mongo = PreparedDoc
    /\ call["job"].at = "idle" => redis = PreparedDoc
    /\ call["page"].at \notin SaveLabels
    /\ call["page"].at # "idle" /\ call["job"].at # "idle" => ~old
    /\ call["page"].at = "return" /\ call["page"].doc # PreparedDoc => ~old
    /\ call["user"].at # "idle" => call["job"].at = "idle"
    /\ call["user"].at \in {"return"} \cup SaveLabels => call["user"].doc = PreparedDoc

\* Where the job and its heartbeat are alone, the row has it whatever fails.
Unwatched == events \cap {"polls", "edits", "deletes"} = {}

RowInv == Unwatched =>
    /\ call["page"].at = "idle" /\ call["user"].at = "idle"
    /\ Ended /\ call["job"].at # "commit" => db = PreparedDoc

PreparedInv == WorkerInv /\ AnswersInv /\ RowInv

-----------------------------------------------------------------------------
(* A deletion that no other call meets.                                    *)

Deleting == call["user"].at \in DeleteLabels

DeletedInv == deletion = "alone" /\ "store_error" \notin events =>
    /\ place = Stopped
    /\ call["job"].at = "idle" /\ call["heartbeat"].at = "idle"
    /\ Deleting => call["page"].at = "idle"
    /\ memory["api"] = Absent
    /\ call["user"].at # "delete_mongo" => mongo = Absent
    /\ call["user"].at \notin {"delete_mongo", "delete_cache"} => redis = Absent
    /\ ~Deleting =>
         /\ db = Absent
         /\ \A w \in {"page", "user"} :
              call[w].at \in {"idle", "find", "cached", "select", "return"}
              /\ call[w].doc = Absent

PrepareInv == BaseInv /\ PreparedInv /\ DeletedInv

-----------------------------------------------------------------------------
(* Documents, and the way of a call.                                       *)

USE DEF KeptDoc

LEMMA LastIs ==
    Total \in Nat /\ Last \in Nat /\ Last = 3 * Total + 6 /\ DOMAIN Changes = 1 .. Last - 1
<1> DEFINE names  == {"initialize", "set_building", "set_total", "append_item", "count_item",
                      "append_again", "set_progress", "set_snapshot"}
           before == <<"initialize", "set_building", "set_total">>
           items  == [i \in 1 .. 2 * Total |-> IF i % 2 = 1 THEN "append_item" ELSE "count_item"]
           again  == [i \in 1 .. Total |-> "append_again"]
           after  == <<"set_progress", "set_snapshot">>
<1>1. Total \in Nat /\ 2 * Total \in Nat
    BY PrepareAssumption
<1>2. items \in [1 .. 2 * Total -> names] /\ again \in [1 .. Total -> names]
    OBVIOUS
<1>3. items \in Seq(names) /\ again \in Seq(names)
    BY <1>1, <1>2, SeqDef
<1>4. Len(items) = 2 * Total /\ Len(again) = Total
    BY <1>1, <1>3
<1>5. /\ before \in Seq(names) /\ Len(before) = 3
      /\ after \in Seq(names) /\ Len(after) = 2
    OBVIOUS
<1>6. Changes = ((before \o items) \o again) \o after
    BY DEF Changes
<1> HIDE DEF names, items, again, before, after
<1>7. before \o items \in Seq(names) /\ Len(before \o items) = 3 + 2 * Total
    <2>1. before \o items \in Seq(names) /\ Len(before \o items) = Len(before) + Len(items)
        BY <1>3, <1>5, ConcatProperties, Zenon
    <2> QED  BY <1>4, <1>5, <2>1
<1>8. (before \o items) \o again \in Seq(names) /\ Len((before \o items) \o again) = 3 + 3 * Total
    <2>1. /\ (before \o items) \o again \in Seq(names)
          /\ Len((before \o items) \o again) = Len(before \o items) + Len(again)
        BY <1>3, <1>7, ConcatProperties, Zenon
    <2> QED  BY <1>1, <1>4, <1>7, <2>1
<1>9. Changes \in Seq(names) /\ Len(Changes) = 3 * Total + 5
    <2>1. Changes \in Seq(names) /\ Len(Changes) = Len((before \o items) \o again) + Len(after)
        BY <1>5, <1>6, <1>8, ConcatProperties, Zenon
    <2> QED  BY <1>1, <1>5, <1>8, <2>1
<1>10. DOMAIN Changes = 1 .. Len(Changes)
    BY <1>9, LenProperties
<1> QED
    BY <1>1, <1>9, <1>10 DEF Last

\* The round of a product comes before the last save.
LEMMA RoundsAre ==
    ASSUME InRound(Appends), place \in 1 .. Stopped
    PROVE  place <= Last /\ (call["job"].at \notin SaveLabels => place < Last)
BY LastIs DEF InRound, Round, Stopped, Failing

LEMMA NoDocument == Absent \notin Doc
BY StoreAssumption, DocumentsAssumption

LEMMA DocumentsAre ==
    /\ Queued \in Doc /\ Blank \in Doc /\ PreparedDoc \in Doc /\ FailedDoc \in Doc
    /\ PreparedDoc.status = "DONE"
<1>1. Total \in Nat
    BY PrepareAssumption
<1> QED
    BY <1>1 DEF Queued, Blank, PreparedDoc, FailedDoc, Doc

LEMMA ChangedFits ==
    ASSUME NEW d \in Doc, NEW change
    PROVE  Changed(change, d) \in Doc
<1>1. Total \in Nat /\ d.items \in 0 .. Total
    BY PrepareAssumption DEF Doc
<1>2. PICK n \in 0 .. Total : n = IF d.items < Total THEN d.items + 1 ELSE d.items
    BY <1>1
<1>3. PICK z \in 0 .. Total : z = 0
    BY <1>1
<1>4. [d EXCEPT !.items = n] \in Doc /\ [d EXCEPT !.items = z] \in Doc
    BY DEF Doc
<1>5. [d EXCEPT !.status = "IN_PROGRESS", !.step = "prepare_initializing"] \in Doc
    BY DEF Doc
<1>6. /\ [d EXCEPT !.step = "building_category_preview"] \in Doc
      /\ [d EXCEPT !.step = "saving_snapshot"] \in Doc
    BY DEF Doc
<1> QED
    BY <1>2, <1>3, <1>4, <1>5, <1>6 DEF Changed

LEMMA StaleFits ==
    ASSUME NEW d \in Doc
    PROVE  [d EXCEPT !.status = "FAILED"] \in Doc
BY DEF Doc

\* One caller's call is at label l with document d, the others are unmoved.
Moved(w, l, d) ==
    /\ call' \in [Callers -> [at : Labels, doc : KeptDoc]]
    /\ call'[w].at = l /\ call'[w].doc = d
    /\ \A v \in Callers : v # w => call'[v] = call[v]

LEMMA GoingIs ==
    ASSUME Shape, NEW w \in Callers, NEW l \in Labels, Going(w, l)
    PROVE  Moved(w, l, call[w].doc)
BY DEF Shape, Going, Moved

LEMMA CarryingIs ==
    ASSUME Shape, NEW w \in Callers, NEW l \in Labels, NEW d \in KeptDoc, Carrying(w, l, d)
    PROVE  Moved(w, l, d)
BY DEF Shape, Carrying, Moved

LEMMA OverIs ==
    ASSUME Shape, NEW w \in Callers, Over(w)
    PROVE  Moved(w, "idle", Absent)
BY DEF Shape, Over, Idle, Moved, Labels

LEMMA LabelsAre ==
    ASSUME NEW w \in Callers
    PROVE  /\ LabelsOf(w) \subseteq Labels
           /\ "idle" \in LabelsOf(w) /\ SaveLabels \subseteq LabelsOf(w)
           /\ w # "heartbeat" => GetLabels \subseteq LabelsOf(w)
           /\ LabelsOf(w) \cap GetLabels # {} => w # "heartbeat"
           /\ LabelsOf(w) \cap DeleteLabels # {} => w = "user"
           /\ DeleteLabels \subseteq LabelsOf("user")
BY PrepareAssumption DEF LabelsOf, Labels, SaveLabels, GetLabels, DeleteLabels

LEMMA CallersAre ==
    /\ Callers = {"job", "heartbeat", "page", "user"}
    /\ Home("job") = "worker" /\ Home("heartbeat") = "worker"
    /\ Home("page") = "api" /\ Home("user") = "api"
BY PrepareAssumption DEF Home

LEMMA ResultIs ==
    ASSUME Shape, NEW w \in Callers
    PROVE  Result(w) \in KeptDoc /\ Home(w) \in Processes
BY DEF Shape, Result, Home, Processes

-----------------------------------------------------------------------------
(* The base.                                                               *)

\* What is left to show of a step that moves one call.
LEMMA BaseMoves ==
    ASSUME BaseInv, NEW w \in Callers, NEW l \in LabelsOf(w), NEW d \in KeptDoc,
           Moved(w, l, d), events' = events,
           db' \in KeptDoc, mongo' \in KeptDoc, redis' \in KeptDoc,
           memory' \in [Processes -> KeptDoc],
           heart' \in BOOLEAN, old' \in BOOLEAN, place' \in 1 .. Stopped,
           finished' \in BOOLEAN, alone' \in BOOLEAN,
           deletion' \in {"none", "alone", "disturbed"},
           finished' => place' \in {Last, Stopped},
           w = "job" \/ place' = place, w = "job" /\ l \in GetLabels => place' < Last,
           ~HasMongo => mongo' = Absent,
           l \in {"save_mongo", "find", "delete_mongo"} => HasMongo,
           l \in SaveLabels => d # Absent,
           l \in {"idle", "find", "cached", "select"} \cup DeleteLabels => d = Absent,
           Answered => /\ redis' # Absent /\ (HasMongo => mongo' # Absent)
                       /\ l \notin {"select", "fill"} \cup DeleteLabels
                       /\ l = "return" => d # Absent
    PROVE  BaseInv'
<1>1. \A v \in Callers : v # w => call'[v].at = call[v].at /\ call'[v].doc = call[v].doc
    BY DEF Moved
<1>2. call'[w].at = l /\ call'[w].doc = d
    BY DEF Moved
<1>3. HasMongo' <=> HasMongo
    BY DEF HasMongo
<1>4. Answered' <=> Answered
    BY DEF Answered
<1>5. \A v \in Callers : call'[v].at \in LabelsOf(v)
    BY <1>1, <1>2 DEF BaseInv, Shape
<1>6. Shape'
    <2>1. call' \in [Callers -> [at : Labels, doc : KeptDoc]]
        BY DEF Moved
    <2>2. events' \in Environments
        BY DEF BaseInv, Shape
    <2>3. call'["job"].at \in GetLabels => place' < Last
        BY <1>1, <1>2, CallersAre DEF BaseInv, Shape
    <2> QED  BY <1>5, <2>1, <2>2, <2>3, LastIs DEF Shape, LabelsOf, Stopped, Failing
<1>7. StoreInv'
    BY <1>1, <1>2, <1>3 DEF BaseInv, StoreInv
<1>8. AnsweredInv'
    BY <1>1, <1>2, <1>3, <1>4 DEF BaseInv, AnsweredInv
<1> QED
    BY <1>6, <1>7, <1>8 DEF BaseInv

LEMMA StoreStepBase ==
    ASSUME BaseInv, NEW w \in Callers, Continue(w)
    PROVE  BaseInv'
<1> USE DEF BaseInv
<1>1. /\ Shape /\ StoreInv /\ AnsweredInv /\ call[w].at \in LabelsOf(w)
      /\ UNCHANGED <<heart, old, place, finished, alone, deletion>>
      /\ w = "job" /\ call[w].at \in GetLabels => place < Last
    BY DEF Shape, Continue, jobVars
<1>2. /\ "idle" \in LabelsOf(w) /\ SaveLabels \subseteq LabelsOf(w)
      /\ call[w].at \in GetLabels => GetLabels \subseteq LabelsOf(w)
      /\ call[w].at \in DeleteLabels => DeleteLabels \subseteq LabelsOf(w)
      /\ LabelsOf(w) \subseteq Labels
    BY <1>1, LabelsAre
<1>3. call[w].doc \in KeptDoc
    BY <1>1 DEF Shape
<1>4. /\ db \in KeptDoc /\ mongo \in KeptDoc /\ redis \in KeptDoc
      /\ memory \in [Processes -> KeptDoc]
      /\ heart \in BOOLEAN /\ old \in BOOLEAN /\ place \in 1 .. Stopped
      /\ finished \in BOOLEAN /\ alone \in BOOLEAN
      /\ deletion \in {"none", "alone", "disturbed"}
      /\ finished => place \in {Last, Stopped}
    BY <1>1 DEF Shape
<1> DEFINE doc == call[w].doc
<1>5. CASE CommitSave(w)
    <2>1. PICK l \in LabelsOf(w) : /\ l = IF HasMongo THEN "save_mongo" ELSE "save_cache"
                                   /\ Moved(w, l, call[w].doc)
        BY <1>1, <1>2, <1>5, GoingIs DEF CommitSave, SaveLabels, Labels
    <2>2. db' = doc /\ UNCHANGED <<mongo, redis, memory, events>> /\ call[w].at = "commit"
        BY <1>5 DEF CommitSave
    <2>3. doc # Absent
        BY <1>1, <2>2 DEF StoreInv, SaveLabels
    <2> QED
        BY <1>1, <1>3, <1>4, <2>1, <2>2, <2>3, BaseMoves
        DEF StoreInv, AnsweredInv, SaveLabels, GetLabels, DeleteLabels
<1>6. CASE SaveMongo(w)
    <2>1. PICK l \in LabelsOf(w) : l = "save_cache" /\ Moved(w, l, call[w].doc)
        BY <1>1, <1>2, <1>6, GoingIs DEF SaveMongo, SaveLabels, Labels
    <2>2. /\ mongo' \in {mongo, doc} /\ UNCHANGED <<db, redis, memory, events>>
          /\ call[w].at = "save_mongo"
        BY <1>6 DEF SaveMongo, Written
    <2>3. doc # Absent /\ HasMongo
        BY <1>1, <2>2 DEF StoreInv, SaveLabels
    <2> QED
        BY <1>1, <1>3, <1>4, <2>1, <2>2, <2>3, BaseMoves
        DEF StoreInv, AnsweredInv, SaveLabels, GetLabels, DeleteLabels
<1>7. CASE SaveCache(w)
    <2>1. PICK l \in LabelsOf(w) : l = "idle" /\ Moved(w, l, Absent)
        BY <1>1, <1>2, <1>7, OverIs DEF SaveCache
    <2>2. /\ redis' \in {redis, doc} /\ UNCHANGED <<db, mongo, memory, events>>
          /\ call[w].at = "save_cache"
        BY <1>7 DEF SaveCache, Written
    <2>3. doc # Absent
        BY <1>1, <2>2 DEF StoreInv, SaveLabels
    <2> QED
        BY <1>1, <1>3, <1>4, <2>1, <2>2, <2>3, BaseMoves
        DEF StoreInv, AnsweredInv, SaveLabels, GetLabels, DeleteLabels
<1>8. CASE Find(w)
    <2>1. PICK l \in LabelsOf(w), d \in KeptDoc :
            /\ Moved(w, l, d)
            /\ (l = "return" /\ d = mongo /\ mongo # Absent)
               \/ (l = "cached" /\ d = doc /\ (mongo = Absent \/ "store_error" \in events))
        BY <1>1, <1>2, <1>3, <1>4, <1>8, GoingIs, CarryingIs DEF Find, GetLabels, Labels
    <2>2. UNCHANGED <<db, mongo, redis, memory, events>> /\ call[w].at = "find"
        BY <1>8 DEF Find, stores
    <2>3. doc = Absent /\ HasMongo
        BY <1>1, <2>2 DEF StoreInv
    <2> QED
        BY <1>1, <1>3, <1>4, <2>1, <2>2, <2>3, BaseMoves
        DEF StoreInv, AnsweredInv, Answered, SaveLabels, GetLabels, DeleteLabels
<1>9. CASE Cached(w)
    <2>1. PICK l \in LabelsOf(w), d \in KeptDoc :
            /\ Moved(w, l, d)
            /\ (l = "return" /\ d = redis /\ redis # Absent)
               \/ (l = "select" /\ d = doc /\ (redis = Absent \/ "store_error" \in events))
        BY <1>1, <1>2, <1>3, <1>4, <1>9, GoingIs, CarryingIs DEF Cached, GetLabels, Labels
    <2>2. UNCHANGED <<db, mongo, redis, memory, events>> /\ call[w].at = "cached"
        BY <1>9 DEF Cached, stores
    <2>3. doc = Absent
        BY <1>1, <2>2 DEF StoreInv
    <2> QED
        BY <1>1, <1>3, <1>4, <2>1, <2>2, <2>3, BaseMoves
        DEF StoreInv, AnsweredInv, Answered, SaveLabels, GetLabels, DeleteLabels
<1>10. CASE Select(w)
    <2>1. call[w].at = "select" /\ UNCHANGED <<db, mongo, redis, memory, events>>
        BY <1>10 DEF Select, stores
    <2>2. PICK l \in LabelsOf(w) : /\ l = IF db = Absent THEN "return" ELSE "fill"
                                   /\ Moved(w, l, db)
        BY <1>1, <1>2, <1>4, <1>10, <2>1, CarryingIs DEF Select, GetLabels, Labels
    <2> QED
        BY <1>1, <1>4, <2>1, <2>2, BaseMoves
        DEF StoreInv, AnsweredInv, SaveLabels, GetLabels, DeleteLabels
<1>11. CASE Fill(w)
    <2>1. /\ call[w].at = "fill" /\ redis' \in {redis, doc}
          /\ UNCHANGED <<db, mongo, memory, events>>
        BY <1>11 DEF Fill, Written
    <2>2. PICK l \in LabelsOf(w) : l = "return" /\ Moved(w, l, call[w].doc)
        BY <1>1, <1>2, <1>11, <2>1, GoingIs DEF Fill, GetLabels, Labels
    <2> QED
        BY <1>1, <1>3, <1>4, <2>1, <2>2, BaseMoves
        DEF StoreInv, AnsweredInv, SaveLabels, GetLabels, DeleteLabels
<1>12. CASE DeleteMongo(w) \/ DeleteCache(w) \/ DeleteRow(w)
    <2>1. call[w].at \in DeleteLabels
        BY <1>12 DEF DeleteMongo, DeleteCache, DeleteRow, DeleteLabels
    <2>2. doc = Absent
        BY <1>1, <2>1 DEF StoreInv
    <2>3. /\ db' \in {db, Absent} /\ mongo' \in {mongo, Absent} /\ redis' \in {redis, Absent}
          /\ UNCHANGED <<memory, events>>
        BY <1>12, <2>2 DEF DeleteMongo, DeleteCache, DeleteRow, Written
    <2>4. PICK l \in LabelsOf(w) :
            l \in {"delete_cache", "delete_row", "idle"} /\ Moved(w, l, Absent)
        BY <1>1, <1>2, <1>12, <2>1, <2>2, GoingIs, OverIs
        DEF DeleteMongo, DeleteCache, DeleteRow, DeleteLabels, Labels
    <2>5. ~Answered
        BY <1>1, <2>1 DEF AnsweredInv
    <2> QED
        BY <1>1, <1>4, <2>3, <2>4, <2>5, BaseMoves DEF StoreInv, SaveLabels, GetLabels, DeleteLabels
<1> QED
    BY <1>5, <1>6, <1>7, <1>8, <1>9, <1>10, <1>11, <1>12 DEF Continue, StoreStep

JobTyped ==
    /\ heart \in BOOLEAN /\ old \in BOOLEAN /\ place \in 1 .. Stopped
    /\ finished \in BOOLEAN /\ alone \in BOOLEAN
    /\ deletion \in {"none", "alone", "disturbed"}
    /\ finished => place \in {Last, Stopped}

LEMMA SaveBase ==
    ASSUME BaseInv, NEW w \in Callers, NEW d \in Doc, StartSave(w, d), JobTyped',
           w = "job" \/ place' = place
    PROVE  BaseInv'
<1>1. Shape /\ StoreInv /\ AnsweredInv
    BY DEF BaseInv
<1>2. PICK l \in LabelsOf(w) : l = "commit" /\ Moved(w, l, d)
    BY <1>1, LabelsAre, CarryingIs DEF StartSave, SaveLabels, Labels
<1>3. memory' \in [Processes -> KeptDoc] /\ UNCHANGED <<db, mongo, redis, events>>
    BY <1>1, ResultIs DEF StartSave, Remember, Shape
<1>4. d # Absent /\ d \in KeptDoc
    BY NoDocument
<1> QED
    BY <1>1, <1>2, <1>3, <1>4, BaseMoves
    DEF JobTyped, Shape, StoreInv, AnsweredInv, SaveLabels, GetLabels, DeleteLabels

LEMMA GetBase ==
    ASSUME BaseInv, NEW w \in Callers, w # "heartbeat", call[w].at = "idle", StartGet(w),
           JobTyped', place' = place, w = "job" => place < Last
    PROVE  BaseInv'
<1>1. Shape /\ StoreInv /\ AnsweredInv /\ call[w].doc = Absent
    BY DEF BaseInv, StoreInv
<1>2. PICK l \in LabelsOf(w) : /\ l = IF HasMongo THEN "find" ELSE "cached"
                               /\ Moved(w, l, Absent)
    BY <1>1, LabelsAre, GoingIs DEF StartGet, GetLabels, Labels
<1>3. UNCHANGED <<db, mongo, redis, memory, events>>
    BY DEF StartGet, stores
<1> QED
    BY <1>1, <1>2, <1>3, BaseMoves
    DEF JobTyped, Shape, StoreInv, AnsweredInv, SaveLabels, GetLabels, DeleteLabels

LEMMA ReturnBase ==
    ASSUME BaseInv, NEW w \in Callers, Return(w), JobTyped', place' = place
    PROVE  BaseInv'
<1>1. Shape /\ StoreInv /\ AnsweredInv
    BY DEF BaseInv
<1>2. PICK l \in LabelsOf(w) : l = "idle" /\ Moved(w, l, Absent)
    BY <1>1, LabelsAre, OverIs DEF Return
<1>3. memory' \in [Processes -> KeptDoc] /\ UNCHANGED <<db, mongo, redis, events>>
    BY <1>1, ResultIs DEF Return, Shape
<1> QED
    BY <1>1, <1>2, <1>3, BaseMoves
    DEF JobTyped, Shape, StoreInv, AnsweredInv, SaveLabels, GetLabels, DeleteLabels

LEMMA JobBase ==
    ASSUME BaseInv, NextChange \/ SaveChange \/ SaveDone \/ Stop \/ ItemRaises \/ JobRaises \/ KillJob
    PROVE  BaseInv'
<1>1. /\ Shape /\ StoreInv /\ AnsweredInv /\ "job" \in Callers
      /\ Last \in Nat /\ place \in 1 .. Stopped
    BY CallersAre, LastIs DEF BaseInv, Shape
<1>2. CASE NextChange
    <2>1. JobTyped' /\ place' = place
        BY <1>1, <1>2 DEF NextChange, JobTyped, jobVars, Shape
    <2> QED  BY <1>1, <1>2, <2>1, GetBase DEF NextChange
<1>3. CASE SaveChange
    <2>1. place < Last
        BY <1>1, <1>3 DEF SaveChange, Returned, GetLabels, Shape
    <2>2. JobTyped'
        BY <1>1, <1>3, <2>1 DEF SaveChange, JobTyped, Shape, Stopped
    <2>3. (IF Result("job") = Absent THEN Blank ELSE Result("job")) \in Doc
        BY <1>1, ResultIs, DocumentsAre
    <2> DEFINE d == IF Result("job") = Absent THEN Blank ELSE Result("job")
    <2>4. Changed(Changes[place], d) \in Doc /\ StartSave("job", Changed(Changes[place], d))
        BY <1>3, <2>3, ChangedFits DEF SaveChange
    <2> QED  BY <1>1, <2>2, <2>4, SaveBase
<1>4. CASE SaveDone
    <2>1. JobTyped'
        BY <1>1, <1>4 DEF SaveDone, JobTyped, Quiet, Shape
    <2> QED  BY <1>1, <1>4, <2>1, SaveBase, DocumentsAre DEF SaveDone
<1>5. CASE Stop
    <2>1. /\ place' = Stopped /\ call["job"].at = "idle"
          /\ UNCHANGED <<db, mongo, redis, memory, call, events, heart, old, finished, alone, deletion>>
        BY <1>5 DEF Stop, storeVars, stores
    <2>2. Shape'
        BY <1>1, <2>1 DEF Shape, Stopped, Failing, GetLabels
    <2> QED  BY <1>1, <2>1, <2>2 DEF BaseInv, StoreInv, AnsweredInv, Answered, HasMongo
<1>6. CASE JobRaises
    <2>1. JobTyped'
        <3>1. Failing \in 1 .. Stopped
            BY <1>1 DEF Stopped, Failing
        <3> QED  BY <1>1, <1>6, <3>1 DEF JobRaises, JobTyped, Shape
    <2> QED  BY <1>1, <1>6, <2>1, SaveBase, DocumentsAre DEF JobRaises
<1>7. CASE KillJob
    <2>1. JobTyped' /\ place' = Stopped /\ UNCHANGED <<db, mongo, redis, events>>
        BY <1>1, <1>7 DEF KillJob, JobTyped, Shape, Stopped, Failing
    <2>2. memory' \in [Processes -> KeptDoc]
        BY <1>1, <1>7 DEF KillJob, Shape
    <2>3. \A w \in Callers : \/ call'[w] = call[w] /\ w # "job"
                             \/ call'[w] = Idle
        BY <1>1, <1>7, CallersAre, PrepareAssumption DEF KillJob, Over, Shape
    <2>4. call' \in [Callers -> [at : Labels, doc : KeptDoc]]
        BY <1>1, <1>7 DEF KillJob, Over, Shape, Idle, Labels
    <2>5. \A w \in Callers : \/ call'[w].at = call[w].at /\ call'[w].doc = call[w].doc /\ w # "job"
                             \/ call'[w].at = "idle" /\ call'[w].doc = Absent
        BY <2>3 DEF Idle
    <2>6. \A w \in Callers : call'[w].at \in LabelsOf(w)
        BY <1>1, <2>5, LabelsAre DEF Shape
    <2>7. call'["job"].at \notin GetLabels
        BY <1>1, <2>5 DEF GetLabels
    <2>8. Shape'
        BY <1>1, <2>1, <2>2, <2>4, <2>6, <2>7 DEF Shape, JobTyped
    <2>9. StoreInv' /\ AnsweredInv'
        BY <1>1, <2>1, <2>5 DEF StoreInv, AnsweredInv, Answered, HasMongo, SaveLabels, DeleteLabels
    <2> QED  BY <2>8, <2>9 DEF BaseInv
<1>8. CASE ItemRaises
    <2>1. Moved("job", "idle", Absent)
        BY <1>1, <1>8, OverIs DEF ItemRaises
    <2>2. place \in 1 .. Last /\ (call["job"].at # "commit" => place < Last)
        BY <1>1, <1>8, RoundsAre DEF ItemRaises, AtTable, SaveLabels
    <2>3. place' \in 1 .. Stopped
        BY <1>1, <1>8, <2>2 DEF ItemRaises, Stopped, Failing
    <2>4. UNCHANGED <<db, mongo, redis, memory, events, heart, old, finished, alone, deletion>> /\ ~finished'
        BY <1>8 DEF ItemRaises, stores
    <2>5. "idle" \in LabelsOf("job") /\ Absent \in KeptDoc
        BY <1>1, LabelsAre DEF KeptDoc
    <2>6. "idle" \notin GetLabels \cup SaveLabels \cup DeleteLabels
        BY DEF GetLabels, SaveLabels, DeleteLabels
    <2>7. JobTyped'
        BY <1>1, <2>3, <2>4 DEF JobTyped, Shape
    <2> QED
        BY <1>1, <2>1, <2>3, <2>4, <2>5, <2>6, BaseMoves DEF Shape, StoreInv, AnsweredInv
<1> QED
    BY <1>2, <1>3, <1>4, <1>5, <1>6, <1>7, <1>8

LEMMA OthersBase ==
    ASSUME BaseInv,
           \/ Beat \/ \E w \in Callers \ {"job"} : Raises(w)
           \/ Poll \/ Polled \/ UserCalls \/ NotFound \/ SaveDraft \/ Delete \/ Ages
    PROVE  BaseInv'
<1>1. /\ Shape /\ StoreInv /\ AnsweredInv
      /\ "heartbeat" \in Callers /\ "page" \in Callers /\ "user" \in Callers
    BY CallersAre DEF BaseInv
<1>2. JobTyped /\ (UNCHANGED jobVars => JobTyped' /\ place' = place)
    BY <1>1 DEF Shape, JobTyped, jobVars
<1>3. CASE Beat
    <2>1. memory["worker"] \in Doc
        BY <1>1, <1>3 DEF Beat, Shape, Processes
    <2> QED  BY <1>1, <1>2, <1>3, <2>1, SaveBase DEF Beat
<1>4. ASSUME NEW w \in Callers, w # "job", Raises(w)  PROVE BaseInv'
    <2>1. JobTyped' /\ place' = place
        BY <1>2, <1>4 DEF Raises, JobTyped
    <2>2. PICK l \in LabelsOf(w) : l = "idle" /\ Moved(w, l, Absent)
        BY <1>1, <1>4, LabelsAre, OverIs DEF Raises
    <2>3. UNCHANGED <<db, mongo, redis, memory, events>>
        BY <1>4 DEF Raises, stores
    <2> QED
        BY <1>1, <2>1, <2>2, <2>3, BaseMoves
        DEF JobTyped, Shape, StoreInv, AnsweredInv, SaveLabels, GetLabels, DeleteLabels
<1>5. CASE Poll
    <2>1. JobTyped' /\ place' = place
        BY <1>2, <1>5 DEF Poll, JobTyped
    <2> QED  BY <1>1, <1>5, <2>1, GetBase DEF Poll
<1>6. CASE Polled
    <2>1. CASE Stale(Result("page"))
        <3>1. Result("page") \in Doc
            BY <1>1, <2>1, ResultIs DEF Stale
        <3>2. [Result("page") EXCEPT !.status = "FAILED"] \in Doc
            BY <3>1, StaleFits
        <3> QED  BY <1>1, <1>2, <1>6, <2>1, <3>2, SaveBase DEF Polled
    <2>2. CASE ~ Stale(Result("page"))
        BY <1>1, <1>2, <1>6, <2>2, ReturnBase DEF Polled
    <2> QED  BY <2>1, <2>2
<1>7. CASE UserCalls
    <2>1. JobTyped' /\ place' = place
        BY <1>2, <1>7 DEF UserCalls, JobTyped
    <2> QED  BY <1>1, <1>7, <2>1, GetBase DEF UserCalls
<1>8. CASE NotFound
    BY <1>1, <1>2, <1>8, ReturnBase DEF NotFound
<1>9. CASE SaveDraft
    <2>1. Result("user") \in Doc
        BY <1>1, <1>9, ResultIs DEF SaveDraft
    <2> QED  BY <1>1, <1>2, <1>9, <2>1, SaveBase DEF SaveDraft
<1>10. CASE Delete
    <2>1. ~Answered /\ JobTyped' /\ place' = place
        BY <1>2, <1>10 DEF Delete, JobTyped, Answered
    <2>2. PICK l \in LabelsOf("user") : /\ l = IF HasMongo THEN "delete_mongo" ELSE "delete_cache"
                                        /\ Moved("user", l, Absent)
        BY <1>1, <1>10, LabelsAre, CarryingIs DEF Delete, StartDelete, DeleteLabels, Labels
    <2>3. memory' \in [Processes -> KeptDoc] /\ UNCHANGED <<db, mongo, redis, events>>
        BY <1>1, <1>10 DEF Delete, StartDelete, Forget, Shape
    <2> QED
        BY <1>1, <2>1, <2>2, <2>3, BaseMoves
        DEF JobTyped, Shape, StoreInv, SaveLabels, GetLabels, DeleteLabels
<1>11. CASE Ages
    BY <1>1, <1>11 DEF Ages, storeVars, stores, BaseInv, Shape, StoreInv, AnsweredInv, Answered, HasMongo
<1> QED
    BY <1>3, <1>4, <1>5, <1>6, <1>7, <1>8, <1>9, <1>10, <1>11

LEMMA BaseKept ==
    ASSUME BaseInv, [Next]_vars
    PROVE  BaseInv'
<1>1. CASE UNCHANGED vars
    BY <1>1 DEF vars, storeVars, stores, BaseInv, Shape, StoreInv, AnsweredInv, Answered, HasMongo
<1>2. CASE Next
    BY <1>2, CallersAre, StoreStepBase, JobBase, OthersBase
    DEF Next, JobStep, PageStep, UserStep
<1> QED
    BY <1>1, <1>2

LEMMA BaseHolds == Init => BaseInv
<1> SUFFICES ASSUME Init  PROVE BaseInv
    OBVIOUS
<1>1. Queued \in Doc /\ Queued # Absent
    BY DocumentsAre, NoDocument
<1>2. Idle.at = "idle" /\ Idle.doc = Absent
    BY DEF Idle
<1>3. \A w \in Callers : call[w].at = "idle" /\ call[w].doc = Absent
    BY <1>2 DEF Init, StoreInit
<1>4. call \in [Callers -> [at : Labels, doc : KeptDoc]]
    BY DEF Init, StoreInit, Idle, Labels
<1>5. /\ db = Queued /\ redis = Queued /\ events \in Environments
      /\ mongo = IF HasMongo THEN Queued ELSE Absent
      /\ memory \in [Processes -> KeptDoc]
    BY <1>1 DEF Init, StoreInit
<1>6. 1 \in 1 .. Stopped
    BY LastIs DEF Stopped
<1>7. Shape
    BY <1>1, <1>3, <1>4, <1>5, <1>6, LabelsAre, CallersAre DEF Init, Shape, GetLabels
<1>8. StoreInv /\ AnsweredInv
    BY <1>1, <1>3, <1>5 DEF StoreInv, AnsweredInv, SaveLabels, DeleteLabels
<1> QED
    BY <1>7, <1>8 DEF BaseInv

\* The bounds of the steps of the job and of the products it has counted, and
\* the stores that hold one of its documents or none.
THEOREM TypeCorrect == Spec => []TypeOK
<1>1. BaseInv => TypeOK
    <2> SUFFICES ASSUME BaseInv  PROVE TypeOK
        OBVIOUS
    <2>1. KeptDoc \subseteq Kept
        BY DocumentsAssumption DEF Kept
    <2>2. db \in Kept /\ mongo \in Kept /\ redis \in Kept
        BY <2>1 DEF BaseInv, Shape
    <2>3. memory \in [Processes -> Kept]
        BY <2>1 DEF BaseInv, Shape
    <2>4. call \in [Callers -> [at : Labels, doc : Kept]]
        BY <2>1 DEF BaseInv, Shape
    <2>5. StoreTypeOK
        BY <2>2, <2>3, <2>4 DEF StoreTypeOK, BaseInv, Shape, Labels
    <2> QED  BY <2>5 DEF TypeOK, BaseInv, Shape
<1> QED
    BY <1>1, BaseHolds, BaseKept, PTL DEF Spec

-----------------------------------------------------------------------------
(* What a step of a call does.                                             *)

Stays(w) == call'[w].at = call[w].at /\ call'[w].doc = call[w].doc

LEMMA MovedStays ==
    ASSUME NEW w \in Callers, NEW l, NEW d, Moved(w, l, d)
    PROVE  \A v \in Callers : v # w => Stays(v)
BY DEF Moved, Stays

LEMMA SaveSteps ==
    ASSUME BaseInv, NEW w \in Callers, Continue(w), call[w].at \in SaveLabels
    PROVE  /\ UNCHANGED <<memory, events, heart, old, place, finished, alone, deletion>>
           /\ \A v \in Callers : v # w => Stays(v)
           /\ \/ /\ call[w].at = "commit" /\ db' = call[w].doc /\ UNCHANGED <<mongo, redis>>
                 /\ call'[w].at = IF HasMongo THEN "save_mongo" ELSE "save_cache"
                 /\ call'[w].doc = call[w].doc
              \/ /\ call[w].at = "save_mongo" /\ UNCHANGED <<db, redis>>
                 /\ mongo' \in {mongo, call[w].doc}
                 /\ "store_error" \notin events => mongo' = call[w].doc
                 /\ call'[w].at = "save_cache" /\ call'[w].doc = call[w].doc
              \/ /\ call[w].at = "save_cache" /\ UNCHANGED <<db, mongo>>
                 /\ redis' \in {redis, call[w].doc}
                 /\ "store_error" \notin events => redis' = call[w].doc
                 /\ call'[w].at = "idle"
<1>1. Shape
    BY DEF BaseInv
<1>2. UNCHANGED <<heart, old, place, finished, alone, deletion>>
    BY DEF Continue, jobVars
<1>3. CASE CommitSave(w)
    <2>1. Moved(w, IF HasMongo THEN "save_mongo" ELSE "save_cache", call[w].doc)
        BY <1>1, <1>3, GoingIs DEF CommitSave, SaveLabels, Labels
    <2> QED  BY <1>2, <1>3, <2>1, MovedStays DEF CommitSave, Moved
<1>4. CASE SaveMongo(w)
    <2>1. Moved(w, "save_cache", call[w].doc)
        BY <1>1, <1>4, GoingIs DEF SaveMongo, SaveLabels, Labels
    <2> QED  BY <1>2, <1>4, <2>1, MovedStays DEF SaveMongo, Moved, Written
<1>5. CASE SaveCache(w)
    <2>1. Moved(w, "idle", Absent)
        BY <1>1, <1>5, OverIs DEF SaveCache
    <2> QED  BY <1>2, <1>5, <2>1, MovedStays DEF SaveCache, Moved, Written
<1> QED
    BY <1>3, <1>4, <1>5
    DEF Continue, StoreStep, SaveLabels, Find, Cached, Select, Fill, DeleteMongo, DeleteCache, DeleteRow

LEMMA GetSteps ==
    ASSUME BaseInv, NEW w \in Callers, Continue(w), call[w].at \in GetLabels
    PROVE  /\ UNCHANGED <<db, mongo, memory, events, heart, old, place, finished, alone, deletion>>
           /\ \A v \in Callers : v # w => Stays(v)
           /\ \/ /\ call[w].at = "find" /\ redis' = redis
                 /\ \/ call'[w].at = "return" /\ call'[w].doc = mongo /\ mongo # Absent
                    \/ call'[w].at = "cached" /\ call'[w].doc = call[w].doc
              \/ /\ call[w].at = "cached" /\ redis' = redis
                 /\ \/ call'[w].at = "return" /\ call'[w].doc = redis /\ redis # Absent
                    \/ call'[w].at = "select" /\ call'[w].doc = call[w].doc
              \/ /\ call[w].at = "select" /\ redis' = redis
                 /\ call'[w].at = IF db = Absent THEN "return" ELSE "fill"
                 /\ call'[w].doc = db
              \/ /\ call[w].at = "fill" /\ redis' \in {redis, call[w].doc}
                 /\ call'[w].at = "return" /\ call'[w].doc = call[w].doc
<1>1. Shape
    BY DEF BaseInv
<1>2. UNCHANGED <<heart, old, place, finished, alone, deletion>>
    BY DEF Continue, jobVars
<1>3. CASE Find(w)
    <2>1. \/ mongo # Absent /\ Moved(w, "return", mongo)
          \/ Moved(w, "cached", call[w].doc)
        BY <1>1, <1>3, GoingIs, CarryingIs DEF Find, GetLabels, Labels, Shape
    <2> QED  BY <1>2, <1>3, <2>1, MovedStays DEF Find, Moved, stores
<1>4. CASE Cached(w)
    <2>1. \/ redis # Absent /\ Moved(w, "return", redis)
          \/ Moved(w, "select", call[w].doc)
        BY <1>1, <1>4, GoingIs, CarryingIs DEF Cached, GetLabels, Labels, Shape
    <2> QED  BY <1>2, <1>4, <2>1, MovedStays DEF Cached, Moved, stores
<1>5. CASE Select(w)
    <2>1. Moved(w, IF db = Absent THEN "return" ELSE "fill", db)
        BY <1>1, <1>5, CarryingIs DEF Select, GetLabels, Labels, Shape
    <2> QED  BY <1>2, <1>5, <2>1, MovedStays DEF Select, Moved, stores
<1>6. CASE Fill(w)
    <2>1. Moved(w, "return", call[w].doc)
        BY <1>1, <1>6, GoingIs DEF Fill, GetLabels, Labels
    <2> QED  BY <1>2, <1>6, <2>1, MovedStays DEF Fill, Moved, Written
<1> QED
    BY <1>3, <1>4, <1>5, <1>6
    DEF Continue, StoreStep, GetLabels, CommitSave, SaveMongo, SaveCache, DeleteMongo, DeleteCache, DeleteRow

LEMMA DeleteSteps ==
    ASSUME BaseInv, NEW w \in Callers, Continue(w), call[w].at \in DeleteLabels
    PROVE  /\ UNCHANGED <<memory, events, heart, old, place, finished, alone, deletion>>
           /\ \A v \in Callers : v # w => Stays(v)
           /\ call'[w].doc = Absent
           /\ \/ /\ call[w].at = "delete_mongo" /\ UNCHANGED <<db, redis>>
                 /\ "store_error" \notin events => mongo' = Absent
                 /\ call'[w].at = "delete_cache"
              \/ /\ call[w].at = "delete_cache" /\ UNCHANGED <<db, mongo>>
                 /\ "store_error" \notin events => redis' = Absent
                 /\ call'[w].at = "delete_row"
              \/ /\ call[w].at = "delete_row" /\ UNCHANGED <<mongo, redis>>
                 /\ db' = Absent /\ call'[w].at = "idle"
<1>1. Shape /\ call[w].doc = Absent
    BY DEF BaseInv, StoreInv
<1>2. UNCHANGED <<heart, old, place, finished, alone, deletion>>
    BY DEF Continue, jobVars
<1>3. CASE DeleteMongo(w)
    <2>1. Moved(w, "delete_cache", Absent)
        BY <1>1, <1>3, GoingIs DEF DeleteMongo, DeleteLabels, Labels
    <2> QED  BY <1>2, <1>3, <2>1, MovedStays DEF DeleteMongo, Moved, Written
<1>4. CASE DeleteCache(w)
    <2>1. Moved(w, "delete_row", Absent)
        BY <1>1, <1>4, GoingIs DEF DeleteCache, DeleteLabels, Labels
    <2> QED  BY <1>2, <1>4, <2>1, MovedStays DEF DeleteCache, Moved, Written
<1>5. CASE DeleteRow(w)
    <2>1. Moved(w, "idle", Absent)
        BY <1>1, <1>5, OverIs DEF DeleteRow
    <2> QED  BY <1>2, <1>5, <2>1, MovedStays DEF DeleteRow, Moved
<1> QED
    BY <1>3, <1>4, <1>5
    DEF Continue, StoreStep, DeleteLabels, CommitSave, SaveMongo, SaveCache, Find, Cached, Select, Fill

LEMMA OnTheWay ==
    ASSUME NEW w \in Callers, Continue(w)
    PROVE  call[w].at \in SaveLabels \cup GetLabels \cup DeleteLabels
BY DEF Continue, StoreStep, SaveLabels, GetLabels, DeleteLabels, CommitSave, SaveMongo, SaveCache,
       Find, Cached, Select, Fill, DeleteMongo, DeleteCache, DeleteRow

LEMMA SaveBegins ==
    ASSUME BaseInv, NEW w \in Callers, NEW d \in Doc, StartSave(w, d)
    PROVE  /\ UNCHANGED <<db, mongo, redis, events>>
           /\ memory' = [memory EXCEPT ![Home(w)] = d]
           /\ \A v \in Callers : v # w => Stays(v)
           /\ call'[w].at = "commit" /\ call'[w].doc = d
<1>1. Moved(w, "commit", d)
    BY CarryingIs DEF StartSave, BaseInv, Labels, SaveLabels
<1> QED
    BY <1>1, MovedStays DEF StartSave, Remember, Moved

LEMMA GetBegins ==
    ASSUME BaseInv, NEW w \in Callers, call[w].at = "idle", StartGet(w)
    PROVE  /\ UNCHANGED <<db, mongo, redis, memory, events>>
           /\ \A v \in Callers : v # w => Stays(v)
           /\ call'[w].at = IF HasMongo THEN "find" ELSE "cached"
           /\ call'[w].doc = Absent
<1>1. Moved(w, IF HasMongo THEN "find" ELSE "cached", Absent)
    BY GoingIs DEF StartGet, BaseInv, StoreInv, Labels, GetLabels
<1> QED
    BY <1>1, MovedStays DEF StartGet, Moved, stores

LEMMA Returns ==
    ASSUME BaseInv, NEW w \in Callers, Return(w)
    PROVE  /\ UNCHANGED <<db, mongo, redis, events>>
           /\ memory' = [memory EXCEPT ![Home(w)] = Result(w)]
           /\ \A v \in Callers : v # w => Stays(v)
           /\ call'[w].at = "idle" /\ call'[w].doc = Absent
<1>1. Moved(w, "idle", Absent)
    BY OverIs DEF Return, BaseInv
<1> QED
    BY <1>1, MovedStays DEF Return, Moved

LEMMA DeleteBegins ==
    ASSUME BaseInv, StartDelete("user")
    PROVE  /\ UNCHANGED <<db, mongo, redis, events>>
           /\ memory' = [memory EXCEPT !["api"] = Absent]
           /\ \A v \in Callers : v # "user" => Stays(v)
           /\ call'["user"].at = IF HasMongo THEN "delete_mongo" ELSE "delete_cache"
           /\ call'["user"].doc = Absent
<1>1. Moved("user", IF HasMongo THEN "delete_mongo" ELSE "delete_cache", Absent)
    BY CallersAre, CarryingIs DEF StartDelete, BaseInv, Labels, DeleteLabels
<1> QED
    BY <1>1, CallersAre, MovedStays DEF StartDelete, Forget, Moved

-----------------------------------------------------------------------------
(* The prepared document.                                                  *)

\* What the API does to the worker: nothing.
LEMMA ApiSteps ==
    ASSUME BaseInv,
           PageStep \/ UserStep \/ Raises("page") \/ Raises("user") \/ Ages
    PROVE  /\ Stays("job") /\ Stays("heartbeat")
           /\ memory'["worker"] = memory["worker"]
           /\ finished' = finished /\ place' = place /\ events' = events
           /\ alone' \in BOOLEAN /\ alone' => alone
<1>1. /\ Shape /\ alone \in BOOLEAN /\ memory \in [Processes -> KeptDoc]
      /\ {"api", "worker"} = Processes
    BY DEF BaseInv, Shape, Processes
<1>2. alone' \in BOOLEAN
    BY BaseKept, CallersAre DEF BaseInv, Shape, Next
<1>3. CASE Poll \/ UserCalls
    <2>1. PICK w \in {"page", "user"} : call[w].at = "idle" /\ StartGet(w)
        BY <1>3 DEF Poll, UserCalls
    <2> QED  BY <1>1, <1>2, <1>3, <2>1, CallersAre, GetBegins DEF Poll, UserCalls
<1>4. CASE Polled \/ SaveDraft \/ NotFound
    <2>1. PICK w \in {"page", "user"} : Return(w) \/ \E d \in Doc : StartSave(w, d)
        <3>1. CASE Polled
            <4>1. Stale(Result("page")) => [Result("page") EXCEPT !.status = "FAILED"] \in Doc
                BY <1>1, CallersAre, ResultIs, StaleFits DEF Stale
            <4> QED  BY <3>1, <4>1 DEF Polled
        <3>2. CASE SaveDraft \/ NotFound
            BY <1>1, <3>2, CallersAre, ResultIs DEF SaveDraft, NotFound
        <3> QED  BY <1>4, <3>1, <3>2
    <2>2. w \in Callers /\ Home(w) = "api"
        BY CallersAre
    <2>3. events' = events /\ Stays("job") /\ Stays("heartbeat")
        BY <2>1, <2>2, CallersAre, SaveBegins, Returns
    <2>4. memory'["worker"] = memory["worker"]
        BY <1>1, <2>1, <2>2, SaveBegins, Returns
    <2>5. UNCHANGED <<heart, old, place, finished, alone, deletion>>
        BY <1>4 DEF Polled, SaveDraft, NotFound, jobVars
    <2> QED  BY <1>2, <2>3, <2>4, <2>5
<1>5. CASE Delete
    BY <1>1, <1>2, <1>5, CallersAre, DeleteBegins DEF Delete
<1>6. CASE Raises("page") \/ Raises("user")
    <2>1. PICK w \in {"page", "user"} : Raises(w)
        BY <1>6
    <2>2. Moved(w, "idle", Absent)
        BY <1>1, <2>1, CallersAre, OverIs DEF Raises
    <2> QED  BY <1>2, <2>1, <2>2, CallersAre, MovedStays DEF Raises, stores
<1>7. CASE Ages
    BY <1>2, <1>7 DEF Ages, storeVars, stores, Stays
<1>8. CASE Continue("page") \/ Continue("user")
    <2>1. PICK w \in {"page", "user"} : Continue(w)
        BY <1>8
    <2> QED  BY <1>2, <2>1, CallersAre, OnTheWay, SaveSteps, GetSteps, DeleteSteps
<1> QED
    BY <1>3, <1>4, <1>5, <1>6, <1>7, <1>8 DEF PageStep, UserStep

\* The job begins a change, or ends badly: it is not Ended.
LEMMA NotEnded ==
    ASSUME BaseInv, NextChange \/ SaveChange \/ ItemRaises \/ JobRaises
    PROVE  ~Ended'
<1>1. Last \in Nat /\ Shape
    BY LastIs DEF BaseInv
<1>2. CASE NextChange \/ SaveChange
    <2>1. place < Last /\ finished' = finished
        BY <1>1, <1>2 DEF NextChange, SaveChange, Returned, GetLabels, jobVars, Shape
    <2>2. ~finished
        BY <1>1, <2>1 DEF Shape, Stopped, Failing
    <2> QED  BY <2>1, <2>2 DEF Ended
<1>3. CASE ItemRaises \/ JobRaises
    BY <1>3 DEF ItemRaises, JobRaises, Ended
<1> QED
    BY <1>2, <1>3

LEMMA KillSteps ==
    ASSUME BaseInv, KillJob
    PROVE  /\ UNCHANGED <<db, mongo, redis, events, heart, old, alone, deletion>>
           /\ memory'["api"] = memory["api"]
           /\ memory'["worker"] \in {memory["worker"], Absent}
           /\ place # Stopped /\ place' = Stopped
           /\ finished' => finished /\ call["job"].at = "idle"
           /\ call'["job"].at = "idle" /\ Stays("page") /\ Stays("user")
           /\ Stays("heartbeat") \/ call'["heartbeat"].at = "idle"
<1>1. /\ Shape /\ memory \in [Processes -> KeptDoc] /\ "api" \in Processes /\ "worker" \in Processes
      /\ call \in [Callers -> [at : Labels, doc : KeptDoc]]
    BY DEF BaseInv, Shape, Processes
<1>2. \A w \in Callers : call'[w] = Idle \/ call'[w] = call[w]
    BY <1>1 DEF KillJob, Over
<1>3. /\ call'["job"] = Idle
      /\ call'["page"] = call["page"] /\ call'["user"] = call["user"]
    BY <1>1, CallersAre, PrepareAssumption DEF KillJob, Over
<1>4. Idle.at = "idle"
    BY DEF Idle
<1>5. /\ memory'["api"] = memory["api"]
      /\ memory'["worker"] \in {memory["worker"], Absent}
    BY <1>1 DEF KillJob
<1> QED
    BY <1>2, <1>3, <1>4, <1>5, CallersAre DEF KillJob, Stays

LEMMA WorkerKept ==
    ASSUME BaseInv, WorkerInv, Next
    PROVE  WorkerInv'
<1>1. /\ Shape /\ memory \in [Processes -> KeptDoc] /\ "worker" \in Processes
      /\ finished \in BOOLEAN /\ alone \in BOOLEAN
    BY DEF BaseInv, Shape, Processes
<1>2. CASE NextChange \/ SaveChange \/ ItemRaises \/ JobRaises
    BY <1>2, NotEnded DEF WorkerInv
<1>3. CASE SaveDone
    <2>1. /\ memory'["worker"] = PreparedDoc
          /\ call'["job"].at = "commit" /\ call'["job"].doc = PreparedDoc
          /\ Stays("heartbeat")
        BY <1>1, <1>3, CallersAre, DocumentsAre, SaveBegins DEF SaveDone
    <2>2. alone' => call["heartbeat"].at = "idle"
        BY <1>3, CallersAre DEF SaveDone, Quiet
    <2> QED  BY <2>1, <2>2 DEF WorkerInv, Ended, Saves, Stays, SaveLabels
<1>4. CASE Stop
    BY <1>4 DEF Stop, storeVars, stores, WorkerInv, Ended, Saves
<1>5. CASE KillJob
    BY <1>5, KillSteps DEF WorkerInv, Ended, Saves, Stays
<1>6. CASE Beat
    <2>1. memory["worker"] \in Doc
        BY <1>1, <1>6 DEF Beat
    <2>2. /\ memory'["worker"] = memory["worker"] /\ Stays("job")
          /\ call'["heartbeat"].at = "commit" /\ call'["heartbeat"].doc = memory["worker"]
        BY <1>1, <1>6, <2>1, CallersAre, SaveBegins DEF Beat
    <2>3. Ended' = Ended /\ memory["worker"] # Absent
        BY <1>6 DEF Beat, Ended, jobVars
    <2> QED  BY <2>2, <2>3 DEF WorkerInv, Saves, Stays, SaveLabels
<1>7. ASSUME NEW w \in {"job", "heartbeat"}, Continue(w)  PROVE WorkerInv'
    <2>1. w \in Callers
        BY CallersAre
    <2>2. Ended' = Ended
        BY <1>7 DEF Continue, jobVars, Ended
    <2>3. CASE call[w].at \in SaveLabels
        BY <1>7, <2>1, <2>2, <2>3, CallersAre, SaveSteps DEF WorkerInv, Saves, Stays, SaveLabels
    <2>4. CASE call[w].at \notin SaveLabels
        <3>1. call[w].at # "idle"
            BY <1>7, <2>1, OnTheWay DEF SaveLabels, GetLabels, DeleteLabels
        <3> QED  BY <2>2, <2>4, <3>1 DEF WorkerInv, Saves
    <2> QED  BY <2>3, <2>4
<1>8. CASE Raises("heartbeat")
    <2>1. Moved("heartbeat", "idle", Absent)
        BY <1>1, <1>8, CallersAre, OverIs DEF Raises
    <2>2. memory' = memory /\ Ended' = Ended
        BY <1>8 DEF Raises, stores, Ended
    <2> QED  BY <2>1, <2>2, CallersAre, MovedStays DEF WorkerInv, Saves, Stays, Moved
<1>9. CASE PageStep \/ UserStep \/ Raises("page") \/ Raises("user") \/ Ages
    BY <1>9, ApiSteps DEF WorkerInv, Ended, Saves, Stays
<1> QED
    BY <1>2, <1>3, <1>4, <1>5, <1>6, <1>7, <1>8, <1>9, CallersAre DEF Next, JobStep

LEMMA EventsStay ==
    ASSUME BaseInv, Next
    PROVE  events' = events
BY CallersAre, ApiSteps, KillSteps
DEF Next, JobStep, NextChange, SaveChange, SaveDone, Stop, ItemRaises, JobRaises, Beat, Raises, Continue,
    StartSave, StartGet, storeVars, StoreStep, CommitSave, SaveMongo, SaveCache, Find, Cached,
    Select, Fill, DeleteMongo, DeleteCache, DeleteRow

LEMMA RowKept ==
    ASSUME BaseInv, WorkerInv, RowInv, Next
    PROVE  RowInv'
<1> SUFFICES ASSUME Unwatched'
             PROVE  /\ call'["page"].at = "idle" /\ call'["user"].at = "idle"
                    /\ Ended' /\ call'["job"].at # "commit" => db' = PreparedDoc
    BY DEF RowInv
<1>1. events' = events
    BY EventsStay
<1>2. Unwatched /\ call["page"].at = "idle" /\ call["user"].at = "idle"
    BY <1>1 DEF Unwatched, RowInv
<1>3. Shape
    BY DEF BaseInv
<1>4. ~ (PageStep \/ UserStep \/ Raises("page") \/ Raises("user"))
    <2>1. ~Continue("page") /\ ~Continue("user")
        BY <1>2, CallersAre, OnTheWay DEF SaveLabels, GetLabels, DeleteLabels
    <2>2. ~Poll /\ ~UserCalls /\ ~Delete
        BY <1>2 DEF Poll, UserCalls, Delete, Unwatched
    <2>3. ~Polled /\ ~NotFound /\ ~SaveDraft
        BY <1>2 DEF Polled, NotFound, SaveDraft, Return, Returned, Over
    <2> QED  BY <1>2, <2>1, <2>2, <2>3 DEF PageStep, UserStep, Raises, AtTable
<1>5a. CASE ItemRaises
    <2>1. Moved("job", "idle", Absent) /\ ~Ended'
        BY <1>3, <1>5a, CallersAre, OverIs, NotEnded DEF ItemRaises
    <2> QED  BY <1>2, <2>1, CallersAre DEF Moved
<1>5. CASE NextChange \/ SaveChange \/ JobRaises
    <2>1. PICK w \in {"job"} : \/ StartGet(w) /\ call[w].at = "idle"
                             \/ \E d \in Doc : StartSave(w, d)
        <3>1. CASE SaveChange
            <4> DEFINE d == IF Result("job") = Absent THEN Blank ELSE Result("job")
            <4>1. d \in Doc
                BY <1>3, CallersAre, ResultIs, DocumentsAre
            <4>2. Changed(Changes[place], d) \in Doc
                BY <4>1, ChangedFits
            <4> QED  BY <3>1, <4>2 DEF SaveChange
        <3>2. CASE NextChange \/ JobRaises
            BY <3>2, DocumentsAre DEF NextChange, JobRaises
        <3> QED  BY <1>5, <3>1, <3>2
    <2>2. Stays("page") /\ Stays("user")
        BY <2>1, CallersAre, SaveBegins, GetBegins
    <2> QED  BY <1>2, <1>5, <2>2, NotEnded DEF Stays
<1>6. CASE SaveDone
    <2>1. Stays("page") /\ Stays("user") /\ call'["job"].at = "commit"
        BY <1>6, CallersAre, DocumentsAre, SaveBegins DEF SaveDone
    <2> QED  BY <1>2, <2>1 DEF Stays
<1>7. CASE Stop
    BY <1>2, <1>7 DEF Stop, storeVars, stores, RowInv, Ended
<1>8. CASE KillJob
    BY <1>2, <1>8, KillSteps DEF RowInv, Ended, Stays
<1>9. CASE Beat
    <2>1. memory["worker"] \in Doc
        BY <1>3, <1>9 DEF Beat, Shape, Processes
    <2>2. /\ Stays("job") /\ Stays("page") /\ Stays("user") /\ db' = db
        BY <1>9, <2>1, CallersAre, SaveBegins DEF Beat
    <2> QED  BY <1>2, <1>9, <2>2 DEF RowInv, Ended, Stays, Beat, jobVars
<1>10. ASSUME NEW w \in {"job", "heartbeat"}, Continue(w)
       PROVE  /\ call'["page"].at = "idle" /\ call'["user"].at = "idle"
              /\ Ended' /\ call'["job"].at # "commit" => db' = PreparedDoc
    <2>1. w \in Callers /\ w # "page" /\ w # "user"
        BY CallersAre
    <2>2. Stays("page") /\ Stays("user")
        BY <1>10, <2>1, CallersAre, OnTheWay, SaveSteps, GetSteps, DeleteSteps
    <2>3. Ended' = Ended
        BY <1>10 DEF Continue, jobVars, Ended
    <2>4. ASSUME Ended  PROVE call'["job"].at # "commit" => db' = PreparedDoc
        <3>1. call[w].at \in SaveLabels /\ call[w].doc = PreparedDoc
            BY <1>10, <2>1, <2>4, OnTheWay DEF WorkerInv, Saves, SaveLabels, GetLabels, DeleteLabels
        <3> QED  BY <1>2, <1>10, <2>1, <2>4, <3>1, CallersAre, SaveSteps DEF RowInv, Stays
    <2> QED  BY <1>2, <2>2, <2>3, <2>4 DEF Stays
<1>11. CASE Raises("heartbeat")
    <2>1. Moved("heartbeat", "idle", Absent)
        BY <1>3, <1>11, CallersAre, OverIs DEF Raises
    <2>2. db' = db /\ Ended' = Ended
        BY <1>11 DEF Raises, stores, Ended
    <2> QED  BY <1>2, <2>1, <2>2, CallersAre, MovedStays DEF RowInv, Stays
<1>12. CASE Ages
    BY <1>2, <1>12 DEF Ages, storeVars, stores, RowInv, Ended
<1> QED
    BY <1>4, <1>5, <1>5a, <1>6, <1>7, <1>8, <1>9, <1>10, <1>11, <1>12, CallersAre DEF Next, JobStep

\* The worker brings the prepared document to one store after the other.
LEMMA AnswersWorker ==
    ASSUME BaseInv, WorkerInv, AnswersInv, Answered, Ended,
           NEW w \in {"job", "heartbeat"}, Continue(w)
    PROVE  AnswersInv'
<1>1. w \in Callers /\ w # "page" /\ w # "user"
    BY CallersAre
<1>2. call[w].at \in SaveLabels /\ call[w].doc = PreparedDoc
    BY <1>1, OnTheWay DEF WorkerInv, Saves, SaveLabels, GetLabels, DeleteLabels
<1>3. /\ UNCHANGED <<memory, events, heart, old, place, finished, alone, deletion>>
      /\ Stays("page") /\ Stays("user")
    BY <1>1, <1>2, CallersAre, SaveSteps
<1>4. HasMongo' = HasMongo /\ "store_error" \notin events
    BY <1>3 DEF HasMongo, Answered
<1>5. call["job"].at \in SaveLabels \cup {"idle"}
    BY DEF WorkerInv, Saves
<1>6. CASE w = "job"
    <2>1. \/ /\ call["job"].at = "commit" /\ db' = PreparedDoc /\ UNCHANGED <<mongo, redis>>
             /\ call'["job"].at = IF HasMongo THEN "save_mongo" ELSE "save_cache"
          \/ /\ call["job"].at = "save_mongo" /\ UNCHANGED <<db, redis>> /\ mongo' = PreparedDoc
             /\ call'["job"].at = "save_cache"
          \/ /\ call["job"].at = "save_cache" /\ UNCHANGED <<db, mongo>> /\ redis' = PreparedDoc
             /\ call'["job"].at = "idle"
        BY <1>1, <1>2, <1>4, <1>6, SaveSteps
    <2> QED
        BY <1>3, <1>4, <2>1 DEF AnswersInv, Stays
<1>7. CASE w = "heartbeat"
    <2>1. /\ Stays("job") /\ db' \in {db, PreparedDoc} /\ mongo' \in {mongo, PreparedDoc}
          /\ redis' \in {redis, PreparedDoc}
        BY <1>1, <1>2, <1>4, <1>7, CallersAre, SaveSteps
    <2> QED
        BY <1>3, <1>4, <2>1 DEF AnswersInv, Stays
<1> QED
    BY <1>6, <1>7

\* What the page reads is prepared, or the heartbeat was recent.
LEMMA AnswersPage ==
    ASSUME BaseInv, AnswersInv, Answered, Ended, PageStep, Ended'
    PROVE  AnswersInv'
<1>1. /\ Shape /\ StoreInv /\ AnsweredInv /\ "page" \in Callers
      /\ call["page"].at \in {"idle"} \cup SaveLabels \cup GetLabels
    BY CallersAre DEF BaseInv, Shape, LabelsOf
<1>2. call["page"].at \notin SaveLabels
    BY DEF AnswersInv
<1>3. call["page"].at \notin {"select", "fill"} /\ redis # Absent /\ (HasMongo => mongo # Absent)
    BY <1>1 DEF AnsweredInv
<1>4. CASE Poll
    <2>1. /\ UNCHANGED <<db, mongo, redis, events, old>> /\ Stays("job") /\ Stays("user")
          /\ call'["page"].at \in {"find", "cached"}
        BY <1>1, <1>4, CallersAre, GetBegins DEF Poll
    <2>2. call["job"].at = "idle" \/ ~old
        BY <1>4 DEF Poll, Ended
    <2> QED  BY <2>1, <2>2 DEF AnswersInv, Stays, HasMongo, SaveLabels
<1>5. CASE Polled
    <2>1. call["page"].at = "return" /\ call["page"].doc # Absent
        BY <1>1, <1>5 DEF Polled, Returned, AnsweredInv
    <2>2. Result("page") = call["page"].doc
        BY <2>1 DEF Result
    <2>3. ~ Stale(Result("page"))
        <3>1. "store_error" \notin events
            BY DEF Answered
        <3>2. ~old \/ call["page"].doc = PreparedDoc
            BY <2>1 DEF AnswersInv
        <3> QED  BY <2>2, <3>1, <3>2, DocumentsAre DEF Stale
    <2>4. Return("page") /\ old' = old
        BY <1>5, <2>3 DEF Polled, jobVars
    <2>5. /\ UNCHANGED <<db, mongo, redis, events>> /\ Stays("job") /\ Stays("user")
          /\ call'["page"].at = "idle"
        BY <1>1, <2>4, CallersAre, Returns
    <2> QED  BY <2>4, <2>5 DEF AnswersInv, Stays, HasMongo, SaveLabels
<1>6. CASE Continue("page")
    <2>1. call["page"].at \in GetLabels
        BY <1>1, <1>2, <1>6, OnTheWay DEF SaveLabels, GetLabels, DeleteLabels
    <2>2. /\ UNCHANGED <<db, mongo, redis, events, old>> /\ Stays("job") /\ Stays("user")
          /\ \/ /\ call["page"].at = "find" /\ HasMongo
                /\ call'["page"].at = "return" /\ call'["page"].doc = mongo
             \/ call'["page"].at \in {"cached", "select"}
             \/ call'["page"].at = "return" /\ call'["page"].doc = redis
        BY <1>1, <1>3, <1>6, <2>1, CallersAre, GetSteps DEF StoreInv
    <2>3. call["job"].at = "idle" => redis = PreparedDoc /\ (HasMongo => mongo = PreparedDoc)
        BY DEF AnswersInv
    <2>4. call["page"].at # "idle"
        BY <2>1 DEF GetLabels
    <2> QED  BY <2>2, <2>3, <2>4 DEF AnswersInv, Stays, HasMongo, SaveLabels
<1> QED
    BY <1>4, <1>5, <1>6 DEF PageStep

\* The user comes when the stores have the prepared document, and saves it.
LEMMA AnswersUser ==
    ASSUME BaseInv, AnswersInv, Answered, Ended, UserStep, Ended'
    PROVE  AnswersInv'
<1>1. /\ Shape /\ StoreInv /\ AnsweredInv /\ "user" \in Callers
      /\ call["user"].at \notin {"select", "fill"} \cup DeleteLabels
    BY CallersAre DEF BaseInv, AnsweredInv
<1>2. old' = old /\ call["job"].at = "idle"
    <2>1. CASE UserCalls
        BY <2>1 DEF UserCalls, Ended
    <2>2. CASE ~UserCalls
        <3>1. ~Delete
            BY DEF Delete, Answered
        <3>2. call["user"].at # "idle" /\ UNCHANGED jobVars
            BY <1>1, <2>2, <3>1, OnTheWay
            DEF UserStep, NotFound, SaveDraft, Return, Returned, Continue, SaveLabels, GetLabels, DeleteLabels
        <3> QED  BY <3>2 DEF AnswersInv, jobVars
    <2> QED  BY <2>1, <2>2
<1>3. db = PreparedDoc /\ redis = PreparedDoc /\ (HasMongo => mongo = PreparedDoc)
    BY <1>2 DEF AnswersInv
<1>4. /\ Stays("job") /\ Stays("page") /\ events' = events
      /\ db' = db /\ redis' = redis /\ (HasMongo => mongo' = mongo)
      /\ call'["user"].at \in {"return"} \cup SaveLabels => call'["user"].doc = PreparedDoc
    <2>1. CASE UserCalls
        BY <1>1, <2>1, CallersAre, GetBegins DEF UserCalls, SaveLabels
    <2>2. CASE NotFound
        BY <1>1, <2>2, CallersAre, Returns DEF NotFound, SaveLabels
    <2>3. CASE SaveDraft
        <3>1. Result("user") = PreparedDoc
            BY <1>1, <2>3 DEF SaveDraft, Returned, AnsweredInv, AnswersInv, Result
        <3> QED  BY <1>1, <2>3, <3>1, CallersAre, DocumentsAre, SaveBegins DEF SaveDraft
    <2>4. CASE Delete
        BY <2>4 DEF Delete, Answered
    <2>5. CASE Continue("user")
        <3>1. CASE call["user"].at \in SaveLabels
            <4>1. call["user"].doc = PreparedDoc
                BY <3>1 DEF AnswersInv
            <4>2. call["user"].at = "save_mongo" => HasMongo
                BY <1>1 DEF StoreInv
            <4>3. /\ Stays("job") /\ Stays("page") /\ events' = events
                  /\ db' \in {db, PreparedDoc} /\ redis' \in {redis, PreparedDoc}
                  /\ mongo' \in {mongo, PreparedDoc}
                BY <1>1, <2>5, <3>1, <4>1, CallersAre, SaveSteps
            <4>4. \/ call'["user"].at = "idle"
                  \/ call'["user"].doc = PreparedDoc
                BY <1>1, <2>5, <3>1, <4>1, SaveSteps
            <4> QED  BY <1>3, <4>3, <4>4 DEF SaveLabels
        <3>2. CASE call["user"].at \in GetLabels
            <4>1. call["user"].at = "find" => HasMongo
                BY <1>1 DEF StoreInv
            <4>2. /\ Stays("job") /\ Stays("page") /\ UNCHANGED <<db, mongo, events>>
                  /\ redis' = redis
                  /\ \/ call'["user"].at = "return" /\ call'["user"].doc = redis
                     \/ HasMongo /\ call'["user"].at = "return" /\ call'["user"].doc = mongo
                     \/ call'["user"].at \in {"cached", "select"}
                BY <1>1, <2>5, <3>2, <4>1, CallersAre, GetSteps
            <4>3. call'["user"].at = "return" => call'["user"].doc = PreparedDoc
                BY <1>3, <4>2
            <4>4. call'["user"].at \notin SaveLabels
                BY <4>2 DEF SaveLabels
            <4> QED  BY <4>2, <4>3, <4>4
        <3> QED  BY <1>1, <2>5, <3>1, <3>2, OnTheWay
    <2> QED  BY <2>1, <2>2, <2>3, <2>4, <2>5 DEF UserStep
<1> QED
    BY <1>2, <1>3, <1>4 DEF AnswersInv, Stays, HasMongo

LEMMA AnswersKept ==
    ASSUME BaseInv, WorkerInv, AnswersInv, Next
    PROVE  AnswersInv'
<1> SUFFICES ASSUME Answered', Ended'  PROVE AnswersInv'
    BY DEF AnswersInv
<1>1. events' = events /\ Answered /\ HasMongo' = HasMongo
    BY EventsStay DEF Answered, HasMongo
<1>2. Shape
    BY DEF BaseInv
<1>3. CASE NextChange \/ SaveChange \/ ItemRaises \/ JobRaises
    BY <1>3, NotEnded
<1>4. CASE SaveDone
    <2>1. /\ Stays("page") /\ Stays("user") /\ call'["job"].at = "commit"
        BY <1>4, CallersAre, DocumentsAre, SaveBegins DEF SaveDone
    <2>2. call["page"].at = "idle" /\ call["user"].at = "idle"
        BY <1>4, CallersAre DEF SaveDone, Quiet, Ended
    <2> QED  BY <2>1, <2>2 DEF AnswersInv, Stays, SaveLabels
<1>5. CASE Stop
    BY <1>1, <1>5 DEF Stop, storeVars, stores, AnswersInv, Ended
<1>6. CASE KillJob
    <2>1. Ended /\ call["job"].at = "idle"
        BY <1>6, KillSteps DEF Ended
    <2> QED  BY <1>1, <1>6, <2>1, KillSteps DEF AnswersInv, Stays
<1>7. CASE Beat
    <2>1. memory["worker"] \in Doc
        BY <1>2, <1>7 DEF Beat, Shape, Processes
    <2>2. /\ Stays("job") /\ Stays("page") /\ Stays("user")
          /\ UNCHANGED <<db, mongo, redis, old>> /\ Ended
        BY <1>7, <2>1, CallersAre, SaveBegins DEF Beat, jobVars, Ended
    <2> QED  BY <1>1, <2>2 DEF AnswersInv, Stays
<1>8. ASSUME NEW w \in {"job", "heartbeat"}, Continue(w)  PROVE AnswersInv'
    <2>1. Ended
        BY <1>8 DEF Continue, jobVars, Ended
    <2> QED  BY <1>1, <1>8, <2>1, AnswersWorker
<1>9. ASSUME NEW w \in Callers, w # "job", Raises(w)  PROVE AnswersInv'
    <2>1. Moved(w, "idle", Absent)
        BY <1>2, <1>9, OverIs DEF Raises
    <2>2. UNCHANGED <<db, mongo, redis, old>> /\ Ended
        BY <1>9 DEF Raises, stores, Ended
    <2>3. /\ Stays("job")
          /\ \A v \in {"page", "user"} : Stays(v) \/ call'[v].at = "idle"
        BY <1>9, <2>1, CallersAre, MovedStays DEF Moved
    <2> QED  BY <1>1, <2>2, <2>3 DEF AnswersInv, Stays, SaveLabels
<1>10. CASE PageStep \/ UserStep
    <2>1. Ended
        BY <1>10, ApiSteps DEF Ended
    <2> QED  BY <1>1, <1>10, <2>1, AnswersPage, AnswersUser
<1>11. CASE Ages
    <2>1. call["page"].at = "idle" /\ UNCHANGED <<db, mongo, redis, call, finished, alone>>
        BY <1>11, CallersAre DEF Ages, Quiet, storeVars, stores
    <2> QED  BY <1>1, <2>1 DEF AnswersInv, Ended
<1> QED
    BY <1>3, <1>4, <1>5, <1>6, <1>7, <1>8, <1>9, <1>10, <1>11, CallersAre DEF Next, JobStep

-----------------------------------------------------------------------------
(* The deleted document.                                                   *)

LEMMA DeletedKept ==
    ASSUME BaseInv, DeletedInv, Next
    PROVE  DeletedInv'
<1> SUFFICES ASSUME deletion' = "alone", "store_error" \notin events'  PROVE DeletedInv'
    BY DEF DeletedInv
<1>1. /\ events' = events /\ "store_error" \notin events /\ HasMongo' = HasMongo
      /\ Shape /\ StoreInv /\ "page" \in Callers /\ "user" \in Callers
    BY EventsStay, CallersAre DEF BaseInv, HasMongo
<1>2. CASE Delete
    <2>1. /\ UNCHANGED <<db, mongo, redis>> /\ memory' = [memory EXCEPT !["api"] = Absent]
          /\ Stays("job") /\ Stays("heartbeat") /\ Stays("page")
          /\ call'["user"].at = IF HasMongo THEN "delete_mongo" ELSE "delete_cache"
        BY <1>2, CallersAre, DeleteBegins DEF Delete
    <2>2. /\ place' = Stopped
          /\ call["job"].at = "idle" /\ call["heartbeat"].at = "idle" /\ call["page"].at = "idle"
        BY <1>2, CallersAre DEF Delete, Quiet
    <2>3. memory'["api"] = Absent
        BY <1>1, <2>1 DEF Shape, Processes
    <2>4. ~HasMongo => mongo = Absent
        BY <1>1 DEF StoreInv
    <2> QED
        BY <2>1, <2>2, <2>3, <2>4 DEF DeletedInv, Deleting, DeleteLabels, Stays
<1>3. CASE ~Delete
    <2>1. deletion = "alone"
        BY <1>3, CallersAre, OnTheWay, KillSteps
        DEF Next, JobStep, NextChange, SaveChange, SaveDone, Stop, ItemRaises, JobRaises, KillJob, Beat, Raises,
            PageStep, Poll, Polled, UserStep, UserCalls, NotFound, SaveDraft, Ages, Continue, jobVars
    <2>2. /\ place = Stopped /\ call["job"].at = "idle" /\ call["heartbeat"].at = "idle"
          /\ Deleting => call["page"].at = "idle"
          /\ memory["api"] = Absent
          /\ call["user"].at # "delete_mongo" => mongo = Absent
          /\ call["user"].at \notin {"delete_mongo", "delete_cache"} => redis = Absent
          /\ ~Deleting =>
               /\ db = Absent
               /\ \A w \in {"page", "user"} :
                    call[w].at \in {"idle", "find", "cached", "select", "return"}
                    /\ call[w].doc = Absent
        BY <1>1, <2>1 DEF DeletedInv
    <2>3. Last \in Nat /\ Stopped = Last + 2 /\ Failing = Last + 1
        BY LastIs DEF Stopped, Failing
    <2>4a. ~ItemRaises
        <3>1. ~InRound(Appends)
            BY <2>2, <2>3, LastIs DEF InRound, Round, SaveLabels
        <3> QED  BY <3>1 DEF ItemRaises
    <2>4. ~ (NextChange \/ SaveChange \/ SaveDone \/ Stop \/ JobRaises \/ KillJob \/ Beat)
        BY <2>2, <2>3 DEF NextChange, SaveChange, Returned, SaveDone, Stop, JobRaises, KillJob, Beat, Running
    <2>5. ~Continue("job") /\ ~Continue("heartbeat") /\ ~Raises("heartbeat")
        BY <2>2, CallersAre, OnTheWay DEF SaveLabels, GetLabels, DeleteLabels, Raises, AtTable
    <2>6. CASE Ages
        BY <1>1, <2>2, <2>6 DEF Ages, storeVars, stores, DeletedInv, Deleting
    <2>7. CASE Raises("page") \/ Raises("user")
        <3>1. PICK w \in {"page", "user"} : Raises(w)
            BY <2>7
        <3>2. call[w].at = "select" \/ call[w].at = "commit"
            BY <2>1, <3>1 DEF Raises, AtTable
        <3>3. ~Deleting
            BY <2>2, <3>1, <3>2 DEF Deleting, DeleteLabels
        <3>4. Moved(w, "idle", Absent) /\ UNCHANGED <<db, mongo, redis, memory, place>>
            BY <1>1, <3>1, OverIs DEF Raises, stores
        <3>5. \A v \in Callers : \/ Stays(v)
                                 \/ call'[v].at = "idle" /\ call'[v].doc = Absent
            BY <3>4, CallersAre, MovedStays, <3>1 DEF Moved
        <3>6. ~Deleting'
            BY <1>1, <3>3, <3>5 DEF Deleting, DeleteLabels, Stays
        <3> QED
            BY <2>2, <3>3, <3>4, <3>5, <3>6, CallersAre DEF DeletedInv, Stays, Deleting, DeleteLabels
    <2>8. CASE PageStep
        <3>1. call["page"].at # "idle" \/ Poll
            BY <1>1, <2>8, OnTheWay DEF PageStep, Polled, Returned, SaveLabels, GetLabels, DeleteLabels
        <3>2. ~Deleting
            BY <2>1, <2>2, <3>1 DEF Poll, Deleting
        <3>3. /\ Stays("job") /\ Stays("heartbeat") /\ Stays("user")
              /\ UNCHANGED <<db, mongo, redis, place>> /\ memory'["api"] = Absent
              /\ call'["page"].at \in {"idle", "find", "cached", "select", "return"}
              /\ call'["page"].doc = Absent
            <4>1. CASE Poll
                BY <1>1, <2>2, <4>1, CallersAre, GetBegins DEF Poll
            <4>2. CASE Polled
                <5>1. Result("page") = Absent
                    BY <2>2, <3>2, CallersAre DEF Result
                <5>2. Return("page") /\ place' = place
                    BY <4>2, <5>1 DEF Polled, Stale, jobVars
                <5> QED  BY <1>1, <5>1, <5>2, CallersAre, Returns DEF Shape, Processes
            <4>3. CASE Continue("page")
                <5>1. call["page"].at \in GetLabels /\ call["page"].at # "fill"
                    BY <1>1, <2>2, <3>2, <4>3, OnTheWay DEF SaveLabels, GetLabels, DeleteLabels
                <5> QED
                    BY <1>1, <2>2, <3>2, <4>3, <5>1, CallersAre, GetSteps DEF Deleting, DeleteLabels
            <4> QED  BY <2>8, <4>1, <4>2, <4>3 DEF PageStep
        <3> QED
            BY <2>2, <3>2, <3>3 DEF DeletedInv, Stays, Deleting
    <2>9. CASE UserStep
        <3>1. CASE Deleting
            <4>1. Continue("user")
                BY <1>3, <2>9, <3>1
                DEF UserStep, UserCalls, NotFound, Return, SaveDraft, Returned, Deleting, DeleteLabels
            <4>2. /\ UNCHANGED <<memory, place>>
                  /\ Stays("job") /\ Stays("heartbeat") /\ Stays("page")
                  /\ call'["user"].doc = Absent
                  /\ \/ /\ call["user"].at = "delete_mongo" /\ mongo' = Absent
                        /\ call'["user"].at = "delete_cache"
                     \/ /\ call["user"].at = "delete_cache" /\ mongo' = mongo /\ redis' = Absent
                        /\ call'["user"].at = "delete_row"
                     \/ /\ call["user"].at = "delete_row" /\ UNCHANGED <<mongo, redis>>
                        /\ db' = Absent /\ call'["user"].at = "idle"
                BY <1>1, <3>1, <4>1, CallersAre, DeleteSteps DEF Deleting
            <4>3. call["page"].at = "idle" /\ call["page"].doc = Absent
                BY <1>1, <2>2, <3>1 DEF StoreInv
            <4> QED
                BY <2>2, <4>2, <4>3 DEF DeletedInv, Stays, Deleting, DeleteLabels
        <3>2. CASE ~Deleting
            <4>1. /\ Stays("job") /\ Stays("heartbeat") /\ Stays("page")
                  /\ UNCHANGED <<db, mongo, redis, place>> /\ memory'["api"] = Absent
                  /\ call'["user"].at \in {"idle", "find", "cached", "select", "return"}
                  /\ call'["user"].doc = Absent
                <5>1. Result("user") = Absent
                    BY <2>2, <3>2, CallersAre DEF Result
                <5>2. CASE UserCalls
                    BY <1>1, <2>2, <5>2, CallersAre, GetBegins DEF UserCalls
                <5>3. CASE NotFound
                    BY <1>1, <5>1, <5>3, CallersAre, Returns DEF NotFound, Shape, Processes, jobVars
                <5>4. CASE SaveDraft
                    BY <5>1, <5>4 DEF SaveDraft
                <5>5. CASE Continue("user")
                    <6>1. call["user"].at \in GetLabels /\ call["user"].at # "fill"
                        BY <1>1, <2>2, <3>2, <5>5, OnTheWay DEF SaveLabels, GetLabels, DeleteLabels
                    <6> QED
                        BY <1>1, <2>2, <3>2, <5>5, <6>1, CallersAre, GetSteps DEF Deleting, DeleteLabels
                <5> QED  BY <1>3, <2>9, <5>2, <5>3, <5>4, <5>5 DEF UserStep
            <4> QED
                BY <2>2, <3>2, <4>1 DEF DeletedInv, Stays, Deleting, DeleteLabels
        <3> QED  BY <3>1, <3>2
    <2> QED
        BY <1>3, <2>4, <2>4a, <2>5, <2>6, <2>7, <2>8, <2>9, CallersAre DEF Next, JobStep
<1> QED
    BY <1>2, <1>3

-----------------------------------------------------------------------------
LEMMA PrepareHolds == Init => PrepareInv
<1> SUFFICES ASSUME Init  PROVE PrepareInv
    OBVIOUS
<1>1. ~finished /\ deletion = "none" /\ db = Queued
    BY DEF Init, StoreInit
<1>2. \A w \in Callers : call[w].at = "idle"
    BY DEF Init, StoreInit, Idle
<1>3. WorkerInv /\ AnswersInv /\ DeletedInv
    BY <1>1 DEF WorkerInv, AnswersInv, DeletedInv, Ended
<1>4. RowInv
    BY <1>1, <1>2, CallersAre DEF RowInv, Ended
<1> QED
    BY <1>3, <1>4, BaseHolds DEF PrepareInv, PreparedInv

LEMMA PrepareKept ==
    ASSUME PrepareInv, [Next]_vars
    PROVE  PrepareInv'
<1>1. BaseInv'
    BY BaseKept DEF PrepareInv
<1>2. CASE UNCHANGED vars
    BY <1>1, <1>2
    DEF vars, storeVars, stores, PrepareInv, PreparedInv, WorkerInv, AnswersInv, RowInv, DeletedInv,
        Ended, Saves, Answered, Unwatched, HasMongo, Deleting
<1>3. CASE Next
    BY <1>1, <1>3, WorkerKept, AnswersKept, RowKept, DeletedKept DEF PrepareInv, PreparedInv
<1> QED
    BY <1>2, <1>3

THEOREM PrepareInvariant == Spec => []PrepareInv
<1> QED
    BY PrepareHolds, PrepareKept, PTL DEF Spec

\* A prepared task is taken back by no call but one that overlaps the last save
\* of the job: not by a heartbeat that begins during it, nor by a poll or an
\* edit that begins after it.  Where the job and its heartbeat are alone, the
\* row keeps it even if MongoDB and Redis fail.
THEOREM PreparedStays == Spec => []PreparedUnlessOverlapped
<1>1. PrepareInv => PreparedUnlessOverlapped
    <2> SUFFICES ASSUME PrepareInv, alone, "deletes" \notin events,
                        finished, place = Stopped, Quiet(Callers)
                 PROVE  /\ "store_error" \notin events => Readable = PreparedDoc
                        /\ events \cap {"polls", "edits"} = {} => db = PreparedDoc
        BY DEF PreparedUnlessOverlapped, PreparedIsKept
    <2>1. Ended /\ call["job"].at = "idle"
        BY CallersAre DEF Ended, Quiet
    <2>2. ASSUME "store_error" \notin events  PROVE Readable = PreparedDoc
        <3>1. Answered
            BY <2>2 DEF Answered
        <3>2. redis = PreparedDoc /\ (HasMongo => mongo = PreparedDoc)
            BY <2>1, <3>1 DEF PrepareInv, PreparedInv, AnswersInv
        <3>3. ~HasMongo => mongo = Absent
            BY DEF PrepareInv, BaseInv, StoreInv
        <3>4. PreparedDoc # Absent
            BY DocumentsAre, NoDocument
        <3> QED  BY <3>2, <3>3, <3>4 DEF Readable
    <2>3. ASSUME events \cap {"polls", "edits"} = {}  PROVE db = PreparedDoc
        <3>1. Unwatched
            BY <2>3 DEF Unwatched
        <3> QED  BY <2>1, <3>1 DEF PrepareInv, PreparedInv, RowInv
    <2> QED  BY <2>2, <2>3
<1> QED
    BY <1>1, PrepareInvariant, PTL

\* What a deletion that no other call meets has removed comes back from no
\* store and from no memory, whoever looks for it afterwards.
THEOREM DeletedStaysGone == Spec => []DeletedIsGone
<1>1. PrepareInv => DeletedIsGone
    <2> SUFFICES ASSUME PrepareInv, deletion = "alone", call["user"].at \notin DeleteLabels,
                        "store_error" \notin events
                 PROVE  Readable = Absent
        BY DEF DeletedIsGone
    <2> QED
        BY DEF PrepareInv, DeletedInv, Deleting, Readable, DeleteLabels
<1> QED
    BY <1>1, PrepareInvariant, PTL

=============================================================================

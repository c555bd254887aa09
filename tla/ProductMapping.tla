--------------------------- MODULE ProductMapping ---------------------------
(***************************************************************************)
(* From a factory's products to prepared ones: the concurrent pipeline      *)
(* _build_factory_prepared_products (app/api/routes/products.py) over       *)
(* ProductMapper.payload_deploy, and the content that                       *)
(* enrich_after_category_approval makes for one product                     *)
(* (app/mapper/product_mapper.py).                                         *)
(***************************************************************************)
EXTENDS Scenes, Places, Integers, Sequences, SequencesExt, FiniteSets

CONSTANTS
    SourceEans,     \* the products of the factory: a sequence of EANs, or Unknown
    Malformed,      \* positions of products without CustomItemSpecifics
    MapSlots,       \* PRODUCT_AI_CONCURRENCY
    NormalizeSlots, \* FACTORY_PRODUCT_CONCURRENCY
    Contents,       \* products to enrich: name -> [category, farbe, direct, options]:
                    \* farbe a sequence of colours, direct one of [name, values],
                    \* options one of [name, colour, allowed]
    GeneratedAttrs, \* what the model may answer: sequences of [name, values]
    Unknown         \* None or ""

\* A product may come without an EAN, and a category without attributes; OTTO names
\* each attribute of a category once, and a measure that is known has a value.
ASSUME MappingAssumption ==
    /\ SourceEans \in Seq(ToSet(SourceEans)) /\ "AUTO-EAN" # Unknown /\ MapSlots \in Nat
    /\ DOMAIN Contents # {}
    /\ \A of \in DOMAIN Contents : LET subject == Contents[of] IN
          /\ subject.farbe \in Seq(STRING)
          /\ subject.direct \in Seq([name : STRING, values : Seq(STRING)])
          /\ \A n \in DOMAIN subject.direct : subject.direct[n].values # <<>>
          /\ subject.options \in Seq([name : STRING, colour : BOOLEAN, allowed : SUBSET STRING])
          /\ \A m, n \in DOMAIN subject.options :
                subject.options[m].name = subject.options[n].name => m = n
    /\ \A generated \in GeneratedAttrs : generated \in Seq([name : STRING, values : Seq(STRING)])

VARIABLES
    mapAt,          \* "fetch", "describe", "contexts", "mapping", "retry", "ended", "raised"
    items,          \* per product: "waiting", "mapping", "mapped", "normalizing",
                    \* "publishing", "over" or "cancelled"
    mapped,         \* items_by_index: the products that the mapper is done with
    results,        \* normalized_results: position -> EAN or Unknown
    published,      \* the order in which products were given to the task
    notes,          \* issues: the positions they name
    progressed,     \* calls of mapping_progress_callback
    payload,        \* products_payload
    content         \* [of, at, bullets, attributes, product]

mappingVars == <<mapAt, items, mapped, results, published, notes, progressed, payload>>
productVars == <<mappingVars, content>>

Positions == DOMAIN SourceEans
At(state) == {n \in Positions : items[n] = state}
Becomes(n, state) == items' = [items EXCEPT ![n] = state]

-----------------------------------------------------------------------------
(* Each step has a timeout; only the descriptions may be missing.          *)

MapGoes(from, to) ==
    /\ mapAt = from /\ mapAt' = to
    /\ UNCHANGED <<items, mapped, results, published, notes, progressed, payload>>

FetchSource == MapGoes("fetch", "describe")
FetchFails == May("afterbuy_fails") /\ MapGoes("fetch", "raised")
Describe == MapGoes("describe", "contexts")
LoadContexts == MapGoes("contexts", "mapping")
ContextsFail == May("database_fails") /\ MapGoes("contexts", "raised")

-----------------------------------------------------------------------------
(* payload_deploy, one task for each product.                              *)

\* A seeded fault: a product that failed keeps its slot.
HoldsSlotFor(n) == items[n] = "mapping" \/ n \in notes

\* Seeded fault: the model is called outside the semaphore.
HoldsNone(n) == FALSE

\* The semaphore is held while the model is asked.
HoldsSlot(n) == items[n] = "mapping"

\* prepare_cis, before the try: None is not parsed.  gather raises at once; what
\* the others do goes on.
MalformedRaises(n) ==
    /\ mapAt = "mapping" /\ items[n] = "waiting" /\ n \in Malformed /\ May("malformed")
    /\ Becomes(n, "over") /\ mapAt' = "raised"
    /\ UNCHANGED <<mapped, results, published, notes, progressed, payload>>

AskModel(n) ==
    /\ mapAt = "mapping" \/ (mapAt = "raised" /\ May("malformed"))
    /\ items[n] = "waiting"
    /\ n \notin Malformed \/ ~May("malformed")
    /\ Cardinality({m \in Positions : HoldsSlot(m)}) < MapSlots
    /\ Becomes(n, "mapping")
    /\ UNCHANGED <<mapAt, mapped, results, published, notes, progressed, payload>>

ModelAnswers(n) ==
    /\ items[n] = "mapping" /\ Becomes(n, "mapped") /\ mapped' = mapped \cup {n}
    /\ UNCHANGED <<mapAt, results, published, notes, progressed, payload>>

\* A seeded fault: the callback is called for products that were mapped.
CountedIfMapped(n) == IF n \in mapped THEN 1 ELSE 0

\* on_item_finished, in the finally clause
Counted(n) == 1

FinishedItem(n) ==
    /\ Becomes(n, "over")
    /\ progressed' = progressed + IF mapAt = "retry" THEN 0 ELSE Counted(n)

ModelFails(n) ==
    /\ May("model_fails") /\ items[n] = "mapping" /\ FinishedItem(n)
    /\ notes' = notes \cup {n}
    /\ UNCHANGED <<mapAt, mapped, results, published, payload>>

-----------------------------------------------------------------------------
(* _build_and_publish_normalized_one                                       *)

NormalizeItem(n) ==
    /\ items[n] = "mapped"
    /\ Cardinality(At("normalizing")) < NormalizeSlots
    /\ Becomes(n, "normalizing")
    /\ UNCHANGED <<mapAt, mapped, results, published, notes, progressed, payload>>

\* _ensure_product_identity: a product that brings no EAN gets one of its position.
IdentityOf(n) == IF SourceEans[n] # Unknown THEN SourceEans[n] ELSE "AUTO-EAN"

NormalizedItem(n) ==
    /\ items[n] = "normalizing" /\ Becomes(n, "publishing")
    /\ results' = [results EXCEPT ![n] = IdentityOf(n)]
    /\ UNCHANGED <<mapAt, mapped, published, notes, progressed, payload>>

\* A seeded fault: the handler logs, and notes nothing.
NotedNowhere(n) == {}

NotedAt(n) == {n}

NormalizeFails(n) ==
    /\ May("normalizes_badly") /\ items[n] = "normalizing" /\ FinishedItem(n)
    /\ notes' = notes \cup NotedAt(n)
    /\ UNCHANGED <<mapAt, mapped, results, published, payload>>

PublishItem(n) ==
    /\ items[n] = "publishing" /\ FinishedItem(n)
    /\ published' = Append(published, n)
    /\ UNCHANGED <<mapAt, mapped, results, notes, payload>>

\* The result stays, so nothing publishes it again.
PublishFails(n) ==
    /\ May("save_fails") /\ items[n] = "publishing" /\ FinishedItem(n)
    /\ notes' = notes \cup NotedAt(n)
    /\ UNCHANGED <<mapAt, mapped, results, published, payload>>

\* A seeded fault: the step is given up, and its tasks go on.
CancelledNot(n) == items[n]

Cancelled(n) == IF items[n] = "over" THEN "over" ELSE "cancelled"

\* wait_for cancels the gather, and with it every task.
MapTimesOut ==
    /\ May("slow") /\ mapAt = "mapping" /\ mapAt' = "raised"
    /\ items' = [n \in Positions |-> Cancelled(n)]
    /\ UNCHANGED <<mapped, results, published, notes, progressed, payload>>

\* Products that were mapped and not normalized are tried a second time.
RetryItems ==
    /\ mapAt = "mapping" /\ At("over") = Positions
    /\ mapAt' = "retry"
    /\ items' = [n \in Positions |-> IF n \in mapped /\ results[n] = Unknown THEN "mapped" ELSE "over"]
    /\ UNCHANGED <<mapped, results, published, notes, progressed, payload>>

\* A seeded fault: the products are taken as they came.
AsTheyCame == SelectSeq(published, LAMBDA n : results[n] # Unknown)

InOrder == Picked([n \in Positions |-> n], {n \in Positions : results[n] # Unknown})

BuildPayload ==
    /\ mapAt = "retry" /\ At("over") = Positions
    /\ mapAt' = "ended" /\ payload' = InOrder
    /\ UNCHANGED <<items, mapped, results, published, notes, progressed>>

-----------------------------------------------------------------------------
(* enrich_after_category_approval                                          *)

Subject == Contents[content.of]

NamesIn(attributes) == {a.name : a \in ToSet(attributes)}

ContentGoes(from, to) == content.at = from /\ content' = [content EXCEPT !.at = to]

\* A product without a category is given back as it is.
WithoutCategory == Subject.category = Unknown /\ ContentGoes("begin", "ended")

MakeBullets ==
    /\ content.at = "begin" /\ Subject.category # Unknown
    /\ content' = [content EXCEPT !.at = "attributes", !.bullets = "new"]

BulletsFail == May("model_fails") /\ Subject.category # Unknown /\ ContentGoes("begin", "raised")

\* The model is not asked if the measures cover what OTTO wants.
NothingToAsk ==
    Subject.options = <<>> \/ {o.name : o \in ToSet(Subject.options)} \subseteq NamesIn(Subject.direct)

\* An answer that fails is left out; the measures stay.
MakeAttributes ==
    /\ content.at = "attributes"
    /\ \E generated \in IF NothingToAsk THEN {<<>>}
                        ELSE GeneratedAttrs \cup (IF May("attributes_fail") THEN {<<>>} ELSE {}) :
          content' = [content EXCEPT !.at = "description", !.attributes =
                        Subject.direct \o
                        Picked(generated, {n \in DOMAIN generated : generated[n].values # <<>>})]

\* A seeded fault: the colour is set whatever the attribute has.
HasNoValue(attributes, name) == FALSE

HasValue(attributes, name) == \E a \in ToSet(attributes) : a.name = name /\ a.values # <<>>

AllowedColours(option, colours) ==
    IF option.allowed = {} THEN colours
    ELSE Picked(colours, {n \in DOMAIN colours : colours[n] \in option.allowed})

\* _autofill_color_attributes: what parts of the product have a colour get that of
\* "Farbe", the attribute or else the source.
ColoursOf(attributes) ==
    LET at == {n \in DOMAIN attributes : attributes[n].name = "farbe"}
    IN  IF at = {} THEN Subject.farbe ELSE attributes[CHOOSE n \in at : \A m \in at : m <= n].values

WithPrimary(attributes) ==
    IF "farbe" \in NamesIn(attributes) \/ Subject.farbe = <<>> THEN attributes
    ELSE Append(attributes, [name |-> "farbe", values |-> Subject.farbe])

WithColour(done, option, primary) ==
    LET colours == AllowedColours(option, primary)
    IN  IF ~option.colour \/ HasValue(done, option.name) \/ colours = <<>> THEN done
        ELSE Append(done, [name |-> option.name, values |-> colours])

Autofilled(attributes) ==
    LET primary == ColoursOf(attributes)
        after[n \in 0 .. Len(Subject.options)] ==
            IF n = 0 THEN WithPrimary(attributes)
            ELSE WithColour(after[n - 1], Subject.options[n], primary)
    IN  IF primary = <<>> THEN attributes ELSE after[Len(Subject.options)]

\* A seeded fault: the bullet points are kept whatever comes after.
BulletsOnError(product) == [product EXCEPT !.bullets = "new"]

\* The product is a copy until all parts are there.
OnError(product) == product

MakeDescription ==
    /\ content.at = "description"
    /\ content' = [content EXCEPT !.at = "ended", !.product =
            [bullets |-> content.bullets, description |-> "new",
             attributes |-> Autofilled(content.attributes)]]

DescriptionFails ==
    /\ May("model_fails") /\ content.at = "description"
    /\ content' = [content EXCEPT !.at = "raised", !.product = OnError(@)]

-----------------------------------------------------------------------------
Untouched == [bullets |-> "old", description |-> "old", attributes |-> <<>>]

ProductInit ==
    /\ mapAt = "fetch" /\ items = [n \in Positions |-> "waiting"] /\ mapped = {}
    /\ results = [n \in Positions |-> Unknown] /\ published = <<>> /\ notes = {}
    /\ progressed = 0 /\ payload = <<>>
    /\ \E of \in DOMAIN Contents :
        /\ Plays("content") \/ of = CHOOSE any \in DOMAIN Contents : TRUE
        /\ content = [of |-> of, at |-> "begin", bullets |-> "none", attributes |-> <<>>,
                      product |-> Untouched]

ItemStep(n) ==
    \/ AskModel(n) \/ ModelAnswers(n) \/ ModelFails(n) \/ NormalizeItem(n)
    \/ NormalizedItem(n) \/ NormalizeFails(n) \/ PublishItem(n) \/ PublishFails(n)

MappingStep ==
    \/ FetchSource \/ FetchFails \/ Describe \/ LoadContexts \/ ContextsFail
    \/ MapTimesOut \/ RetryItems \/ BuildPayload
    \/ \E n \in Positions : MalformedRaises(n) \/ ItemStep(n)

ContentStep ==
    \/ WithoutCategory \/ MakeBullets \/ BulletsFail \/ MakeAttributes
    \/ MakeDescription \/ DescriptionFails

ProductNext ==
    /\ UNCHANGED scene
    /\ \/ Plays("mapping") /\ MappingStep /\ UNCHANGED content
       \/ Plays("content") /\ ContentStep /\ UNCHANGED mappingVars

\* Every call has a timeout, so each step of a task is followed by another.
ProductFairness == WF_mappingVars(Plays("mapping") /\ MappingStep)

-----------------------------------------------------------------------------
(* Properties.                                                             *)

\* A preparation that ends has each product among its results, or an issue that names
\* its position: none is lost between the mapper, the first try and the second.
EachIsPreparedOrNoted ==
    mapAt = "ended" => \A n \in Positions :
        /\ n \in ToSet(payload) \/ n \in notes
        /\ n \in ToSet(payload) => n \in ToSet(published) \/ n \in notes

\* The prepared products are in the order of the factory, in which the clones of the
\* other account are found, whatever the order in which the model answered.
PayloadInSourceOrder == \A i, j \in DOMAIN payload : i < j => payload[i] < payload[j]

\* When all products are through the mapper, the progress shown is the total, also
\* when some have failed.
ProgressReachesTotal == mapAt \in {"retry", "ended"} => progressed = Len(SourceEans)

\* After the preparation has failed no product is added to the task; a product without
\* CustomItemSpecifics is the exception: the others then go on unattended.
NothingAfterFailure ==
    [][mapAt = "raised" /\ ~May("malformed") => published' = published]_productVars

\* The preparation ends, in a payload or an error.
MappingEnds == Plays("mapping") ~> mapAt \in {"ended", "raised"}

\* Texts and attributes of a product change together or not at all.
ContentIsWhole ==
    /\ content.at = "raised" => content.product = Untouched
    /\ content.at = "ended" /\ content.product # Untouched =>
          content.product.bullets = "new" /\ content.product.description = "new"

\* The colour of the product is given to its parts as far as OTTO allows it there, and
\* only where nothing else is said; no attribute is named twice by it.
ColoursAreAllowed ==
    content.at = "ended" =>
        LET final == content.product.attributes
            Given(n) == n > Len(content.attributes) /\ final[n].name # "farbe"
        IN  \A n \in DOMAIN final : Given(n) =>
                /\ \A m \in DOMAIN final : m # n => final[m].name # final[n].name
                /\ final[n].values # <<>>
                /\ \A option \in ToSet(Subject.options) : option.name = final[n].name =>
                      option.allowed = {} \/ ToSet(final[n].values) \subseteq option.allowed

ProductTypeOK ==
    /\ mapAt \in {"fetch", "describe", "contexts", "mapping", "retry", "ended", "raised"}
    /\ \A n \in Positions : results[n] # Unknown => n \in mapped
    /\ Cardinality(At("mapping")) <= MapSlots
=============================================================================

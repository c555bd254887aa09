----------------------------- MODULE Variations -----------------------------
(***************************************************************************)
(* The variation matrix of a product (app/services/                         *)
(* product_variation_logic.py and the data side of                          *)
(* product_variant_service.py): which combinations of attribute values a    *)
(* product has, what a preview promises of the generation that follows it,   *)
(* which identifiers a row may take, and how the variants of a submitted     *)
(* product become payloads of their own.                                    *)
(***************************************************************************)
EXTENDS Scenes, Places, Integers, Sequences, SequencesExt, FiniteSets

CONSTANTS
    Normal,         \* normalize_variation_value: value -> its normalized form
    Themes,         \* the supported variation themes of the category, by name
    AttributeRows,  \* versions of the product's attributes: sequences of [name, values]
    Own,            \* the product's [ean, sku]
    Taken,          \* EANs of other products
    Updates,        \* edits of the user: name -> [row, ean]
    MaxRows,        \* bound: rows of the product
    Exports,        \* submissions: name -> sequence of products, see Payload
    PoolEans,       \* the EANs left in the pool, in order
    StoredEans,     \* EANs of local products and active variants
    NoValue         \* None or ""

ValueChoices == [id : STRING, name : STRING, value : STRING]
Links == [kind : STRING, name : STRING]
VariantRecords ==
    [active : BOOLEAN, ean : STRING, price : STRING, choice : Seq(ValueChoices), media : Seq(Links)]

\* What the tables hold; the constants are not restricted otherwise.
ASSUME VariationAssumption ==
    /\ AttributeRows \in Seq(Seq([name : STRING, values : Seq(DOMAIN Normal)])) /\ AttributeRows # <<>>
    /\ Themes \in Seq(STRING)
    /\ NoValue \in STRING /\ Own.ean \in STRING
    /\ \A u \in DOMAIN Updates : Updates[u].ean \in STRING
    /\ \A of \in DOMAIN Exports : Exports[of] \in
          Seq([reference : STRING, ean : STRING, price : STRING, values : Seq(ValueChoices), media : Seq(Links),
               variants : Seq(VariantRecords)])
    /\ PoolEans \in Seq(STRING \ {NoValue})

VARIABLES
    version,        \* the product's attributes are AttributeRows[version]
    matrix,         \* product_variants of the product: sequence of
                    \* [key, source, ean, deleted]
    previewed,      \* [new, stale] of the last preview
    updateAt,       \* per update: "idle", "checked" or "answered"
    export,         \* [of, at, products, reserved, skipped, payloads]
    outcome         \* of the last generation: [at, created]

variationVars == <<version, matrix, previewed, updateAt, export, outcome>>

-----------------------------------------------------------------------------
(* _load_variation_dimensions                                              *)

\* split_attribute_values: the first of the values that are normalized alike.
SplitValues(values) ==
    Picked(values, {n \in DOMAIN values : \A m \in 1 .. n - 1 : Normal[values[m]] # Normal[values[n]]})

\* Rows of one name are put together; only equal values are dropped.
ValuesOf(name) ==
    LET rows == AttributeRows[version]
        all  == FlattenSeq([n \in DOMAIN rows |->
                    IF rows[n].name = name THEN SplitValues(rows[n].values) ELSE <<>>])
    IN  Picked(all, {n \in DOMAIN all : \A m \in 1 .. n - 1 : all[m] # all[n]})

Dimensions == Picked(Themes, {n \in DOMAIN Themes : ValuesOf(Themes[n]) # <<>>})

\* A seeded fault: the values are taken as they are written.
KeyAsWritten(choice) == choice

\* build_combination_key, whatever the order of the attributes.
KeyOfChoice(choice) == [name \in DOMAIN choice |-> Normal[choice[name]]]

\* Each choice goes on with each of the values.
Spread(choices, name) ==
    FlattenSeq([n \in DOMAIN choices |->
        [m \in DOMAIN ValuesOf(name) |->
            [x \in DOMAIN choices[n] \cup {name} |->
                IF x = name THEN ValuesOf(name)[m] ELSE choices[n][x]]]])

\* build_variant_combinations: the last dimension runs fastest.
Combined ==
    LET choices[d \in 0 .. Len(Dimensions)] ==
            IF d = 0 THEN <<[x \in {} |-> NoValue]>> ELSE Spread(choices[d - 1], Dimensions[d])
    IN  IF Dimensions = <<>> THEN <<>> ELSE choices[Len(Dimensions)]

Keys == [n \in DOMAIN Combined |-> KeyOfChoice(Combined[n])]

SourceKey == KeyOfChoice([name \in ToSet(Dimensions) |-> ValuesOf(name)[1]])

ActiveRows == {n \in DOMAIN matrix : ~matrix[n].deleted}
ActiveKeys == {matrix[n].key : n \in ActiveRows}

\* A seeded fault: the source is counted when it has no row yet.
NewKeysWithSource == ToSet(Keys) \ ActiveKeys

\* preview_variant_generation: the source counts as existing.
NewKeys == ToSet(Keys) \ (ActiveKeys \cup {SourceKey})

-----------------------------------------------------------------------------
(* The routes preview, generate, update and delete.                        *)

PreviewVariants ==
    /\ May("previews") /\ Dimensions # <<>> /\ previewed.stale
    /\ previewed' = [new |-> Cardinality(NewKeys), stale |-> FALSE]
    /\ UNCHANGED <<version, matrix, updateAt, export, outcome>>

\* The first of each missing key; a row is known as soon as it is added.
MissingKeys ==
    Picked(Keys, {n \in DOMAIN Keys :
        Keys[n] \notin ActiveKeys /\ \A m \in 1 .. n - 1 : Keys[m] # Keys[n]})

RowFor(key) ==
    [key |-> key, source |-> key = SourceKey, deleted |-> FALSE,
     ean |-> IF key = SourceKey THEN Own.ean ELSE NoValue]

\* A seeded fault: there is no unique index on the EANs.
MayTakeAny(ean, n) == TRUE

\* uq_product_variants_ean_active
MayTake(ean, n) == ean # NoValue => \A m \in ActiveRows \ {n} : matrix[m].ean # ean

\* The source's EAN may be that of an older source row: then nothing is inserted.
GenerateMatrix ==
    /\ Dimensions # <<>>
    /\ Len(matrix) + Len(MissingKeys) <= MaxRows
    /\ outcome.at = "ready"
    /\ LET rows == [n \in DOMAIN MissingKeys |-> RowFor(MissingKeys[n])]
       IN  IF \A n \in DOMAIN rows : MayTake(rows[n].ean, 0)
           THEN /\ matrix' = matrix \o rows
                /\ outcome' = [at |-> "generated",
                               created |-> Cardinality({n \in DOMAIN rows : ~rows[n].source})]
           ELSE outcome' = [at |-> "raised", created |-> 0] /\ UNCHANGED matrix
    /\ previewed' = [previewed EXCEPT !.stale = TRUE]
    /\ UNCHANGED <<version, updateAt, export>>

DeleteRow(n) ==
    /\ May("deletes") /\ n \in ActiveRows
    /\ matrix' = [matrix EXCEPT ![n].deleted = TRUE]
    /\ previewed' = [previewed EXCEPT !.stale = TRUE]
    /\ outcome' = [outcome EXCEPT !.at = "ready"]
    /\ UNCHANGED <<version, updateAt, export>>

\* The attributes are filled or edited.
EditAttributes ==
    /\ May("edits") /\ version < Len(AttributeRows)
    /\ version' = version + 1
    /\ previewed' = [previewed EXCEPT !.stale = TRUE]
    /\ outcome' = [outcome EXCEPT !.at = "ready"]
    /\ UNCHANGED <<matrix, updateAt, export>>

\* _ensure_identifier_unique
IsFree(ean, n) == MayTake(ean, n) /\ ean \notin Taken

CheckIdentifier(u) ==
    /\ May(u) /\ updateAt[u] = "idle" /\ Updates[u].row \in ActiveRows
    /\ updateAt' = [updateAt EXCEPT ![u] = IF IsFree(Updates[u].ean, Updates[u].row)
                                           THEN "checked" ELSE "answered"]
    /\ UNCHANGED <<version, matrix, previewed, export, outcome>>

\* What was free may be taken now: the index refuses it.
CommitIdentifier(u) ==
    /\ updateAt[u] = "checked"
    /\ updateAt' = [updateAt EXCEPT ![u] = "answered"]
    /\ matrix' = IF MayTake(Updates[u].ean, Updates[u].row) /\ ~matrix[Updates[u].row].deleted
                 THEN [matrix EXCEPT ![Updates[u].row].ean = Updates[u].ean] ELSE matrix
    /\ UNCHANGED <<version, previewed, export, outcome>>

-----------------------------------------------------------------------------
(* The payloads of a submission.  A product is [reference, ean, price,       *)
(* values, media, variants], where values is a sequence of [id, name, value]; *)
(* a variant is [active, ean, price, choice, media].                        *)

ActiveVariants(product) ==
    Picked(product.variants, {n \in DOMAIN product.variants : product.variants[n].active})

\* _fill_missing_variant_eans_from_pool: the variants without an EAN, in order.
Lacking(products) == UNION {{<<p, n>> : n \in {m \in DOMAIN products[p].variants :
        products[p].variants[m].active /\ products[p].variants[m].ean = NoValue}} : p \in DOMAIN products}

LackingBefore(products, p, n) ==
    {place \in Lacking(products) : place[1] < p \/ (place[1] = p /\ place[2] < n)}

Filled(products) ==
    [p \in DOMAIN products |-> [products[p] EXCEPT !.variants =
        [n \in DOMAIN @ |-> IF <<p, n>> \in Lacking(products)
                            THEN [@[n] EXCEPT !.ean = PoolEans[Cardinality(LackingBefore(products, p, n)) + 1]]
                            ELSE @[n]]]]

\* _apply_combination_to_product: by the id of the attribute, else by its name.
Chosen(item, choice) ==
    LET byId   == {c \in ToSet(choice) : c.id = item.id}
        byName == {c \in ToSet(choice) : c.name = item.name}
    IN  CASE byId # {} -> [item EXCEPT !.value = (CHOOSE c \in byId : TRUE).value]
          [] byId = {} /\ byName # {} -> [item EXCEPT !.value = (CHOOSE c \in byName : TRUE).value]
          [] OTHER -> item

\* What of the media can be reached from outside: absolute links, and, if the base is
\* told, links from the root.
External(media) ==
    Picked(media, {n \in DOMAIN media :
        media[n].kind = "absolute" \/ (media[n].kind = "rooted" /\ May("base"))})

\* A seeded fault: the copy is shared, and the next variant finds what this one left.
BaseShared(product, previous) == previous

\* latest_base_payload is copied for each variant.
BaseOf(product, previous) == product

VariantPayload(product, base, v) ==
    LET media == External(v.media)
    IN  [reference |-> product.reference,
         ean    |-> IF v.ean # NoValue THEN v.ean ELSE base.ean,
         price  |-> IF v.price # NoValue THEN v.price ELSE base.price,
         values |-> [n \in DOMAIN base.values |-> Chosen(base.values[n], v.choice)],
         media  |-> IF media # <<>> THEN media
                    ELSE IF External(product.media) # <<>> THEN External(product.media) ELSE base.media]

Plain(product) ==
    [reference |-> product.reference, ean |-> product.ean, price |-> product.price,
     values |-> product.values, media |-> product.media]

\* expand_product_variants_for_otto
Expand(product) ==
    LET variants == ActiveVariants(product)
        payload[n \in DOMAIN variants] ==
            VariantPayload(product,
                BaseOf(Plain(product), IF n = 1 THEN Plain(product) ELSE payload[n - 1]), variants[n])
    IN  IF variants = <<>> THEN <<Plain(product)>> ELSE payload

ExpandAll(products) == FlattenSeq([p \in DOMAIN products |-> Expand(products[p])])

WithVariants(products) == Picked(products, {p \in DOMAIN products : ActiveVariants(products[p]) # <<>>})

EansOf(payloads) == {payloads[n].ean : n \in DOMAIN payloads}

\* A seeded fault: each product is looked at by itself.
UniqueInEach(products) ==
    \A p \in DOMAIN products :
        Cardinality(EansOf(Expand(products[p]))) = Len(Expand(products[p]))

\* validate_variant_export_identifiers (a SKU goes the way of an EAN)
UniqueInAll(products) ==
    /\ NoValue \notin EansOf(ExpandAll(products))
    /\ Cardinality(EansOf(ExpandAll(products))) = Len(ExpandAll(products))

ExportGoes(from, to) ==
    /\ export.at = from /\ export' = [export EXCEPT !.at = to]
    /\ UNCHANGED <<version, matrix, previewed, updateAt, outcome>>

FillEans ==
    /\ export.at = "fill"
    /\ LET needed == Cardinality(Lacking(export.products))
       IN  export' = IF needed <= Len(PoolEans)
                     THEN [export EXCEPT !.at = "validate", !.products = Filled(@), !.reserved = needed]
                     ELSE [export EXCEPT !.at = "raised"]
    /\ UNCHANGED <<version, matrix, previewed, updateAt, outcome>>

ValidateVariants ==
    IF UniqueInAll(WithVariants(export.products)) THEN ExportGoes("validate", "conflicts")
    ELSE ExportGoes("validate", "refused")

\* find_identifier_conflicts; if the lookup fails, it is skipped.
FindConflicts ==
    /\ export.at = "conflicts"
    /\ \/ /\ EansOf(ExpandAll(WithVariants(export.products))) \cap StoredEans = {}
          /\ export' = [export EXCEPT !.at = "ended", !.payloads = ExpandAll(export.products)]
       \/ /\ EansOf(ExpandAll(WithVariants(export.products))) \cap StoredEans # {}
          /\ export' = [export EXCEPT !.at = "refused"]
       \/ /\ May("lookup_fails")
          /\ export' = [export EXCEPT !.at = "ended", !.payloads = ExpandAll(export.products),
                                      !.skipped = TRUE]
    /\ UNCHANGED <<version, matrix, previewed, updateAt, outcome>>

-----------------------------------------------------------------------------
VariationInit ==
    /\ version = 1 /\ matrix = <<>> /\ previewed = [new |-> 0, stale |-> TRUE]
    /\ updateAt = [u \in DOMAIN Updates |-> "idle"]
    /\ outcome = [at |-> "ready", created |-> 0]
    /\ \E of \in DOMAIN Exports :
          /\ Plays("export") \/ of = CHOOSE any \in DOMAIN Exports : TRUE
          /\ export = [of |-> of, at |-> "fill", products |-> Exports[of], reserved |-> 0,
                    skipped |-> FALSE, payloads |-> <<>>]

MatrixStep ==
    \/ PreviewVariants \/ GenerateMatrix \/ EditAttributes
    \/ \E n \in DOMAIN matrix : DeleteRow(n)
    \/ \E u \in DOMAIN Updates : CheckIdentifier(u) \/ CommitIdentifier(u)

ExportStep == FillEans \/ ValidateVariants \/ FindConflicts

VariationNext ==
    /\ \/ Plays("matrix") /\ MatrixStep
       \/ Plays("export") /\ ExportStep
    /\ UNCHANGED scene

-----------------------------------------------------------------------------
(* Properties.                                                             *)

\* A generation creates as many rows as the preview before it has promised, unless the
\* product or its rows have changed since: also when values are written in two ways, or
\* rows were deleted, or belong to values the product no longer has.
PreviewIsTrue ==
    [][outcome.at = "ready" /\ outcome'.at = "generated" /\ ~previewed.stale
        => outcome'.created = previewed.new]_variationVars

\* After a generation each way to choose one value for each attribute has one row, two
\* values that are normalized alike being one.
MatrixIsComplete ==
    outcome.at = "generated" =>
        LET Forms(name) == {Normal[v] : v \in ToSet(ValuesOf(name))}
            all == {f \in [ToSet(Dimensions) -> UNION {Forms(n) : n \in ToSet(Dimensions)}] :
                        \A n \in ToSet(Dimensions) : f[n] \in Forms(n)}
        IN  \A f \in all : Cardinality({n \in ActiveRows : matrix[n].key = f}) = 1

\* Two edits that both found an EAN free do not both get it, and none gets that of
\* another product; only a generation gives a row the product's own, whoever else has it.
IdentifiersApart ==
    \A n \in ActiveRows : matrix[n].ean # NoValue =>
        /\ matrix[n].ean \in Taken => matrix[n].ean = Own.ean
        /\ \A m \in ActiveRows : matrix[m].ean = matrix[n].ean => m = n

\* Each active variant has a payload of its own: its value for each attribute that it
\* chooses, its product's for the others, and its own image or its product's, never
\* those of the variant before it.
VariantsAreTheirOwn ==
    export.at = "ended" =>
        \A p \in DOMAIN export.products :
            LET product  == export.products[p]
                variants == ActiveVariants(product)
                before   == Len(ExpandAll(SubSeq(export.products, 1, p - 1)))
            IN  \A v \in DOMAIN variants :
                    LET payload == export.payloads[before + v]
                    IN  /\ payload.reference = product.reference
                        /\ payload.price \in {variants[v].price, product.price}
                        /\ payload.price = NoValue => product.price = NoValue
                        /\ \A n \in DOMAIN product.values :
                              LET own == {c.value : c \in {x \in ToSet(variants[v].choice) :
                                            x.id = product.values[n].id \/ x.name = product.values[n].name}}
                              IN  payload.values[n].value \in
                                    (IF own = {} THEN {product.values[n].value} ELSE own)
                        /\ \A link \in ToSet(payload.media) :
                              link \in ToSet(variants[v].media) \cup ToSet(product.media)

\* What is submitted of products with variants has EANs, no two the same, and, unless
\* the lookup has failed, none that a local product or variant has; each EAN reserved
\* from the pool is on exactly one payload, if no product without variants came with it.
ExportedAreUnique ==
    export.at = "ended" =>
        LET payloads == ExpandAll(WithVariants(export.products))
        IN  /\ \A n \in DOMAIN payloads :
                  /\ payloads[n].ean # NoValue
                  /\ payloads[n].ean \in StoredEans => export.skipped
                  /\ \A m \in DOMAIN payloads : payloads[m].ean = payloads[n].ean => m = n
            /\ \A k \in 1 .. export.reserved :
                  (\A p \in DOMAIN export.products : export.products[p].ean # PoolEans[k]) =>
                  Cardinality({n \in DOMAIN export.payloads : export.payloads[n].ean = PoolEans[k]}) = 1

VariationTypeOK ==
    /\ export.at \in {"fill", "validate", "conflicts", "ended", "refused", "raised"}
    /\ outcome.at \in {"ready", "generated", "raised"}
    /\ \A u \in DOMAIN Updates : updateAt[u] \in {"idle", "checked", "answered"}
=============================================================================
